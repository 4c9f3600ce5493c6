------------------------------ MODULE Ps2Proofs ------------------------------
(***************************************************************************)
(* Proofs about Ps2, for any number of key strokes, movements and timer    *)
(* ticks: what is true of a set-up that no device disturbed, and of the    *)
(* running system after it.                                                *)
(***************************************************************************)
EXTENDS Ps2, TLAPS

Before == {"idt_init", "keyboard_init", "enable", "ask"}
Configuring == {"status", "set"}
Starting == {"defaults", "defaults_ack", "reporting"}
Reporting == {"reporting_ack", "unmask", "sti", "running"}

(* The bytes of a packet from the n-th on *)
Rest(n) == [k \in 1 .. 3 - n |-> MouseByte(n + k - 1)]

(* The byte of a packet that comes next when the buffer has been read *)
Expected == IF buffer.from = "mouse" THEN (mouse_cycle + 1) % 3 ELSE mouse_cycle

(***************************************************************************)
(* A quiet set-up.  What has been configured is what the program asked     *)
(* for; the only bytes are the answers to its requests, and it reads each  *)
(* of them before it goes on; a mouse that already reports has a whole     *)
(* packet waiting.                                                         *)
(***************************************************************************)
ConfigOK ==
  /\ config \in [irq1 : {TRUE}, irq12 : BOOLEAN, kbd : {TRUE}, aux : BOOLEAN]
  /\ pc \notin Before \/ pc = "ask" => config.aux
  /\ pc \in Starting \cup Reporting => config.irq12
  /\ pc = "set" => status = Configuration

MasksOK ==
  /\ pc \in Before \cup Configuring \cup Starting \cup Reporting
  /\ masked \subseteq {1, 12}
  /\ pc \notin {"idt_init", "keyboard_init"} => 1 \notin masked
  /\ pc \in {"sti", "running"} => 12 \notin masked
  /\ pc # "idt_init" => offset = 32

DevicesOK ==
  /\ keyboard \in Seq({Scancode})
  /\ present \in BOOLEAN /\ streaming \in BOOLEAN
  /\ streaming <=> present /\ pc \in Reporting

AnswersOK ==
  IF pc = "status"
  THEN \/ answers = <<Configuration>> /\ buffer = NoByte
       \/ answers = <<>> /\ buffer = Configuration /\ port = Configuration
  ELSE answers = <<>>

Acknowledged(waiting) ==
  \/ present /\ mouse = <<MouseByte(ACK)>> /\ buffer = NoByte
  \/ present /\ mouse \in waiting /\ buffer = MouseByte(ACK)
  \/ ~present /\ mouse = <<>> /\ buffer = NoByte

SetUpOK ==
  /\ pc # "running" => mouse_cycle = 0
  /\ pc \in Before \cup Configuring \cup {"defaults", "reporting"} => mouse = <<>>
  /\ pc \in Before \cup {"set", "defaults", "reporting", "unmask", "sti"} => buffer = NoByte
  /\ pc = "defaults_ack" => Acknowledged({<<>>})
  /\ pc = "reporting_ack" => Acknowledged({<<>>, Rest(0)})
  /\ pc \in {"unmask", "sti"} => mouse \in {<<>>, Rest(0)}

(* Afterwards: a request is of the byte in the buffer, and the bytes of    *)
(* the mouse are in order from the one the driver waits for.               *)
RunningOK ==
  pc = "running" =>
    /\ mouse_cycle \in 0 .. 2
    /\ Full => irr \cap {1, 12} \subseteq Requests(buffer, config)
    /\ buffer \in {NoByte, Scancode, MouseByte(mouse_cycle)}
    /\ mouse = Rest(Expected) \/ (mouse = <<>> /\ Expected = 0)

Quiet == ConfigOK /\ MasksOK /\ DevicesOK /\ AnswersOK /\ SetUpOK /\ RunningOK

QuietInv == disturbed \in BOOLEAN /\ (~disturbed => Quiet)

-----------------------------------------------------------------------------
LEMMA Bytes ==
  /\ NoByte # Scancode /\ NoByte # Configuration /\ Scancode # Configuration
  /\ NoByte.from = "none" /\ Scancode.from = "keyboard" /\ Configuration.from = "controller"
  /\ \A n \in Int : /\ MouseByte(n) \notin {NoByte, Scancode, Configuration}
                    /\ MouseByte(n).from = "mouse" /\ MouseByte(n).what = n
  /\ \A c : /\ Requests(NoByte, c) = {}
            /\ Requests(Scancode, c) \subseteq {1}
            /\ \A n \in Int : Requests(MouseByte(n), c) \subseteq {12}
BY DEF NoByte, Scancode, Configuration, MouseByte, Requests

LEMMA RestSteps ==
  ASSUME NEW n \in 0 .. 2
  PROVE  /\ Rest(n) # <<>> /\ Head(Rest(n)) = MouseByte(n)
         /\ Tail(Rest(n)) = IF n = 2 THEN <<>> ELSE Rest(n + 1)
         /\ \A k \in 1 .. Len(Rest(n)) : Rest(n)[k] # MouseByte(ACK)
<1>1. Rest(n) \in Seq({MouseByte(0), MouseByte(1), MouseByte(2)}) /\ Len(Rest(n)) = 3 - n
  BY DEF Rest
<1>2. \A k \in 1 .. 3 - n : Rest(n)[k] = MouseByte(n + k - 1)
  BY DEF Rest
<1>3. Head(Rest(n)) = MouseByte(n) /\ Rest(n) # <<>>
  BY <1>1, <1>2
<1>4. n # 2 => Tail(Rest(n)) = Rest(n + 1)
  BY <1>1, <1>2 DEF Rest
<1>5. n = 2 => Tail(Rest(n)) = <<>>
  <2>1. ASSUME n = 2
        PROVE  Tail(Rest(n)) \in Seq({MouseByte(0), MouseByte(1), MouseByte(2)})
                 /\ Len(Tail(Rest(n))) = 0
    BY <1>1, <1>3, <2>1
  <2>2. \A S : \A q \in Seq(S) : Len(q) = 0 => q = <<>>
    OBVIOUS
  <2>3. QED BY <2>1, <2>2
<1>6. \A k \in 1 .. Len(Rest(n)) : Rest(n)[k] # MouseByte(ACK)
  BY <1>1, <1>2, Bytes DEF ACK
<1>7. QED BY <1>3, <1>4, <1>5, <1>6

LEMMA FirstRest == Rest(0) = [k \in 1 .. 3 |-> MouseByte(k - 1)]
BY DEF Rest

LEMMA InitQuiet == Init => QuietInv
<1> SUFFICES ASSUME Init PROVE Quiet
  BY DEF QuietInv, Init
<1> USE DEF Before, Configuring, Starting, Reporting
<1>1. ConfigOK  BY DEF Init, ConfigOK
<1>2. MasksOK /\ AnswersOK  BY DEF Init, MasksOK, AnswersOK
<1>3. DevicesOK
  <2>1. keyboard \in Seq({Scancode})  BY DEF Init
  <2>2. present \in BOOLEAN /\ streaming = FALSE /\ pc \notin Reporting  BY DEF Init
  <2>3. QED BY <2>1, <2>2 DEF DevicesOK
<1>4. SetUpOK /\ RunningOK  BY DEF Init, SetUpOK, RunningOK
<1>5. QED BY <1>1, <1>2, <1>3, <1>4 DEF Quiet

(* The stages that exchange no byte with a device *)
LEMMA ConfigureQuiet ==
  ASSUME Quiet, \/ idt_init \/ keyboard_init \/ EnableAux \/ SetStatus
                \/ UnmaskMouse \/ Sti
  PROVE  Quiet'
<1> USE DEF Quiet, Before, Configuring, Starting, Reporting, Goto, cpu, pic, controller,
            queues, device
<1>1. CASE idt_init \/ keyboard_init
  <2>1. ConfigOK' /\ MasksOK'
    BY <1>1 DEF ConfigOK, MasksOK, idt_init, keyboard_init, register_interrupt_handler
  <2>2. DevicesOK' /\ AnswersOK'
    BY <1>1 DEF DevicesOK, AnswersOK, idt_init, keyboard_init
  <2>3. SetUpOK' /\ RunningOK'
    BY <1>1 DEF SetUpOK, RunningOK, idt_init, keyboard_init
  <2>4. QED BY <2>1, <2>2, <2>3
<1>2. CASE EnableAux \/ SetStatus
  <2>1. ConfigOK'
    <3>1. CASE EnableAux  BY <1>2, <3>1 DEF ConfigOK, EnableAux
    <3>2. CASE SetStatus
      <4>1. config' = [config EXCEPT !.irq12 = TRUE, !.aux = TRUE]
        BY <3>2 DEF ConfigOK, SetStatus, NewConfig
      <4>2. QED BY <3>2, <4>1 DEF ConfigOK, SetStatus
    <3>3. QED BY <1>2, <3>1, <3>2
  <2>2. MasksOK'
    BY <1>2 DEF MasksOK, EnableAux, SetStatus
  <2>3. DevicesOK' /\ AnswersOK'
    BY <1>2 DEF DevicesOK, AnswersOK, EnableAux, SetStatus
  <2>4. SetUpOK' /\ RunningOK'
    BY <1>2 DEF SetUpOK, RunningOK, EnableAux, SetStatus
  <2>5. QED BY <2>1, <2>2, <2>3, <2>4
<1>3. CASE UnmaskMouse \/ Sti
  <2>1. ConfigOK' /\ MasksOK'
    <3>1. ConfigOK'  BY <1>3 DEF ConfigOK, UnmaskMouse, Sti
    <3>2. MasksOK'  BY <1>3 DEF MasksOK, UnmaskMouse, Sti
    <3>3. QED BY <3>1, <3>2
  <2>2. DevicesOK' /\ AnswersOK'
    BY <1>3 DEF DevicesOK, AnswersOK, UnmaskMouse, Sti
  <2>3. SetUpOK'  BY <1>3 DEF SetUpOK, UnmaskMouse, Sti
  <2>4. RunningOK'
    BY <1>3, Bytes DEF SetUpOK, RunningOK, UnmaskMouse, Sti, Full, Expected
  <2>5. QED BY <2>1, <2>2, <2>3, <2>4
<1>4. QED BY <1>1, <1>2, <1>3

(* The stages that ask a device for something *)
LEMMA AskQuiet ==
  ASSUME Quiet, AskStatus \/ UseDefaults \/ EnableReporting
  PROVE  Quiet'
<1> USE DEF Quiet, Before, Configuring, Starting, Reporting, Goto, cpu, pic, controller,
            queues, device
<1>1. Append(<<>>, Configuration) = <<Configuration>>
      /\ Append(<<>>, MouseByte(ACK)) = <<MouseByte(ACK)>>
  OBVIOUS
<1>2. CASE AskStatus
  <2>1. ConfigOK' /\ MasksOK'  BY <1>2 DEF ConfigOK, MasksOK, AskStatus
  <2>2. DevicesOK' /\ AnswersOK'
    BY <1>1, <1>2 DEF DevicesOK, AnswersOK, SetUpOK, AskStatus
  <2>3. SetUpOK' /\ RunningOK'
    BY <1>2 DEF SetUpOK, RunningOK, AskStatus
  <2>4. QED BY <2>1, <2>2, <2>3
<1>3. CASE UseDefaults
  <2>1. ConfigOK' /\ MasksOK'
    BY <1>3 DEF ConfigOK, MasksOK, UseDefaults, mouse_write
  <2>2. DevicesOK' /\ AnswersOK'
    BY <1>3 DEF DevicesOK, AnswersOK, UseDefaults, mouse_write
  <2>3. SetUpOK' /\ RunningOK'
    BY <1>1, <1>3 DEF SetUpOK, RunningOK, Acknowledged, UseDefaults, mouse_write
  <2>4. QED BY <2>1, <2>2, <2>3
<1>4. CASE EnableReporting
  <2>1. ConfigOK' /\ MasksOK'
    BY <1>4 DEF ConfigOK, MasksOK, EnableReporting, mouse_write
  <2>2. DevicesOK' /\ AnswersOK'
    BY <1>4 DEF DevicesOK, AnswersOK, EnableReporting, mouse_write
  <2>3. SetUpOK' /\ RunningOK'
    BY <1>1, <1>4 DEF SetUpOK, RunningOK, Acknowledged, EnableReporting, mouse_write
  <2>4. QED BY <2>1, <2>2, <2>3
<1>5. QED BY <1>2, <1>3, <1>4

(* The stages that read an answer: it is there or on its way, so the wait  *)
(* for it does not give up.                                                *)
LEMMA ReadQuiet ==
  ASSUME Quiet, ReadStatus \/ ReadAck
  PROVE  Quiet'
<1> USE DEF Quiet, Before, Configuring, Starting, Reporting, Goto, cpu, pic, controller,
            queues, device
<1>1. CASE ReadStatus
  <2>1. Full /\ buffer = Configuration /\ port = Configuration /\ answers = <<>>
    BY <1>1, Bytes DEF ReadStatus, mouse_read, Silent, AnswersOK, Full
  <2>2. buffer' = NoByte  BY <1>1, <2>1 DEF ReadStatus, mouse_read, ReadPort, Silent
  <2>3. ConfigOK' /\ MasksOK'  BY <1>1, <2>1 DEF ConfigOK, MasksOK, ReadStatus
  <2>4. DevicesOK' /\ AnswersOK'
    BY <1>1, <2>1 DEF DevicesOK, AnswersOK, ReadStatus
  <2>5. SetUpOK' /\ RunningOK'
    BY <1>1, <2>2 DEF SetUpOK, RunningOK, ReadStatus
  <2>6. QED BY <2>3, <2>4, <2>5
<1>2. CASE ReadAck
  <2>1. /\ config.aux /\ answers = <<>> /\ buffer' = NoByte
        /\ pc = "defaults_ack" => mouse = <<>>
        /\ pc = "reporting_ack" => mouse \in {<<>>, Rest(0)}
    <3>1. config.aux /\ answers = <<>>
      BY <1>2 DEF ConfigOK, AnswersOK, ReadAck
    <3>2. buffer' = NoByte
      BY <1>2 DEF ReadAck, mouse_read, ReadPort, Silent, Full
    <3>3. ~(mouse = <<MouseByte(ACK)>> /\ buffer = NoByte)
      BY <1>2, <3>1 DEF ReadAck, mouse_read, Silent, Full
    <3>4. QED BY <1>2, <3>1, <3>2, <3>3 DEF ReadAck, SetUpOK, Acknowledged
  <2>2. ConfigOK' /\ MasksOK'  BY <1>2 DEF ConfigOK, MasksOK, ReadAck
  <2>3. DevicesOK' /\ AnswersOK'  BY <1>2 DEF DevicesOK, AnswersOK, ReadAck
  <2>4. SetUpOK'
    <3>1. mouse_cycle' = 0 /\ UNCHANGED mouse  BY <1>2 DEF SetUpOK, ReadAck
    <3>2. pc' \in {"reporting", "unmask"}  BY <1>2 DEF ReadAck
    <3>3. \/ pc = "defaults_ack" /\ pc' = "reporting"
          \/ pc = "reporting_ack" /\ pc' = "unmask"
      BY <1>2 DEF ReadAck
    <3>4. QED BY <2>1, <3>1, <3>3 DEF SetUpOK
  <2>5. RunningOK'  BY <1>2 DEF RunningOK, ReadAck
  <2>6. QED BY <2>2, <2>3, <2>4, <2>5
<1>3. QED BY <1>1, <1>2

-----------------------------------------------------------------------------
(* Devices *)

(* A byte that enters the buffer without disturbing a set-up is an answer, *)
(* or comes when the requests before it have been served.                  *)
LEMMA EnterQuiet ==
  ASSUME Quiet, ~disturbed', disturbed \in BOOLEAN, EnterBuffer
  PROVE  Quiet' /\ ~disturbed
<1> USE DEF Before, Configuring, Starting, Reporting, cpu
<1>1. PICK b \in {buffer'} : Enter(b)
  BY DEF EnterBuffer, Enter
<1>2. /\ ~disturbed /\ buffer = NoByte /\ buffer' = b /\ port' = b
      /\ irr' = irr \cup Requests(b, config)
      /\ b \in {Configuration, MouseByte(ACK)} \/ (pc = "running" /\ irr \cap {1, 12} = {})
      /\ UNCHANGED <<cpu, masked, in_service, config, present, streaming>>
  BY <1>1 DEF Enter, Full
<1>3. ConfigOK' /\ MasksOK'  BY <1>2 DEF Quiet, ConfigOK, MasksOK
<1>4. CASE /\ answers # <<>> /\ b = Head(answers)
           /\ answers' = Tail(answers) /\ UNCHANGED <<keyboard, mouse>>
  <2>1. pc = "status" /\ answers = <<Configuration>>
    BY <1>4 DEF Quiet, AnswersOK
  <2>2. Head(<<Configuration>>) = Configuration /\ Tail(<<Configuration>>) = <<>>
    OBVIOUS
  <2>3. b = Configuration /\ answers' = <<>>  BY <1>4, <2>1, <2>2
  <2>4. DevicesOK' /\ AnswersOK'
    BY <1>2, <1>4, <2>1, <2>3 DEF Quiet, DevicesOK, AnswersOK
  <2>5. SetUpOK' /\ RunningOK'
    BY <1>2, <1>4, <2>1 DEF Quiet, SetUpOK, RunningOK
  <2>6. QED BY <1>2, <1>3, <2>4, <2>5 DEF Quiet
<1>5. CASE /\ keyboard # <<>> /\ b = Head(keyboard)
           /\ keyboard' = Tail(keyboard) /\ UNCHANGED <<answers, mouse>>
  <2>1. b = Scancode /\ keyboard' \in Seq({Scancode})
    <3>1. keyboard \in Seq({Scancode})  BY DEF Quiet, DevicesOK
    <3>2. Head(keyboard) \in {Scancode} /\ Tail(keyboard) \in Seq({Scancode})
      BY <1>5, <3>1
    <3>3. QED BY <1>5, <3>2
  <2>2. pc = "running" /\ irr \cap {1, 12} = {}
    BY <1>2, <2>1, Bytes DEF ACK
  <2>3. DevicesOK' /\ AnswersOK'
    BY <1>2, <1>5, <2>1, <2>2 DEF Quiet, DevicesOK, AnswersOK
  <2>4. SetUpOK'  BY <1>2, <2>2 DEF SetUpOK
  <2>5. RunningOK'
    <3>1. Expected' = Expected
      BY <1>2, <2>1, Bytes DEF Expected
    <3>2. irr' \cap {1, 12} \subseteq Requests(buffer', config')
      BY <1>2, <2>2
    <3>3. QED BY <1>2, <1>5, <2>1, <2>2, <3>1, <3>2 DEF Quiet, RunningOK
  <2>6. QED BY <1>2, <1>3, <2>3, <2>4, <2>5 DEF Quiet
<1>6. CASE /\ mouse # <<>> /\ b = Head(mouse)
           /\ mouse' = Tail(mouse) /\ UNCHANGED <<answers, keyboard>>
  <2>1. DevicesOK'  BY <1>2, <1>6 DEF Quiet, DevicesOK
  <2>2. CASE pc = "running"
    <3>1. /\ mouse_cycle \in 0 .. 2 /\ Expected = mouse_cycle
          /\ mouse = Rest(mouse_cycle)
      BY <1>2, <1>6, <2>2, Bytes DEF Quiet, RunningOK, Expected
    <3>2. /\ b = MouseByte(mouse_cycle) /\ mouse_cycle \in Int
          /\ mouse' = IF mouse_cycle = 2 THEN <<>> ELSE Rest(mouse_cycle + 1)
      BY <1>6, <3>1, RestSteps
    <3>3. irr \cap {1, 12} = {}
      BY <1>2, <3>1, <3>2, Bytes DEF ACK
    <3>4. Expected' = IF mouse_cycle = 2 THEN 0 ELSE mouse_cycle + 1
      <4>1. mouse_cycle' = mouse_cycle /\ buffer'.from = "mouse"
        BY <1>2, <3>2, Bytes
      <4>2. QED BY <3>1, <4>1 DEF Expected
    <3>5. irr' \cap {1, 12} \subseteq Requests(buffer', config')
      BY <1>2, <3>3
    <3>6. RunningOK'
      BY <1>2, <2>2, <3>1, <3>2, <3>4, <3>5 DEF RunningOK
    <3>7. AnswersOK' /\ SetUpOK'
      BY <1>2, <1>6, <2>2 DEF Quiet, AnswersOK, SetUpOK
    <3>8. QED BY <1>2, <1>3, <2>1, <3>6, <3>7 DEF Quiet
  <2>3. CASE pc # "running"
    <3>1. b \in {Configuration, MouseByte(ACK)}  BY <1>2, <2>3
    <3>2. b # MouseByte(0) /\ mouse # Rest(0)
      <4>1. MouseByte(0) \notin {Configuration, MouseByte(ACK)}  BY Bytes DEF ACK
      <4>2. Head(Rest(0)) = MouseByte(0)  BY RestSteps
      <4>3. QED BY <1>6, <3>1, <4>1, <4>2
    <3>3. /\ pc \in {"defaults_ack", "reporting_ack"}
          /\ present /\ mouse = <<MouseByte(ACK)>>
      BY <1>2, <1>6, <2>3, <3>2
         DEF Quiet, MasksOK, SetUpOK, Acknowledged
    <3>4. /\ Head(<<MouseByte(ACK)>>) = MouseByte(ACK)
          /\ Tail(<<MouseByte(ACK)>>) = <<>>
      OBVIOUS
    <3>5. b = MouseByte(ACK) /\ mouse' = <<>>  BY <1>6, <3>3, <3>4
    <3>6. SetUpOK' /\ RunningOK'
      BY <1>2, <3>3, <3>5 DEF Quiet, SetUpOK, RunningOK, Acknowledged
    <3>7. AnswersOK'  BY <1>2, <1>6, <3>3 DEF Quiet, AnswersOK
    <3>8. QED BY <1>2, <1>3, <2>1, <3>6, <3>7 DEF Quiet
  <2>4. QED BY <2>2, <2>3
<1>7. QED BY <1>2, <1>4, <1>5, <1>6 DEF EnterBuffer, Enter

(* A key stroke only waits, and a movement is a packet after the last one. *)
LEMMA DeviceQuiet ==
  ASSUME Quiet, Stroke \/ Movement \/ Tick
  PROVE  Quiet'
<1> USE DEF Quiet, Before, Configuring, Starting, Reporting, cpu, pic, controller,
            queues, device
<1>1. CASE Stroke
  <2>1. ConfigOK' /\ MasksOK' /\ AnswersOK'
    BY <1>1 DEF ConfigOK, MasksOK, AnswersOK, Stroke
  <2>2. DevicesOK'
    <3>1. keyboard' \in Seq({Scancode})  BY <1>1 DEF DevicesOK, Stroke
    <3>2. QED BY <1>1, <3>1 DEF DevicesOK, Stroke
  <2>3. SetUpOK' /\ RunningOK'
    <3>1. UNCHANGED <<mouse, buffer, config, irr, pc, mouse_cycle, present>>
      BY <1>1 DEF Stroke
    <3>2. QED BY <3>1 DEF SetUpOK, Acknowledged, RunningOK, Full, Expected
  <2>4. QED BY <2>1, <2>2, <2>3
<1>2. CASE Movement
  <2>1. ConfigOK' /\ MasksOK' /\ AnswersOK' /\ DevicesOK'
    BY <1>2 DEF ConfigOK, MasksOK, AnswersOK, DevicesOK, Movement
  <2>2. /\ mouse = <<>> /\ mouse' = Rest(0) /\ pc \in Reporting /\ present
        /\ UNCHANGED <<buffer, config, irr, pc, mouse_cycle, present>>
    BY <1>2, FirstRest DEF DevicesOK, Movement
  <2>3. SetUpOK'
    <3>1. <<>> # <<MouseByte(ACK)>>  OBVIOUS
    <3>2. QED BY <2>2, <3>1 DEF SetUpOK, Acknowledged
  <2>4. RunningOK'
    <3>1. pc = "running" => Expected = 0
      BY <2>2, RestSteps DEF RunningOK, Expected
    <3>2. Expected' = Expected  BY <2>2 DEF Expected
    <3>3. QED BY <2>2, <3>1, <3>2 DEF RunningOK, Full
  <2>5. QED BY <2>1, <2>3, <2>4
<1>3. CASE Tick
  <2>1. ConfigOK' /\ MasksOK' /\ AnswersOK' /\ DevicesOK'
    BY <1>3 DEF ConfigOK, MasksOK, AnswersOK, DevicesOK, Tick
  <2>2. /\ UNCHANGED <<buffer, config, pc, mouse_cycle, present, mouse>>
        /\ irr' \cap {1, 12} = irr \cap {1, 12}
    BY <1>3 DEF Tick
  <2>3. SetUpOK' /\ RunningOK'
    BY <2>2 DEF SetUpOK, Acknowledged, RunningOK, Full, Expected
  <2>4. QED BY <2>1, <2>3
<1>4. QED BY <1>1, <1>2, <1>3

-----------------------------------------------------------------------------
(* Interrupts *)

(* Which handler runs, and what it may find in the buffer *)
LEMMA WhoseInterrupt ==
  ASSUME Quiet, Interrupt
  PROVE  /\ pc = "running"
         /\ UNCHANGED <<pc, offset, registered, status, masked, config, queues, device>>
         /\ \/ /\ buffer.from # "mouse" /\ \E p : p \subseteq irr /\ keyboard_handler(p)
            \/ \E p : p \subseteq irr /\ mouse_handler(p)
            \/ /\ irr' \subseteq irr /\ UNCHANGED <<buffer, port, mouse_cycle>>
<1>1. /\ pc = "running"
      /\ UNCHANGED <<pc, offset, registered, status, masked, config, queues, device>>
  BY DEF Interrupt
<1>2. PICK irq \in {0, 1, 12} : irq \in irr /\ Handle(offset + irq, irr \ {irq})
  BY DEF Interrupt, Urgent, Deliverable, IRQs
<1>3. offset = 32  BY <1>1 DEF Quiet, MasksOK
<1>4. irq = 1 => buffer.from # "mouse"
  <2>1. ASSUME irq = 1, buffer = MouseByte(mouse_cycle) PROVE FALSE
    <3>1. mouse_cycle \in Int /\ (Full => irr \cap {1, 12} \subseteq Requests(buffer, config))
      BY <1>1 DEF Quiet, RunningOK
    <3>2. Full /\ Requests(buffer, config) \subseteq {12}
      BY <2>1, <3>1, Bytes DEF Full
    <3>3. 1 \in irr \cap {1, 12}  BY <1>2, <2>1
    <3>4. QED BY <3>1, <3>2, <3>3
  <2>2. QED BY <1>1, <2>1, Bytes DEF Quiet, RunningOK
<1>5. CASE irq = 0
  BY <1>1, <1>2, <1>3, <1>5 DEF Handle, KeyboardVector, MouseVector
<1>6. CASE irq = 1
  BY <1>1, <1>2, <1>3, <1>4, <1>6 DEF Handle, KeyboardVector, MouseVector
<1>7. CASE irq = 12
  BY <1>1, <1>2, <1>3, <1>7 DEF Handle, KeyboardVector, MouseVector
<1>8. QED BY <1>2, <1>5, <1>6, <1>7

(* What a handler does to the buffer and the place in the packet *)
LEMMA InterruptEffect ==
  ASSUME Quiet, Interrupt
  PROVE  /\ irr' \subseteq irr
         /\ \/ UNCHANGED <<buffer, mouse_cycle>>
            \/ buffer.from # "mouse" /\ buffer' = NoByte /\ UNCHANGED mouse_cycle
            \/ /\ buffer = MouseByte(mouse_cycle) /\ buffer' = NoByte
               /\ mouse_cycle' = (mouse_cycle + 1) % 3
<1>1. pc = "running" /\ mouse_cycle \in 0 .. 2
      /\ buffer \in {NoByte, Scancode, MouseByte(mouse_cycle)}
  BY WhoseInterrupt DEF Quiet, RunningOK
<1>2. ASSUME buffer.from # "mouse", NEW p, p \subseteq irr, keyboard_handler(p)
      PROVE  irr' \subseteq irr /\ buffer' = NoByte /\ UNCHANGED mouse_cycle
  BY <1>2 DEF keyboard_handler, ReadPort
<1>3. ASSUME NEW p, p \subseteq irr, mouse_handler(p)
      PROVE  /\ irr' \subseteq irr
             /\ \/ UNCHANGED <<buffer, mouse_cycle>>
                \/ /\ buffer = MouseByte(mouse_cycle) /\ buffer' = NoByte
                   /\ mouse_cycle' = (mouse_cycle + 1) % 3
  <2>1. CASE buffer.from # "mouse"  BY <1>3, <2>1 DEF mouse_handler
  <2>2. CASE buffer.from = "mouse"
    <3>1. buffer = MouseByte(mouse_cycle) /\ buffer.what = mouse_cycle
      BY <1>1, <2>2, Bytes
    <3>2. irr' \subseteq irr /\ buffer' = NoByte /\ mouse_cycle' \in NextCycle(buffer)
      BY <1>3, <2>2 DEF mouse_handler, ReadPort
    <3>3. NextCycle(buffer) = {(mouse_cycle + 1) % 3}
      BY <1>1, <3>1 DEF NextCycle
    <3>4. QED BY <3>1, <3>2, <3>3
  <2>3. QED BY <2>1, <2>2
<1>4. QED BY <1>2, <1>3, WhoseInterrupt

LEMMA InterruptQuiet ==
  ASSUME Quiet, Interrupt
  PROVE  Quiet'
<1> USE DEF Before, Configuring, Starting, Reporting, queues, device
<1>1. /\ pc = "running" /\ UNCHANGED <<pc, offset, registered, status, masked, config>>
      /\ UNCHANGED <<queues, device>>
  BY WhoseInterrupt
<1>2. ConfigOK' /\ MasksOK' /\ AnswersOK' /\ DevicesOK' /\ SetUpOK'
  BY <1>1 DEF Quiet, ConfigOK, MasksOK, AnswersOK, DevicesOK, SetUpOK
<1>3. /\ mouse_cycle \in 0 .. 2 /\ buffer \in {NoByte, Scancode, MouseByte(mouse_cycle)}
      /\ Full => irr \cap {1, 12} \subseteq Requests(buffer, config)
      /\ mouse = Rest(Expected) \/ (mouse = <<>> /\ Expected = 0)
  BY <1>1 DEF Quiet, RunningOK
<1>4. Expected' = Expected /\ mouse_cycle' \in 0 .. 2
  <2>1. CASE UNCHANGED <<buffer, mouse_cycle>>  BY <1>3, <2>1 DEF Expected
  <2>2. CASE buffer.from # "mouse" /\ buffer' = NoByte /\ UNCHANGED mouse_cycle
    BY <1>3, <2>2, Bytes DEF Expected
  <2>3. CASE /\ buffer = MouseByte(mouse_cycle) /\ buffer' = NoByte
             /\ mouse_cycle' = (mouse_cycle + 1) % 3
    <3>1. buffer.from = "mouse" /\ buffer'.from # "mouse"  BY <1>3, <2>3, Bytes
    <3>2. QED BY <1>3, <2>3, <3>1 DEF Expected
  <2>4. QED BY <2>1, <2>2, <2>3, InterruptEffect
<1>5. /\ buffer' \in {NoByte, Scancode, MouseByte(mouse_cycle')}
      /\ Full' => irr' \cap {1, 12} \subseteq Requests(buffer', config')
  BY <1>1, <1>3, InterruptEffect DEF Full
<1>6. RunningOK'  BY <1>1, <1>3, <1>4, <1>5 DEF RunningOK
<1>7. QED BY <1>2, <1>6 DEF Quiet

-----------------------------------------------------------------------------
LEMMA QuietInvariant == Spec => []QuietInv
<1>1. QuietInv /\ [Next]_vars => QuietInv'
  <2> SUFFICES ASSUME QuietInv, [Next]_vars PROVE QuietInv'
    OBVIOUS
  <2>1. CASE EnterBuffer
    <3>1. disturbed' \in BOOLEAN  BY <2>1 DEF EnterBuffer, Enter
    <3>2. ASSUME ~disturbed' PROVE Quiet /\ Quiet'
      <4>1. ~disturbed  BY <2>1, <3>2 DEF EnterBuffer, Enter, QuietInv
      <4>2. QED BY <2>1, <3>2, <4>1, EnterQuiet DEF QuietInv
    <3>3. QED BY <3>1, <3>2 DEF QuietInv
  <2>2. CASE SetUp \/ Interrupt \/ Stroke \/ Movement \/ Tick
    <3>1. UNCHANGED disturbed
      BY <2>2 DEF SetUp, Interrupt, Stroke, Movement, Tick, idt_init, keyboard_init,
                  EnableAux, AskStatus, ReadStatus, SetStatus, UseDefaults,
                  EnableReporting, ReadAck, UnmaskMouse, Sti, mouse_write, device
    <3>2. Quiet => Quiet'
      BY <2>2, ConfigureQuiet, AskQuiet, ReadQuiet, InterruptQuiet, DeviceQuiet DEF SetUp
    <3>3. QED BY <3>1, <3>2 DEF QuietInv
  <2>3. CASE UNCHANGED vars
    <3>1. UNCHANGED <<cpu, pic, controller, queues, device>>  BY <2>3 DEF vars
    <3>2. Expected' = Expected /\ Full' = Full
      BY <3>1 DEF Expected, Full, cpu, controller
    <3>3. \A w : Acknowledged(w)' = Acknowledged(w)
      BY <3>1 DEF Acknowledged, controller, queues, device
    <3>4. Quiet => ConfigOK' /\ MasksOK'
      BY <3>1 DEF Quiet, ConfigOK, MasksOK, cpu, pic, controller
    <3>5. Quiet => DevicesOK' /\ AnswersOK'
      BY <3>1 DEF Quiet, DevicesOK, AnswersOK, cpu, controller, queues, device
    <3>6. Quiet => SetUpOK'
      BY <3>1, <3>3 DEF Quiet, SetUpOK, cpu, controller, queues
    <3>7. Quiet => RunningOK'
      BY <3>1, <3>2 DEF Quiet, RunningOK, cpu, pic, controller, queues
    <3>8. UNCHANGED disturbed  BY <3>1 DEF device
    <3>9. QED BY <3>4, <3>5, <3>6, <3>7, <3>8 DEF QuietInv, Quiet
  <2>4. QED BY <2>1, <2>2, <2>3 DEF Next
<1>2. QED BY <1>1, InitQuiet, PTL DEF Spec

(* After a quiet set-up both devices work: nothing the program asked for   *)
(* was lost or mistaken, and no acknowledgement is left among the bytes of *)
(* the mouse, however many keys are struck and movements made.             *)
THEOREM DevicesWork == Spec => []InputsReady
<1>1. QuietInv => InputsReady
  <2> SUFFICES ASSUME Quiet, pc = "running"
               PROVE  /\ config = [irq1 |-> TRUE, irq12 |-> TRUE, kbd |-> TRUE, aux |-> TRUE]
                      /\ masked = {}
                      /\ present => streaming
                      /\ MouseByte(ACK) \notin {buffer} \cup {mouse[i] : i \in 1 .. Len(mouse)}
    BY DEF QuietInv, InputsReady
  <2> USE DEF Before, Starting, Reporting
  <2>1. config = [irq1 |-> TRUE, irq12 |-> TRUE, kbd |-> TRUE, aux |-> TRUE]
    BY DEF Quiet, ConfigOK
  <2>2. masked = {} /\ (present => streaming)  BY DEF Quiet, MasksOK, DevicesOK
  <2>3. /\ mouse_cycle \in 0 .. 2 /\ Expected \in 0 .. 2
        /\ buffer \in {NoByte, Scancode, MouseByte(mouse_cycle)}
        /\ mouse \in {<<>>, Rest(Expected)}
    BY DEF Quiet, RunningOK, Expected
  <2>4. buffer # MouseByte(ACK)
    <3>1. mouse_cycle # ACK  BY <2>3 DEF ACK
    <3>2. QED BY <2>3, <3>1, Bytes DEF ACK
  <2>5. \A i \in 1 .. Len(mouse) : mouse[i] # MouseByte(ACK)
    BY <2>3, RestSteps
  <2>6. QED BY <2>1, <2>2, <2>4, <2>5
<1>2. QED BY <1>1, QuietInvariant, PTL

(* After a quiet set-up each byte of the mouse is taken by its own handler *)
(* and counted at its place, for every order of interrupts and bytes.      *)
THEOREM BytesInPlace == Spec => MouseBytesInPlace
<1>1. QuietInv /\ [Next]_vars =>
        [pc = "running" /\ ~disturbed' =>
           (IF mouse_cycle' = mouse_cycle
            THEN buffer.from = "mouse" => buffer' = buffer
            ELSE buffer = MouseByte(mouse_cycle))]_vars
  <2> SUFFICES ASSUME QuietInv, Next, pc = "running", ~disturbed'
               PROVE  IF mouse_cycle' = mouse_cycle
                      THEN buffer.from = "mouse" => buffer' = buffer
                      ELSE buffer = MouseByte(mouse_cycle)
    OBVIOUS
  <2>1. CASE Interrupt
    <3>1. Quiet
      BY <2>1 DEF QuietInv, Interrupt, device
    <3>2. mouse_cycle \in 0 .. 2  BY <3>1 DEF Quiet, RunningOK
    <3>3. (mouse_cycle + 1) % 3 # mouse_cycle  BY <3>2
    <3>4. QED BY <2>1, <3>1, <3>3, InterruptEffect
  <2>2. CASE EnterBuffer
    BY <2>2, Bytes DEF EnterBuffer, Enter, Full, cpu
  <2>3. CASE Stroke \/ Movement \/ Tick
    BY <2>3 DEF Stroke, Movement, Tick, cpu, controller
  <2>4. ~SetUp
    BY DEF SetUp, idt_init, keyboard_init, EnableAux, AskStatus, ReadStatus, SetStatus,
           UseDefaults, EnableReporting, ReadAck, UnmaskMouse, Sti, Goto
  <2>5. QED BY <2>1, <2>2, <2>3, <2>4 DEF Next
<1>2. QED BY <1>1, QuietInvariant, PTL DEF Spec, MouseBytesInPlace
=============================================================================
