--------------------------------- MODULE Ps2 ---------------------------------
(***************************************************************************)
(* How input reaches the handlers: the set-up that kernel_main performs    *)
(* with interrupts off (idt_init, keyboard_init, mouse_init), and the      *)
(* dispatch of boot/isr.s and kernel/idt.c after sti, against the 8042     *)
(* controller and the two 8259 interrupt controllers.                      *)
(*                                                                         *)
(* The controller has one output buffer for keyboard, mouse and its own    *)
(* answers, and mouse_init polls that buffer while a key may be pressed.   *)
(* A byte is [from, what]: a scancode, an acknowledgement or the n-th byte *)
(* of a mouse packet, or the controller's configuration.                   *)
(*                                                                         *)
(* The hardware is external, and does what the code relies on: an enabled  *)
(* request is latched when its byte enters the buffer, masked or not; a    *)
(* request whose byte is polled away may stay latched or not; the buffer   *)
(* is announced as the mouse's (status bit 5) only while it is full.       *)
(***************************************************************************)
EXTENDS Integers, Sequences

CONSTANT MaxEvents       (* bound: key strokes and mouse movements *)

VARIABLES
  pc,                    (* where kernel_main is                             *)
  offset,                (* vector of IRQ 0                                  *)
  registered,            (* vectors with an entry in interrupt_handlers      *)
  status,                (* mouse_init's local                               *)
  mouse_cycle,
  masked, irr, in_service,           (* the two PICs, by IRQ                 *)
  config,                (* [irq1, irq12, kbd, aux] of the controller        *)
  buffer, port,          (* its output buffer; what reading the port returns *)
  answers, keyboard, mouse,          (* bytes waiting to enter the buffer    *)
  present, streaming,    (* whether there is a mouse, and whether it reports *)
  events, disturbed      (* history: a device sent a byte before the set-up
                            was over and the requests it left were served *)

cpu == <<pc, offset, registered, status, mouse_cycle>>
pic == <<masked, irr, in_service>>
controller == <<config, buffer, port>>
queues == <<answers, keyboard, mouse>>
device == <<present, streaming, events, disturbed>>
vars == <<cpu, pic, controller, queues, device>>

NoByte == [from |-> "none", what |-> 0]
Scancode == [from |-> "keyboard", what |-> 0]
Configuration == [from |-> "controller", what |-> 0]
ACK == 3
MouseByte(n) == [from |-> "mouse", what |-> n]

KeyboardVector == 33
MouseVector == 44
CascadeLine == 2
IRQs == {0, 1, 12}

Full == buffer # NoByte

Init ==
  /\ pc = "idt_init"
  /\ offset = 8
  /\ registered = {}
  /\ status = NoByte
  /\ mouse_cycle = 0
  /\ masked \in SUBSET {1, 12} /\ irr = {} /\ in_service = {}
  /\ config \in [irq1 : {TRUE}, irq12 : {FALSE}, kbd : {TRUE}, aux : BOOLEAN]
  /\ buffer = NoByte /\ port = NoByte
  /\ answers = <<>> /\ keyboard = <<>> /\ mouse = <<>>
  /\ present \in BOOLEAN /\ streaming = FALSE
  /\ events = 0 /\ disturbed = FALSE

-----------------------------------------------------------------------------
(* The devices and the controller *)

Event == /\ events < MaxEvents /\ events' = events + 1

Stroke ==
  /\ Event
  /\ keyboard' = Append(keyboard, Scancode)
  /\ UNCHANGED <<cpu, pic, controller, answers, mouse, present, streaming,
                 disturbed>>

Movement ==
  /\ streaming /\ mouse = <<>> /\ Event
  /\ mouse' = [n \in 1 .. 3 |-> MouseByte(n - 1)]
  /\ UNCHANGED <<cpu, pic, controller, answers, keyboard, present, streaming,
                 disturbed>>

(* The requests an output buffer that holds b asks for under c *)
Requests(b, c) ==
  CASE b.from \in {"keyboard", "controller"} /\ c.irq1 -> {1}
    [] b.from = "mouse" /\ c.irq12 -> {12}
    [] OTHER -> {}

Enter(b) ==
  /\ ~Full
  /\ buffer' = b /\ port' = b
  /\ irr' = irr \cup Requests(b, config)
  /\ disturbed' = (disturbed \/ (b # Configuration /\ b # MouseByte(ACK)
                                   /\ (pc # "running" \/ irr \cap {1, 12} # {})))
  /\ UNCHANGED <<cpu, masked, in_service, config, present, streaming, events>>

EnterBuffer ==
  \/ /\ answers # <<>> /\ Enter(Head(answers))
     /\ answers' = Tail(answers) /\ UNCHANGED <<keyboard, mouse>>
  \/ /\ keyboard # <<>> /\ config.kbd /\ Enter(Head(keyboard))
     /\ keyboard' = Tail(keyboard) /\ UNCHANGED <<answers, mouse>>
  \/ /\ mouse # <<>> /\ config.aux /\ Enter(Head(mouse))
     /\ mouse' = Tail(mouse) /\ UNCHANGED <<answers, keyboard>>

Tick ==
  /\ 0 \notin irr /\ pc = "running" /\ Event
  /\ irr' = irr \cup {0}
  /\ UNCHANGED <<cpu, masked, in_service, controller, queues, present,
                 streaming, disturbed>>

-----------------------------------------------------------------------------
(* The set-up, with interrupts off *)

Goto(from, to) == pc = from /\ pc' = to

(* Reading the port empties the buffer; among is what was pending before *)
ReadPort(among) ==
  /\ buffer' = NoByte
  /\ irr' \in {among, among \ Requests(buffer, config)}
  /\ UNCHANGED port

(* No handlers yet, and pic_remap: its words drop pending requests, and the *)
(* masks are restored.  Vectors 0..47 have a gate, so each IRQ reaches       *)
(* irq_handler                                                              *)
idt_init ==
  /\ Goto("idt_init", "keyboard_init")
  /\ registered' = {}
  /\ offset' = 32
  /\ irr' = {} /\ in_service' = {}
  /\ UNCHANGED <<status, mouse_cycle, masked, controller, queues, device>>

register_interrupt_handler(n) == registered' = registered \cup {n}

keyboard_init ==
  /\ Goto("keyboard_init", "enable")
  /\ register_interrupt_handler(KeyboardVector)
  /\ masked' = masked \ {1}
  /\ UNCHANGED <<offset, status, mouse_cycle, irr, in_service, controller,
                 queues, device>>

EnableAux ==
  /\ Goto("enable", "ask")
  /\ config' = [config EXCEPT !.aux = TRUE]
  /\ UNCHANGED <<offset, registered, status, mouse_cycle, pic, buffer, port,
                 queues, device>>

AskStatus ==
  /\ Goto("ask", "status")
  /\ answers' = Append(answers, Configuration)
  /\ UNCHANGED <<offset, registered, status, mouse_cycle, pic, controller,
                 keyboard, mouse, device>>

(* Nothing is on its way that mouse_wait could wait for *)
Silent == /\ ~Full /\ answers = <<>>
          /\ config.kbd => keyboard = <<>>
          /\ config.aux => mouse = <<>>

(* Mutant: mouse_wait does not give up *)
mouse_read_Forever ==
  Full /\ ReadPort(irr)

(* mouse_wait(0) and the read: a byte, or after the timeout the last one *)
mouse_read ==
  \/ Full /\ ReadPort(irr)
  \/ Silent /\ UNCHANGED <<buffer, port, irr>>

ReadStatus ==
  /\ Goto("status", "set")
  /\ mouse_read
  /\ status' = port
  /\ UNCHANGED <<offset, registered, mouse_cycle, masked, in_service, config,
                 queues, device>>

(* Mutant: the interrupt of the mouse is not enabled *)
NewConfig_NoIrq12 ==
  {[config EXCEPT !.aux = TRUE]}

(* The byte read with bit 1 set and bit 5 cleared: the configuration when   *)
(* that is what was read, and otherwise whatever the bits of the byte say   *)
NewConfig ==
  IF status = Configuration
  THEN {[config EXCEPT !.irq12 = TRUE, !.aux = TRUE]}
  ELSE [irq1 : BOOLEAN, irq12 : {TRUE}, kbd : BOOLEAN, aux : {TRUE}]

SetStatus ==
  /\ Goto("set", "defaults")
  /\ config' \in NewConfig
  /\ irr' = irr \cup (Requests(buffer, config') \ Requests(buffer, config))
  /\ UNCHANGED <<offset, registered, status, mouse_cycle, masked, in_service,
                 buffer, port, queues, device>>

mouse_write ==
  /\ mouse' = IF present THEN Append(mouse, MouseByte(ACK)) ELSE mouse
  /\ UNCHANGED <<offset, registered, status, mouse_cycle, pic, controller,
                 answers, keyboard, present, events, disturbed>>

UseDefaults ==
  /\ Goto("defaults", "defaults_ack")
  /\ mouse_write
  /\ streaming' = FALSE

EnableReporting ==
  /\ Goto("reporting", "reporting_ack")
  /\ mouse_write
  /\ streaming' = present

ReadAck ==
  /\ Goto("defaults_ack", "reporting") \/ Goto("reporting_ack", "unmask")
  /\ mouse_read
  /\ UNCHANGED <<offset, registered, status, mouse_cycle, masked, in_service,
                 config, queues, device>>

UnmaskMouse ==
  /\ Goto("unmask", "sti")
  /\ register_interrupt_handler(MouseVector)
  /\ masked' = masked \ {12}
  /\ UNCHANGED <<offset, status, mouse_cycle, irr, in_service, controller,
                 queues, device>>

Sti ==
  /\ Goto("sti", "running")
  /\ UNCHANGED <<offset, registered, status, mouse_cycle, pic, controller,
                 queues, device>>

SetUp == \/ idt_init  \/ keyboard_init \/ EnableAux \/ AskStatus \/ ReadStatus
         \/ SetStatus \/ UseDefaults \/ EnableReporting \/ ReadAck
         \/ UnmaskMouse \/ Sti

-----------------------------------------------------------------------------
(* Dispatch: a handler runs whole, with interrupts off until its iret *)

Line(irq) == IF irq >= 8 THEN CascadeLine ELSE irq

(* A PIC holds back what is not more urgent than what is in service: the    *)
(* master by line, the slave by request                                     *)
Held(irq) ==
  \E s \in in_service :
    \/ s < 8 /\ s <= Line(irq)
    \/ s >= 8 /\ irq >= 8 /\ s <= irq

Deliverable == {irq \in irr : irq \notin masked /\ Line(irq) \notin masked
                                /\ ~Held(irq)}
Urgent(irq) == irq \in Deliverable /\ \A k \in Deliverable : Line(irq) <= Line(k)

InService(irq) == in_service \cup {irq, Line(irq)}

(* Mutant: the slave is not told *)
EndOfInterrupt_MasterOnly(irq) ==
  {s \in InService(irq) : s >= 8}

(* The end of interrupt goes to the slave, if it is the slave's, and to the *)
(* master                                                                   *)
EndOfInterrupt(irq) ==
  IF offset + irq >= 40 THEN InService(irq) \ {irq, Line(irq)}
  ELSE InService(irq) \ {irq}

keyboard_handler(pending) ==
  /\ ReadPort(pending)
  /\ UNCHANGED mouse_cycle

(* The packet position: an acknowledgement (FA) has bit 3 set like a first  *)
(* byte, the other two bytes may have it                                    *)
NextCycle(b) ==
  IF mouse_cycle > 0 THEN {(mouse_cycle + 1) % 3}
  ELSE IF b.what \in {0, ACK} THEN {1} ELSE {0, 1}

(* Mutant: a read whoever the byte is from *)
mouse_handler_AnyByte(pending) ==
  /\ ReadPort(pending)
  /\ mouse_cycle' \in NextCycle(port)

mouse_handler(pending) ==
  IF buffer.from # "mouse" THEN irr' = pending /\ UNCHANGED <<buffer, port, mouse_cycle>>
  ELSE ReadPort(pending) /\ mouse_cycle' \in NextCycle(buffer)

(* The handler registered for the vector, if any *)
Handle(vector, pending) ==
  CASE vector = KeyboardVector /\ vector \in registered -> keyboard_handler(pending)
    [] vector = MouseVector /\ vector \in registered -> mouse_handler(pending)
    [] OTHER -> irr' = pending /\ UNCHANGED <<buffer, port, mouse_cycle>>

Interrupt ==
  /\ pc = "running"
  /\ \E irq \in IRQs :
       /\ Urgent(irq)
       /\ in_service' = EndOfInterrupt(irq)
       /\ Handle(offset + irq, irr \ {irq})
  /\ UNCHANGED <<pc, offset, registered, status, masked, config, queues, device>>

Next == SetUp \/ Interrupt \/ EnterBuffer \/ Stroke \/ Movement \/ Tick

Spec == Init /\ [][Next]_vars

(* The CPU runs, takes its interrupts, and the controller moves bytes on *)
FairSpec == Spec /\ WF_vars(SetUp) /\ WF_vars(Interrupt) /\ WF_vars(EnterBuffer)

-----------------------------------------------------------------------------
(* Properties *)

(* Set-up always reaches the main loop, whatever is typed meanwhile and    *)
(* with no mouse to answer: the waits of mouse_init give up.               *)
BootFinishes == <>(pc = "running")

(* After a quiet set-up every input works: both interrupts are enabled in  *)
(* the controller and in the PICs, and no answer is left to be taken for   *)
(* input.                                                                  *)
InputsReady ==
  pc = "running" /\ ~disturbed =>
    /\ config = [irq1 |-> TRUE, irq12 |-> TRUE, kbd |-> TRUE, aux |-> TRUE]
    /\ masked = {}
    /\ present => streaming
    /\ MouseByte(ACK) \notin {buffer} \cup {mouse[i] : i \in 1 .. Len(mouse)}

(* After a quiet set-up no byte of the mouse is taken by keyboard_handler, *)
(* which does not ask whose byte it reads, and mouse_handler counts each   *)
(* byte at its place in the packet.                                        *)
MouseBytesInPlace ==
  [][pc = "running" /\ ~disturbed' =>
       (IF mouse_cycle' = mouse_cycle
        THEN buffer.from = "mouse" => buffer' = buffer
        ELSE buffer = MouseByte(mouse_cycle))]_vars

(* After a quiet set-up the buffer is emptied again and again: no byte     *)
(* stays in it with its request lost, which would stop both devices.       *)
BufferDrains == <>disturbed \/ []<>~Full
=============================================================================
