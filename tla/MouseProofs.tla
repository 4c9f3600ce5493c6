----------------------------- MODULE MouseProofs -----------------------------
(***************************************************************************)
(* Proofs about Mouse, for every screen, every set of movements that fit   *)
(* the driver's bytes, and any number of lost bytes.                       *)
(***************************************************************************)
EXTENDS Mouse, TLAPS

(* One byte carries one movement: what the device encodes modulo 256 the   *)
(* driver reads back as it was.                                            *)
LEMMA SignedByteRoundTrip ==
  ASSUME NEW v \in -128 .. 127
  PROVE  v % 256 \in Byte /\ Signed8(v % 256) = v
BY SMTT(30) DEF Byte, Signed8

(* The driver's clamping is the one Pointer asks for.                      *)
LEMMA OnScreenInRange ==
  ASSUME NEW v \in Int, NEW size \in Nat \ {0}
  PROVE  /\ OnScreen(v, size) \in 0 .. size - 1
         /\ OnScreen(v, size) = P!Within(v, 0, size - 1)
BY DEF OnScreen, P!Within

(* A packet is three bytes: the first has the always-one bit and the       *)
(* buttons, the others the movements.                                      *)
LEMMA PacketShape ==
  ASSUME NEW m \in Moves, NEW b \in Buttons
  PROVE  /\ Packet(m, b) \in Seq(Byte)
         /\ Len(Packet(m, b)) = 3
         /\ Bit3(Packet(m, b)[1])
         /\ Packet(m, b)[1] % 8 = b
         /\ Packet(m, b)[2] = m[1] % 256
         /\ Packet(m, b)[3] = m[2] % 256
<1> DEFINE first == 32 * Negative(m[2]) + 16 * Negative(m[1]) + 8 + b
<1>1. m[1] \in -128 .. 127 /\ m[2] \in -128 .. 127 /\ b \in 0 .. 7
  BY DeviceAssumption
<1>2. m[1] % 256 \in Byte /\ m[2] % 256 \in Byte
  BY <1>1, SignedByteRoundTrip
<1>3. first \in Byte /\ first % 8 = b /\ Bit3(first)
  <2>1. Negative(m[1]) \in {0, 1} /\ Negative(m[2]) \in {0, 1}
    BY DEF Negative
  <2>2. first \in {8 + b, 24 + b, 40 + b, 56 + b}
    BY <2>1, <1>1
  <2> HIDE DEF first
  <2> QED
    BY <1>1, <2>2, SMTT(30) DEF Byte, Bit3
<1>4. Packet(m, b) = <<first, m[1] % 256, m[2] % 256>>
  BY DEF Packet
<1> HIDE DEF first
<1> QED
  BY <1>2, <1>3, <1>4

-----------------------------------------------------------------------------
(* The inductive invariant: what the driver has read and what is on the    *)
(* wire are the two parts of one packet.                                   *)
Assembling(m, b) ==
  \/ mouse_cycle = 0 /\ wire = Packet(m, b)
  \/ /\ mouse_cycle = 1 /\ mouse_bytes[0] = Packet(m, b)[1]
     /\ wire = <<Packet(m, b)[2], Packet(m, b)[3]>>
  \/ /\ mouse_cycle = 2 /\ mouse_bytes[0] = Packet(m, b)[1]
     /\ mouse_bytes[1] = Packet(m, b)[2]
     /\ wire = <<Packet(m, b)[3]>>

Idle == mouse_cycle = 0 /\ wire = <<>>

PacketInv ==
  /\ TypeOK
  /\ lost = 0 => Idle \/ \E m \in Moves, b \in Buttons : Assembling(m, b)

LEMMA InitPacketInv == Init => PacketInv
<1> SUFFICES ASSUME Init PROVE PacketInv
  OBVIOUS
<1>1. mouse_state \in [x : 0 .. screen_width - 1, y : 0 .. screen_height - 1,
                       buttons : 0 .. 7]
  BY ScreenAssumption DEF Init
<1> QED
  BY <1>1 DEF Init, PacketInv, TypeOK, Idle, Byte

(* Every byte leaves the pointer on the screen.                            *)
LEMMA ApplyOnScreen ==
  ASSUME TypeOK, NEW first \in Byte, NEW dx \in Byte, NEW dy \in Byte
  PROVE  Apply(first, dx, dy) \in
           [x : 0 .. screen_width - 1, y : 0 .. screen_height - 1, buttons : 0 .. 7]
<1>1. /\ mouse_state.x \in Int /\ mouse_state.y \in Int
      /\ Signed8(dx) \in Int /\ Signed8(dy) \in Int
      /\ first % 8 \in 0 .. 7
  BY ScreenAssumption DEF TypeOK, Signed8, Byte
<1>2. mouse_state.x + Signed8(dx) \in Int /\ mouse_state.y - Signed8(dy) \in Int
  BY <1>1
<1>3. OnScreen(mouse_state.x + Signed8(dx), screen_width) \in 0 .. screen_width - 1
  BY <1>2, OnScreenInRange, ScreenAssumption
<1>4. OnScreen(mouse_state.y - Signed8(dy), screen_height) \in 0 .. screen_height - 1
  BY <1>2, OnScreenInRange, ScreenAssumption
<1> QED
  BY <1>1, <1>3, <1>4 DEF Apply

LEMMA DeliverKeepsType ==
  ASSUME TypeOK, Deliver
  PROVE  TypeOK'
<1> DEFINE byte == Head(wire)
<1>1. byte \in Byte /\ wire' \in Seq(Byte) /\ lost' = lost
  BY DEF TypeOK, Deliver
<1>2. mouse_bytes' \in [0 .. 2 -> Byte]
  BY <1>1 DEF TypeOK, Deliver, mouse_handler
<1>3. mouse_cycle' \in 0 .. 2
  BY DEF TypeOK, Deliver, mouse_handler, FirstByte, SecondByte, ThirdByte
<1>4. mouse_state' \in [x : 0 .. screen_width - 1, y : 0 .. screen_height - 1,
                        buttons : 0 .. 7]
  <2>1. CASE mouse_state' = mouse_state
    BY <2>1 DEF TypeOK
  <2>2. CASE ThirdByte(byte)
    <3>1. mouse_bytes[0] \in Byte /\ mouse_bytes[1] \in Byte
      BY DEF TypeOK
    <3> QED
      BY <1>1, <2>2, <3>1, ApplyOnScreen DEF ThirdByte
  <2> QED
    BY <2>1, <2>2 DEF Deliver, mouse_handler, FirstByte, SecondByte
<1> QED
  BY <1>1, <1>2, <1>3, <1>4 DEF TypeOK

(* A byte of the packet moves from the wire to the driver.                 *)
LEMMA DeliverAssembles ==
  ASSUME PacketInv, Deliver, lost = 0
  PROVE  \E m \in Moves, b \in Buttons :
           /\ Assembling(m, b)
           /\ \/ Assembling(m, b)' /\ mouse_state' = mouse_state
              \/ /\ Idle'
                 /\ mouse_state' = Apply(Packet(m, b)[1], Packet(m, b)[2], Packet(m, b)[3])
<1>1. PICK m \in Moves, b \in Buttons : Assembling(m, b)
  BY DEF PacketInv, Idle, Deliver
<1> DEFINE p == Packet(m, b)
<1>2. /\ p \in Seq(Byte) /\ Len(p) = 3 /\ Bit3(p[1])
      /\ p[1] \in Byte /\ p[2] \in Byte /\ p[3] \in Byte
  BY PacketShape
<1>3. mouse_bytes \in [0 .. 2 -> Byte]
  BY DEF PacketInv, TypeOK
<1>4. CASE mouse_cycle = 0 /\ wire = p
  <2>1. Head(wire) = p[1] /\ Tail(wire) = <<p[2], p[3]>>
    BY <1>2, <1>4 DEF Packet
  <2>2. FirstByte(p[1])
    BY <1>4, <2>1 DEF Deliver, mouse_handler, SecondByte, ThirdByte
  <2>3. mouse_cycle' = 1 /\ mouse_bytes'[0] = p[1] /\ mouse_state' = mouse_state
    BY <1>2, <1>3, <1>4, <2>1, <2>2 DEF FirstByte, Deliver, mouse_handler
  <2> QED
    BY <1>1, <2>1, <2>3 DEF Assembling, Deliver
<1>5. CASE /\ mouse_cycle = 1 /\ mouse_bytes[0] = p[1]
           /\ wire = <<p[2], p[3]>>
  <2>1. Head(wire) = p[2] /\ Tail(wire) = <<p[3]>>
    BY <1>5
  <2>2. SecondByte(p[2])
    BY <1>5, <2>1 DEF Deliver, mouse_handler, FirstByte, ThirdByte
  <2>3. /\ mouse_cycle' = 2 /\ mouse_bytes'[0] = p[1] /\ mouse_bytes'[1] = p[2]
        /\ mouse_state' = mouse_state
    BY <1>3, <1>5, <2>1, <2>2 DEF SecondByte, Deliver, mouse_handler
  <2> QED
    BY <1>1, <2>1, <2>3 DEF Assembling, Deliver
<1>6. CASE /\ mouse_cycle = 2 /\ mouse_bytes[0] = p[1]
           /\ mouse_bytes[1] = p[2] /\ wire = <<p[3]>>
  <2>1. Head(wire) = p[3] /\ Tail(wire) = <<>>
    BY <1>6
  <2>2. ThirdByte(p[3])
    BY <1>6, <2>1 DEF Deliver, mouse_handler, FirstByte, SecondByte
  <2> QED
    BY <1>1, <1>6, <2>1, <2>2 DEF ThirdByte, Idle, Deliver
<1> QED
  BY <1>1, <1>4, <1>5, <1>6 DEF Assembling

LEMMA StepPacketInv == PacketInv /\ [Next]_vars => PacketInv'
<1> SUFFICES ASSUME PacketInv, [Next]_vars PROVE PacketInv'
  OBVIOUS
<1> USE DEF PacketInv
<1>1. CASE Send
  <2>1. PICK m \in Moves, b \in Buttons : wire' = Packet(m, b)
    BY <1>1 DEF Send
  <2>2. TypeOK'
    BY <1>1, <2>1, PacketShape DEF Send, TypeOK
  <2>3. lost' = 0 => Assembling(m, b)'
    BY <1>1, <2>1, PacketShape DEF Send, Idle, Assembling
  <2> QED
    BY <2>2, <2>3
<1>2. CASE Lose
  <2>1. TypeOK'
    BY <1>2 DEF Lose, TypeOK
  <2>2. lost' # 0
    BY <1>2 DEF Lose, TypeOK
  <2> QED
    BY <2>1, <2>2
<1>3. CASE Deliver
  <2>1. TypeOK'
    BY <1>3, DeliverKeepsType
  <2>2. lost' = lost
    BY <1>3 DEF Deliver
  <2>3. lost = 0 => Idle' \/ \E m \in Moves, b \in Buttons : Assembling(m, b)'
    BY <1>3, DeliverAssembles
  <2> QED
    BY <2>1, <2>2, <2>3
<1>4. CASE UNCHANGED vars
  BY <1>4 DEF vars, TypeOK, Idle, Assembling
<1> QED
  BY <1>1, <1>2, <1>3, <1>4 DEF Next

LEMMA AlwaysPacketInv == Spec => []PacketInv
BY InitPacketInv, StepPacketInv, PTL DEF Spec

-----------------------------------------------------------------------------
(* The pointer never leaves the screen, whatever bytes are lost.           *)
THEOREM MouseTypeCorrect == Spec => []TypeOK
<1>1. PacketInv => TypeOK
  BY DEF PacketInv
<1> QED
  BY <1>1, AlwaysPacketInv, PTL

(* As long as no byte is lost, the driver is in step with the device.      *)
THEOREM StaysInStep == Spec => []InStepUntilLoss
<1>1. PacketInv => InStepUntilLoss
  <2> SUFFICES ASSUME PacketInv, lost = 0 PROVE InStep
    BY DEF InStepUntilLoss
  <2>1. CASE Idle
    BY <2>1 DEF Idle, InStep
  <2>2. ASSUME NEW m \in Moves, NEW b \in Buttons, Assembling(m, b)
        PROVE  InStep
    <3> DEFINE p == Packet(m, b)
    <3>1. Len(p) = 3
      BY PacketShape
    <3>2. Len(<<p[2], p[3]>>) = 2 /\ Len(<<p[3]>>) = 1
      OBVIOUS
    <3>3. \/ mouse_cycle = 0 /\ wire = p
          \/ mouse_cycle = 1 /\ wire = <<p[2], p[3]>>
          \/ mouse_cycle = 2 /\ wire = <<p[3]>>
      BY <2>2 DEF Assembling
    <3> HIDE DEF p
    <3>4. CASE mouse_cycle = 0 /\ wire = p
      BY <3>1, <3>4 DEF InStep
    <3>5. CASE mouse_cycle = 1 /\ wire = <<p[2], p[3]>>
      <4>1. Len(wire) = 2
        BY <3>2, <3>5, Zenon
      <4> QED
        BY <3>5, <4>1 DEF InStep
    <3>6. CASE mouse_cycle = 2 /\ wire = <<p[3]>>
      <4>1. Len(wire) = 1
        BY <3>2, <3>6, Zenon
      <4> QED
        BY <3>6, <4>1 DEF InStep
    <3> QED
      BY <3>3, <3>4, <3>5, <3>6
  <2> QED
    BY <2>1, <2>2 DEF PacketInv
<1> QED
  BY <1>1, AlwaysPacketInv, PTL

(* As long as no byte is lost, the driver implements Pointer.              *)
THEOREM ReportsMoveThePointer == Spec => MovesByReports
<1>1. Init => P!Init
  BY DEF Init, P!Init
<1>2. PacketInv /\ [Next]_vars => [lost' = 0 => [P!Next]_P!vars]_vars
  <2> SUFFICES ASSUME PacketInv, Next, lost' = 0 PROVE [P!Next]_P!vars
    OBVIOUS
  <2>1. CASE Send
    BY <2>1 DEF Send, P!vars
  <2>2. CASE Lose
    BY <2>2 DEF Lose, PacketInv, TypeOK
  <2>3. CASE Deliver
    <3>1. lost = 0
      BY <2>3 DEF Deliver
    <3>2. PICK m \in Moves, b \in Buttons :
            \/ mouse_state' = mouse_state
            \/ mouse_state' = Apply(Packet(m, b)[1], Packet(m, b)[2], Packet(m, b)[3])
      BY <2>3, <3>1, DeliverAssembles
    <3>3. CASE mouse_state' = mouse_state
      BY <3>3 DEF P!vars
    <3>4. CASE mouse_state' = Apply(Packet(m, b)[1], Packet(m, b)[2], Packet(m, b)[3])
      <4>1. m[1] \in -128 .. 127 /\ m[2] \in -128 .. 127
        BY DeviceAssumption
      <4> DEFINE p == Packet(m, b)
      <4>9. Signed8(m[1] % 256) = m[1] /\ Signed8(m[2] % 256) = m[2]
        BY <4>1, SignedByteRoundTrip
      <4>8. p[2] = m[1] % 256 /\ p[3] = m[2] % 256 /\ p[1] % 8 = b
        BY PacketShape
      <4> HIDE DEF p
      <4>2. Signed8(p[2]) = m[1] /\ Signed8(p[3]) = m[2] /\ p[1] % 8 = b
        BY <4>9, <4>8
      <4>3. /\ mouse_state'.x = OnScreen(mouse_state.x + m[1], screen_width)
            /\ mouse_state'.y = OnScreen(mouse_state.y - m[2], screen_height)
            /\ mouse_state'.buttons = b
        BY <3>4, <4>2 DEF Apply, p
      <4>4. mouse_state.x + m[1] \in Int /\ mouse_state.y - m[2] \in Int
        <5>1. mouse_state.x \in Int /\ mouse_state.y \in Int
          BY ScreenAssumption DEF PacketInv, TypeOK
        <5> QED
          BY <4>1, <5>1
      <4>5. P!Report(m, b)
        BY <4>3, <4>4, OnScreenInRange, ScreenAssumption DEF P!Report
      <4> QED
        BY <4>5 DEF P!Next
    <3> QED
      BY <3>2, <3>3, <3>4
  <2> QED
    BY <2>1, <2>2, <2>3 DEF Next
<1> QED
  BY <1>1, <1>2, AlwaysPacketInv, PTL DEF Spec, MovesByReports
=============================================================================
