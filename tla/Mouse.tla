-------------------------------- MODULE Mouse --------------------------------
(***************************************************************************)
(* kernel/mouse.c: the IRQ12 handler, which assembles packets of three     *)
(* bytes and moves the pointer.  The handler runs with interrupts off, so  *)
(* it is one step; an interrupt without a mouse byte behind it returns at  *)
(* once and is left out.                                                   *)
(*                                                                         *)
(* The device is the environment: it sends a packet when it has something  *)
(* to report.  Bytes may be lost on the way, since the controller has one  *)
(* buffer for both devices and keyboard_handler and mouse_init read it     *)
(* without asking whose byte it holds.                                     *)
(***************************************************************************)
EXTENDS Integers, Sequences

CONSTANTS
  screen_width, screen_height,
  Moves,          (* the <<dx, dy>> the device reports, dy upwards  *)
  Buttons,        (* button bits: 1 left, 2 right, 4 middle         *)
  MaxLost         (* bound: how many bytes are lost                 *)

ASSUME ScreenAssumption ==
  screen_width \in Nat \ {0} /\ screen_height \in Nat \ {0}

(* Movements of one report that fit the signed bytes the driver reads *)
ASSUME DeviceAssumption ==
  /\ Moves \subseteq (-128 .. 127) \X (-128 .. 127)
  /\ Buttons \subseteq 0 .. 7

VARIABLES
  mouse_cycle, mouse_bytes,
  mouse_state,       (* [x, y, buttons]                        *)
  wire,              (* bytes sent and not yet handled or lost *)
  lost

vars == <<mouse_cycle, mouse_bytes, mouse_state, wire, lost>>

Byte == 0 .. 255

(* The always-one bit of a packet's first byte *)
Bit3(byte) == (byte \div 8) % 2 = 1

(* mouse_init and, before interrupts are enabled, mouse_set_bounds *)
Init ==
  /\ mouse_cycle = 0
  /\ mouse_bytes = [i \in 0 .. 2 |-> 0]
  /\ mouse_state = [x |-> screen_width \div 2, y |-> screen_height \div 2,
                    buttons |-> 0]
  /\ wire = <<>>
  /\ lost = 0

-----------------------------------------------------------------------------
(* The device *)

Negative(v) == IF v < 0 THEN 1 ELSE 0

Packet(m, b) ==
  <<32 * Negative(m[2]) + 16 * Negative(m[1]) + 8 + b, m[1] % 256, m[2] % 256>>

Send ==
  /\ wire = <<>>
  /\ \E m \in Moves, b \in Buttons : wire' = Packet(m, b)
  /\ UNCHANGED <<mouse_cycle, mouse_bytes, mouse_state, lost>>

Lose ==
  /\ wire # <<>> /\ lost < MaxLost
  /\ wire' = Tail(wire)
  /\ lost' = lost + 1
  /\ UNCHANGED <<mouse_cycle, mouse_bytes, mouse_state>>

-----------------------------------------------------------------------------
(* The handler *)

Signed8(byte) == IF byte >= 128 THEN byte - 256 ELSE byte

(* Mutant: the upper limit is off by one *)
OnScreen_OffByOne(v, size) ==
  LET low == IF v < 0 THEN 0 ELSE v IN
  IF low > size THEN size - 1 ELSE low

OnScreen(v, size) ==
  LET low == IF v < 0 THEN 0 ELSE v IN
  IF low >= size THEN size - 1 ELSE low

(* Mutant: y grows upwards *)
Apply_UpIsDown(first, dx, dy) ==
  [x |-> OnScreen(mouse_state.x + Signed8(dx), screen_width),
   y |-> OnScreen(mouse_state.y + Signed8(dy), screen_height),
   buttons |-> first % 8]

Apply(first, dx, dy) ==
  [x |-> OnScreen(mouse_state.x + Signed8(dx), screen_width),
   y |-> OnScreen(mouse_state.y - Signed8(dy), screen_height),
   buttons |-> first % 8]

(* Mutant: any byte is taken for a first byte *)
FirstByte_Any(byte) ==
  /\ mouse_cycle = 0
  /\ mouse_cycle' = 1
  /\ UNCHANGED mouse_state

FirstByte(byte) ==
  /\ mouse_cycle = 0
  /\ mouse_cycle' = IF Bit3(byte) THEN 1 ELSE 0
  /\ UNCHANGED mouse_state

SecondByte(byte) ==
  /\ mouse_cycle = 1
  /\ mouse_cycle' = 2
  /\ UNCHANGED mouse_state

(* Mutant: the packet is not ended *)
ThirdByte_NoReset(byte) ==
  /\ mouse_cycle = 2
  /\ mouse_state' = Apply(mouse_bytes[0], mouse_bytes[1], byte)
  /\ UNCHANGED mouse_cycle

ThirdByte(byte) ==
  /\ mouse_cycle = 2
  /\ mouse_cycle' = 0
  /\ mouse_state' = Apply(mouse_bytes[0], mouse_bytes[1], byte)

mouse_handler(byte) ==
  /\ mouse_bytes' = [mouse_bytes EXCEPT ![mouse_cycle] = byte]
  /\ FirstByte(byte) \/ SecondByte(byte) \/ ThirdByte(byte)

Deliver ==
  /\ wire # <<>>
  /\ mouse_handler(Head(wire))
  /\ wire' = Tail(wire)
  /\ UNCHANGED lost

Next == Send \/ Lose \/ Deliver

Spec == Init /\ [][Next]_vars

(* Interrupts are delivered, and the user keeps moving the mouse *)
FairSpec == Spec /\ WF_vars(Deliver) /\ WF_vars(Send)

-----------------------------------------------------------------------------
(* Properties *)

(* The pointer is on the screen, the packet position inside the packet.    *)
TypeOK ==
  /\ mouse_cycle \in 0 .. 2
  /\ mouse_bytes \in [0 .. 2 -> Byte]
  /\ mouse_state \in [x : 0 .. screen_width - 1, y : 0 .. screen_height - 1,
                      buttons : 0 .. 7]
  /\ wire \in Seq(Byte)
  /\ lost \in Nat

(* The driver expects the byte that comes next on the wire *)
InStep == mouse_cycle + Len(wire) \in {0, 3}

(* As long as no byte was lost, the driver is in step with the device.     *)
InStepUntilLoss == lost = 0 => InStep

P == INSTANCE Pointer
       WITH width <- screen_width, height <- screen_height,
            x <- mouse_state.x, y <- mouse_state.y,
            buttons <- mouse_state.buttons

(* As long as no byte was lost, the driver implements the pointer: each    *)
(* report moves it once, by the whole movement, and never in halves.       *)
MovesByReports == P!Init /\ [][lost' = 0 => [P!Next]_P!vars]_vars

(* The test of bit 3 is the driver's only way back into step.  It finds it *)
(* after any loss, provided the movements that follow do not look like     *)
(* first bytes themselves.                                                 *)
Distinguishable ==
  \A m \in Moves : ~Bit3(m[1] % 256) /\ ~Bit3(m[2] % 256)
GetsBackInStep == Distinguishable => <>[]InStep
=============================================================================
