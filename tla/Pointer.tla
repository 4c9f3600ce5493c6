------------------------------- MODULE Pointer -------------------------------
(***************************************************************************)
(* What the mouse driver promises: a point on the screen and the buttons,  *)
(* changed by one whole movement report at a time.  Bytes, packets and     *)
(* their encoding are not visible.                                         *)
(***************************************************************************)
EXTENDS Integers

CONSTANTS
  width, height,
  Moves,         (* <<dx, dy>>, dy upwards, as the device reports them *)
  Buttons

VARIABLES x, y, buttons

vars == <<x, y, buttons>>

(* v moved into lo .. hi *)
Within(v, lo, hi) == IF v < lo THEN lo ELSE IF v > hi THEN hi ELSE v

Init == x = width \div 2 /\ y = height \div 2 /\ buttons = 0

Report(m, b) ==
  /\ x' = Within(x + m[1], 0, width - 1)
  /\ y' = Within(y - m[2], 0, height - 1)
  /\ buttons' = b

Next == \E m \in Moves, b \in Buttons : Report(m, b)

Spec == Init /\ [][Next]_vars
=============================================================================
