-------------------------------- MODULE Line --------------------------------
(***************************************************************************)
(* The loop of graphics_draw_line in kernel/graphics.c (Bresenham), one    *)
(* iteration to a step, so that its end is something to check.  pos is the *)
(* pair x0, y0 the loop moves, from its value on entry; the locals dx, dy, *)
(* sx and sy are functions of from and to.  What an iteration draws is in  *)
(* Graphics.  The icons' lines are a few pixels long, so the 32-bit sums   *)
(* are left unbounded.                                                     *)
(***************************************************************************)
EXTENDS Integers

CONSTANT Ends    (* the points lines are drawn between *)

ASSUME EndsAssumption == Ends \subseteq Int \X Int

VARIABLES drawing, from, to, pos, err

line_vars == <<drawing, from, to, pos, err>>

Abs(n) == IF n < 0 THEN -n ELSE n

dx == Abs(to[1] - from[1])
dy == Abs(to[2] - from[2])
sx == IF to[1] > from[1] THEN 1 ELSE -1
sy == IF to[2] > from[2] THEN 1 ELSE -1

e2 == 2 * err

(* Mutant: the test for a step in x compares with the wrong difference *)
StepX_ByDx == e2 > dx

(* Mutant: the error is not doubled *)
StepX_Single == err > -dy

StepX == e2 > -dy
StepY == e2 < dx

LineInit ==
  /\ drawing = FALSE
  /\ from = <<0, 0>> /\ to = <<0, 0>> /\ pos = <<0, 0>> /\ err = 0

Begin(p, q) ==
  /\ ~drawing /\ drawing' = TRUE
  /\ from' = p /\ to' = q /\ pos' = p
  /\ err' = Abs(q[1] - p[1]) - Abs(q[2] - p[2])

Advance ==
  /\ drawing /\ pos # to
  /\ pos' = <<IF StepX THEN pos[1] + sx ELSE pos[1],
              IF StepY THEN pos[2] + sy ELSE pos[2]>>
  /\ err' = err - (IF StepX THEN dy ELSE 0) + (IF StepY THEN dx ELSE 0)
  /\ UNCHANGED <<drawing, from, to>>

Finish ==
  /\ drawing /\ pos = to
  /\ drawing' = FALSE
  /\ UNCHANGED <<from, to, pos, err>>

LineNext == (\E p, q \in Ends : Begin(p, q)) \/ Advance \/ Finish

LineSpec == LineInit /\ [][LineNext]_line_vars /\ WF_line_vars(Advance \/ Finish)

-----------------------------------------------------------------------------
(* Properties *)

(* How far the loop has come along each axis, and how far to go *)
GoneX == Abs(pos[1] - from[1])
GoneY == Abs(pos[2] - from[2])
Longer == IF dx < dy THEN dy ELSE dx

(* The line never leaves the box of its two ends: the loop, which stops    *)
(* only on the end itself, cannot run past it.                             *)
StaysInBox ==
  drawing => /\ GoneX + Abs(to[1] - pos[1]) = dx
             /\ GoneY + Abs(to[2] - pos[2]) = dy

(* Every pixel is within half a pixel of the ideal line, measured along    *)
(* the shorter axis, whichever of the two tests moved it.                  *)
WithinHalfAPixel ==
  drawing => 2 * Abs(GoneX * dy - GoneY * dx) <= Longer

(* So the pixels of a line follow the segment between its ends: they are   *)
(* the nearest to it, and none lies beyond an end.                         *)
FollowsSegment == StaysInBox /\ WithinHalfAPixel

(* Every line that is begun is finished.                                   *)
LineEnds == drawing ~> ~drawing
=============================================================================
