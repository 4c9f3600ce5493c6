--------------------------- MODULE GraphicsProofs ---------------------------
(***************************************************************************)
(* For words, modes and fonts of every size: the back buffer, read pixel   *)
(* by pixel, is the picture that Canvas describes, after every call but    *)
(* the two kinds Misdrawn names and whatever its position, size and text;  *)
(* a copy shows that picture; when                                         *)
(* the mode fits the back buffer no primitive stores outside it.  Each of  *)
(* them stores only at visible pixels, and the index of a visible pixel    *)
(* neither wraps nor passes the end, nor is it that of another pixel.      *)
(* Lines between any two points are straight and end.                      *)
(* And what the interpolation of one colour channel computes: a value      *)
(* between the ends when the channel rises, and in the desktop's own       *)
(* gradient one far outside them, since every channel falls.               *)
(***************************************************************************)
EXTENDS Graphics, FiniteSetTheorems, TLAPS

(***************************************************************************)
(* Lines.  With i steps made in x and j in y, the error of Bresenham's     *)
(* loop is dx - dy + j*dx - i*dy: the variable measures how far the pixel  *)
(* is from the ideal line.  From that follow the distance of half a pixel, *)
(* that the loop never passes the end on either axis, and that every       *)
(* iteration makes a step.                                                 *)
(***************************************************************************)

(* The arithmetic of one iteration, apart from the directions of the axes *)
StepsX(e, b) == IF 2 * e > -b THEN 1 ELSE 0
StepsY(e, a) == IF 2 * e < a THEN 1 ELSE 0
ErrorOf(a, b, i, j) == a - b + j * a - i * b
Near(a, b, i, j) == 2 * Abs(i * b - j * a) <= IF a < b THEN b ELSE a

(* Before the end, at least one of the two coordinates steps. *)
LEMMA SomeStep ==
  ASSUME NEW a \in Nat, NEW b \in Nat, NEW e \in Int, a # 0 \/ b # 0
  PROVE  StepsX(e, b) + StepsY(e, a) > 0
BY DEF StepsX, StepsY

(* An iteration keeps the error equal to the distance from the line. *)
Bit == {0, 1}
Corrected(e, a, b, s, t) == e - (IF s = 1 THEN b ELSE 0) + (IF t = 1 THEN a ELSE 0)

LEMMA ErrorStep ==
  ASSUME NEW a \in Nat, NEW b \in Nat, NEW i \in Nat, NEW j \in Nat,
         NEW s \in Bit, NEW t \in Bit
  PROVE  ErrorOf(a, b, i + s, j + t) = Corrected(ErrorOf(a, b, i, j), a, b, s, t)
<1>1. /\ (i + 1) * b = i * b + b /\ (i + 0) * b = i * b
      /\ (j + 1) * a = j * a + a /\ (j + 0) * a = j * a
  BY Z3
<1> QED BY <1>1 DEF ErrorOf, Corrected, Bit

(* An iteration keeps the pixel within half a pixel of the line. *)
LEMMA NearStep ==
  ASSUME NEW a \in Nat, NEW b \in Nat, NEW i \in Nat, NEW j \in Nat,
         NEW e \in Int, e = ErrorOf(a, b, i, j), Near(a, b, i, j)
  PROVE  Near(a, b, i + StepsX(e, b), j + StepsY(e, a))
<1> DEFINE P == j * a
           Q == i * b
<1>1. P \in Int /\ Q \in Int
  OBVIOUS
<1>2. e = a - b + P - Q /\ 2 * Abs(Q - P) <= IF a < b THEN b ELSE a
  BY DEF ErrorOf, Near
<1>3. /\ (i + 1) * b = Q + b /\ (i + 0) * b = Q
      /\ (j + 1) * a = P + a /\ (j + 0) * a = P
  BY Z3
<1> HIDE DEF P, Q
<1>4. CASE 2 * e > -b /\ 2 * e < a
  <2>1. 2 * Abs((Q + b) - (P + a)) <= IF a < b THEN b ELSE a
    BY <1>1, <1>2, <1>4 DEF Abs
  <2> QED BY <2>1, <1>3, <1>4 DEF Near, StepsX, StepsY
<1>5. CASE 2 * e > -b /\ ~(2 * e < a)
  <2>1. 2 * Abs((Q + b) - P) <= IF a < b THEN b ELSE a
    BY <1>1, <1>2, <1>5 DEF Abs
  <2> QED BY <2>1, <1>3, <1>5 DEF Near, StepsX, StepsY
<1>6. CASE ~(2 * e > -b) /\ 2 * e < a
  <2>1. 2 * Abs(Q - (P + a)) <= IF a < b THEN b ELSE a
    BY <1>1, <1>2, <1>6 DEF Abs
  <2> QED BY <2>1, <1>3, <1>6 DEF Near, StepsX, StepsY
<1>7. CASE ~(2 * e > -b) /\ ~(2 * e < a)
  <2>1. 2 * Abs(Q - P) <= IF a < b THEN b ELSE a
    BY <1>2
  <2> QED BY <2>1, <1>3, <1>7 DEF Near, StepsX, StepsY
<1> QED BY <1>4, <1>5, <1>6, <1>7

(* An axis on which the end is reached is not stepped on again. *)
LEMMA NoOvershoot ==
  ASSUME NEW a \in Nat, NEW b \in Nat, NEW i \in 0 .. a, NEW j \in 0 .. b,
         NEW e \in Int, e = ErrorOf(a, b, i, j), i # a \/ j # b
  PROVE  /\ i + StepsX(e, b) \in 0 .. a
         /\ j + StepsY(e, a) \in 0 .. b
<1>1. CASE i = a
  <2> DEFINE d == b - j
  <2>1. d \in Nat /\ d >= 1
    BY <1>1
  <2>2. d * a >= a
    <3>1. d * a = a + (d - 1) * a
      BY <2>1, Z3
    <3>2. (d - 1) * a >= 0
      BY <2>1, Z3
    <3> QED BY <2>1, <3>1, <3>2
  <2>3. j * a - a * b = -(d * a)
    BY Z3
  <2>4. e <= -b
    BY <1>1, <2>2, <2>3 DEF ErrorOf
  <2>5. StepsX(e, b) = 0
    BY <2>4 DEF StepsX
  <2>6. StepsY(e, a) \in {0, 1}
    BY DEF StepsY
  <2> QED BY <1>1, <2>1, <2>5, <2>6
<1>2. CASE j = b
  <2> DEFINE d == a - i
  <2>1. d \in Nat /\ d >= 1
    BY <1>2
  <2>2. d * b >= b
    <3>1. d * b = b + (d - 1) * b
      BY <2>1, Z3
    <3>2. (d - 1) * b >= 0
      BY <2>1, Z3
    <3> QED BY <2>1, <3>1, <3>2
  <2>3. b * a - i * b = d * b
    BY Z3
  <2>4. e >= a
    BY <1>2, <2>2, <2>3 DEF ErrorOf
  <2>5. StepsY(e, a) = 0
    BY <2>4 DEF StepsY
  <2>6. StepsX(e, b) \in {0, 1}
    BY DEF StepsX
  <2> QED BY <1>2, <2>1, <2>5, <2>6
<1>3. CASE i # a /\ j # b
  BY <1>3 DEF StepsX, StepsY
<1> QED BY <1>1, <1>2, <1>3

-----------------------------------------------------------------------------
(* The inductive invariant.  On each axis pos lies between the ends; the   *)
(* steps made so far are the distances gone.                               *)

Point == Int \X Int
InReach(p, f, t) == (f <= p /\ p <= t) \/ (t <= p /\ p <= f)

LineTypeOK ==
  drawing \in BOOLEAN /\ from \in Point /\ to \in Point /\ pos \in Point /\ err \in Int

OnLine ==
  /\ InReach(pos[1], from[1], to[1])
  /\ InReach(pos[2], from[2], to[2])
  /\ err = ErrorOf(dx, dy, GoneX, GoneY)
  /\ Near(dx, dy, GoneX, GoneY)

LineInv == LineTypeOK /\ (drawing => OnLine)

(* How far is still to go *)
Left == Abs(to[1] - pos[1]) + Abs(to[2] - pos[2])

(* A step along an axis towards the end goes one further from the start. *)
LEMMA AxisStep ==
  ASSUME NEW f \in Int, NEW t \in Int, NEW p \in Int, NEW s \in {0, 1},
         InReach(p, f, t), Abs(p - f) + s \in 0 .. Abs(t - f)
  PROVE  LET n == IF s = 1 THEN p + (IF t > f THEN 1 ELSE -1) ELSE p IN
         /\ n \in Int /\ InReach(n, f, t)
         /\ Abs(n - f) = Abs(p - f) + s
         /\ Abs(t - n) = Abs(t - p) - s
BY DEF InReach, Abs

LEMMA InReachGone ==
  ASSUME NEW f \in Int, NEW t \in Int, NEW p \in Int, InReach(p, f, t)
  PROVE  /\ Abs(p - f) \in 0 .. Abs(t - f)
         /\ Abs(p - f) + Abs(t - p) = Abs(t - f)
         /\ Abs(p - f) = Abs(t - f) <=> p = t
BY DEF InReach, Abs

LEMMA LineInitInv == LineInit => LineInv
<1> SUFFICES ASSUME LineInit PROVE LineInv
  OBVIOUS
<1>1. <<0, 0>> \in Point
  BY DEF Point
<1>2. drawing = FALSE
  BY DEF LineInit
<1>3. drawing \in BOOLEAN /\ ~drawing
  BY <1>2
<1>4. from \in Point /\ to \in Point /\ pos \in Point /\ err \in Int
  BY <1>1 DEF LineInit
<1> QED BY <1>3, <1>4 DEF LineInv, LineTypeOK

LEMMA BeginInv ==
  ASSUME LineInv, NEW p \in Ends, NEW q \in Ends, Begin(p, q)
  PROVE  LineInv'
<1>1. p \in Point /\ q \in Point
  BY EndsAssumption DEF Point
<1>2. LineTypeOK'
  BY <1>1 DEF LineTypeOK, Begin, Point, Abs
<1>3. (GoneX = 0 /\ GoneY = 0)'
  BY <1>1 DEF Begin, GoneX, GoneY, Abs, Point
<1>4. (dx \in Nat /\ dy \in Nat)' /\ (err = dx - dy)'
  BY <1>1 DEF Begin, dx, dy, Abs, Point
<1>5. \A a, b \in Nat : ErrorOf(a, b, 0, 0) = a - b /\ Near(a, b, 0, 0)
  BY DEF ErrorOf, Near, Abs
<1>6. (InReach(pos[1], from[1], to[1]) /\ InReach(pos[2], from[2], to[2]))'
  BY <1>1 DEF Begin, InReach, Point
<1> QED BY <1>2, <1>3, <1>4, <1>5, <1>6 DEF LineInv, OnLine

LEMMA AdvanceInv ==
  ASSUME LineInv, Advance
  PROVE  /\ LineInv'
         /\ Left' < Left
<1> DEFINE s == StepsX(err, dy)
           t == StepsY(err, dx)
<1>1. LineTypeOK /\ OnLine /\ pos # to
  BY DEF LineInv, Advance
<1>2. /\ pos[1] \in Int /\ pos[2] \in Int /\ pos = <<pos[1], pos[2]>>
      /\ to[1] \in Int /\ to[2] \in Int /\ to = <<to[1], to[2]>>
      /\ from[1] \in Int /\ from[2] \in Int /\ err \in Int
  BY <1>1 DEF LineTypeOK, Point
<1>3. /\ dx \in Nat /\ dy \in Nat
      /\ GoneX \in 0 .. dx /\ GoneY \in 0 .. dy
      /\ GoneX # dx \/ GoneY # dy
  <2>1. GoneX \in 0 .. dx /\ (GoneX = dx <=> pos[1] = to[1])
    BY <1>1, <1>2, InReachGone DEF OnLine, GoneX, dx
  <2>2. GoneY \in 0 .. dy /\ (GoneY = dy <=> pos[2] = to[2])
    BY <1>1, <1>2, InReachGone DEF OnLine, GoneY, dy
  <2>3. dx \in Nat /\ dy \in Nat
    BY <1>2 DEF dx, dy, Abs
  <2> QED BY <2>1, <2>2, <2>3, <1>1, <1>2
<1>4. err = ErrorOf(dx, dy, GoneX, GoneY) /\ Near(dx, dy, GoneX, GoneY)
  BY <1>1 DEF OnLine
<1>5. s \in {0, 1} /\ t \in {0, 1} /\ s + t > 0
  <2>1. s \in {0, 1} /\ t \in {0, 1}
    BY DEF StepsX, StepsY
  <2>2. dx # 0 \/ dy # 0
    BY <1>3
  <2> QED BY <2>1, <2>2, <1>2, <1>3, SomeStep
<1>6. GoneX + s \in 0 .. dx /\ GoneY + t \in 0 .. dy
  BY <1>2, <1>3, <1>4, NoOvershoot
<1>7. Near(dx, dy, GoneX + s, GoneY + t)
  BY <1>2, <1>3, <1>4, NearStep
<1>8. ErrorOf(dx, dy, GoneX + s, GoneY + t) = Corrected(err, dx, dy, s, t)
  <2>1. GoneX \in Nat /\ GoneY \in Nat /\ dx \in Nat /\ dy \in Nat
    BY <1>3
  <2>2. s \in Bit /\ t \in Bit
    BY <1>5 DEF Bit
  <2> HIDE DEF s, t
  <2>3. ErrorOf(dx, dy, GoneX + s, GoneY + t)
          = Corrected(ErrorOf(dx, dy, GoneX, GoneY), dx, dy, s, t)
    BY <2>1, <2>2, ErrorStep
  <2> QED BY <2>3, <1>4
<1>9. /\ StepX <=> s = 1
      /\ StepY <=> t = 1
  BY DEF StepX, StepY, StepsX, StepsY, e2
<1> HIDE DEF s, t
<1>10. /\ pos'[1] = IF s = 1 THEN pos[1] + (IF to[1] > from[1] THEN 1 ELSE -1) ELSE pos[1]
       /\ pos'[2] = IF t = 1 THEN pos[2] + (IF to[2] > from[2] THEN 1 ELSE -1) ELSE pos[2]
       /\ pos' = <<pos'[1], pos'[2]>>
       /\ from' = from /\ to' = to /\ drawing'
  BY <1>9 DEF Advance, sx, sy
<1>11. err' = Corrected(err, dx, dy, s, t)
  BY <1>9 DEF Advance, Corrected
<1>12. /\ pos'[1] \in Int /\ InReach(pos'[1], from[1], to[1])
       /\ Abs(pos'[1] - from[1]) = GoneX + s
       /\ Abs(to[1] - pos'[1]) = Abs(to[1] - pos[1]) - s
  BY <1>1, <1>2, <1>5, <1>6, <1>10, AxisStep DEF OnLine, GoneX, dx
<1>13. /\ pos'[2] \in Int /\ InReach(pos'[2], from[2], to[2])
       /\ Abs(pos'[2] - from[2]) = GoneY + t
       /\ Abs(to[2] - pos'[2]) = Abs(to[2] - pos[2]) - t
  BY <1>1, <1>2, <1>5, <1>6, <1>10, AxisStep DEF OnLine, GoneY, dy
<1>14. GoneX' = GoneX + s /\ GoneY' = GoneY + t /\ dx' = dx /\ dy' = dy
  BY <1>10, <1>12, <1>13 DEF GoneX, GoneY, dx, dy
<1>15. LineTypeOK'
  <2>1. err' \in Int
    BY <1>2, <1>3, <1>5, <1>11 DEF Corrected
  <2> QED BY <2>1, <1>1, <1>10, <1>12, <1>13 DEF LineTypeOK, Point
<1>16. OnLine'
  BY <1>7, <1>8, <1>10, <1>11, <1>12, <1>13, <1>14 DEF OnLine
<1>17. Left' < Left
  <2>1. Left' = (Abs(to[1] - pos[1]) - s) + (Abs(to[2] - pos[2]) - t)
    BY <1>10, <1>12, <1>13 DEF Left
  <2>2. Abs(to[1] - pos[1]) \in Int /\ Abs(to[2] - pos[2]) \in Int
    BY <1>2 DEF Abs
  <2> QED BY <2>1, <2>2, <1>5 DEF Left
<1> QED BY <1>15, <1>16, <1>17 DEF LineInv

LEMMA LineStepInv == LineInv /\ [LineNext]_line_vars => LineInv'
<1> SUFFICES ASSUME LineInv, [LineNext]_line_vars PROVE LineInv'
  OBVIOUS
<1>1. CASE \E p, q \in Ends : Begin(p, q)
  BY <1>1, BeginInv
<1>2. CASE Advance
  BY <1>2, AdvanceInv
<1>3. CASE Finish
  BY <1>3 DEF Finish, LineInv, LineTypeOK
<1>4. CASE UNCHANGED line_vars
  BY <1>4 DEF line_vars, LineInv, LineTypeOK, OnLine, GoneX, GoneY, dx, dy
<1> QED BY <1>1, <1>2, <1>3, <1>4 DEF LineNext

THEOREM LineInvariant == LineSpec => []LineInv
BY LineInitInv, LineStepInv, PTL DEF LineSpec

LEMMA LineInvStraight == LineInv => WithinHalfAPixel
BY DEF LineInv, OnLine, Near, WithinHalfAPixel, Longer

LEMMA LineInvInBox == LineInv => StaysInBox
<1> SUFFICES ASSUME LineInv, drawing
             PROVE  /\ GoneX + Abs(to[1] - pos[1]) = dx
                    /\ GoneY + Abs(to[2] - pos[2]) = dy
  BY DEF StaysInBox
<1>1. /\ pos[1] \in Int /\ to[1] \in Int /\ from[1] \in Int
      /\ pos[2] \in Int /\ to[2] \in Int /\ from[2] \in Int
      /\ InReach(pos[1], from[1], to[1]) /\ InReach(pos[2], from[2], to[2])
  BY DEF LineInv, LineTypeOK, OnLine, Point
<1> QED BY <1>1, InReachGone DEF GoneX, GoneY, dx, dy

(* Lines between any two points, however far apart, keep within half a     *)
(* pixel of the ideal line.                                                *)
THEOREM LinesAreStraight == LineSpec => []WithinHalfAPixel
BY LineInvStraight, LineInvariant, PTL

(* And they stay in the box of their ends. *)
THEOREM LinesStayInBox == LineSpec => []StaysInBox
BY LineInvInBox, LineInvariant, PTL

(* Every iteration but the last brings the pixel nearer to the end, so a   *)
(* line takes at most dx + dy of them: the argument behind LineEnds.       *)
Approaches == [][Advance => Left' < Left]_line_vars

THEOREM LinesApproachTheirEnd == LineSpec => Approaches
<1>1. LineInv /\ [LineNext]_line_vars => [Advance => Left' < Left]_line_vars
  BY AdvanceInv
<1> QED BY <1>1, LineInvariant, PTL DEF LineSpec, Approaches

-----------------------------------------------------------------------------
(* Stores *)

LEMMA IntModWord ==
  ASSUME NEW n \in Int, NEW m \in Nat \ {0}
  PROVE  n % m \in 0 .. m - 1
OBVIOUS

LEMMA ModSmall ==
  ASSUME NEW n \in Nat, NEW m \in Nat, n < m
  PROVE  n % m = n
OBVIOUS

(* The row y and column x of a w by h array, counted through *)
LEMMA RowMajorInside ==
  ASSUME NEW w \in Nat, NEW h \in Nat, NEW x \in 0 .. w - 1, NEW y \in 0 .. h - 1
  PROVE  y * w + x \in 0 .. w * h - 1
<1> DEFINE d == h - y
<1>1. d \in Nat /\ d >= 1 /\ h = y + d
  OBVIOUS
<1>2. (y + d) * w = y * w + d * w
  BY <1>1, Z3
<1>3. d * w = w + (d - 1) * w
  BY <1>1, Z3
<1>4. (d - 1) * w >= 0 /\ y * w >= 0
  BY <1>1, Z3
<1>5. w * h = (y + d) * w
  BY <1>1, Z3
<1> HIDE DEF d
<1>6. d * w \in Int /\ y * w \in Int /\ (d - 1) * w \in Int /\ w * h \in Int
  BY <1>1
<1> QED BY <1>2, <1>3, <1>4, <1>5, <1>6

LEMMA ModWrapped ==
  ASSUME NEW m \in Nat, NEW n \in Nat, n < m
  PROVE  (n - m) % m = n
OBVIOUS

LEMMA ModAtMost ==
  ASSUME NEW n \in Nat, NEW m \in Nat \ {0}
  PROVE  n % m <= n
<1>1. CASE n < m
  BY <1>1, ModSmall
<1>2. CASE m <= n
  BY <1>2, IntModWord
<1> QED BY <1>1, <1>2

LEMMA U32InNat ==
  ASSUME mode \in Mode, NEW n \in Int
  PROVE  U32(n) \in Nat /\ Word \in Nat \ {0}
BY GraphicsAssumption, IntModWord DEF U32, Mode

(***************************************************************************)
(* Where stores go                                                         *)
(***************************************************************************)

LEMMA IndexInCells ==
  ASSUME mode \in Mode, Fits(mode), NEW p \in Visible
  PROVE  Index(p) \in Cells
<1>1. /\ mode.width \in Nat /\ mode.height \in Nat
      /\ p[1] \in 0 .. mode.width - 1 /\ p[2] \in 0 .. mode.height - 1
      /\ Word \in Nat /\ BACKBUFFER_PIXELS \in 0 .. Word
  BY GraphicsAssumption DEF Mode, Visible, fb_width, fb_height
<1> DEFINE i == p[2] * mode.width + p[1]
<1>2. i \in 0 .. mode.width * mode.height - 1
  BY <1>1, RowMajorInside
<1>3. mode.width * mode.height <= BACKBUFFER_PIXELS
  BY DEF Fits
<1>4. mode.width * mode.height \in Int
  BY <1>1
<1> HIDE DEF i
<1>5. i \in Nat /\ i < Word /\ i \in 0 .. BACKBUFFER_PIXELS - 1
  BY <1>1, <1>2, <1>3, <1>4
<1>6. i % Word = i
  BY <1>1, <1>5, ModSmall
<1> QED BY <1>5, <1>6 DEF Index, U32, fb_width, Cells, i

LEMMA AreaFits ==
  ASSUME mode \in Mode, Fits(mode)
  PROVE  ~(U32(fb_width * fb_height) > BACKBUFFER_PIXELS)
<1>1. /\ fb_width \in Nat /\ fb_height \in Nat /\ Word \in Nat \ {0}
      /\ BACKBUFFER_PIXELS \in Int
  BY GraphicsAssumption DEF Mode, fb_width, fb_height
<1>2. fb_width * fb_height \in Nat
  BY <1>1
<1>3. fb_width * fb_height <= BACKBUFFER_PIXELS
  BY DEF Fits, fb_width, fb_height
<1>4. /\ (fb_width * fb_height) % Word <= fb_width * fb_height
      /\ (fb_width * fb_height) % Word \in Int
  BY <1>1, <1>2, ModAtMost
<1> QED BY <1>1, <1>2, <1>3, <1>4 DEF U32

(* The inductive invariant: what TypeOK and StaysInBackBuffer say, and the *)
(* colour that a line which is being drawn still needs.                    *)
Inv ==
  /\ TypeOK
  /\ StaysInBackBuffer
  /\ drawing => request.color \in 0 .. Byte - 1

LEMMA PaintStays ==
  ASSUME Inv, NEW S \in SUBSET Visible, NEW image \in [S -> 0 .. Byte - 1],
         Paint(image), UNCHANGED mode
  PROVE  /\ backbuffer' \in [Cells -> 0 .. Byte - 1] /\ overrun' \in BOOLEAN
         /\ StaysInBackBuffer'
<1> DEFINE at(i) == {p \in DOMAIN image : Index(p) = i}
<1>1. backbuffer' = [i \in Cells |-> IF at(i) = {} THEN backbuffer[i]
                                     ELSE image[CHOOSE p \in at(i) : TRUE]]
  BY DEF Paint
<1>2. ASSUME NEW i \in Cells
      PROVE  (IF at(i) = {} THEN backbuffer[i] ELSE image[CHOOSE p \in at(i) : TRUE])
               \in 0 .. Byte - 1
  <2>1. CASE at(i) = {}
    BY <2>1 DEF Inv, TypeOK
  <2>2. CASE at(i) # {}
    <3>1. (CHOOSE p \in at(i) : TRUE) \in at(i)
      BY <2>2
    <3>2. at(i) \subseteq S
      OBVIOUS
    <3>3. (CHOOSE p \in at(i) : TRUE) \in S
      BY <3>1, <3>2
    <3> QED BY <2>2, <3>3
  <2> QED BY <2>1, <2>2
<1>3. backbuffer' \in [Cells -> 0 .. Byte - 1]
  BY <1>1, <1>2
<1>4. overrun' = (overrun \/ \E p \in DOMAIN image : Index(p) \notin Cells)
  BY DEF Paint
<1>5. Fits(mode) => ~overrun'
  <2> SUFFICES ASSUME Fits(mode) PROVE ~overrun'
    OBVIOUS
  <2>1. \A p \in S : Index(p) \in Cells
    BY IndexInCells DEF Inv, TypeOK
  <2> QED BY <1>4, <2>1 DEF Inv, StaysInBackBuffer
<1> QED BY <1>3, <1>4, <1>5 DEF StaysInBackBuffer

LEMMA ClippedVisible ==
  ASSUME NEW S
  PROVE  Clipped(S) \in SUBSET Visible
BY DEF Clipped

LEMMA SpanInside ==
  ASSUME NEW a \in Nat, NEW length, NEW limit \in Nat
  PROVE  Span(a, length, limit) \subseteq 0 .. limit - 1
BY DEF Span

LEMMA SpansVisible ==
  ASSUME mode \in Mode, NEW x \in Int, NEW y \in Int, NEW w, NEW h
  PROVE  /\ Span(U32(x), w, fb_width) \subseteq 0 .. fb_width - 1
         /\ Span(U32(y), h, fb_height) \subseteq 0 .. fb_height - 1
<1>1. fb_width \in Nat /\ fb_height \in Nat
  BY GraphicsAssumption DEF Mode, fb_width, fb_height
<1>2. U32(x) \in Nat /\ U32(y) \in Nat
  BY U32InNat
<1> QED BY <1>1, <1>2, SpanInside

LEMMA GradientRowsVisible ==
  ASSUME mode \in Mode, NEW y \in Int, NEW height \in Nat
  PROVE  {U32(y + py) : py \in {n \in 0 .. height - 1 :
                                  \A m \in 0 .. n : U32(y + m) < fb_height}}
           \subseteq 0 .. fb_height - 1
<1> SUFFICES ASSUME NEW n \in 0 .. height - 1,
                    \A m \in 0 .. n : U32(y + m) < fb_height
             PROVE  U32(y + n) \in 0 .. fb_height - 1
  OBVIOUS
<1>1. n \in 0 .. n /\ y + n \in Int
  OBVIOUS
<1>2. U32(y + n) < fb_height
  BY <1>1
<1>3. U32(y + n) \in Nat
  BY <1>1, U32InNat
<1>4. fb_height \in Nat
  BY GraphicsAssumption DEF Mode, fb_height
<1> HIDE DEF U32
<1> QED BY <1>2, <1>3, <1>4

(***************************************************************************)
(* What one colour channel becomes                                         *)
(***************************************************************************)

LEMMA QuotientInt ==
  ASSUME NEW n \in Nat, NEW m \in Nat \ {0}
  PROVE  n \div m \in Int
OBVIOUS

LEMMA LerpIsChannel ==
  ASSUME mode \in Mode, NEW c1 \in Int, NEW c2 \in Int, NEW t \in Int,
         NEW max \in Nat \ {0}
  PROVE  lerp_color(c1, c2, t, max) \in 0 .. Byte - 1
<1>1. U32(c2 - c1) \in Nat
  BY U32InNat
<1>2. U32(c2 - c1) * t \in Int
  BY <1>1
<1>3. U32(U32(c2 - c1) * t) \in Nat
  BY <1>2, U32InNat
<1>4. U32(U32(c2 - c1) * t) \div max \in Int
  BY <1>3, QuotientInt
<1>5. c1 + U32(U32(c2 - c1) * t) \div max \in Int
  BY <1>4
<1>6. Byte \in Nat \ {0}
  BY GraphicsAssumption
<1>7. (c1 + U32(U32(c2 - c1) * t) \div max) % Byte \in 0 .. Byte - 1
  BY <1>5, <1>6, IntModWord
<1> QED BY <1>7 DEF lerp_color, U8

(***************************************************************************)
(* Every step keeps the invariant                                          *)
(***************************************************************************)

LEMMA CallIsCounted ==
  ASSUME Inv, NEW r, Call(r)
  PROVE  calls' \in 0 .. MaxCalls /\ mode' = mode /\ ~drawing
<1>1. calls + 1 \in 0 .. MaxCalls
  BY GraphicsAssumption DEF Inv, TypeOK, Call
<1> QED BY <1>1 DEF Call

LEMMA PaintingCall ==
  ASSUME Inv, NEW r, Call(r), UNCHANGED drawing,
         NEW S \in SUBSET Visible, NEW image \in [S -> 0 .. Byte - 1], Paint(image)
  PROVE  Inv'
<1>1. calls' \in 0 .. MaxCalls /\ mode' = mode /\ ~drawing'
  BY CallIsCounted
<1>2. /\ backbuffer' \in [Cells -> 0 .. Byte - 1] /\ overrun' \in BOOLEAN
      /\ StaysInBackBuffer'
  BY <1>1, PaintStays
<1>3. mode' \in Mode
  BY <1>1 DEF Inv, TypeOK
<1>4. TypeOK'
  BY <1>1, <1>2, <1>3 DEF TypeOK, Cells
<1> QED BY <1>1, <1>2, <1>4 DEF Inv

LEMMA QuietCall ==
  ASSUME Inv, NEW r, Call(r), UNCHANGED <<backbuffer, overrun>>,
         drawing' => r.color \in 0 .. Byte - 1
  PROVE  Inv'
<1>1. calls' \in 0 .. MaxCalls /\ mode' = mode /\ request' = r
  BY CallIsCounted DEF Call
<1>2. TypeOK'
  BY <1>1 DEF Inv, TypeOK, Cells
<1>3. StaysInBackBuffer'
  BY <1>1 DEF Inv, StaysInBackBuffer
<1> QED BY <1>1, <1>2, <1>3 DEF Inv

LEMMA PutPixelInv == Inv /\ PutPixel => Inv'
<1> SUFFICES ASSUME Inv, PutPixel PROVE Inv'
  OBVIOUS
<1> PICK x \in Coordinates, y \in Coordinates, c \in Colors :
      /\ Call([op |-> "pixel", x |-> x, y |-> y, color |-> c])
      /\ graphics_put_pixel(x, y, c)
      /\ UNCHANGED <<line_vars, framebuffer>>
  BY DEF PutPixel
<1> DEFINE S == Clipped({<<U32(x), U32(y)>>})
<1>1. S \in SUBSET Visible
  BY ClippedVisible
<1>2. c \in 0 .. Byte - 1
  BY GraphicsAssumption
<1>3. [p \in S |-> c] \in [S -> 0 .. Byte - 1]
  BY <1>2
<1>4. Paint([p \in S |-> c]) /\ UNCHANGED drawing
  BY DEF graphics_put_pixel, line_vars
<1> HIDE DEF S
<1> QED BY <1>1, <1>3, <1>4, PaintingCall

LEMMA FillRectInv == Inv /\ FillRect => Inv'
<1> SUFFICES ASSUME Inv, FillRect PROVE Inv'
  OBVIOUS
<1> PICK x \in Coordinates, y \in Coordinates, w \in Lengths, h \in Lengths, c \in Colors :
      /\ Call([op |-> "rectangle", x |-> x, y |-> y, w |-> w, h |-> h, color |-> c])
      /\ graphics_fill_rect(x, y, w, h, c)
      /\ UNCHANGED <<line_vars, framebuffer>>
  BY DEF FillRect
<1> DEFINE X == Span(U32(x), w, fb_width)
           Y == Span(U32(y), h, fb_height)
<1>1. x \in Int /\ y \in Int /\ c \in 0 .. Byte - 1 /\ mode \in Mode
  BY GraphicsAssumption DEF Inv, TypeOK
<1>2. X \X Y \in SUBSET Visible
  BY <1>1, SpansVisible DEF Visible
<1>3. [p \in X \X Y |-> c] \in [X \X Y -> 0 .. Byte - 1]
  BY <1>1
<1>4. Paint([p \in X \X Y |-> c]) /\ UNCHANGED drawing
  BY DEF graphics_fill_rect, line_vars
<1> HIDE DEF X, Y
<1> QED BY <1>2, <1>3, <1>4, PaintingCall

LEMMA DrawRectInv == Inv /\ DrawRect => Inv'
<1> SUFFICES ASSUME Inv, DrawRect PROVE Inv'
  OBVIOUS
<1> PICK x \in Coordinates, y \in Coordinates, w \in Lengths, h \in Lengths, c \in Colors :
      /\ Call([op |-> "frame", x |-> x, y |-> y, w |-> w, h |-> h, color |-> c])
      /\ graphics_draw_rect(x, y, w, h, c)
      /\ UNCHANGED <<line_vars, framebuffer>>
  BY DEF DrawRect
<1> DEFINE X == Span(U32(x), w, fb_width)
           Y == Span(U32(y), h, fb_height)
           rows == {n \in {U32(y), U32(y + h - 1)} : n < fb_height}
           columns == {n \in {U32(x), U32(x + w - 1)} : n < fb_width}
           S == (X \X rows) \cup (columns \X Y)
<1>1. /\ x \in Int /\ y \in Int /\ c \in 0 .. Byte - 1 /\ mode \in Mode
      /\ w \in Int /\ h \in Int
  BY GraphicsAssumption DEF Inv, TypeOK
<1>2. /\ X \subseteq 0 .. fb_width - 1
      /\ Y \subseteq 0 .. fb_height - 1
  BY <1>1, SpansVisible
<1>3. /\ U32(x) \in Nat /\ U32(y) \in Nat
      /\ U32(x + w - 1) \in Nat /\ U32(y + h - 1) \in Nat
  BY <1>1, U32InNat
<1>4. fb_width \in Nat /\ fb_height \in Nat
  BY <1>1, GraphicsAssumption DEF Mode, fb_width, fb_height
<1>5. rows \subseteq 0 .. fb_height - 1
  <2> HIDE DEF U32, fb_height
  <2> QED BY <1>3, <1>4
<1>6. columns \subseteq 0 .. fb_width - 1
  <2> HIDE DEF U32, fb_width
  <2> QED BY <1>3, <1>4
<1>7. Paint([p \in S |-> c]) /\ UNCHANGED drawing
  BY DEF graphics_draw_rect, line_vars
<1> HIDE DEF X, Y, rows, columns
<1>8. S \in SUBSET Visible
  BY <1>2, <1>5, <1>6 DEF Visible
<1>9. [p \in S |-> c] \in [S -> 0 .. Byte - 1]
  BY <1>1
<1> HIDE DEF S
<1> QED BY <1>7, <1>8, <1>9, PaintingCall

LEMMA FillGradientInv == Inv /\ FillGradient => Inv'
<1> SUFFICES ASSUME Inv, FillGradient PROVE Inv'
  OBVIOUS
<1> PICK x \in Coordinates, y \in Coordinates, w \in Lengths, h \in Lengths,
         c \in Colors, d \in Colors :
      /\ Call([op |-> "gradient", x |-> x, y |-> y, w |-> w, h |-> h,
               color |-> c, bottom |-> d])
      /\ graphics_fill_gradient_v(x, y, w, h, c, d)
      /\ UNCHANGED <<line_vars, framebuffer>>
  BY DEF FillGradient
<1> DEFINE X == Span(U32(x), w, fb_width)
           Y == {py \in 0 .. h - 1 : \A n \in 0 .. py : U32(y + n) < fb_height}
           S == X \X {U32(y + py) : py \in Y}
           image == [p \in S |-> lerp_color(c, d, U32(p[2] - y), h)]
<1>1. /\ x \in Int /\ y \in Int /\ mode \in Mode
      /\ c \in Int /\ d \in Int /\ h \in Nat \ {0}
  BY GraphicsAssumption DEF Inv, TypeOK
<1>2. S \in SUBSET Visible
  <2>1. {U32(y + py) : py \in Y} \subseteq 0 .. fb_height - 1
    BY <1>1, GradientRowsVisible
  <2>2. X \subseteq 0 .. fb_width - 1
    BY <1>1, SpansVisible
  <2> HIDE DEF X, Y
  <2> QED BY <2>1, <2>2 DEF Visible
<1>3. image \in [S -> 0 .. Byte - 1]
  <2> SUFFICES ASSUME NEW p \in S
               PROVE  lerp_color(c, d, U32(p[2] - y), h) \in 0 .. Byte - 1
    OBVIOUS
  <2>1. p \in Visible
    BY <1>2
  <2>2. p[2] - y \in Int
    BY <1>1, <2>1 DEF Visible
  <2>3. U32(p[2] - y) \in Int
    BY <1>1, <2>2, U32InNat
  <2> QED BY <1>1, <2>3, LerpIsChannel
<1>4. Paint(image) /\ UNCHANGED drawing
  BY DEF graphics_fill_gradient_v, line_vars
<1> HIDE DEF S, image
<1> QED BY <1>2, <1>3, <1>4, PaintingCall

LEMMA LettersAndPaper ==
  ASSUME NEW S, NEW ink, NEW fg \in Colors, NEW bg \in Colors
  PROVE  [p \in Clipped(S) |-> IF p \in ink THEN fg ELSE bg]
           \in [Clipped(S) -> 0 .. Byte - 1]
BY GraphicsAssumption

LEMMA DrawCharInv == Inv /\ DrawChar => Inv'
<1> SUFFICES ASSUME Inv, DrawChar PROVE Inv'
  OBVIOUS
<1> PICK x \in Coordinates, y \in Coordinates, char \in DOMAIN Glyph,
         c \in Colors, d \in Colors :
      /\ Call(TextRequest(x, y, <<char>>, c, TRUE, d))
      /\ graphics_draw_char(x, y, char, c, d)
      /\ UNCHANGED <<line_vars, framebuffer>>
  BY DEF DrawChar
<1> DEFINE S == At(CharCells, <<U32(x), U32(y)>>)
           ink == At(font_get_char(char), <<U32(x), U32(y)>>)
           image == [p \in Clipped(S) |-> IF p \in ink THEN c ELSE d]
<1>1. Paint(image) /\ UNCHANGED drawing
  BY DEF graphics_draw_char, line_vars
<1> HIDE DEF S, ink
<1>2. image \in [Clipped(S) -> 0 .. Byte - 1] /\ Clipped(S) \in SUBSET Visible
  BY LettersAndPaper, ClippedVisible
<1> HIDE DEF image
<1> QED BY <1>1, <1>2, PaintingCall

LEMMA DrawStringInv == Inv /\ DrawString => Inv'
<1> SUFFICES ASSUME Inv, DrawString PROVE Inv'
  OBVIOUS
<1> PICK x \in Coordinates, y \in Coordinates, s \in Texts, c \in Colors, d \in Colors :
      /\ Call(TextRequest(x, y, s, c, TRUE, d))
      /\ graphics_draw_string(x, y, s, c, d)
      /\ UNCHANGED <<line_vars, framebuffer>>
  BY DEF DrawString
<1> DEFINE S == CellsOf(x, y, s)
           ink == InkOf(x, y, s)
           image == [p \in Clipped(S) |-> IF p \in ink THEN c ELSE d]
<1>1. Paint(image) /\ UNCHANGED drawing
  BY DEF graphics_draw_string, line_vars
<1> HIDE DEF S, ink
<1>2. image \in [Clipped(S) -> 0 .. Byte - 1] /\ Clipped(S) \in SUBSET Visible
  BY LettersAndPaper, ClippedVisible
<1> HIDE DEF image
<1> QED BY <1>1, <1>2, PaintingCall

LEMMA DrawStringTransparentInv == Inv /\ DrawStringTransparent => Inv'
<1> SUFFICES ASSUME Inv, DrawStringTransparent PROVE Inv'
  OBVIOUS
<1> PICK x \in Coordinates, y \in Coordinates, s \in Texts, c \in Colors :
      /\ Call(TextRequest(x, y, s, c, FALSE, c))
      /\ graphics_draw_string_transparent(x, y, s, c)
      /\ UNCHANGED <<line_vars, framebuffer>>
  BY DEF DrawStringTransparent
<1> DEFINE S == Clipped(InkOf(x, y, s))
<1>1. S \in SUBSET Visible
  BY ClippedVisible
<1>2. c \in 0 .. Byte - 1
  BY GraphicsAssumption
<1>3. [p \in S |-> c] \in [S -> 0 .. Byte - 1]
  BY <1>2
<1>4. Paint([p \in S |-> c]) /\ UNCHANGED drawing
  BY DEF graphics_draw_string_transparent, line_vars
<1> HIDE DEF S
<1> QED BY <1>1, <1>3, <1>4, PaintingCall

LEMMA DrawLabelInv == Inv /\ DrawLabel => Inv'
<1> SUFFICES ASSUME Inv, DrawLabel PROVE Inv'
  OBVIOUS
<1> PICK x \in Coordinates, y \in Coordinates, s \in Names, c \in Colors :
      /\ Call([op |-> "label", x |-> x, y |-> y, w |-> ICON_WIDTH, text |-> s,
               color |-> c, opaque |-> FALSE, paper |-> c])
      /\ graphics_draw_string_transparent(text_x(x, s), y, s, c)
      /\ UNCHANGED <<line_vars, framebuffer>>
  BY DEF DrawLabel
<1> DEFINE S == Clipped(InkOf(text_x(x, s), y, s))
<1>1. S \in SUBSET Visible
  BY ClippedVisible
<1>2. c \in 0 .. Byte - 1
  BY GraphicsAssumption
<1>3. [p \in S |-> c] \in [S -> 0 .. Byte - 1]
  BY <1>2
<1>4. Paint([p \in S |-> c]) /\ UNCHANGED drawing
  BY DEF graphics_draw_string_transparent, line_vars
<1> HIDE DEF S
<1> QED BY <1>1, <1>3, <1>4, PaintingCall

LEMMA ClearScreenInv == Inv /\ ClearScreen => Inv'
<1> SUFFICES ASSUME Inv, ClearScreen PROVE Inv'
  OBVIOUS
<1> PICK c \in Colors :
      /\ Call([op |-> "clear", color |-> c])
      /\ graphics_clear(c)
      /\ UNCHANGED <<line_vars, framebuffer>>
  BY DEF ClearScreen
<1>1. calls' \in 0 .. MaxCalls /\ mode' = mode /\ ~drawing'
  BY CallIsCounted DEF line_vars
<1>2. c \in 0 .. Byte - 1
  BY GraphicsAssumption
<1>3. backbuffer' = [i \in Cells |-> IF i < U32(fb_width * fb_height) THEN c
                                     ELSE backbuffer[i]]
  BY DEF graphics_clear, Filled
<1>4. backbuffer' \in [Cells -> 0 .. Byte - 1]
  <2> SUFFICES ASSUME NEW i \in Cells
               PROVE  (IF i < U32(fb_width * fb_height) THEN c ELSE backbuffer[i])
                        \in 0 .. Byte - 1
    BY <1>3
  <2> QED BY <1>2 DEF Inv, TypeOK
<1>5. overrun' = (overrun \/ U32(fb_width * fb_height) > BACKBUFFER_PIXELS)
  BY DEF graphics_clear
<1>6. Fits(mode) => ~overrun'
  BY <1>5, AreaFits DEF Inv, TypeOK, StaysInBackBuffer
<1>7. overrun' \in BOOLEAN /\ mode' \in Mode
  BY <1>1, <1>5 DEF Inv, TypeOK
<1> QED BY <1>1, <1>4, <1>6, <1>7 DEF Inv, TypeOK, Cells, StaysInBackBuffer

LEMMA SwapBuffersInv == Inv /\ SwapBuffers => Inv'
<1> SUFFICES ASSUME Inv, SwapBuffers PROVE Inv'
  OBVIOUS
<1>1. Call([op |-> "show"]) /\ UNCHANGED <<backbuffer, overrun>> /\ UNCHANGED drawing
  BY DEF SwapBuffers, graphics_swap_buffers, line_vars
<1>2. ~drawing'
  BY <1>1, CallIsCounted
<1> QED BY <1>1, <1>2, QuietCall

LEMMA BeginLineInv == Inv /\ BeginLine => Inv'
<1> SUFFICES ASSUME Inv, BeginLine PROVE Inv'
  OBVIOUS
<1> PICK p \in Ends, q \in Ends, c \in Colors :
      /\ Call([op |-> "line", from |-> p, to |-> q, color |-> c])
      /\ UNCHANGED <<backbuffer, framebuffer, overrun>>
  BY DEF BeginLine
<1>1. [op |-> "line", from |-> p, to |-> q, color |-> c].color \in 0 .. Byte - 1
  BY GraphicsAssumption
<1> QED BY <1>1, QuietCall

LEMMA PlotPointInv == Inv /\ PlotPoint => Inv'
<1> SUFFICES ASSUME Inv, PlotPoint PROVE Inv'
  OBVIOUS
<1> DEFINE S == Clipped({pos})
<1>1. S \in SUBSET Visible
  BY ClippedVisible
<1>2. request.color \in 0 .. Byte - 1 /\ UNCHANGED <<mode, request, calls>>
  BY DEF Inv, PlotPoint
<1>3. [p \in S |-> request.color] \in [S -> 0 .. Byte - 1]
  BY <1>2
<1>4. Paint([p \in S |-> request.color])
  BY DEF PlotPoint
<1> HIDE DEF S
<1>5. /\ backbuffer' \in [Cells -> 0 .. Byte - 1] /\ overrun' \in BOOLEAN
      /\ StaysInBackBuffer'
  BY <1>1, <1>2, <1>3, <1>4, PaintStays
<1> QED BY <1>2, <1>5 DEF Inv, TypeOK, Cells

LEMMA InitInv == Init => Inv
<1> SUFFICES ASSUME Init PROVE Inv
  OBVIOUS
<1>1. mode \in Mode
  BY GraphicsAssumption DEF Init, graphics_init
<1>2. backbuffer \in [Cells -> 0 .. Byte - 1]
  BY GraphicsAssumption DEF Init, graphics_init, Black
<1>3. overrun = (U32(fb_width * fb_height) > BACKBUFFER_PIXELS)
  BY DEF Init, graphics_init
<1>4. Fits(mode) => ~overrun
  BY <1>1, <1>3, AreaFits
<1>5. calls \in 0 .. MaxCalls
  BY GraphicsAssumption DEF Init
<1>6. ~drawing
  BY DEF Init, LineInit
<1> QED BY <1>1, <1>2, <1>3, <1>4, <1>5, <1>6 DEF Inv, TypeOK, StaysInBackBuffer

LEMMA NextInv == Inv /\ [Next]_vars => Inv'
<1> SUFFICES ASSUME Inv, [Next]_vars PROVE Inv'
  OBVIOUS
<1>1. CASE Next
  BY <1>1, PutPixelInv, FillRectInv, DrawRectInv, FillGradientInv, DrawCharInv,
     DrawStringInv, DrawStringTransparentInv, DrawLabelInv, ClearScreenInv, SwapBuffersInv,
     BeginLineInv, PlotPointInv DEF Next
<1>2. CASE UNCHANGED vars
  BY <1>2 DEF vars, line_vars, Inv, TypeOK, StaysInBackBuffer, Cells
<1> QED BY <1>1, <1>2

-----------------------------------------------------------------------------
(* The types of Graphics: every store puts a channel's value, the result   *)
(* of an interpolation included, in a back buffer whose size stays.        *)
THEOREM GraphicsTypes == Spec => []TypeOK
<1>1. Inv => TypeOK
  BY DEF Inv
<1> QED BY <1>1, InitInv, NextInv, PTL DEF Spec

(* No primitive overruns the back buffer in a mode that fits it, for every *)
(* position and size and whatever their sums wrap to (the loops and tests  *)
(* of graphics_put_pixel, graphics_fill_rect and the rest).                *)
THEOREM StoresStayInside == Spec => []StaysInBackBuffer
<1>1. Inv => StaysInBackBuffer
  BY DEF Inv
<1> QED BY <1>1, InitInv, NextInv, PTL DEF Spec

-----------------------------------------------------------------------------
(* Lines drawn among other calls *)

LEMMA GraphicsStepsTheLine == [Next]_vars => [LineNext]_line_vars
BY DEF Next, vars, PutPixel, FillRect, DrawRect, FillGradient, DrawChar, DrawString,
   DrawStringTransparent, DrawLabel, ClearScreen, SwapBuffers, BeginLine, PlotPoint,
   LineNext

(* A behaviour of Graphics is, in the variables of the line, one of Line   *)
(* but for the fairness, which the shape of a line does not need: every    *)
(* line a program draws keeps to the ideal one and to the box of its ends. *)
THEOREM LinesInPictures == Spec => []FollowsSegment
<1>1. Init => LineInv
  BY LineInitInv DEF Init
<1>2. LineInv /\ [Next]_vars => LineInv'
  BY GraphicsStepsTheLine, LineStepInv
<1>3. LineInv => FollowsSegment
  BY LineInvStraight, LineInvInBox DEF FollowsSegment
<1> QED BY <1>1, <1>2, <1>3, PTL DEF Spec

-----------------------------------------------------------------------------
(* The gradient, one channel at a time *)

(* A quotient of a part of a difference does not exceed the difference *)
LEMMA PartOfDifference ==
  ASSUME NEW d \in Nat, NEW max \in Nat \ {0}, NEW t \in 0 .. max
  PROVE  /\ d * t \in Nat
         /\ (d * t) \div max \in 0 .. d
<1>1. d * t \in Nat /\ d * t <= d * max
  BY Z3
<1>2. (d * t) \div max \in Nat
  BY <1>1, Z3
<1>3. (d * t) \div max <= d
  BY <1>1, Z3
<1> QED BY <1>1, <1>2, <1>3

(* lerp_color keeps a channel that does not fall between its two ends      *)
(* (graphics_fill_gradient_v, as its callers mean it).                     *)
THEOREM RisingChannel ==
  ASSUME mode \in Mode, NEW c1 \in 0 .. Byte - 1, NEW c2 \in c1 .. Byte - 1,
         NEW max \in Nat \ {0}, NEW t \in 0 .. max, (c2 - c1) * t < Word
  PROVE  lerp_color(c1, c2, t, max) \in c1 .. c2
<1> DEFINE d == c2 - c1
<1>1. d \in Nat /\ d < Byte /\ c1 + d = c2 /\ Byte \in Nat /\ Word \in Nat /\ Byte <= Word
  BY GraphicsAssumption
<1>2. c2 - c1 = d
  OBVIOUS
<1>3. d * t < Word
  OBVIOUS
<1> HIDE DEF d
<1>4. d * t \in Nat /\ (d * t) \div max \in 0 .. d
  BY <1>1, PartOfDifference
<1>5. U32(d) = d
  BY <1>1, ModSmall DEF U32
<1>6. U32(d * t) = d * t
  BY <1>1, <1>3, <1>4, ModSmall DEF U32
<1>7. c1 + (d * t) \div max \in c1 .. c2 /\ c1 + (d * t) \div max < Byte
      /\ c1 + (d * t) \div max \in Nat
  BY <1>1, <1>4
<1>8. lerp_color(c1, c2, t, max) = U8(c1 + (d * t) \div max)
  BY <1>2, <1>5, <1>6 DEF lerp_color
<1> QED BY <1>1, <1>7, <1>8, ModSmall DEF U8

(* The second row of a gradient whose channel falls by d *)
LEMMA FirstFall ==
  ASSUME Word \in Nat, NEW c1 \in Nat, NEW c2 \in Nat, NEW d \in Nat \ {0},
         c1 - c2 = d, d < Word, NEW max \in Nat \ {0}
  PROVE  lerp_color(c1, c2, 1, max) = U8(c1 + (Word - d) \div max)
<1> DEFINE n == Word - d
<1>1. n \in Nat /\ n < Word /\ c2 - c1 = n - Word /\ n * 1 = n
  OBVIOUS
<1> HIDE DEF n
<1>2. (n - Word) % Word = n /\ n % Word = n
  BY <1>1, ModWrapped, ModSmall
<1>3. lerp_color(c1, c2, 1, max) = U8(c1 + n \div max)
  BY <1>1, <1>2 DEF lerp_color, U32
<1> QED BY <1>3 DEF n

(* A channel that falls is carried out of its ends by the unsigned         *)
(* arithmetic.  The green of the desktop falls from 74 to 20 over 560      *)
(* rows, and already its second row is at 154 (draw_desktop).              *)
THEOREM FallingChannel ==
  ASSUME Word = 4294967296, Byte = 256
  PROVE  lerp_color(74, 20, 1, 560) = 154
<1>1. lerp_color(74, 20, 1, 560) = U8(74 + (Word - 54) \div 560)
  BY FirstFall, SMT
<1>2. (Word - 54) \div 560 = 7669584
  BY SMT
<1>3. (74 + 7669584) % 256 = 154
  BY SMT
<1> QED BY <1>1, <1>2, <1>3, SMT DEF U8

(***************************************************************************)
(* Labels                                                                  *)
(***************************************************************************)

(* The name of an icon is centred when it is no wider than the icon, and   *)
(* begins at least a quarter of all 2^32 columns away when it is wider     *)
(* (draw_desktop_icon): of the five icons kernel_main adds, the three      *)
(* named with nine or eleven characters have no label on any screen.       *)
THEOREM LabelPlace ==
  ASSUME Word \in Nat, NEW x \in Nat, NEW s, NEW room \in Int,
         ICON_WIDTH - FONT_WIDTH * Len(s) = room,
         NEW half \in Nat, Word = 2 * half, x + half < Word
  PROVE  /\ room \in 0 .. Word - 1 /\ x + room \div 2 < Word
              => text_x(x, s) = x + room \div 2
         /\ room < 0 /\ -room <= half => text_x(x, s) >= half \div 2
<1>1. CASE room \in 0 .. Word - 1 /\ x + room \div 2 < Word
  <2>1. room \in Nat /\ room < Word /\ room \div 2 \in Nat
    BY <1>1
  <2>2. U32(room) = room
    BY <2>1, ModSmall DEF U32
  <2>3. U32(x + room \div 2) = x + room \div 2
    BY <1>1, <2>1, ModSmall DEF U32
  <2>4. text_x(x, s) = x + room \div 2
    BY <2>2, <2>3 DEF text_x
  <2> QED BY <2>1, <2>4
<1>2. CASE room < 0 /\ -room <= half
  <2> DEFINE n == room + Word
             q == n \div 2
  <2>1. n \in Nat /\ n < Word /\ half <= n /\ n < 2 * half /\ room = n - Word
    BY <1>2
  <2> HIDE DEF n
  <2>2. q \in Nat /\ half \div 2 <= q /\ q < half /\ half \div 2 \in Int
    BY <2>1
  <2>3. U32(room) = n
    BY <2>1, ModWrapped DEF U32
  <2>4. text_x(x, s) = U32(x + q)
    BY <2>3 DEF text_x
  <2> HIDE DEF q
  <2>5. x + q \in Nat /\ x + q < Word
    BY <2>2
  <2>6. U32(x + q) = x + q
    BY <2>5, ModSmall DEF U32
  <2> QED BY <1>2, <2>2, <2>4, <2>5, <2>6
<1> QED BY <1>1, <1>2

-----------------------------------------------------------------------------
(***************************************************************************)
(* The frame buffer                                                        *)
(***************************************************************************)

(* The mode is one of those the boot loader may report, for good; in one   *)
(* that does not fit nothing is drawn.                                     *)
ModeInv ==
  /\ Inv
  /\ mode \in Modes \cup {FALLBACK}
  /\ Fits(mode) \/ (overrun /\ ~drawing)

LEMMA AreaInWord ==
  ASSUME mode \in Modes \cup {FALLBACK}
  PROVE  /\ mode \in Mode /\ fb_width \in Nat \ {0} /\ fb_height \in Nat \ {0}
         /\ Word \in Nat \ {0}
         /\ fb_width * fb_height \in Nat /\ fb_width * fb_height < Word
<1>1. /\ mode \in Mode /\ Word \in Nat /\ Byte4 * (mode.width * mode.height) <= Word
  BY GraphicsAssumption, RangeAssumption
<1>2. mode.width \in Nat \ {0} /\ mode.height \in Nat \ {0} /\ Word \in Nat \ {0}
  BY <1>1 DEF Mode
<1>3. mode.width * mode.height \in Nat /\ 0 < mode.width * mode.height
  BY <1>2, Z3
<1>4. mode.width * mode.height < Word
  BY <1>1, <1>2, <1>3 DEF Byte4
<1>5. QED BY <1>1, <1>2, <1>3, <1>4 DEF fb_width, fb_height

LEMMA CallKeepsMode ==
  ASSUME NEW r, Call(r)
  PROVE  UNCHANGED mode /\ ~overrun /\ ~drawing
BY DEF Call

LEMMA InitModeInv == Init => ModeInv
<1> SUFFICES ASSUME Init PROVE ModeInv
  OBVIOUS
<1>1. mode \in Modes \cup {FALLBACK} /\ ~drawing
      /\ overrun = (U32(fb_width * fb_height) > BACKBUFFER_PIXELS)
  BY DEF Init, graphics_init, LineInit
<1>2. U32(fb_width * fb_height) = fb_width * fb_height
  BY <1>1, AreaInWord, ModSmall DEF U32
<1>3. Fits(mode) \/ overrun
  <2>1. BACKBUFFER_PIXELS \in Int /\ fb_width * fb_height \in Int
    BY <1>1, AreaInWord, GraphicsAssumption
  <2> DEFINE area == fb_width * fb_height
  <2>2. area = mode.width * mode.height  BY DEF fb_width, fb_height
  <2>3. overrun <=> area > BACKBUFFER_PIXELS  BY <1>1, <1>2
  <2> HIDE DEF area
  <2>4. QED BY <2>1, <2>2, <2>3 DEF Fits, area
<1>4. QED BY <1>1, <1>3, InitInv DEF ModeInv

LEMMA ModeInvariant == Spec => []ModeInv
<1>1. ModeInv /\ [Next]_vars => ModeInv'
  <2> SUFFICES ASSUME ModeInv, [Next]_vars PROVE ModeInv'
    OBVIOUS
  <2>1. Inv'  BY NextInv DEF ModeInv
  <2>2. UNCHANGED mode
    BY DEF Next, vars, PutPixel, FillRect, DrawRect, FillGradient, DrawChar, DrawString,
           DrawStringTransparent, DrawLabel, ClearScreen, SwapBuffers, BeginLine,
           PlotPoint, Call
  <2>3. Fits(mode) \/ UNCHANGED <<overrun, drawing>>
    <3> SUFFICES ASSUME ~Fits(mode) PROVE UNCHANGED <<overrun, drawing>>
      OBVIOUS
    <3>1. overrun /\ ~drawing  BY DEF ModeInv
    <3>2. ~Next
      BY <3>1 DEF Next, PutPixel, FillRect, DrawRect, FillGradient, DrawChar, DrawString,
             DrawStringTransparent, DrawLabel, ClearScreen, SwapBuffers, BeginLine,
             PlotPoint, Call
    <3>3. QED BY <3>2 DEF vars, line_vars
  <2>4. QED BY <2>1, <2>2, <2>3 DEF ModeInv, Fits
<1>2. QED BY InitModeInv, <1>1, PTL DEF Spec

(* Rows that do not overlap: a byte is in the row whose pixels it is among *)
LEMMA RowsApart ==
  ASSUME NEW pitch \in Nat, NEW y \in Nat, NEW z \in Nat, NEW k \in Nat, k < pitch,
         z # y
  PROVE  LET d == y * pitch + k - z * pitch IN d < 0 \/ d >= pitch
<1>1. PICK m \in Int : m = y - z
  OBVIOUS
<1>2. y * pitch - z * pitch = m * pitch
  BY <1>1, Z3
<1>3. m >= 1 => m * pitch >= pitch
  BY <1>1, Z3
<1>4. m <= -1 => m * pitch <= -pitch
  BY <1>1, Z3
<1>5. m >= 1 \/ m <= -1  BY <1>1
<1>6. y * pitch \in Int /\ z * pitch \in Int /\ m * pitch \in Int
  BY <1>1
<1>7. QED BY <1>2, <1>3, <1>4, <1>5, <1>6

(* The place of a row is not wrapped: a frame buffer ends below 2^32 *)
LEMMA RowInWord ==
  ASSUME ModeInv, mode.pitch \in Nat \ {0}, NEW z \in 0 .. fb_height - 1
  PROVE  RowStart(z) = z * mode.pitch
<1> DEFINE h == fb_height  pitch == mode.pitch  n == z * pitch
<1>1. h \in Nat \ {0} /\ Word \in Nat \ {0} /\ h * pitch <= Word
  BY AreaInWord, RangeAssumption DEF ModeInv, fb_height
<1>2. n \in Nat /\ n < Word
  <2>1. pitch \in Nat \ {0} /\ z \in Nat /\ z + 1 <= h  BY <1>1
  <2> HIDE DEF h, pitch, n
  <2>2. (z + 1) * pitch <= h * pitch /\ (z + 1) * pitch = z * pitch + pitch
    BY <1>1, <2>1, Z3
  <2>3. z * pitch \in Nat /\ h * pitch \in Nat  BY <1>1, <2>1, Z3
  <2>4. z * pitch < Word  BY <1>1, <2>1, <2>2, <2>3
  <2>5. QED BY <2>3, <2>4 DEF n
<1> HIDE DEF n
<1>3. n % Word = n  BY <1>1, <1>2, ModSmall
<1>4. QED BY <1>3 DEF RowStart, U32, n

(* What lies at part i of the pixel p when the rows do not overlap *)
LEMMA CopiedPixel ==
  ASSUME ModeInv, mode.pitch >= fb_width * Byte4, Fits(mode),
         NEW p \in Visible, NEW i \in 0 .. Byte4 - 1
  PROVE  LET a == p[2] * mode.pitch + p[1] * Byte4 + i IN
         /\ a \in FrameBytes(mode) /\ RowsOver(a) # {}
         /\ SourceByte(a) \div Byte4 = Index(p) /\ SourceByte(a) % Byte4 = i
<1> DEFINE w == fb_width  h == fb_height  pitch == mode.pitch
           x == p[1]  y == p[2]  k == x * Byte4 + i
           a == y * pitch + x * Byte4 + i
<1>1. /\ w \in Nat \ {0} /\ h \in Nat \ {0} /\ pitch \in Nat /\ pitch >= 4 * w
      /\ w * h < Word /\ w * h \in Nat
      /\ x \in 0 .. w - 1 /\ y \in 0 .. h - 1 /\ i \in 0 .. 3
      /\ k \in 0 .. 4 * w - 1 /\ k = 4 * x + i
  <2>1. mode \in Mode /\ w \in Nat \ {0} /\ h \in Nat \ {0} /\ w * h < Word /\ w * h \in Nat
    BY AreaInWord DEF ModeInv
  <2>2. x \in 0 .. w - 1 /\ y \in 0 .. h - 1  BY DEF Visible
  <2>3. pitch \in Nat /\ Word \in Nat  BY <2>1, GraphicsAssumption DEF Mode
  <2>4. pitch >= 4 * w  BY <2>1 DEF Byte4
  <2>5. k = 4 * x + i /\ k \in 0 .. 4 * w - 1  BY <2>1, <2>2 DEF Byte4
  <2>6. QED BY <2>1, <2>2, <2>3, <2>4, <2>5 DEF Byte4
<1>0. \A z \in 0 .. h - 1 : RowStart(z) = z * pitch
  BY <1>1, RowInWord
<1>2. y * pitch \in Nat /\ a = y * pitch + k /\ a \in Nat
  <2>1. y \in Nat /\ pitch \in Nat /\ k \in Nat /\ x \in Nat /\ i \in Nat  BY <1>1
  <2>2. a = y * pitch + k
    <3> HIDE DEF y, pitch, x
    <3>1. QED BY <2>1 DEF Byte4
  <2> HIDE DEF y, pitch, k, a
  <2>3. y * pitch \in Nat  BY <2>1, Z3
  <2>4. QED BY <2>1, <2>2, <2>3
<1>3. RowsOver(a) = {y}
  <2>1. \A z \in 0 .. h - 1 : a - RowStart(z) \in 0 .. 4 * w - 1 <=> z = y
    <3> SUFFICES ASSUME NEW z \in 0 .. h - 1
                 PROVE  a - z * pitch \in 0 .. 4 * w - 1 <=> z = y
      BY <1>0
    <3>1. z * pitch \in Int  BY <1>1
    <3>2. CASE z = y
      BY <1>1, <1>2, <3>1, <3>2
    <3>3. CASE z # y
      <4>1. LET d == y * pitch + k - z * pitch IN d < 0 \/ d >= pitch
        <5>1. k \in Nat /\ k < pitch /\ y \in Nat /\ z \in Nat  BY <1>1
        <5> HIDE DEF k, pitch, y
        <5>2. QED BY <1>1, <3>3, <5>1, RowsApart
      <4>2. QED BY <1>1, <1>2, <3>1, <3>3, <4>1
    <3>4. QED BY <3>2, <3>3
  <2> HIDE DEF a, y, w, h
  <2>2. y \in 0 .. h - 1  BY <1>1
  <2>3. RowsOver(a) = {z \in 0 .. h - 1 : a - RowStart(z) \in 0 .. 4 * w - 1}
    BY DEF RowsOver, h, w, Byte4
  <2>4. QED BY <2>1, <2>2, <2>3
<1>4. LastRow(a) = y
  <2> HIDE DEF a, y
  <2>1. y <= y  BY <1>1
  <2>2. QED BY <1>3, <2>1 DEF LastRow
<1>5. SourceByte(a) = 4 * (y * w + x) + i
  <2>1. y * w \in Int  BY <1>1
  <2>2. SourceByte(a) = y * w * 4 + (a - y * pitch)
    <3>1. RowStart(y) = y * pitch  BY <1>0, <1>1
    <3> HIDE DEF a, y
    <3>2. QED BY <1>4, <3>1 DEF SourceByte, Byte4
  <2>3. QED BY <1>1, <1>2, <2>1, <2>2
<1>6. Index(p) = y * w + x /\ y * w + x \in Nat
  <2>1. y * w + x \in 0 .. w * h - 1  BY <1>1, RowMajorInside
  <2>2. y * w + x \in Nat /\ y * w + x < Word /\ Word \in Nat
    <3>1. Word \in Nat  BY GraphicsAssumption
    <3> DEFINE n == y * w + x  area == w * h
    <3>2. n \in 0 .. area - 1 /\ area \in Nat /\ area < Word  BY <1>1, <2>1
    <3> HIDE DEF n, area
    <3>3. n \in Nat /\ n < Word  BY <3>1, <3>2
    <3>4. QED BY <3>1, <3>3 DEF n
  <2>3. QED BY <2>2, ModSmall DEF Index, U32
<1>7. SourceByte(a) \div 4 = Index(p) /\ SourceByte(a) % 4 = i
  <2> DEFINE n == y * w + x
  <2>1. n \in Nat /\ i \in 0 .. 3  BY <1>1, <1>6
  <2> HIDE DEF n
  <2>2. (4 * n + i) \div 4 = n /\ (4 * n + i) % 4 = i  BY <2>1
  <2>3. QED BY <1>5, <1>6, <2>2 DEF n
<1>8. a \in FrameBytes(mode)
  <2>1. y * pitch <= (h - 1) * pitch
    <3>1. y <= h - 1 /\ y \in Nat /\ h - 1 \in Nat /\ pitch \in Nat  BY <1>1
    <3> HIDE DEF y, h, pitch
    <3>2. QED BY <3>1, Z3
  <2>2. (h - 1) * pitch \in Int  BY <1>1
  <2>3. QED BY <1>1, <1>2, <2>1, <2>2 DEF FrameBytes, fb_width, fb_height, Byte4
<1>9. RowsOver(a) # {}  BY <1>3
<1> HIDE DEF a, k
<1>10. QED BY <1>7, <1>8, <1>9 DEF a, Byte4

(* After a copy every pixel of the picture is shown at its place, in any   *)
(* mode whose rows do not overlap (graphics_swap_buffers).                 *)
THEOREM CopiesArePictures == Spec => SwapShowsPicture
<1>1. ModeInv /\ [Next]_vars =>
        [SwapBuffers /\ mode.pitch >= fb_width * Byte4 =>
           \A p \in Visible : Shows(p, p[2] * mode.pitch + p[1] * Byte4)']_vars
  <2> SUFFICES ASSUME ModeInv, SwapBuffers, mode.pitch >= fb_width * Byte4,
                      NEW p \in Visible, NEW i \in 0 .. Byte4 - 1
               PROVE  framebuffer'[(p[2] * mode.pitch + p[1] * Byte4)' + i]
                        = [color |-> graphics_get_pixel(p[1], p[2])', part |-> i]
    BY DEF Shows
  <2>1. UNCHANGED <<mode, backbuffer>> /\ ~overrun
    BY CallKeepsMode DEF SwapBuffers, graphics_swap_buffers
  <2>2. Fits(mode) /\ p \in Visible /\ p = <<p[1], p[2]>>
    BY <2>1 DEF ModeInv, Visible, fb_width, fb_height
  <2> DEFINE a == p[2] * mode.pitch + p[1] * Byte4 + i
  <2>3. /\ a \in FrameBytes(mode) /\ RowsOver(a) # {}
        /\ SourceByte(a) \div Byte4 = Index(p) /\ SourceByte(a) % Byte4 = i
    BY <2>2, CopiedPixel
  <2>4. (p[2] * mode.pitch + p[1] * Byte4)' + i = a  BY <2>1
  <2>5. graphics_get_pixel(p[1], p[2])' = backbuffer[Index(p)]
    BY <2>1, <2>2 DEF graphics_get_pixel, Index, Visible, fb_width, fb_height
  <2> HIDE DEF a
  <2>6. framebuffer'[a] = [color |-> backbuffer[Index(p)], part |-> i]
    BY <2>3 DEF SwapBuffers, graphics_swap_buffers
  <2>7. QED BY <2>4, <2>5, <2>6
<1>2. QED BY <1>1, ModeInvariant, PTL DEF Spec, SwapShowsPicture

-----------------------------------------------------------------------------
(***************************************************************************)
(* Refinement of Canvas: the picture is what the back buffer holds, read   *)
(* as graphics_get_pixel reads it.                                         *)
(***************************************************************************)

LEMMA ShownPixel ==
  ASSUME ~overrun, NEW p \in Visible
  PROVE  picture[p] = backbuffer[Index(p)]
BY DEF picture, graphics_get_pixel, Visible

(* An index belongs to one pixel. *)
LEMMA IndexApart ==
  ASSUME ModeInv, NEW p \in Visible, NEW q \in Visible, Index(p) = Index(q)
  PROVE  p = q
<1> DEFINE w == fb_width  h == fb_height  area == w * h
           Place(r) == r[2] * w + r[1]
<1>1. /\ w \in Nat \ {0} /\ h \in Nat \ {0} /\ Word \in Nat
      /\ area \in Nat /\ area < Word
  BY AreaInWord DEF ModeInv
<1>2. ASSUME NEW r \in Visible
      PROVE  /\ r[1] \in 0 .. w - 1 /\ r[2] \in 0 .. h - 1 /\ r = <<r[1], r[2]>>
             /\ Index(r) = Place(r)
  <2>1. r[1] \in 0 .. w - 1 /\ r[2] \in 0 .. h - 1 /\ r = <<r[1], r[2]>>
    BY DEF Visible
  <2>2. Place(r) \in 0 .. area - 1  BY <1>1, <2>1, RowMajorInside
  <2> HIDE DEF area
  <2>3. Place(r) \in Nat /\ Place(r) < Word
    <3> HIDE DEF Place
    <3>1. QED BY <1>1, <2>2
  <2>4. Place(r) % Word = Place(r)
    <3> HIDE DEF Place
    <3>1. QED BY <1>1, <2>3, ModSmall
  <2>5. QED BY <2>1, <2>4 DEF Index, U32
<1>3. Place(p) = Place(q)  BY <1>2
<1>4. p[2] = q[2]
  <2> SUFFICES ASSUME p[2] # q[2] PROVE FALSE
    OBVIOUS
  <2>1. /\ w \in Nat /\ p[2] \in Nat /\ q[2] \in Nat /\ p[1] \in Nat /\ p[1] < w
        /\ q[1] \in Nat /\ q[1] < w
    BY <1>1, <1>2
  <2> HIDE DEF w
  <2>2. LET d == p[2] * w + p[1] - q[2] * w IN d < 0 \/ d >= w
    BY <2>1, RowsApart
  <2>3. p[2] * w \in Int /\ q[2] * w \in Int  BY <2>1
  <2>4. p[2] * w + p[1] = q[2] * w + q[1]  BY <1>3
  <2>5. QED BY <2>1, <2>2, <2>3, <2>4
<1>5. p[1] = q[1]
  <2>1. w \in Nat /\ q[2] \in Nat /\ p[1] \in Nat /\ q[1] \in Nat  BY <1>1, <1>2
  <2>2. q[2] * w + p[1] = q[2] * w + q[1]  BY <1>3, <1>4
  <2> DEFINE n == q[2] * w
  <2>3. n \in Int  BY <2>1
  <2>4. n + p[1] = n + q[1]  BY <2>2
  <2> HIDE DEF w, n
  <2>5. QED BY <2>1, <2>3, <2>4
<1>6. QED BY <1>2, <1>4, <1>5

(* What painting an image does to the picture *)
LEMMA PaintShows ==
  ASSUME ModeInv, ~overrun, UNCHANGED mode,
         NEW S \in SUBSET Visible, NEW image, DOMAIN image = S, Paint(image)
  PROVE  /\ Visible' = Visible /\ ~overrun'
         /\ picture' = [p \in Visible |-> IF p \in S THEN image[p] ELSE picture[p]]
<1> DEFINE at(i) == {p \in DOMAIN image : Index(p) = i}
<1>1. Visible' = Visible /\ Fits(mode) /\ mode \in Mode
  BY DEF Visible, fb_width, fb_height, ModeInv, Inv, TypeOK
<1>2. ~overrun'
  BY <1>1, IndexInCells DEF Paint
<1>3. ASSUME NEW p \in Visible
      PROVE  backbuffer'[Index(p)] = IF p \in S THEN image[p] ELSE backbuffer[Index(p)]
  <2>1. Index(p) \in Cells  BY <1>1, IndexInCells
  <2>2. backbuffer'[Index(p)] = IF at(Index(p)) = {} THEN backbuffer[Index(p)]
                                ELSE image[CHOOSE q \in at(Index(p)) : TRUE]
    BY <2>1 DEF Paint
  <2>3. at(Index(p)) = IF p \in S THEN {p} ELSE {}
    BY <1>3, IndexApart
  <2>4. QED BY <2>2, <2>3
<1>4. \A p \in Visible : Index(p)' = Index(p) BY DEF Index, fb_width
<1>5. \A p \in Visible : picture'[p] = backbuffer'[Index(p)]
  BY <1>1, <1>2, <1>4 DEF picture, graphics_get_pixel, Visible
<1>6. \A p \in Visible : picture[p] = backbuffer[Index(p)]
  BY ShownPixel
<1>7. picture' = [p \in Visible |-> picture'[p]]
  BY <1>1 DEF picture
<1>8. QED BY <1>1, <1>2, <1>3, <1>5, <1>6, <1>7

LEMMA NothingShown ==
  ASSUME UNCHANGED <<mode, backbuffer, overrun>>
  PROVE  picture' = picture
BY DEF picture, Visible, fb_width, fb_height, graphics_get_pixel, Index

(* The operators of Canvas, read on the back buffer *)
LEMMA CanvasScreen == C!Screen = Visible
BY DEF C!Screen, picture

LEMMA CanvasPaint ==
  ASSUME NEW S, NEW c
  PROVE  C!PaintExactly(S, c) <=>
           picture' = [p \in Visible |-> IF p \in S THEN c ELSE picture[p]]
BY CanvasScreen DEF C!PaintExactly, picture

LEMMA CanvasKeeps ==
  ASSUME NEW S
  PROVE  C!Keeps(S) <=> Visible' = Visible /\ \A p \in S : picture'[p] = picture[p]
BY CanvasScreen DEF C!Keeps, picture

LEMMA CanvasBox ==
  ASSUME NEW r
  PROVE  C!Box(r) = {p \in Visible : /\ p[1] \in r.x .. r.x + r.w - 1
                                     /\ p[2] \in r.y .. r.y + r.h - 1}
BY CanvasScreen DEF C!Box

(* Unsigned words *)

Eighth == Word \div 8

LEMMA Ranges ==
  ASSUME ModeInv
  PROVE  /\ Word \in Nat \ {0} /\ Eighth \in Nat \ {0} /\ 8 * Eighth <= Word
         /\ fb_width \in 1 .. Eighth /\ fb_height \in 1 .. Eighth
         /\ Coordinates \subseteq -Eighth .. Eighth /\ Lengths \subseteq 1 .. Eighth
         /\ Colors \subseteq 0 .. Byte - 1 /\ Byte \in Nat \ {0} /\ Byte <= Word
         /\ Byte * fb_height <= Word
<1>1. /\ Word \in Nat \ {0} /\ fb_width \in Nat \ {0} /\ fb_height \in Nat \ {0}
  BY AreaInWord DEF ModeInv
<1>2. Eighth \in Nat /\ 8 * Eighth <= Word
  BY <1>1 DEF Eighth
<1>3. fb_width <= Eighth /\ fb_height <= Eighth /\ Byte * fb_height <= Word
  BY RangeAssumption DEF ModeInv, Eighth, fb_width, fb_height
<1>4. QED BY <1>1, <1>2, <1>3, GraphicsAssumption, RangeAssumption DEF Eighth

(* A number that is not far from the words is one of a small range exactly *)
(* when its word is.                                                       *)
LEMMA NearWord ==
  ASSUME Word \in Nat, Eighth \in Nat, NEW n \in Int, NEW limit \in 0 .. Eighth,
         Eighth - Word <= n, n < Word
  PROVE  /\ U32(n) \in Nat /\ (U32(n) < limit <=> n \in 0 .. limit - 1)
         /\ n \in Nat => U32(n) = n
         /\ n \notin Nat => U32(n) = n + Word
<1>1. CASE n \in Nat
  <2>1. U32(n) = n  BY <1>1, ModSmall DEF U32
  <2>2. QED BY <1>1, <2>1
<1>2. CASE n \notin Nat
  <2> DEFINE m == n + Word
  <2>1. m \in Nat /\ m < Word /\ n = m - Word /\ m >= Eighth  BY <1>2
  <2> HIDE DEF m
  <2>2. U32(n) = m  BY <2>1, ModWrapped DEF U32
  <2>3. ~(m < limit) /\ n \notin 0 .. limit - 1  BY <1>2, <2>1
  <2>4. QED BY <1>2, <2>1, <2>2, <2>3 DEF m
<1>3. QED BY <1>1, <1>2

LEMMA SpanShown ==
  ASSUME Word \in Nat \ {0}, Eighth \in Nat \ {0}, 8 * Eighth <= Word,
         NEW x \in -Eighth .. Eighth, NEW w \in 1 .. Eighth, NEW limit \in 1 .. Eighth
  PROVE  Span(U32(x), w, limit)
           = IF x \in Nat THEN {n \in 0 .. limit - 1 : n \in x .. x + w - 1} ELSE {}
<1>1. CASE x \in Nat
  <2>1. x \in Int /\ x + w \in Nat /\ x + w < Word /\ x < Word /\ Eighth - Word <= x + w
        /\ Eighth - Word <= x
    BY <1>1
  <2>2. U32(x) = x /\ U32(x + w) = x + w
    BY <1>1, <2>1, ModSmall DEF U32
  <2>3. U32(U32(x) + w) = x + w  BY <2>2
  <2>4. Span(U32(x), w, limit) = {n \in x .. limit - 1 : n < x + w}
    BY <2>2, <2>3 DEF Span
  <2>5. QED BY <1>1, <2>1, <2>4
<1>2. CASE x \notin Nat
  <2>1. x \in Int /\ Eighth - Word <= x /\ x < Word /\ limit \in 0 .. Eighth
        /\ x \notin 0 .. limit - 1
    BY <1>2
  <2>2. U32(x) \in Nat /\ ~(U32(x) < limit)  BY <2>1, NearWord
  <2>3. U32(x) .. limit - 1 = {}  BY <2>2
  <2>4. QED BY <1>2, <2>3 DEF Span
<1>3. QED BY <1>1, <1>2

(* The single pixel, the rectangle and its frame *)

LEMMA PixelMaps ==
  ASSUME ModeInv, PutPixel
  PROVE  C!Effect(request')
<1>1. PICK x \in Coordinates, y \in Coordinates, c \in Colors :
        /\ Call([op |-> "pixel", x |-> x, y |-> y, color |-> c])
        /\ graphics_put_pixel(x, y, c)
  BY DEF PutPixel
<1> DEFINE S == Clipped({<<U32(x), U32(y)>>})
<1>2. UNCHANGED mode /\ ~overrun
      /\ request' = [op |-> "pixel", x |-> x, y |-> y, color |-> c]
  BY <1>1 DEF Call
<1>3. S = Visible \cap {<<x, y>>}
  <2>1. /\ Word \in Nat /\ Eighth \in Nat /\ x \in Int /\ y \in Int
        /\ Eighth - Word <= x /\ x < Word /\ Eighth - Word <= y /\ y < Word
        /\ fb_width \in 0 .. Eighth /\ fb_height \in 0 .. Eighth
    BY Ranges
  <2>2. /\ U32(x) \in Nat /\ (U32(x) < fb_width <=> x \in 0 .. fb_width - 1)
        /\ U32(y) \in Nat /\ (U32(y) < fb_height <=> y \in 0 .. fb_height - 1)
        /\ x \in Nat => U32(x) = x
        /\ y \in Nat => U32(y) = y
    BY <2>1, NearWord
  <2>3. <<U32(x), U32(y)>> \in Visible <=> <<x, y>> \in Visible
    <3> HIDE DEF U32, fb_width, fb_height
    <3>1. QED BY <2>1, <2>2 DEF Visible
  <2>4. <<x, y>> \in Visible => <<U32(x), U32(y)>> = <<x, y>>
    BY <2>2 DEF Visible
  <2>5. QED BY <2>3, <2>4 DEF Clipped
<1>4. Paint([p \in S |-> c])  BY <1>1 DEF graphics_put_pixel
<1>5. S \in SUBSET Visible  BY <1>3
<1> HIDE DEF S
<1>6. picture' = [p \in Visible |-> IF p \in S THEN c ELSE picture[p]]
  BY <1>2, <1>4, <1>5, PaintShows
<1>7. C!PaintExactly({<<x, y>>}, c)  BY <1>3, <1>6, CanvasPaint
<1>8. C!Pixel(request')  BY <1>2, <1>7 DEF C!Pixel
<1>9. QED BY <1>2, <1>8 DEF C!Effect

LEMMA RectangleMaps ==
  ASSUME ModeInv, FillRect
  PROVE  C!Effect(request')
<1>1. PICK x \in Coordinates, y \in Coordinates, w \in Lengths, h \in Lengths, c \in Colors :
        /\ Call([op |-> "rectangle", x |-> x, y |-> y, w |-> w, h |-> h, color |-> c])
        /\ graphics_fill_rect(x, y, w, h, c)
  BY DEF FillRect
<1> DEFINE S == Span(U32(x), w, fb_width) \X Span(U32(y), h, fb_height)
           r == [op |-> "rectangle", x |-> x, y |-> y, w |-> w, h |-> h, color |-> c]
           T == C!Filled(r)
<1>2. UNCHANGED mode /\ ~overrun /\ request' = r
  BY <1>1 DEF Call
<1>3. S = T
  <2>1. /\ x \in Int /\ y \in Int /\ x \in -Eighth .. Eighth /\ y \in -Eighth .. Eighth
        /\ w \in 1 .. Eighth /\ h \in 1 .. Eighth
    BY Ranges
  <2>2. /\ Span(U32(x), w, fb_width) =
             IF x \in Nat THEN {n \in 0 .. fb_width - 1 : n \in x .. x + w - 1} ELSE {}
        /\ Span(U32(y), h, fb_height) =
             IF y \in Nat THEN {n \in 0 .. fb_height - 1 : n \in y .. y + h - 1} ELSE {}
    BY <2>1, Ranges, SpanShown
  <2>3. C!OnScreen(r) <=> x \in Nat /\ y \in Nat  BY <2>1 DEF C!OnScreen
  <2>4. C!Box(r) = {p \in Visible : p[1] \in x .. x + w - 1 /\ p[2] \in y .. y + h - 1}
    BY CanvasBox
  <2>5. QED BY <2>2, <2>3, <2>4 DEF C!Filled, Visible
<1>4. Paint([p \in S |-> c])  BY <1>1 DEF graphics_fill_rect
<1>5. T \subseteq Visible  BY CanvasBox DEF C!Filled
<1> HIDE DEF S, T, r
<1>6. picture' = [p \in Visible |-> IF p \in S THEN c ELSE picture[p]]
  BY <1>2, <1>3, <1>4, <1>5, PaintShows
<1>7. C!PaintExactly(T, c)  BY <1>3, <1>6, CanvasPaint
<1>8. C!Rectangle(r)  BY <1>7 DEF C!Rectangle, T, r
<1>9. QED BY <1>2, <1>8 DEF C!Effect, r

LEMMA FrameMaps ==
  ASSUME ModeInv, DrawRect
  PROVE  C!Effect(request')
<1>1. PICK x \in Coordinates, y \in Coordinates, w \in Lengths, h \in Lengths, c \in Colors :
        /\ Call([op |-> "frame", x |-> x, y |-> y, w |-> w, h |-> h, color |-> c])
        /\ graphics_draw_rect(x, y, w, h, c)
  BY DEF DrawRect
<1> DEFINE X == Span(U32(x), w, fb_width)
           Y == Span(U32(y), h, fb_height)
           rows == {n \in {U32(y), U32(y + h - 1)} : n < fb_height}
           columns == {n \in {U32(x), U32(x + w - 1)} : n < fb_width}
           S == (X \X rows) \cup (columns \X Y)
           r == [op |-> "frame", x |-> x, y |-> y, w |-> w, h |-> h, color |-> c]
<1>2. UNCHANGED mode /\ ~overrun /\ request' = r
  BY <1>1 DEF Call
<1>3. /\ x \in Int /\ y \in Int /\ x \in -Eighth .. Eighth /\ y \in -Eighth .. Eighth
      /\ w \in 1 .. Eighth /\ h \in 1 .. Eighth /\ Eighth \in Nat
      /\ fb_width \in 1 .. Eighth /\ fb_height \in 1 .. Eighth
  BY Ranges
<1>4. /\ X = IF x \in Nat THEN {n \in 0 .. fb_width - 1 : n \in x .. x + w - 1} ELSE {}
      /\ Y = IF y \in Nat THEN {n \in 0 .. fb_height - 1 : n \in y .. y + h - 1} ELSE {}
  BY <1>3, Ranges, SpanShown
<1>5. /\ columns = {n \in 0 .. fb_width - 1 : n \in {x, x + w - 1}}
      /\ rows = {n \in 0 .. fb_height - 1 : n \in {y, y + h - 1}}
  <2>1. ASSUME NEW a \in -Eighth .. Eighth, NEW b \in 1 .. Eighth, NEW limit \in 1 .. Eighth
        PROVE  {n \in {U32(a), U32(a + b - 1)} : n < limit}
                 = {n \in 0 .. limit - 1 : n \in {a, a + b - 1}}
    <3>1. /\ Word \in Nat /\ 8 * Eighth <= Word /\ limit \in 0 .. Eighth
          /\ a \in Int /\ Eighth - Word <= a /\ a < Word
          /\ a + b - 1 \in Int /\ Eighth - Word <= a + b - 1 /\ a + b - 1 < Word
      BY <1>3, Ranges
    <3>2. /\ U32(a) < limit <=> a \in 0 .. limit - 1
          /\ a \in Nat => U32(a) = a
          /\ U32(a + b - 1) < limit <=> a + b - 1 \in 0 .. limit - 1
          /\ a + b - 1 \in Nat => U32(a + b - 1) = a + b - 1
      BY <1>3, <3>1, NearWord
    <3> DEFINE e == a + b - 1
    <3> HIDE DEF U32, e
    <3>3. /\ \A n \in 0 .. limit - 1 : n \in Nat
          /\ e \in Int
      BY <3>1 DEF e
    <3>4. QED BY <3>2, <3>3 DEF e
  <2> HIDE DEF U32, fb_width, fb_height
  <2>2. QED BY <1>3, <2>1
<1>6. C!Box(r) = {p \in Visible : p[1] \in x .. x + w - 1 /\ p[2] \in y .. y + h - 1}
  BY CanvasBox
<1>7. C!Edges(r) = {p \in C!Box(r) : p[1] \in {x, x + w - 1} \/ p[2] \in {y, y + h - 1}}
  BY DEF C!Edges
<1>8. C!OnScreen(r) <=> x \in Nat /\ y \in Nat  BY <1>3 DEF C!OnScreen
<1>9. Paint([p \in S |-> c])  BY <1>1 DEF graphics_draw_rect
<1> HIDE DEF X, Y, rows, columns
<1>10. S \subseteq C!Edges(r) /\ C!Edges(r) \subseteq Visible
  BY <1>3, <1>4, <1>5, <1>6, <1>7 DEF Visible
<1>11. C!OnScreen(r) => C!Edges(r) \subseteq S
  BY <1>3, <1>4, <1>5, <1>6, <1>7, <1>8 DEF Visible
<1> HIDE DEF S, r
<1>12. Visible' = Visible /\ picture' = [p \in Visible |-> IF p \in S THEN c ELSE picture[p]]
  <2>1. S \in SUBSET Visible  BY <1>10
  <2>2. QED BY <1>2, <1>9, <2>1, PaintShows
<1>13. C!Keeps(C!Screen \ C!Edges(r))
  BY <1>10, <1>12, CanvasKeeps, CanvasScreen
<1>14. \A p \in C!Edges(r) :
         \/ picture'[p] = c
         \/ ~C!OnScreen(r) /\ picture'[p] = picture[p]
  BY <1>10, <1>11, <1>12
<1>15. C!Frame(r)  BY <1>13, <1>14 DEF C!Frame, picture, r
<1>16. QED BY <1>2, <1>15 DEF C!Effect, r

LEMMA ClearMaps ==
  ASSUME ModeInv, ClearScreen
  PROVE  C!Effect(request')
<1>1. PICK c \in Colors : Call([op |-> "clear", color |-> c]) /\ graphics_clear(c)
  BY DEF ClearScreen
<1>2. UNCHANGED mode /\ ~overrun /\ request' = [op |-> "clear", color |-> c] /\ Fits(mode)
  BY <1>1 DEF Call, ModeInv
<1> DEFINE area == fb_width * fb_height
<1>3. area \in Nat /\ area < Word /\ U32(area) = area
  BY AreaInWord, ModSmall DEF ModeInv, U32
<1>4. ~overrun'
  <2>1. ~(U32(area) > BACKBUFFER_PIXELS)  BY <1>2, AreaFits, AreaInWord DEF ModeInv
  <2>2. QED BY <1>1, <1>2, <2>1 DEF graphics_clear
<1>5. ASSUME NEW p \in Visible
      PROVE  backbuffer'[Index(p)] = c
  <2>1. Index(p) \in Cells  BY <1>2, IndexInCells, AreaInWord DEF ModeInv
  <2>2. Index(p) < U32(area)
    <3> DEFINE n == p[2] * fb_width + p[1]
    <3>1. n \in 0 .. area - 1
      BY AreaInWord, RowMajorInside DEF ModeInv, Visible
    <3>2. Word \in Nat  BY Ranges
    <3> HIDE DEF n, area
    <3>3. n \in Nat /\ n < Word /\ n < area  BY <1>3, <3>1, <3>2
    <3>4. n % Word = n  BY <3>2, <3>3, ModSmall
    <3>5. QED BY <1>3, <3>3, <3>4 DEF Index, U32, n
  <2>3. QED BY <1>1, <2>1, <2>2 DEF graphics_clear, Filled
<1>6. Visible' = Visible /\ \A p \in Visible : Index(p)' = Index(p)
  BY <1>2 DEF Visible, Index, fb_width, fb_height
<1>7. picture' = [p \in Visible |-> c]
  BY <1>4, <1>5, <1>6 DEF picture, graphics_get_pixel, Visible
<1>8. picture' = [p \in Visible |-> IF p \in Visible THEN c ELSE picture[p]]
  BY <1>7
<1>9. C!PaintExactly(C!Screen, c)  BY <1>8, CanvasPaint, CanvasScreen
<1>10. C!Clear(request')  BY <1>2, <1>9 DEF C!Clear
<1>11. QED BY <1>2, <1>10 DEF C!Effect

(* Gradients *)

(* The n-th of max rows does not fall below an earlier one. *)
LEMMA LerpGrows ==
  ASSUME NEW d \in Nat, NEW max \in Nat \ {0}, NEW s \in Nat, NEW t \in Nat, s <= t
  PROVE  (d * s) \div max <= (d * t) \div max
<1>1. d * s \in Nat /\ d * t \in Nat /\ d * s <= d * t
  BY Z3
<1> DEFINE a == d * s  b == d * t
<1>2. a \in Nat /\ b \in Nat /\ a <= b  BY <1>1
<1> HIDE DEF a, b
<1>3. a \div max <= b \div max  BY <1>2, Z3
<1>4. QED BY <1>3 DEF a, b

LEMMA RisingRow ==
  ASSUME ModeInv, NEW c \in 0 .. Byte - 1, NEW d \in 0 .. Byte - 1, c <= d,
         NEW h \in Nat \ {0}, NEW t \in 0 .. h, t < fb_height
  PROVE  /\ (d - c) * t \in Nat /\ (d - c) * t < Word
         /\ lerp_color(c, d, t, h) = c + ((d - c) * t) \div h
<1> DEFINE e == d - c
<1>1. /\ Word \in Nat /\ Byte \in Nat \ {0} /\ Byte <= Word /\ fb_height \in Nat \ {0}
      /\ Byte * fb_height <= Word /\ Eighth \in Nat
  BY Ranges
<1>2. e \in Nat /\ e < Byte /\ c \in Nat /\ c + e < Byte  BY <1>1
<1> HIDE DEF e
<1>3. e * t \in Nat /\ e * t < Word
  <2>1. e * t <= e * fb_height /\ e * fb_height <= (Byte - 1) * fb_height
    BY <1>1, <1>2, Z3
  <2>2. (Byte - 1) * fb_height = Byte * fb_height - fb_height  BY <1>1, Z3
  <2>3. e * t \in Nat  BY <1>2, Z3
  <2>4. e * fb_height \in Int /\ Byte * fb_height \in Int  BY <1>1, <1>2
  <2>5. QED BY <1>1, <2>1, <2>2, <2>3, <2>4
<1>4. (e * t) \div h \in 0 .. e  BY <1>2, PartOfDifference
<1>5. U32(e) = e /\ U32(e * t) = e * t
  BY <1>1, <1>2, <1>3, ModSmall DEF U32
<1>6. U8(c + (e * t) \div h) = c + (e * t) \div h
  <2> DEFINE q == (e * t) \div h
  <2>1. q \in 0 .. e  BY <1>4
  <2> HIDE DEF q
  <2>2. c + q \in Nat /\ c + q < Byte  BY <1>1, <1>2, <2>1
  <2>3. (c + q) % Byte = c + q  BY <1>1, <2>2, ModSmall
  <2>4. QED BY <2>3 DEF U8, q
<1>7. lerp_color(c, d, t, h) = c + (e * t) \div h
  BY <1>5, <1>6 DEF lerp_color, e
<1>8. QED BY <1>3, <1>7 DEF e

LEMMA FirstRow ==
  ASSUME ModeInv, NEW c \in 0 .. Byte - 1, NEW d \in 0 .. Byte - 1, NEW h \in Nat \ {0}
  PROVE  lerp_color(c, d, 0, h) = c
<1> DEFINE u == U32(d - c)
<1>1. Word \in Nat \ {0} /\ Byte \in Nat \ {0} /\ c \in Nat /\ c < Byte /\ d - c \in Int
  BY Ranges
<1>2. u \in Nat  BY <1>1, IntModWord DEF U32
<1> HIDE DEF u
<1>3. u * 0 = 0 /\ 0 % Word = 0 /\ 0 \div h = 0  BY <1>1, <1>2
<1>4. c % Byte = c  BY <1>1, ModSmall
<1>5. lerp_color(c, d, 0, h) = U8(c + U32(u * 0) \div h)  BY DEF lerp_color, u
<1>6. U32(u * 0) = 0  BY <1>3 DEF U32
<1>7. U32(u * 0) \div h = 0  BY <1>3, <1>6
<1>8. c + 0 = c  BY <1>1
<1>9. QED BY <1>4, <1>5, <1>7, <1>8 DEF U8

LEMMA GradientMaps ==
  ASSUME ModeInv, FillGradient
  PROVE  C!Effect(request') \/ FallingStripes(request')
<1>1. PICK x \in Coordinates, y \in Coordinates, w \in Lengths, h \in Lengths,
           c \in Colors, d \in Colors :
        /\ Call([op |-> "gradient", x |-> x, y |-> y, w |-> w, h |-> h,
                 color |-> c, bottom |-> d])
        /\ graphics_fill_gradient_v(x, y, w, h, c, d)
  BY DEF FillGradient
<1> DEFINE X == Span(U32(x), w, fb_width)
           Y == {py \in 0 .. h - 1 : \A n \in 0 .. py : U32(y + n) < fb_height}
           S == X \X {U32(y + py) : py \in Y}
           row(p) == lerp_color(c, d, U32(p[2] - y), h)
           r == [op |-> "gradient", x |-> x, y |-> y, w |-> w, h |-> h,
                 color |-> c, bottom |-> d]
           box == C!Filled(r)
<1>2. UNCHANGED mode /\ ~overrun /\ request' = r
  BY <1>1 DEF Call
<1>3. /\ x \in -Eighth .. Eighth /\ y \in -Eighth .. Eighth
      /\ w \in 1 .. Eighth /\ h \in 1 .. Eighth /\ Eighth \in Nat \ {0}
      /\ fb_width \in 1 .. Eighth /\ fb_height \in 1 .. Eighth
      /\ Word \in Nat \ {0} /\ 8 * Eighth <= Word
      /\ c \in 0 .. Byte - 1 /\ d \in 0 .. Byte - 1
  BY Ranges
<1>4. X = IF x \in Nat THEN {n \in 0 .. fb_width - 1 : n \in x .. x + w - 1} ELSE {}
  BY <1>3, SpanShown
<1>5. {U32(y + py) : py \in Y}
        = IF y \in Nat THEN {n \in 0 .. fb_height - 1 : n \in y .. y + h - 1} ELSE {}
  <2>1. ASSUME NEW n \in 0 .. h - 1
        PROVE  /\ U32(y + n) < fb_height <=> y + n \in 0 .. fb_height - 1
               /\ y + n \in Nat => U32(y + n) = y + n
    <3>1. /\ y + n \in Int /\ Eighth - Word <= y + n /\ y + n < Word
          /\ fb_height \in 0 .. Eighth
      BY <1>3
    <3>2. QED BY <1>3, <3>1, NearWord
  <2>2. CASE y \in Nat
    <3> HIDE DEF U32, fb_height
    <3>1. Y = {n \in 0 .. h - 1 : y + n < fb_height}
      <4>1. ASSUME NEW n \in 0 .. h - 1
            PROVE  (\A m \in 0 .. n : U32(y + m) < fb_height) <=> y + n < fb_height
        <5>1. \A m \in 0 .. n : U32(y + m) < fb_height <=> y + m < fb_height
          BY <1>3, <2>1, <2>2
        <5>2. QED BY <1>3, <2>2, <5>1
      <4>2. QED BY <4>1
    <3>2. \A n \in Y : U32(y + n) = y + n  BY <1>3, <2>1, <2>2
    <3>3. {U32(y + py) : py \in Y} = {y + py : py \in Y}  BY <3>2
    <3> HIDE DEF Y
    <3>4. {y + py : py \in Y} = {n \in 0 .. fb_height - 1 : n \in y .. y + h - 1}
      <4>1. ASSUME NEW n \in 0 .. fb_height - 1, n \in y .. y + h - 1
            PROVE  n \in {y + py : py \in Y}
        <5>1. n - y \in 0 .. h - 1 /\ y + (n - y) = n /\ y + (n - y) < fb_height
          BY <1>3, <2>2, <4>1
        <5>2. n - y \in Y  BY <3>1, <5>1
        <5>3. QED BY <5>1, <5>2
      <4>2. \A py \in Y : y + py \in 0 .. fb_height - 1 /\ y + py \in y .. y + h - 1
        <5>1. ASSUME NEW n \in 0 .. h - 1, y + n < fb_height
              PROVE  y + n \in 0 .. fb_height - 1 /\ y + n \in y .. y + h - 1
          BY <1>3, <2>2, <5>1
        <5>2. QED BY <3>1, <5>1
      <4>3. QED BY <4>1, <4>2
    <3>5. QED BY <2>2, <3>3, <3>4
  <2>3. CASE y \notin Nat
    <3>1. 0 \in 0 .. h - 1 /\ y + 0 = y /\ y \notin 0 .. fb_height - 1  BY <1>3, <2>3
    <3>2. ~(U32(y + 0) < fb_height)  BY <2>1, <3>1
    <3>3. \A n \in 0 .. h - 1 : 0 \in 0 .. n  BY <1>3
    <3>4. Y = {}  BY <3>2, <3>3
    <3>5. QED BY <2>3, <3>4
  <2>4. QED BY <2>2, <2>3
<1>6. C!Box(r) = {p \in Visible : p[1] \in x .. x + w - 1 /\ p[2] \in y .. y + h - 1}
  BY CanvasBox
<1>7. C!OnScreen(r) <=> x \in Nat /\ y \in Nat  BY <1>3 DEF C!OnScreen
<1>8. S = box /\ box \subseteq Visible
  BY <1>4, <1>5, <1>6, <1>7 DEF C!Filled, Visible
<1>9. Paint([p \in S |-> row(p)])  BY <1>1 DEF graphics_fill_gradient_v
<1> HIDE DEF S, X, Y
<1>10. Visible' = Visible
       /\ picture' = [p \in Visible |-> IF p \in box THEN row(p) ELSE picture[p]]
  <2> DEFINE image == [p \in S |-> row(p)]
  <2>1. S \in SUBSET Visible /\ DOMAIN image = S /\ Paint(image)  BY <1>8, <1>9
  <2>2. \A p \in S : image[p] = row(p)  OBVIOUS
  <2> HIDE DEF image, row, box
  <2>3. QED BY <1>2, <1>8, <2>1, <2>2, PaintShows
<1>11. C!Keeps(C!Screen \ box)
  <2> HIDE DEF box, row
  <2>1. QED BY <1>8, <1>10, CanvasKeeps, CanvasScreen
<1>12. \A p \in box : /\ picture'[p] = row(p)
                     /\ p[2] - y \in 0 .. h - 1 /\ p[2] - y < fb_height
                     /\ U32(p[2] - y) = p[2] - y
  <2> SUFFICES ASSUME NEW p \in box
               PROVE  /\ picture'[p] = row(p)
                      /\ p[2] - y \in 0 .. h - 1 /\ p[2] - y < fb_height
                      /\ U32(p[2] - y) = p[2] - y
    OBVIOUS
  <2>1. p \in Visible /\ y \in Nat /\ p[2] \in y .. y + h - 1 /\ p[2] \in 0 .. fb_height - 1
    BY <1>6, <1>7 DEF C!Filled, Visible
  <2>2. p[2] - y \in 0 .. h - 1 /\ p[2] - y < fb_height  BY <1>3, <2>1
  <2>3. p[2] - y \in Nat /\ p[2] - y < Word  BY <1>3, <2>2
  <2>4. U32(p[2] - y) = p[2] - y  BY <1>3, <2>3, ModSmall DEF U32
  <2> HIDE DEF row, box
  <2>5. QED BY <1>10, <2>1, <2>2, <2>4
<1>13. \A p \in box : picture'[p] \in 0 .. Byte - 1
  <2> SUFFICES ASSUME NEW p \in box PROVE row(p) \in 0 .. Byte - 1
    BY <1>12
  <2>1. U32(p[2] - y) \in Int /\ c \in Int /\ d \in Int /\ h \in Nat \ {0} /\ mode \in Mode
    BY <1>3, <1>12, AreaInWord DEF ModeInv
  <2>2. QED BY <2>1, LerpIsChannel
<1>14. \A p, q \in box : p[2] = q[2] => picture'[p] = picture'[q]
  BY <1>12
<1>15. \A p \in box : p[2] = y => picture'[p] = c
  <2> SUFFICES ASSUME NEW p \in box, p[2] = y PROVE picture'[p] = c
    OBVIOUS
  <2>1. p[2] - y = 0  BY <1>3
  <2>2. row(p) = lerp_color(c, d, 0, h)  BY <1>12, <2>1
  <2>3. lerp_color(c, d, 0, h) = c  BY <1>3, FirstRow
  <2> HIDE DEF row
  <2>4. QED BY <1>12, <2>2, <2>3
<1>16. C!Stripes(r)
  <2> HIDE DEF row
  <2>1. QED BY <1>11, <1>13, <1>14, <1>15 DEF C!Stripes, picture, r
<1>17. ASSUME c <= d
       PROVE  \A p \in box :
                /\ picture'[p] \in c .. d
                /\ \A q \in box : p[2] <= q[2] => picture'[p] \in c .. picture'[q]
  <2> DEFINE part(p) == ((d - c) * (p[2] - y)) \div h
  <2>1. ASSUME NEW p \in box
        PROVE  picture'[p] = c + part(p) /\ part(p) \in 0 .. d - c
    <3> DEFINE t == p[2] - y
    <3>1. t \in 0 .. h /\ t < fb_height /\ U32(p[2] - y) = t /\ h \in Nat \ {0}
          /\ d - c \in Nat /\ picture'[p] = row(p)
      BY <1>3, <1>12, <1>17
    <3>2. row(p) = lerp_color(c, d, t, h)  BY <3>1
    <3> HIDE DEF t, row
    <3>3. lerp_color(c, d, t, h) = c + ((d - c) * t) \div h
      BY <1>3, <1>17, <3>1, RisingRow
    <3>4. ((d - c) * t) \div h \in 0 .. d - c  BY <3>1, PartOfDifference
    <3>5. QED BY <3>1, <3>2, <3>3, <3>4 DEF t
  <2>2. ASSUME NEW p \in box, NEW q \in box, p[2] <= q[2]
        PROVE  part(p) <= part(q)
    <3> DEFINE s == p[2] - y  t == q[2] - y
    <3>1. s \in Nat /\ t \in Nat /\ s <= t /\ d - c \in Nat /\ h \in Nat \ {0}
      <4>1. p \in Visible /\ q \in Visible  BY <1>8
      <4>2. p[2] \in Int /\ q[2] \in Int  BY <4>1 DEF Visible
      <4>3. QED BY <1>3, <1>12, <1>17, <2>2, <4>2
    <3> HIDE DEF s, t
    <3>2. ((d - c) * s) \div h <= ((d - c) * t) \div h  BY <3>1, LerpGrows
    <3>3. QED BY <3>2 DEF s, t
  <2> HIDE DEF part, box
  <2>3. \A p \in box : picture'[p] \in c .. d
    BY <1>3, <2>1
  <2>4. \A p \in box, q \in box : p[2] <= q[2] => picture'[p] \in c .. picture'[q]
    BY <1>3, <2>1, <2>2
  <2>5. QED BY <2>3, <2>4
<1>18. box = C!Filled(r) /\ r.color = c /\ r.bottom = d /\ r.op = "gradient"  OBVIOUS
<1> HIDE DEF box, r
<1>19. CASE c <= d
  <2>1. C!Gradient(r)  BY <1>16, <1>17, <1>18, <1>19 DEF C!Gradient, C!Between
  <2>2. QED BY <1>2, <1>18, <2>1 DEF C!Effect
<1>20. CASE d < c
  BY <1>2, <1>16, <1>18, <1>20 DEF FallingStripes
<1>21. QED BY <1>3, <1>19, <1>20

(* Text: where the lines of a text begin *)

IsLineStart(s, k, j) ==
  /\ j \in 0 .. k - 1 /\ (j = 0 \/ s[j] = NEWLINE)
  /\ \A i \in j + 1 .. k - 1 : s[i] # NEWLINE

LEMMA LineStartIsOne ==
  ASSUME NEW s, NEW k \in Nat, NEW i, NEW j, IsLineStart(s, k, i), IsLineStart(s, k, j)
  PROVE  i = j
BY DEF IsLineStart

LEMMA LineStartOf ==
  ASSUME NEW s, NEW k \in Nat, NEW j, IsLineStart(s, k, j)
  PROVE  C!LineStart(s, k) = j
<1>1. C!LineStart(s, k) = CHOOSE i \in 0 .. k - 1 : IsLineStart(s, k, i)
  BY DEF C!LineStart, IsLineStart
<1>2. j \in 0 .. k - 1  BY DEF IsLineStart
<1>3. \A i \in 0 .. k - 1 : IsLineStart(s, k, i) => i = j
  BY LineStartIsOne
<1>4. QED BY <1>1, <1>2, <1>3

(* One character further in the text *)
LEMMA LineStartStep ==
  ASSUME NEW s, NEW k \in Nat \ {0}, NEW j, IsLineStart(s, k, j)
  PROVE  IsLineStart(s, k + 1, IF s[k] = NEWLINE THEN k ELSE j)
BY DEF IsLineStart

LEMMA LineNoStep ==
  ASSUME NEW s, NEW k \in Nat \ {0}
  PROVE  /\ C!LineNo(s, 1) = 0 /\ C!LineNo(s, k) \in Nat
         /\ C!LineNo(s, k + 1) = IF s[k] = NEWLINE THEN C!LineNo(s, k) + 1
                                 ELSE C!LineNo(s, k)
<1> DEFINE Breaks(n) == {j \in 1 .. n - 1 : s[j] = NEWLINE}
<1>1. \A n : C!LineNo(s, n) = Cardinality(Breaks(n))
  BY DEF C!LineNo, C!Cardinality, Cardinality, C!IsFiniteSet, IsFiniteSet
<1>2. IsFiniteSet(Breaks(k))
  <2>1. IsFiniteSet(1 .. k - 1)  BY FS_Interval
  <2>2. Breaks(k) \in SUBSET (1 .. k - 1)  OBVIOUS
  <2>3. QED BY <2>1, <2>2, FS_Subset
<1>3. Breaks(1) = {}  OBVIOUS
<1>4. Breaks(k + 1) = IF s[k] = NEWLINE THEN Breaks(k) \cup {k} ELSE Breaks(k)
  OBVIOUS
<1>5. k \notin Breaks(k)  OBVIOUS
<1> HIDE DEF Breaks
<1>6. C!LineNo(s, 1) = 0  BY <1>1, <1>3, FS_EmptySet
<1>7. C!LineNo(s, k) \in Nat  BY <1>1, <1>2, FS_CardinalityType
<1>8. Cardinality(Breaks(k) \cup {k}) = Cardinality(Breaks(k)) + 1
  BY <1>2, <1>5, FS_AddElement
<1>9. C!LineNo(s, k) = Cardinality(Breaks(k)) /\ C!LineNo(s, k + 1) = Cardinality(Breaks(k + 1))
  BY <1>1
<1>10. QED BY <1>4, <1>6, <1>7, <1>8, <1>9

(* The row and the column of character k *)
PlaceOK(s, k) ==
  /\ IsLineStart(s, k, C!LineStart(s, k))
  /\ C!LineNo(s, k) \in 0 .. k - 1

LEMMA FirstPlace ==
  ASSUME NEW s
  PROVE  PlaceOK(s, 1) /\ C!LineStart(s, 1) = 0 /\ C!LineNo(s, 1) = 0
<1>1. IsLineStart(s, 1, 0)  BY DEF IsLineStart
<1>2. C!LineStart(s, 1) = 0  BY <1>1, LineStartOf
<1>3. C!LineNo(s, 1) = 0  BY LineNoStep
<1>4. QED BY <1>1, <1>2, <1>3 DEF PlaceOK

LEMMA NextPlace ==
  ASSUME NEW s, NEW k \in Nat \ {0}, PlaceOK(s, k)
  PROVE  /\ PlaceOK(s, k + 1)
         /\ C!LineStart(s, k + 1) = IF s[k] = NEWLINE THEN k ELSE C!LineStart(s, k)
         /\ C!LineNo(s, k + 1) = IF s[k] = NEWLINE THEN C!LineNo(s, k) + 1
                                 ELSE C!LineNo(s, k)
<1>1. IsLineStart(s, k + 1, IF s[k] = NEWLINE THEN k ELSE C!LineStart(s, k))
  BY LineStartStep DEF PlaceOK
<1>2. C!LineStart(s, k + 1) = IF s[k] = NEWLINE THEN k ELSE C!LineStart(s, k)
  BY <1>1, LineStartOf
<1>3. C!LineNo(s, k + 1) = IF s[k] = NEWLINE THEN C!LineNo(s, k) + 1 ELSE C!LineNo(s, k)
  BY LineNoStep
<1>4. QED BY <1>1, <1>2, <1>3 DEF PlaceOK

LEMMA LeastMember ==
  ASSUME NEW S \in SUBSET Nat, S # {}
  PROVE  \E m \in S : \A k \in S : m <= k
<1>1. PICK m \in S : \A k \in S : ~(<<k, m>> \in OpToRel(<, Nat))
  BY NatLessThanWellFounded, WFMin
<1>2. \A k \in S : ~(k < m)  BY <1>1 DEF OpToRel
<1>3. QED BY <1>2

LEMMA PlacesOK ==
  ASSUME NEW s, NEW k \in Nat \ {0}
  PROVE  PlaceOK(s, k)
<1> DEFINE Bad == {n \in Nat \ {0} : ~PlaceOK(s, n)}
<1>1. SUFFICES ASSUME Bad # {} PROVE FALSE
  OBVIOUS
<1>2. PICK m \in Bad : \A n \in Bad : m <= n
  <2>1. Bad \in SUBSET Nat  OBVIOUS
  <2> HIDE DEF Bad
  <2>2. QED BY <1>1, <2>1, LeastMember
<1>3. m # 1  BY <1>2, FirstPlace
<1>4. m - 1 \in Nat \ {0} /\ ~(m <= m - 1) /\ (m - 1) + 1 = m  BY <1>2, <1>3
<1>5. PlaceOK(s, m - 1)  BY <1>2, <1>4
<1>6. PlaceOK(s, m)  BY <1>4, <1>5, NextPlace
<1>7. QED BY <1>2, <1>6

(* A sum of a word and a small number wraps as the sum of the numbers does. *)
LEMMA WordSum ==
  ASSUME Word \in Nat, Eighth \in Nat, NEW n \in Int, NEW d \in Nat,
         Eighth - Word <= n, n < Word, n + d < Word
  PROVE  U32(U32(n) + d) = U32(n + d)
<1>1. CASE n \in Nat
  BY <1>1, ModSmall DEF U32
<1>2. CASE n \notin Nat
  <2> DEFINE m == n + Word
  <2>1. m \in Nat /\ m < Word /\ n = m - Word  BY <1>2
  <2> HIDE DEF m
  <2>2. U32(n) = m  BY <2>1, ModWrapped DEF U32
  <2>3. CASE n + d \in Nat
    <3> DEFINE e == n + d
    <3>1. e \in Nat /\ e < Word /\ m + d = e + Word  BY <2>1, <2>3
    <3> HIDE DEF e
    <3>2. (e + Word) % Word = e /\ e % Word = e  BY <3>1, ModSmall
    <3>3. QED BY <2>2, <3>1, <3>2 DEF U32, e
  <2>4. CASE n + d \notin Nat
    <3> DEFINE e == m + d
    <3>1. e \in Nat /\ e < Word /\ n + d = e - Word  BY <2>1, <2>4
    <3> HIDE DEF e
    <3>2. (e - Word) % Word = e /\ e % Word = e  BY <3>1, ModSmall, ModWrapped
    <3>3. QED BY <2>2, <3>1, <3>2 DEF U32, e
  <2>5. QED BY <2>3, <2>4
<1>3. QED BY <1>1, <1>2

(* The pen of the two loops over a text is a word for the place of the     *)
(* character, counted from the text's corner.                              *)
PlaceX(x, s, k) == x + FONT_WIDTH * (k - 1 - C!LineStart(s, k))
PlaceY(y, s, k) == y + FONT_HEIGHT * C!LineNo(s, k)

TextFits(x, y, s) ==
  /\ s \in Seq(DOMAIN Glyph \cup {NEWLINE})
  /\ FONT_WIDTH * (Len(s) + 1) <= Eighth /\ FONT_HEIGHT * (Len(s) + 1) <= Eighth
  /\ x \in -Eighth .. Word - 2 * Eighth /\ y \in -Eighth .. Eighth

WordsFit ==
  /\ Word \in Nat \ {0} /\ Eighth \in Nat \ {0} /\ 8 * Eighth <= Word
  /\ FONT_WIDTH \in Nat /\ FONT_HEIGHT \in Nat

LEMMA Multiples ==
  ASSUME NEW f \in Nat, NEW n \in Nat, NEW m \in Nat, m <= n, NEW e \in Nat,
         f * (n + 1) <= e
  PROVE  /\ f * m \in 0 .. e /\ f * m + f \in 0 .. e
         /\ f * (m + 1) = f * m + f
<1>1. f * m <= f * n /\ f * (n + 1) = f * n + f /\ f * (m + 1) = f * m + f
  BY Z3
<1>2. f * m \in Nat /\ f * n \in Nat  BY Z3
<1>3. QED BY <1>1, <1>2

LEMMA PlaceRange ==
  ASSUME WordsFit, NEW x, NEW y, NEW s, TextFits(x, y, s), NEW k \in 1 .. Len(s) + 1
  PROVE  /\ PlaceX(x, s, k) \in Int /\ x <= PlaceX(x, s, k)
         /\ PlaceX(x, s, k) + FONT_WIDTH <= x + Eighth
         /\ PlaceY(y, s, k) \in Int /\ y <= PlaceY(y, s, k)
         /\ PlaceY(y, s, k) + FONT_HEIGHT <= y + Eighth
<1>1. Len(s) \in Nat /\ k \in Nat \ {0} /\ x \in Int /\ y \in Int
      /\ FONT_WIDTH \in Nat /\ FONT_HEIGHT \in Nat /\ Eighth \in Nat
  BY DEF TextFits, WordsFit
<1>2. PICK c, r : c = k - 1 - C!LineStart(s, k) /\ r = C!LineNo(s, k)
  OBVIOUS
<1>3. c \in Nat /\ c <= Len(s) /\ r \in Nat /\ r <= Len(s)
  BY <1>1, <1>2, PlacesOK DEF PlaceOK, IsLineStart
<1>4. /\ FONT_WIDTH * c \in 0 .. Eighth /\ FONT_WIDTH * c + FONT_WIDTH \in 0 .. Eighth
      /\ FONT_HEIGHT * r \in 0 .. Eighth /\ FONT_HEIGHT * r + FONT_HEIGHT \in 0 .. Eighth
  BY <1>1, <1>3, Multiples DEF TextFits
<1>5. PlaceX(x, s, k) = x + FONT_WIDTH * c /\ PlaceY(y, s, k) = y + FONT_HEIGHT * r
  BY <1>2 DEF PlaceX, PlaceY
<1>6. PICK fc, fr : fc = FONT_WIDTH * c /\ fr = FONT_HEIGHT * r
  OBVIOUS
<1>7. /\ fc \in Int /\ 0 <= fc /\ fc + FONT_WIDTH <= Eighth
      /\ fr \in Int /\ 0 <= fr /\ fr + FONT_HEIGHT <= Eighth
  BY <1>1, <1>4, <1>6
<1>8. PlaceX(x, s, k) = x + fc /\ PlaceY(y, s, k) = y + fr
  BY <1>5, <1>6
<1>9. /\ x + fc \in Int /\ x <= x + fc /\ (x + fc) + FONT_WIDTH <= x + Eighth
      /\ y + fr \in Int /\ y <= y + fr /\ (y + fr) + FONT_HEIGHT <= y + Eighth
  BY <1>1, <1>7
<1>10. QED BY <1>8, <1>9

LEMMA PlaceStep ==
  ASSUME WordsFit, NEW x, NEW y, NEW s, TextFits(x, y, s), NEW k \in 1 .. Len(s)
  PROVE  /\ PlaceX(x, s, 1) = x /\ PlaceY(y, s, 1) = y
         /\ U32(PlaceX(x, s, k + 1)) = IF s[k] = NEWLINE THEN U32(x)
                                       ELSE U32(U32(PlaceX(x, s, k)) + FONT_WIDTH)
         /\ U32(PlaceY(y, s, k + 1)) = IF s[k] = NEWLINE
                                       THEN U32(U32(PlaceY(y, s, k)) + FONT_HEIGHT)
                                       ELSE U32(PlaceY(y, s, k))
<1>1. /\ k \in Nat \ {0} /\ k \in 1 .. Len(s) + 1 /\ x \in Int /\ y \in Int /\ Len(s) \in Nat
      /\ FONT_WIDTH \in Nat /\ FONT_HEIGHT \in Nat /\ Eighth \in Nat \ {0}
      /\ Word \in Nat /\ 8 * Eighth <= Word
      /\ -Eighth <= x /\ x <= Word - 2 * Eighth /\ -Eighth <= y /\ y <= Eighth
  BY DEF TextFits, WordsFit
<1>2. /\ FONT_WIDTH * 0 = 0 /\ FONT_HEIGHT * 0 = 0
  BY <1>1
<1>3. PlaceX(x, s, 1) = x /\ PlaceY(y, s, 1) = y
  BY <1>1, <1>2, FirstPlace DEF PlaceX, PlaceY
<1>4. PICK c, r : /\ c = k - 1 - C!LineStart(s, k) /\ r = C!LineNo(s, k)
                 /\ c \in Nat /\ r \in Nat /\ c <= Len(s) /\ r <= Len(s)
                 /\ C!LineStart(s, k) \in Int
  BY <1>1, PlacesOK DEF PlaceOK, IsLineStart
<1>5. /\ FONT_WIDTH * (c + 1) = FONT_WIDTH * c + FONT_WIDTH /\ FONT_WIDTH * c \in Int
      /\ FONT_HEIGHT * (r + 1) = FONT_HEIGHT * r + FONT_HEIGHT /\ FONT_HEIGHT * r \in Int
  BY <1>1, <1>4, Multiples DEF TextFits
<1>6. /\ C!LineStart(s, k + 1) = IF s[k] = NEWLINE THEN k ELSE C!LineStart(s, k)
      /\ C!LineNo(s, k + 1) = IF s[k] = NEWLINE THEN r + 1 ELSE r
  BY <1>1, <1>4, NextPlace, PlacesOK
<1>7. /\ PlaceX(x, s, k) = x + FONT_WIDTH * c
      /\ PlaceY(y, s, k) = y + FONT_HEIGHT * r
  BY <1>4 DEF PlaceX, PlaceY
<1>8. PlaceX(x, s, k + 1) = IF s[k] = NEWLINE THEN x ELSE PlaceX(x, s, k) + FONT_WIDTH
  <2>1. CASE s[k] = NEWLINE
    <3>1. (k + 1) - 1 - C!LineStart(s, k + 1) = 0  BY <1>1, <1>6, <2>1
    <3>2. PlaceX(x, s, k + 1) = x + FONT_WIDTH * 0  BY <3>1 DEF PlaceX
    <3>3. QED BY <1>1, <1>2, <2>1, <3>2
  <2>2. CASE s[k] # NEWLINE
    <3>1. (k + 1) - 1 - C!LineStart(s, k + 1) = c + 1  BY <1>1, <1>4, <1>6, <2>2
    <3>2. PlaceX(x, s, k + 1) = x + (FONT_WIDTH * c + FONT_WIDTH)
      BY <1>5, <3>1 DEF PlaceX
    <3>3. QED BY <1>1, <1>5, <1>7, <2>2, <3>2
  <2>3. QED BY <2>1, <2>2
<1>9. PlaceY(y, s, k + 1) = IF s[k] = NEWLINE THEN PlaceY(y, s, k) + FONT_HEIGHT
                           ELSE PlaceY(y, s, k)
  <2>1. CASE s[k] = NEWLINE
    <3>1. PlaceY(y, s, k + 1) = y + (FONT_HEIGHT * r + FONT_HEIGHT)
      BY <1>5, <1>6, <2>1 DEF PlaceY
    <3>2. QED BY <1>1, <1>5, <1>7, <2>1, <3>1
  <2>2. CASE s[k] # NEWLINE
    BY <1>6, <1>7, <2>2 DEF PlaceY
  <2>3. QED BY <2>1, <2>2
<1>10. PICK a, b : a = PlaceX(x, s, k) /\ b = PlaceY(y, s, k)
  OBVIOUS
<1>11. /\ a \in Int /\ x <= a /\ a + FONT_WIDTH <= x + Eighth
       /\ b \in Int /\ y <= b /\ b + FONT_HEIGHT <= y + Eighth
  BY <1>1, <1>10, PlaceRange
<1>12. /\ Eighth - Word <= a /\ a < Word /\ a + FONT_WIDTH < Word
       /\ Eighth - Word <= b /\ b < Word /\ b + FONT_HEIGHT < Word
  BY <1>1, <1>11
<1>13. U32(U32(a) + FONT_WIDTH) = U32(a + FONT_WIDTH)
       /\ U32(U32(b) + FONT_HEIGHT) = U32(b + FONT_HEIGHT)
  BY <1>1, <1>11, <1>12, WordSum
<1>14. QED BY <1>3, <1>8, <1>9, <1>10, <1>13

LEMMA PensArePlaces ==
  ASSUME WordsFit, NEW x, NEW y, NEW s, TextFits(x, y, s), NEW k \in 1 .. Len(s) + 1
  PROVE  Pens(x, y, s)[k] = <<U32(PlaceX(x, s, k)), U32(PlaceY(y, s, k))>>
<1> DEFINE Next1(pen, n) ==
             IF n = 1 THEN <<U32(x), U32(y)>>
             ELSE IF s[n - 1] = NEWLINE
                  THEN <<U32(x), U32(pen[n - 1][2] + FONT_HEIGHT)>>
             ELSE <<U32(pen[n - 1][1] + FONT_WIDTH), pen[n - 1][2]>>
           Body(pen) == [n \in 1 .. Len(s) + 1 |-> Next1(pen, n)]
           place == [n \in 1 .. Len(s) + 1 |-> <<U32(PlaceX(x, s, n)), U32(PlaceY(y, s, n))>>]
<1>1. Len(s) \in Nat /\ 1 .. Len(s) + 1 \subseteq Nat  BY DEF TextFits
<1>2. place[1] = <<U32(x), U32(y)>>
  <2>1. CASE Len(s) # 0
    <3>1. 1 \in 1 .. Len(s) /\ 1 \in 1 .. Len(s) + 1  BY <1>1, <2>1
    <3>2. QED BY <3>1, PlaceStep
  <2>2. CASE Len(s) = 0
    <3>1. 1 \in 1 .. Len(s) + 1  BY <1>1
    <3>2. PlaceX(x, s, 1) = x /\ PlaceY(y, s, 1) = y
      <4>1. /\ x \in Int /\ y \in Int /\ FONT_WIDTH * 0 = 0 /\ FONT_HEIGHT * 0 = 0
        BY DEF TextFits, WordsFit
      <4>2. QED BY <4>1, FirstPlace DEF PlaceX, PlaceY
    <3>3. QED BY <3>1, <3>2
  <2>3. QED BY <2>1, <2>2
<1>3. ASSUME NEW n \in 1 .. Len(s) + 1, n # 1, NEW pen, pen[n - 1] = place[n - 1]
      PROVE  place[n] = Next1(pen, n)
  <2> DEFINE m == n - 1
  <2>1. m \in 1 .. Len(s) /\ m \in 1 .. Len(s) + 1 /\ m + 1 = n  BY <1>1, <1>3
  <2>2. pen[m] = <<U32(PlaceX(x, s, m)), U32(PlaceY(y, s, m))>>  BY <1>3, <2>1
  <2>3. place[n] = <<U32(PlaceX(x, s, m + 1)), U32(PlaceY(y, s, m + 1))>>  BY <2>1
  <2>4. Next1(pen, n) = IF s[m] = NEWLINE THEN <<U32(x), U32(pen[m][2] + FONT_HEIGHT)>>
                        ELSE <<U32(pen[m][1] + FONT_WIDTH), pen[m][2]>>
    BY <1>3
  <2> HIDE DEF m, place, Next1
  <2>5. QED BY <2>1, <2>2, <2>3, <2>4, PlaceStep
<1>4. place = Body(place)
  <2>1. \A n \in 1 .. Len(s) + 1 : place[n] = Next1(place, n)
    <3> HIDE DEF place
    <3>1. QED BY <1>2, <1>3
  <2>2. QED BY <2>1
<1>5. Pens(x, y, s) = CHOOSE pen : pen = Body(pen)
  BY DEF Pens
<1>6. Pens(x, y, s) = Body(Pens(x, y, s))
  <2> HIDE DEF Body, place
  <2>1. QED BY <1>4, <1>5
<1> DEFINE Bad == {n \in 1 .. Len(s) + 1 : Pens(x, y, s)[n] # place[n]}
<1>7. Bad = {}
  <2>1. SUFFICES ASSUME Bad # {} PROVE FALSE
    OBVIOUS
  <2>2. PICK m \in Bad : \A n \in Bad : m <= n
    <3>1. Bad \in SUBSET Nat  BY <1>1
    <3> HIDE DEF Bad
    <3>2. QED BY <2>1, <3>1, LeastMember
  <2>3. m \in 1 .. Len(s) + 1 /\ Pens(x, y, s)[m] = Next1(Pens(x, y, s), m)
    <3>1. m \in 1 .. Len(s) + 1  BY <2>2
    <3> HIDE DEF Next1
    <3>2. QED BY <1>6, <3>1
  <2>4. m # 1
    <3>1. ASSUME m = 1 PROVE FALSE
      <4>1. Pens(x, y, s)[m] = <<U32(x), U32(y)>>  BY <2>3, <3>1
      <4> HIDE DEF place
      <4>2. QED BY <1>2, <2>2, <3>1, <4>1
    <3>2. QED BY <3>1
  <2>5. m - 1 \in 1 .. Len(s) + 1 /\ ~(m <= m - 1)  BY <1>1, <2>3, <2>4
  <2>6. m - 1 \notin Bad  BY <2>2, <2>5
  <2> HIDE DEF place, Next1
  <2>7. Pens(x, y, s)[m - 1] = place[m - 1]  BY <2>5, <2>6
  <2>8. QED BY <1>3, <2>2, <2>3, <2>4, <2>7
<1>8. QED BY <1>7

(* A glyph stands on the screen where its pen's place, wrapped or not, is. *)
LEMMA GlyphPlace ==
  ASSUME WordsFit, fb_width \in 1 .. Eighth, fb_height \in 1 .. Eighth,
         NEW G \in SUBSET CharCells, NEW a \in Int, NEW b \in Int,
         Eighth - Word <= a, a + FONT_WIDTH < Word,
         Eighth - Word <= b, b + FONT_HEIGHT < Word
  PROVE  Clipped(At(G, <<U32(a), U32(b)>>)) = Clipped(C!Shifted(G, <<a, b>>))
<1> DEFINE f(p) == <<U32(U32(a) + p[1]), U32(U32(b) + p[2])>>
           g(p) == <<p[1] + a, p[2] + b>>
<1>1. ASSUME NEW p \in G
      PROVE  (f(p) \in Visible <=> g(p) \in Visible)
             /\ (g(p) \in Visible => f(p) = g(p))
  <2>1. /\ Word \in Nat \ {0} /\ Eighth \in Nat \ {0}
        /\ FONT_WIDTH \in Nat /\ FONT_HEIGHT \in Nat
        /\ p[1] \in 0 .. FONT_WIDTH - 1 /\ p[2] \in 0 .. FONT_HEIGHT - 1
    BY <1>1 DEF WordsFit, CharCells
  <2>2. PICK i, j : i = p[1] /\ j = p[2]
    OBVIOUS
  <2>3. /\ i \in Nat /\ a < Word /\ a + i \in Int /\ Eighth - Word <= a + i /\ a + i < Word
        /\ j \in Nat /\ b < Word /\ b + j \in Int /\ Eighth - Word <= b + j /\ b + j < Word
    BY <2>1, <2>2
  <2>4. U32(U32(a) + i) = U32(a + i) /\ U32(U32(b) + j) = U32(b + j)
    BY <2>1, <2>3, WordSum
  <2>5. /\ U32(a + i) \in Nat /\ (U32(a + i) < fb_width <=> a + i \in 0 .. fb_width - 1)
        /\ a + i \in Nat => U32(a + i) = a + i
    BY <2>1, <2>3, NearWord
  <2>6. /\ U32(b + j) \in Nat /\ (U32(b + j) < fb_height <=> b + j \in 0 .. fb_height - 1)
        /\ b + j \in Nat => U32(b + j) = b + j
    BY <2>1, <2>3, NearWord
  <2>7. f(p) = <<U32(a + i), U32(b + j)>> /\ g(p) = <<a + i, b + j>>
    BY <2>1, <2>2, <2>4
  <2>8. U32(a + i) \in 0 .. fb_width - 1 <=> a + i \in 0 .. fb_width - 1
    BY <2>5
  <2>9. U32(b + j) \in 0 .. fb_height - 1 <=> b + j \in 0 .. fb_height - 1
    BY <2>6
  <2> HIDE DEF f, g
  <2>10. f(p) \in Visible <=> g(p) \in Visible
    BY <2>7, <2>8, <2>9 DEF Visible
  <2>11. g(p) \in Visible => a + i \in Nat /\ b + j \in Nat
    BY <2>7 DEF Visible
  <2>12. QED BY <2>5, <2>6, <2>7, <2>10, <2>11
<1>2. At(G, <<U32(a), U32(b)>>) = {f(p) : p \in G}  BY DEF At
<1>3. C!Shifted(G, <<a, b>>) = {g(p) : p \in G}  BY DEF C!Shifted
<1> HIDE DEF f, g
<1>4. {f(p) : p \in G} \cap Visible = {g(p) : p \in G} \cap Visible
  BY <1>1
<1>5. QED BY <1>2, <1>3, <1>4 DEF Clipped

(* The ink of a text, and its paper, are where the request puts them. *)
LEMMA TextPlace ==
  ASSUME ModeInv, NEW x, NEW y, NEW s, TextFits(x, y, s), NEW k \in Drawn(s),
         NEW G \in SUBSET CharCells
  PROVE  Clipped(At(G, Pens(x, y, s)[k]))
           = Clipped(C!Shifted(G, <<PlaceX(x, s, k), PlaceY(y, s, k)>>))
<1>1. /\ WordsFit /\ fb_width \in 1 .. Eighth /\ fb_height \in 1 .. Eighth
  BY Ranges, GraphicsAssumption DEF WordsFit
<1>2. k \in 1 .. Len(s) + 1  BY DEF Drawn, TextFits
<1>3. PICK a, b : a = PlaceX(x, s, k) /\ b = PlaceY(y, s, k)
  OBVIOUS
<1>4. /\ a \in Int /\ x <= a /\ a + FONT_WIDTH <= x + Eighth
      /\ b \in Int /\ y <= b /\ b + FONT_HEIGHT <= y + Eighth
  BY <1>1, <1>2, <1>3, PlaceRange
<1>5. /\ Word \in Nat /\ Eighth \in Nat \ {0} /\ 8 * Eighth <= Word
      /\ FONT_WIDTH \in Nat /\ FONT_HEIGHT \in Nat /\ x \in Int /\ y \in Int
      /\ -Eighth <= x /\ x <= Word - 2 * Eighth /\ -Eighth <= y /\ y <= Eighth
  BY <1>1 DEF WordsFit, TextFits
<1>6. /\ Eighth - Word <= a /\ a + FONT_WIDTH < Word
      /\ Eighth - Word <= b /\ b + FONT_HEIGHT < Word
  BY <1>4, <1>5
<1>7. Pens(x, y, s)[k] = <<U32(a), U32(b)>>
  BY <1>1, <1>2, <1>3, PensArePlaces
<1>8. QED BY <1>1, <1>3, <1>4, <1>6, <1>7, GlyphPlace

TextAt(x, y, s, r) == r.x = x /\ r.y = y /\ r.text = s

LEMMA TextShown ==
  ASSUME ModeInv, NEW x, NEW y, NEW s, TextFits(x, y, s), NEW r, TextAt(x, y, s, r)
  PROVE  /\ Clipped(InkOf(x, y, s)) = Clipped(C!Ink(r))
         /\ Clipped(CellsOf(x, y, s)) = Clipped(C!Paper(r))
         /\ InkOf(x, y, s) \subseteq CellsOf(x, y, s)
<1>1. C!Printed(r) = Drawn(s)  BY DEF C!Printed, Drawn, TextAt
<1>2. \A k : C!Corner(r, k) = <<PlaceX(x, s, k), PlaceY(y, s, k)>>
  BY DEF C!Corner, PlaceX, PlaceY, TextAt
<1>3. \A k \in Drawn(s) : Glyph[s[k]] \in SUBSET CharCells
  <2> SUFFICES ASSUME NEW k \in Drawn(s) PROVE Glyph[s[k]] \in SUBSET CharCells
    OBVIOUS
  <2>1. s \in Seq(DOMAIN Glyph \cup {NEWLINE}) /\ k \in 1 .. Len(s) /\ s[k] # NEWLINE
    BY DEF TextFits, Drawn
  <2>2. s[k] \in DOMAIN Glyph  BY <2>1
  <2>3. QED BY <2>2, RangeAssumption
<1> DEFINE ink(k) == At(Glyph[s[k]], Pens(x, y, s)[k])
           lit(k) == C!Shifted(Glyph[s[k]], <<PlaceX(x, s, k), PlaceY(y, s, k)>>)
           cell(k) == At(CharCells, Pens(x, y, s)[k])
           paper(k) == C!Shifted(CharCells, <<PlaceX(x, s, k), PlaceY(y, s, k)>>)
<1>4. \A k \in Drawn(s) : Clipped(ink(k)) = Clipped(lit(k)) /\ Clipped(cell(k)) = Clipped(paper(k))
  BY <1>3, TextPlace
<1>5. \A k \in Drawn(s) : ink(k) \subseteq cell(k)
  BY <1>3 DEF At
<1>6. InkOf(x, y, s) = UNION {ink(k) : k \in Drawn(s)}
  BY DEF InkOf, font_get_char
<1>7. CellsOf(x, y, s) = UNION {cell(k) : k \in Drawn(s)}
  BY DEF CellsOf
<1>8. C!Ink(r) = UNION {lit(k) : k \in Drawn(s)}
  BY <1>1, <1>2 DEF C!Ink, font_get_char, TextAt
<1>9. C!Paper(r) = UNION {paper(k) : k \in Drawn(s)}
  BY <1>1, <1>2 DEF C!Paper, CharCells
<1> HIDE DEF ink, lit, cell, paper
<1>10. (UNION {ink(k) : k \in Drawn(s)}) \cap Visible
         = (UNION {lit(k) : k \in Drawn(s)}) \cap Visible
  BY <1>4 DEF Clipped
<1>11. (UNION {cell(k) : k \in Drawn(s)}) \cap Visible
         = (UNION {paper(k) : k \in Drawn(s)}) \cap Visible
  BY <1>4 DEF Clipped
<1>12. (UNION {ink(k) : k \in Drawn(s)}) \subseteq UNION {cell(k) : k \in Drawn(s)}
  BY <1>5
<1>13. QED BY <1>6, <1>7, <1>8, <1>9, <1>10, <1>11, <1>12 DEF Clipped

(* What callers pass fits. *)
LEMMA RequestFits ==
  ASSUME ModeInv, NEW x \in Coordinates, NEW y \in Coordinates, NEW s \in Texts \cup Names
  PROVE  TextFits(x, y, s)
<1>1. /\ x \in -Eighth .. Eighth /\ y \in -Eighth .. Eighth
      /\ Word \in Nat /\ Eighth \in Nat \ {0} /\ 8 * Eighth <= Word
  BY Ranges
<1>2. x \in -Eighth .. Word - 2 * Eighth  BY <1>1
<1>3. /\ s \in Seq(DOMAIN Glyph \cup {NEWLINE})
      /\ FONT_WIDTH * (Len(s) + 1) <= Eighth /\ FONT_HEIGHT * (Len(s) + 1) <= Eighth
  BY RangeAssumption DEF Eighth
<1>4. QED BY <1>1, <1>2, <1>3 DEF TextFits

LEMMA OpaqueText ==
  ASSUME ModeInv, ~overrun, UNCHANGED mode, NEW x, NEW y, NEW s, TextFits(x, y, s),
         NEW fg, NEW bg, graphics_draw_string(x, y, s, fg, bg),
         NEW r, TextAt(x, y, s, r), r.color = fg, r.paper = bg, r.opaque = TRUE
  PROVE  C!Text(r)
<1> DEFINE S == Clipped(CellsOf(x, y, s))
           image == [p \in S |-> IF p \in InkOf(x, y, s) THEN fg ELSE bg]
<1>1. Paint(image)  BY DEF graphics_draw_string
<1>2. DOMAIN image = S /\ S \in SUBSET Visible
      /\ \A p \in S : image[p] = IF p \in InkOf(x, y, s) THEN fg ELSE bg
  BY ClippedVisible
<1> HIDE DEF image, S
<1>3. picture' = [p \in Visible |-> IF p \in S THEN image[p] ELSE picture[p]]
  BY <1>1, <1>2, PaintShows
<1>4. ASSUME NEW p \in Visible
      PROVE  /\ (p \in S) = (p \in C!Paper(r))
             /\ (p \in InkOf(x, y, s)) = (p \in C!Ink(r))
             /\ p \in C!Ink(r) => p \in C!Paper(r)
  <2>1. /\ Clipped(InkOf(x, y, s)) = Clipped(C!Ink(r))
        /\ S = Clipped(C!Paper(r))
        /\ InkOf(x, y, s) \subseteq CellsOf(x, y, s)
    BY TextShown DEF S
  <2>2. QED BY <2>1 DEF Clipped, S
<1>5. ASSUME NEW p \in Visible
      PROVE  (IF p \in S THEN image[p] ELSE picture[p])
               = IF p \in C!Ink(r) THEN r.color
                 ELSE IF p \in C!Paper(r) /\ r.opaque THEN r.paper ELSE picture[p]
  BY <1>2, <1>4
<1>6. picture' = [p \in Visible |-> IF p \in C!Ink(r) THEN r.color
                                  ELSE IF p \in C!Paper(r) /\ r.opaque THEN r.paper
                                  ELSE picture[p]]
  BY <1>3, <1>5
<1>7. QED BY <1>6, CanvasScreen DEF C!Text, picture

LEMMA TransparentText ==
  ASSUME ModeInv, ~overrun, UNCHANGED mode, NEW x, NEW y, NEW s, TextFits(x, y, s),
         NEW fg, graphics_draw_string_transparent(x, y, s, fg),
         NEW r, TextAt(x, y, s, r), r.color = fg, r.opaque = FALSE
  PROVE  C!Text(r)
<1> DEFINE S == Clipped(InkOf(x, y, s))
           image == [p \in S |-> fg]
<1>1. Paint(image)  BY DEF graphics_draw_string_transparent
<1>2. DOMAIN image = S /\ S \in SUBSET Visible /\ \A p \in S : image[p] = fg
  BY ClippedVisible
<1> HIDE DEF image, S
<1>3. picture' = [p \in Visible |-> IF p \in S THEN image[p] ELSE picture[p]]
  BY <1>1, <1>2, PaintShows
<1>4. \A p \in Visible : p \in S <=> p \in C!Ink(r)
  BY TextShown DEF Clipped, S
<1>5. picture' = [p \in Visible |-> IF p \in C!Ink(r) THEN r.color
                                  ELSE IF p \in C!Paper(r) /\ r.opaque THEN r.paper
                                  ELSE picture[p]]
  BY <1>2, <1>3, <1>4
<1>6. QED BY <1>5, CanvasScreen DEF C!Text, picture

LEMMA StringMaps ==
  ASSUME ModeInv, DrawString
  PROVE  C!Effect(request')
<1>1. PICK x \in Coordinates, y \in Coordinates, s \in Texts, c \in Colors, d \in Colors :
        /\ Call(TextRequest(x, y, s, c, TRUE, d))
        /\ graphics_draw_string(x, y, s, c, d)
  BY DEF DrawString
<1> DEFINE r == TextRequest(x, y, s, c, TRUE, d)
<1>2. UNCHANGED mode /\ ~overrun /\ request' = r  BY <1>1 DEF Call
<1>3. TextAt(x, y, s, r) /\ r.color = c /\ r.paper = d /\ r.opaque = TRUE /\ r.op = "text"
  BY DEF TextRequest, TextAt
<1> HIDE DEF r
<1>4. C!Text(r)  BY <1>1, <1>2, <1>3, RequestFits, OpaqueText
<1>5. QED BY <1>2, <1>3, <1>4 DEF C!Effect

LEMMA TransparentStringMaps ==
  ASSUME ModeInv, DrawStringTransparent
  PROVE  C!Effect(request')
<1>1. PICK x \in Coordinates, y \in Coordinates, s \in Texts, c \in Colors :
        /\ Call(TextRequest(x, y, s, c, FALSE, c))
        /\ graphics_draw_string_transparent(x, y, s, c)
  BY DEF DrawStringTransparent
<1> DEFINE r == TextRequest(x, y, s, c, FALSE, c)
<1>2. UNCHANGED mode /\ ~overrun /\ request' = r  BY <1>1 DEF Call
<1>3. TextAt(x, y, s, r) /\ r.color = c /\ r.opaque = FALSE /\ r.op = "text"
  BY DEF TextRequest, TextAt
<1> HIDE DEF r
<1>4. C!Text(r)  BY <1>1, <1>2, <1>3, RequestFits, TransparentText
<1>5. QED BY <1>2, <1>3, <1>4 DEF C!Effect

(* A character is drawn as a text of one. *)
LEMMA CharIsText ==
  ASSUME ModeInv, NEW x, NEW y, NEW char \in DOMAIN Glyph, TextFits(x, y, <<char>>)
  PROVE  /\ InkOf(x, y, <<char>>) = At(font_get_char(char), <<U32(x), U32(y)>>)
         /\ CellsOf(x, y, <<char>>) = At(CharCells, <<U32(x), U32(y)>>)
<1>1. Drawn(<<char>>) = {1}
  BY RangeAssumption DEF Drawn
<1>2. Pens(x, y, <<char>>)[1] = <<U32(x), U32(y)>>
  <2>1. WordsFit  BY Ranges, GraphicsAssumption DEF WordsFit
  <2>2. 1 \in 1 .. Len(<<char>>) /\ 1 \in 1 .. Len(<<char>>) + 1  OBVIOUS
  <2>3. PlaceX(x, <<char>>, 1) = x /\ PlaceY(y, <<char>>, 1) = y
    BY <2>1, <2>2, PlaceStep
  <2>4. QED BY <2>1, <2>2, <2>3, PensArePlaces
<1>3. QED BY <1>1, <1>2 DEF InkOf, CellsOf

LEMMA CharMaps ==
  ASSUME ModeInv, DrawChar
  PROVE  C!Effect(request')
<1>1. PICK x \in Coordinates, y \in Coordinates, char \in DOMAIN Glyph,
           c \in Colors, d \in Colors :
        /\ Call(TextRequest(x, y, <<char>>, c, TRUE, d))
        /\ graphics_draw_char(x, y, char, c, d)
  BY DEF DrawChar
<1> DEFINE s == <<char>>
           r == TextRequest(x, y, s, c, TRUE, d)
<1>2. UNCHANGED mode /\ ~overrun /\ request' = r  BY <1>1 DEF Call
<1>3. TextAt(x, y, s, r) /\ r.color = c /\ r.paper = d /\ r.opaque = TRUE /\ r.op = "text"
  BY DEF TextRequest, TextAt
<1>4. TextFits(x, y, s)
  <2>1. /\ x \in -Eighth .. Eighth /\ y \in -Eighth .. Eighth
        /\ Word \in Nat /\ Eighth \in Nat \ {0} /\ 8 * Eighth <= Word
    BY Ranges
  <2>2. x \in -Eighth .. Word - 2 * Eighth  BY <2>1
  <2>3. s \in Seq(DOMAIN Glyph \cup {NEWLINE}) /\ Len(s) = 1  OBVIOUS
  <2>4. /\ FONT_WIDTH \in Nat /\ FONT_HEIGHT \in Nat
        /\ 2 * FONT_WIDTH <= Eighth /\ 2 * FONT_HEIGHT <= Eighth
    BY GraphicsAssumption, RangeAssumption DEF Eighth
  <2>5. FONT_WIDTH * (Len(s) + 1) = 2 * FONT_WIDTH /\ FONT_HEIGHT * (Len(s) + 1) = 2 * FONT_HEIGHT
    BY <2>3, <2>4
  <2>6. QED BY <2>1, <2>2, <2>3, <2>4, <2>5 DEF TextFits
<1>5. graphics_draw_string(x, y, s, c, d)
  <2>1. QED BY <1>1, <1>4, CharIsText DEF graphics_draw_char, graphics_draw_string
<1> HIDE DEF r, s
<1>6. C!Text(r)  BY <1>2, <1>3, <1>4, <1>5, OpaqueText
<1>7. QED BY <1>2, <1>3, <1>6 DEF C!Effect

(* Where a label's pen starts: at the middle, or too far right to be seen *)
LEMMA LabelRoom ==
  ASSUME NEW w \in Nat, NEW e \in Nat \ {0}, 8 * e <= w, NEW x \in -e .. e,
         NEW room \in -e .. e
  PROVE  /\ room >= 0 => /\ room % w = room /\ x + room \div 2 \in -e .. w - 2 * e
         /\ room < 0 => /\ x + (room % w) \div 2 \in 2 * e .. w - 2 * e
<1>1. CASE room >= 0
  <2>1. room \in Nat /\ room < w  BY <1>1
  <2>2. room % w = room  BY <2>1, ModSmall
  <2>3. QED BY <1>1, <2>2
<1>2. CASE room < 0
  <2> DEFINE n == room + w
  <2>1. n \in Nat /\ n < w /\ room = n - w /\ w - e <= n  BY <1>2
  <2> HIDE DEF n
  <2>2. room % w = n  BY <2>1, ModWrapped
  <2>3. x + n \div 2 \in 2 * e .. w - 2 * e
    <3> DEFINE q == n \div 2
    <3>1. q \in Int /\ 2 * q <= n /\ n <= 2 * q + 1  BY <2>1
    <3> HIDE DEF q
    <3>2. x + q \in 2 * e .. w - 2 * e  BY <2>1, <3>1
    <3>3. QED BY <3>2 DEF q
  <2>4. QED BY <1>2, <2>2, <2>3
<1>3. QED BY <1>1, <1>2

LEMMA PensOfWord ==
  ASSUME NEW x, NEW z, U32(x) = U32(z), NEW y, NEW s, NEW fg,
         graphics_draw_string_transparent(x, y, s, fg)
  PROVE  graphics_draw_string_transparent(z, y, s, fg)
<1>1. Pens(x, y, s) = Pens(z, y, s)  BY DEF Pens
<1>2. InkOf(x, y, s) = InkOf(z, y, s)  BY <1>1 DEF InkOf
<1>3. QED BY <1>2 DEF graphics_draw_string_transparent

LEMMA LabelMaps ==
  ASSUME ModeInv, DrawLabel
  PROVE  C!Effect(request') \/ LabelMissing(request')
<1>1. PICK x \in Coordinates, y \in Coordinates, s \in Names, c \in Colors :
        /\ Call([op |-> "label", x |-> x, y |-> y, w |-> ICON_WIDTH, text |-> s,
                 color |-> c, opaque |-> FALSE, paper |-> c])
        /\ graphics_draw_string_transparent(text_x(x, s), y, s, c)
  BY DEF DrawLabel
<1> DEFINE r == [op |-> "label", x |-> x, y |-> y, w |-> ICON_WIDTH, text |-> s,
                 color |-> c, opaque |-> FALSE, paper |-> c]
           room == ICON_WIDTH - FONT_WIDTH * Len(s)
           z == x + U32(room) \div 2
           t == [r EXCEPT !.x = z]
<1>2. UNCHANGED mode /\ ~overrun /\ request' = r  BY <1>1 DEF Call
<1>3. /\ TextFits(x, y, s) /\ x \in -Eighth .. Eighth /\ y \in -Eighth .. Eighth
      /\ Word \in Nat \ {0} /\ Eighth \in Nat \ {0} /\ 8 * Eighth <= Word
      /\ FONT_WIDTH \in Nat /\ FONT_HEIGHT \in Nat /\ ICON_WIDTH \in 0 .. Eighth
      /\ fb_width \in 1 .. Eighth
  BY Ranges, RequestFits, GraphicsAssumption, RangeAssumption DEF Eighth
<1>4. room \in -Eighth .. Eighth
  <2>1. Len(s) \in Nat /\ FONT_WIDTH * (Len(s) + 1) <= Eighth  BY <1>3 DEF TextFits
  <2>2. FONT_WIDTH * Len(s) \in 0 .. Eighth  BY <1>3, <2>1, Multiples
  <2> DEFINE m == FONT_WIDTH * Len(s)
  <2>3. m \in 0 .. Eighth  BY <2>2
  <2> HIDE DEF m
  <2>4. ICON_WIDTH - m \in -Eighth .. Eighth  BY <1>3, <2>3
  <2>5. QED BY <2>4 DEF m
<1>5. /\ t.x = z /\ t.y = y /\ t.text = s /\ t.color = c /\ t.opaque = FALSE
      /\ r.x = x /\ r.w = ICON_WIDTH /\ r.text = s /\ r.op = "label"
      /\ [r EXCEPT !.x = @ + room \div 2] = [r EXCEPT !.x = x + room \div 2]
  OBVIOUS
<1> HIDE DEF r, t, room
<1>6. /\ room >= 0 => U32(room) = room
      /\ z \in -Eighth .. Word - 2 * Eighth
      /\ room < 0 => 2 * Eighth <= z
  BY <1>3, <1>4, LabelRoom DEF U32
<1>7. TextFits(z, y, s)  BY <1>3, <1>6 DEF TextFits
<1>8. C!Text(t)
  <2>1. U32(text_x(x, s)) = U32(z)
    <3>1. text_x(x, s) = U32(z)  BY DEF text_x, room
    <3>2. z \in Int  BY <1>3, <1>6
    <3> HIDE DEF z
    <3>3. U32(z) \in Nat /\ U32(z) < Word  BY <1>3, <3>2, IntModWord DEF U32
    <3>4. QED BY <1>3, <3>1, <3>3, ModSmall DEF U32
  <2>2. graphics_draw_string_transparent(z, y, s, c)  BY <1>1, <2>1, PensOfWord
  <2> HIDE DEF z
  <2>3. TextAt(z, y, s, t)  BY <1>5 DEF TextAt
  <2>4. QED BY <1>2, <1>5, <1>7, <2>2, <2>3, TransparentText
<1>9. CASE room >= 0
  <2>1. t = [r EXCEPT !.x = @ + room \div 2]  BY <1>5, <1>6, <1>9 DEF t
  <2>2. QED BY <1>2, <1>5, <1>8, <1>9, <2>1 DEF C!Effect, C!Label, room
<1>10. CASE room < 0
  <2>1. C!Ink(t) \cap Visible = {}
    <3>1. ASSUME NEW p \in C!Ink(t) PROVE p \notin Visible
      <4>1. PICK k \in Drawn(s) :
              p \in C!Shifted(Glyph[s[k]], <<PlaceX(z, s, k), PlaceY(y, s, k)>>)
        <5>1. C!Printed(t) = Drawn(s)  BY <1>5 DEF C!Printed, Drawn
        <5>2. \A k : C!Corner(t, k) = <<PlaceX(z, s, k), PlaceY(y, s, k)>>
          BY <1>5 DEF C!Corner, PlaceX, PlaceY
        <5> HIDE DEF z
        <5>3. QED BY <1>5, <3>1, <5>1, <5>2 DEF C!Ink, font_get_char
      <4>2. PICK g \in Glyph[s[k]] : p[1] = g[1] + PlaceX(z, s, k)
        <5> HIDE DEF z
        <5>1. QED BY <4>1 DEF C!Shifted
      <4>3. k \in 1 .. Len(s) + 1 /\ s[k] \in DOMAIN Glyph
        BY <1>3 DEF Drawn, TextFits
      <4>4. g[1] \in Nat
        BY <1>3, <4>2, <4>3, RangeAssumption DEF CharCells
      <4> HIDE DEF z
      <4>5. PlaceX(z, s, k) \in Int /\ z <= PlaceX(z, s, k)
        BY <1>3, <1>7, <4>3, PlaceRange DEF WordsFit
      <4>6. z \in Int /\ 2 * Eighth <= z  BY <1>3, <1>6, <1>10
      <4>7. p[1] \in Int /\ p[1] >= fb_width  BY <1>3, <4>4, <4>5, <4>6, <4>2
      <4>8. QED BY <1>3, <4>7 DEF Visible
    <3>2. QED BY <3>1
  <2>2. picture' = picture
    <3>1. picture' = [p \in Visible |-> picture[p]]
      BY <1>5, <1>8, <2>1, CanvasScreen DEF C!Text, picture
    <3>2. QED BY <3>1 DEF picture
  <2>3. r.w - FONT_WIDTH * Len(r.text) = room /\ ~(room >= 0)
    BY <1>4, <1>3, <1>5, <1>10 DEF room
  <2>4. r.w < FONT_WIDTH * Len(r.text)
    <3> DEFINE m == FONT_WIDTH * Len(r.text)
    <3>1. r.w \in Int /\ m \in Int /\ r.w - m = room /\ room \in Int
      BY <1>3, <1>4, <1>5, <2>3 DEF TextFits
    <3> HIDE DEF m
    <3>2. r.w < m  BY <2>3, <3>1
    <3>3. QED BY <3>2 DEF m
  <2>5. QED BY <1>2, <1>5, <2>2, <2>4 DEF LabelMissing
<1>11. room \in Int  BY <1>4, <1>3
<1>12. QED BY <1>9, <1>10, <1>11

(* Calls that leave the picture alone *)
LEMMA QuietMaps ==
  ASSUME BeginLine \/ SwapBuffers
  PROVE  C!Effect(request')
<1>1. UNCHANGED <<mode, backbuffer, overrun>> /\ request'.op \in {"line", "show"}
  <2>1. CASE BeginLine
    <3>1. PICK p \in Ends, q \in Ends, c \in Colors :
            /\ Call([op |-> "line", from |-> p, to |-> q, color |-> c])
            /\ UNCHANGED <<backbuffer, framebuffer, overrun>>
      BY <2>1 DEF BeginLine
    <3>2. QED BY <3>1 DEF Call
  <2>2. CASE SwapBuffers
    BY <2>2 DEF SwapBuffers, graphics_swap_buffers, Call
  <2>3. QED BY <2>1, <2>2
<1>2. picture' = picture  BY <1>1, NothingShown
<1>3. QED BY <1>1, <1>2 DEF C!Effect, picture

(* The line that is drawn is the one the last request asked for, and its   *)
(* next point lies in the box of its ends.                                 *)
LineAsked == drawing => request.op = "line" /\ request.from = from /\ request.to = to

LEMMA LineAskedStep == LineAsked /\ [Next]_vars => LineAsked'
<1> SUFFICES ASSUME LineAsked, [Next]_vars PROVE LineAsked'
  OBVIOUS
<1>1. CASE BeginLine
  <2>1. PICK p \in Ends, q \in Ends, c \in Colors :
          /\ Call([op |-> "line", from |-> p, to |-> q, color |-> c])
          /\ Begin(p, q)
    BY <1>1 DEF BeginLine
  <2>2. QED BY <2>1 DEF Call, Begin, LineAsked
<1>2. CASE PlotPoint
  BY <1>2 DEF PlotPoint, Advance, Finish, LineAsked
<1>3. CASE UNCHANGED vars
  BY <1>3 DEF vars, line_vars, LineAsked
<1>4. CASE Next /\ ~BeginLine /\ ~PlotPoint
  <2>1. ~drawing /\ UNCHANGED line_vars
    BY <1>4 DEF Next, PutPixel, FillRect, DrawRect, FillGradient, DrawChar, DrawString,
           DrawStringTransparent, DrawLabel, ClearScreen, SwapBuffers, Call
  <2>2. QED BY <2>1 DEF line_vars, LineAsked
<1>5. QED BY <1>1, <1>2, <1>3, <1>4

LEMMA StrokeMaps ==
  ASSUME ModeInv, LineInv, LineAsked, PlotPoint
  PROVE  C!Stroke \/ (picture' = picture /\ UNCHANGED request)
<1>1. /\ UNCHANGED <<mode, request>> /\ drawing /\ ~overrun
      /\ Paint([p \in Clipped({pos}) |-> request.color])
  <2>1. drawing  BY DEF PlotPoint
  <2>2. ~overrun  BY <2>1 DEF ModeInv, Inv, StaysInBackBuffer
  <2>3. QED BY <2>1, <2>2 DEF PlotPoint
<1> DEFINE S == Clipped({pos})
           image == [p \in S |-> request.color]
<1>2. DOMAIN image = S /\ S \in SUBSET Visible /\ \A p \in S : image[p] = request.color
  BY ClippedVisible
<1>3. Paint(image)  BY <1>1
<1> HIDE DEF S, image
<1>4. Visible' = Visible
      /\ picture' = [p \in Visible |-> IF p \in S THEN image[p] ELSE picture[p]]
  BY <1>1, <1>2, <1>3, PaintShows
<1>5. CASE pos \in Visible
  <2>1. S = {pos}  BY <1>5 DEF Clipped, S
  <2>2. picture' = [p \in Visible |-> IF p \in {pos} THEN request.color ELSE picture[p]]
    BY <1>2, <1>4, <2>1
  <2>3. C!PaintExactly({pos}, request.color)  BY <2>2, CanvasPaint
  <2>4. /\ pos \in Int \X Int /\ from \in Int \X Int /\ to \in Int \X Int
        /\ InReach(pos[1], from[1], to[1]) /\ InReach(pos[2], from[2], to[2])
        /\ request.op = "line" /\ request.from = from /\ request.to = to
    BY <1>1 DEF LineInv, LineTypeOK, OnLine, Point, LineAsked
  <2>5. /\ C!Between(pos[1], request.from[1], request.to[1])
        /\ C!Between(pos[2], request.from[2], request.to[2])
    BY <2>4 DEF C!Between, InReach
  <2>6. QED BY <1>1, <1>5, <2>3, <2>4, <2>5, CanvasScreen DEF C!Stroke
<1>6. CASE pos \notin Visible
  <2>1. S = {}  BY <1>6 DEF Clipped, S
  <2>2. picture' = [p \in Visible |-> picture[p]]  BY <1>4, <2>1
  <2>3. QED BY <1>1, <2>2 DEF picture
<1>7. QED BY <1>5, <1>6

LEMMA BlankScreen ==
  ASSUME Init
  PROVE  C!Init
<1>1. \A p \in Visible : picture[p] = Black
  <2> SUFFICES ASSUME NEW p \in Visible PROVE picture[p] = Black
    OBVIOUS
  <2>1. CASE overrun
    BY <2>1 DEF picture
  <2>2. CASE ~overrun
    <3>1. ModeInv /\ backbuffer = [i \in Cells |-> Black]
      BY InitModeInv DEF Init, graphics_init
    <3>2. mode \in Mode /\ Fits(mode)  BY <2>2, <3>1 DEF ModeInv, Inv, TypeOK
    <3>3. Index(p) \in Cells  BY <3>2, IndexInCells
    <3>4. QED BY <2>2, <3>1, <3>3, ShownPixel
  <2>3. QED BY <2>1, <2>2
<1>2. request = [op |-> "none"]  BY DEF Init
<1>3. QED BY <1>1, <1>2, CanvasScreen DEF C!Init, picture

(* Every call of a primitive, with any position, size, colour and text a   *)
(* caller passes, changes the picture as Canvas says its request does; but *)
(* a label wider than its icon leaves it as it was, and a gradient to a    *)
(* lower value fills its box with stripes of any colours.  Every iteration *)
(* of the line's loop changes a point in the box of its ends or none.      *)
THEOREM GraphicsImplementsCanvas == Spec => ImplementsCanvas
<1>1. Init => C!Init
  BY BlankScreen
<1>2. ASSUME ModeInv, LineInv, LineAsked, [Next]_vars
      PROVE  [C!Next \/ Misdrawn]_(C!vars)
  <2>1. CASE PlotPoint
    <3>1. CASE C!Stroke  BY <3>1 DEF C!Next
    <3>2. CASE picture' = picture /\ UNCHANGED request
      BY <3>2 DEF C!vars, picture
    <3>3. QED BY <1>2, <2>1, <3>1, <3>2, StrokeMaps
  <2>2. CASE Next /\ ~PlotPoint
    <3>1. C!Effect(request') \/ Misdrawn
      BY <1>2, <2>2, PixelMaps, RectangleMaps, FrameMaps, GradientMaps, CharMaps, StringMaps,
         TransparentStringMaps, LabelMaps, ClearMaps, QuietMaps DEF Next, Misdrawn
    <3>2. QED BY <3>1 DEF C!Next
  <2>3. CASE UNCHANGED vars
    <3>1. UNCHANGED <<mode, backbuffer, overrun>> /\ UNCHANGED request
      BY <2>3 DEF vars
    <3>2. picture' = picture  BY <3>1, NothingShown
    <3>3. QED BY <3>1, <3>2 DEF C!vars, picture
  <2>4. QED BY <1>2, <2>1, <2>2, <2>3
<1>3. Init => LineInv
  BY LineInitInv DEF Init
<1>4. LineInv /\ [Next]_vars => LineInv'
  BY GraphicsStepsTheLine, LineStepInv
<1>5. Init => LineAsked
  BY DEF Init, LineInit, LineAsked
<1>6. Spec => [](ModeInv /\ LineInv /\ LineAsked)
  BY <1>3, <1>4, <1>5, ModeInvariant, LineAskedStep, PTL DEF Spec
<1>7. QED BY <1>1, <1>2, <1>6, PTL DEF Spec, ImplementsCanvas
=============================================================================
