----------------------------- MODULE NotepadView -----------------------------
(***************************************************************************)
(* How notepad_draw of kernel/kernel.c lays the text out in its window:    *)
(* the loop that moves a pen over the characters before the first NUL, and *)
(* stops at the bottom.  The pen's coordinates are unsigned.  What a save  *)
(* writes is in Notepad; here it is what the user sees of it.              *)
(***************************************************************************)
EXTENDS Notepad, FiniteSets

CONSTANTS
  Word,                (* 2^32                                *)
  width, height,       (* of the notepad's window             *)
  Corners              (* where the window may be dragged to  *)

FONT_WIDTH == 8
FONT_HEIGHT == 16
line_height == 18

(* The window has room for its frame, and its lines do not end on it *)
ASSUME NotepadViewAssumption ==
  /\ Word \in Nat /\ width \in 38 .. Word - 1 /\ height \in 60 .. Word - 1
  /\ (height - 61) % line_height # 0
  /\ Corners \subseteq
       (-(Word \div 2) .. Word \div 2 - width - 1) \X (0 .. Word - height - 1)

U32(n) == n % Word

StartX(win) == U32(win[1] + 10)
Below(win) == U32(win[2] + height - 20)

(* Mutant: a character is put where it only begins before the margin *)
PastMargin_Width(win, x) == x > U32(win[1] + width)

PastMargin(win, x) == x > U32(win[1] + width - 20)

(* The loop's variables x and y, from one character to the next *)
FirstPen(win) == <<StartX(win), U32(win[2] + 40)>>

NextPen(win, c, pen) ==
  IF c = NEWLINE \/ PastMargin(win, U32(pen[1] + 8))
  THEN <<StartX(win), U32(pen[2] + line_height)>>
  ELSE <<U32(pen[1] + 8), pen[2]>>

Pens(win) ==
  LET pen[i \in Cells] ==
        IF i = 0 THEN FirstPen(win)
        ELSE NextPen(win, notepad_buffer[i - 1], pen[i - 1])
  IN  pen

(* Mutant: the test for the bottom leaves no room for the last line *)
Reached_Height(win) ==
  {i \in Cells : \A j \in 0 .. i :
     notepad_buffer[j] # NUL /\ Pens(win)[j][2] < U32(win[2] + height)}

(* The characters the loop comes to *)
Reached(win) ==
  {i \in Cells : \A j \in 0 .. i :
     notepad_buffer[j] # NUL /\ Pens(win)[j][2] < Below(win)}

(* Those it draws, with their place *)
notepad_draw(win) ==
  [i \in {j \in Reached(win) : notepad_buffer[j] # NEWLINE} |-> Pens(win)[i]]

-----------------------------------------------------------------------------
(* Properties *)

(* The columns of the text area *)
COLUMNS == 1 + (width - 30) \div FONT_WIDTH

(* The right margin is left of the screen, and the pen steps over it to a   *)
(* column of the screen: no later column is past that margin, unsigned.     *)
MarginMissed(win) ==
  win[1] + width - 20 < 0 /\ 0 <= win[1] + 10 + FONT_WIDTH * COLUMNS

(* No character is drawn over the frame of the text area or outside it:    *)
(* the margins notepad_draw tests for leave room for a character's size,   *)
(* also when the window is dragged half off the screen, as long as the     *)
(* right margin is not missed.                                             *)
Inside(win, p) ==
  /\ win[1] + 5 < p[1] /\ p[1] + FONT_WIDTH < win[1] + width - 5
  /\ win[2] + 35 < p[2] /\ p[2] + FONT_HEIGHT < win[2] + height - 5

OffScreen(p) == p[1] >= Word \div 2

TextStaysInTextArea ==
  \A win \in Corners : ~MarginMissed(win) => \A i \in DOMAIN notepad_draw(win) :
    LET p == notepad_draw(win)[i] IN Inside(win, p) \/ OffScreen(p)

(* The page the user expects: the text in rows of so many columns, a       *)
(* paragraph after the other, and of these the rows there is room for.     *)
ROWS == (height - 60 + line_height - 1) \div line_height

Breaks(i) == {j \in 0 .. i - 1 : notepad_buffer[j] = NEWLINE}
Starts(i) == {0} \cup {j + 1 : j \in Breaks(i)}
StartOf(i) == CHOOSE j \in Starts(i) : \A k \in Starts(i) : k <= j
Column(i) == (i - StartOf(i)) % COLUMNS

(* A row ends at a break or when it is full; a break after a full row      *)
(* leaves an empty one                                                     *)
RowEnds(i) == {j \in 0 .. i - 1 : notepad_buffer[j] = NEWLINE \/ Column(j) = COLUMNS - 1}
Row(i) == Cardinality(RowEnds(i))

(* What is drawn of a text that a window shows is that page, whatever is   *)
(* typed: no character is skipped, drawn twice or over another, and what   *)
(* is typed is not seen only when the rows are used up (the view does not  *)
(* scroll).                                                                *)
PageIsShown ==
  opened => \A win \in Corners : win[1] >= -10 =>
    notepad_draw(win) =
      [i \in {j \in 0 .. notepad_cursor - 1 : notepad_buffer[j] # NEWLINE /\ Row(j) < ROWS}
         |-> <<win[1] + 10 + FONT_WIDTH * Column(i),
               win[2] + 40 + line_height * Row(i)>>]
=============================================================================
