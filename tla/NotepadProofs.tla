---------------------------- MODULE NotepadProofs ----------------------------
(***************************************************************************)
(* Proofs about Notepad, for every buffer and text length and every set of *)
(* characters typed; and about the page NotepadView shows of its text, for *)
(* every size of its window and, within the range of a signed coordinate,  *)
(* every place of it.                                                      *)
(***************************************************************************)
EXTENDS NotepadView, FiniteSetTheorems, TLAPS

(* DrawnIsSaved and DrawStopsInBuffer are inductive together with types.   *)
TextInv == TypeOK /\ DrawStopsInBuffer /\ DrawnIsSaved

(* A character goes in at the cursor and the NUL moves on behind it.       *)
LEMMA InsertKeeps ==
  ASSUME TextInv, opened, RoomForOne, NEW c \in 1 .. 127, Insert(c),
         UNCHANGED opened
  PROVE  TextInv'
<1>1. /\ notepad_buffer \in [Cells -> 0 .. 127] /\ notepad_cursor \in Cells
      /\ notepad_cursor + 1 \in Cells
  BY NotepadAssumption DEF TextInv, TypeOK, RoomForOne, Cells
<1>2. /\ notepad_buffer' \in [Cells -> 0 .. 127] /\ notepad_cursor' \in Cells
      /\ notepad_cursor' = notepad_cursor + 1
  BY <1>1 DEF Insert, NUL
<1>3. notepad_buffer'[notepad_cursor'] = NUL  BY <1>1 DEF Insert
<1>4. \A i \in 0 .. notepad_cursor' - 1 : notepad_buffer'[i] # NUL
  <2>1. TAKE i \in 0 .. notepad_cursor' - 1
  <2>2. i \in Cells /\ i # notepad_cursor + 1 /\
          (i = notepad_cursor \/ i \in 0 .. notepad_cursor - 1)
    BY <1>1, <1>2, NotepadAssumption DEF Cells
  <2>3. CASE i = notepad_cursor
    BY <1>1, <2>2, <2>3 DEF Insert, NUL, Cells
  <2>4. CASE i \in 0 .. notepad_cursor - 1
    <3>1. notepad_buffer[i] # NUL  BY <2>4 DEF TextInv, DrawnIsSaved
    <3>2. i # notepad_cursor  BY <1>1, <2>4, NotepadAssumption DEF Cells
    <3>3. QED BY <1>1, <2>2, <3>1, <3>2 DEF Insert
  <2>5. QED BY <2>2, <2>3, <2>4
<1>5. QED BY <1>2, <1>3, <1>4 DEF TextInv, TypeOK, DrawStopsInBuffer, DrawnIsSaved

(* A backspace moves the cursor back and puts the NUL under it.            *)
LEMMA EraseKeeps ==
  ASSUME TextInv, opened, notepad_cursor > 0, Erase, UNCHANGED opened
  PROVE  TextInv'
<1>1. /\ notepad_buffer \in [Cells -> 0 .. 127] /\ notepad_cursor \in Cells
      /\ notepad_cursor - 1 \in Cells
  BY NotepadAssumption DEF TextInv, TypeOK, Cells
<1>2. /\ notepad_buffer' \in [Cells -> 0 .. 127] /\ notepad_cursor' \in Cells
      /\ notepad_cursor' = notepad_cursor - 1
  BY <1>1 DEF Erase, NUL
<1>3. notepad_buffer'[notepad_cursor'] = NUL  BY <1>1 DEF Erase
<1>4. \A i \in 0 .. notepad_cursor' - 1 : notepad_buffer'[i] # NUL
  <2>1. TAKE i \in 0 .. notepad_cursor' - 1
  <2>2. i \in Cells /\ i # notepad_cursor - 1 /\ i \in 0 .. notepad_cursor - 1
    BY <1>1, <1>2, NotepadAssumption DEF Cells
  <2>3. QED BY <1>1, <2>2 DEF Erase, TextInv, DrawnIsSaved
<1>5. QED BY <1>2, <1>3, <1>4 DEF TextInv, TypeOK, DrawStopsInBuffer, DrawnIsSaved

(* Reopening the notepad puts the welcome text before the cursor.          *)
LEMMA OpenKeeps ==
  ASSUME TextInv, OpenNotepad
  PROVE  TextInv'
<1>1. WELCOME_LEN \in Cells /\ \A i \in 0 .. WELCOME_LEN - 1 : i \in Cells
  BY NotepadAssumption DEF Cells
<1>2. notepad_buffer \in [Cells -> 0 .. 127]  BY DEF TextInv, TypeOK
<1>3. TypeOK'
  BY <1>1, <1>2 DEF OpenNotepad, TypeOK, SomeLetter, NUL
<1>4. notepad_buffer'[notepad_cursor'] = NUL
  BY <1>1, NotepadAssumption DEF OpenNotepad, Cells
<1>5. \A i \in 0 .. notepad_cursor' - 1 : notepad_buffer'[i] # NUL
  BY <1>1, NotepadAssumption DEF OpenNotepad, SomeLetter, NUL
<1>6. QED BY <1>1, <1>3, <1>4, <1>5
          DEF TextInv, TypeOK, DrawStopsInBuffer, DrawnIsSaved, OpenNotepad

(* Any key that reaches the text is one of the above or changes nothing.   *)
LEMMA TypeKeyKeeps ==
  ASSUME TextInv, NEW c, TypeKey(c)
  PROVE  TextInv'
<1>1. opened /\ UNCHANGED opened  BY DEF TypeKey
<1>2. CASE c = BACKSPACE /\ notepad_cursor > 0
  <2>1. Erase
    BY <1>2 DEF TypeKey, BACKSPACE, NEWLINE, RETURN, Printable
  <2>2. QED BY <1>1, <1>2, <2>1, EraseKeeps
<1>3. CASE c \in {NEWLINE, RETURN} /\ RoomForOne
  <2>1. Insert(NEWLINE)
    BY <1>3 DEF TypeKey, BACKSPACE, NEWLINE, RETURN, Printable
  <2>2. NEWLINE \in 1 .. 127  BY DEF NEWLINE
  <2>3. QED BY <1>1, <1>3, <2>1, <2>2, InsertKeeps
<1>4. CASE c \in Printable /\ RoomForOne
  <2>1. Insert(c)
    BY <1>4 DEF TypeKey, BACKSPACE, NEWLINE, RETURN, Printable
  <2>2. c \in 1 .. 127  BY <1>4 DEF Printable
  <2>3. QED BY <1>1, <1>4, <2>1, <2>2, InsertKeeps
<1>5. CASE UNCHANGED vars
  BY <1>5 DEF vars, TextInv, TypeOK, DrawStopsInBuffer, DrawnIsSaved
<1>6. QED BY <1>1, <1>2, <1>3, <1>4, <1>5 DEF TypeKey, vars

(* The text at boot is in order, before any window shows it.               *)
LEMMA InitText ==
  ASSUME Init
  PROVE  TextInv
<1>1. TypeOK
  <2>1. \A i \in Cells :
          (IF i < INITIAL_LEN THEN SomeLetter ELSE NUL) \in 0 .. 127
    BY DEF SomeLetter, NUL
  <2>2. notepad_buffer \in [Cells -> 0 .. 127]  BY <2>1 DEF Init
  <2>3. 0 \in Cells  BY NotepadAssumption DEF Cells
  <2>4. QED BY <2>2, <2>3 DEF Init, TypeOK
<1>2. INITIAL_LEN \in Cells /\ notepad_buffer[INITIAL_LEN] = NUL
  BY NotepadAssumption DEF Init, Cells
<1>3. QED BY <1>1, <1>2 DEF Init, TextInv, DrawStopsInBuffer, DrawnIsSaved

(* The text drawn is the text saved, and drawing it stays inside the       *)
(* buffer, however it was typed and however often the notepad was opened.  *)
THEOREM TextInvariant == Spec => [](TypeOK /\ DrawStopsInBuffer /\ DrawnIsSaved)
<1>1. Init => TextInv  BY InitText
<1>2. TextInv /\ [Next]_vars => TextInv'
  <2> SUFFICES ASSUME TextInv, [Next]_vars PROVE TextInv'
    OBVIOUS
  <2>1. CASE OpenNotepad  BY <2>1, OpenKeeps
  <2>2. ASSUME NEW c \in Keys, TypeKey(c) PROVE TextInv'
    BY <2>2, TypeKeyKeeps
  <2>3. CASE UNCHANGED vars
    BY <2>3 DEF vars, TextInv, TypeOK, DrawStopsInBuffer, DrawnIsSaved
  <2>4. QED BY <2>1, <2>2, <2>3 DEF Next
<1>3. TextInv => TypeOK /\ DrawStopsInBuffer /\ DrawnIsSaved  BY DEF TextInv
<1>4. QED BY <1>1, <1>2, <1>3, PTL DEF Spec

(* The types of the text and of the cursor, and in particular that neither *)
(* typing nor erasing moves the cursor out of the array.                   *)
THEOREM CursorInBuffer == Spec => []TypeOK
BY TextInvariant, PTL

(* The loop of notepad_draw always finds the NUL it stops at.              *)
THEOREM DrawingStops == Spec => []DrawStopsInBuffer
BY TextInvariant, PTL

-----------------------------------------------------------------------------
(* The pen of the drawing loop *)

LEMMA LeastMember ==
  ASSUME NEW S \in SUBSET Nat, S # {}
  PROVE  \E m \in S : \A k \in S : m <= k
<1>1. PICK m \in S : \A k \in S : ~(<<k, m>> \in OpToRel(<, Nat))
  BY NatLessThanWellFounded, WFMin
<1>2. \A k \in S : ~(k < m)  BY <1>1 DEF OpToRel
<1>3. QED BY <1>2

LEMMA ModInRange ==
  ASSUME NEW n \in Int, NEW m \in Nat \ {0}
  PROVE  n % m \in 0 .. m - 1
OBVIOUS

(* An unsigned coordinate is the signed one, or 2^32 more. *)
LEMMA Unsigned ==
  ASSUME NEW n \in -Word .. Word - 1
  PROVE  U32(n) = IF n < 0 THEN Word + n ELSE n
<1>1. Word \in Nat /\ 0 < Word  BY NotepadViewAssumption
<1>2. CASE n < 0
  <2>1. PICK k \in Nat : k = Word + n  BY <1>1, <1>2
  <2>2. n = k - Word /\ k < Word  BY <1>1, <1>2, <2>1
  <2>3. (k - Word) % Word = k  BY <1>1, <2>2
  <2>4. QED BY <1>2, <2>1, <2>2, <2>3 DEF U32
<1>3. CASE 0 <= n
  <2>1. n % Word = n  BY <1>1, <1>3
  <2>2. QED BY <1>3, <2>1 DEF U32
<1>4. QED BY <1>2, <1>3

Pen == (0 .. Word - 1) \X (0 .. Word - 1)

LEMMA NextPenType ==
  ASSUME NEW win \in Int \X Int, NEW c, NEW pen \in Pen
  PROVE  FirstPen(win) \in Pen /\ NextPen(win, c, pen) \in Pen
<1>1. \A n \in Int : U32(n) \in 0 .. Word - 1
  BY NotepadViewAssumption, ModInRange DEF U32
<1>2. /\ win[1] + 10 \in Int /\ win[2] + 40 \in Int
      /\ pen[1] + 8 \in Int /\ pen[2] + line_height \in Int
      /\ pen[2] \in 0 .. Word - 1
  BY NotepadViewAssumption DEF Pen, line_height
<1>3. QED BY <1>1, <1>2 DEF FirstPen, NextPen, StartX, Pen

(* There are pens for every prefix of the text, and so for the text. *)
LEMMA PensExist ==
  ASSUME NEW win \in Int \X Int, NEW n \in Cells
  PROVE  \E f \in [0 .. n -> Pen] : \A i \in 0 .. n :
           f[i] = IF i = 0 THEN FirstPen(win)
                  ELSE NextPen(win, notepad_buffer[i - 1], f[i - 1])
<1> DEFINE Good(f, m) ==
      \A i \in 0 .. m : f[i] = IF i = 0 THEN FirstPen(win)
                              ELSE NextPen(win, notepad_buffer[i - 1], f[i - 1])
           Without == {m \in Cells : \A f \in [0 .. m -> Pen] : ~Good(f, m)}
<1>1. BUFFER_SIZE \in Nat /\ Cells \subseteq Nat
  BY NotepadAssumption DEF Cells
<1>2. SUFFICES ASSUME Without # {} PROVE FALSE
  BY <1>1
<1>3. PICK m \in Without : \A k \in Without : m <= k
  <2>1. Without \in SUBSET Nat  BY <1>1
  <2>2. QED BY <1>2, <2>1, LeastMember
<1>4. m \in Cells  BY <1>3
<1>5. m # 0
  <2>1. ASSUME m = 0 PROVE FALSE
    <3>1. PICK pen : pen = FirstPen(win)  OBVIOUS
    <3>2. pen \in Pen
      <4>1. <<0, 0>> \in Pen  BY NotepadViewAssumption DEF Pen
      <4>2. QED BY <3>1, <4>1, NextPenType
    <3>3. [i \in 0 .. 0 |-> pen] \in [0 .. 0 -> Pen]  BY <3>2
    <3>4. Good([i \in 0 .. 0 |-> pen], 0)  BY <3>1
    <3>5. QED BY <1>3, <2>1, <3>3, <3>4
  <2>2. QED BY <2>1
<1>6. m \in Nat /\ m - 1 \in Nat /\ m - 1 \in Cells /\ m - 1 \notin Without
  <2>1. m \in Nat /\ m - 1 \in Nat /\ m - 1 < m /\ m - 1 \in Cells
    BY <1>1, <1>4, <1>5 DEF Cells
  <2> HIDE DEF Without
  <2>2. QED BY <1>3, <2>1
<1>7. PICK f \in [0 .. m - 1 -> Pen] : Good(f, m - 1)
  BY <1>6
<1>8. PICK next : next = NextPen(win, notepad_buffer[m - 1], f[m - 1])
  OBVIOUS
<1>9. next \in Pen
  BY <1>6, <1>7, <1>8, NextPenType
<1> DEFINE g == [i \in 0 .. m |-> IF i = m THEN next ELSE f[i]]
<1>10. /\ g \in [0 .. m -> Pen] /\ g[m] = next
       /\ \A i \in 0 .. m - 1 : g[i] = f[i]
  BY <1>6, <1>7, <1>9
<1> HIDE DEF g
<1>11. Good(g, m)
  <2> SUFFICES ASSUME NEW i \in 0 .. m
               PROVE  g[i] = IF i = 0 THEN FirstPen(win)
                             ELSE NextPen(win, notepad_buffer[i - 1], g[i - 1])
    OBVIOUS
  <2>1. CASE i = m
    <3>1. m - 1 \in 0 .. m - 1  BY <1>6
    <3>2. QED BY <1>5, <1>8, <1>10, <2>1, <3>1
  <2>2. CASE i # m
    <3>1. i \in 0 .. m - 1 /\ (i # 0 => i - 1 \in 0 .. m - 1)  BY <1>6, <2>2
    <3>2. QED BY <1>7, <1>10, <3>1
  <2>3. QED BY <2>1, <2>2
<1>12. QED BY <1>3, <1>10, <1>11

(* So the recursive definition of the pens has a solution, and they obey it. *)
LEMMA PensStep ==
  ASSUME NEW win \in Int \X Int, NEW i \in Cells
  PROVE  /\ Pens(win)[i] \in Pen
         /\ Pens(win)[i] = IF i = 0 THEN FirstPen(win)
                           ELSE NextPen(win, notepad_buffer[i - 1], Pens(win)[i - 1])
<1> DEFINE Body(f) == [j \in Cells |-> IF j = 0 THEN FirstPen(win)
                         ELSE NextPen(win, notepad_buffer[j - 1], f[j - 1])]
<1>1. PICK n \in Cells : Cells = 0 .. n
  <2>1. BUFFER_SIZE \in Nat \ {0} /\ Cells = 0 .. BUFFER_SIZE - 1
    BY NotepadAssumption DEF Cells
  <2>2. BUFFER_SIZE - 1 \in Cells  BY <2>1
  <2>3. QED BY <2>1, <2>2
<1>2. PICK f \in [Cells -> Pen] : \A j \in Cells :
        f[j] = IF j = 0 THEN FirstPen(win)
               ELSE NextPen(win, notepad_buffer[j - 1], f[j - 1])
  BY <1>1, PensExist
<1>3. f = Body(f)  BY <1>2
<1>4. Pens(win) = CHOOSE pen : pen = Body(pen)
  BY DEF Pens
<1>5. Pens(win) = Body(Pens(win))
  <2> HIDE DEF Body
  <2>1. QED BY <1>3, <1>4
<1>6. \A j \in Cells :
        Pens(win)[j] = IF j = 0 THEN FirstPen(win)
                       ELSE NextPen(win, notepad_buffer[j - 1], Pens(win)[j - 1])
  BY <1>5
<1> DEFINE Bad == {j \in Cells : Pens(win)[j] \notin Pen}
<1>7. Bad = {}
  <2>1. SUFFICES ASSUME Bad # {} PROVE FALSE
    OBVIOUS
  <2>2. PICK m \in Bad : \A j \in Bad : m <= j
    <3>1. Bad \in SUBSET Nat  BY <1>1 DEF Cells
    <3>2. QED BY <2>1, <3>1, LeastMember
  <2>3. m \in Cells /\ m \in Nat  BY <2>2 DEF Cells
  <2>4. PICK pen \in Pen : TRUE  BY <1>1, <1>2
  <2>5. CASE m = 0  BY <1>6, <2>2, <2>3, <2>4, <2>5, NextPenType
  <2>6. CASE m # 0
    <3>1. m - 1 \in Cells /\ ~(m <= m - 1)
      BY <2>3, <2>6, NotepadAssumption DEF Cells
    <3>2. Pens(win)[m - 1] \in Pen
      <4>1. m - 1 \notin Bad  BY <2>2, <3>1
      <4>2. QED BY <3>1, <4>1
    <3>3. Pens(win)[m] = NextPen(win, notepad_buffer[m - 1], Pens(win)[m - 1])
      BY <1>6, <2>3, <2>6
    <3>4. Pens(win)[m] \in Pen  BY <3>2, <3>3, NextPenType
    <3>5. QED BY <2>2, <3>4
  <2>7. QED BY <2>5, <2>6
<1>8. QED BY <1>6, <1>7

-----------------------------------------------------------------------------
(* The rows and columns of the page, from one character to the next *)

LEMMA ModStep ==
  ASSUME NEW k \in Nat, NEW m \in Nat \ {0}
  PROVE  /\ k % m \in 0 .. m - 1
         /\ (k + 1) % m = IF k % m = m - 1 THEN 0 ELSE (k % m) + 1
<1>1. PICK q, r, p, s : /\ q = k \div m /\ r = k % m
                       /\ p = (k + 1) \div m /\ s = (k + 1) % m
  OBVIOUS
<1>2. q \in Int /\ p \in Int /\ r \in 0 .. m - 1 /\ s \in 0 .. m - 1
  BY <1>1, ModInRange
<1>3. k = m * q + r /\ k + 1 = m * p + s  BY <1>1, Z3
<1>4. PICK d \in Int : d = p - q  BY <1>2
<1>5. m * d = r + 1 - s
  <2>1. m * p = m * q + m * d  BY <1>2, <1>4, Z3
  <2>2. m * q \in Int /\ m * p \in Int /\ m * d \in Int  BY <1>2, <1>4
  <2>3. QED BY <1>2, <1>3, <2>1, <2>2
<1>6. /\ d >= 2 => m * d >= 2 * m
      /\ d <= -1 => m * d <= -m
      /\ d = 0 => m * d = 0
      /\ d = 1 => m * d = m
  BY <1>4, Z3
<1>7. d \in {0, 1}  BY <1>2, <1>4, <1>5, <1>6
<1>8. QED BY <1>1, <1>2, <1>5, <1>6, <1>7

(* The paragraph of a character begins at or before it. *)
LEMMA StartIsGreatest ==
  ASSUME NEW i \in Nat
  PROVE  /\ StartOf(i) \in Starts(i) /\ \A k \in Starts(i) : k <= StartOf(i)
         /\ Starts(i) \subseteq 0 .. i
<1> DEFINE Back == {i - k : k \in Starts(i)}
<1>1. Starts(i) \subseteq 0 .. i /\ 0 \in Starts(i)
  BY DEF Starts, Breaks
<1>2. Back \in SUBSET Nat /\ Back # {}  BY <1>1
<1>3. PICK m \in Back : \A j \in Back : m <= j
  <2> HIDE DEF Back
  <2>1. QED BY <1>2, LeastMember
<1>4. PICK g \in Starts(i) : m = i - g  BY <1>3
<1>5. \A k \in Starts(i) : k <= g
  <2>1. TAKE k \in Starts(i)
  <2>2. i - g <= i - k  BY <1>3, <1>4
  <2>3. g \in Int /\ k \in Int  BY <1>1
  <2>4. QED BY <2>2, <2>3
<1>6. QED BY <1>1, <1>4, <1>5 DEF StartOf

LEMMA StartStep ==
  ASSUME NEW i \in Nat
  PROVE  /\ StartOf(0) = 0
         /\ StartOf(i) \in 0 .. i
         /\ StartOf(i + 1) = IF notepad_buffer[i] = NEWLINE THEN i + 1 ELSE StartOf(i)
<1>1. StartOf(0) = 0 /\ StartOf(i) \in 0 .. i
  <2>1. \A j \in Nat : StartOf(j) \in 0 .. j  BY StartIsGreatest
  <2>2. QED BY <2>1
<1>2. CASE notepad_buffer[i] = NEWLINE
  <2>1. i + 1 \in Starts(i + 1)  BY <1>2 DEF Starts, Breaks
  <2>2. StartOf(i + 1) \in 0 .. i + 1 /\ i + 1 <= StartOf(i + 1)
    BY <2>1, StartIsGreatest
  <2>3. QED BY <1>2, <1>1, <2>2
<1>3. CASE notepad_buffer[i] # NEWLINE
  <2>1. Breaks(i + 1) = Breaks(i)
    <3>1. 0 .. (i + 1) - 1 = (0 .. i - 1) \cup {i}  OBVIOUS
    <3>2. QED BY <1>3, <3>1 DEF Breaks
  <2>2. Starts(i + 1) = Starts(i)  BY <2>1 DEF Starts
  <2>3. QED BY <1>1, <1>3, <2>2 DEF StartOf
<1>4. QED BY <1>1, <1>2, <1>3

LEMMA Columns == COLUMNS \in Nat /\ 2 <= COLUMNS
BY NotepadViewAssumption DEF COLUMNS, FONT_WIDTH

(* A break begins a new row, and so does the end of a full one. *)
LEMMA PlaceStep ==
  ASSUME NEW i \in Nat
  PROVE  LET ends == notepad_buffer[i] = NEWLINE \/ Column(i) = COLUMNS - 1
         IN  /\ Column(0) = 0 /\ Row(0) = 0
             /\ Column(i) \in 0 .. COLUMNS - 1 /\ Row(i) \in Nat
             /\ Column(i + 1) = IF ends THEN 0 ELSE Column(i) + 1
             /\ Row(i + 1) = IF ends THEN Row(i) + 1 ELSE Row(i)
<1>1. PICK k : k = i - StartOf(i)  OBVIOUS
<1>2. k \in Nat /\ Column(i) = k % COLUMNS
  BY <1>1, StartStep DEF Column
<1>3. Column(i) \in 0 .. COLUMNS - 1  BY <1>2, Columns, ModStep
<1>4. 0 % COLUMNS = 0  BY Columns
<1>5. Column(0) = 0  BY <1>4, StartStep DEF Column
<1>6. Column(i + 1) = IF notepad_buffer[i] = NEWLINE \/ Column(i) = COLUMNS - 1
                      THEN 0 ELSE Column(i) + 1
  <2>1. CASE notepad_buffer[i] = NEWLINE
    <3>1. (i + 1) - StartOf(i + 1) = 0  BY <2>1, StartStep
    <3>2. QED BY <1>4, <2>1, <3>1 DEF Column
  <2>2. CASE notepad_buffer[i] # NEWLINE
    <3>1. (i + 1) - StartOf(i + 1) = k + 1  BY <1>1, <2>2, StartStep
    <3>2. Column(i + 1) = (k + 1) % COLUMNS  BY <3>1 DEF Column
    <3>3. COLUMNS \in Nat \ {0}  BY Columns
    <3>4. (k + 1) % COLUMNS = IF k % COLUMNS = COLUMNS - 1 THEN 0 ELSE (k % COLUMNS) + 1
      BY <1>2, <3>3, ModStep
    <3>5. QED BY <1>2, <2>2, <3>2, <3>4
  <2>3. QED BY <2>1, <2>2
<1>7. RowEnds(0) = {}  BY DEF RowEnds
<1>8. IsFiniteSet(RowEnds(i))
  <2>1. IsFiniteSet(0 .. i - 1)  BY FS_Interval
  <2>2. RowEnds(i) \in SUBSET (0 .. i - 1)  BY DEF RowEnds
  <2>3. QED BY <2>1, <2>2, FS_Subset
<1>9. Row(0) = 0 /\ Row(i) \in Nat
  BY <1>7, <1>8, FS_EmptySet, FS_CardinalityType DEF Row
<1>10. RowEnds(i + 1) = IF notepad_buffer[i] = NEWLINE \/ Column(i) = COLUMNS - 1
                        THEN RowEnds(i) \cup {i} ELSE RowEnds(i)
  <2>1. 0 .. (i + 1) - 1 = (0 .. i - 1) \cup {i}  OBVIOUS
  <2>2. QED BY <2>1 DEF RowEnds
<1>11. i \notin RowEnds(i)  BY DEF RowEnds
<1>12. Row(i + 1) = IF notepad_buffer[i] = NEWLINE \/ Column(i) = COLUMNS - 1
                    THEN Row(i) + 1 ELSE Row(i)
  BY <1>8, <1>10, <1>11, FS_AddElement DEF Row
<1>13. QED BY <1>3, <1>5, <1>6, <1>9, <1>12

-----------------------------------------------------------------------------
(* Where the pen is *)

(* The loop has come to character i of the text with room left below.      *)
RoomUpTo(win, i) == \A j \in 0 .. i - 1 : Pens(win)[j][2] < Below(win)

LEMMA Corner ==
  ASSUME NEW win \in Corners
  PROVE  /\ win \in Int \X Int
         /\ win[1] \in -(Word \div 2) .. Word \div 2 - width - 1
         /\ win[2] \in 0 .. Word - height - 1
         /\ Word \in Nat /\ width \in Nat /\ 38 <= width
         /\ height \in Nat /\ 60 <= height
         /\ Below(win) = win[2] + height - 20
<1>1. /\ win \in Int \X Int
      /\ win[1] \in -(Word \div 2) .. Word \div 2 - width - 1
      /\ win[2] \in 0 .. Word - height - 1
      /\ Word \in Nat /\ width \in Nat /\ 38 <= width
      /\ height \in Nat /\ 60 <= height
  BY NotepadViewAssumption
<1>2. win[2] + height - 20 \in 0 .. Word - 1  BY <1>1
<1>3. Below(win) = win[2] + height - 20
  BY <1>1, <1>2, Unsigned DEF Below
<1>4. QED BY <1>1, <1>3

(* Eight columns on *)
LEMMA UnsignedStep ==
  ASSUME NEW n \in -(Word \div 2) .. Word - 9
  PROVE  U32(U32(n) + 8) = U32(n + 8)
<1>1. Word \in Nat /\ 60 < Word  BY NotepadViewAssumption
<1>2. /\ U32(n) = (IF n < 0 THEN Word + n ELSE n)
      /\ U32(n + 8) = (IF n + 8 < 0 THEN Word + n + 8 ELSE n + 8)
  BY <1>1, Unsigned
<1>3. CASE n < 0 /\ 0 <= n + 8
  <2>1. PICK k \in 0 .. 8 : k = n + 8  BY <1>1, <1>3
  <2>2. U32(n) + 8 = Word + k  BY <1>1, <1>2, <1>3, <2>1
  <2>3. (Word + k) % Word = k  BY <1>1, <2>1
  <2>4. QED BY <1>2, <1>3, <2>1, <2>2, <2>3 DEF U32
<1>4. CASE 0 <= n \/ n + 8 < 0
  <2>1. U32(n) + 8 \in 0 .. Word - 1  BY <1>1, <1>2, <1>4
  <2>2. U32(U32(n) + 8) = U32(n) + 8  BY <1>1, <2>1, Unsigned
  <2>3. QED BY <1>1, <1>2, <1>4, <2>2
<1>5. QED BY <1>1, <1>3, <1>4

(* The last column is the last one not past the right margin. *)
LEMMA LastColumn ==
  ASSUME NEW k \in Nat
  PROVE  10 + 8 * k > width - 20 <=> COLUMNS <= k
BY NotepadViewAssumption DEF COLUMNS, FONT_WIDTH

(* From a column of the page the pen goes on to the next one or to a new   *)
(* row; on the screen, to a new row exactly after a break or when the row  *)
(* is full.                                                                *)
LEMMA GridStep ==
  ASSUME NEW win \in Corners, ~MarginMissed(win), NEW c,
         NEW k \in 0 .. COLUMNS - 1, NEW y \in Nat, y < Below(win),
         NEW pen, pen = <<U32(win[1] + 10 + 8 * k), y>>
  PROVE  /\ \/ NextPen(win, c, pen) = <<StartX(win), y + 18>>
            \/ /\ k + 1 \in 0 .. COLUMNS - 1
               /\ NextPen(win, c, pen) = <<U32(win[1] + 10 + 8 * (k + 1)), y>>
         /\ win[1] >= -10 =>
              NextPen(win, c, pen) =
                IF c = NEWLINE \/ k = COLUMNS - 1 THEN <<StartX(win), y + 18>>
                ELSE <<U32(win[1] + 10 + 8 * (k + 1)), y>>
<1>1. PICK n, limit : n = win[1] + 10 + 8 * k /\ limit = win[1] + width - 20
  OBVIOUS
<1>2. /\ COLUMNS \in Nat /\ k \in Nat /\ k <= COLUMNS - 1
      /\ n \in Int /\ limit \in Int
      /\ n <= limit /\ -(Word \div 2) <= n
      /\ limit < Word - 20 /\ -(Word \div 2) <= limit
  BY <1>1, Corner, Columns, LastColumn
<1>3. y + 18 \in Nat /\ y + 18 < Word  BY Corner
<1>4. Word \in Nat /\ 60 < Word  BY NotepadViewAssumption
<1>5. U32(pen[1] + 8) = U32(n + 8) /\ U32(pen[2] + line_height) = y + 18
  <2>1. U32(y + 18) = y + 18  BY <1>3, <1>4, Unsigned
  <2>2. U32(U32(n) + 8) = U32(n + 8)  BY <1>2, <1>4, UnsignedStep
  <2>3. QED BY <1>1, <2>1, <2>2 DEF line_height
<1>6. /\ U32(n + 8) = (IF n + 8 < 0 THEN Word + n + 8 ELSE n + 8)
      /\ U32(limit) = (IF limit < 0 THEN Word + limit ELSE limit)
  BY <1>2, <1>4, Unsigned
<1>7. n + 8 > limit <=> k = COLUMNS - 1
  BY <1>1, <1>2, LastColumn, Corner
<1>8. ~(limit < 0 /\ 0 <= n + 8) \/ k < COLUMNS - 1
  BY <1>1, <1>2, Corner DEF MarginMissed, FONT_WIDTH
<1>9. PastMargin(win, U32(n + 8)) <=> U32(n + 8) > U32(limit)
  BY <1>1 DEF PastMargin
<1>10. ~PastMargin(win, U32(n + 8)) => k # COLUMNS - 1
  BY <1>2, <1>4, <1>6, <1>7, <1>8, <1>9
<1>11. win[1] >= -10 => (PastMargin(win, U32(n + 8)) <=> k = COLUMNS - 1)
  BY <1>1, <1>2, <1>4, <1>6, <1>7, <1>9, Corner
<1>12. n + 8 = win[1] + 10 + 8 * (k + 1)  BY <1>1, <1>2, Corner
<1>13. NextPen(win, c, pen) =
         IF c = NEWLINE \/ PastMargin(win, U32(n + 8)) THEN <<StartX(win), y + 18>>
         ELSE <<U32(n + 8), y>>
  BY <1>5 DEF NextPen
<1>14. QED BY <1>2, <1>3, <1>10, <1>11, <1>12, <1>13

(* Where the pen begins *)
LEMMA GridStart ==
  ASSUME NEW win \in Corners
  PROVE  FirstPen(win) = <<U32(win[1] + 10 + 8 * 0), win[2] + 40 + 18 * 0>>
<1>1. win[2] + 40 \in 0 .. Word - 1  BY Corner
<1>2. U32(win[2] + 40) = win[2] + 40  BY <1>1, Corner, Unsigned
<1>3. win[1] + 10 + 8 * 0 = win[1] + 10 /\ win[2] + 40 + 18 * 0 = win[2] + 40
  BY Corner
<1>4. QED BY <1>2, <1>3 DEF FirstPen, StartX

(* While there is room the pen is in a row of the page and, the corner's   *)
(* wrapping undone, in one of its columns.                                 *)
InGrid(win, i) ==
  \E k \in 0 .. COLUMNS - 1, r \in Nat :
    Pens(win)[i] = <<U32(win[1] + 10 + 8 * k), win[2] + 40 + 18 * r>>

LEMMA PenInGrid ==
  ASSUME NEW win \in Corners, ~MarginMissed(win), NEW i \in Cells, RoomUpTo(win, i)
  PROVE  InGrid(win, i)
<1> DEFINE Bad == {j \in Cells : RoomUpTo(win, j) /\ ~InGrid(win, j)}
<1>1. SUFFICES ASSUME Bad # {} PROVE FALSE
  OBVIOUS
<1>2. Bad \in SUBSET Nat  BY DEF Cells
<1>3. PICK m \in Bad : \A j \in Bad : m <= j
  <2> HIDE DEF Bad
  <2>1. QED BY <1>1, <1>2, LeastMember
<1>4. /\ m \in Cells /\ m \in Nat /\ RoomUpTo(win, m) /\ ~InGrid(win, m)
  BY <1>2, <1>3
<1> HIDE DEF Bad
<1>5. 0 \in 0 .. COLUMNS - 1  BY Columns
<1>6. CASE m = 0
  <2>1. Pens(win)[0] = FirstPen(win)  BY <1>4, <1>6, Corner, PensStep
  <2>2. QED BY <1>4, <1>5, <1>6, <2>1, GridStart DEF InGrid
<1>7. CASE m # 0
  <2>1. m - 1 \in Cells /\ ~(m <= m - 1) /\ m - 1 \in 0 .. m - 1
    BY <1>4, <1>7, NotepadAssumption DEF Cells
  <2>2. RoomUpTo(win, m - 1)  BY <1>4, <2>1 DEF RoomUpTo
  <2>3. InGrid(win, m - 1)
    <3>1. m - 1 \notin Bad  BY <1>3, <2>1
    <3>2. QED BY <2>1, <2>2, <3>1 DEF Bad
  <2>4. PICK k \in 0 .. COLUMNS - 1, r \in Nat :
          Pens(win)[m - 1] = <<U32(win[1] + 10 + 8 * k), win[2] + 40 + 18 * r>>
    BY <2>3 DEF InGrid
  <2>5. PICK y, pen, c : /\ y = win[2] + 40 + 18 * r
                         /\ pen = <<U32(win[1] + 10 + 8 * k), y>>
                         /\ c = notepad_buffer[m - 1]
    OBVIOUS
  <2>6. y \in Nat /\ y < Below(win)
    <3>1. y \in Nat  BY <2>5, Corner
    <3>2. Pens(win)[m - 1][2] < Below(win)  BY <1>4, <2>1 DEF RoomUpTo
    <3>3. QED BY <2>4, <2>5, <3>1, <3>2
  <2>7. Pens(win)[m] = NextPen(win, c, pen)
    BY <1>4, <1>7, <2>4, <2>5, Corner, PensStep
  <2>8. \/ NextPen(win, c, pen) = <<StartX(win), y + 18>>
        \/ /\ k + 1 \in 0 .. COLUMNS - 1
           /\ NextPen(win, c, pen) = <<U32(win[1] + 10 + 8 * (k + 1)), y>>
    BY <2>5, <2>6, GridStep
  <2>9. /\ y + 18 = win[2] + 40 + 18 * (r + 1) /\ r + 1 \in Nat
        /\ StartX(win) = U32(win[1] + 10 + 8 * 0)
    BY <2>5, Corner DEF StartX
  <2>10. CASE NextPen(win, c, pen) = <<StartX(win), y + 18>>
    <3>1. Pens(win)[m] = <<U32(win[1] + 10 + 8 * 0), win[2] + 40 + 18 * (r + 1)>>
      BY <2>7, <2>9, <2>10
    <3>2. QED BY <1>4, <1>5, <2>9, <3>1 DEF InGrid
  <2>11. CASE /\ k + 1 \in 0 .. COLUMNS - 1
              /\ NextPen(win, c, pen) = <<U32(win[1] + 10 + 8 * (k + 1)), y>>
    BY <1>4, <2>5, <2>7, <2>11 DEF InGrid
  <2>12. QED BY <2>8, <2>10, <2>11
<1>8. QED BY <1>6, <1>7

(* A pen in the grid with room below it leaves room for a character.       *)
LEMMA GridInside ==
  ASSUME NEW win \in Corners, NEW k \in 0 .. COLUMNS - 1, NEW r \in Nat,
         win[2] + 40 + 18 * r < Below(win)
  PROVE  LET p == <<U32(win[1] + 10 + 8 * k), win[2] + 40 + 18 * r>>
         IN  Inside(win, p) \/ OffScreen(p)
<1>1. PICK n, y : n = win[1] + 10 + 8 * k /\ y = win[2] + 40 + 18 * r
  OBVIOUS
<1>2. /\ k \in Nat /\ n \in Int /\ n >= win[1] + 10 /\ n <= win[1] + width - 20
      /\ y \in Int /\ y >= win[2] + 40 /\ y < win[2] + height - 21
  <2>1. /\ k \in Nat /\ n \in Int /\ n >= win[1] + 10 /\ n <= win[1] + width - 20
        /\ y \in Int /\ y >= win[2] + 40 /\ y < win[2] + height - 20
    BY <1>1, Corner, Columns, LastColumn
  <2>2. height - 61 # 18 * r
    BY NotepadViewAssumption DEF line_height
  <2>3. QED BY <1>1, <2>1, <2>2, Corner
<1>3. U32(n) = IF n < 0 THEN Word + n ELSE n
  BY <1>2, Corner, Unsigned
<1>4. CASE n < 0
  BY <1>1, <1>2, <1>3, <1>4, Corner DEF OffScreen
<1>5. CASE 0 <= n
  <2>1. Inside(win, <<n, y>>)
    BY <1>2, Corner DEF Inside, FONT_WIDTH, FONT_HEIGHT
  <2>2. QED BY <1>1, <1>3, <1>5, <2>1
<1>6. QED BY <1>2, <1>4, <1>5

(* Whatever the text is and wherever the window has been dragged, no       *)
(* character is drawn over the frame of the text area or outside it, as    *)
(* long as the loop does not miss the right margin.                        *)
THEOREM TextInItsArea == Spec => []TextStaysInTextArea
<1>1. TextStaysInTextArea
  <2> SUFFICES ASSUME NEW win \in Corners, ~MarginMissed(win),
                      NEW i \in DOMAIN notepad_draw(win)
               PROVE  Inside(win, notepad_draw(win)[i])
                        \/ OffScreen(notepad_draw(win)[i])
    BY DEF TextStaysInTextArea
  <2>1. i \in Reached(win) /\ notepad_draw(win)[i] = Pens(win)[i]
    BY DEF notepad_draw
  <2>2. i \in Cells /\ \A j \in 0 .. i : Pens(win)[j][2] < Below(win)
    BY <2>1 DEF Reached
  <2>3. i \in 0 .. i /\ \A j \in 0 .. i - 1 : j \in 0 .. i
    BY <2>2 DEF Cells
  <2>4. RoomUpTo(win, i)  BY <2>2, <2>3 DEF RoomUpTo
  <2>5. PICK k \in 0 .. COLUMNS - 1, r \in Nat :
          Pens(win)[i] = <<U32(win[1] + 10 + 8 * k), win[2] + 40 + 18 * r>>
    BY <2>2, <2>4, PenInGrid DEF InGrid
  <2>6. win[2] + 40 + 18 * r < Below(win)  BY <2>2, <2>3, <2>5
  <2>7. QED BY <2>1, <2>5, <2>6, GridInside
<1>2. QED BY <1>1, PTL

-----------------------------------------------------------------------------
(* The page of an open notepad *)

OnPage(win, i) ==
  <<win[1] + 10 + FONT_WIDTH * Column(i), win[2] + 40 + line_height * Row(i)>>

(* While there is room the pen is where the page has the character.        *)
LEMMA PenOnPage ==
  ASSUME NEW win \in Corners, win[1] >= -10, NEW i \in Cells, RoomUpTo(win, i)
  PROVE  Pens(win)[i] = OnPage(win, i)
<1> DEFINE Bad == {j \in Cells : RoomUpTo(win, j) /\ Pens(win)[j] # OnPage(win, j)}
<1>1. SUFFICES ASSUME Bad # {} PROVE FALSE
  OBVIOUS
<1>2. Bad \in SUBSET Nat  BY DEF Cells
<1>3. PICK m \in Bad : \A j \in Bad : m <= j
  <2> HIDE DEF Bad
  <2>1. QED BY <1>1, <1>2, LeastMember
<1>4. /\ m \in Cells /\ m \in Nat
      /\ RoomUpTo(win, m) /\ Pens(win)[m] # OnPage(win, m)
  BY <1>2, <1>3
<1> HIDE DEF Bad
<1>5. ~MarginMissed(win)  BY Corner DEF MarginMissed
<1>6. \A k \in 0 .. COLUMNS - 1 :
        /\ k \in Nat
        /\ U32(win[1] + 10 + 8 * k) = win[1] + 10 + 8 * k
  <2> SUFFICES ASSUME NEW k \in 0 .. COLUMNS - 1
               PROVE  k \in Nat /\ U32(win[1] + 10 + 8 * k) = win[1] + 10 + 8 * k
    OBVIOUS
  <2>1. k \in Nat /\ 10 + 8 * k <= width - 20
    BY Columns, LastColumn, Corner
  <2>2. win[1] + 10 + 8 * k \in 0 .. Word - 1  BY <2>1, Corner
  <2>3. U32(win[1] + 10 + 8 * k) = win[1] + 10 + 8 * k  BY <2>2, Corner, Unsigned
  <2>4. QED BY <2>1, <2>3
<1>7. CASE m = 0
  <2>1. Column(0) = 0 /\ Row(0) = 0  BY <1>4, PlaceStep
  <2>2. 0 \in 0 .. COLUMNS - 1  BY Columns
  <2>3. Pens(win)[0] = FirstPen(win)  BY <1>4, <1>7, Corner, PensStep
  <2>4. OnPage(win, 0) = <<win[1] + 10 + 8 * 0, win[2] + 40 + 18 * 0>>
    BY <2>1 DEF OnPage, FONT_WIDTH, line_height
  <2>5. FirstPen(win) = OnPage(win, 0)
    BY <1>6, <2>2, <2>4, GridStart
  <2>6. QED BY <1>4, <1>7, <2>3, <2>5
<1>8. CASE m # 0
  <2>1. /\ m - 1 \in Cells /\ m - 1 \in Nat /\ ~(m <= m - 1)
        /\ m - 1 \in 0 .. m - 1 /\ (m - 1) + 1 = m
    BY <1>4, <1>8, NotepadAssumption DEF Cells
  <2>2. RoomUpTo(win, m - 1)  BY <1>4, <2>1 DEF RoomUpTo
  <2>3. Pens(win)[m - 1] = OnPage(win, m - 1)
    <3>1. m - 1 \notin Bad  BY <1>3, <2>1
    <3>2. QED BY <2>1, <2>2, <3>1 DEF Bad
  <2>4. PICK k, r, c : /\ k = Column(m - 1) /\ r = Row(m - 1)
                       /\ c = notepad_buffer[m - 1]
    OBVIOUS
  <2>5. /\ k \in 0 .. COLUMNS - 1 /\ r \in Nat
        /\ Column(m) = IF c = NEWLINE \/ k = COLUMNS - 1 THEN 0 ELSE k + 1
        /\ Row(m) = IF c = NEWLINE \/ k = COLUMNS - 1 THEN r + 1 ELSE r
    BY <2>1, <2>4, PlaceStep
  <2>6. PICK y, pen : y = win[2] + 40 + 18 * r /\ pen = <<U32(win[1] + 10 + 8 * k), y>>
    OBVIOUS
  <2>7. pen = Pens(win)[m - 1]
    BY <1>6, <2>3, <2>4, <2>5, <2>6 DEF OnPage, FONT_WIDTH, line_height
  <2>8. y \in Nat /\ y < Below(win)
    <3>1. y \in Nat  BY <2>5, <2>6, Corner
    <3>2. Pens(win)[m - 1][2] < Below(win)  BY <1>4, <2>1 DEF RoomUpTo
    <3>3. QED BY <2>6, <2>7, <3>1, <3>2
  <2>9. Pens(win)[m] = NextPen(win, c, pen)
    BY <1>4, <1>8, <2>4, <2>7, Corner, PensStep
  <2>10. NextPen(win, c, pen) =
           IF c = NEWLINE \/ k = COLUMNS - 1 THEN <<StartX(win), y + 18>>
           ELSE <<U32(win[1] + 10 + 8 * (k + 1)), y>>
    BY <1>5, <2>5, <2>6, <2>8, GridStep
  <2>11. CASE c = NEWLINE \/ k = COLUMNS - 1
    <3>1. OnPage(win, m) = <<win[1] + 10 + 8 * 0, win[2] + 40 + 18 * (r + 1)>>
      BY <2>5, <2>11 DEF OnPage, FONT_WIDTH, line_height
    <3>2. y + 18 = win[2] + 40 + 18 * (r + 1)  BY <2>5, <2>6, Corner
    <3>3. StartX(win) = win[1] + 10 + 8 * 0
      <4>1. 0 \in 0 .. COLUMNS - 1  BY Columns
      <4>2. win[1] + 10 + 8 * 0 = win[1] + 10  BY Corner
      <4>3. QED BY <1>6, <4>1, <4>2 DEF StartX
    <3>4. QED BY <1>4, <2>9, <2>10, <2>11, <3>1, <3>2, <3>3
  <2>12. CASE ~(c = NEWLINE \/ k = COLUMNS - 1)
    <3>1. OnPage(win, m) = <<win[1] + 10 + 8 * (k + 1), y>>
      BY <2>5, <2>6, <2>12 DEF OnPage, FONT_WIDTH, line_height
    <3>2. k + 1 \in 0 .. COLUMNS - 1  BY <2>5, <2>12, Columns
    <3>3. U32(win[1] + 10 + 8 * (k + 1)) = win[1] + 10 + 8 * (k + 1)
      BY <1>6, <3>2
    <3>4. QED BY <1>4, <2>9, <2>10, <2>12, <3>1, <3>3
  <2>13. QED BY <2>11, <2>12
<1>9. QED BY <1>7, <1>8

LEMMA RowsGrow ==
  ASSUME NEW i \in Nat, NEW j \in 0 .. i
  PROVE  Row(j) \in Nat /\ Row(j) <= Row(i)
<1>1. RowEnds(j) \in SUBSET RowEnds(i)  BY DEF RowEnds
<1>2. IsFiniteSet(RowEnds(i))
  <2>1. IsFiniteSet(0 .. i - 1)  BY FS_Interval
  <2>2. RowEnds(i) \in SUBSET (0 .. i - 1)  BY DEF RowEnds
  <2>3. QED BY <2>1, <2>2, FS_Subset
<1>3. QED BY <1>1, <1>2, FS_Subset, PlaceStep DEF Row

(* The rows there is room for are those that begin above the margin.       *)
LEMMA LastRow ==
  ASSUME NEW win \in Corners, NEW r \in Nat
  PROVE  win[2] + 40 + 18 * r < Below(win) <=> r < ROWS
BY Corner DEF ROWS, line_height

(* The loop reaches the characters of the text whose rows there are.       *)
LEMMA ReachedIsPage ==
  ASSUME TypeOK, DrawnIsSaved, opened, NEW win \in Corners, win[1] >= -10, NEW i
  PROVE  i \in Reached(win) <=> i \in 0 .. notepad_cursor - 1 /\ Row(i) < ROWS
<1>1. /\ notepad_cursor \in Cells /\ Cells \subseteq Nat
      /\ \A j \in 0 .. notepad_cursor : j \in Cells
      /\ \A j \in Cells : \A k \in 0 .. j : k \in Cells
      /\ notepad_buffer[notepad_cursor] = NUL
      /\ \A j \in 0 .. notepad_cursor - 1 : notepad_buffer[j] # NUL
  BY NotepadAssumption DEF TypeOK, DrawnIsSaved, Cells
<1>2. \A j \in Cells : RoomUpTo(win, j) =>
        (Pens(win)[j][2] < Below(win) <=> Row(j) < ROWS)
  <2>1. TAKE j \in Cells
  <2>2. HAVE RoomUpTo(win, j)
  <2>3. Pens(win)[j][2] = win[2] + 40 + 18 * Row(j)
    BY <2>2, PenOnPage DEF OnPage, line_height
  <2>4. Row(j) \in Nat  BY <1>1, PlaceStep
  <2>5. QED BY <2>3, <2>4, LastRow
<1>3. ASSUME i \in Reached(win)
      PROVE  i \in 0 .. notepad_cursor - 1 /\ Row(i) < ROWS
  <2>1. /\ i \in Cells
        /\ \A j \in 0 .. i : notepad_buffer[j] # NUL /\ Pens(win)[j][2] < Below(win)
    BY <1>3 DEF Reached
  <2>2. i \in Nat /\ notepad_cursor \in Nat  BY <1>1, <2>1
  <2>3. notepad_cursor \notin 0 .. i  BY <1>1, <2>1
  <2>4. i \in 0 .. notepad_cursor - 1  BY <2>2, <2>3
  <2>5. RoomUpTo(win, i) /\ Pens(win)[i][2] < Below(win)
    BY <2>1, <2>2 DEF RoomUpTo
  <2>6. QED BY <1>2, <2>1, <2>4, <2>5
<1>4. ASSUME i \in 0 .. notepad_cursor - 1, Row(i) < ROWS
      PROVE  i \in Reached(win)
  <2>1. i \in Nat /\ i \in Cells /\ notepad_cursor \in Nat  BY <1>1, <1>4
  <2> DEFINE Bad == {j \in 0 .. i : ~(Pens(win)[j][2] < Below(win))}
  <2>2. Bad = {}
    <3>1. SUFFICES ASSUME Bad # {} PROVE FALSE
      OBVIOUS
    <3>2. PICK m \in Bad : \A j \in Bad : m <= j
      <4>1. Bad \in SUBSET Nat  OBVIOUS
      <4> HIDE DEF Bad
      <4>2. QED BY <3>1, <4>1, LeastMember
    <3>3. m \in 0 .. i /\ m \in Cells /\ ~(Pens(win)[m][2] < Below(win))
      BY <1>1, <2>1, <3>2
    <3>4. RoomUpTo(win, m)
      <4> SUFFICES ASSUME NEW j \in 0 .. m - 1 PROVE Pens(win)[j][2] < Below(win)
        BY DEF RoomUpTo
      <4>1. j \in 0 .. i /\ ~(m <= j)  BY <2>1, <3>3
      <4>2. QED BY <3>2, <4>1
    <3>5. ~(Row(m) < ROWS)  BY <1>2, <3>3, <3>4
    <3>6. Row(m) \in Nat /\ Row(i) \in Nat /\ Row(m) <= Row(i)
      BY <2>1, <3>3, RowsGrow, PlaceStep
    <3>7. ROWS \in Int  BY NotepadViewAssumption DEF ROWS, line_height
    <3>8. QED BY <1>4, <3>5, <3>6, <3>7
  <2>3. \A j \in 0 .. i : j \in 0 .. notepad_cursor - 1  BY <1>4, <2>1
  <2>4. QED BY <1>1, <2>1, <2>2, <2>3 DEF Reached
<1>5. QED BY <1>3, <1>4

(* Once opened, the notepad shows the page of its text, in every window    *)
(* that is on the screen or not more than ten pixels left of it: no        *)
(* character of the rows there is room for is left out or misplaced.       *)
THEOREM PageShown == Spec => []PageIsShown
<1>1. TypeOK /\ DrawnIsSaved => PageIsShown
  <2> SUFFICES ASSUME TypeOK, DrawnIsSaved, opened, NEW win \in Corners, win[1] >= -10
               PROVE  notepad_draw(win) =
                        [i \in {j \in 0 .. notepad_cursor - 1 :
                                   notepad_buffer[j] # NEWLINE /\ Row(j) < ROWS}
                           |-> OnPage(win, i)]
    BY DEF PageIsShown, OnPage
  <2>1. {j \in Reached(win) : notepad_buffer[j] # NEWLINE}
          = {j \in 0 .. notepad_cursor - 1 : notepad_buffer[j] # NEWLINE /\ Row(j) < ROWS}
    BY ReachedIsPage
  <2>2. \A i \in Reached(win) : Pens(win)[i] = OnPage(win, i)
    <3>1. TAKE i \in Reached(win)
    <3>2. i \in Cells /\ \A j \in 0 .. i : Pens(win)[j][2] < Below(win)
      BY DEF Reached
    <3>3. RoomUpTo(win, i)  BY <3>2 DEF RoomUpTo, Cells
    <3>4. QED BY <3>2, <3>3, PenOnPage
  <2>3. QED BY <2>1, <2>2 DEF notepad_draw
<1>2. QED BY <1>1, TextInvariant, PTL
=============================================================================
