---------------------------- MODULE WindowsProofs ----------------------------
(***************************************************************************)
(* Proofs about Windows, for every size of the table and of the screen and *)
(* every set of window shapes and drags.                                   *)
(***************************************************************************)
EXTENDS Windows, FiniteSetTheorems, TLAPS

(* The table without the focus pointer's tie to the slots in use *)
Table == [windows : [Slots -> Window], window_count : 0 .. MAX_WINDOWS,
          focused_window : Slots \cup {NULL}]

(* The properties that are inductive together *)
TableOK(t) ==
  /\ t \in Table
  /\ t.focused_window # NULL =>
       /\ t.window_count > 0
       /\ t.focused_window = t.window_count - 1
       /\ "FOCUSED" \in t.windows[t.focused_window].flags
  /\ \A i \in InUse(t) : t.windows[i].y \in 0 .. LowestTitleBar

LEMMA SlotsInUse ==
  ASSUME NEW t \in Table
  PROVE  InUse(t) \subseteq Slots /\ t.window_count \in Nat
BY WindowsAssumption DEF Table, InUse, Slots

Ids(t) == {t.windows[i].id : i \in InUse(t)}

(* Clearing or setting a flag of one slot changes nothing else.            *)
LEMMA FlagEffect ==
  ASSUME NEW t \in Table, NEW win \in Slots, NEW f \in Flags, NEW u,
         u = ClearFlag(t, win, f) \/ u = SetFlag(t, win, f)
  PROVE  /\ u \in Table
         /\ u.window_count = t.window_count
         /\ u.focused_window = t.focused_window
         /\ \A i \in Slots : u.windows[i].y = t.windows[i].y
         /\ \A i \in Slots : u.windows[i].id = t.windows[i].id
         /\ \A i \in Slots : u.windows[i].w = t.windows[i].w
                            /\ u.windows[i].h = t.windows[i].h
         /\ \A i \in Slots : i # win => u.windows[i] = t.windows[i]
         /\ u.windows[win].flags = t.windows[win].flags \ {f}
              \/ u.windows[win].flags = t.windows[win].flags \cup {f}
         /\ u = SetFlag(t, win, f)
              => u.windows[win].flags = t.windows[win].flags \cup {f}
         /\ u = ClearFlag(t, win, f)
              => u.windows[win].flags = t.windows[win].flags \ {f}
BY DEF Table, ClearFlag, SetFlag, Window

(* Where each slot of a table comes from when slot win moves to the top    *)
LEMMA MoveEffect ==
  ASSUME NEW t \in Table, NEW win \in InUse(t)
  PROVE  LET u == MoveToTop(t, win)
             top == t.window_count - 1
         IN  /\ u \in Table
             /\ u.window_count = t.window_count
             /\ u.focused_window = t.focused_window
             /\ top \in InUse(t)
             /\ u.windows[top] = t.windows[win]
             /\ \A i \in win .. top - 1 : u.windows[i] = t.windows[i + 1]
             /\ \A i \in 0 .. win - 1 : u.windows[i] = t.windows[i]
<1> DEFINE u == MoveToTop(t, win)
           top == t.window_count - 1
<1>1. win \in Slots /\ top \in InUse(t) /\ top \in Slots /\ win <= top
        /\ t.window_count \in Nat
  BY WindowsAssumption DEF Table, InUse, Slots
<1>2. \A i \in win .. top - 1 : i \in Slots /\ i + 1 \in Slots /\ i # top
  BY <1>1, WindowsAssumption DEF Slots
<1>3. \A i \in 0 .. win - 1 : i \in Slots /\ i # top /\ i \notin win .. top - 1
  BY <1>1, WindowsAssumption DEF Slots
<1>4. u.windows = [i \in Slots |-> IF i = top THEN t.windows[win]
                                  ELSE IF i \in win .. top - 1 THEN t.windows[i + 1]
                                  ELSE t.windows[i]]
        /\ u.window_count = t.window_count /\ u.focused_window = t.focused_window
  BY DEF MoveToTop, Table
<1>5. u.windows \in [Slots -> Window]
  <2>1. t.windows \in [Slots -> Window]  BY DEF Table
  <2>2. QED BY <1>1, <1>2, <1>4, <2>1
<1>6. u \in Table  BY <1>4, <1>5 DEF MoveToTop, Table
<1>7. QED BY <1>1, <1>2, <1>3, <1>4, <1>6

(* The slot whose window is in slot i after slot win has moved to the top  *)
From(t, win, i) == IF i = t.window_count - 1 THEN win
                   ELSE IF i \in win .. t.window_count - 2 THEN i + 1
                   ELSE i

(* From rearranges the slots in use. *)
LEMMA FromPermutes ==
  ASSUME NEW t \in Table, NEW win \in InUse(t)
  PROVE  /\ t.window_count - 1 \in InUse(t)
         /\ \A i \in InUse(t) : From(t, win, i) \in InUse(t)
         /\ \A j \in InUse(t) : \E i \in InUse(t) : From(t, win, i) = j
<1> DEFINE n == t.window_count
<1>1. n \in Nat /\ win \in 0 .. n - 1  BY SlotsInUse DEF InUse
<1>2. InUse(t) = 0 .. n - 1  BY DEF InUse
<1> HIDE DEF n
<1>3. n - 1 \in 0 .. n - 1  BY <1>1
<1>4. \A i \in 0 .. n - 1 :
        (IF i = n - 1 THEN win ELSE IF i \in win .. n - 2 THEN i + 1 ELSE i) \in 0 .. n - 1
  BY <1>1
<1>5. ASSUME NEW j \in 0 .. n - 1
      PROVE  \E i \in 0 .. n - 1 :
               (IF i = n - 1 THEN win ELSE IF i \in win .. n - 2 THEN i + 1 ELSE i) = j
  <2>1. CASE j = win
    <3>1. (IF n - 1 = n - 1 THEN win
           ELSE IF n - 1 \in win .. n - 2 THEN n - 1 + 1 ELSE n - 1) = j
      BY <2>1
    <3>2. QED BY <1>3, <3>1
  <2>2. CASE j < win
    <3>1. (IF j = n - 1 THEN win ELSE IF j \in win .. n - 2 THEN j + 1 ELSE j) = j
      BY <1>1, <2>2
    <3>2. QED BY <3>1
  <2>3. CASE j > win
    <3> DEFINE i == j - 1
    <3>1. i \in 0 .. n - 1 /\ i # n - 1 /\ i \in win .. n - 2 /\ i + 1 = j
      BY <1>1, <2>3
    <3>2. (IF i = n - 1 THEN win ELSE IF i \in win .. n - 2 THEN i + 1 ELSE i) = j
      BY <3>1
    <3>3. QED BY <3>1, <3>2
  <2>4. QED BY <1>1, <2>1, <2>2, <2>3
<1>6. QED BY <1>2, <1>3, <1>4, <1>5 DEF From, n

(* Two states of one window, which may differ in the focus flag *)
SameWindow(a, b) ==
  /\ a.id = b.id /\ a.app = b.app
  /\ a.x = b.x /\ a.y = b.y /\ a.w = b.w /\ a.h = b.h
  /\ \A f \in {"VISIBLE", "MINIMIZED"} : f \in a.flags <=> f \in b.flags

(* What focusing a slot in use does: the windows are rearranged by From,   *)
(* and the focus flag goes from the window that had the focus to the new   *)
(* top one.                                                                *)
LEMMA FocusEffect ==
  ASSUME NEW t \in Table, t.focused_window \in InUse(t) \cup {NULL},
         NEW win \in InUse(t), NEW u, u = gui_focus_window(t, win)
  PROVE  /\ u \in Table /\ u.window_count = t.window_count
         /\ InUse(u) = InUse(t)
         /\ u.focused_window = t.window_count - 1
         /\ \A i \in InUse(t) :
              /\ SameWindow(u.windows[i], t.windows[From(t, win, i)])
              /\ "FOCUSED" \in u.windows[i].flags
                   <=> \/ i = t.window_count - 1
                       \/ /\ "FOCUSED" \in t.windows[From(t, win, i)].flags
                          /\ From(t, win, i) # t.focused_window
<1> DEFINE old == IF t.focused_window # NULL
                  THEN ClearFlag(t, t.focused_window, "FOCUSED") ELSE t
           marked == SetFlag(old, win, "FOCUSED")
           moved == MoveToTop(marked, win)
           top == t.window_count - 1
<1>1. /\ InUse(t) \subseteq Slots /\ win \in Slots /\ top \in InUse(t)
      /\ t.windows \in [Slots -> Window] /\ NULL \notin Slots
  <2>1. InUse(t) \subseteq Slots /\ top \in InUse(t)  BY SlotsInUse, FromPermutes
  <2>2. t.windows \in [Slots -> Window]  BY DEF Table
  <2>3. NULL \notin Slots  BY DEF NULL, Slots
  <2>4. QED BY <2>1, <2>2, <2>3
<1>2. /\ old \in Table /\ old.window_count = t.window_count
      /\ \A i \in Slots :
           /\ SameWindow(old.windows[i], t.windows[i])
           /\ "FOCUSED" \in old.windows[i].flags
                <=> "FOCUSED" \in t.windows[i].flags /\ i # t.focused_window
  <2>1. CASE t.focused_window = NULL
    BY <1>1, <2>1 DEF SameWindow
  <2>2. CASE t.focused_window # NULL
    <3> DEFINE f == t.focused_window
    <3>1. f \in Slots  BY <1>1, <2>2
    <3>2. old = [t EXCEPT !.windows[f].flags = @ \ {"FOCUSED"}]
      BY <2>2 DEF ClearFlag
    <3> HIDE DEF old, f
    <3>3. /\ old.windows = [t.windows EXCEPT ![f].flags = @ \ {"FOCUSED"}]
          /\ old.window_count = t.window_count
          /\ old.focused_window = t.focused_window
          /\ old = [t EXCEPT !.windows = old.windows]
      BY <3>2 DEF Table
    <3>4. /\ [t.windows[f] EXCEPT !.flags = @ \ {"FOCUSED"}] \in Window
          /\ SameWindow([t.windows[f] EXCEPT !.flags = @ \ {"FOCUSED"}], t.windows[f])
          /\ "FOCUSED" \notin [t.windows[f] EXCEPT !.flags = @ \ {"FOCUSED"}].flags
      BY <1>1, <3>1 DEF Window, SameWindow
    <3>5. /\ old.windows \in [Slots -> Window]
          /\ old.windows[f] = [t.windows[f] EXCEPT !.flags = @ \ {"FOCUSED"}]
          /\ \A i \in Slots : i # f => old.windows[i] = t.windows[i]
      BY <1>1, <3>1, <3>3, <3>4
    <3>6. old \in Table  BY <3>3, <3>5 DEF Table
    <3>7. \A i \in Slots : SameWindow(t.windows[i], t.windows[i])  BY DEF SameWindow
    <3>8. QED BY <3>3, <3>4, <3>5, <3>6, <3>7 DEF f
  <2>3. QED BY <2>1, <2>2
<1> HIDE DEF old
<1>3. /\ marked \in Table /\ marked.window_count = t.window_count
      /\ \A i \in Slots :
           /\ SameWindow(marked.windows[i], t.windows[i])
           /\ "FOCUSED" \in marked.windows[i].flags
                <=> \/ i = win
                    \/ "FOCUSED" \in t.windows[i].flags /\ i # t.focused_window
  <2>1. marked = [old EXCEPT !.windows[win].flags = @ \cup {"FOCUSED"}]
    BY DEF SetFlag
  <2> HIDE DEF marked
  <2>2. old.windows \in [Slots -> Window]  BY <1>2 DEF Table
  <2>3. /\ marked.windows = [old.windows EXCEPT ![win].flags = @ \cup {"FOCUSED"}]
        /\ marked.window_count = old.window_count
        /\ marked = [old EXCEPT !.windows = marked.windows]
    BY <1>2, <2>1 DEF Table
  <2> DEFINE new == [old.windows[win] EXCEPT !.flags = @ \cup {"FOCUSED"}]
  <2>4. new \in Window /\ SameWindow(new, old.windows[win]) /\ "FOCUSED" \in new.flags
    BY <1>1, <2>2 DEF Window, SameWindow, Flags
  <2>5. /\ marked.windows \in [Slots -> Window]
        /\ marked.windows[win] = new
        /\ \A i \in Slots : i # win => marked.windows[i] = old.windows[i]
    BY <1>1, <2>2, <2>3, <2>4
  <2> HIDE DEF new
  <2>6. marked \in Table  BY <1>2, <2>3, <2>5 DEF Table
  <2>7. SameWindow(marked.windows[win], t.windows[win])
    BY <1>1, <1>2, <2>4, <2>5 DEF SameWindow
  <2>8. QED BY <1>1, <1>2, <2>3, <2>4, <2>5, <2>6, <2>7
<1> HIDE DEF marked
<1>4. win \in InUse(marked) /\ InUse(marked) = InUse(t)  BY <1>3 DEF InUse
<1>5. /\ moved \in Table /\ moved.window_count = t.window_count
      /\ moved.windows[top] = marked.windows[win]
      /\ \A i \in win .. top - 1 : moved.windows[i] = marked.windows[i + 1]
      /\ \A i \in 0 .. win - 1 : moved.windows[i] = marked.windows[i]
  BY <1>3, <1>4, MoveEffect
<1>6. \A i \in InUse(t) : moved.windows[i] = marked.windows[From(t, win, i)]
  <2>1. TAKE i \in InUse(t)
  <2>2. \/ i = top /\ From(t, win, i) = win
        \/ i \in win .. top - 1 /\ From(t, win, i) = i + 1
        \/ i \in 0 .. win - 1 /\ From(t, win, i) = i
    <3>1. t.window_count \in Nat /\ i \in 0 .. top /\ win \in 0 .. top
            /\ t.window_count - 2 = top - 1
      BY SlotsInUse DEF InUse
    <3>2. QED BY <3>1 DEF From
  <2>3. QED BY <1>5, <2>2
<1> HIDE DEF moved
<1>7. u = [moved EXCEPT !.focused_window = top]
  BY DEF gui_focus_window, moved, marked, old
<1>8. /\ u \in Table /\ u.window_count = t.window_count
      /\ u.windows = moved.windows /\ u.focused_window = top
  BY <1>1, <1>5, <1>7 DEF Table
<1>9. InUse(u) = InUse(t)  BY <1>8 DEF InUse
<1>10. \A i \in InUse(t) : From(t, win, i) = win <=> i = top
  <2>1. TAKE i \in InUse(t)
  <2>2. t.window_count \in Nat /\ i \in 0 .. top /\ win \in 0 .. top
    BY SlotsInUse DEF InUse
  <2>3. QED BY <2>2 DEF From
<1>11. \A i \in InUse(t) :
         /\ SameWindow(u.windows[i], t.windows[From(t, win, i)])
         /\ "FOCUSED" \in u.windows[i].flags
              <=> \/ i = top
                  \/ /\ "FOCUSED" \in t.windows[From(t, win, i)].flags
                     /\ From(t, win, i) # t.focused_window
  <2>1. TAKE i \in InUse(t)
  <2>2. From(t, win, i) \in Slots  BY <1>1, FromPermutes
  <2>3. u.windows[i] = marked.windows[From(t, win, i)]  BY <1>6, <1>8
  <2>4. QED BY <1>3, <1>10, <2>2, <2>3
<1>12. QED BY <1>8, <1>9, <1>11

(* Focusing a slot in use keeps the table in order; it needs of the old    *)
(* table only that the y coordinates are right.                            *)
LEMMA FocusKeeps ==
  ASSUME NEW t \in Table, t.focused_window \in InUse(t) \cup {NULL},
         NEW win \in InUse(t),
         \A i \in InUse(t) : t.windows[i].y \in 0 .. LowestTitleBar
  PROVE  /\ TableOK(gui_focus_window(t, win))
         /\ gui_focus_window(t, win).window_count = t.window_count
         /\ Ids(gui_focus_window(t, win)) = Ids(t)
<1> DEFINE u == gui_focus_window(t, win)
<1>1. /\ u \in Table /\ u.window_count = t.window_count /\ InUse(u) = InUse(t)
      /\ u.focused_window = t.window_count - 1
      /\ \A i \in InUse(t) :
           /\ u.windows[i].id = t.windows[From(t, win, i)].id
           /\ u.windows[i].y = t.windows[From(t, win, i)].y
           /\ i = t.window_count - 1 => "FOCUSED" \in u.windows[i].flags
  BY FocusEffect DEF SameWindow
<1> HIDE DEF u
<1>2. /\ t.window_count - 1 \in InUse(t)
      /\ \A i \in InUse(t) : From(t, win, i) \in InUse(t)
      /\ \A j \in InUse(t) : \E i \in InUse(t) : From(t, win, i) = j
  BY FromPermutes
<1>3. \A i \in InUse(u) : u.windows[i].y \in 0 .. LowestTitleBar
  BY <1>1, <1>2
<1>4. t.window_count > 0
  <2>1. t.window_count \in Nat /\ t.window_count - 1 \in 0 .. t.window_count - 1
    BY <1>2, SlotsInUse DEF InUse
  <2>2. QED BY <2>1
<1>5. TableOK(u)  BY <1>1, <1>2, <1>3, <1>4 DEF TableOK
<1>6. Ids(u) = Ids(t)
  <2>1. ASSUME NEW v \in Ids(u) PROVE v \in Ids(t)
    <3>1. PICK i \in InUse(t) : v = u.windows[i].id  BY <1>1 DEF Ids
    <3>2. QED BY <1>1, <1>2, <3>1 DEF Ids
  <2>2. ASSUME NEW v \in Ids(t) PROVE v \in Ids(u)
    <3>1. PICK j \in InUse(t) : v = t.windows[j].id  BY DEF Ids
    <3>2. PICK i \in InUse(t) : From(t, win, i) = j  BY <1>2
    <3>3. v = u.windows[i].id  BY <1>1, <3>1, <3>2
    <3>4. QED BY <1>1, <3>3 DEF Ids
  <2>3. QED BY <2>1, <2>2
<1>7. QED BY <1>1, <1>5, <1>6 DEF u

(* The invariant: the table in order, and each window in use exactly once  *)
TableInv == TableOK(table) /\ Ids(table) = 1 .. table.window_count

(* A table in order keeps its pointer within the slots in use.             *)
LEMMA FocusInUse ==
  ASSUME NEW t, TableOK(t)
  PROVE  /\ t \in Table /\ t.window_count \in Nat
         /\ t.focused_window \in InUse(t) \cup {NULL}
<1>1. t \in Table /\ t.window_count \in Nat  BY SlotsInUse DEF TableOK
<1>2. t.focused_window # NULL => t.focused_window \in InUse(t)
  BY <1>1 DEF TableOK, InUse
<1>3. QED BY <1>1, <1>2

(* A change of flags in one slot, and of the focus pointer to NULL at most *)
(* (always to NULL when the focused slot loses FOCUSED), keeps the order.  *)
LEMMA FlagsKeep ==
  ASSUME TableInv, NEW u \in Table,
         u.window_count = table.window_count,
         \/ u.focused_window = NULL
         \/ /\ u.focused_window = table.focused_window
            /\ u.focused_window # NULL =>
                 "FOCUSED" \in u.windows[u.focused_window].flags,
         \A i \in Slots : /\ u.windows[i].id = table.windows[i].id
                          /\ u.windows[i].y = table.windows[i].y
  PROVE  TableOK(u) /\ Ids(u) = 1 .. u.window_count
<1>1. TableOK(table) /\ Ids(table) = 1 .. table.window_count  BY DEF TableInv
<1>2. InUse(u) = InUse(table) /\ InUse(table) \subseteq Slots
  BY <1>1, SlotsInUse DEF TableOK, InUse
<1>3. Ids(u) = Ids(table)  BY <1>2 DEF Ids
<1>4. TableOK(u)  BY <1>1, <1>2 DEF TableOK
<1>5. QED BY <1>1, <1>3, <1>4

(* What creating a window does: the new slot is filled, with a title bar   *)
(* between the top and the taskbar, and then focused.                      *)
LEMMA CreateEffect ==
  ASSUME TableInv, NEW s \in Shapes, CanCreate(table)
  PROVE  LET n == table.window_count IN
         \E t \in Table :
           /\ t.window_count = n + 1 /\ t.focused_window = table.focused_window
           /\ InUse(t) = InUse(table) \cup {n} /\ n \notin InUse(table)
           /\ \A i \in InUse(table) : t.windows[i] = table.windows[i]
           /\ t.windows[n].id = n + 1 /\ t.windows[n].flags = {"VISIBLE"}
           /\ t.windows[n].w = s.w /\ t.windows[n].h = s.h
           /\ t.windows[n].app = s.app
           /\ t.windows[n].y \in 0 .. LowestTitleBar
           /\ gui_create_window(table, s) = gui_focus_window(t, n)
<1> DEFINE win == NewSlot(table)
           new == [id |-> win + 1, app |-> s.app, w |-> s.w, h |-> s.h,
                   x |-> Limit(AtLeast0(s.x), screen_w - s.w),
                   y |-> Limit(AtLeast0(s.y), screen_h - TASKBAR_HEIGHT - s.h),
                   flags |-> {"VISIBLE"}]
           t == [table EXCEPT !.windows[win] = new, !.window_count = @ + 1]
           n == table.window_count
<1>1. /\ table \in Table /\ n \in Nat /\ win = n /\ win \in Slots
      /\ table.focused_window \in InUse(table) \cup {NULL}
      /\ Ids(table) = 1 .. n
  BY FocusInUse, WindowsAssumption DEF TableInv, CanCreate, NewSlot, Slots
<1>2. new.y \in 0 .. LowestTitleBar /\ new.x \in Int
  <2>1. /\ s.x \in Int /\ s.y \in Int /\ s.w \in Nat /\ s.h \in Nat
        /\ 30 <= s.h /\ s.h <= screen_h - 40 /\ screen_w \in Nat /\ screen_h \in Nat
    BY ShapesAssumption, WindowsAssumption DEF TASKBAR_HEIGHT, TITLE_BAR_HEIGHT
  <2>2. Limit(AtLeast0(s.y), screen_h - 40 - s.h) \in 0 .. screen_h - 40 - 30
    BY <2>1 DEF Limit, AtLeast0
  <2>3. Limit(AtLeast0(s.x), screen_w - s.w) \in Int
    BY <2>1 DEF Limit, AtLeast0
  <2>4. QED BY <2>2, <2>3 DEF LowestTitleBar, TASKBAR_HEIGHT, TITLE_BAR_HEIGHT
<1>3. new \in Window
  <2>1. new.y \in Int  BY <1>2
  <2>2. s.app \in Apps /\ s.w \in Nat /\ s.h \in Nat
    BY ShapesAssumption DEF Apps
  <2>3. {"VISIBLE"} \in SUBSET Flags  BY DEF Flags
  <2>4. win + 1 \in Nat  BY <1>1
  <2>5. QED BY <1>2, <2>1, <2>2, <2>3, <2>4 DEF Window
<1>4. /\ new.id = n + 1 /\ new.flags = {"VISIBLE"}
      /\ new.w = s.w /\ new.h = s.h /\ new.app = s.app
  BY <1>1
<1> HIDE DEF new
<1>5. /\ t.windows = [table.windows EXCEPT ![win] = new]
      /\ t.window_count = n + 1 /\ t.focused_window = table.focused_window
      /\ t \in Table
  <2>1. n + 1 \in 0 .. MAX_WINDOWS
    BY <1>1, WindowsAssumption DEF CanCreate
  <2>2. table.windows \in [Slots -> Window]
          /\ table.focused_window \in Slots \cup {NULL}
    BY <1>1 DEF Table
  <2> DEFINE moved == [table EXCEPT !.windows = [table.windows EXCEPT ![win] = new]]
  <2>3. t = [moved EXCEPT !.window_count = n + 1]
    BY <1>1, <2>2 DEF Table
  <2> HIDE DEF t, win
  <2>4. [table.windows EXCEPT ![win] = new] \in [Slots -> Window]
    BY <1>1, <1>3, <2>2
  <2>5. /\ moved.windows = [table.windows EXCEPT ![win] = new]
        /\ moved.window_count = n
        /\ moved.focused_window = table.focused_window
        /\ moved \in Table
    BY <1>1, <2>4 DEF Table
  <2> HIDE DEF moved
  <2>6. QED BY <2>1, <2>3, <2>5 DEF Table
<1> HIDE DEF t
<1>6. InUse(t) = InUse(table) \cup {win} /\ win \notin InUse(table)
  BY <1>1, <1>5 DEF InUse
<1>7. /\ t.windows[win] = new
      /\ \A i \in InUse(table) : t.windows[i] = table.windows[i]
  BY <1>1, <1>5, <1>6, SlotsInUse DEF Table
<1>8. gui_create_window(table, s) = gui_focus_window(t, win)
  BY DEF gui_create_window, t, new
<1>9. QED BY <1>1, <1>2, <1>4, <1>5, <1>6, <1>7, <1>8

(* A created window is clamped between the top and the taskbar.            *)
LEMMA CreateKeeps ==
  ASSUME TableInv, NEW s \in Shapes, CanCreate(table)
  PROVE  LET u == gui_create_window(table, s)
         IN  TableOK(u) /\ Ids(u) = 1 .. u.window_count
<1> DEFINE n == table.window_count
<1>1. /\ table \in Table /\ n \in Nat /\ Ids(table) = 1 .. n
      /\ table.focused_window \in InUse(table) \cup {NULL}
  BY FocusInUse DEF TableInv
<1>2. PICK t \in Table :
           /\ t.window_count = n + 1 /\ t.focused_window = table.focused_window
           /\ InUse(t) = InUse(table) \cup {n}
           /\ \A i \in InUse(table) : t.windows[i] = table.windows[i]
           /\ t.windows[n].id = n + 1
           /\ t.windows[n].y \in 0 .. LowestTitleBar
           /\ gui_create_window(table, s) = gui_focus_window(t, n)
  BY CreateEffect
<1>3. \A i \in InUse(t) : t.windows[i].y \in 0 .. LowestTitleBar
  BY <1>2 DEF TableInv, TableOK
<1>4. Ids(t) = 1 .. n + 1
  <2>1. Ids(t) = Ids(table) \cup {n + 1}  BY <1>2 DEF Ids
  <2>2. QED BY <1>1, <2>1
<1>5. /\ TableOK(gui_focus_window(t, n))
      /\ gui_focus_window(t, n).window_count = n + 1
      /\ Ids(gui_focus_window(t, n)) = 1 .. n + 1
  BY <1>1, <1>2, <1>3, <1>4, FocusKeeps
<1>6. QED BY <1>2, <1>5

(* The remaining operations, on any slot in use                            *)
LEMMA OthersKeep ==
  ASSUME TableInv, NEW win \in InUse(table), NEW u,
         \/ u = gui_destroy_window(table, win)
         \/ u = gui_show_window(table, win)
         \/ u = gui_hide_window(table, win)
         \/ u = CloseButton(table, win)
         \/ u = MinimizeButton(table, win)
  PROVE  TableOK(u) /\ Ids(u) = 1 .. u.window_count
<1>1. /\ table \in Table /\ win \in Slots
      /\ table.focused_window # NULL =>
           "FOCUSED" \in table.windows[table.focused_window].flags
  BY FocusInUse, SlotsInUse DEF TableInv, TableOK
<1>2. "VISIBLE" \in Flags /\ "MINIMIZED" \in Flags /\ "VISIBLE" # "FOCUSED"
        /\ "MINIMIZED" # "FOCUSED"
  BY DEF Flags
<1>3. ASSUME NEW f \in Flags, f # "FOCUSED", NEW v,
             v = SetFlag(table, win, f) \/ v = ClearFlag(table, win, f)
      PROVE  /\ v \in Table /\ v.window_count = table.window_count
             /\ v.focused_window = table.focused_window
             /\ \A i \in Slots : /\ v.windows[i].id = table.windows[i].id
                                 /\ v.windows[i].y = table.windows[i].y
             /\ v.focused_window # NULL =>
                  "FOCUSED" \in v.windows[v.focused_window].flags
  <2>1. /\ v \in Table /\ v.window_count = table.window_count
        /\ v.focused_window = table.focused_window
        /\ \A i \in Slots : v.windows[i].y = table.windows[i].y
        /\ \A i \in Slots : v.windows[i].id = table.windows[i].id
        /\ \A i \in Slots : i # win => v.windows[i] = table.windows[i]
        /\ \/ v.windows[win].flags = table.windows[win].flags \ {f}
           \/ v.windows[win].flags = table.windows[win].flags \cup {f}
    BY <1>1, <1>3, FlagEffect
  <2>2. ASSUME v.focused_window # NULL
        PROVE  "FOCUSED" \in v.windows[v.focused_window].flags
    <3>1. v.focused_window \in Slots /\
            "FOCUSED" \in table.windows[v.focused_window].flags
      BY <1>1, <2>1, <2>2 DEF Table
    <3>2. CASE v.focused_window = win  BY <1>3, <2>1, <3>1, <3>2
    <3>3. CASE v.focused_window # win  BY <2>1, <3>1, <3>3
    <3>4. QED BY <3>2, <3>3
  <2>3. QED BY <2>1, <2>2
<1>4. CASE u = gui_show_window(table, win)
  BY <1>2, <1>3, <1>4, FlagsKeep DEF gui_show_window
<1>5. CASE u = gui_hide_window(table, win)
  BY <1>2, <1>3, <1>5, FlagsKeep DEF gui_hide_window
<1>6. CASE u = MinimizeButton(table, win)
  BY <1>2, <1>3, <1>6, FlagsKeep DEF MinimizeButton
<1>7. CASE u = CloseButton(table, win)
  <2> DEFINE v == ClearFlag(table, win, "VISIBLE")
  <2>1. /\ v \in Table /\ v.window_count = table.window_count
        /\ v.focused_window = table.focused_window
        /\ \A i \in Slots : /\ v.windows[i].id = table.windows[i].id
                            /\ v.windows[i].y = table.windows[i].y
        /\ v.focused_window # NULL =>
             "FOCUSED" \in v.windows[v.focused_window].flags
    BY <1>2, <1>3
  <2> HIDE DEF v
  <2>2. u = LoseFocus(v, win)  BY <1>7 DEF CloseButton, v
  <2>3. CASE v.focused_window = win
    <3>1. u = [v EXCEPT !.focused_window = NULL]  BY <2>2, <2>3 DEF LoseFocus
    <3>2. /\ u \in Table /\ u.window_count = v.window_count
          /\ u.windows = v.windows /\ u.focused_window = NULL
      BY <2>1, <3>1 DEF Table
    <3>3. QED BY <2>1, <3>2, FlagsKeep
  <2>4. CASE v.focused_window # win
    <3>1. u = v  BY <2>2, <2>4 DEF LoseFocus
    <3>2. QED BY <2>1, <3>1, FlagsKeep
  <2>5. QED BY <2>3, <2>4
<1>8. CASE u = gui_destroy_window(table, win)
  <2> DEFINE v == [table EXCEPT !.windows[win].flags = {}]
  <2>1. /\ v \in Table /\ v.window_count = table.window_count
        /\ v.focused_window = table.focused_window
        /\ \A i \in Slots : /\ v.windows[i].id = table.windows[i].id
                            /\ v.windows[i].y = table.windows[i].y
        /\ \A i \in Slots : i # win => v.windows[i] = table.windows[i]
    BY <1>1 DEF Table, Window
  <2> HIDE DEF v
  <2>2. u = LoseFocus(v, win)  BY <1>8 DEF gui_destroy_window, v
  <2>3. CASE v.focused_window = win
    <3>1. u = [v EXCEPT !.focused_window = NULL]  BY <2>2, <2>3 DEF LoseFocus
    <3>2. /\ u \in Table /\ u.window_count = v.window_count
          /\ u.windows = v.windows /\ u.focused_window = NULL
      BY <2>1, <3>1 DEF Table
    <3>3. QED BY <2>1, <3>2, FlagsKeep
  <2>4. CASE v.focused_window # win
    <3>1. u = v  BY <2>2, <2>4 DEF LoseFocus
    <3>2. u.focused_window # NULL => "FOCUSED" \in u.windows[u.focused_window].flags
      <4>1. u.focused_window # NULL => u.focused_window \in Slots
        BY <2>1, <3>1 DEF Table
      <4>2. QED BY <1>1, <2>1, <2>4, <3>1, <4>1
    <3>3. QED BY <2>1, <3>1, <3>2, FlagsKeep
  <2>5. QED BY <2>3, <2>4
<1>9. QED BY <1>4, <1>5, <1>6, <1>7, <1>8

(* What a drag does: y is clamped, flags, sizes and identities stay.       *)
LEMMA DragEffect ==
  ASSUME TableInv, NEW win \in InUse(table), NEW x \in Int, NEW y \in Int, NEW u,
         u = DragTo(table, win, x, y)
  PROVE  /\ u \in Table /\ u.window_count = table.window_count
         /\ u.focused_window = table.focused_window
         /\ InUse(u) = InUse(table)
         /\ u.windows[win].y \in 0 .. LowestTitleBar
         /\ \A i \in Slots : i # win => u.windows[i] = table.windows[i]
         /\ \A i \in Slots : /\ u.windows[i].id = table.windows[i].id
                             /\ u.windows[i].flags = table.windows[i].flags
                             /\ u.windows[i].w = table.windows[i].w
                             /\ u.windows[i].h = table.windows[i].h
<1> DEFINE newy == Limit(AtLeast0(y), LowestTitleBar)
           old == table.windows[win]
           new == [old EXCEPT !.x = x, !.y = newy]
<1>1. table \in Table /\ win \in Slots /\ TableOK(table)
  BY FocusInUse, SlotsInUse DEF TableInv
<1>2. 0 <= LowestTitleBar /\ LowestTitleBar \in Int
  <2>1. LowestTitleBar \in Int
    BY WindowsAssumption DEF LowestTitleBar, TASKBAR_HEIGHT, TITLE_BAR_HEIGHT
  <2>2. table.windows[win].y \in 0 .. LowestTitleBar  BY <1>1 DEF TableOK
  <2>3. QED BY <2>1, <2>2
<1>3. newy \in 0 .. LowestTitleBar /\ newy \in Int
  BY <1>2 DEF Limit, AtLeast0
<1>4. u = [table EXCEPT !.windows[win].x = x, !.windows[win].y = newy]
  BY DEF DragTo
<1> HIDE DEF newy
<1>5. table.windows \in [Slots -> Window] /\ old \in Window
  BY <1>1 DEF Table
<1>6. /\ new \in Window /\ new.y = newy /\ new.id = old.id /\ new.flags = old.flags
      /\ new.w = old.w /\ new.h = old.h
  BY <1>3, <1>5 DEF Window
<1>7. u = [table EXCEPT !.windows = [table.windows EXCEPT ![win] = new]]
  BY <1>1, <1>4, <1>5 DEF Table, Window
<1> HIDE DEF new
<1>8. /\ u.windows = [table.windows EXCEPT ![win] = new]
      /\ u.window_count = table.window_count
      /\ u.focused_window = table.focused_window
      /\ u \in Table
  BY <1>1, <1>5, <1>6, <1>7 DEF Table
<1>9. /\ u.windows[win] = new
      /\ \A i \in Slots : i # win => u.windows[i] = table.windows[i]
  BY <1>1, <1>5, <1>8
<1>10. QED BY <1>3, <1>6, <1>8, <1>9 DEF InUse

(* A drag keeps the table in order.                                        *)
LEMMA DragKeeps ==
  ASSUME TableInv, NEW win \in InUse(table), NEW x \in Int, NEW y \in Int
  PROVE  LET u == DragTo(table, win, x, y)
         IN  TableOK(u) /\ Ids(u) = 1 .. u.window_count
<1>1. PICK u : u = DragTo(table, win, x, y)  OBVIOUS
<1>2. TableOK(table) /\ Ids(table) = 1 .. table.window_count
        /\ InUse(table) \subseteq Slots
  BY SlotsInUse DEF TableInv, TableOK
<1>3. /\ u \in Table /\ u.window_count = table.window_count
      /\ u.focused_window = table.focused_window
      /\ InUse(u) = InUse(table)
      /\ u.windows[win].y \in 0 .. LowestTitleBar
      /\ \A i \in Slots : i # win => u.windows[i] = table.windows[i]
      /\ \A i \in Slots : /\ u.windows[i].id = table.windows[i].id
                          /\ u.windows[i].flags = table.windows[i].flags
  BY <1>1, DragEffect
<1>4. Ids(u) = Ids(table)  BY <1>2, <1>3 DEF Ids
<1>5. \A i \in InUse(u) : u.windows[i].y \in 0 .. LowestTitleBar
  BY <1>2, <1>3 DEF TableOK
<1>6. u.focused_window # NULL => "FOCUSED" \in u.windows[u.focused_window].flags
  BY <1>2, <1>3 DEF TableOK, Table
<1>7. TableOK(u)  BY <1>2, <1>3, <1>5, <1>6 DEF TableOK
<1>8. QED BY <1>1, <1>2, <1>3, <1>4, <1>7

(* The empty table is in order. *)
LEMMA InitTable ==
  ASSUME Init
  PROVE  TableInv
<1>1. table = EmptyTable  BY DEF Init
<1>2. table \in Table
  <2>1. [id |-> 0, app |-> "none", x |-> 0, y |-> 0, w |-> 0, h |-> 0,
         flags |-> {}] \in Window
    <3>1. "none" \in Apps  BY DEF Apps
    <3>2. {} \in SUBSET Flags  OBVIOUS
    <3>3. 0 \in Nat /\ 0 \in Int  OBVIOUS
    <3>4. QED BY <3>1, <3>2, <3>3 DEF Window
  <2>2. 0 \in 0 .. MAX_WINDOWS  BY WindowsAssumption
  <2>3. EmptyTable.windows \in [Slots -> Window]  BY <2>1 DEF EmptyTable
  <2>4. EmptyTable.window_count = 0 /\ EmptyTable.focused_window = NULL
    BY DEF EmptyTable
  <2>5. EmptyTable = [windows |-> EmptyTable.windows, window_count |-> 0,
                      focused_window |-> NULL]
    BY DEF EmptyTable
  <2>6. QED BY <1>1, <2>2, <2>3, <2>5 DEF Table
<1>3. table.window_count = 0 /\ table.focused_window = NULL
  BY <1>1 DEF EmptyTable
<1>4. InUse(table) = {}  BY <1>3 DEF InUse
<1>5. Ids(table) = {} /\ 1 .. table.window_count = {}  BY <1>3, <1>4 DEF Ids
<1>6. QED BY <1>2, <1>3, <1>4, <1>5 DEF TableInv, TableOK

(* TableInv is an invariant of the window table.                           *)
LEMMA TableInvariant == Spec => []TableInv
<1>1. Init => TableInv  BY InitTable
<1>2. TableInv /\ [Next]_table => TableInv'
  <2> SUFFICES ASSUME TableInv, [Next]_table PROVE TableInv'
    OBVIOUS
  <2>0. ASSUME NEW u, table' = u, TableOK(u), Ids(u) = 1 .. u.window_count
        PROVE  TableInv'
    BY <2>0 DEF TableInv, TableOK, Ids, InUse
  <2>1. CASE Create
    <3>1. PICK s \in Shapes : CanCreate(table) /\ table' = gui_create_window(table, s)
      BY <2>1 DEF Create
    <3>2. QED BY <2>0, <3>1, CreateKeeps
  <2>2. ASSUME NEW t \in Table, NEW win \in InUse(t),
               t.focused_window \in InUse(t) \cup {NULL},
               \A i \in InUse(t) : t.windows[i].y \in 0 .. LowestTitleBar,
               Ids(t) = 1 .. t.window_count, table' = gui_focus_window(t, win)
        PROVE  TableInv'
    BY <2>0, <2>2, FocusKeeps
  <2>3. CASE Focus
    <3>1. PICK win \in InUse(table) : table' = gui_focus_window(table, win)
      BY <2>3 DEF Focus
    <3>2. QED BY <2>2, <3>1, FocusInUse DEF TableInv, TableOK
  <2>4. CASE Restore
    <3>1. PICK win \in InUse(table) : table' = TaskbarButton(table, win)
      BY <2>4 DEF Restore
    <3> DEFINE t == ClearFlag(table, win, "MINIMIZED")
    <3>2. /\ table \in Table /\ win \in Slots /\ "MINIMIZED" \in Flags
          /\ InUse(table) \subseteq Slots
          /\ table.focused_window \in InUse(table) \cup {NULL}
          /\ Ids(table) = 1 .. table.window_count
      BY FocusInUse, SlotsInUse DEF TableInv, Flags
    <3>3. /\ t \in Table /\ t.window_count = table.window_count
          /\ t.focused_window = table.focused_window
          /\ \A i \in Slots : t.windows[i].y = table.windows[i].y
          /\ \A i \in Slots : t.windows[i].id = table.windows[i].id
      BY <3>2, FlagEffect
    <3> HIDE DEF t
    <3>4. InUse(t) = InUse(table)  BY <3>3 DEF InUse
    <3>5. Ids(t) = Ids(table)  BY <3>2, <3>3, <3>4 DEF Ids
    <3>6. \A i \in InUse(t) : t.windows[i].y \in 0 .. LowestTitleBar
      BY <3>2, <3>3, <3>4 DEF TableInv, TableOK
    <3>7. table' = gui_focus_window(t, win)  BY <3>1 DEF TaskbarButton, t
    <3>8. QED BY <2>2, <3>2, <3>3, <3>4, <3>5, <3>6, <3>7
  <2>5. CASE Destroy \/ Show \/ Hide \/ Close \/ Minimize
    <3>1. PICK win \in InUse(table) :
            \/ table' = gui_destroy_window(table, win)
            \/ table' = gui_show_window(table, win)
            \/ table' = gui_hide_window(table, win)
            \/ table' = CloseButton(table, win)
            \/ table' = MinimizeButton(table, win)
      BY <2>5 DEF Destroy, Show, Hide, Close, Minimize
    <3>2. QED BY <2>0, <3>1, OthersKeep
  <2>6. CASE Drag
    <3>1. PICK win \in InUse(table), p \in DragPositions :
            table' = DragTo(table, win, p[1], p[2])
      BY <2>6 DEF Drag
    <3>2. p[1] \in Int /\ p[2] \in Int  BY DragAssumption
    <3>3. QED BY <2>0, <3>1, <3>2, DragKeeps
  <2>7. CASE UNCHANGED table  BY <2>0, <2>7 DEF TableInv
  <2>8. QED BY <2>1, <2>3, <2>4, <2>5, <2>6, <2>7 DEF Next
<1>3. QED BY <1>1, <1>2, PTL DEF Spec

(* Type correctness of the window table                                    *)
THEOREM WindowsTypeCorrect == Spec => []TypeOK
<1>1. TableInv => TypeOK
  BY FocusInUse DEF TableInv, TypeOK, Table
<1>2. QED BY <1>1, TableInvariant, PTL

(* The window drawn on top is the one a click is offered first, and the    *)
(* one whose flag the key loop finds, for every number of windows.         *)
THEOREM FocusedWindowIsTop == Spec => []FocusedIsTop
<1>1. TableInv => FocusedIsTop  BY DEF TableInv, TableOK, FocusedIsTop
<1>2. QED BY <1>1, TableInvariant, PTL

(* Reordering the slots never loses or doubles a window.                   *)
THEOREM NoWindowLost == Spec => []WindowsConserved
<1>1. TableInv => WindowsConserved  BY DEF TableInv, Ids, WindowsConserved
<1>2. QED BY <1>1, TableInvariant, PTL

(* Title bars stay in the rows between the top of the screen and the       *)
(* taskbar, for every screen and every shape that fits it.                 *)
THEOREM TitleBarsKeepTheirRows == Spec => []TitleBarAboveTaskbar
<1>1. TableInv => TitleBarAboveTaskbar
  BY DEF TableInv, TableOK, TitleBarAboveTaskbar
<1>2. QED BY <1>1, TableInvariant, PTL

-----------------------------------------------------------------------------
(* Refinement of WindowStack *)

(* The stack a table stands for *)
Order(t) == [i \in 1 .. t.window_count |-> t.windows[i - 1].id]
Active(t) == IF t.focused_window = NULL THEN 0 ELSE t.windows[t.focused_window].id
With(t, f) == {t.windows[i].id : i \in {j \in InUse(t) : f \in t.windows[j].flags}}

(* Identities count from 1, so they tell the slots in use apart. *)
DistinctIds(t) == \A i \in InUse(t) : /\ t.windows[i].id \in 1 .. t.window_count
                                      /\ \A j \in InUse(t) :
                                           t.windows[i].id = t.windows[j].id => i = j

LEMMA IdsAreDistinct ==
  ASSUME NEW t \in Table, Ids(t) = 1 .. t.window_count
  PROVE  DistinctIds(t)
<1> DEFINE f == [i \in InUse(t) |-> t.windows[i].id]
           n == t.window_count
<1>1. n \in Nat /\ InUse(t) = 0 .. n - 1  BY SlotsInUse DEF InUse
<1>2. f \in Surjection(InUse(t), 1 .. n)
  <2>1. f \in [InUse(t) -> 1 .. n]  BY DEF Ids
  <2>2. \A v \in 1 .. n : \E i \in InUse(t) : f[i] = v  BY DEF Ids
  <2> HIDE DEF f
  <2>3. QED BY <2>1, <2>2 DEF Surjection
<1>3. IsFiniteSet(InUse(t)) /\ Cardinality(InUse(t)) = Cardinality(1 .. n)
  <2> HIDE DEF n
  <2>1. IsFiniteSet(0 .. n - 1)
          /\ Cardinality(0 .. n - 1) = IF 0 > n - 1 THEN 0 ELSE n - 1 - 0 + 1
    BY <1>1, FS_Interval
  <2>2. Cardinality(1 .. n) = IF 1 > n THEN 0 ELSE n - 1 + 1
    BY <1>1, FS_Interval
  <2>3. QED BY <1>1, <2>1, <2>2
<1>4. f \in Injection(InUse(t), 1 .. n)
  BY <1>2, <1>3, FS_SurjSameCardinalityImpliesInj
<1>5. \A i, j \in InUse(t) : f[i] = f[j] => i = j
  BY <1>4 DEF Injection, IsInjective
<1>6. \A i \in InUse(t) : t.windows[i].id \in 1 .. n  BY DEF Ids
<1>7. QED BY <1>5, <1>6 DEF DistinctIds

(* Focusing raises one window of the stack and keeps the sets of windows.  *)
LEMMA FocusRaises ==
  ASSUME NEW t \in Table, t.focused_window \in InUse(t) \cup {NULL},
         NEW win \in InUse(t), NEW u, u = gui_focus_window(t, win)
  PROVE  /\ Order(u) = [i \in 1 .. t.window_count |->
                          IF i < win + 1 THEN Order(t)[i]
                          ELSE IF i < t.window_count THEN Order(t)[i + 1]
                          ELSE t.windows[win].id]
         /\ Order(t)[win + 1] = t.windows[win].id /\ win + 1 \in 1 .. t.window_count
         /\ Active(u) = t.windows[win].id
         /\ \A f \in {"VISIBLE", "MINIMIZED"} : With(u, f) = With(t, f)
<1> DEFINE n == t.window_count
<1>1. /\ u \in Table /\ u.window_count = n /\ InUse(u) = InUse(t)
      /\ u.focused_window = n - 1
      /\ \A i \in InUse(t) :
           /\ u.windows[i].id = t.windows[From(t, win, i)].id
           /\ \A f \in {"VISIBLE", "MINIMIZED"} :
                f \in u.windows[i].flags <=> f \in t.windows[From(t, win, i)].flags
  BY FocusEffect DEF SameWindow
<1>2. /\ n - 1 \in InUse(t)
      /\ \A i \in InUse(t) : From(t, win, i) \in InUse(t)
      /\ \A j \in InUse(t) : \E i \in InUse(t) : From(t, win, i) = j
  BY FromPermutes
<1>3. n \in Nat /\ InUse(t) = 0 .. n - 1 /\ win \in 0 .. n - 1
  BY SlotsInUse DEF InUse
<1>4. Active(u) = t.windows[win].id
  <2>1. From(t, win, n - 1) = win  BY DEF From
  <2>2. n - 1 # NULL  BY <1>2, <1>3 DEF NULL
  <2>3. QED BY <1>1, <1>2, <2>1, <2>2 DEF Active
<1>5. Order(u) = [i \in 1 .. n |-> IF i < win + 1 THEN Order(t)[i]
                                   ELSE IF i < n THEN Order(t)[i + 1]
                                   ELSE t.windows[win].id]
  <2>1. \A i \in 1 .. n :
          u.windows[i - 1].id = IF i < win + 1 THEN Order(t)[i]
                                ELSE IF i < n THEN Order(t)[i + 1]
                                ELSE t.windows[win].id
    <3>1. TAKE i \in 1 .. n
    <3>2. i - 1 \in InUse(t)  BY <1>3
    <3>3. u.windows[i - 1].id = t.windows[From(t, win, i - 1)].id
      BY <1>1, <3>2
    <3>4. CASE i < win + 1
      <4>1. From(t, win, i - 1) = i - 1  BY <1>3, <3>4 DEF From
      <4>2. QED BY <3>3, <3>4, <4>1 DEF Order
    <3>5. CASE ~(i < win + 1) /\ i < n
      <4>1. From(t, win, i - 1) = i  BY <1>3, <3>5 DEF From
      <4>2. i + 1 \in 1 .. n /\ (i + 1) - 1 = i  BY <1>3, <3>5
      <4>3. Order(t)[i + 1] = t.windows[i].id  BY <4>2 DEF Order
      <4>4. QED BY <3>3, <3>5, <4>1, <4>3
    <3>6. CASE ~(i < win + 1) /\ ~(i < n)
      <4>1. From(t, win, i - 1) = win  BY <1>3, <3>6 DEF From
      <4>2. QED BY <3>3, <3>6, <4>1
    <3>7. QED BY <3>4, <3>5, <3>6
  <2>2. Order(u) = [i \in 1 .. n |-> u.windows[i - 1].id]
    BY <1>1 DEF Order
  <2>3. QED BY <2>1, <2>2
<1>6. ASSUME NEW f \in {"VISIBLE", "MINIMIZED"} PROVE With(u, f) = With(t, f)
  <2>1. ASSUME NEW v \in With(u, f) PROVE v \in With(t, f)
    <3>1. PICK i \in InUse(t) : v = u.windows[i].id /\ f \in u.windows[i].flags
      BY <1>1, <2>1 DEF With
    <3>2. /\ From(t, win, i) \in InUse(t)
          /\ v = t.windows[From(t, win, i)].id
          /\ f \in t.windows[From(t, win, i)].flags
      BY <1>1, <1>2, <3>1
    <3>3. QED BY <3>2 DEF With
  <2>2. ASSUME NEW v \in With(t, f) PROVE v \in With(u, f)
    <3>1. PICK j \in InUse(t) : v = t.windows[j].id /\ f \in t.windows[j].flags
      BY <2>2 DEF With
    <3>2. PICK i \in InUse(t) : From(t, win, i) = j  BY <1>2
    <3>3. v = u.windows[i].id /\ f \in u.windows[i].flags
      BY <1>1, <3>1, <3>2
    <3>4. QED BY <1>1, <3>3 DEF With
  <2>3. QED BY <2>1, <2>2
<1>7. win + 1 \in 1 .. n /\ Order(t)[win + 1] = t.windows[win].id
  BY <1>3 DEF Order
<1>8. QED BY <1>4, <1>5, <1>6, <1>7

(* A change in the flags of one slot changes the membership of its window. *)
LEMMA FlagMembership ==
  ASSUME NEW t \in Table, DistinctIds(t), NEW win \in InUse(t), NEW u, NEW f,
         u.window_count = t.window_count,
         \A i \in InUse(t) : /\ u.windows[i].id = t.windows[i].id
                             /\ i # win => (f \in u.windows[i].flags
                                              <=> f \in t.windows[i].flags)
  PROVE  /\ Order(u) = Order(t)
         /\ f \in u.windows[win].flags => With(u, f) = With(t, f) \cup {t.windows[win].id}
         /\ f \notin u.windows[win].flags => With(u, f) = With(t, f) \ {t.windows[win].id}
<1>1. InUse(u) = InUse(t)  BY DEF InUse
<1>2. Order(u) = Order(t)
  <2>1. \A i \in 1 .. t.window_count : i - 1 \in InUse(t)
    BY SlotsInUse DEF InUse
  <2>2. QED BY <2>1 DEF Order
<1>3. QED BY <1>1, <1>2 DEF With, DistinctIds

(* The actions of WindowStack, read on the slot table *)
LEMMA StackInitView ==
  Stack!Init <=> /\ Order(table) = <<>> /\ Active(table) = 0
                 /\ With(table, "VISIBLE") = {} /\ With(table, "MINIMIZED") = {}
BY DEF Stack!Init, Stack!NoWindow, Order, Active, With, IdsWith

LEMMA StackOpenView ==
  Stack!Open <=>
    /\ Len(Order(table)) < MAX_WINDOWS
    /\ Order(table') = Append(Order(table), Len(Order(table)) + 1)
    /\ Active(table') = Len(Order(table)) + 1
    /\ With(table', "VISIBLE") = With(table, "VISIBLE") \cup {Len(Order(table)) + 1}
    /\ With(table', "MINIMIZED") = With(table, "MINIMIZED")
BY DEF Stack!Open, Stack!NewId, Order, Active, With, IdsWith

OnTop(o, w, k) == [i \in 1 .. Len(o) |-> IF i < k THEN o[i]
                                        ELSE IF i < Len(o) THEN o[i + 1]
                                        ELSE w]

LEMMA StackRaiseView ==
  ASSUME NEW w
  PROVE  LET up == /\ \E k \in 1 .. Len(Order(table)) :
                        /\ Order(table)[k] = w
                        /\ Order(table') = OnTop(Order(table), w, k)
                   /\ Active(table') = w
                   /\ With(table', "VISIBLE") = With(table, "VISIBLE")
         IN  /\ Stack!Raise(w) <=>
                  up /\ With(table', "MINIMIZED") = With(table, "MINIMIZED")
             /\ Stack!RestoreAndRaise(w) <=>
                  up /\ With(table', "MINIMIZED") = With(table, "MINIMIZED") \ {w}
BY DEF Stack!Raise, Stack!RestoreAndRaise, Stack!ToTop, OnTop, Order, Active, With, IdsWith

LEMMA StackFlagView ==
  ASSUME NEW w
  PROVE  LET less == IF Active(table) = w THEN 0 ELSE Active(table) IN
         /\ Stack!Close(w) <=>
              /\ Order(table') = Order(table) /\ Active(table') = less
              /\ With(table', "VISIBLE") = With(table, "VISIBLE") \ {w}
              /\ With(table', "MINIMIZED") = With(table, "MINIMIZED")
         /\ Stack!Destroy(w) <=>
              /\ Order(table') = Order(table) /\ Active(table') = less
              /\ With(table', "VISIBLE") = With(table, "VISIBLE") \ {w}
              /\ With(table', "MINIMIZED") = With(table, "MINIMIZED") \ {w}
         /\ Stack!Minimize(w) <=>
              /\ Order(table') = Order(table) /\ Active(table') = Active(table)
              /\ With(table', "VISIBLE") = With(table, "VISIBLE")
              /\ With(table', "MINIMIZED") = With(table, "MINIMIZED") \cup {w}
         /\ Stack!Show(w) <=>
              /\ Order(table') = Order(table) /\ Active(table') = Active(table)
              /\ With(table', "VISIBLE") = With(table, "VISIBLE") \cup {w}
              /\ With(table', "MINIMIZED") = With(table, "MINIMIZED")
         /\ Stack!Hide(w) <=>
              /\ Order(table') = Order(table) /\ Active(table') = Active(table)
              /\ With(table', "VISIBLE") = With(table, "VISIBLE") \ {w}
              /\ With(table', "MINIMIZED") = With(table, "MINIMIZED")
<1>1. QED BY Zenon DEF Stack!Close, Stack!Destroy, Stack!Minimize, Stack!Show, Stack!Hide,
            Stack!NoWindow, Order, Active, With, IdsWith

LEMMA StackStutterView ==
  UNCHANGED Stack!vars <=>
    /\ Order(table') = Order(table) /\ Active(table') = Active(table)
    /\ With(table', "VISIBLE") = With(table, "VISIBLE")
    /\ With(table', "MINIMIZED") = With(table, "MINIMIZED")
BY DEF Stack!vars, Order, Active, With, IdsWith

LEMMA StackCreated == Stack!Created = {Order(table)[i] : i \in 1 .. Len(Order(table))}
BY DEF Stack!Created, Order

LEMMA OrderIsSeq ==
  ASSUME NEW t \in Table
  PROVE  Len(Order(t)) = t.window_count /\ t.window_count \in Nat
<1>1. t.window_count \in Nat  BY SlotsInUse
<1>2. QED BY <1>1 DEF Order

(* What the invariant says of the stack *)
LEMMA InvView ==
  ASSUME TableInv
  PROVE  /\ table \in Table /\ DistinctIds(table)
         /\ table.window_count \in Nat
         /\ table.focused_window \in InUse(table) \cup {NULL}
         /\ InUse(table) \subseteq Slots
         /\ Len(Order(table)) = table.window_count
         /\ \A i \in InUse(table) : /\ table.windows[i].id \in Stack!Created
                                    /\ Active(table) = table.windows[i].id
                                         <=> table.focused_window = i
<1>1. /\ table \in Table /\ table.window_count \in Nat
      /\ table.focused_window \in InUse(table) \cup {NULL}
  BY FocusInUse DEF TableInv
<1>2. DistinctIds(table)  BY <1>1, IdsAreDistinct DEF TableInv
<1>3. Len(Order(table)) = table.window_count  BY <1>1, OrderIsSeq
<1>4. ASSUME NEW i \in InUse(table)
      PROVE  /\ table.windows[i].id \in Stack!Created
             /\ Active(table) = table.windows[i].id <=> table.focused_window = i
  <2>1. i + 1 \in 1 .. Len(Order(table)) /\ Order(table)[i + 1] = table.windows[i].id
    <3>1. i + 1 \in 1 .. table.window_count /\ (i + 1) - 1 = i
      BY <1>1 DEF InUse
    <3>2. QED BY <1>3, <3>1 DEF Order
  <2>2. table.windows[i].id # 0 /\ i # NULL
    BY <1>1, <1>2 DEF DistinctIds, InUse, NULL
  <2>3. QED BY <1>1, <1>2, <2>1, <2>2, StackCreated DEF Active, DistinctIds
<1>5. QED BY <1>1, <1>2, <1>3, <1>4, SlotsInUse

LEMMA CreateOpens ==
  ASSUME TableInv, Create
  PROVE  Stack!Open
<1> DEFINE n == table.window_count
<1>1. /\ table \in Table /\ n \in Nat /\ Len(Order(table)) = n
      /\ table.focused_window \in InUse(table) \cup {NULL}
      /\ InUse(table) = 0 .. n - 1
  BY InvView DEF InUse
<1>2. PICK s \in Shapes : CanCreate(table) /\ table' = gui_create_window(table, s)
  BY DEF Create
<1>3. PICK t \in Table :
           /\ t.window_count = n + 1 /\ t.focused_window = table.focused_window
           /\ InUse(t) = InUse(table) \cup {n} /\ n \notin InUse(table)
           /\ \A i \in InUse(table) : t.windows[i] = table.windows[i]
           /\ t.windows[n].id = n + 1 /\ t.windows[n].flags = {"VISIBLE"}
           /\ gui_create_window(table, s) = gui_focus_window(t, n)
  BY <1>2, CreateEffect
<1>4. /\ Order(table') = [i \in 1 .. n + 1 |-> IF i < n + 1 THEN Order(t)[i]
                                               ELSE IF i < n + 1 THEN Order(t)[i + 1]
                                               ELSE n + 1]
      /\ Active(table') = n + 1
      /\ With(table', "VISIBLE") = With(t, "VISIBLE")
      /\ With(table', "MINIMIZED") = With(t, "MINIMIZED")
  <2>1. n \in InUse(t) /\ t.focused_window \in InUse(t) \cup {NULL}
    BY <1>1, <1>3
  <2>2. /\ Order(table') = [i \in 1 .. t.window_count |->
                              IF i < n + 1 THEN Order(t)[i]
                              ELSE IF i < t.window_count THEN Order(t)[i + 1]
                              ELSE t.windows[n].id]
        /\ Active(table') = t.windows[n].id
        /\ \A f \in {"VISIBLE", "MINIMIZED"} : With(table', f) = With(t, f)
    BY <1>2, <1>3, <2>1, FocusRaises
  <2>3. QED BY <1>3, <2>2
<1>5. With(t, "VISIBLE") = With(table, "VISIBLE") \cup {n + 1}
        /\ With(t, "MINIMIZED") = With(table, "MINIMIZED")
  BY <1>3 DEF With
<1>6. Order(table') = Append(Order(table), n + 1)
  <2>1. \A i \in 1 .. n : Order(t)[i] = Order(table)[i]
    <3>1. \A i \in 1 .. n : i - 1 \in InUse(table) /\ i \in 1 .. n + 1  BY <1>1
    <3>2. QED BY <1>1, <1>3, <3>1 DEF Order
  <2>2. Order(table) = [i \in 1 .. n |-> Order(table)[i]]  BY DEF Order
  <2>3. Order(table') = [i \in 1 .. n + 1 |-> IF i < n + 1 THEN Order(table)[i] ELSE n + 1]
    BY <1>1, <1>4, <2>1
  <2>4. QED BY <1>1, <2>2, <2>3
<1>7. n < MAX_WINDOWS  BY <1>2 DEF CanCreate
<1>8. QED BY <1>1, <1>4, <1>5, <1>6, <1>7, StackOpenView

LEMMA FocusIsRaise ==
  ASSUME TableInv, Focus
  PROVE  \E w \in Stack!Created : Stack!Raise(w)
<1>1. PICK win \in InUse(table) : table' = gui_focus_window(table, win)
  BY DEF Focus
<1>0. PICK w : w = table.windows[win].id  OBVIOUS
<1>2. /\ table \in Table /\ table.focused_window \in InUse(table) \cup {NULL}
      /\ Len(Order(table)) = table.window_count /\ w \in Stack!Created
  BY <1>0, InvView
<1>3. /\ Order(table') = [i \in 1 .. table.window_count |->
                            IF i < win + 1 THEN Order(table)[i]
                            ELSE IF i < table.window_count THEN Order(table)[i + 1]
                            ELSE w]
      /\ Order(table)[win + 1] = w /\ win + 1 \in 1 .. table.window_count
      /\ Active(table') = w
      /\ With(table', "VISIBLE") = With(table, "VISIBLE")
      /\ With(table', "MINIMIZED") = With(table, "MINIMIZED")
  BY <1>0, <1>1, <1>2, FocusRaises
<1>4. Order(table') = OnTop(Order(table), w, win + 1)
  BY <1>2, <1>3 DEF OnTop
<1>5. Stack!Raise(w)  BY <1>2, <1>3, <1>4, StackRaiseView
<1>6. QED BY <1>2, <1>5

(* Clearing or setting VISIBLE or MINIMIZED, as the stack sees it          *)
LEMMA FlagView ==
  ASSUME TableInv, NEW win \in InUse(table), NEW w, w = table.windows[win].id,
         NEW f \in {"VISIBLE", "MINIMIZED"}, NEW u,
         u = ClearFlag(table, win, f) \/ u = SetFlag(table, win, f)
  PROVE  /\ u \in Table /\ u.focused_window = table.focused_window
         /\ u.window_count = table.window_count
         /\ u.windows[win].id = w
         /\ Order(u) = Order(table) /\ Active(u) = Active(table)
         /\ \A g \in {"VISIBLE", "MINIMIZED"} \ {f} : With(u, g) = With(table, g)
         /\ u = ClearFlag(table, win, f) => With(u, f) = With(table, f) \ {w}
         /\ u = SetFlag(table, win, f) => With(u, f) = With(table, f) \cup {w}
<1>1. /\ table \in Table /\ DistinctIds(table) /\ f \in Flags /\ win \in Slots
      /\ InUse(table) \subseteq Slots
      /\ table.focused_window \in InUse(table) \cup {NULL}
  BY InvView DEF Flags
<1>2. /\ u \in Table /\ u.window_count = table.window_count
      /\ u.focused_window = table.focused_window
      /\ \A i \in Slots : u.windows[i].id = table.windows[i].id
      /\ \A i \in Slots : i # win => u.windows[i] = table.windows[i]
  BY <1>1, FlagEffect
<1>3. /\ u = ClearFlag(table, win, f) => u.windows[win].flags = table.windows[win].flags \ {f}
      /\ u = SetFlag(table, win, f) => u.windows[win].flags = table.windows[win].flags \cup {f}
  BY <1>1, FlagEffect
<1>4. /\ Order(u) = Order(table)
      /\ f \in u.windows[win].flags => With(u, f) = With(table, f) \cup {w}
      /\ f \notin u.windows[win].flags => With(u, f) = With(table, f) \ {w}
  BY <1>1, <1>2, FlagMembership
<1>5. ASSUME NEW g \in {"VISIBLE", "MINIMIZED"} \ {f}
      PROVE  With(u, g) = With(table, g)
  <2>1. \A i \in InUse(table) : g \in u.windows[i].flags <=> g \in table.windows[i].flags
    BY <1>1, <1>2, <1>3
  <2>2. InUse(u) = InUse(table)  BY <1>2 DEF InUse
  <2>3. QED BY <1>1, <1>2, <2>1, <2>2 DEF With
<1>6. Active(u) = Active(table)  BY <1>1, <1>2 DEF Active
<1>7. QED BY <1>1, <1>2, <1>3, <1>4, <1>5, <1>6

LEMMA RestoreIsRaise ==
  ASSUME TableInv, Restore
  PROVE  \E w \in Stack!Created : Stack!RestoreAndRaise(w)
<1>1. PICK win \in InUse(table) : table' = TaskbarButton(table, win)
  BY DEF Restore
<1>2. PICK w : w = table.windows[win].id  OBVIOUS
<1>3. PICK t : t = ClearFlag(table, win, "MINIMIZED")  OBVIOUS
<1>4. /\ t \in Table /\ t.focused_window = table.focused_window
      /\ t.window_count = table.window_count
      /\ t.windows[win].id = w /\ Order(t) = Order(table)
      /\ With(t, "VISIBLE") = With(table, "VISIBLE")
      /\ With(t, "MINIMIZED") = With(table, "MINIMIZED") \ {w}
  BY <1>2, <1>3, FlagView
<1>5. /\ table.focused_window \in InUse(table) \cup {NULL}
      /\ Len(Order(table)) = table.window_count /\ w \in Stack!Created
  BY <1>2, InvView
<1>6. InUse(t) = InUse(table)  BY <1>4 DEF InUse
<1>7. table' = gui_focus_window(t, win)  BY <1>1, <1>3 DEF TaskbarButton
<1>8. /\ Order(table') = [i \in 1 .. t.window_count |->
                            IF i < win + 1 THEN Order(t)[i]
                            ELSE IF i < t.window_count THEN Order(t)[i + 1]
                            ELSE t.windows[win].id]
      /\ Order(t)[win + 1] = t.windows[win].id /\ win + 1 \in 1 .. t.window_count
      /\ Active(table') = t.windows[win].id
      /\ With(table', "VISIBLE") = With(t, "VISIBLE")
      /\ With(table', "MINIMIZED") = With(t, "MINIMIZED")
  BY <1>4, <1>5, <1>6, <1>7, FocusRaises
<1>9. Order(table') = OnTop(Order(table), w, win + 1)
  BY <1>4, <1>5, <1>8 DEF OnTop
<1>10. Stack!RestoreAndRaise(w)  BY <1>4, <1>5, <1>8, <1>9, StackRaiseView
<1>11. QED BY <1>5, <1>10

(* Hiding a window and taking the pointer from it, as the stack sees it    *)
LEMMA LoseFocusView ==
  ASSUME TableInv, NEW win \in InUse(table), NEW w, w = table.windows[win].id,
         NEW t \in Table, t.focused_window = table.focused_window,
         t.window_count = table.window_count,
         Active(t) = Active(table), NEW u, u = LoseFocus(t, win)
  PROVE  /\ Order(u) = Order(t)
         /\ Active(u) = IF Active(table) = w THEN 0 ELSE Active(table)
         /\ \A f \in {"VISIBLE", "MINIMIZED"} : With(u, f) = With(t, f)
<1>1. Active(table) = w <=> table.focused_window = win  BY InvView
<1>2. CASE t.focused_window = win
  <2>1. u = [t EXCEPT !.focused_window = NULL]  BY <1>2 DEF LoseFocus
  <2>2. /\ u.focused_window = NULL /\ u.windows = t.windows
        /\ u.window_count = t.window_count
    BY <2>1 DEF Table
  <2>3. QED BY <1>1, <1>2, <2>2 DEF Order, With, InUse, Active
<1>3. CASE t.focused_window # win
  <2>1. u = t  BY <1>3 DEF LoseFocus
  <2>2. QED BY <1>1, <1>3, <2>1
<1>4. QED BY <1>2, <1>3

LEMMA FlagStepsMap ==
  ASSUME TableInv, Show \/ Hide \/ Close \/ Minimize
  PROVE  \E w \in Stack!Created : Stack!Show(w) \/ Stack!Hide(w) \/ Stack!Close(w)
                                    \/ Stack!Minimize(w)
<1>1. PICK win \in InUse(table) :
            \/ table' = gui_show_window(table, win)
            \/ table' = gui_hide_window(table, win)
            \/ table' = CloseButton(table, win)
            \/ table' = MinimizeButton(table, win)
  BY DEF Show, Hide, Close, Minimize
<1>2. PICK w : w = table.windows[win].id  OBVIOUS
<1>3. w \in Stack!Created  BY <1>2, InvView
<1>4. CASE table' = gui_show_window(table, win)
  <2>1. table' = SetFlag(table, win, "VISIBLE")  BY <1>4 DEF gui_show_window
  <2>2. Stack!Show(w)  BY <1>2, <2>1, FlagView, StackFlagView
  <2>3. QED BY <1>3, <2>2
<1>5. CASE table' = gui_hide_window(table, win)
  <2>1. table' = ClearFlag(table, win, "VISIBLE")  BY <1>5 DEF gui_hide_window
  <2>2. Stack!Hide(w)  BY <1>2, <2>1, FlagView, StackFlagView
  <2>3. QED BY <1>3, <2>2
<1>6. CASE table' = MinimizeButton(table, win)
  <2>1. table' = SetFlag(table, win, "MINIMIZED")  BY <1>6 DEF MinimizeButton
  <2>2. Stack!Minimize(w)  BY <1>2, <2>1, FlagView, StackFlagView
  <2>3. QED BY <1>3, <2>2
<1>7. CASE table' = CloseButton(table, win)
  <2>1. PICK t : t = ClearFlag(table, win, "VISIBLE")  OBVIOUS
  <2>2. /\ t \in Table /\ t.focused_window = table.focused_window
        /\ t.window_count = table.window_count
        /\ Order(t) = Order(table) /\ Active(t) = Active(table)
        /\ With(t, "VISIBLE") = With(table, "VISIBLE") \ {w}
        /\ With(t, "MINIMIZED") = With(table, "MINIMIZED")
    BY <1>2, <2>1, FlagView
  <2>3. table' = LoseFocus(t, win)  BY <1>7, <2>1 DEF CloseButton
  <2>4. /\ Order(table') = Order(t)
        /\ Active(table') = IF Active(table) = w THEN 0 ELSE Active(table)
        /\ \A f \in {"VISIBLE", "MINIMIZED"} : With(table', f) = With(t, f)
    BY <1>2, <2>2, <2>3, LoseFocusView
  <2>5. Stack!Close(w)  BY <2>2, <2>4, StackFlagView
  <2>6. QED BY <1>3, <2>5
<1>8. QED BY <1>1, <1>4, <1>5, <1>6, <1>7

LEMMA DestroyMaps ==
  ASSUME TableInv, Destroy
  PROVE  \E w \in Stack!Created : Stack!Destroy(w)
<1>1. PICK win \in InUse(table) : table' = gui_destroy_window(table, win)
  BY DEF Destroy
<1>2. PICK w : w = table.windows[win].id  OBVIOUS
<1>3. PICK t : t = [table EXCEPT !.windows[win].flags = {}]  OBVIOUS
<1>4. /\ table \in Table /\ DistinctIds(table) /\ win \in Slots
      /\ InUse(table) \subseteq Slots
      /\ table.focused_window \in InUse(table) \cup {NULL}
      /\ w \in Stack!Created
  BY <1>2, InvView
<1>5. /\ t \in Table /\ t.window_count = table.window_count
      /\ t.focused_window = table.focused_window
      /\ \A i \in Slots : t.windows[i].id = table.windows[i].id
      /\ \A i \in Slots : i # win => t.windows[i] = table.windows[i]
      /\ t.windows[win].flags = {}
  BY <1>3, <1>4 DEF Table, Window
<1>6. Order(t) = Order(table) /\ \A f \in {"VISIBLE", "MINIMIZED"} :
                                   With(t, f) = With(table, f) \ {w}
  BY <1>2, <1>4, <1>5, FlagMembership
<1>7. Active(t) = Active(table)  BY <1>4, <1>5 DEF Active
<1>8. table' = LoseFocus(t, win)  BY <1>1, <1>3 DEF gui_destroy_window
<1>9. /\ Order(table') = Order(t)
      /\ Active(table') = IF Active(table) = w THEN 0 ELSE Active(table)
      /\ \A f \in {"VISIBLE", "MINIMIZED"} : With(table', f) = With(t, f)
  BY <1>2, <1>5, <1>7, <1>8, LoseFocusView
<1>10. Stack!Destroy(w)  BY <1>6, <1>9, StackFlagView
<1>11. QED BY <1>4, <1>10

(* A drag is invisible to the stack. *)
LEMMA DragStutters ==
  ASSUME TableInv, Drag
  PROVE  UNCHANGED Stack!vars
<1>1. PICK win \in InUse(table), p \in DragPositions :
        table' = DragTo(table, win, p[1], p[2])
  BY DEF Drag
<1>2. /\ table \in Table /\ win \in Slots /\ InUse(table) \subseteq Slots
      /\ table.window_count \in Nat
      /\ table.focused_window \in InUse(table) \cup {NULL}
  BY InvView
<1>3. /\ table'.window_count = table.window_count
      /\ table'.focused_window = table.focused_window
      /\ \A i \in Slots : /\ table'.windows[i].id = table.windows[i].id
                          /\ table'.windows[i].flags = table.windows[i].flags
  BY <1>1, DragAssumption, DragEffect
<1>4. Order(table') = Order(table)
  <2>1. \A i \in 1 .. table.window_count : i - 1 \in Slots  BY <1>2 DEF InUse
  <2>2. QED BY <1>3, <2>1 DEF Order
<1>5. Active(table') = Active(table)  BY <1>2, <1>3 DEF Active
<1>6. \A f \in {"VISIBLE", "MINIMIZED"} : With(table', f) = With(table, f)
  BY <1>2, <1>3 DEF With, InUse
<1>7. QED BY <1>4, <1>5, <1>6, StackStutterView

(* The slot table implements the stack of windows: every operation, with   *)
(* any slot in use, is the step of the stack it is meant to be.            *)
THEOREM WindowsImplementStack == Spec => ImplementsStack
<1>1. Init => Stack!Init
  <2> SUFFICES ASSUME Init PROVE Stack!Init
    OBVIOUS
  <2>1. table.window_count = 0 /\ table.focused_window = NULL
    BY DEF Init, EmptyTable
  <2>2. InUse(table) = {} /\ 1 .. table.window_count = {}  BY <2>1 DEF InUse
  <2>3. Order(table) = <<>>  BY <2>2 DEF Order
  <2>4. Active(table) = 0 /\ \A f : With(table, f) = {}
    BY <2>1, <2>2 DEF Active, With
  <2>5. QED BY <2>3, <2>4, StackInitView
<1>2. TableInv /\ [Next]_table => [Stack!Next]_(Stack!vars)
  <2> SUFFICES ASSUME TableInv, [Next]_table
               PROVE  Stack!Next \/ UNCHANGED Stack!vars
    OBVIOUS
  <2>1. CASE Create  BY <2>1, CreateOpens DEF Stack!Next
  <2>2. CASE Focus  BY <2>2, FocusIsRaise DEF Stack!Next
  <2>3. CASE Restore  BY <2>3, RestoreIsRaise DEF Stack!Next
  <2>4. CASE Show \/ Hide \/ Close \/ Minimize
    BY <2>4, FlagStepsMap DEF Stack!Next
  <2>5. CASE Destroy  BY <2>5, DestroyMaps DEF Stack!Next
  <2>6. CASE Drag  BY <2>6, DragStutters
  <2>7. CASE UNCHANGED table
    BY <2>7, StackStutterView
  <2>8. QED BY <2>1, <2>2, <2>3, <2>4, <2>5, <2>6, <2>7 DEF Next
<1>3. QED BY <1>1, <1>2, TableInvariant, PTL DEF Spec, ImplementsStack, Stack!Spec
=============================================================================
