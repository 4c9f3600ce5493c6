---------------------------- MODULE DesktopProofs ----------------------------
(***************************************************************************)
(* Proofs about the running system, for every number of windows, screen,   *)
(* file system, text buffer and set of keys and pointer positions.  They   *)
(* rest on what WindowsProofs, NotepadProofs and FileSystemProofs show of  *)
(* the single operations.                                                  *)
(***************************************************************************)
EXTENDS Display, FiniteSetTheorems, SequenceTheorems, TLAPS

WP == INSTANCE WindowsProofs WITH Shapes <- {Shape(a) : a \in Apps},
                                  DragPositions <- {}
(* Of the notepad only the text matters here, not its page. *)
NP == INSTANCE NotepadProofs WITH Word <- 61, width <- 38, height <- 60, Corners <- {}
FP == INSTANCE FileSystemProofs WITH Names <- Seq(Nat), Contents <- Seq(Nat)

-----------------------------------------------------------------------------
(* The parts' assumptions hold of the constants they are given here.       *)

LEMMA WindowsFit ==
  /\ MAX_WINDOWS \in Nat /\ screen_w \in Nat /\ screen_h \in Nat
  /\ \A s \in {Shape(a) : a \in Apps} :
       /\ s.x \in Int /\ s.y \in Int /\ s.w \in Nat /\ s.h \in Nat
       /\ s.w <= screen_w
       /\ WP!TITLE_BAR_HEIGHT <= s.h
       /\ s.h <= screen_h - WP!TASKBAR_HEIGHT
  /\ {} \subseteq Int \X Int
BY ScreenAssumption DEF WP!TITLE_BAR_HEIGHT, WP!TASKBAR_HEIGHT, Apps, Shape

LEMMA FilesLimits ==
  /\ MAX_FILES \in Nat
  /\ MAX_FILENAME_LEN \in Nat \ {0}
  /\ MAX_FILE_SIZE \in Nat
BY FilesAssumption

LEMMA TextFits ==
  /\ BUFFER_SIZE \in Nat /\ INITIAL_LEN \in 0 .. BUFFER_SIZE - 1
  /\ WELCOME_LEN \in 0 .. BUFFER_SIZE - 1
  /\ 61 \in Nat /\ 38 \in 38 .. 61 - 1 /\ 60 \in 60 .. 61 - 1
  /\ (60 - 61) % NP!line_height # 0
  /\ {} \subseteq (-(61 \div 2) .. 61 \div 2 - 38 - 1) \X (0 .. 61 - 60 - 1)
BY TextAssumption DEF NP!line_height

-----------------------------------------------------------------------------
(* The same operations in Windows and in WindowsProofs *)

LEMMA SameWindows ==
  /\ W!EmptyTable = WP!EmptyTable
  /\ W!TypeOK <=> WP!TypeOK
  /\ W!NULL = WP!NULL /\ NULL = WP!NULL
  /\ \A t : /\ W!InUse(t) = WP!InUse(t)
            /\ W!CanCreate(t) <=> WP!CanCreate(t)
            /\ W!NewSlot(t) = t.window_count
  /\ \A t, win : /\ W!gui_focus_window(t, win) = WP!gui_focus_window(t, win)
                 /\ W!TaskbarButton(t, win)
                      = WP!gui_focus_window(WP!ClearFlag(t, win, "MINIMIZED"), win)
                 /\ W!CloseButton(t, win)
                      = WP!LoseFocus(WP!ClearFlag(t, win, "VISIBLE"), win)
                 /\ W!MinimizeButton(t, win) = WP!SetFlag(t, win, "MINIMIZED")
                 /\ W!Visible(t, win) <=> "VISIBLE" \in t.windows[win].flags
                 /\ W!OnScreen(t, win) => W!Visible(t, win)
  /\ \A t, win, x, y : W!DragTo(t, win, x, y) = WP!DragTo(t, win, x, y)
  /\ \A t, s : W!gui_create_window(t, s) = WP!gui_create_window(t, s)
<1>1. /\ W!NULL = WP!NULL /\ NULL = WP!NULL
      /\ \A t : /\ W!InUse(t) = WP!InUse(t)
                /\ W!CanCreate(t) <=> WP!CanCreate(t)
                /\ W!NewSlot(t) = t.window_count
  BY DEF W!NULL, WP!NULL, NULL, W!InUse, WP!InUse, W!CanCreate, WP!CanCreate, W!NewSlot
<1>2. /\ W!EmptyTable = WP!EmptyTable
      /\ W!TypeOK <=> WP!TypeOK
  BY DEF W!EmptyTable, WP!EmptyTable, W!TypeOK, WP!TypeOK, W!Slots, WP!Slots,
         W!NULL, WP!NULL, W!InUse, WP!InUse, W!Window, WP!Window, W!Apps, WP!Apps,
         W!Flags, WP!Flags
<1>3. \A t, win : W!gui_focus_window(t, win) = WP!gui_focus_window(t, win)
  BY DEF W!gui_focus_window, WP!gui_focus_window, W!ClearFlag, WP!ClearFlag,
         W!SetFlag, WP!SetFlag, W!MoveToTop, WP!MoveToTop, W!NULL, WP!NULL,
         W!Slots, WP!Slots
<1>4. \A t, win : /\ W!CloseButton(t, win)
                       = WP!LoseFocus(WP!ClearFlag(t, win, "VISIBLE"), win)
                  /\ W!MinimizeButton(t, win) = WP!SetFlag(t, win, "MINIMIZED")
                  /\ W!Visible(t, win) <=> "VISIBLE" \in t.windows[win].flags
                  /\ W!OnScreen(t, win) => W!Visible(t, win)
  BY DEF W!CloseButton, W!MinimizeButton, W!Visible, W!OnScreen, WP!LoseFocus,
         W!LoseFocus, W!ClearFlag, WP!ClearFlag, W!SetFlag, WP!SetFlag,
         W!NULL, WP!NULL
<1>5. \A t, win : W!TaskbarButton(t, win)
                    = WP!gui_focus_window(WP!ClearFlag(t, win, "MINIMIZED"), win)
  BY <1>3 DEF W!TaskbarButton, W!ClearFlag, WP!ClearFlag
<1>6. \A t, win, x, y : W!DragTo(t, win, x, y) = WP!DragTo(t, win, x, y)
  BY DEF W!DragTo, WP!DragTo, W!Limit, WP!Limit, W!AtLeast0, WP!AtLeast0,
         W!LowestTitleBar, WP!LowestTitleBar, W!TASKBAR_HEIGHT, WP!TASKBAR_HEIGHT,
         W!TITLE_BAR_HEIGHT, WP!TITLE_BAR_HEIGHT
<1>7. \A t, s : W!gui_create_window(t, s) = WP!gui_create_window(t, s)
  BY <1>3 DEF W!gui_create_window, WP!gui_create_window, W!NewSlot, WP!NewSlot,
         W!Limit, WP!Limit, W!AtLeast0, WP!AtLeast0, W!TASKBAR_HEIGHT, WP!TASKBAR_HEIGHT
<1>8. QED BY <1>1, <1>2, <1>3, <1>4, <1>5, <1>6, <1>7

-----------------------------------------------------------------------------
(* What the desktop needs of the window table *)

(* Among the visible windows at most the focused one has the focus flag    *)
FlagIsFocus(t) ==
  \A win \in WP!InUse(t) :
    "VISIBLE" \in t.windows[win].flags /\ "FOCUSED" \in t.windows[win].flags
      => t.focused_window = win

(* Room for the title bar and its two buttons *)
Roomy(t) == \A win \in WP!InUse(t) : 92 <= t.windows[win].w /\ 30 <= t.windows[win].h

ClosedIn(t) == {t.windows[i].id : i \in {j \in WP!InUse(t) :
                                            "VISIBLE" \notin t.windows[j].flags}}

TablesOK(t) ==
  /\ WP!TableOK(t) /\ WP!Ids(t) = 1 .. t.window_count
  /\ FlagIsFocus(t) /\ Roomy(t)

(* A step of the table keeps it in order, frees no slot and reopens nothing *)
GoodStep(t, u) ==
  /\ TablesOK(u)
  /\ t.window_count <= u.window_count
  /\ ClosedIn(t) \subseteq ClosedIn(u)

LEMMA FocusStep ==
  ASSUME NEW t \in WP!Table, t.focused_window \in WP!InUse(t) \cup {WP!NULL},
         NEW win \in WP!InUse(t), NEW u, u = WP!gui_focus_window(t, win),
         \A i \in WP!InUse(t) : t.windows[i].y \in 0 .. WP!LowestTitleBar,
         WP!Ids(t) = 1 .. t.window_count, FlagIsFocus(t), Roomy(t)
  PROVE  GoodStep(t, u)
<1>1. /\ WP!TableOK(u) /\ u.window_count = t.window_count /\ WP!Ids(u) = WP!Ids(t)
  BY WP!FocusKeeps, WindowsFit
<1>2. /\ u \in WP!Table /\ WP!InUse(u) = WP!InUse(t)
      /\ u.focused_window = t.window_count - 1
      /\ \A i \in WP!InUse(t) :
           /\ WP!SameWindow(u.windows[i], t.windows[WP!From(t, win, i)])
           /\ "FOCUSED" \in u.windows[i].flags
                <=> \/ i = t.window_count - 1
                    \/ /\ "FOCUSED" \in t.windows[WP!From(t, win, i)].flags
                       /\ WP!From(t, win, i) # t.focused_window
  BY WP!FocusEffect, WindowsFit
<1>3. /\ \A i \in WP!InUse(t) : WP!From(t, win, i) \in WP!InUse(t)
      /\ \A j \in WP!InUse(t) : \E i \in WP!InUse(t) : WP!From(t, win, i) = j
  BY WP!FromPermutes, WindowsFit
<1>4. \A i \in WP!InUse(t) :
        LET a == u.windows[i]
            b == t.windows[WP!From(t, win, i)]
        IN  /\ a.id = b.id /\ a.w = b.w /\ a.h = b.h
            /\ "VISIBLE" \in a.flags <=> "VISIBLE" \in b.flags
  BY <1>2 DEF WP!SameWindow
<1>5. FlagIsFocus(u)  BY <1>2, <1>3, <1>4 DEF FlagIsFocus
<1>6. Roomy(u)
  <2> SUFFICES ASSUME NEW i \in WP!InUse(t)
               PROVE  92 <= u.windows[i].w /\ 30 <= u.windows[i].h
    BY <1>2 DEF Roomy
  <2>1. PICK j \in WP!InUse(t) : j = WP!From(t, win, i)  BY <1>3
  <2>2. u.windows[i].w = t.windows[j].w /\ u.windows[i].h = t.windows[j].h
    BY <1>4, <2>1
  <2>3. QED BY <2>2 DEF Roomy
<1>7. ClosedIn(t) \subseteq ClosedIn(u)
  <2>1. ASSUME NEW v \in ClosedIn(t) PROVE v \in ClosedIn(u)
    <3>1. PICK j \in WP!InUse(t) : v = t.windows[j].id /\ "VISIBLE" \notin t.windows[j].flags
      BY DEF ClosedIn
    <3>2. PICK i \in WP!InUse(t) : WP!From(t, win, i) = j  BY <1>3
    <3>3. v = u.windows[i].id /\ "VISIBLE" \notin u.windows[i].flags
      BY <1>4, <3>1, <3>2
    <3>4. QED BY <1>2, <3>3 DEF ClosedIn
  <2>2. QED BY <2>1
<1>8. t.window_count \in Nat  BY WP!SlotsInUse, WindowsFit
<1>9. QED BY <1>1, <1>5, <1>6, <1>7, <1>8 DEF GoodStep, TablesOK

(* What TablesOK says without its names *)
LEMMA TablesShape ==
  ASSUME NEW t, TablesOK(t)
  PROVE  /\ t \in WP!Table /\ t.window_count \in Nat
         /\ t.focused_window \in WP!InUse(t) \cup {WP!NULL}
         /\ WP!InUse(t) \subseteq WP!Slots
         /\ \A i \in WP!InUse(t) : t.windows[i].y \in 0 .. WP!LowestTitleBar
         /\ WP!Ids(t) = 1 .. t.window_count
<1>1. WP!TableOK(t)  BY DEF TablesOK
<1>2. /\ t \in WP!Table /\ t.window_count \in Nat
      /\ t.focused_window \in WP!InUse(t) \cup {WP!NULL}
  BY <1>1, WP!FocusInUse, WindowsFit
<1>3. WP!InUse(t) \subseteq WP!Slots  BY <1>2, WP!SlotsInUse, WindowsFit
<1>4. QED BY <1>1, <1>2, <1>3 DEF TablesOK, WP!TableOK

(* A change of one slot's flags, of the position of a window and of the    *)
(* focus pointer that leaves the focus flags alone and shows nothing       *)
LEMMA MildStep ==
  ASSUME NEW t, TablesOK(t), NEW u, WP!TableOK(u), WP!Ids(u) = 1 .. u.window_count,
         u.window_count = t.window_count,
         \A i \in WP!InUse(t) :
           /\ u.windows[i].id = t.windows[i].id
           /\ u.windows[i].w = t.windows[i].w /\ u.windows[i].h = t.windows[i].h
           /\ "VISIBLE" \in u.windows[i].flags => "VISIBLE" \in t.windows[i].flags
           /\ "FOCUSED" \in u.windows[i].flags => "FOCUSED" \in t.windows[i].flags
           /\ t.focused_window = i /\ "VISIBLE" \in u.windows[i].flags
                => u.focused_window = i
  PROVE  GoodStep(t, u)
<1>1. WP!InUse(u) = WP!InUse(t)  BY DEF WP!InUse
<1>2. FlagIsFocus(u)  BY <1>1 DEF TablesOK, FlagIsFocus
<1>3. Roomy(u)  BY <1>1 DEF TablesOK, Roomy
<1>4. ClosedIn(t) \subseteq ClosedIn(u)  BY <1>1 DEF ClosedIn
<1>5. QED BY <1>2, <1>3, <1>4, TablesShape DEF GoodStep, TablesOK

LEMMA DragStep ==
  ASSUME TablesOK(table), NEW win \in WP!InUse(table), NEW x \in Int, NEW y \in Int
  PROVE  GoodStep(table, WP!DragTo(table, win, x, y))
<1>1. PICK u : u = WP!DragTo(table, win, x, y)  OBVIOUS
<1>2. WP!TableInv  BY DEF TablesOK, WP!TableInv
<1>3. WP!TableOK(u) /\ WP!Ids(u) = 1 .. u.window_count
  BY <1>1, <1>2, WP!DragKeeps, WindowsFit
<1>4. /\ u.window_count = table.window_count
      /\ u.focused_window = table.focused_window
      /\ \A i \in WP!Slots : /\ u.windows[i].id = table.windows[i].id
                             /\ u.windows[i].flags = table.windows[i].flags
                             /\ u.windows[i].w = table.windows[i].w
                             /\ u.windows[i].h = table.windows[i].h
  BY <1>1, <1>2, WP!DragEffect, WindowsFit
<1>5. \A i \in WP!InUse(table) : i \in WP!Slots  BY TablesShape
<1>6. GoodStep(table, u)  BY <1>3, <1>4, <1>5, MildStep
<1>7. QED BY <1>1, <1>6

LEMMA MinimizeStep ==
  ASSUME TablesOK(table), NEW win \in WP!InUse(table)
  PROVE  GoodStep(table, WP!SetFlag(table, win, "MINIMIZED"))
<1>1. PICK u : u = WP!SetFlag(table, win, "MINIMIZED")  OBVIOUS
<1>2. WP!TableInv  BY DEF TablesOK, WP!TableInv
<1>3. u = WP!MinimizeButton(table, win)  BY <1>1 DEF WP!MinimizeButton
<1>4. WP!TableOK(u) /\ WP!Ids(u) = 1 .. u.window_count
  BY <1>2, <1>3, WP!OthersKeep, WindowsFit
<1>5. /\ win \in WP!Slots /\ "MINIMIZED" \in WP!Flags /\ table \in WP!Table
      /\ \A i \in WP!InUse(table) : i \in WP!Slots
  BY TablesShape DEF WP!Flags
<1>6. /\ u.window_count = table.window_count
      /\ u.focused_window = table.focused_window
      /\ \A i \in WP!Slots : u.windows[i].id = table.windows[i].id
      /\ \A i \in WP!Slots : u.windows[i].w = table.windows[i].w
                             /\ u.windows[i].h = table.windows[i].h
      /\ \A i \in WP!Slots : i # win => u.windows[i] = table.windows[i]
      /\ u.windows[win].flags = table.windows[win].flags \cup {"MINIMIZED"}
  BY <1>1, <1>5, WP!FlagEffect, WindowsFit
<1>7. \A i \in WP!InUse(table) :
        /\ "VISIBLE" \in u.windows[i].flags => "VISIBLE" \in table.windows[i].flags
        /\ "FOCUSED" \in u.windows[i].flags => "FOCUSED" \in table.windows[i].flags
  BY <1>6, <1>5
<1>8. GoodStep(table, u)  BY <1>4, <1>5, <1>6, <1>7, MildStep
<1>9. QED BY <1>1, <1>8

LEMMA CloseStep ==
  ASSUME TablesOK(table), NEW win \in WP!InUse(table)
  PROVE  GoodStep(table, WP!LoseFocus(WP!ClearFlag(table, win, "VISIBLE"), win))
<1>1. PICK v : v = WP!ClearFlag(table, win, "VISIBLE")  OBVIOUS
<1>2. PICK u : u = WP!LoseFocus(v, win)  OBVIOUS
<1>3. WP!TableInv  BY DEF TablesOK, WP!TableInv
<1>4. u = WP!CloseButton(table, win)  BY <1>1, <1>2 DEF WP!CloseButton
<1>5. WP!TableOK(u) /\ WP!Ids(u) = 1 .. u.window_count
  BY <1>3, <1>4, WP!OthersKeep, WindowsFit
<1>6. /\ win \in WP!Slots /\ "VISIBLE" \in WP!Flags /\ table \in WP!Table
      /\ \A i \in WP!InUse(table) : i \in WP!Slots
  BY TablesShape DEF WP!Flags
<1>7. /\ v \in WP!Table
      /\ v.window_count = table.window_count
      /\ v.focused_window = table.focused_window
      /\ \A i \in WP!Slots : v.windows[i].id = table.windows[i].id
      /\ \A i \in WP!Slots : v.windows[i].w = table.windows[i].w
                             /\ v.windows[i].h = table.windows[i].h
      /\ \A i \in WP!Slots : i # win => v.windows[i] = table.windows[i]
      /\ v.windows[win].flags = table.windows[win].flags \ {"VISIBLE"}
  BY <1>1, <1>6, WP!FlagEffect, WindowsFit
<1>8. /\ u.windows = v.windows /\ u.window_count = v.window_count
      /\ v.focused_window # win => u.focused_window = v.focused_window
  BY <1>2, <1>7 DEF WP!LoseFocus, WP!Table
<1>9. \A i \in WP!InUse(table) :
        /\ "VISIBLE" \in u.windows[i].flags => "VISIBLE" \in table.windows[i].flags
        /\ "FOCUSED" \in u.windows[i].flags => "FOCUSED" \in table.windows[i].flags
        /\ table.focused_window = i /\ "VISIBLE" \in u.windows[i].flags
             => u.focused_window = i
  BY <1>6, <1>7, <1>8
<1>10. GoodStep(table, u)  BY <1>5, <1>6, <1>7, <1>8, <1>9, MildStep
<1>11. QED BY <1>1, <1>2, <1>10

LEMMA RestoreStep ==
  ASSUME TablesOK(table), NEW win \in WP!InUse(table)
  PROVE  GoodStep(table, WP!gui_focus_window(WP!ClearFlag(table, win, "MINIMIZED"), win))
<1>1. PICK v : v = WP!ClearFlag(table, win, "MINIMIZED")  OBVIOUS
<1>2. /\ win \in WP!Slots /\ "MINIMIZED" \in WP!Flags /\ table \in WP!Table
      /\ \A i \in WP!InUse(table) : i \in WP!Slots
      /\ table.focused_window \in WP!InUse(table) \cup {WP!NULL}
      /\ \A i \in WP!InUse(table) : table.windows[i].y \in 0 .. WP!LowestTitleBar
      /\ WP!Ids(table) = 1 .. table.window_count
  BY TablesShape DEF WP!Flags
<1>3. /\ v \in WP!Table
      /\ v.window_count = table.window_count
      /\ v.focused_window = table.focused_window
      /\ \A i \in WP!Slots : v.windows[i].y = table.windows[i].y
      /\ \A i \in WP!Slots : v.windows[i].id = table.windows[i].id
      /\ \A i \in WP!Slots : v.windows[i].w = table.windows[i].w
                             /\ v.windows[i].h = table.windows[i].h
      /\ \A i \in WP!Slots : i # win => v.windows[i] = table.windows[i]
      /\ v.windows[win].flags = table.windows[win].flags \ {"MINIMIZED"}
  BY <1>1, <1>2, WP!FlagEffect, WindowsFit
<1>4. WP!InUse(v) = WP!InUse(table)  BY <1>3 DEF WP!InUse
<1>5. WP!Ids(v) = WP!Ids(table)  BY <1>2, <1>3, <1>4 DEF WP!Ids
<1>6. \A i \in WP!InUse(v) : v.windows[i].y \in 0 .. WP!LowestTitleBar
  BY <1>2, <1>3, <1>4
<1>7. \A i \in WP!InUse(table) :
        /\ "VISIBLE" \in v.windows[i].flags <=> "VISIBLE" \in table.windows[i].flags
        /\ "FOCUSED" \in v.windows[i].flags <=> "FOCUSED" \in table.windows[i].flags
  BY <1>2, <1>3
<1>8. FlagIsFocus(v)  BY <1>3, <1>4, <1>7 DEF FlagIsFocus, TablesOK
<1>9. Roomy(v)  BY <1>2, <1>3, <1>4 DEF Roomy, TablesOK
<1>10. ClosedIn(v) = ClosedIn(table)  BY <1>2, <1>3, <1>4, <1>7 DEF ClosedIn
<1>11. PICK u : u = WP!gui_focus_window(v, win)  OBVIOUS
<1>12. GoodStep(v, u)
  BY <1>2, <1>3, <1>4, <1>5, <1>6, <1>8, <1>9, <1>11, FocusStep
<1>13. GoodStep(table, u)  BY <1>3, <1>10, <1>12 DEF GoodStep
<1>14. QED BY <1>1, <1>11, <1>13

LEMMA CreateStep ==
  ASSUME TablesOK(table), NEW a \in Apps, WP!CanCreate(table)
  PROVE  /\ GoodStep(table, WP!gui_create_window(table, Shape(a)))
         /\ table.window_count \in WP!InUse(WP!gui_create_window(table, Shape(a)))
<1> DEFINE n == table.window_count
<1>1. PICK s : s = Shape(a)  OBVIOUS
<1>2. s \in {Shape(b) : b \in Apps} /\ 92 <= s.w /\ 30 <= s.h
  BY <1>1 DEF Apps, Shape
<1>3. WP!TableInv  BY DEF TablesOK, WP!TableInv
<1>4. /\ table \in WP!Table /\ n \in Nat
      /\ table.focused_window \in WP!InUse(table) \cup {WP!NULL}
      /\ \A i \in WP!InUse(table) : table.windows[i].y \in 0 .. WP!LowestTitleBar
      /\ WP!Ids(table) = 1 .. n
  BY TablesShape
<1>5. PICK t \in WP!Table :
           /\ t.window_count = n + 1 /\ t.focused_window = table.focused_window
           /\ WP!InUse(t) = WP!InUse(table) \cup {n} /\ n \notin WP!InUse(table)
           /\ \A i \in WP!InUse(table) : t.windows[i] = table.windows[i]
           /\ t.windows[n].id = n + 1 /\ t.windows[n].flags = {"VISIBLE"}
           /\ t.windows[n].w = s.w /\ t.windows[n].h = s.h
           /\ t.windows[n].y \in 0 .. WP!LowestTitleBar
           /\ WP!gui_create_window(table, s) = WP!gui_focus_window(t, n)
  BY <1>2, <1>3, WP!CreateEffect, WindowsFit
<1>6. \A i \in WP!InUse(t) : t.windows[i].y \in 0 .. WP!LowestTitleBar
  BY <1>4, <1>5
<1>7. WP!Ids(t) = 1 .. n + 1
  <2>1. WP!Ids(t) = WP!Ids(table) \cup {n + 1}  BY <1>5 DEF WP!Ids
  <2>2. QED BY <1>4, <2>1
<1>8. FlagIsFocus(t)  BY <1>5 DEF FlagIsFocus, TablesOK
<1>9. Roomy(t)  BY <1>2, <1>5 DEF Roomy, TablesOK
<1>10. ClosedIn(table) \subseteq ClosedIn(t)  BY <1>5 DEF ClosedIn
<1>11. PICK u : u = WP!gui_focus_window(t, n)  OBVIOUS
<1>12. GoodStep(t, u)
  BY <1>4, <1>5, <1>6, <1>7, <1>8, <1>9, <1>11, FocusStep
<1>13. u.window_count \in Nat  BY <1>12, TablesShape DEF GoodStep
<1>14. GoodStep(table, u) /\ n \in WP!InUse(u)
  BY <1>4, <1>5, <1>10, <1>12, <1>13 DEF GoodStep, WP!InUse
<1>15. QED BY <1>1, <1>5, <1>11, <1>14

-----------------------------------------------------------------------------
(* The pointers into the table *)

GuiOK ==
  /\ TablesOK(table)
  /\ app_window \in [Apps -> WP!InUse(table) \cup {NULL}]
  /\ dragging_window \in WP!InUse(table) \cup {NULL}
  /\ drag_offset \in Int \X Int
  /\ mouse \in [x : Xs, y : Ys, left : BOOLEAN]

(* Any non-empty set of slots has a greatest member. *)
LEMMA GreatestOfSlots ==
  ASSUME NEW n \in Nat, NEW S \in SUBSET (0 .. n - 1), S # {}
  PROVE  Greatest(S) \in S /\ \A j \in S : j <= Greatest(S)
<1> DEFINE Up == {n - i : i \in S}
<1>1. Up \in SUBSET Nat /\ Up # {}
  <2>1. \A i \in S : i \in 0 .. n - 1  OBVIOUS
  <2>2. \A i \in S : n - i \in Nat  BY <2>1
  <2>3. QED BY <2>2
<1> HIDE DEF Up
<1>2. PICK m \in Up : \A j \in Up : ~(<<j, m>> \in OpToRel(<, Nat))
  BY <1>1, NatLessThanWellFounded, WFMin
<1>3. \A j \in Up : m <= j
  <2>1. \A j \in Up : ~(j < m)  BY <1>1, <1>2 DEF OpToRel
  <2>2. QED BY <1>1, <2>1
<1>4. PICK i \in S : m = n - i  BY <1>2 DEF Up
<1>5. \A j \in S : j <= i
  <2>1. TAKE j \in S
  <2>2. n - i <= n - j  BY <1>3, <1>4 DEF Up
  <2>3. i \in 0 .. n - 1 /\ j \in 0 .. n - 1  BY <1>4
  <2>4. QED BY <2>2, <2>3
<1>6. \A k \in S : (\A j \in S : j <= k) => k = i
  <2>1. \A j \in S : j \in Int  OBVIOUS
  <2>2. QED BY <1>4, <1>5, <2>1
<1>7. QED BY <1>4, <1>5, <1>6 DEF Greatest

(* A good step of the table keeps the pointers that were kept. *)
LEMMA PointersKept ==
  ASSUME NEW t, NEW u, TablesOK(t), GoodStep(t, u)
  PROVE  WP!InUse(t) \subseteq WP!InUse(u)
<1>1. t.window_count \in Nat /\ u.window_count \in Nat
  BY TablesShape DEF GoodStep
<1>2. QED BY <1>1 DEF GoodStep, WP!InUse

LEMMA StillStep ==
  ASSUME NEW t, TablesOK(t)
  PROVE  GoodStep(t, t)
BY TablesShape DEF GoodStep

(* Each action that touches the windows takes a good step of the table and *)
(* keeps the pointers within it.                                           *)
GuiStep == GuiOK' /\ GoodStep(table, table')

LEMMA SampleGui ==
  ASSUME GuiOK, Sample
  PROVE  GuiStep
<1>1. /\ TablesOK(table) /\ UNCHANGED <<app_window, drag_offset, mouse>>
      /\ dragging_window' \in {dragging_window, NULL}
  BY DEF GuiOK, Sample, env
<1>2. GoodStep(table, table')
  <2>1. CASE dragging_window # NULL /\ mouse.left
    <3>1. PICK dx, dy : dx = mouse.x - drag_offset[1] /\ dy = mouse.y - drag_offset[2]
      OBVIOUS
    <3>2. dx \in Int /\ dy \in Int  BY <3>1, ScreenAssumption DEF GuiOK
    <3>3. table' = WP!DragTo(table, dragging_window, dx, dy)
      BY <2>1, <3>1, SameWindows DEF Sample
    <3>4. QED BY <1>1, <2>1, <3>2, <3>3, DragStep DEF GuiOK
  <2>2. CASE ~(dragging_window # NULL /\ mouse.left)
    <3>1. table' = table  BY <2>2 DEF Sample
    <3>2. QED BY <1>1, <3>1, StillStep
  <2>3. QED BY <2>1, <2>2
<1>3. WP!InUse(table) \subseteq WP!InUse(table')  BY <1>1, <1>2, PointersKept
<1>4. TablesOK(table')  BY <1>2 DEF GoodStep
<1>5. QED BY <1>1, <1>2, <1>3, <1>4 DEF GuiOK, GuiStep, TablesOK, WP!InUse

LEMMA ClickWindowsGui ==
  ASSUME GuiOK, ClickWindows
  PROVE  GuiStep
<1>1. TablesOK(table) /\ UNCHANGED <<app_window, mouse>>
  BY DEF GuiOK, ClickWindows, env
<1>2. CASE HitWindows = {}
  <2>1. UNCHANGED <<table, drag>>  BY <1>2 DEF ClickWindows
  <2>2. QED BY <1>1, <2>1, StillStep DEF GuiOK, GuiStep, drag
<1>3. CASE HitWindows # {}
  <2>1. HitWindows \in SUBSET WP!InUse(table)
    BY SameWindows DEF HitWindows
  <2>2. PICK win : win = Greatest(HitWindows)  OBVIOUS
  <2>3. win \in WP!InUse(table)
    <3>1. table.window_count \in Nat  BY <1>1, TablesShape
    <3>2. QED BY <1>3, <2>1, <2>2, <3>1, GreatestOfSlots DEF WP!InUse
  <2>4. ClickWindow(win)  BY <1>3, <2>2 DEF ClickWindows
  <2>5. /\ GoodStep(table, W!CloseButton(table, win))
        /\ GoodStep(table, W!MinimizeButton(table, win))
        /\ GoodStep(table, W!gui_focus_window(table, win))
    <3>1. GoodStep(table, W!gui_focus_window(table, win))
      BY <1>1, <2>3, SameWindows, FocusStep, TablesShape DEF TablesOK
    <3>2. QED BY <1>1, <2>3, <3>1, SameWindows, CloseStep, MinimizeStep
  <2>6. GoodStep(table, table')
    BY <2>4, <2>5 DEF ClickWindow, GrabTitle
  <2>7. WP!InUse(table) \subseteq WP!InUse(table')  BY <1>1, <2>6, PointersKept
  <2>8. dragging_window' \in WP!InUse(table) \cup {NULL} /\ drag_offset' \in Int \X Int
    <3>1. CASE UNCHANGED drag  BY <3>1 DEF drag, GuiOK
    <3>2. CASE GrabTitle(win)
      <4>1. mouse.x \in Int /\ mouse.y \in Int  BY ScreenAssumption DEF GuiOK
      <4>2. table' \in WP!Table /\ win \in WP!Slots
        BY <1>1, <2>3, <2>6, TablesShape DEF GoodStep
      <4>3. table'.windows[win].x \in Int /\ table'.windows[win].y \in Int
        BY <4>2 DEF WP!Table, WP!Window
      <4>4. QED BY <2>3, <3>2, <4>1, <4>3 DEF GrabTitle
    <3>3. QED BY <2>4, <3>1, <3>2 DEF ClickWindow
  <2>9. TablesOK(table')  BY <2>6 DEF GoodStep
  <2>10. QED BY <1>1, <2>6, <2>7, <2>8, <2>9 DEF GuiOK, GuiStep, TablesOK, WP!InUse
<1>4. QED BY <1>2, <1>3

LEMMA ClickIconsGui ==
  ASSUME GuiOK, ClickIcons
  PROVE  GuiStep
<1>1. TablesOK(table) /\ UNCHANGED <<dragging_window, drag_offset, mouse>>
  BY DEF GuiOK, ClickIcons, env, drag
<1>2. PICK app : app = IconApp  OBVIOUS
<1>3. CASE UNCHANGED <<table, app_window>>
  BY <1>1, <1>3, StillStep DEF GuiOK, GuiStep
<1>4. ASSUME app \in Apps, AppVisible(app), FocusApp(app)
      PROVE  GuiStep
  <2>1. PICK win : win = app_window[app]  OBVIOUS
  <2>2. win \in WP!InUse(table)  BY <1>4, <2>1 DEF GuiOK, AppVisible
  <2>3. UNCHANGED app_window /\ \/ table' = W!TaskbarButton(table, win)
                                \/ table' = W!gui_focus_window(table, win)
    BY <1>4, <2>1 DEF FocusApp
  <2>4. GoodStep(table, table')
    <3>1. CASE table' = W!TaskbarButton(table, win)
      BY <1>1, <2>2, <3>1, SameWindows, RestoreStep
    <3>2. CASE table' = W!gui_focus_window(table, win)
      BY <1>1, <2>2, <3>2, SameWindows, FocusStep, TablesShape DEF TablesOK
    <3>3. QED BY <2>3, <3>1, <3>2
  <2>5. WP!InUse(table) \subseteq WP!InUse(table')  BY <1>1, <2>4, PointersKept
  <2>6. TablesOK(table')  BY <2>4 DEF GoodStep
  <2>7. QED BY <1>1, <2>3, <2>4, <2>5, <2>6 DEF GuiOK, GuiStep, TablesOK, WP!InUse
<1>5. ASSUME app \in Apps, CreateApp(app)
      PROVE  GuiStep
  <2>1. CASE ~W!CanCreate(table)
    <3>1. UNCHANGED table /\ app_window' = [app_window EXCEPT ![app] = NULL]
      BY <1>5, <2>1 DEF CreateApp
    <3>2. QED BY <1>1, <1>5, <3>1, StillStep DEF GuiOK, GuiStep
  <2>2. CASE W!CanCreate(table)
    <3>1. /\ table' = WP!gui_create_window(table, Shape(app))
          /\ app_window' = [app_window EXCEPT ![app] = table.window_count]
      BY <1>5, <2>2, SameWindows DEF CreateApp
    <3>2. GoodStep(table, table') /\ table.window_count \in WP!InUse(table')
      BY <1>1, <1>5, <2>2, <3>1, SameWindows, CreateStep
    <3>3. WP!InUse(table) \subseteq WP!InUse(table')  BY <1>1, <3>2, PointersKept
    <3>4. TablesOK(table')  BY <3>2 DEF GoodStep
    <3>5. app_window' \in [Apps -> WP!InUse(table') \cup {NULL}]
      BY <1>5, <3>1, <3>2, <3>3 DEF GuiOK
    <3>6. dragging_window' \in WP!InUse(table') \cup {NULL}
      BY <1>1, <3>3 DEF GuiOK
    <3>7. QED BY <1>1, <3>2, <3>4, <3>5, <3>6 DEF GuiOK, GuiStep, TablesOK, WP!InUse
  <2>3. QED BY <2>1, <2>2
<1>6. app \in Apps \cup {"none"}  BY <1>2 DEF IconApp, Apps
<1>7. QED BY <1>2, <1>3, <1>4, <1>5, <1>6 DEF ClickIcons, OpenApp, text

LEMMA ClickTaskbarGui ==
  ASSUME GuiOK, ClickTaskbar
  PROVE  GuiStep
<1>1. /\ TablesOK(table)
      /\ UNCHANGED <<app_window, dragging_window, drag_offset, mouse>>
  BY DEF GuiOK, ClickTaskbar, env, drag
<1>2. PICK hit : hit = {win \in W!InUse(table) : OnButton(win)}  OBVIOUS
<1>3. table' = IF hit = {} THEN table
               ELSE W!TaskbarButton(table, CHOOSE win \in hit : TRUE)
  BY <1>2 DEF ClickTaskbar
<1>4. GoodStep(table, table')
  <2>1. CASE hit = {}  BY <1>1, <1>3, <2>1, StillStep
  <2>2. CASE hit # {}
    <3>1. PICK win : win = CHOOSE w \in hit : TRUE  OBVIOUS
    <3>2. win \in WP!InUse(table)  BY <1>2, <2>2, <3>1, SameWindows
    <3>3. table' = W!TaskbarButton(table, win)  BY <1>3, <2>2, <3>1
    <3>4. QED BY <1>1, <3>2, <3>3, SameWindows, RestoreStep
  <2>3. QED BY <2>1, <2>2
<1>5. WP!InUse(table) \subseteq WP!InUse(table')  BY <1>1, <1>4, PointersKept
<1>6. TablesOK(table')  BY <1>4 DEF GoodStep
<1>7. QED BY <1>1, <1>4, <1>5, <1>6 DEF GuiOK, GuiStep, TablesOK, WP!InUse

(* The pointers stay within the table, and no step reopens a window.       *)
LEMMA GuiKept ==
  ASSUME GuiOK, [Next]_vars
  PROVE  GuiStep
<1>1. CASE UNCHANGED <<gui, env>>
  <2>1. TablesOK(table)  BY DEF GuiOK
  <2>2. QED BY <1>1, <2>1, StillStep DEF GuiOK, GuiStep, gui, env, drag
<1>2. CASE TakeKey \/ IgnoreKey \/ EditText \/ CreateDocument \/ WriteDocument
  BY <1>1, <1>2 DEF TakeKey, IgnoreKey, EditText, CreateDocument, WriteDocument
<1>3. CASE Finish \/ KeyArrives  BY <1>1, <1>3 DEF Finish, KeyArrives
<1>4. CASE MousePacket
  <2>1. UNCHANGED gui  BY <1>4 DEF MousePacket
  <2>2. mouse' \in [x : Xs, y : Ys, left : BOOLEAN]
    BY <1>4 DEF MousePacket, GuiOK
  <2>3. TablesOK(table)  BY DEF GuiOK
  <2>4. QED BY <2>1, <2>2, <2>3, StillStep DEF GuiOK, GuiStep, gui, drag
<1>5. CASE UNCHANGED vars  BY <1>1, <1>5 DEF vars, gui, env, drag
<1>6. QED BY <1>2, <1>3, <1>4, <1>5, SampleGui, ClickWindowsGui, ClickIconsGui,
             ClickTaskbarGui DEF Next, MainLoop

LEMMA GuiInit ==
  ASSUME Init
  PROVE  GuiOK
<1>1. table = WP!EmptyTable  BY SameWindows DEF Init, W!Init
<1>2. WP!TableInv
  <2>1. WP!Init  BY <1>1 DEF WP!Init
  <2>2. QED BY <2>1, WP!InitTable, WindowsFit
<1>3. table.window_count = 0  BY <1>1 DEF WP!EmptyTable
<1>4. WP!InUse(table) = {}  BY <1>3 DEF WP!InUse
<1>5. TablesOK(table)
  BY <1>2, <1>4 DEF TablesOK, WP!TableInv, FlagIsFocus, Roomy
<1>6. app_window \in [Apps -> WP!InUse(table) \cup {NULL}]
        /\ dragging_window \in WP!InUse(table) \cup {NULL}
  BY DEF Init
<1>7. drag_offset \in Int \X Int  BY DEF Init
<1>8. mouse \in [x : Xs, y : Ys, left : BOOLEAN]  BY DEF Init
<1>9. QED BY <1>5, <1>6, <1>7, <1>8 DEF GuiOK

-----------------------------------------------------------------------------
(* The text *)

(* The main loop changes the text only as the notepad does. *)
LEMMA TextKept ==
  ASSUME NP!TextInv, [Next]_vars
  PROVE  NP!TextInv'
<1>1. CASE UNCHANGED text
  BY <1>1 DEF text, NP!TextInv, NP!TypeOK, NP!DrawStopsInBuffer, NP!DrawnIsSaved
<1>2. CASE EditText
  <2>1. NP!TypeKey(key)
    BY <1>2 DEF EditText, N!TypeKey, NP!TypeKey, N!BACKSPACE, NP!BACKSPACE,
             N!NEWLINE, NP!NEWLINE, N!RETURN, NP!RETURN, N!RoomForOne, NP!RoomForOne,
             N!Printable, NP!Printable, N!Erase, NP!Erase, N!Insert, NP!Insert,
             N!NUL, NP!NUL
  <2>2. QED BY <2>1, TextFits, NP!TypeKeyKeeps
<1>3. CASE N!OpenNotepad
  <2>1. NP!OpenNotepad
    BY <1>3 DEF N!OpenNotepad, NP!OpenNotepad, N!Cells, NP!Cells, N!SomeLetter,
             NP!SomeLetter, N!NUL, NP!NUL
  <2>2. QED BY <2>1, TextFits, NP!OpenKeeps
<1>4. CASE ClickIcons
  BY <1>1, <1>3, <1>4 DEF ClickIcons, OpenApp, FocusApp, CreateApp
<1>5. CASE TakeKey \/ IgnoreKey \/ CreateDocument \/ WriteDocument \/ Finish
  BY <1>1, <1>5 DEF TakeKey, IgnoreKey, CreateDocument, WriteDocument, Finish
<1>6. CASE Sample \/ ClickWindows \/ ClickTaskbar \/ KeyArrives \/ MousePacket
  BY <1>1, <1>6 DEF Sample, ClickWindows, ClickTaskbar, KeyArrives, MousePacket
<1>7. CASE UNCHANGED vars  BY <1>1, <1>7 DEF vars, text
<1>8. QED BY <1>2, <1>4, <1>5, <1>6, <1>7 DEF Next, MainLoop

LEMMA TextInit ==
  ASSUME Init
  PROVE  NP!TextInv
<1>1. NP!Init
  BY DEF Init, N!Init, NP!Init, N!Cells, NP!Cells, N!SomeLetter, NP!SomeLetter,
         N!NUL, NP!NUL
<1>2. QED BY <1>1, TextFits, NP!InitText

-----------------------------------------------------------------------------
(* The documents *)

(* While a document is being saved its file exists and bears the name of   *)
(* the counter; all others were named by smaller values of the counter.    *)
Saving == pc = "save" /\ result.ok

FilesOK ==
  /\ FP!FsOK
  /\ file_counter \in Nat
  /\ Saving => \E s \in FP!Existing : result.handles = {s}
  /\ \A i \in FP!Existing : \E k \in Nat :
       /\ fs.files[i].name = FileName(k)
       /\ k < file_counter \/ (k = file_counter /\ Saving /\ i \in result.handles)
  /\ \A i, j \in FP!Existing : fs.files[i].name = fs.files[j].name => i = j

LEMMA SameFiles ==
  /\ FS!Existing = FP!Existing
  /\ FS!TypeOK <=> FP!TypeOK
  /\ \A f : FS!Content(f) = FP!Content(f)
  /\ \A n : FS!fs_create_file(n) <=> FP!fs_create_file(n)
  /\ \A h, data : FS!fs_write_file(h, data) <=> FP!fs_write_file(h, data)
<1>1. FS!Existing = FP!Existing
  BY DEF FS!Existing, FP!Existing, FS!Slots, FP!Slots
<1>2. FS!TypeOK <=> FP!TypeOK
  BY DEF FS!TypeOK, FP!TypeOK, FS!Slots, FP!Slots
<1>3. \A f : FS!Content(f) = FP!Content(f)
  BY DEF FS!Content, FP!Content
<1>4. \A n : FS!fs_create_file(n) <=> FP!fs_create_file(n)
  BY <1>1 DEF FS!fs_create_file, FP!fs_create_file, FS!Slots, FP!Slots,
              FS!Return, FP!Return, FS!LeastOf, FP!LeastOf, FS!NewFile, FP!NewFile,
              FS!StoredName, FP!StoredName
<1>5. \A h, data : FS!fs_write_file(h, data) <=> FP!fs_write_file(h, data)
  BY <1>1 DEF FS!fs_write_file, FP!fs_write_file, FS!Return, FP!Return, FS!NULL, FP!NULL
<1>6. QED BY <1>1, <1>2, <1>3, <1>4, <1>5

(* The two digits tell the documents apart. *)
LEMMA NamesDiffer ==
  ASSUME NEW k \in Nat, NEW m \in Nat, FileName(k) = FileName(m)
  PROVE  k = m
<1>1. k \div 10 = m \div 10 /\ k % 10 = m % 10  BY DEF FileName
<1>2. k = 10 * (k \div 10) + (k % 10) /\ m = 10 * (m \div 10) + (m % 10)
  OBVIOUS
<1>3. QED BY <1>1, <1>2

LEMMA NameIsString ==
  ASSUME NEW k \in Nat
  PROVE  FileName(k) \in Seq(Nat) /\ FP!StoredName(FileName(k)) = FileName(k)
<1>1. k \div 10 \in Nat /\ k % 10 \in Nat  OBVIOUS
<1>2. FileName(k) \in Seq(Nat) /\ Len(FileName(k)) = 2  BY <1>1 DEF FileName
<1>3. QED BY <1>2, FilesAssumption DEF FP!StoredName

(* What a save does to the files *)
LEMMA CreateDocumentEffect ==
  ASSUME FilesOK, CreateDocument
  PROVE  /\ pc' = "save" /\ UNCHANGED file_counter
         /\ FP!FsOK'
         /\ \/ UNCHANGED fs /\ ~result'.ok
            \/ \E slot \in FP!Slots \ FP!Existing :
                 /\ FP!Existing' = FP!Existing \cup {slot}
                 /\ result'.ok /\ result'.handles = {slot}
                 /\ fs'.files[slot].name = FileName(file_counter)
                 /\ \A i \in FP!Existing : fs'.files[i] = fs.files[i]
<1>1. FP!fs_create_file(FileName(file_counter))
  BY SameFiles DEF CreateDocument
<1>2. /\ FileName(file_counter) \in Seq(Nat)
      /\ FP!StoredName(FileName(file_counter)) = FileName(file_counter)
  BY NameIsString DEF FilesOK
<1>3. FP!FsOK'
  <2>1. FP!Next  BY <1>1, <1>2 DEF FP!Next
  <2>2. FP!FsOK  BY DEF FilesOK
  <2>3. QED BY <2>1, <2>2, FP!FsStep, FilesLimits
<1>4. \/ UNCHANGED fs /\ ~result'.ok
      \/ \E slot \in FP!Slots \ FP!Existing :
           /\ FP!Existing' = FP!Existing \cup {slot}
           /\ result'.ok /\ result'.handles = {slot}
           /\ fs'.files[slot].name = FileName(file_counter)
           /\ \A i \in FP!Existing : fs'.files[i] = fs.files[i]
  <2>1. CASE UNCHANGED fs /\ FP!Return(FALSE, {}, <<>>, 0)
    BY <2>1 DEF FP!Return
  <2>2. ASSUME NEW slot \in FP!Slots \ FP!Existing,
               fs'.files = [fs.files EXCEPT ![slot] =
                  [@ EXCEPT !.name = FP!StoredName(FileName(file_counter)),
                            !.size = 0, !.exists = TRUE]],
               FP!Existing' = FP!Existing \cup {slot},
               FP!Return(TRUE, {slot}, <<>>, 0)
        PROVE  \E w \in FP!Slots \ FP!Existing :
                 /\ FP!Existing' = FP!Existing \cup {w}
                 /\ result'.ok /\ result'.handles = {w}
                 /\ fs'.files[w].name = FileName(file_counter)
                 /\ \A i \in FP!Existing : fs'.files[i] = fs.files[i]
    <3>1. fs.files \in [FP!Slots -> FP!File]  BY DEF FilesOK, FP!FsOK
    <3>2. fs'.files[slot].name = FileName(file_counter)
      BY <1>2, <2>2, <3>1 DEF FP!File
    <3>3. \A i \in FP!Existing : fs'.files[i] = fs.files[i]
      BY <2>2, <3>1 DEF FP!Existing
    <3>4. result'.ok /\ result'.handles = {slot}  BY <2>2 DEF FP!Return
    <3>5. QED BY <2>2, <3>2, <3>3, <3>4
  <2>3. FP!FsOK  BY DEF FilesOK
  <2>4. QED BY <1>1, <1>2, <2>1, <2>2, <2>3, FP!CreateEffect, FilesLimits
<1>5. QED BY <1>3, <1>4 DEF CreateDocument

LEMMA WriteDocumentEffect ==
  ASSUME FilesOK, NP!TextInv, WriteDocument
  PROVE  /\ pc' = "keys" /\ FP!FsOK' /\ FP!Existing' = FP!Existing
         /\ \A i \in FP!Existing : fs'.files[i].name = fs.files[i].name
         /\ ~result.ok => UNCHANGED <<fs, file_counter>>
         /\ result.ok => /\ file_counter' = file_counter + 1
                         /\ \A i \in FP!Existing \ result.handles :
                              fs'.files[i] = fs.files[i]
<1>1. pc = "save" /\ pc' = "keys" /\ FP!FsOK  BY DEF WriteDocument, FilesOK
<1>2. CASE ~result.ok
  <2>1. UNCHANGED <<fs, file_counter>>  BY <1>2 DEF WriteDocument
  <2>2. QED BY <1>1, <1>2, <2>1 DEF FP!FsOK, FP!CountMatchesSlots, FP!Existing
<1>3. CASE result.ok
  <2>1. PICK h \in result.handles :
          FS!fs_write_file(h, [b \in 1 .. notepad_cursor |-> notepad_buffer[b - 1]])
    BY <1>3 DEF WriteDocument
  <2>2. PICK data : data = [b \in 1 .. notepad_cursor |-> notepad_buffer[b - 1]]
    OBVIOUS
  <2>3. FP!fs_write_file(h, data)  BY <2>1, <2>2, SameFiles
  <2>4. data \in Seq(Nat)
    <3>1. notepad_cursor \in Nat /\ notepad_cursor <= BUFFER_SIZE - 1
            /\ notepad_buffer \in [0 .. BUFFER_SIZE - 1 -> 0 .. 127]
      BY TextAssumption DEF NP!TextInv, NP!TypeOK, NP!Cells
    <3>2. \A b \in 1 .. notepad_cursor : notepad_buffer[b - 1] \in Nat
      <4>1. TAKE b \in 1 .. notepad_cursor
      <4>2. b - 1 \in 0 .. BUFFER_SIZE - 1  BY <3>1, TextAssumption
      <4>3. notepad_buffer[b - 1] \in 0 .. 127  BY <3>1, <4>2
      <4>4. QED BY <4>3
    <3>3. QED BY <2>2, <3>1, <3>2
  <2>5. h \in FP!Existing /\ h \in FP!Slots
    BY <1>1, <1>3 DEF FilesOK, Saving, FP!Existing
  <2>6. FP!FsOK'
    <3>1. FP!Next  BY <2>3, <2>4, <2>5 DEF FP!Next
    <3>2. QED BY <1>1, <3>1, FP!FsStep, FilesLimits
  <2>7. \/ UNCHANGED fs
        \/ /\ fs'.files = [fs.files EXCEPT ![h] =
                [@ EXCEPT !.data = [b \in 1 .. MAX_FILE_SIZE |->
                             IF b \in 1 .. Len(data) THEN data[b]
                                                     ELSE fs.files[h].data[b]],
                          !.size = Len(data)]]
           /\ FP!Existing' = FP!Existing
    BY <1>1, <2>3, <2>4, <2>5, FP!WriteEffect, FilesLimits
  <2>8. fs.files \in [FP!Slots -> FP!File]  BY <1>1 DEF FP!FsOK
  <2>9. FP!Existing' = FP!Existing  BY <2>7 DEF FP!Existing
  <2>10. \A i \in FP!Existing : /\ fs'.files[i].name = fs.files[i].name
                                /\ i # h => fs'.files[i] = fs.files[i]
    <3>1. CASE UNCHANGED fs  BY <3>1
    <3>2. ASSUME NEW bytes,
                 fs'.files = [fs.files EXCEPT ![h] =
                                [@ EXCEPT !.data = bytes, !.size = Len(data)]]
          PROVE  \A i \in FP!Existing : /\ fs'.files[i].name = fs.files[i].name
                                        /\ i # h => fs'.files[i] = fs.files[i]
      <4>1. \A i \in FP!Existing : i \in FP!Slots  BY DEF FP!Existing
      <4>2. fs'.files[h] = [fs.files[h] EXCEPT !.data = bytes, !.size = Len(data)]
        BY <2>5, <2>8, <3>2
      <4>3. fs'.files[h].name = fs.files[h].name  BY <2>5, <2>8, <4>2 DEF FP!File
      <4>4. \A i \in FP!Existing : i # h => fs'.files[i] = fs.files[i]
        BY <2>5, <2>8, <3>2, <4>1
      <4>5. QED BY <4>3, <4>4
    <3>3. QED BY <2>7, <3>1, <3>2
  <2>11. file_counter' = file_counter + 1  BY <1>3 DEF WriteDocument
  <2>12. QED BY <1>1, <1>3, <2>6, <2>9, <2>10, <2>11
<1>4. QED BY <1>2, <1>3

(* Steps that leave the files alone and do not end a save *)
LEMMA FilesAlone ==
  ASSUME FilesOK, UNCHANGED files, pc' = "save" <=> pc = "save"
  PROVE  FilesOK'
BY DEF files, FilesOK, Saving, FP!FsOK, FP!CountMatchesSlots, FP!Existing

LEMMA FilesKept ==
  ASSUME FilesOK, NP!TextInv, [Next]_vars
  PROVE  FilesOK'
<1>1. CASE TakeKey \/ IgnoreKey \/ EditText
  <2>1. UNCHANGED files /\ pc # "save" /\ pc' # "save"
    BY <1>1 DEF TakeKey, IgnoreKey, EditText
  <2>2. QED BY <2>1, FilesAlone
<1>2. CASE Sample \/ ClickWindows \/ ClickIcons \/ ClickTaskbar \/ Finish
  <2>1. UNCHANGED files /\ pc # "save" /\ pc' # "save"
    BY <1>2 DEF Sample, ClickWindows, ClickIcons, ClickTaskbar, Finish
  <2>2. QED BY <2>1, FilesAlone
<1>3. CASE KeyArrives \/ MousePacket
  <2>1. UNCHANGED <<files, pc>>  BY <1>3 DEF KeyArrives, MousePacket
  <2>2. QED BY <2>1, FilesAlone
<1>4. CASE UNCHANGED vars
  <2>1. UNCHANGED <<files, pc>>  BY <1>4 DEF vars, files
  <2>2. QED BY <2>1, FilesAlone
<1>5. CASE CreateDocument
  <2>1. /\ pc' = "save" /\ file_counter' = file_counter /\ FP!FsOK'
        /\ file_counter \in Nat /\ pc = "key"
    BY <1>5, CreateDocumentEffect DEF FilesOK, CreateDocument
  <2>2. \A i \in FP!Existing : \E k \in Nat :
          fs.files[i].name = FileName(k) /\ k < file_counter
    BY <2>1 DEF FilesOK, Saving
  <2>3. CASE UNCHANGED fs /\ ~result'.ok
    <3>1. FP!Existing' = FP!Existing /\ ~Saving'
      BY <2>3 DEF FP!Existing, Saving
    <3>2. QED BY <2>1, <2>2, <2>3, <3>1 DEF FilesOK
  <2>4. ASSUME NEW slot \in FP!Slots \ FP!Existing,
               FP!Existing' = FP!Existing \cup {slot},
               result'.ok, result'.handles = {slot},
               fs'.files[slot].name = FileName(file_counter),
               \A i \in FP!Existing : fs'.files[i] = fs.files[i]
        PROVE  FilesOK'
    <3>1. Saving' /\ slot \in result'.handles  BY <2>1, <2>4 DEF Saving
    <3>2. \A i \in FP!Existing' : \E k \in Nat :
            /\ fs'.files[i].name = FileName(k)
            /\ k < file_counter' \/ (k = file_counter' /\ Saving' /\ i \in result'.handles)
      BY <2>1, <2>2, <2>4, <3>1
    <3>3. \A i \in FP!Existing : fs.files[i].name # FileName(file_counter)
      <4>1. TAKE i \in FP!Existing
      <4>2. PICK k \in Nat : fs.files[i].name = FileName(k) /\ k < file_counter
        BY <2>2
      <4>3. k # file_counter  BY <2>1, <4>2
      <4>4. QED BY <2>1, <4>2, <4>3, NamesDiffer
    <3>4. \A i, j \in FP!Existing' :
            fs'.files[i].name = fs'.files[j].name => i = j
      BY <2>4, <3>3 DEF FilesOK
    <3>5. Saving' => \E w \in FP!Existing' : result'.handles = {w}
      BY <2>4
    <3>6. QED BY <2>1, <3>2, <3>4, <3>5 DEF FilesOK
  <2>5. QED BY <1>5, <2>3, <2>4, CreateDocumentEffect
<1>6. CASE WriteDocument
  <2>1. /\ pc' = "keys" /\ pc = "save" /\ FP!FsOK' /\ FP!Existing' = FP!Existing
        /\ \A i \in FP!Existing : fs'.files[i].name = fs.files[i].name
        /\ file_counter \in Nat
        /\ ~result.ok => file_counter' = file_counter
        /\ result.ok => file_counter' = file_counter + 1
    BY <1>6, WriteDocumentEffect DEF FilesOK, WriteDocument
  <2>2. ~Saving'  BY <2>1 DEF Saving
  <2>3. ASSUME NEW i \in FP!Existing
        PROVE  \E k \in Nat : fs'.files[i].name = FileName(k) /\ k < file_counter'
    <3>1. PICK k \in Nat : /\ fs.files[i].name = FileName(k)
                           /\ k < file_counter \/ (k = file_counter /\ Saving)
      BY DEF FilesOK
    <3>2. k < file_counter'  BY <2>1, <3>1 DEF Saving
    <3>3. QED BY <2>1, <3>1, <3>2
  <2>4. \A i, j \in FP!Existing : fs'.files[i].name = fs'.files[j].name => i = j
    BY <2>1 DEF FilesOK
  <2>5. file_counter' \in Nat  BY <2>1
  <2>6. QED BY <2>1, <2>2, <2>3, <2>4, <2>5 DEF FilesOK
<1>7. QED BY <1>1, <1>2, <1>3, <1>4, <1>5, <1>6 DEF Next, MainLoop

LEMMA FilesInit ==
  ASSUME Init
  PROVE  FilesOK
<1>1. FP!Init
  BY DEF Init, FS!Init, FP!Init, FS!Slots, FP!Slots
<1>2. FP!FsOK  BY <1>1, FP!InitFiles, FilesLimits
<1>3. FP!Existing = {}  BY <1>1 DEF FP!Init, FP!Existing
<1>4. ~Saving /\ file_counter \in Nat  BY DEF Init, Saving
<1>5. QED BY <1>2, <1>3, <1>4 DEF FilesOK

-----------------------------------------------------------------------------
(* The clicks *)

(* A press that was taken for a click is remembered as the sample of the   *)
(* pass that took it, and then as the previous state of the button.        *)
ButtonOK ==
  mouse.left /\ ~unseen =>
    IF pc \in {"windows", "icons", "taskbar", "finish"} THEN sampled
    ELSE prev_left_button

LEMMA ButtonKept ==
  ASSUME ButtonOK, GuiOK, unseen \in BOOLEAN, [Next]_vars
  PROVE  ButtonOK' /\ unseen' \in BOOLEAN
<1>1. CASE MousePacket
  <2>1. UNCHANGED <<pc, sampled, prev_left_button>>
          /\ unseen' = ((mouse'.left /\ ~mouse.left) \/ unseen)
    BY <1>1 DEF MousePacket
  <2>2. QED BY <2>1 DEF ButtonOK
<1>2. CASE Sample
  BY <1>2 DEF Sample, ButtonOK, env
<1>3. CASE Finish
  BY <1>3 DEF Finish, ButtonOK, env
<1>4. CASE TakeKey \/ IgnoreKey \/ EditText \/ CreateDocument \/ WriteDocument
  BY <1>4 DEF TakeKey, IgnoreKey, EditText, CreateDocument, WriteDocument, ButtonOK, env
<1>5. CASE ClickWindows \/ ClickIcons \/ ClickTaskbar
  BY <1>5 DEF ClickWindows, ClickIcons, ClickTaskbar, ButtonOK, env
<1>6. CASE KeyArrives
  BY <1>6 DEF KeyArrives, ButtonOK, env
<1>7. CASE UNCHANGED vars
  BY <1>7 DEF vars, ButtonOK
<1>8. QED BY <1>1, <1>2, <1>3, <1>4, <1>5, <1>6, <1>7 DEF Next, MainLoop

-----------------------------------------------------------------------------
(* The invariant of the running system *)

ProgramCounters == {"keys", "key", "save", "sample", "windows", "icons",
                    "taskbar", "finish"}

Inv ==
  /\ GuiOK
  /\ NP!TextInv
  /\ FilesOK
  /\ ButtonOK /\ unseen \in BOOLEAN
  /\ pc \in ProgramCounters

LEMMA ProgramCounterKept ==
  ASSUME pc \in ProgramCounters, [Next]_vars
  PROVE  pc' \in ProgramCounters
BY DEF ProgramCounters, Next, MainLoop, TakeKey, IgnoreKey, EditText, CreateDocument,
       WriteDocument, Sample, ClickWindows, ClickIcons, ClickTaskbar, Finish,
       KeyArrives, MousePacket, vars

LEMMA InvStep == Inv /\ [Next]_vars => Inv' /\ GoodStep(table, table')
BY GuiKept, TextKept, FilesKept, ButtonKept, ProgramCounterKept DEF Inv, GuiStep

LEMMA DesktopInvariant == Spec => []Inv
<1>1. Init => Inv
  <2> SUFFICES ASSUME Init PROVE Inv
    OBVIOUS
  <2>1. ButtonOK /\ unseen \in BOOLEAN /\ pc \in ProgramCounters
    BY DEF Init, ButtonOK, ProgramCounters
  <2>2. QED BY <2>1, GuiInit, TextInit, FilesInit DEF Inv
<1>2. QED BY <1>1, InvStep, PTL DEF Spec

(* Every pointer the program keeps names a slot in use, the cursor stays   *)
(* in the text and the files fit their slots, whatever keys, packets and   *)
(* passes of the main loop come in whatever order.                         *)
THEOREM DesktopTypeCorrect == Spec => []TypeOK
<1>1. Inv => TypeOK
  <2> SUFFICES ASSUME Inv PROVE TypeOK
    OBVIOUS
  <2>1. GuiOK /\ TablesOK(table)  BY DEF Inv, GuiOK
  <2>2. W!TypeOK
    <3>1. WP!TypeOK
      BY <2>1, TablesShape DEF WP!TypeOK, WP!Table
    <3>2. QED BY <3>1, SameWindows
  <2>3. N!TypeOK
    BY DEF Inv, NP!TextInv, NP!TypeOK, N!TypeOK, NP!Cells, N!Cells
  <2>4. FS!TypeOK
    <3>1. FP!FsOK  BY DEF Inv, FilesOK
    <3>2. FP!TypeOK  BY <3>1, FP!FsFits, FilesLimits
    <3>3. QED BY <3>2, SameFiles
  <2>5. /\ \A a \in Apps : app_window[a] \in W!InUse(table) \cup {NULL}
        /\ dragging_window \in W!InUse(table) \cup {NULL}
    BY <2>1, SameWindows DEF GuiOK
  <2>6. QED BY <2>2, <2>3, <2>4, <2>5 DEF TypeOK, Inv, ProgramCounters
<1>2. QED BY <1>1, DesktopInvariant, PTL

(* The flag the key loop tests is the focus: no visible window but the     *)
(* focused one ever carries it, through whatever old pointer windows were  *)
(* focused.                                                                *)
THEOREM FocusFlagAgrees == Spec => []FocusFlagIsFocus
<1>1. Inv => FocusFlagIsFocus
  BY SameWindows DEF Inv, GuiOK, TablesOK, FlagIsFocus, FocusFlagIsFocus
<1>2. QED BY <1>1, DesktopInvariant, PTL

(* No icon, drag or taskbar button reopens a window that was closed.       *)
THEOREM NothingReopens == Spec => ClosedStaysClosed
<1>1. Inv /\ [Next]_vars => [Closed \subseteq Closed']_table
  <2> SUFFICES ASSUME Inv, [Next]_vars PROVE Closed \subseteq Closed'
    OBVIOUS
  <2>1. ClosedIn(table) \subseteq ClosedIn(table')  BY InvStep DEF GoodStep
  <2>2. Closed = ClosedIn(table)
    BY SameWindows DEF Closed, ClosedIn
  <2>3. Closed' = ClosedIn(table')
    BY SameWindows DEF Closed, ClosedIn
  <2>4. QED BY <2>1, <2>2, <2>3
<1>2. QED BY <1>1, DesktopInvariant, PTL DEF Spec, ClosedStaysClosed

(* A click is only seen after a press, and for each press at most once,    *)
(* wherever the packets fall between the reads of the button.              *)
THEOREM ClicksArePresses == Spec => NoGhostClick
<1>1. Inv /\ [Next]_vars => [clicked' => unseen]_clicked
  <2> SUFFICES ASSUME Inv, [Next]_vars, clicked' # clicked, clicked'
               PROVE  unseen
    OBVIOUS
  <2>1. CASE Sample
    BY <2>1 DEF Sample, Inv, ButtonOK
  <2>2. CASE Finish  BY <2>2 DEF Finish
  <2>3. CASE ~Sample /\ ~Finish
    BY <2>3 DEF Next, MainLoop, TakeKey, IgnoreKey, EditText, CreateDocument,
                WriteDocument, ClickWindows, ClickIcons, ClickTaskbar,
                KeyArrives, MousePacket, vars
  <2>4. QED BY <2>1, <2>2, <2>3
<1>2. QED BY <1>1, DesktopInvariant, PTL DEF Spec, NoGhostClick

(* Saving a document leaves every other one as it is, and nothing but a    *)
(* save touches the files.                                                 *)
THEOREM DocumentsAreKept == Spec => SavedDocumentsKept
<1> DEFINE Kept(i) == \/ pc = "save" /\ i \in result.handles
                      \/ i \in FS!Existing' /\ Document(i)' = Document(i)
<1>1. Inv /\ [Next]_vars => [\A i \in FS!Existing : Kept(i)]_vars
  <2> SUFFICES ASSUME Inv, [Next]_vars, NEW i \in FS!Existing
               PROVE  Kept(i)
    OBVIOUS
  <2>1. FilesOK /\ NP!TextInv /\ i \in FP!Existing  BY SameFiles DEF Inv
  <2>2. ASSUME FP!Existing \subseteq FP!Existing', fs'.files[i] = fs.files[i]
        PROVE  Kept(i)
    <3>1. FS!Existing' = FP!Existing'
      BY DEF FS!Existing, FP!Existing, FS!Slots, FP!Slots
    <3>2. Document(i)' = Document(i)  BY <2>2 DEF Document, FS!Content
    <3>3. QED BY <2>1, <2>2, <3>1, <3>2
  <2>3. CASE UNCHANGED fs
    <3>1. FP!Existing' = FP!Existing  BY <2>3 DEF FP!Existing
    <3>2. QED BY <2>2, <2>3, <3>1
  <2>4. CASE CreateDocument
    <3>1. \/ UNCHANGED fs
          \/ \E slot : FP!Existing' = FP!Existing \cup {slot}
                       /\ \A j \in FP!Existing : fs'.files[j] = fs.files[j]
      BY <2>1, <2>4, CreateDocumentEffect
    <3>2. QED BY <2>1, <2>2, <2>3, <3>1
  <2>5. CASE WriteDocument
    <3>1. /\ FP!Existing' = FP!Existing /\ pc = "save"
          /\ UNCHANGED fs \/ \A j \in FP!Existing \ result.handles :
                               fs'.files[j] = fs.files[j]
      BY <2>1, <2>5, WriteDocumentEffect DEF WriteDocument
    <3>2. QED BY <2>1, <2>2, <2>3, <3>1
  <2>6. CASE ~CreateDocument /\ ~WriteDocument
    <3>1. UNCHANGED fs
      BY <2>6 DEF Next, MainLoop, TakeKey, IgnoreKey, EditText, Sample, Finish,
               ClickWindows, ClickIcons, ClickTaskbar, KeyArrives, MousePacket,
               vars, files
    <3>2. QED BY <2>3, <3>1
  <2>7. QED BY <2>4, <2>5, <2>6
<1>2. QED BY <1>1, DesktopInvariant, PTL DEF Spec, SavedDocumentsKept

(* No two documents share a name, and the next one will not clash either.  *)
THEOREM DocumentNamesDiffer == Spec => []DocumentsDistinct
<1>1. Inv => DocumentsDistinct
  <2> SUFFICES ASSUME Inv, NEW i \in FP!Existing
               PROVE  /\ \A j \in FP!Existing :
                           fs.files[i].name = fs.files[j].name => i = j
                      /\ fs.files[i].name = FileName(file_counter) => Saving
    BY SameFiles DEF DocumentsDistinct, Saving
  <2>1. FilesOK  BY DEF Inv
  <2>2. PICK k \in Nat : /\ fs.files[i].name = FileName(k)
                         /\ k < file_counter \/ (k = file_counter /\ Saving)
    BY <2>1 DEF FilesOK
  <2>3. ASSUME fs.files[i].name = FileName(file_counter) PROVE Saving
    <3>1. k = file_counter  BY <2>1, <2>2, <2>3, NamesDiffer DEF FilesOK
    <3>2. QED BY <2>2, <3>1
  <2>4. QED BY <2>1, <2>3 DEF FilesOK
<1>2. QED BY <1>1, DesktopInvariant, PTL

-----------------------------------------------------------------------------
(* What is seen and what is clicked *)

(* The buttons and the title bar lie within the window. *)
LEMMA HitIsOnBody ==
  ASSUME GuiOK, NEW win \in WP!InUse(table)
  PROVE  Hit(win) <=> W!OnScreen(table, win) /\ OnBody(table.windows[win])
<1>1. PICK w : w = table.windows[win]  OBVIOUS
<1>2. /\ w.x \in Int /\ w.y \in Int /\ w.w \in Int /\ w.h \in Int
      /\ 92 <= w.w /\ 30 <= w.h
  <2>1. table \in WP!Table /\ win \in WP!Slots  BY TablesShape DEF GuiOK
  <2>2. w.x \in Int /\ w.y \in Int /\ w.w \in Int /\ w.h \in Int
    BY <1>1, <2>1 DEF WP!Table, WP!Window
  <2>3. QED BY <1>1, <2>2 DEF GuiOK, TablesOK, Roomy
<1>3. mouse.x \in Int /\ mouse.y \in Int  BY ScreenAssumption DEF GuiOK
<1>4. OnClose(w) \/ OnMinimize(w) \/ OnTitle(w) => OnBody(w)
  BY <1>2, <1>3 DEF OnClose, OnMinimize, OnTitle, OnBody, InRect, close_x,
                    W!TITLE_BAR_HEIGHT
<1>5. QED BY <1>1, <1>4 DEF Hit

(* The focused window is the last slot in use, so that drawing it after    *)
(* the others keeps the order of the slots.                                *)
LEMMA TurnsFollowSlots ==
  ASSUME TablesOK(table), NEW i \in WP!InUse(table), NEW j \in WP!InUse(table)
  PROVE  Turn(i) <= Turn(j) <=> i <= j
<1>1. PICK n : n = table.window_count  OBVIOUS
<1>2. n \in Nat /\ i \in 0 .. n - 1 /\ j \in 0 .. n - 1
  BY <1>1, TablesShape DEF WP!InUse
<1>3. \A k \in 0 .. n - 1 : k = table.focused_window => k = n - 1
  BY <1>1 DEF TablesOK, WP!TableOK, WP!NULL
<1>4. QED BY <1>1, <1>2, <1>3 DEF Turn

(* Of any windows in use one is drawn after all the others, the one in the *)
(* greatest slot.                                                          *)
LEMMA LatestIsGreatest ==
  ASSUME TablesOK(table), NEW S \in SUBSET WP!InUse(table), S # {}
  PROVE  /\ Latest(S) = Greatest(S) /\ Greatest(S) \in S
         /\ \A j \in S : j <= Greatest(S)
<1>1. table.window_count \in Nat  BY TablesShape
<1>2. PICK g : g = Greatest(S)  OBVIOUS
<1>3. g \in S /\ \A j \in S : j <= g
  BY <1>1, <1>2, GreatestOfSlots DEF WP!InUse
<1>4. \A j \in S : Turn(j) <= Turn(g)  BY <1>3, TurnsFollowSlots
<1>5. \A k \in S : (\A j \in S : Turn(j) <= Turn(k)) => k = g
  <2>1. ASSUME NEW k \in S, \A j \in S : Turn(j) <= Turn(k) PROVE k = g
    <3>1. g <= k  BY <1>3, <2>1, TurnsFollowSlots
    <3>2. k <= g /\ k \in Int /\ g \in Int  BY <1>1, <1>3 DEF WP!InUse
    <3>3. QED BY <3>1, <3>2
  <2>2. QED BY <2>1
<1>6. Latest(S) = g  BY <1>3, <1>4, <1>5 DEF Latest
<1>7. QED BY <1>2, <1>3, <1>6

(* Wherever the user clicks, the window that is seen there is the one that *)
(* gets the click, and the desktop only where no window would take it.     *)
THEOREM ClicksReachWhatIsSeen == Spec => []ClickReachesSeenWindow
<1>1. Inv => ClickReachesSeenWindow
  <2> SUFFICES ASSUME Inv, pc = "windows"
               PROVE  /\ Seen = "desktop" => HitWindows = {}
                      /\ Seen = "window" => /\ HitWindows # {}
                                            /\ Greatest(HitWindows) = SeenWindow
    BY DEF ClickReachesSeenWindow
  <2>1. GuiOK /\ TablesOK(table)  BY DEF Inv, GuiOK
  <2>2. PICK covering : covering = {win \in DrawnWindows : Covers(table.windows[win])}
    OBVIOUS
  <2>3. \A win \in WP!InUse(table) :
          /\ win \in HitWindows
               <=> W!OnScreen(table, win) /\ OnBody(table.windows[win])
          /\ win \in covering
               <=> W!OnScreen(table, win) /\ Covers(table.windows[win])
    BY <2>1, <2>2, SameWindows, HitIsOnBody DEF HitWindows, DrawnWindows
  <2>4. /\ HitWindows \in SUBSET WP!InUse(table)
        /\ covering \in SUBSET WP!InUse(table)
    BY <2>2, SameWindows DEF HitWindows, DrawnWindows
  <2>5. HitWindows \subseteq covering  BY <2>3, <2>4 DEF Covers
  <2>6. ASSUME Seen = "desktop" PROVE HitWindows = {}
    <3>1. covering = {}  BY <2>2, <2>6 DEF Seen
    <3>2. QED BY <2>5, <3>1
  <2>7. ASSUME Seen = "window"
        PROVE  HitWindows # {} /\ Greatest(HitWindows) = SeenWindow
    <3>1. covering # {} /\ OnBody(table.windows[Latest(covering)])
      BY <2>2, <2>7 DEF Seen
    <3>2. PICK g : g = Latest(covering)  OBVIOUS
    <3>3. /\ g \in covering /\ \A j \in covering : j <= g
      BY <2>1, <2>4, <3>1, <3>2, LatestIsGreatest
    <3>4. g \in HitWindows  BY <2>3, <2>4, <3>1, <3>2, <3>3
    <3>5. PICK h : h = Greatest(HitWindows)  OBVIOUS
    <3>6. h \in HitWindows /\ \A j \in HitWindows : j <= h
      BY <2>1, <2>4, <3>4, <3>5, LatestIsGreatest
    <3>7. g <= h /\ h <= g  BY <2>5, <3>3, <3>4, <3>6
    <3>8. g \in Int /\ h \in Int
      BY <2>1, <2>4, <3>3, <3>6, TablesShape DEF WP!InUse
    <3>9. SeenWindow = g  BY <2>2, <3>2 DEF SeenWindow
    <3>10. QED BY <3>4, <3>5, <3>7, <3>8, <3>9
  <2>8. QED BY <2>6, <2>7
<1>2. QED BY <1>1, DesktopInvariant, PTL
=============================================================================
