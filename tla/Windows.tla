------------------------------- MODULE Windows -------------------------------
(***************************************************************************)
(* The window table of kernel/gui.c: an array of slots that is also the    *)
(* z-order, the number of slots in use and a pointer to the focused slot.  *)
(* A pointer to window_t is the index of a slot; NULL is -1.  Focusing a   *)
(* window moves its contents to the last slot in use and shifts the others *)
(* down, so a pointer names a slot and not a window.                       *)
(*                                                                         *)
(* Each operation is an operator on the table (Table stands for the three  *)
(* static variables), so that a handler that makes several calls is one    *)
(* step; the actions below let any caller pass any slot in use, which is   *)
(* what a caller with an old pointer does.                                 *)
(*                                                                         *)
(* id and app are not in the code: id is the order of creation, app stands *)
(* for title, on_draw and on_click.                                        *)
(***************************************************************************)
EXTENDS Integers, Sequences

CONSTANTS
  MAX_WINDOWS,
  screen_w, screen_h,
  Shapes          (* [app, x, y, w, h] records callers pass to create *)

TASKBAR_HEIGHT == 40
TITLE_BAR_HEIGHT == 30
NULL == -1

ASSUME WindowsAssumption ==
  /\ MAX_WINDOWS \in Nat
  /\ screen_w \in Nat /\ screen_h \in Nat

(* Callers create windows that fit above the taskbar and have a title bar *)
ASSUME ShapesAssumption ==
  \A s \in Shapes : /\ s.x \in Int /\ s.y \in Int /\ s.w \in Nat /\ s.h \in Nat
                    /\ s.w <= screen_w
                    /\ TITLE_BAR_HEIGHT <= s.h
                    /\ s.h <= screen_h - TASKBAR_HEIGHT

Slots == 0 .. MAX_WINDOWS - 1
Flags == {"VISIBLE", "FOCUSED", "MINIMIZED"}

VARIABLE table    (* [windows, window_count, focused_window] *)

InUse(t) == 0 .. t.window_count - 1
Visible(t, win) == "VISIBLE" \in t.windows[win].flags
Minimized(t, win) == "MINIMIZED" \in t.windows[win].flags
OnScreen(t, win) == Visible(t, win) /\ ~Minimized(t, win)

ClearFlag(t, win, f) == [t EXCEPT !.windows[win].flags = @ \ {f}]
SetFlag(t, win, f) == [t EXCEPT !.windows[win].flags = @ \cup {f}]

EmptyTable ==
  [windows |-> [i \in Slots |-> [id |-> 0, app |-> "none", x |-> 0, y |-> 0,
                                 w |-> 0, h |-> 0, flags |-> {}]],
   window_count |-> 0, focused_window |-> NULL]

(* Mutant: the window that moves is not saved before the others shift *)
MoveToTop_NoSave(t, win) ==
  LET top == t.window_count - 1 IN
  [t EXCEPT !.windows = [i \in Slots |->
     IF i \in win .. top - 1 THEN t.windows[i + 1] ELSE t.windows[i]]]

(* Mutant: the window changes places with the top one *)
MoveToTop_Swap(t, win) ==
  LET top == t.window_count - 1 IN
  [t EXCEPT !.windows[win] = t.windows[top], !.windows[top] = t.windows[win]]

(* Move the contents of slot win to the top slot, shifting down those above *)
MoveToTop(t, win) ==
  LET top == t.window_count - 1 IN
  [t EXCEPT !.windows = [i \in Slots |->
     IF i = top THEN t.windows[win]
     ELSE IF i \in win .. top - 1 THEN t.windows[i + 1]
     ELSE t.windows[i]]]

(* Mutant: the flag and the pointer change, the order does not *)
gui_focus_window_NoMove(t, win) ==
  LET old == IF t.focused_window # NULL
             THEN ClearFlag(t, t.focused_window, "FOCUSED") ELSE t
  IN  [SetFlag(old, win, "FOCUSED") EXCEPT !.focused_window = win]

(* Mutant: the window that had the focus keeps its flag *)
gui_focus_window_NoClear(t, win) ==
  [MoveToTop(SetFlag(t, win, "FOCUSED"), win)
     EXCEPT !.focused_window = t.window_count - 1]

gui_focus_window(t, win) ==
  LET old == IF t.focused_window # NULL
             THEN ClearFlag(t, t.focused_window, "FOCUSED") ELSE t
  IN  [MoveToTop(SetFlag(old, win, "FOCUSED"), win)
         EXCEPT !.focused_window = t.window_count - 1]

Limit(v, hi) == IF v > hi THEN hi ELSE v
AtLeast0(v) == IF v < 0 THEN 0 ELSE v

(* Mutant: one window more than there are slots *)
CanCreate_OneMore(t) == t.window_count <= MAX_WINDOWS

CanCreate(t) == t.window_count < MAX_WINDOWS

(* The slot gui_create_window returns: gui_focus_window leaves the new     *)
(* window where it is, since it is the last one                            *)
NewSlot(t) == t.window_count

gui_create_window(t, s) ==
  LET win == NewSlot(t)
      new == [id |-> win + 1, app |-> s.app, w |-> s.w, h |-> s.h,
              x |-> Limit(AtLeast0(s.x), screen_w - s.w),
              y |-> Limit(AtLeast0(s.y), screen_h - TASKBAR_HEIGHT - s.h),
              flags |-> {"VISIBLE"}]
  IN  gui_focus_window([t EXCEPT !.windows[win] = new, !.window_count = @ + 1], win)

LoseFocus(t, win) ==
  IF t.focused_window = win THEN [t EXCEPT !.focused_window = NULL] ELSE t

gui_destroy_window(t, win) ==
  LoseFocus([t EXCEPT !.windows[win].flags = {}], win)

gui_show_window(t, win) == SetFlag(t, win, "VISIBLE")
gui_hide_window(t, win) == ClearFlag(t, win, "VISIBLE")

(* The close and minimize buttons, and a taskbar button *)
CloseButton(t, win) == LoseFocus(ClearFlag(t, win, "VISIBLE"), win)
MinimizeButton(t, win) == SetFlag(t, win, "MINIMIZED")
TaskbarButton(t, win) == gui_focus_window(ClearFlag(t, win, "MINIMIZED"), win)

(* The drag: x follows the mouse, y is kept on the screen *)
LowestTitleBar == screen_h - TASKBAR_HEIGHT - TITLE_BAR_HEIGHT

(* Mutant: the lower limit of the drag is forgotten *)
DragTo_NoTaskbar(t, win, x, y) ==
  [t EXCEPT !.windows[win].x = x, !.windows[win].y = AtLeast0(y)]

DragTo(t, win, x, y) ==
  [t EXCEPT !.windows[win].x = x,
            !.windows[win].y = Limit(AtLeast0(y), LowestTitleBar)]

-----------------------------------------------------------------------------
CONSTANT DragPositions    (* where the mouse may drag a window to *)

ASSUME DragAssumption == DragPositions \subseteq Int \X Int

Init == table = EmptyTable

Create ==
  \E s \in Shapes : CanCreate(table) /\ table' = gui_create_window(table, s)
Focus ==
  \E win \in InUse(table) : table' = gui_focus_window(table, win)
Destroy ==
  \E win \in InUse(table) : table' = gui_destroy_window(table, win)
Show ==
  \E win \in InUse(table) : table' = gui_show_window(table, win)
Hide ==
  \E win \in InUse(table) : table' = gui_hide_window(table, win)
Close ==
  \E win \in InUse(table) : OnScreen(table, win) /\ table' = CloseButton(table, win)
Minimize ==
  \E win \in InUse(table) : OnScreen(table, win) /\ table' = MinimizeButton(table, win)
Restore ==
  \E win \in InUse(table) : Visible(table, win) /\ table' = TaskbarButton(table, win)
Drag ==
  \E win \in InUse(table), p \in DragPositions :
     table' = DragTo(table, win, p[1], p[2])

Next == Create \/ Focus \/ Destroy \/ Show \/ Hide \/ Close \/ Minimize
          \/ Restore \/ Drag

Spec == Init /\ [][Next]_table

-----------------------------------------------------------------------------
(* The refinement mapping *)

IdsWith(f) == {table.windows[i].id : i \in {j \in InUse(table) :
                                               f \in table.windows[j].flags}}

Stack == INSTANCE WindowStack
           WITH Capacity <- MAX_WINDOWS,
                order <- [i \in 1 .. table.window_count |-> table.windows[i - 1].id],
                active <- IF table.focused_window = NULL THEN 0
                          ELSE table.windows[table.focused_window].id,
                shown <- IdsWith("VISIBLE"),
                iconic <- IdsWith("MINIMIZED")

-----------------------------------------------------------------------------
(* Properties *)

(* The table is an array of MAX_WINDOWS windows with a count and a pointer *)
(* to a slot in use.                                                       *)
Apps == {s.app : s \in Shapes} \cup {"none"}
Window == [id : Nat, app : Apps, x : Int, y : Int, w : Nat, h : Nat,
           flags : SUBSET Flags]

TypeOK ==
  /\ table \in [windows : [Slots -> Window], window_count : 0 .. MAX_WINDOWS,
                focused_window : Slots \cup {NULL}]
  /\ table.focused_window \in InUse(table) \cup {NULL}

(* The focused window is the last slot in use, and carries the flag.       *)
(* gui_update draws it after all the others while handle_mouse searches    *)
(* from the last slot down: only when the two agree does a click reach the *)
(* window the user sees on top.                                            *)
FocusedIsTop ==
  table.focused_window # NULL =>
    /\ table.focused_window = table.window_count - 1
    /\ "FOCUSED" \in table.windows[table.focused_window].flags

(* Shifting the slots never loses or doubles a window: the slots in use    *)
(* hold each window created so far exactly once.                           *)
WindowsConserved ==
  {table.windows[i].id : i \in InUse(table)} = 1 .. table.window_count

(* However windows are created, dragged and shifted, every title bar stays *)
(* in the rows between the top of the screen and the taskbar.  It says     *)
(* nothing of columns: handle_mouse limits y only, so that a title bar can *)
(* be left or right of the screen.                                         *)
TitleBarAboveTaskbar ==
  \A i \in InUse(table) : table.windows[i].y \in 0 .. LowestTitleBar

(* The slot table implements the stack of windows.                         *)
ImplementsStack == Stack!Spec
=============================================================================
