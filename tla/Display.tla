------------------------------- MODULE Display -------------------------------
(***************************************************************************)
(* What gui_update of kernel/gui.c draws at the pointer after handle_mouse *)
(* has run: the desktop, the windows by slot but for the focused one,      *)
(* which comes last, the taskbar and the start menu, each over those       *)
(* before it.  Only areas are modelled, not what is inside them; the       *)
(* cursor, which is over everything, and the icons, which are part of the  *)
(* desktop, are left out.                                                  *)
(***************************************************************************)
EXTENDS Desktop

(* draw_window: first a shadow, in a colour that hides what is below it *)
InShadow(w) == InRect(w.x + 4, w.y + 4, w.w, w.h)
Covers(w) == InShadow(w) \/ OnBody(w)

(* The coordinates of the rectangles are unsigned: of a window that begins *)
(* left of the screen only scattered parts are drawn                       *)
DrawnWhole(w) == w.x >= 0

(* Mutant: the focused window is not drawn last but first *)
Turn_FocusedFirst(win) == IF win = table.focused_window THEN -1 ELSE win

(* When gui_update draws the window in a slot *)
Turn(win) == IF win = table.focused_window THEN table.window_count ELSE win

DrawnWindows == {win \in W!InUse(table) : W!OnScreen(table, win)}
Latest(S) == CHOOSE win \in S : \A other \in S : Turn(other) <= Turn(win)

OnTaskbar == InRect(0, taskbar_y, screen_w, W!TASKBAR_HEIGHT)

Seen ==
  LET covering == {win \in DrawnWindows : Covers(table.windows[win])} IN
  IF start_menu_open /\ OnStartMenu THEN "start menu"
  ELSE IF OnTaskbar THEN "taskbar"
  ELSE IF covering = {} THEN "desktop"
  ELSE IF OnBody(table.windows[Latest(covering)]) THEN "window"
  ELSE "shadow"

SeenWindow == Latest({win \in DrawnWindows : Covers(table.windows[win])})

-----------------------------------------------------------------------------
ScatteredHere ==
  \E win \in DrawnWindows : Covers(table.windows[win]) /\ ~DrawnWhole(table.windows[win])

(* The window the user sees under the pointer is the one that a click      *)
(* reaches, and where the desktop is seen a click reaches none: the order  *)
(* in which gui_update draws and the order in which handle_mouse searches, *)
(* which are two loops over the slots, agree after every click and drag.   *)
(* Nothing is claimed of the bars and the shadows, which let clicks        *)
(* through, and of windows that are not drawn as a whole.                  *)
ClickReachesSeenWindow ==
  pc = "windows" /\ ~ScatteredHere =>
    /\ Seen = "desktop" => HitWindows = {}
    /\ Seen = "window" => HitWindows # {} /\ Greatest(HitWindows) = SeenWindow
=============================================================================
