----------------------------- MODULE MCWindows -----------------------------
(* Instances of Windows for TLC. *)
EXTENDS Windows

(* A shape that create moves up and one it moves down, and a drag beyond   *)
(* the left and the lower edge of the screen                               *)
TwoShapes == {[app |-> "notepad", x |-> 200, y |-> 100, w |-> 640, h |-> 480],
              [app |-> "settings", x |-> 200, y |-> -5, w |-> 400, h |-> 300]}
EdgeDrags == {<<-50, 590>>}
=============================================================================
