----------------------------- MODULE WindowStack -----------------------------
(***************************************************************************)
(* What the window manager promises: windows with an identity, stacked     *)
(* bottom to top, at most one of them active.  Slots, pointers and flag    *)
(* words are not visible.  A window once created keeps its place in the    *)
(* stack, even when it is closed; raising one leaves the order of the      *)
(* others alone.                                                           *)
(***************************************************************************)
EXTENDS Naturals, Sequences

CONSTANTS Capacity

NoWindow == 0

VARIABLES
  order,      (* identities, bottom to top            *)
  active,     (* the active window, or NoWindow       *)
  shown,      (* the windows that are open            *)
  iconic      (* the windows that are minimized       *)

vars == <<order, active, shown, iconic>>

Created == {order[i] : i \in 1 .. Len(order)}
NewId == Len(order) + 1

Init == order = <<>> /\ active = NoWindow /\ shown = {} /\ iconic = {}

Open ==
  /\ Len(order) < Capacity
  /\ order' = Append(order, NewId)
  /\ active' = NewId
  /\ shown' = shown \cup {NewId}
  /\ UNCHANGED iconic

(* The window goes to the top, those that were above it come down by one *)
ToTop(w) ==
  \E k \in 1 .. Len(order) :
    /\ order[k] = w
    /\ order' = [i \in 1 .. Len(order) |-> IF i < k THEN order[i]
                                           ELSE IF i < Len(order) THEN order[i + 1]
                                           ELSE w]

Raise(w) ==
  /\ ToTop(w)
  /\ active' = w
  /\ UNCHANGED <<shown, iconic>>

(* A taskbar button restores its window and raises it *)
RestoreAndRaise(w) ==
  /\ ToTop(w)
  /\ active' = w
  /\ iconic' = iconic \ {w}
  /\ UNCHANGED shown

Close(w) ==
  /\ shown' = shown \ {w}
  /\ active' = IF active = w THEN NoWindow ELSE active
  /\ UNCHANGED <<order, iconic>>

Destroy(w) ==
  /\ shown' = shown \ {w}
  /\ iconic' = iconic \ {w}
  /\ active' = IF active = w THEN NoWindow ELSE active
  /\ UNCHANGED order

Minimize(w) == iconic' = iconic \cup {w} /\ UNCHANGED <<order, active, shown>>
Show(w) == shown' = shown \cup {w} /\ UNCHANGED <<order, active, iconic>>
Hide(w) == shown' = shown \ {w} /\ UNCHANGED <<order, active, iconic>>

Next ==
  \/ Open
  \/ \E w \in Created :
       \/ Raise(w) \/ RestoreAndRaise(w) \/ Close(w) \/ Destroy(w)
       \/ Minimize(w) \/ Show(w) \/ Hide(w)

Spec == Init /\ [][Next]_vars
=============================================================================
