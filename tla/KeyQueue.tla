------------------------------ MODULE KeyQueue ------------------------------
(***************************************************************************)
(* What the keyboard driver promises the rest of the kernel: a bounded     *)
(* first-in first-out queue of typed characters.  The interrupt side       *)
(* appends, the main loop takes; a character is never reordered,           *)
(* duplicated, altered or lost once it has been accepted.                  *)
(***************************************************************************)
EXTENDS Naturals, Sequences

CONSTANTS
  Char,      (* the characters a key can produce; 0 is not one of them *)
  Capacity   (* how many characters may wait at once                   *)

VARIABLES
  queue,     (* accepted and not yet taken, oldest first           *)
  last       (* the character the main loop took last, 0 if none   *)

vars == <<queue, last>>

Init == queue = <<>> /\ last = 0

Accept(c) ==
  /\ Len(queue) < Capacity
  /\ queue' = Append(queue, c)
  /\ UNCHANGED last

Take ==
  /\ queue # <<>>
  /\ last' = Head(queue)
  /\ queue' = Tail(queue)

Next == Take \/ \E c \in Char : Accept(c)

Spec == Init /\ [][Next]_vars

FairSpec == Spec /\ WF_vars(Take)
=============================================================================
