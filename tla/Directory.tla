------------------------------ MODULE Directory ------------------------------
(***************************************************************************)
(* What the file system promises its callers: at most Capacity files, each *)
(* with a handle, a name and a content.  Names need not be unique.  No     *)
(* slots, counters, byte arrays or stale bytes are visible; a call fails   *)
(* only for the reasons stated here.                                       *)
(***************************************************************************)
EXTENDS Integers, Sequences, FiniteSets

CONSTANTS
  Handle, Capacity,
  Stored(_),          (* the name under which a created file is kept *)
  Names, Contents,    (* what callers pass                           *)
  MaxSize

VARIABLES
  dir,      (* handle -> [name, content], for the handles of existing files *)
  result    (* what the last call returned                                  *)

vars == <<dir, result>>

Return(ok, handles, bytes, size) ==
  result' = [ok |-> ok, handles |-> handles, bytes |-> bytes, size |-> size]

Init == /\ dir = [h \in {} |-> <<>>]
        /\ result = [ok |-> TRUE, handles |-> {}, bytes |-> <<>>, size |-> 0]

Files == DOMAIN dir
Named(n) == {h \in Files : dir[h].name = n}

Create(n) ==
  \/ /\ Cardinality(Files) < Capacity
     /\ \E h \in Handle \ Files :
          /\ dir' = [g \in Files \cup {h} |->
                       IF g = h THEN [name |-> Stored(n), content |-> <<>>]
                                ELSE dir[g]]
          /\ Return(TRUE, {h}, <<>>, 0)
  \/ /\ Cardinality(Files) = Capacity
     /\ Return(FALSE, {}, <<>>, 0)
     /\ UNCHANGED dir

(* Open, exists and get_size all find some file of that name, if any *)
Find(n) ==
  /\ \/ \E h \in Named(n) : Return(TRUE, {h}, <<>>, Len(dir[h].content))
     \/ Named(n) = {} /\ Return(FALSE, {}, <<>>, 0)
  /\ UNCHANGED dir

Write(h, data) ==
  IF h \in Files /\ Len(data) <= MaxSize
  THEN /\ dir' = [dir EXCEPT ![h].content = data]
       /\ Return(TRUE, {}, <<>>, 0)
  ELSE Return(FALSE, {}, <<>>, 0) /\ UNCHANGED dir

(* Reads need somewhere to read into *)
Read(h, given, room) ==
  /\ IF h \in Files /\ given
     THEN LET c == dir[h].content
              n == IF Len(c) < room THEN Len(c) ELSE room
          IN  Return(TRUE, {}, SubSeq(c, 1, n), n)
     ELSE Return(FALSE, {}, <<>>, 0)
  /\ UNCHANGED dir

(* Exactly one file of that name goes *)
Delete(n) ==
  \/ \E h \in Named(n) :
       /\ dir' = [g \in Files \ {h} |-> dir[g]]
       /\ Return(TRUE, {}, <<>>, 0)
  \/ Named(n) = {} /\ Return(FALSE, {}, <<>>, 0) /\ UNCHANGED dir

List(room) ==
  /\ \E S \in SUBSET Files :
       /\ Cardinality(S) = IF Cardinality(Files) < room
                           THEN Cardinality(Files) ELSE room
       /\ Return(TRUE, S, <<>>, Cardinality(S))
  /\ UNCHANGED dir

Next ==
  \/ \E n \in Names : Create(n) \/ Find(n) \/ Delete(n)
  \/ \E h \in Handle, data \in Contents : Write(h, data)
  \/ \E h \in Handle, given \in BOOLEAN, room \in 0 .. MaxSize : Read(h, given, room)
  \/ \E room \in 0 .. Capacity : List(room)

Spec == Init /\ [][Next]_vars
=============================================================================
