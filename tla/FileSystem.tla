----------------------------- MODULE FileSystem -----------------------------
(***************************************************************************)
(* kernel/filesystem.c: the RAM file system.  A fixed array of slots, a    *)
(* count of the slots in use, and calls that find slots by name.  A handle *)
(* (a pointer to file_t) is the index of a slot; NULL is -1.  A C string    *)
(* is the sequence of its characters before the NUL.                        *)
(***************************************************************************)
EXTENDS Integers, Sequences, FiniteSets

CONSTANTS
  MAX_FILES, MAX_FILENAME_LEN, MAX_FILE_SIZE,
  Names,       (* the names callers pass              *)
  Contents     (* the data callers write, as sequences *)

ASSUME LimitsAssumption ==
  /\ MAX_FILES \in Nat
  /\ MAX_FILENAME_LEN \in Nat \ {0}
  /\ MAX_FILE_SIZE \in Nat
(* Strings and data are arrays of bytes *)
ASSUME StringsAssumption ==
  Names \subseteq Seq(Nat) /\ Contents \subseteq Seq(Nat)

VARIABLES
  fs,          (* [files, file_count]                         *)
  result       (* what the last call returned to its caller   *)

vars == <<fs, result>>

NULL == -1
Slots == 0 .. MAX_FILES - 1
Existing == {i \in Slots : fs.files[i].exists}
LeastOf(S) == CHOOSE i \in S : \A j \in S : i <= j

Return(ok, handles, bytes, size) ==
  result' = [ok |-> ok, handles |-> handles, bytes |-> bytes, size |-> size]

(* fs_init on the zeroed static array *)
Init ==
  /\ fs = [files |-> [i \in Slots |->
                        [name |-> <<>>, data |-> [b \in 1 .. MAX_FILE_SIZE |-> 0],
                         size |-> 0, exists |-> FALSE]],
           file_count |-> 0]
  /\ result = [ok |-> TRUE, handles |-> {}, bytes |-> <<>>, size |-> 0]

(* Mutant: the copy loop leaves no room for the NUL *)
StoredName_NoNul(n) ==
  IF Len(n) < MAX_FILENAME_LEN THEN n ELSE SubSeq(n, 1, MAX_FILENAME_LEN)

(* The copy loop keeps room for the terminating NUL *)
StoredName(n) ==
  IF Len(n) < MAX_FILENAME_LEN THEN n ELSE SubSeq(n, 1, MAX_FILENAME_LEN - 1)

(* The byte array of a reused slot is not cleared *)
NewFile(slot, n) ==
  [fs.files[slot] EXCEPT !.name = StoredName(n), !.size = 0, !.exists = TRUE]

fs_create_file(n) ==
  LET free == Slots \ Existing IN
  IF fs.file_count >= MAX_FILES \/ free = {}
  THEN Return(FALSE, {}, <<>>, 0) /\ UNCHANGED fs
  ELSE LET slot == LeastOf(free) IN
       /\ fs' = [fs EXCEPT !.files[slot] = NewFile(slot, n),
                           !.file_count = @ + 1]
       /\ Return(TRUE, {slot}, <<>>, 0)

(* Mutant: deleted files are found too *)
Find_Deleted(n) ==
  LET match == {i \in Slots : fs.files[i].name = n} IN
  IF match = {} THEN NULL ELSE LeastOf(match)

(* The comparison runs over both strings and their NUL, so a stored name   *)
(* matches only itself                                                     *)
Find(n) ==
  LET match == {i \in Existing : fs.files[i].name = n} IN
  IF match = {} THEN NULL ELSE LeastOf(match)

(* fs_open_file, fs_file_exists and fs_get_file_size *)
fs_open_file(n) ==
  /\ LET h == Find(n) IN
     IF h = NULL THEN Return(FALSE, {}, <<>>, 0)
                 ELSE Return(TRUE, {h}, <<>>, fs.files[h].size)
  /\ UNCHANGED fs

fs_write_file(h, data) ==
  IF h = NULL \/ h \notin Existing \/ Len(data) > MAX_FILE_SIZE
  THEN Return(FALSE, {}, <<>>, 0) /\ UNCHANGED fs
  ELSE /\ fs' = [fs EXCEPT
                   !.files[h].data = [b \in DOMAIN @ |->
                      IF b \in 1 .. Len(data) THEN data[b] ELSE @[b]],
                   !.files[h].size = Len(data)]
       /\ Return(TRUE, {}, <<>>, 0)

(* buffer: whether there is one to read into *)
fs_read_file(h, buffer, buffer_size) ==
  /\ IF h = NULL \/ h \notin Existing \/ ~buffer
     THEN Return(FALSE, {}, <<>>, 0)
     ELSE LET size == fs.files[h].size
              to_read == IF size > buffer_size THEN buffer_size ELSE size
          IN  Return(TRUE, {}, [b \in 1 .. to_read |-> fs.files[h].data[b]], to_read)
  /\ UNCHANGED fs

(* Mutant: the counter is not decremented *)
fs_delete_file_NoCount(n) ==
  LET h == Find(n) IN
  IF h = NULL
  THEN Return(FALSE, {}, <<>>, 0) /\ UNCHANGED fs
  ELSE /\ fs' = [fs EXCEPT !.files[h].exists = FALSE, !.files[h].size = 0]
       /\ Return(TRUE, {}, <<>>, 0)

fs_delete_file(n) ==
  LET h == Find(n) IN
  IF h = NULL
  THEN Return(FALSE, {}, <<>>, 0) /\ UNCHANGED fs
  ELSE /\ fs' = [fs EXCEPT !.files[h].exists = FALSE, !.files[h].size = 0,
                           !.file_count = @ - 1]
       /\ Return(TRUE, {}, <<>>, 0)

(* The first max_files existing slots, in slot order *)
Listed(max_files) ==
  {i \in Existing : Cardinality({j \in Existing : j < i}) < max_files}

fs_list_files(max_files) ==
  /\ Return(TRUE, Listed(max_files), <<>>, Cardinality(Listed(max_files)))
  /\ UNCHANGED fs

Next ==
  \/ \E n \in Names : fs_create_file(n) \/ fs_open_file(n) \/ fs_delete_file(n)
  \/ \E h \in Slots \cup {NULL}, data \in Contents : fs_write_file(h, data)
  \/ \E h \in Slots \cup {NULL}, buffer \in BOOLEAN, room \in 0 .. MAX_FILE_SIZE :
       fs_read_file(h, buffer, room)
  \/ \E room \in 0 .. MAX_FILES : fs_list_files(room)

Spec == Init /\ [][Next]_vars

-----------------------------------------------------------------------------
(* The refinement mapping: slots that exist, bytes before size *)

Content(f) == [b \in 1 .. f.size |-> f.data[b]]

Dir == INSTANCE Directory
         WITH Handle <- Slots \cup {NULL}, Capacity <- MAX_FILES,
              Stored <- StoredName, MaxSize <- MAX_FILE_SIZE,
              dir <- [i \in Existing |-> [name |-> fs.files[i].name,
                                          content |-> Content(fs.files[i])]]

-----------------------------------------------------------------------------
(* Properties *)

(* Names fit their array with its NUL, sizes fit the data array, and the   *)
(* counter is one of an array of MAX_FILES files.                          *)
TypeOK ==
  /\ DOMAIN fs.files = Slots
  /\ fs.file_count \in 0 .. MAX_FILES
  /\ \A i \in Slots :
       /\ Len(fs.files[i].name) < MAX_FILENAME_LEN
       /\ DOMAIN fs.files[i].data = 1 .. MAX_FILE_SIZE
       /\ fs.files[i].size \in 0 .. MAX_FILE_SIZE
       /\ fs.files[i].exists \in BOOLEAN

(* The counter that decides whether a file may be created agrees with the  *)
(* slots after every sequence of creations and deletions, duplicates of a  *)
(* name included: it neither refuses a free slot nor promises a full one.  *)
CountMatchesSlots == fs.file_count = Cardinality(Existing)

(* The file system implements the directory: reused slots never show the   *)
(* bytes of the file they held before, a write touches one file, a delete  *)
(* removes exactly one, a list misses none, and no call fails without the  *)
(* reason Directory gives.                                                 *)
ImplementsDirectory == Dir!Spec
=============================================================================
