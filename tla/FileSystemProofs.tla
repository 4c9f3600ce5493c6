-------------------------- MODULE FileSystemProofs --------------------------
(***************************************************************************)
(* Proofs about FileSystem, for every number of slots, name length, file   *)
(* size and set of names and contents.                                     *)
(***************************************************************************)
EXTENDS FileSystem, FiniteSetTheorems, SequenceTheorems, TLAPS

(* A non-empty set of naturals has a least member, and LeastOf names it. *)
LEMMA LeastOfSet ==
  ASSUME NEW S \in SUBSET Nat, S # {}
  PROVE  LeastOf(S) \in S /\ \A j \in S : LeastOf(S) <= j
<1>1. PICK i \in S : \A j \in S : ~(<<j, i>> \in OpToRel(<, Nat))
  BY NatLessThanWellFounded, WFMin
<1>2. \A j \in S : ~(j < i)
  BY <1>1 DEF OpToRel
<1>3. \A j \in S : i <= j
  BY <1>2
<1>4. QED BY <1>3 DEF LeastOf

(* The slots, and so the existing files, are finitely many. *)
LEMMA SlotsFinite ==
  /\ Slots \subseteq Nat
  /\ IsFiniteSet(Slots) /\ Cardinality(Slots) = MAX_FILES
  /\ IsFiniteSet(Existing)
  /\ Cardinality(Existing) \in 0 .. MAX_FILES
  /\ Cardinality(Existing) = MAX_FILES => Existing = Slots
<1>1. IsFiniteSet(Slots) /\ Cardinality(Slots) = MAX_FILES
  BY FS_Interval, LimitsAssumption DEF Slots
<1>2. Existing \in SUBSET Slots  BY DEF Existing
<1>3. /\ IsFiniteSet(Existing)
      /\ Cardinality(Existing) <= Cardinality(Slots)
      /\ Cardinality(Slots) = Cardinality(Existing) => Slots = Existing
  BY <1>1, <1>2, FS_Subset
<1>4. Cardinality(Existing) \in Nat  BY <1>3, FS_CardinalityType
<1>5. Slots \subseteq Nat  BY DEF Slots
<1>6. QED BY <1>1, <1>3, <1>4, <1>5, LimitsAssumption

(***************************************************************************)
(* The inductive invariant: the array holds proper files, and the counter  *)
(* is the number of slots in use.                                          *)
(***************************************************************************)
ProperFile(f) ==
  /\ Len(f.name) < MAX_FILENAME_LEN
  /\ f.size \in 0 .. MAX_FILE_SIZE

File == [name : Seq(Nat), data : [1 .. MAX_FILE_SIZE -> Nat],
         size : Nat, exists : BOOLEAN]

FsOK ==
  /\ fs \in [files : [Slots -> File], file_count : Nat]
  /\ \A i \in Slots : ProperFile(fs.files[i])
  /\ CountMatchesSlots

(* A stored name is a name again, and leaves room for its NUL. *)
LEMMA StoredNameFits ==
  ASSUME NEW n \in Seq(Nat)
  PROVE  StoredName(n) \in Seq(Nat) /\ Len(StoredName(n)) < MAX_FILENAME_LEN
<1>1. CASE Len(n) < MAX_FILENAME_LEN  BY <1>1 DEF StoredName
<1>2. CASE ~(Len(n) < MAX_FILENAME_LEN)
  <2>1. Len(n) \in Nat /\ MAX_FILENAME_LEN - 1 \in 0 .. Len(n)
    BY <1>2, LimitsAssumption, LenProperties
  <2>2. /\ SubSeq(n, 1, MAX_FILENAME_LEN - 1) \in Seq(Nat)
        /\ Len(SubSeq(n, 1, MAX_FILENAME_LEN - 1)) = MAX_FILENAME_LEN - 1
    BY <2>1, SubSeqProperties
  <2>3. QED BY <1>2, <2>2, LimitsAssumption DEF StoredName
<1>3. QED BY <1>1, <1>2

(* What a creation that goes through does to the slots *)
LEMMA CreateEffect ==
  ASSUME FsOK, NEW n \in Names, fs_create_file(n)
  PROVE  \/ /\ UNCHANGED fs
            /\ Cardinality(Existing) = MAX_FILES
            /\ Return(FALSE, {}, <<>>, 0)
         \/ \E slot \in Slots \ Existing :
              /\ fs'.files = [fs.files EXCEPT ![slot] =
                                [@ EXCEPT !.name = StoredName(n), !.size = 0,
                                          !.exists = TRUE]]
              /\ fs' = [files |-> fs'.files, file_count |-> fs.file_count + 1]
              /\ Existing' = Existing \cup {slot}
              /\ Cardinality(Existing) < MAX_FILES
              /\ Return(TRUE, {slot}, <<>>, 0)
<1>1. CASE fs.file_count >= MAX_FILES \/ Slots \ Existing = {}
  <2>1. UNCHANGED fs /\ Return(FALSE, {}, <<>>, 0)
    BY <1>1 DEF fs_create_file
  <2>2. Cardinality(Existing) = MAX_FILES
    <3>1. CASE fs.file_count >= MAX_FILES
      BY <3>1, SlotsFinite, LimitsAssumption DEF FsOK, CountMatchesSlots
    <3>2. CASE Slots \ Existing = {}
      <4>1. Existing = Slots  BY <3>2 DEF Existing
      <4>2. QED BY <4>1, SlotsFinite
    <3>3. QED BY <1>1, <3>1, <3>2
  <2>3. QED BY <2>1, <2>2
<1>2. CASE ~(fs.file_count >= MAX_FILES \/ Slots \ Existing = {})
  <2> DEFINE slot == LeastOf(Slots \ Existing)
  <2>1. slot \in Slots \ Existing  BY <1>2, LeastOfSet, SlotsFinite
  <2>2. /\ fs' = [fs EXCEPT !.files[slot] = NewFile(slot, n),
                            !.file_count = @ + 1]
        /\ Return(TRUE, {slot}, <<>>, 0)
    BY <1>2 DEF fs_create_file
  <2> HIDE DEF slot
  <2>3. fs \in [files : [Slots -> File], file_count : Nat]  BY DEF FsOK
  <2>4. /\ fs'.files = [fs.files EXCEPT ![slot] = NewFile(slot, n)]
        /\ fs' = [files |-> fs'.files, file_count |-> fs.file_count + 1]
    BY <2>2, <2>3
  <2>5. Existing' = Existing \cup {slot}
    <3>1. fs'.files[slot].exists = TRUE
      BY <2>1, <2>3, <2>4 DEF NewFile, File
    <3>2. \A i \in Slots \ {slot} : fs'.files[i] = fs.files[i]
      BY <2>3, <2>4
    <3>3. QED BY <2>1, <3>1, <3>2 DEF Existing
  <2>6. Cardinality(Existing) < MAX_FILES
    BY <1>2, SlotsFinite, LimitsAssumption DEF FsOK, CountMatchesSlots
  <2>7. QED BY <2>1, <2>2, <2>4, <2>5, <2>6 DEF NewFile
<1>3. QED BY <1>1, <1>2

(* A handle that Find returns is the slot of a file of that name. *)
LEMMA FindEffect ==
  ASSUME NEW n
  PROVE  IF \E i \in Existing : fs.files[i].name = n
         THEN Find(n) \in Existing /\ fs.files[Find(n)].name = n /\ Find(n) # NULL
         ELSE Find(n) = NULL
<1> DEFINE match == {i \in Existing : fs.files[i].name = n}
<1>1. match \subseteq Nat  BY SlotsFinite DEF Existing
<1>2. CASE match = {}  BY <1>2 DEF Find
<1>3. CASE match # {}
  <2>1. Find(n) = LeastOf(match)  BY <1>3 DEF Find
  <2>2. Find(n) \in match  BY <1>1, <1>3, <2>1, LeastOfSet
  <2>3. Find(n) \in Nat  BY <1>1, <2>2
  <2>4. Find(n) # NULL  BY <2>3 DEF NULL
  <2>5. QED BY <1>3, <2>2, <2>4
<1>4. QED BY <1>2, <1>3

(* What a deletion does to the slots *)
LEMMA DeleteEffect ==
  ASSUME FsOK, NEW n \in Names, fs_delete_file(n)
  PROVE  \/ /\ UNCHANGED fs
            /\ ~\E i \in Existing : fs.files[i].name = n
            /\ Return(FALSE, {}, <<>>, 0)
         \/ \E h \in Existing :
              /\ fs.files[h].name = n
              /\ fs'.files = [fs.files EXCEPT ![h] =
                                [@ EXCEPT !.exists = FALSE, !.size = 0]]
              /\ fs' = [files |-> fs'.files, file_count |-> fs.file_count - 1]
              /\ Existing' = Existing \ {h}
              /\ Return(TRUE, {}, <<>>, 0)
<1>1. CASE ~\E i \in Existing : fs.files[i].name = n
  BY <1>1, FindEffect DEF fs_delete_file
<1>2. CASE \E i \in Existing : fs.files[i].name = n
  <2> DEFINE h == Find(n)
  <2>1. h \in Existing /\ fs.files[h].name = n /\ h # NULL
    BY <1>2, FindEffect
  <2>2. /\ fs' = [fs EXCEPT !.files[h].exists = FALSE, !.files[h].size = 0,
                            !.file_count = @ - 1]
        /\ Return(TRUE, {}, <<>>, 0)
    BY <2>1 DEF fs_delete_file
  <2> HIDE DEF h
  <2>3. fs \in [files : [Slots -> File], file_count : Nat] /\ h \in Slots
    BY <2>1 DEF FsOK, Existing
  <2>4. /\ fs'.files = [fs.files EXCEPT ![h] =
                          [@ EXCEPT !.exists = FALSE, !.size = 0]]
        /\ fs' = [files |-> fs'.files, file_count |-> fs.file_count - 1]
    BY <2>2, <2>3
  <2>5. Existing' = Existing \ {h}
    <3>1. fs'.files[h].exists = FALSE
      BY <2>3, <2>4 DEF File
    <3>2. \A i \in Slots \ {h} : fs'.files[i] = fs.files[i]
      BY <2>3, <2>4
    <3>3. QED BY <2>1, <3>1, <3>2 DEF Existing
  <2>6. QED BY <2>1, <2>2, <2>4, <2>5
<1>3. QED BY <1>1, <1>2

(* What a write does: one file's bytes and size *)
LEMMA WriteEffect ==
  ASSUME FsOK, NEW h \in Slots \cup {NULL}, NEW data \in Contents,
         fs_write_file(h, data)
  PROVE  \/ /\ UNCHANGED fs
            /\ h \notin Existing \/ Len(data) > MAX_FILE_SIZE
            /\ Return(FALSE, {}, <<>>, 0)
         \/ /\ h \in Existing /\ Len(data) \in 0 .. MAX_FILE_SIZE
            /\ fs'.files = [fs.files EXCEPT ![h] =
                 [@ EXCEPT !.data = [b \in 1 .. MAX_FILE_SIZE |->
                              IF b \in 1 .. Len(data) THEN data[b]
                                                      ELSE fs.files[h].data[b]],
                           !.size = Len(data)]]
            /\ fs' = [files |-> fs'.files, file_count |-> fs.file_count]
            /\ Existing' = Existing
            /\ Return(TRUE, {}, <<>>, 0)
<1>1. Len(data) \in Nat  BY StringsAssumption, LenProperties
<1>2. CASE h = NULL \/ h \notin Existing \/ Len(data) > MAX_FILE_SIZE
  <2>1. NULL \notin Existing  BY SlotsFinite DEF NULL, Existing
  <2>2. QED BY <1>2, <2>1 DEF fs_write_file
<1>3. CASE ~(h = NULL \/ h \notin Existing \/ Len(data) > MAX_FILE_SIZE)
  <2>1. /\ fs' = [fs EXCEPT
                    !.files[h].data = [b \in DOMAIN @ |->
                       IF b \in 1 .. Len(data) THEN data[b] ELSE @[b]],
                    !.files[h].size = Len(data)]
        /\ Return(TRUE, {}, <<>>, 0)
    BY <1>3 DEF fs_write_file
  <2>2. fs \in [files : [Slots -> File], file_count : Nat] /\ h \in Slots
    BY <1>3 DEF FsOK, Existing
  <2>3. DOMAIN fs.files[h].data = 1 .. MAX_FILE_SIZE
    BY <2>2 DEF File
  <2>4. /\ fs'.files = [fs.files EXCEPT ![h] =
             [@ EXCEPT !.data = [b \in 1 .. MAX_FILE_SIZE |->
                          IF b \in 1 .. Len(data) THEN data[b]
                                                  ELSE fs.files[h].data[b]],
                       !.size = Len(data)]]
        /\ fs' = [files |-> fs'.files, file_count |-> fs.file_count]
    BY <2>1, <2>2, <2>3
  <2>5. Existing' = Existing
    <3>1. \A i \in Slots : fs'.files[i].exists = fs.files[i].exists
      BY <2>2, <2>4 DEF File
    <3>2. QED BY <3>1 DEF Existing
  <2>6. h \in Existing /\ Len(data) \in 0 .. MAX_FILE_SIZE
    BY <1>1, <1>3, LimitsAssumption
  <2>7. Return(TRUE, {}, <<>>, 0)  BY <2>1
  <2>8. QED BY <2>4, <2>5, <2>6, <2>7
<1>4. QED BY <1>2, <1>3

(* FsOK is inductive. *)
LEMMA FsStep == FsOK /\ [Next]_vars => FsOK'
<1> SUFFICES ASSUME FsOK, [Next]_vars PROVE FsOK'
  OBVIOUS
<1>1. fs \in [files : [Slots -> File], file_count : Nat]
  BY DEF FsOK
<1>2. CASE UNCHANGED fs
  BY <1>2 DEF FsOK, CountMatchesSlots, Existing
<1>3. ASSUME NEW n \in Names, fs_create_file(n), ~UNCHANGED fs PROVE FsOK'
  <2>1. PICK slot \in Slots \ Existing :
          /\ fs'.files = [fs.files EXCEPT ![slot] =
                            [@ EXCEPT !.name = StoredName(n), !.size = 0,
                                      !.exists = TRUE]]
          /\ fs' = [files |-> fs'.files, file_count |-> fs.file_count + 1]
          /\ Existing' = Existing \cup {slot}
    BY <1>3, CreateEffect
  <2>2. StoredName(n) \in Seq(Nat) /\ Len(StoredName(n)) < MAX_FILENAME_LEN
    BY StoredNameFits, StringsAssumption
  <2>3. fs'.files \in [Slots -> File]
    <3>1. [fs.files[slot] EXCEPT !.name = StoredName(n), !.size = 0,
                                 !.exists = TRUE] \in File
      BY <1>1, <2>2 DEF File
    <3>2. QED BY <1>1, <2>1, <3>1
  <2>4. \A i \in Slots : ProperFile(fs'.files[i])
    BY <1>1, <2>1, <2>2, LimitsAssumption DEF FsOK, ProperFile, File
  <2>5. CountMatchesSlots'
    <3>1. Cardinality(Existing') = Cardinality(Existing) + 1
      BY <2>1, FS_AddElement, SlotsFinite
    <3>2. fs'.file_count = fs.file_count + 1  BY <2>1
    <3>3. QED BY <3>1, <3>2 DEF FsOK, CountMatchesSlots
  <2>6. fs' \in [files : [Slots -> File], file_count : Nat]
    BY <1>1, <2>1, <2>3
  <2>7. QED BY <2>4, <2>5, <2>6 DEF FsOK
<1>4. ASSUME NEW n \in Names, fs_delete_file(n), ~UNCHANGED fs PROVE FsOK'
  <2>1. PICK h \in Existing :
          /\ fs'.files = [fs.files EXCEPT ![h] =
                            [@ EXCEPT !.exists = FALSE, !.size = 0]]
          /\ fs' = [files |-> fs'.files, file_count |-> fs.file_count - 1]
          /\ Existing' = Existing \ {h}
    BY <1>4, DeleteEffect
  <2>2. fs'.files \in [Slots -> File]
    <3>1. h \in Slots  BY DEF Existing
    <3>2. [fs.files[h] EXCEPT !.exists = FALSE, !.size = 0] \in File
      BY <1>1, <3>1 DEF File
    <3>3. QED BY <1>1, <2>1, <3>1, <3>2
  <2>3. \A i \in Slots : ProperFile(fs'.files[i])
    BY <1>1, <2>1, LimitsAssumption DEF FsOK, ProperFile, File
  <2>4. CountMatchesSlots'
    <3>1. Cardinality(Existing') = Cardinality(Existing) - 1
      BY <2>1, FS_RemoveElement, SlotsFinite
    <3>2. fs'.file_count = fs.file_count - 1  BY <2>1
    <3>3. QED BY <3>1, <3>2 DEF FsOK, CountMatchesSlots
  <2>5. fs.file_count - 1 \in Nat
    <3>1. Cardinality(Existing \ {h}) \in Nat
      BY FS_RemoveElement, FS_CardinalityType, SlotsFinite
    <3>2. QED BY <2>1, <2>4, <3>1 DEF CountMatchesSlots
  <2>6. fs' \in [files : [Slots -> File], file_count : Nat]
    BY <2>1, <2>2, <2>5
  <2>7. QED BY <2>3, <2>4, <2>6 DEF FsOK
<1>5. ASSUME NEW h \in Slots \cup {NULL}, NEW data \in Contents,
             fs_write_file(h, data), ~UNCHANGED fs
      PROVE  FsOK'
  <2>1. /\ h \in Existing /\ Len(data) \in 0 .. MAX_FILE_SIZE
        /\ fs'.files = [fs.files EXCEPT ![h] =
             [@ EXCEPT !.data = [b \in 1 .. MAX_FILE_SIZE |->
                          IF b \in 1 .. Len(data) THEN data[b]
                                                  ELSE fs.files[h].data[b]],
                       !.size = Len(data)]]
        /\ fs' = [files |-> fs'.files, file_count |-> fs.file_count]
        /\ Existing' = Existing
    BY <1>5, WriteEffect
  <2> DEFINE bytes == [b \in 1 .. MAX_FILE_SIZE |->
                         IF b \in 1 .. Len(data) THEN data[b]
                                                 ELSE fs.files[h].data[b]]
  <2>2. h \in Slots  BY <2>1 DEF Existing
  <2>3. bytes \in [1 .. MAX_FILE_SIZE -> Nat]
    <3>1. fs.files[h].data \in [1 .. MAX_FILE_SIZE -> Nat]
      BY <1>1, <2>2 DEF File
    <3>2. data \in Seq(Nat)  BY StringsAssumption
    <3>3. \A b \in 1 .. Len(data) : data[b] \in Nat
      BY <3>2, ElementOfSeq
    <3>4. QED BY <3>1, <3>3
  <2>4. fs'.files = [fs.files EXCEPT ![h] =
                       [@ EXCEPT !.data = bytes, !.size = Len(data)]]
    BY <2>1
  <2>5. Len(data) \in Nat  BY <2>1
  <2> HIDE DEF bytes
  <2>6. fs'.files \in [Slots -> File]
    <3>1. [fs.files[h] EXCEPT !.data = bytes, !.size = Len(data)] \in File
      BY <1>1, <2>2, <2>3, <2>5 DEF File
    <3>2. QED BY <1>1, <2>2, <2>4, <3>1
  <2>7. \A i \in Slots : ProperFile(fs'.files[i])
    BY <1>1, <2>1, <2>2, <2>4 DEF FsOK, ProperFile, File
  <2>8. CountMatchesSlots'
    BY <2>1 DEF FsOK, CountMatchesSlots
  <2>9. fs' \in [files : [Slots -> File], file_count : Nat]
    BY <1>1, <2>1, <2>6
  <2>10. QED BY <2>7, <2>8, <2>9 DEF FsOK
<1>6. CASE \/ \E n \in Names : fs_open_file(n)
           \/ \E h \in Slots \cup {NULL}, room \in 0 .. MAX_FILE_SIZE :
                \E buffer \in BOOLEAN : fs_read_file(h, buffer, room)
           \/ \E room \in 0 .. MAX_FILES : fs_list_files(room)
           \/ UNCHANGED vars
  BY <1>2, <1>6 DEF fs_open_file, fs_read_file, fs_list_files, vars
<1>7. QED BY <1>2, <1>3, <1>4, <1>5, <1>6 DEF Next

LEMMA InitFiles ==
  ASSUME Init
  PROVE  FsOK
<1>1. fs \in [files : [Slots -> File], file_count : Nat]
  BY DEF Init, File
<1>2. Existing = {} /\ fs.file_count = 0
  BY DEF Init, Existing
<1>3. CountMatchesSlots
  BY <1>2, FS_EmptySet DEF CountMatchesSlots
<1>4. \A i \in Slots : ProperFile(fs.files[i])
  BY LimitsAssumption DEF Init, ProperFile
<1>5. QED BY <1>1, <1>3, <1>4 DEF FsOK

LEMMA FsInvariant == Spec => []FsOK
<1>1. Init => FsOK  BY InitFiles
<1>2. QED BY <1>1, FsStep, PTL DEF Spec

LEMMA FsFits ==
  ASSUME FsOK
  PROVE  TypeOK
<1>1. fs \in [files : [Slots -> File], file_count : Nat]
  BY DEF FsOK
<1>2. fs.file_count \in 0 .. MAX_FILES
  BY SlotsFinite DEF FsOK, CountMatchesSlots
<1>3. \A i \in Slots : /\ fs.files[i].exists \in BOOLEAN
                       /\ DOMAIN fs.files[i].data = 1 .. MAX_FILE_SIZE
  BY <1>1 DEF File
<1>4. QED BY <1>1, <1>2, <1>3 DEF FsOK, TypeOK, ProperFile

(* Names keep room for their NUL, sizes fit the data array and the counter *)
(* stays within the array, whatever the callers do.                        *)
THEOREM FilesFit == Spec => []TypeOK
<1>1. FsOK => TypeOK  BY FsFits
<1>2. QED BY <1>1, FsInvariant, PTL

(* The counter that admits creations always equals the number of slots in  *)
(* use, after any sequence of creations and deletions.                     *)
THEOREM CountIsExact == Spec => []CountMatchesSlots
<1>1. FsOK => CountMatchesSlots  BY DEF FsOK
<1>2. QED BY <1>1, FsInvariant, PTL
-----------------------------------------------------------------------------
(* fs_list_files lists as many files as fit *)

Wanted(r) == IF Cardinality(Existing) < r THEN Cardinality(Existing) ELSE r

Rank(i) == Cardinality({j \in Existing : j < i})

LEMMA RankType ==
  ASSUME NEW i
  PROVE  IsFiniteSet({j \in Existing : j < i}) /\ Rank(i) \in Nat
<1>1. {j \in Existing : j < i} \in SUBSET Existing  OBVIOUS
<1>2. IsFiniteSet({j \in Existing : j < i})
  BY <1>1, SlotsFinite, FS_Subset
<1>3. QED BY <1>2, FS_CardinalityType DEF Rank

LEMMA ListedMembers ==
  ASSUME NEW r
  PROVE  /\ Listed(r) \in SUBSET Existing
         /\ \A k \in Existing : k \in Listed(r) <=> Rank(k) < r
BY DEF Listed, Rank

LEMMA ExistingNat ==
  Existing \in SUBSET Nat /\ IsFiniteSet(Existing) /\ Cardinality(Existing) \in Nat
<1>1. Existing \in SUBSET Slots  BY DEF Existing
<1>2. QED BY <1>1, SlotsFinite

(* The rank of a slot grows with the slot. *)
LEMMA RankGrows ==
  ASSUME NEW j \in Existing, NEW k \in Existing, j < k
  PROVE  Rank(j) + 1 <= Rank(k)
<1> DEFINE Below(n) == {m \in Existing : m < n}
<1>1. j \in Nat /\ k \in Nat  BY ExistingNat
<1>2. \A m \in Existing : m < j => m < k
  <2>1. \A m \in Existing : m \in Nat  BY ExistingNat
  <2>2. QED BY <1>1, <2>1
<1>3. Below(j) \cup {j} \in SUBSET Below(k)  BY <1>2
<1>4. j \notin Below(j)  BY <1>1
<1>5. IsFiniteSet(Below(j)) /\ IsFiniteSet(Below(k))  BY RankType
<1> HIDE DEF Below
<1>6. Cardinality(Below(j) \cup {j}) = Cardinality(Below(j)) + 1
  BY <1>4, <1>5, FS_AddElement
<1>7. Cardinality(Below(j) \cup {j}) <= Cardinality(Below(k))
  BY <1>3, <1>5, FS_Subset
<1>8. QED BY <1>6, <1>7 DEF Below, Rank

(* One more place in the caller's array shows one more file, as long as    *)
(* there is one: the lowest slot not listed yet.                           *)
LEMMA ListedGrows ==
  ASSUME NEW r \in Nat, Cardinality(Listed(r)) = Wanted(r)
  PROVE  Cardinality(Listed(r + 1)) = Wanted(r + 1)
<1>1. \A k \in Existing : k \in Nat /\ Rank(k) \in Nat
  BY ExistingNat, RankType
<1>2. Listed(r) \in SUBSET Existing /\ Listed(r + 1) \in SUBSET Existing
  BY ListedMembers
<1>3. IsFiniteSet(Listed(r))  BY <1>2, ExistingNat, FS_Subset
<1>4. CASE Cardinality(Existing) <= r
  <2>1. Cardinality(Listed(r)) = Cardinality(Existing)
    BY <1>4, ExistingNat DEF Wanted
  <2>2. Listed(r) = Existing  BY <1>2, <2>1, ExistingNat, FS_Subset
  <2>3. \A k \in Existing : Rank(k) < r + 1
    <3>1. \A k \in Existing : Rank(k) < r  BY <2>2, ListedMembers
    <3>2. QED BY <1>1, <3>1
  <2>4. Listed(r + 1) = Existing  BY <1>2, <2>3, ListedMembers
  <2>5. QED BY <1>4, <2>4, ExistingNat DEF Wanted
<1>5. CASE r < Cardinality(Existing)
  <2>1. Cardinality(Listed(r)) = r  BY <1>5, ExistingNat DEF Wanted
  <2> DEFINE rest == Existing \ Listed(r)
             next == LeastOf(rest)
  <2>2. rest # {}
    <3>1. Listed(r) # Existing  BY <1>5, <2>1
    <3>2. QED BY <1>2, <3>1
  <2>3. rest \in SUBSET Nat  BY ExistingNat
  <2>4. next \in rest /\ \A j \in rest : next <= j
    BY <2>2, <2>3, LeastOfSet
  <2> HIDE DEF next
  <2>5. next \in Existing /\ next \notin Listed(r)  BY <2>4
  <2>6. \A j \in Existing : j \in Listed(r) <=> j < next
    <3>1. ASSUME NEW j \in Existing, j < next PROVE j \in Listed(r)
      BY <1>1, <2>4, <2>5, <3>1
    <3>2. ASSUME NEW j \in Existing, j \in Listed(r) PROVE j < next
      <4>1. Rank(j) < r /\ ~(Rank(next) < r)
        BY <2>5, <3>2, ListedMembers
      <4>2. j # next  BY <2>5, <3>2
      <4>3. next < j => Rank(next) + 1 <= Rank(j)  BY <2>5, RankGrows
      <4>4. QED BY <1>1, <2>5, <4>1, <4>2, <4>3
    <3>3. QED BY <3>1, <3>2
  <2>7. Rank(next) = r
    <3>1. {j \in Existing : j < next} = Listed(r)  BY <1>2, <2>6
    <3>2. QED BY <2>1, <3>1 DEF Rank
  <2>8. Listed(r + 1) = Listed(r) \cup {next}
    <3>1. \A k \in Existing : k \in Listed(r) => k \in Listed(r + 1)
      <4>1. \A k \in Existing : Rank(k) < r => Rank(k) < r + 1  BY <1>1
      <4>2. QED BY <4>1, ListedMembers
    <3>2. next \in Listed(r + 1)
      <4>1. Rank(next) < r + 1  BY <2>7
      <4>2. QED BY <2>5, <4>1, ListedMembers
    <3>3. ASSUME NEW k \in rest, k # next PROVE k \notin Listed(r + 1)
      <4>1. next < k  BY <1>1, <2>4, <2>5, <3>3
      <4>2. r + 1 <= Rank(k)  BY <2>5, <2>7, <4>1, RankGrows
      <4>3. ~(Rank(k) < r + 1)  BY <1>1, <4>2
      <4>4. QED BY <4>3, ListedMembers
    <3>4. QED BY <1>2, <2>5, <3>1, <3>2, <3>3
  <2>9. Cardinality(Listed(r + 1)) = r + 1
    BY <1>3, <2>1, <2>5, <2>8, FS_AddElement
  <2>10. QED BY <1>5, <2>9, ExistingNat DEF Wanted
<1>6. QED BY <1>4, <1>5, ExistingNat

(* The number of slots listed, by a least counterexample *)
LEMMA ListedCount ==
  ASSUME NEW room \in Nat
  PROVE  Listed(room) \subseteq Existing /\ Cardinality(Listed(room)) = Wanted(room)
<1> DEFINE wrong == {r \in Nat : Cardinality(Listed(r)) # Wanted(r)}
<1>1. SUFFICES ASSUME wrong # {} PROVE FALSE
  BY ListedMembers
<1> DEFINE m == LeastOf(wrong)
<1>2. m \in wrong /\ \A r \in wrong : m <= r  BY <1>1, LeastOfSet
<1> HIDE DEF m
<1>3. CASE m = 0
  <2>1. Listed(0) = {}
    <3>1. \A k \in Existing : ~(Rank(k) < 0)
      <4>1. \A k \in Existing : Rank(k) \in Nat  BY RankType
      <4>2. QED BY <4>1
    <3>2. QED BY <3>1, ListedMembers
  <2>2. Wanted(0) = 0  BY ExistingNat DEF Wanted
  <2>3. QED BY <1>2, <1>3, <2>1, <2>2, FS_EmptySet
<1>4. CASE m # 0
  <2>1. m - 1 \in Nat /\ m - 1 \notin wrong /\ (m - 1) + 1 = m
    BY <1>2, <1>4
  <2>2. Cardinality(Listed(m - 1)) = Wanted(m - 1)  BY <2>1
  <2>3. Cardinality(Listed(m)) = Wanted(m)  BY <2>1, <2>2, ListedGrows
  <2>4. QED BY <1>2, <2>3
<1>5. QED BY <1>3, <1>4
-----------------------------------------------------------------------------
(* Refinement of Directory *)

(* The directory the slots stand for *)
Mapped == [i \in Existing |-> [name |-> fs.files[i].name,
                               content |-> Content(fs.files[i])]]

LEMMA MappedShape ==
  ASSUME FsOK
  PROVE  /\ DOMAIN Mapped = Existing
         /\ \A i \in Existing :
              /\ i \in Slots
              /\ Mapped[i].name = fs.files[i].name
              /\ Mapped[i].content = Content(fs.files[i])
              /\ Content(fs.files[i]) \in Seq(Nat)
              /\ Len(Content(fs.files[i])) = fs.files[i].size
              /\ fs.files[i].size \in 0 .. MAX_FILE_SIZE
<1>1. ASSUME NEW i \in Existing
      PROVE  /\ Content(fs.files[i]) \in Seq(Nat)
             /\ Len(Content(fs.files[i])) = fs.files[i].size
  <2>1. i \in Slots  BY DEF Existing
  <2>2. /\ fs.files[i].size \in 0 .. MAX_FILE_SIZE
        /\ fs.files[i].data \in [1 .. MAX_FILE_SIZE -> Nat]
    BY <2>1 DEF FsOK, ProperFile, File
  <2> DEFINE size == fs.files[i].size
             data == fs.files[i].data
  <2> HIDE DEF size, data
  <2>3. size \in Nat /\ \A b \in 1 .. size : data[b] \in Nat
    <3>1. size \in 0 .. MAX_FILE_SIZE /\ data \in [1 .. MAX_FILE_SIZE -> Nat]
      BY <2>2 DEF size, data
    <3>2. QED BY <3>1, LimitsAssumption
  <2>4. /\ [b \in 1 .. size |-> data[b]] \in Seq(Nat)
        /\ Len([b \in 1 .. size |-> data[b]]) = size
    BY <2>3
  <2>5. QED BY <2>4 DEF Content, size, data
<1>2. QED BY <1>1 DEF Mapped, Existing, FsOK, ProperFile

(* The instance has its own copy of the operator of FiniteSets. *)
LEMMA SameCardinality == \A S : Dir!Cardinality(S) = Cardinality(S)
BY DEF Dir!Cardinality, Cardinality, Dir!IsFiniteSet, IsFiniteSet

(* The terms of Directory under the mapping *)
LEMMA MappedTerms ==
  ASSUME FsOK
  PROVE  /\ Dir!Files = Existing
         /\ \A n : Dir!Named(n) = {i \in Existing : fs.files[i].name = n}
         /\ \A ok, handles, bytes, size :
              Return(ok, handles, bytes, size) => Dir!Return(ok, handles, bytes, size)
<1>1. Dir!Files = Existing  BY DEF Dir!Files
<1>2. \A n : Dir!Named(n) = {i \in Existing : fs.files[i].name = n}
  BY <1>1 DEF Dir!Named
<1>3. QED BY <1>1, <1>2 DEF Dir!Return, Return

LEMMA CreateRefines ==
  ASSUME FsOK, NEW n \in Names, fs_create_file(n)
  PROVE  Dir!Create(n)
<1>1. CASE /\ UNCHANGED fs
           /\ Cardinality(Existing) = MAX_FILES
           /\ Return(FALSE, {}, <<>>, 0)
  <2>1. UNCHANGED Mapped  BY <1>1 DEF Mapped, Existing
  <2>2. Cardinality(Dir!Files) = MAX_FILES /\ Dir!Return(FALSE, {}, <<>>, 0)
    BY <1>1, MappedTerms
  <2>3. QED BY <2>1, <2>2, SameCardinality DEF Dir!Create, Mapped
<1>2. ASSUME NEW slot \in Slots \ Existing,
             /\ fs'.files = [fs.files EXCEPT ![slot] =
                               [@ EXCEPT !.name = StoredName(n), !.size = 0,
                                         !.exists = TRUE]]
             /\ Existing' = Existing \cup {slot}
             /\ Cardinality(Existing) < MAX_FILES
             /\ Return(TRUE, {slot}, <<>>, 0)
      PROVE  Dir!Create(n)
  <2>1. fs \in [files : [Slots -> File], file_count : Nat]  BY DEF FsOK
  <2>2. /\ fs'.files[slot].name = StoredName(n)
        /\ fs'.files[slot].size = 0
    BY <1>2, <2>1 DEF File
  <2>3. \A i \in Existing : fs'.files[i] = fs.files[i]
    BY <1>2, <2>1 DEF Existing
  <2>4. Content(fs'.files[slot]) = <<>>
    BY <2>2 DEF Content
  <2>5. Mapped' = [g \in Existing \cup {slot} |->
                     IF g = slot THEN [name |-> StoredName(n), content |-> <<>>]
                                 ELSE Mapped[g]]
    BY <1>2, <2>2, <2>3, <2>4 DEF Mapped
  <2>6. slot \in (Slots \cup {NULL}) \ Existing  OBVIOUS
  <2>7. Dir!Files = Existing /\ Dir!Return(TRUE, {slot}, <<>>, 0)
    BY <1>2, MappedTerms
  <2>8. Cardinality(Dir!Files) < MAX_FILES  BY <1>2, <2>7
  <2>9. QED BY <2>5, <2>6, <2>7, <2>8, SameCardinality DEF Dir!Create, Mapped
<1>3. QED BY <1>1, <1>2, CreateEffect

LEMMA FindRefines ==
  ASSUME FsOK, NEW n \in Names, fs_open_file(n)
  PROVE  Dir!Find(n)
<1>1. UNCHANGED Mapped  BY DEF fs_open_file, Mapped, Existing
<1>2. CASE \E i \in Existing : fs.files[i].name = n
  <2> DEFINE h == Find(n)
  <2>1. h \in Existing /\ fs.files[h].name = n /\ h # NULL
    BY <1>2, FindEffect
  <2>2. Return(TRUE, {h}, <<>>, fs.files[h].size)
    BY <2>1 DEF fs_open_file
  <2> HIDE DEF h
  <2>3. h \in Dir!Named(n)  BY <2>1, MappedTerms
  <2>4. Dir!Return(TRUE, {h}, <<>>, Len(Mapped[h].content))
    BY <2>1, <2>2, MappedShape, MappedTerms
  <2>5. QED BY <1>1, <2>3, <2>4 DEF Dir!Find, Mapped
<1>3. CASE ~\E i \in Existing : fs.files[i].name = n
  <2>1. Dir!Named(n) = {}  BY <1>3, MappedTerms
  <2>2. Return(FALSE, {}, <<>>, 0)  BY <1>3, FindEffect DEF fs_open_file
  <2>3. Dir!Return(FALSE, {}, <<>>, 0)  BY <2>2, MappedTerms
  <2>4. QED BY <1>1, <2>1, <2>3 DEF Dir!Find, Mapped
<1>4. QED BY <1>2, <1>3

LEMMA DeleteRefines ==
  ASSUME FsOK, NEW n \in Names, fs_delete_file(n)
  PROVE  Dir!Delete(n)
<1>1. CASE /\ UNCHANGED fs
           /\ ~\E i \in Existing : fs.files[i].name = n
           /\ Return(FALSE, {}, <<>>, 0)
  <2>1. UNCHANGED Mapped  BY <1>1 DEF Mapped, Existing
  <2>2. Dir!Named(n) = {} /\ Dir!Return(FALSE, {}, <<>>, 0)
    BY <1>1, MappedTerms
  <2>3. QED BY <2>1, <2>2 DEF Dir!Delete, Mapped
<1>2. ASSUME NEW h \in Existing,
             /\ fs.files[h].name = n
             /\ fs'.files = [fs.files EXCEPT ![h] =
                               [@ EXCEPT !.exists = FALSE, !.size = 0]]
             /\ Existing' = Existing \ {h}
             /\ Return(TRUE, {}, <<>>, 0)
      PROVE  Dir!Delete(n)
  <2>1. \A i \in Existing \ {h} : fs'.files[i] = fs.files[i]
    BY <1>2 DEF FsOK, Existing
  <2>2. Mapped' = [g \in Existing \ {h} |-> Mapped[g]]
    BY <1>2, <2>1 DEF Mapped
  <2>3. /\ Dir!Files = Existing /\ h \in Dir!Named(n)
        /\ Dir!Return(TRUE, {}, <<>>, 0)
    BY <1>2, MappedTerms
  <2>4. QED BY <2>2, <2>3 DEF Dir!Delete, Mapped
<1>3. QED BY <1>1, <1>2, DeleteEffect

LEMMA WriteRefines ==
  ASSUME FsOK, NEW h \in Slots \cup {NULL}, NEW data \in Contents,
         fs_write_file(h, data)
  PROVE  Dir!Write(h, data)
<1>1. Len(data) \in Nat /\ data \in Seq(Nat)
  BY StringsAssumption, LenProperties
<1>2. CASE /\ UNCHANGED fs
           /\ h \notin Existing \/ Len(data) > MAX_FILE_SIZE
           /\ Return(FALSE, {}, <<>>, 0)
  <2>1. UNCHANGED Mapped  BY <1>2 DEF Mapped, Existing
  <2>2. h \notin Dir!Files \/ ~(Len(data) <= MAX_FILE_SIZE)
    <3>1. Dir!Files = Existing  BY MappedTerms
    <3>2. QED BY <1>1, <1>2, <3>1, LimitsAssumption
  <2>3. Dir!Return(FALSE, {}, <<>>, 0)  BY <1>2, MappedTerms
  <2>4. QED BY <2>1, <2>2, <2>3 DEF Dir!Write, Mapped
<1>3. CASE /\ h \in Existing /\ Len(data) \in 0 .. MAX_FILE_SIZE
           /\ fs'.files = [fs.files EXCEPT ![h] =
                [@ EXCEPT !.data = [b \in 1 .. MAX_FILE_SIZE |->
                             IF b \in 1 .. Len(data) THEN data[b]
                                                     ELSE fs.files[h].data[b]],
                          !.size = Len(data)]]
           /\ Existing' = Existing
           /\ Return(TRUE, {}, <<>>, 0)
  <2> DEFINE bytes == [b \in 1 .. MAX_FILE_SIZE |->
                         IF b \in 1 .. Len(data) THEN data[b]
                                                 ELSE fs.files[h].data[b]]
  <2>1. fs.files \in [Slots -> File] /\ h \in Slots
    BY <1>3 DEF FsOK, Existing
  <2>2. fs'.files = [fs.files EXCEPT ![h] =
                       [@ EXCEPT !.data = bytes, !.size = Len(data)]]
    BY <1>3
  <2>3. \A b \in 1 .. Len(data) : bytes[b] = data[b]
    BY <1>1, <1>3, LimitsAssumption
  <2> HIDE DEF bytes
  <2>4. /\ fs'.files[h].name = fs.files[h].name
        /\ fs'.files[h].data = bytes
        /\ fs'.files[h].size = Len(data)
        /\ \A i \in Slots \ {h} : fs'.files[i] = fs.files[i]
    BY <2>1, <2>2 DEF File
  <2>5. Content(fs'.files[h]) = data
    <3>1. data = [b \in 1 .. Len(data) |-> data[b]]  BY <1>1
    <3>2. Content(fs'.files[h]) = [b \in 1 .. Len(data) |-> bytes[b]]
      BY <2>4 DEF Content
    <3>3. QED BY <2>3, <3>1, <3>2
  <2>6. Mapped' = [Mapped EXCEPT ![h].content = data]
    <3>1. \A i \in Existing \ {h} : fs'.files[i] = fs.files[i]
      BY <2>4 DEF Existing
    <3>2. Mapped[h] = [name |-> fs.files[h].name,
                       content |-> Content(fs.files[h])]
      BY <1>3 DEF Mapped
    <3>3. [Mapped[h] EXCEPT !.content = data]
            = [name |-> fs.files[h].name, content |-> data]
      BY <3>2
    <3>4. QED BY <1>3, <2>4, <2>5, <3>1, <3>3 DEF Mapped
  <2>7. Len(data) <= MAX_FILE_SIZE  BY <1>3, LimitsAssumption
  <2>8. h \in Dir!Files  BY <1>3, MappedTerms
  <2>9. Dir!Return(TRUE, {}, <<>>, 0)  BY <1>3, MappedTerms
  <2>10. QED BY <2>6, <2>7, <2>8, <2>9 DEF Dir!Write, Mapped
<1>4. QED BY <1>2, <1>3, WriteEffect

LEMMA ReadRefines ==
  ASSUME FsOK, NEW h \in Slots \cup {NULL}, NEW buffer \in BOOLEAN,
         NEW room \in 0 .. MAX_FILE_SIZE, fs_read_file(h, buffer, room)
  PROVE  Dir!Read(h, buffer, room)
<1>1. UNCHANGED Mapped  BY DEF fs_read_file, Mapped, Existing
<1>2. CASE h \notin Existing \/ ~buffer
  <2>1. Return(FALSE, {}, <<>>, 0)  BY <1>2 DEF fs_read_file
  <2>2. ~(h \in Dir!Files /\ buffer) /\ Dir!Return(FALSE, {}, <<>>, 0)
    BY <1>2, <2>1, MappedTerms
  <2>3. QED BY <1>1, <2>2 DEF Dir!Read, Mapped
<1>3. CASE h \in Existing /\ buffer
  <2> DEFINE size == fs.files[h].size
             data == fs.files[h].data
             n == IF size < room THEN size ELSE room
             c == Content(fs.files[h])
  <2>1. /\ c \in Seq(Nat) /\ Len(c) = size /\ size \in 0 .. MAX_FILE_SIZE
        /\ Mapped[h].content = c
    BY <1>3, MappedShape
  <2>2. h # NULL  BY <1>3, ExistingNat DEF NULL
  <2>3. Return(TRUE, {}, [b \in 1 .. n |-> data[b]], n)
    <3>1. (IF size > room THEN room ELSE size) = n
      BY <2>1, LimitsAssumption
    <3>2. QED BY <1>3, <2>2, <3>1 DEF fs_read_file
  <2>4. SubSeq(c, 1, n) = [b \in 1 .. n |-> data[b]]
    <3>1. n \in Nat /\ n <= size  BY <2>1, LimitsAssumption
    <3>2. c = [b \in 1 .. size |-> data[b]]  BY DEF Content
    <3> HIDE DEF n, c, size, data
    <3>3. \A b \in 1 .. n : c[b] = data[b]
      BY <2>1, <3>1, <3>2, LimitsAssumption
    <3>4. SubSeq(c, 1, n) = [b \in 1 .. n |-> c[b]]
      <4>1. SubSeq(c, 1, n) = [b \in 1 .. n - 1 + 1 |-> c[b + 1 - 1]]
        BY <2>1, <3>1
      <4>2. QED BY <3>1, <4>1
    <3>5. QED BY <3>3, <3>4
  <2>5. h \in Dir!Files /\ Dir!Return(TRUE, {}, SubSeq(c, 1, n), n)
    BY <1>3, <2>3, <2>4, MappedTerms
  <2>6. QED BY <1>1, <1>3, <2>1, <2>5 DEF Dir!Read, Mapped
<1>4. QED BY <1>2, <1>3

LEMMA ListRefines ==
  ASSUME FsOK, NEW room \in 0 .. MAX_FILES, fs_list_files(room)
  PROVE  Dir!List(room)
<1>1. UNCHANGED Mapped  BY DEF fs_list_files, Mapped, Existing
<1>2. room \in Nat  BY LimitsAssumption
<1>3. Listed(room) \in SUBSET Existing /\ Cardinality(Listed(room)) = Wanted(room)
  BY <1>2, ListedCount
<1>4. Return(TRUE, Listed(room), <<>>, Cardinality(Listed(room)))
  BY DEF fs_list_files
<1>5. /\ Listed(room) \in SUBSET Dir!Files
      /\ Dir!Return(TRUE, Listed(room), <<>>, Cardinality(Listed(room)))
  BY <1>3, <1>4, MappedTerms
<1>6. Cardinality(Listed(room)) = IF Cardinality(Dir!Files) < room
                                  THEN Cardinality(Dir!Files) ELSE room
  BY <1>3, MappedTerms DEF Wanted
<1>7. QED BY <1>1, <1>5, <1>6, SameCardinality DEF Dir!List, Mapped

(* The file system implements the directory: whatever the calls, reused    *)
(* slots never show old bytes, a write or a deletion touches one file, a   *)
(* list misses none, and a call fails only for the reasons of Directory.   *)
THEOREM FileSystemImplementsDirectory == Spec => ImplementsDirectory
<1>1. Init => Dir!Init
  <2> SUFFICES ASSUME Init PROVE Dir!Init
    OBVIOUS
  <2>1. Existing = {}  BY DEF Init, Existing
  <2>2. Mapped = [h \in {} |-> <<>>]  BY <2>1 DEF Mapped
  <2>3. QED BY <2>2 DEF Init, Dir!Init, Mapped
<1>2. FsOK /\ [Next]_vars => [Dir!Next]_(Dir!vars)
  <2> SUFFICES ASSUME FsOK, [Next]_vars PROVE Dir!Next \/ UNCHANGED Dir!vars
    OBVIOUS
  <2>1. ASSUME NEW n \in Names, fs_create_file(n) PROVE Dir!Next
    BY <2>1, CreateRefines DEF Dir!Next
  <2>2. ASSUME NEW n \in Names, fs_open_file(n) PROVE Dir!Next
    BY <2>2, FindRefines DEF Dir!Next
  <2>3. ASSUME NEW n \in Names, fs_delete_file(n) PROVE Dir!Next
    BY <2>3, DeleteRefines DEF Dir!Next
  <2>4. ASSUME NEW h \in Slots \cup {NULL}, NEW data \in Contents,
               fs_write_file(h, data)
        PROVE  Dir!Next
    BY <2>4, WriteRefines DEF Dir!Next
  <2>5. ASSUME NEW h \in Slots \cup {NULL}, NEW buffer \in BOOLEAN,
               NEW room \in 0 .. MAX_FILE_SIZE, fs_read_file(h, buffer, room)
        PROVE  Dir!Next
    BY <2>5, ReadRefines DEF Dir!Next
  <2>6. ASSUME NEW room \in 0 .. MAX_FILES, fs_list_files(room)
        PROVE  Dir!Next
    BY <2>6, ListRefines DEF Dir!Next
  <2>7. CASE UNCHANGED vars
    <3>1. UNCHANGED Mapped /\ UNCHANGED result
      BY <2>7 DEF vars, Mapped, Existing
    <3>2. QED BY <3>1 DEF Dir!vars, Mapped
  <2>8. QED BY <2>1, <2>2, <2>3, <2>4, <2>5, <2>6, <2>7 DEF Next
<1>3. QED BY <1>1, <1>2, FsInvariant, PTL
          DEF Spec, ImplementsDirectory, Dir!Spec
=============================================================================
