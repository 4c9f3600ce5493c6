--------------------------- MODULE KeyboardProofs ---------------------------
(***************************************************************************)
(* Proofs about Keyboard, for every buffer size, layout and set of keys.   *)
(***************************************************************************)
EXTENDS Keyboard, SequenceTheorems, TLAPS

(* The modulus of the driver only ever wraps by one. *)
LEMMA AdvanceWraps ==
  ASSUME NEW i \in Index
  PROVE  /\ Advance(i) = IF i + 1 = KEY_BUFFER_SIZE THEN 0 ELSE i + 1
         /\ Advance(i) \in Index
<1>1. i + 1 \in Nat /\ i + 1 <= KEY_BUFFER_SIZE /\ KEY_BUFFER_SIZE \in Nat
  BY SizeAssumption DEF Index
<1>2. CASE i + 1 = KEY_BUFFER_SIZE
  BY <1>1, <1>2, SizeAssumption DEF Index, Advance
<1>3. CASE i + 1 < KEY_BUFFER_SIZE
  BY <1>1, <1>3, SizeAssumption DEF Index, Advance
<1>4. QED BY <1>1, <1>2, <1>3

(* Whatever the modifiers, a key translates to a non-negative C char. *)
LEMMA TranslateType ==
  ASSUME TypeOK, NEW code \in Code
  PROVE  Translate(code) \in Byte
<1> DEFINE plain == IF kb_state.shift_pressed THEN scancode_to_ascii_shift[code]
                                             ELSE scancode_to_ascii[code]
<1>1. plain \in Byte
  <2>1. scancode_to_ascii_shift[code] \in Byte  BY TableAssumption
  <2>2. scancode_to_ascii[code] \in Byte  BY TableAssumption
  <2>3. QED BY <2>1, <2>2
<1>2. ASSUME NEW c \in Byte PROVE ApplyCaps(c) \in Byte
  <2>1. c \in Lower => c - 32 \in Byte  BY DEF Lower, Byte
  <2>2. c \in Upper => c + 32 \in Byte  BY DEF Upper, Byte
  <2>3. QED BY <2>1, <2>2 DEF ApplyCaps
<1> HIDE DEF plain
<1>3. ApplyCaps(plain) \in Byte  BY <1>1, <1>2
<1>4. QED BY <1>3 DEF Translate, plain

(* An interrupt that ends in Put keeps the ring well-typed. *)
LEMMA PutType ==
  ASSUME TypeOK, NEW c \in Byte, Put(c)
  PROVE  key_buffer' \in [Index -> Byte] /\ buffer_end' \in Index
<1>1. buffer_end \in Index /\ key_buffer \in [Index -> Byte]  BY DEF TypeOK
<1>2. Advance(buffer_end) \in Index  BY <1>1, AdvanceWraps
<1>3. QED BY <1>1, <1>2 DEF Put

LEMMA ModifierTypes ==
  ASSUME TypeOK, NEW code \in Code
  PROVE  LET K == [shift_pressed : BOOLEAN, ctrl_pressed : BOOLEAN,
                   alt_pressed : BOOLEAN, caps_lock : BOOLEAN]
         IN  PressModifier(code) \in K /\ ReleaseModifier(code) \in K
BY DEF TypeOK, PressModifier, ReleaseModifier

(* Type correctness: TypeOK holds in every reachable state. *)
THEOREM TypeCorrect == Spec => []TypeOK
<1>1. Init => TypeOK
  BY SizeAssumption DEF Init, TypeOK, Index, Byte
<1>2. TypeOK /\ [Next]_vars => TypeOK'
  <2> SUFFICES ASSUME TypeOK, [Next]_vars PROVE TypeOK'
    OBVIOUS
  <2>1. ASSUME NEW k \in Keys, KeyDown(k) PROVE TypeOK'
    <3>1. k[2] \in Code  BY KeysAssumption
    <3>2. held' \subseteq Keys  BY <2>1 DEF KeyDown, TypeOK
    <3>3. UNCHANGED loop  BY <2>1 DEF KeyDown
    <3>4. CASE k[2] \in ModifierCodes
      <4>1. kb_state' = PressModifier(k[2]) /\ UNCHANGED <<key_buffer, buffer_end>>
        BY <2>1, <3>4 DEF KeyDown, HandlePress
      <4>2. QED BY <3>1, <3>2, <3>3, <4>1, ModifierTypes DEF TypeOK, loop
    <3>5. CASE k[2] \notin ModifierCodes
      <4>1. Put(Translate(k[2])) /\ UNCHANGED kb_state
        BY <2>1, <3>5 DEF KeyDown, HandlePress
      <4>2. key_buffer' \in [Index -> Byte] /\ buffer_end' \in Index
        BY <3>1, <4>1, TranslateType, PutType
      <4>3. QED BY <3>2, <3>3, <4>1, <4>2 DEF TypeOK, loop
    <3>6. QED BY <3>4, <3>5
  <2>2. ASSUME NEW k \in Keys, KeyUp(k) PROVE TypeOK'
    <3>1. k[2] \in Code  BY KeysAssumption
    <3>2. kb_state' = ReleaseModifier(k[2])  BY <2>2 DEF KeyUp, HandleRelease
    <3>3. QED BY <2>2, <3>1, <3>2, ModifierTypes
              DEF TypeOK, KeyUp, HandleRelease, loop
  <2>3. CASE HasKey    BY <2>3 DEF TypeOK, HasKey, Unchanged_driver, driver
  <2>4. CASE GetEmpty  BY <2>4 DEF TypeOK, GetEmpty, Unchanged_driver, driver, Byte
  <2>5. CASE GetLoad   BY <2>5 DEF TypeOK, GetLoad, Unchanged_driver, driver
  <2>6. CASE GetStore
    BY <2>6, AdvanceWraps DEF TypeOK, GetStore, Unchanged_driver, driver
  <2>7. CASE UseKey    BY <2>7 DEF TypeOK, UseKey, Unchanged_driver, driver
  <2>8. CASE GuiUpdate BY <2>8 DEF TypeOK, GuiUpdate, Unchanged_driver, driver
  <2>9. CASE UNCHANGED vars  BY <2>9 DEF TypeOK, vars
  <2>10. QED BY <2>1, <2>2, <2>3, <2>4, <2>5, <2>6, <2>7, <2>8, <2>9
             DEF Next, MainLoop, Environment
<1>3. QED BY <1>1, <1>2, PTL DEF Spec

-----------------------------------------------------------------------------
(* The ring invariant *)

(* What the queue needs beyond types: no slot between start and end holds  *)
(* the "no key" value, and the main loop's position agrees with the ring.  *)
RingInv ==
  /\ TypeOK
  /\ \A j \in 0 .. Count - 1 : key_buffer[Slot(j)] # 0
  /\ KeyAfterHasKey

(* The number of pending characters stays below the size of the ring, and  *)
(* it is zero exactly when the two indices meet.                           *)
LEMMA CountRange ==
  ASSUME TypeOK
  PROVE  /\ Count \in 0 .. KEY_BUFFER_SIZE - 1
         /\ Count = 0 <=> buffer_start = buffer_end
         /\ \A j \in 0 .. KEY_BUFFER_SIZE - 1 : Slot(j) \in Index
BY SizeAssumption DEF TypeOK, Count, Slot, Index

(* The end index is the slot after the last pending one, and the ring is   *)
(* full exactly when it cannot advance.                                    *)
LEMMA EndSlot ==
  ASSUME TypeOK
  PROVE  /\ Slot(Count) = buffer_end
         /\ Advance(buffer_end) = buffer_start <=> Count = KEY_BUFFER_SIZE - 1
         /\ \A j \in 0 .. Count - 1 : Slot(j) # buffer_end
<1>1. buffer_start \in Index /\ buffer_end \in Index  BY DEF TypeOK
<1>2. Advance(buffer_end)
        = IF buffer_end + 1 = KEY_BUFFER_SIZE THEN 0 ELSE buffer_end + 1
  BY <1>1, AdvanceWraps
<1>3. QED BY <1>1, <1>2, SizeAssumption DEF Count, Slot, Index

(* A put that goes through lengthens the ring by one slot at its end; any  *)
(* other put leaves it alone, and then the ring is full or c is 0.         *)
LEMMA PutEffect ==
  ASSUME TypeOK, NEW c \in Byte, Put(c), UNCHANGED buffer_start
  PROVE  \/ /\ c # 0 /\ Count < KEY_BUFFER_SIZE - 1
            /\ Count' = Count + 1
            /\ \A j \in 0 .. KEY_BUFFER_SIZE - 1 : Slot(j)' = Slot(j)
            /\ \A j \in 0 .. Count - 1 : key_buffer'[Slot(j)] = key_buffer[Slot(j)]
            /\ key_buffer'[Slot(Count)] = c
         \/ /\ c = 0 \/ Count = KEY_BUFFER_SIZE - 1
            /\ UNCHANGED <<key_buffer, buffer_end>>
<1>1. buffer_start \in Index /\ buffer_end \in Index
        /\ key_buffer \in [Index -> Byte]
  BY DEF TypeOK
<1>2. Advance(buffer_end)
        = IF buffer_end + 1 = KEY_BUFFER_SIZE THEN 0 ELSE buffer_end + 1
  BY <1>1, AdvanceWraps
<1>3. CASE c # 0 /\ Advance(buffer_end) # buffer_start
  <2>1. key_buffer' = [key_buffer EXCEPT ![buffer_end] = c]
          /\ buffer_end' = Advance(buffer_end)
    BY <1>3 DEF Put
  <2>2. Count < KEY_BUFFER_SIZE - 1  BY <1>3, EndSlot, CountRange, SizeAssumption
  <2>3. Count' = Count + 1
    BY <1>1, <1>2, <1>3, <2>1, SizeAssumption DEF Count, Index
  <2>4. \A j \in 0 .. KEY_BUFFER_SIZE - 1 : Slot(j)' = Slot(j)  BY DEF Slot
  <2>5. \A j \in 0 .. Count - 1 : key_buffer'[Slot(j)] = key_buffer[Slot(j)]
    <3>1. TAKE j \in 0 .. Count - 1
    <3>2. Slot(j) # buffer_end  BY EndSlot
    <3>3. Slot(j) \in Index  BY CountRange, SizeAssumption
    <3>4. QED BY <1>1, <2>1, <3>2, <3>3
  <2>6. key_buffer'[Slot(Count)] = c  BY <1>1, <2>1, EndSlot
  <2>7. QED BY <1>3, <2>2, <2>3, <2>4, <2>5, <2>6
<1>4. CASE ~(c # 0 /\ Advance(buffer_end) # buffer_start)
  BY <1>4, EndSlot DEF Put
<1>5. QED BY <1>3, <1>4

(* A take moves the window of pending slots on by one. *)
LEMMA TakeEffect ==
  ASSUME TypeOK, Count > 0, buffer_start' = Advance(buffer_start),
         UNCHANGED <<key_buffer, buffer_end>>
  PROVE  /\ Count' = Count - 1
         /\ Slot(0) = buffer_start
         /\ \A j \in 0 .. Count - 2 : Slot(j)' = Slot(j + 1)
<1>1. buffer_start \in Index /\ buffer_end \in Index  BY DEF TypeOK
<1>2. buffer_start'
        = IF buffer_start + 1 = KEY_BUFFER_SIZE THEN 0 ELSE buffer_start + 1
  BY <1>1, AdvanceWraps
<1>3. QED BY <1>1, <1>2, SizeAssumption DEF Count, Slot, Index

(* What an interrupt that puts does to the parts of RingInv *)
LEMMA PutKeepsRing ==
  ASSUME RingInv, TypeOK', NEW c \in Byte, Put(c), UNCHANGED loop
  PROVE  RingInv'
<1>1. TypeOK /\ KeyAfterHasKey /\ \A j \in 0 .. Count - 1 : key_buffer[Slot(j)] # 0
  BY DEF RingInv
<1>2. UNCHANGED buffer_start  BY DEF loop
<1>3. Count \in 0 .. KEY_BUFFER_SIZE - 1  BY <1>1, CountRange
<1>4. CASE /\ c # 0 /\ Count < KEY_BUFFER_SIZE - 1
           /\ Count' = Count + 1
           /\ \A j \in 0 .. KEY_BUFFER_SIZE - 1 : Slot(j)' = Slot(j)
           /\ \A j \in 0 .. Count - 1 : key_buffer'[Slot(j)] = key_buffer[Slot(j)]
           /\ key_buffer'[Slot(Count)] = c
  <2>1. \A j \in 0 .. Count' - 1 : key_buffer'[Slot(j)'] # 0
    <3>1. TAKE j \in 0 .. Count' - 1
    <3>2. j \in 0 .. KEY_BUFFER_SIZE - 1 /\ (j = Count \/ j \in 0 .. Count - 1)
      BY <1>3, <1>4, SizeAssumption
    <3>3. QED BY <1>1, <1>4, <3>2
  <2>2. KeyAfterHasKey'
    <3>1. UNCHANGED <<pc, loaded, key, buffer_start>>  BY DEF loop
    <3>2. Count' > 0  BY <1>3, <1>4, SizeAssumption
    <3>3. ASSUME pc = "store" PROVE loaded = key_buffer'[buffer_start]
      <4>1. Count > 0 /\ loaded = key_buffer[buffer_start]
        BY <1>1, <3>3 DEF KeyAfterHasKey
      <4>2. Slot(0) = buffer_start  BY <1>1, SizeAssumption DEF Slot, TypeOK, Index
      <4>3. 0 \in 0 .. Count - 1  BY <1>3, <4>1, SizeAssumption
      <4>4. QED BY <1>4, <4>1, <4>2, <4>3
    <3>4. QED BY <1>1, <3>1, <3>2, <3>3 DEF KeyAfterHasKey
  <2>3. QED BY <2>1, <2>2 DEF RingInv
<1>5. CASE UNCHANGED <<key_buffer, buffer_end>>
  BY <1>1, <1>2, <1>5 DEF RingInv, KeyAfterHasKey, Count, Slot, loop
<1>6. QED BY <1>1, <1>2, <1>4, <1>5, PutEffect

(* RingInv is inductive, once types are known to be kept. *)
LEMMA RingStep == RingInv /\ TypeOK' /\ [Next]_vars => RingInv'
<1> SUFFICES ASSUME RingInv, TypeOK', [Next]_vars PROVE RingInv'
  OBVIOUS
<1>1. TypeOK /\ KeyAfterHasKey /\ \A j \in 0 .. Count - 1 : key_buffer[Slot(j)] # 0
  BY DEF RingInv
<1>2. Count \in 0 .. KEY_BUFFER_SIZE - 1 /\ Slot(0) = buffer_start
  BY <1>1, CountRange, SizeAssumption DEF Slot, TypeOK, Index
<1>3. ASSUME NEW k \in Keys, KeyDown(k) PROVE RingInv'
  <2>1. k[2] \in Code /\ UNCHANGED loop  BY <1>3, KeysAssumption DEF KeyDown
  <2>2. CASE k[2] \in ModifierCodes
    <3>1. UNCHANGED <<key_buffer, buffer_end>>
      BY <1>3, <2>2 DEF KeyDown, HandlePress
    <3>2. QED BY <1>1, <2>1, <3>1 DEF RingInv, KeyAfterHasKey, Count, Slot, loop
  <2>3. CASE k[2] \notin ModifierCodes
    <3>1. Put(Translate(k[2]))  BY <1>3, <2>3 DEF KeyDown, HandlePress
    <3>2. Translate(k[2]) \in Byte  BY <1>1, <2>1, TranslateType
    <3>3. QED BY <2>1, <3>1, <3>2, PutKeepsRing
  <2>4. QED BY <2>2, <2>3
<1>4. ASSUME NEW k \in Keys, KeyUp(k) PROVE RingInv'
  BY <1>1, <1>4 DEF KeyUp, HandleRelease, RingInv, KeyAfterHasKey, Count, Slot, loop
<1>5. CASE HasKey
  <2>1. UNCHANGED <<key_buffer, buffer_end, buffer_start, loaded, key>>
    BY <1>5 DEF HasKey, Unchanged_driver, driver
  <2>2. pc' = "get" => Count > 0
    BY <1>1, <1>2, <1>5, CountRange, SizeAssumption DEF HasKey
  <2>3. pc' \in {"get", "gui"}  BY <1>5 DEF HasKey
  <2>4. QED BY <1>1, <2>1, <2>2, <2>3 DEF RingInv, KeyAfterHasKey, Count, Slot
<1>6. CASE GetEmpty
  <2>1. Count > 0  BY <1>1, <1>6 DEF GetEmpty, KeyAfterHasKey
  <2>2. pc' = "load"  BY <1>1, <1>2, <1>6, <2>1, CountRange, SizeAssumption DEF GetEmpty
  <2>3. UNCHANGED <<key_buffer, buffer_end, buffer_start, loaded>>
    BY <1>6 DEF GetEmpty, Unchanged_driver, driver
  <2>4. QED BY <1>1, <2>1, <2>2, <2>3 DEF RingInv, KeyAfterHasKey, Count, Slot
<1>7. CASE GetLoad
  <2>1. Count > 0  BY <1>1, <1>7 DEF GetLoad, KeyAfterHasKey
  <2>2. UNCHANGED <<key_buffer, buffer_end, buffer_start>>
          /\ pc' = "store" /\ loaded' = key_buffer[buffer_start]
    BY <1>7 DEF GetLoad, Unchanged_driver, driver
  <2>3. QED BY <1>1, <2>1, <2>2 DEF RingInv, KeyAfterHasKey, Count, Slot
<1>8. CASE GetStore
  <2>1. Count > 0 /\ loaded = key_buffer[Slot(0)]
    BY <1>1, <1>2, <1>8 DEF GetStore, KeyAfterHasKey
  <2>2. /\ UNCHANGED <<key_buffer, buffer_end>>
        /\ buffer_start' = Advance(buffer_start)
        /\ pc' = "use" /\ key' = loaded
    BY <1>8 DEF GetStore, Unchanged_driver, driver
  <2>3. Count' = Count - 1 /\ \A j \in 0 .. Count - 2 : Slot(j)' = Slot(j + 1)
    BY <1>1, <2>1, <2>2, TakeEffect
  <2>4. key' # 0  BY <1>1, <1>2, <2>1, <2>2, SizeAssumption
  <2>5. \A j \in 0 .. Count' - 1 : key_buffer'[Slot(j)'] # 0
    <3>1. TAKE j \in 0 .. Count' - 1
    <3>2. j \in 0 .. Count - 2 /\ j + 1 \in 0 .. Count - 1
      BY <1>2, <2>3, SizeAssumption
    <3>3. QED BY <1>1, <2>2, <2>3, <3>2
  <2>6. QED BY <2>2, <2>4, <2>5 DEF RingInv, KeyAfterHasKey
<1>9. CASE UseKey
  BY <1>1, <1>9 DEF UseKey, Unchanged_driver, driver, RingInv, KeyAfterHasKey, Count, Slot
<1>10. CASE GuiUpdate
  BY <1>1, <1>10 DEF GuiUpdate, Unchanged_driver, driver, RingInv, KeyAfterHasKey, Count, Slot
<1>11. CASE UNCHANGED vars
  BY <1>1, <1>11 DEF vars, RingInv, KeyAfterHasKey, Count, Slot
<1>12. QED BY <1>3, <1>4, <1>5, <1>6, <1>7, <1>8, <1>9, <1>10, <1>11
          DEF Next, MainLoop, Environment

LEMMA RingInvariant == Spec => []RingInv
<1>1. Init /\ TypeOK => RingInv
  <2> SUFFICES ASSUME Init, TypeOK PROVE RingInv
    OBVIOUS
  <2>1. Count = 0  BY SizeAssumption DEF Init, Count
  <2>2. pc = "has_key"  BY DEF Init
  <2>3. QED BY <2>1, <2>2 DEF RingInv, KeyAfterHasKey
<1>2. QED BY <1>1, RingStep, TypeCorrect, PTL DEF Spec

(* The key loop never acts on the "no key" value, and the character it     *)
(* has loaded is still the oldest one when it advances the start index.    *)
THEOREM LoopSeesKeys == Spec => []KeyAfterHasKey
<1>1. RingInv => KeyAfterHasKey  BY DEF RingInv
<1>2. QED BY <1>1, RingInvariant, PTL

-----------------------------------------------------------------------------
(* Modifiers, drops and letter case *)

(* Only an interrupt changes what the driver and the keyboard know. *)
LEMMA LoopKeepsKeys ==
  ASSUME MainLoop \/ UNCHANGED vars
  PROVE  UNCHANGED <<kb_state, held, key_buffer, buffer_end>>
BY DEF MainLoop, HasKey, GetEmpty, GetLoad, GetStore, UseKey, GuiUpdate,
       Unchanged_driver, driver, vars

(* A modifier never sticks: the release of a key clears the flag its code  *)
(* stands for, and only a press sets one.                                  *)
THEOREM ModifiersNeverStick == Spec => []NoStuckModifier
<1>1. Init => NoStuckModifier
  BY DEF Init, NoStuckModifier
<1>2. TypeOK /\ NoStuckModifier /\ [Next]_vars => NoStuckModifier'
  <2> SUFFICES ASSUME TypeOK, NoStuckModifier, [Next]_vars PROVE NoStuckModifier'
    OBVIOUS
  <2>1. kb_state \in [shift_pressed : BOOLEAN, ctrl_pressed : BOOLEAN,
                      alt_pressed : BOOLEAN, caps_lock : BOOLEAN]
    BY DEF TypeOK
  <2>2. ASSUME NEW k \in Keys, KeyDown(k) PROVE NoStuckModifier'
    <3>1. held' = held \cup {k}  BY <2>2 DEF KeyDown
    <3>2. CASE k[2] \in ModifierCodes
      <4>1. kb_state' = PressModifier(k[2])
        BY <2>2, <3>2 DEF KeyDown, HandlePress
      <4>2. /\ kb_state'.shift_pressed => kb_state.shift_pressed \/ k[2] \in ShiftCodes
            /\ kb_state'.ctrl_pressed => kb_state.ctrl_pressed \/ k[2] = CtrlCode
            /\ kb_state'.alt_pressed => kb_state.alt_pressed \/ k[2] = AltCode
        BY <2>1, <4>1 DEF PressModifier
      <4>3. QED BY <3>1, <4>2 DEF NoStuckModifier
    <3>3. CASE k[2] \notin ModifierCodes
      <4>1. kb_state' = kb_state  BY <2>2, <3>3 DEF KeyDown, HandlePress
      <4>2. QED BY <3>1, <4>1 DEF NoStuckModifier
    <3>4. QED BY <3>2, <3>3
  <2>3. ASSUME NEW k \in Keys, KeyUp(k) PROVE NoStuckModifier'
    <3>1. held' = held \ {k} /\ kb_state' = ReleaseModifier(k[2])
      BY <2>3 DEF KeyUp, HandleRelease
    <3>2. /\ kb_state'.shift_pressed => kb_state.shift_pressed /\ k[2] \notin ShiftCodes
          /\ kb_state'.ctrl_pressed => kb_state.ctrl_pressed /\ k[2] # CtrlCode
          /\ kb_state'.alt_pressed => kb_state.alt_pressed /\ k[2] # AltCode
      BY <2>1, <3>1 DEF ReleaseModifier
    <3>3. QED BY <3>1, <3>2 DEF NoStuckModifier
  <2>4. CASE MainLoop \/ UNCHANGED vars
    BY <2>4, LoopKeepsKeys DEF NoStuckModifier
  <2>5. QED BY <2>2, <2>3, <2>4 DEF Next, Environment
<1>3. QED BY <1>1, <1>2, TypeCorrect, PTL DEF Spec

(* A character is dropped only when the ring really is full: no            *)
(* interleaving with get_char makes the handler see too small a ring.      *)
THEOREM NoEarlyDrop == Spec => DropsOnlyWhenFull
<1> DEFINE A == \A k \in Keys :
                  KeyDown(k) /\ k[2] \notin ModifierCodes /\ Translate(k[2]) # 0
                    => Count' > Count \/ Count = KEY_BUFFER_SIZE - 1
<1>1. TypeOK => A
  <2> SUFFICES ASSUME TypeOK, NEW k \in Keys, KeyDown(k),
                      k[2] \notin ModifierCodes, Translate(k[2]) # 0
               PROVE  Count' > Count \/ Count = KEY_BUFFER_SIZE - 1
    OBVIOUS
  <2>1. Put(Translate(k[2])) /\ UNCHANGED buffer_start
    BY DEF KeyDown, HandlePress, loop
  <2>2. Translate(k[2]) \in Byte  BY KeysAssumption, TranslateType
  <2>3. Count' = Count + 1 \/ Count = KEY_BUFFER_SIZE - 1
    BY <2>1, <2>2, PutEffect
  <2>4. Count \in Nat  BY CountRange, SizeAssumption
  <2>5. QED BY <2>3, <2>4
<1>2. QED BY <1>1, TypeCorrect, PTL DEF Spec, DropsOnlyWhenFull

(* The correction for caps lock turns every letter of either table into    *)
(* the case that shift and caps lock ask for.                              *)
LEMMA TranslateCase ==
  ASSUME TypeOK, NEW code \in Code, Translate(code) \in Lower \cup Upper
  PROVE  Translate(code) \in Upper <=> kb_state.shift_pressed # kb_state.caps_lock
<1>1. kb_state.shift_pressed \in BOOLEAN /\ kb_state.caps_lock \in BOOLEAN
  BY DEF TypeOK
<1>2. ASSUME NEW c \in Byte
      PROVE  /\ c \in Lower => c - 32 \in Upper
             /\ c \in Upper => c + 32 \in Lower
             /\ ~(c \in Lower /\ c \in Upper)
             /\ ~(c - 32 \in Lower /\ c - 32 \in Upper)
             /\ ~(c + 32 \in Lower /\ c + 32 \in Upper)
  BY DEF Lower, Upper, Byte
<1>3. ASSUME NEW c \in Byte
      PROVE  /\ ~kb_state.caps_lock => ApplyCaps(c) = c
             /\ kb_state.caps_lock /\ c \in Lower
                  => ApplyCaps(c) \in Upper /\ ApplyCaps(c) \notin Lower
             /\ kb_state.caps_lock /\ c \in Upper
                  => ApplyCaps(c) \in Lower /\ ApplyCaps(c) \notin Upper
             /\ c \notin Lower /\ c \notin Upper => ApplyCaps(c) = c
  BY <1>2, Zenon DEF ApplyCaps
<1>4. scancode_to_ascii[code] \in Byte /\ scancode_to_ascii_shift[code] \in Byte
  BY TableAssumption
<1>5. scancode_to_ascii[code] \notin Upper /\ scancode_to_ascii_shift[code] \notin Lower
  BY LettersAssumption
<1>6. Translate(code) \in Lower \/ Translate(code) \in Upper
  OBVIOUS
<1>7. CASE kb_state.shift_pressed
  <2>1. Translate(code) = ApplyCaps(scancode_to_ascii_shift[code])
    BY <1>7 DEF Translate
  <2>2. CASE kb_state.caps_lock
    <3>1. Translate(code) \notin Upper
      BY <1>3, <1>4, <1>5, <1>6, <2>1, <2>2
    <3>2. QED BY <1>1, <1>7, <2>2, <3>1
  <2>3. CASE ~kb_state.caps_lock
    <3>1. Translate(code) \in Upper
      BY <1>3, <1>4, <1>5, <1>6, <2>1, <2>3
    <3>2. QED BY <1>1, <1>7, <2>3, <3>1
  <2>4. QED BY <2>2, <2>3
<1>8. CASE ~kb_state.shift_pressed
  <2>1. Translate(code) = ApplyCaps(scancode_to_ascii[code])
    BY <1>8 DEF Translate
  <2>2. CASE kb_state.caps_lock
    <3>1. Translate(code) \in Upper
      BY <1>3, <1>4, <1>5, <1>6, <2>1, <2>2
    <3>2. QED BY <1>1, <1>8, <2>2, <3>1
  <2>3. CASE ~kb_state.caps_lock
    <3>1. Translate(code) \notin Upper
      BY <1>3, <1>4, <1>5, <1>6, <2>1, <2>3
    <3>2. QED BY <1>1, <1>8, <2>3, <3>1
  <2>4. QED BY <2>2, <2>3
<1>9. QED BY <1>7, <1>8

(* A letter enters the buffer in the case the modifiers ask for, with any  *)
(* layout whose tables keep the two cases apart.                           *)
THEOREM LetterCase == Spec => CaseFollowsModifiers
<1> DEFINE A == \A i \in Index :
                  buffer_end = i /\ buffer_end' # i
                      /\ key_buffer'[i] \in Lower \cup Upper
                    => (key_buffer'[i] \in Upper
                          <=> kb_state.shift_pressed # kb_state.caps_lock)
<1>1. TypeOK /\ [Next]_vars => A
  <2> SUFFICES ASSUME TypeOK, [Next]_vars, buffer_end' # buffer_end,
                      key_buffer'[buffer_end] \in Lower \cup Upper
               PROVE  key_buffer'[buffer_end] \in Upper
                        <=> kb_state.shift_pressed # kb_state.caps_lock
    OBVIOUS
  <2>1. PICK k \in Keys : KeyDown(k)
    BY LoopKeepsKeys DEF Next, Environment, KeyUp, HandleRelease
  <2>2. k[2] \in Code  BY KeysAssumption
  <2>3. Put(Translate(k[2]))
    BY <2>1 DEF KeyDown, HandlePress
  <2>4. key_buffer'[buffer_end] = Translate(k[2])
    BY <2>3 DEF Put, TypeOK
  <2>5. QED BY <2>2, <2>4, TranslateCase
<1>2. QED BY <1>1, TypeCorrect, PTL DEF Spec, CaseFollowsModifiers

-----------------------------------------------------------------------------
(* Refinement of KeyQueue *)

(* The pending characters form a sequence as long as the ring is occupied. *)
LEMMA PendingSeq ==
  ASSUME RingInv
  PROVE  /\ Pending \in Seq(Byte)
         /\ Len(Pending) = Count
         /\ Count \in 0 .. KEY_BUFFER_SIZE - 1
         /\ \A i \in 1 .. Count : Pending[i] = key_buffer[Slot(i - 1)]
<1>1. Count \in 0 .. KEY_BUFFER_SIZE - 1 /\ Count \in Nat
  BY CountRange, SizeAssumption DEF RingInv
<1>2. \A i \in 1 .. Count : key_buffer[Slot(i - 1)] \in Byte
  <2>1. TAKE i \in 1 .. Count
  <2>2. i - 1 \in 0 .. KEY_BUFFER_SIZE - 1  BY <1>1, SizeAssumption
  <2>3. Slot(i - 1) \in Index  BY <2>2, CountRange DEF RingInv
  <2>4. QED BY <2>3 DEF RingInv, TypeOK
<1>3. Pending \in [1 .. Count -> Byte]  BY <1>2 DEF Pending
<1>4. Pending \in Seq(Byte) /\ Len(Pending) = Count
  BY <1>1, <1>3 DEF Pending
<1>5. QED BY <1>1, <1>4 DEF Pending

(* The same as an invariant, so that it applies to the next state as well *)
PendingShape == Pending \in Seq(Byte) /\ Len(Pending) = Count

LEMMA PendingInvariant == Spec => []PendingShape
<1>1. RingInv => PendingShape  BY PendingSeq DEF PendingShape
<1>2. QED BY <1>1, RingInvariant, PTL

(* A step that leaves the ring alone leaves the queue alone. *)
LEMMA PendingUnchanged ==
  ASSUME UNCHANGED <<key_buffer, buffer_start, buffer_end>>
  PROVE  Pending' = Pending
BY DEF Pending, Count, Slot

(* A put is an accept of the queue, or changes nothing. *)
LEMMA PutRefines ==
  ASSUME RingInv, PendingShape', NEW c \in Byte, Put(c), UNCHANGED loop
  PROVE  Queue!Next \/ UNCHANGED Queue!vars
<1>1. TypeOK  BY DEF RingInv
<1>2. UNCHANGED <<buffer_start, key>>  BY DEF loop
<1>3. CASE /\ c # 0 /\ Count < KEY_BUFFER_SIZE - 1
           /\ Count' = Count + 1
           /\ \A j \in 0 .. KEY_BUFFER_SIZE - 1 : Slot(j)' = Slot(j)
           /\ \A j \in 0 .. Count - 1 : key_buffer'[Slot(j)] = key_buffer[Slot(j)]
           /\ key_buffer'[Slot(Count)] = c
  <2>1. Len(Pending) < KEY_BUFFER_SIZE - 1  BY <1>3, PendingSeq
  <2>2. Pending' = Append(Pending, c)
    <3>1. Append(Pending, c) \in Seq(Byte) /\ Len(Append(Pending, c)) = Count + 1
      BY PendingSeq
    <3>2. Pending' \in Seq(Byte) /\ Len(Pending') = Count + 1
      <4>1. Pending' \in Seq(Byte) /\ Len(Pending') = Count'
        BY DEF PendingShape
      <4>2. QED BY <1>3, <4>1
    <3>3. \A i \in 1 .. Count + 1 : Pending'[i] = Append(Pending, c)[i]
      <4>1. TAKE i \in 1 .. Count + 1
      <4>2. Count \in 0 .. KEY_BUFFER_SIZE - 1  BY PendingSeq
      <4>3. /\ i - 1 \in 0 .. KEY_BUFFER_SIZE - 1 /\ Count \in Nat
            /\ i = Count + 1 \/ i \in 1 .. Count
        BY <1>3, <4>2, SizeAssumption
      <4>4. Pending'[i] = key_buffer'[Slot(i - 1)']
        BY <1>3 DEF Pending
      <4>5. Slot(i - 1)' = Slot(i - 1)  BY <1>3, <4>3
      <4>6. CASE i = Count + 1
        <5>1. i - 1 = Count  BY <4>3, <4>6
        <5>2. Append(Pending, c)[i] = c  BY <4>6, PendingSeq
        <5>3. QED BY <1>3, <4>4, <4>5, <5>1, <5>2
      <4>7. CASE i \in 1 .. Count
        <5>1. i - 1 \in 0 .. Count - 1  BY <4>3, <4>7
        <5>2. Append(Pending, c)[i] = Pending[i]  BY <4>7, PendingSeq
        <5>3. Pending[i] = key_buffer[Slot(i - 1)]  BY <4>7, PendingSeq
        <5>4. QED BY <1>3, <4>4, <4>5, <5>1, <5>2, <5>3
      <4>8. QED BY <4>3, <4>6, <4>7
    <3>4. QED BY <3>1, <3>2, <3>3, SeqEqual
  <2>3. c \in Byte \ {0}  BY <1>3
  <2>4. Queue!Accept(c)  BY <1>2, <2>1, <2>2 DEF Queue!Accept
  <2>5. QED BY <2>3, <2>4 DEF Queue!Next
<1>4. CASE UNCHANGED <<key_buffer, buffer_end>>
  BY <1>2, <1>4, PendingUnchanged DEF Queue!vars
<1>5. QED BY <1>1, <1>2, <1>3, <1>4, PutEffect

(* The store that ends get_char is a take of the queue. *)
LEMMA StoreRefines ==
  ASSUME RingInv, PendingShape', GetStore
  PROVE  Queue!Take
<1>1. TypeOK /\ Count > 0 /\ loaded = key_buffer[buffer_start]
  BY DEF RingInv, KeyAfterHasKey, GetStore
<1>2. /\ UNCHANGED <<key_buffer, buffer_end>>
      /\ buffer_start' = Advance(buffer_start) /\ key' = loaded
  BY DEF GetStore, Unchanged_driver, driver
<1>3. Count' = Count - 1 /\ Slot(0) = buffer_start
        /\ \A j \in 0 .. Count - 2 : Slot(j)' = Slot(j + 1)
  BY <1>1, <1>2, TakeEffect
<1>4. Pending \in Seq(Byte) /\ Len(Pending) = Count /\ Count \in Nat
        /\ \A i \in 1 .. Count : Pending[i] = key_buffer[Slot(i - 1)]
  BY PendingSeq, SizeAssumption
<1>5. Pending # <<>>  BY <1>1, <1>4
<1>6. key' = Head(Pending)
  <2>1. Pending[1] = key_buffer[Slot(0)]  BY <1>1, <1>4
  <2>2. QED BY <1>1, <1>2, <1>3, <1>4, <1>5, <2>1
<1>7. Pending' = Tail(Pending)
  <2>1. Pending' \in Seq(Byte) /\ Len(Pending') = Count - 1
    <3>1. Pending' \in Seq(Byte) /\ Len(Pending') = Count'
      BY DEF PendingShape
    <3>2. QED BY <1>3, <3>1
  <2>2. Tail(Pending) \in Seq(Byte) /\ Len(Tail(Pending)) = Count - 1
    BY <1>4, <1>5
  <2>3. \A i \in 1 .. Count - 1 : Pending'[i] = Tail(Pending)[i]
    <3>1. TAKE i \in 1 .. Count - 1
    <3>2. i - 1 \in 0 .. Count - 2 /\ i + 1 \in 1 .. Count /\ (i - 1) + 1 = i
            /\ (i + 1) - 1 = i
      BY <1>4
    <3>3. Pending'[i] = key_buffer'[Slot(i - 1)']  BY <1>3 DEF Pending
    <3>4. Slot(i - 1)' = Slot(i)  BY <1>3, <3>2
    <3>5. Tail(Pending)[i] = Pending[i + 1]  BY <1>4, <1>5
    <3>6. Pending[i + 1] = key_buffer[Slot(i)]  BY <1>4, <3>2
    <3>7. QED BY <1>2, <3>3, <3>4, <3>5, <3>6
  <2>4. QED BY <2>1, <2>2, <2>3, SeqEqual
<1>8. QED BY <1>5, <1>6, <1>7 DEF Queue!Take

(* The keyboard driver implements the bounded queue: no interleaving of    *)
(* the interrupt handler with the main loop loses, repeats, reorders or    *)
(* alters an accepted character.                                           *)
THEOREM KeyboardImplementsQueue == Spec => ImplementsQueue
<1>1. Init => Queue!Init
  <2> SUFFICES ASSUME Init PROVE Queue!Init
    OBVIOUS
  <2>1. Count = 0  BY SizeAssumption DEF Init, Count
  <2>2. Pending = <<>>  BY <2>1 DEF Pending
  <2>3. QED BY <2>2 DEF Init, Queue!Init
<1>2. RingInv /\ PendingShape' /\ [Next]_vars => [Queue!Next]_(Queue!vars)
  <2> SUFFICES ASSUME RingInv, PendingShape', [Next]_vars
               PROVE  Queue!Next \/ UNCHANGED Queue!vars
    OBVIOUS
  <2>1. ASSUME NEW k \in Keys, KeyDown(k) PROVE Queue!Next \/ UNCHANGED Queue!vars
    <3>1. k[2] \in Code /\ UNCHANGED loop  BY <2>1, KeysAssumption DEF KeyDown
    <3>2. CASE k[2] \in ModifierCodes
      <4>1. UNCHANGED <<key_buffer, buffer_end>>
        BY <2>1, <3>2 DEF KeyDown, HandlePress
      <4>2. QED BY <3>1, <4>1, PendingUnchanged DEF Queue!vars, loop
    <3>3. CASE k[2] \notin ModifierCodes
      <4>1. Put(Translate(k[2]))  BY <2>1, <3>3 DEF KeyDown, HandlePress
      <4>2. Translate(k[2]) \in Byte  BY <3>1, TranslateType DEF RingInv
      <4>3. QED BY <3>1, <4>1, <4>2, PutRefines
    <3>4. QED BY <3>2, <3>3
  <2>2. ASSUME NEW k \in Keys, KeyUp(k) PROVE UNCHANGED Queue!vars
    BY <2>2, PendingUnchanged DEF KeyUp, HandleRelease, loop, Queue!vars
  <2>3. CASE HasKey
    BY <2>3, PendingUnchanged DEF HasKey, Unchanged_driver, driver, Queue!vars
  <2>4. CASE GetEmpty
    <3>1. buffer_start # buffer_end
      BY <2>4, CountRange, SizeAssumption DEF RingInv, KeyAfterHasKey, GetEmpty
    <3>2. UNCHANGED <<key, key_buffer, buffer_start, buffer_end>>
      BY <2>4, <3>1 DEF GetEmpty, Unchanged_driver, driver
    <3>3. QED BY <3>2, PendingUnchanged DEF Queue!vars
  <2>5. CASE GetLoad
    BY <2>5, PendingUnchanged DEF GetLoad, Unchanged_driver, driver, Queue!vars
  <2>6. CASE GetStore  BY <2>6, StoreRefines DEF Queue!Next
  <2>7. CASE UseKey
    BY <2>7, PendingUnchanged DEF UseKey, Unchanged_driver, driver, Queue!vars
  <2>8. CASE GuiUpdate
    BY <2>8, PendingUnchanged DEF GuiUpdate, Unchanged_driver, driver, Queue!vars
  <2>9. CASE UNCHANGED vars
    BY <2>9, PendingUnchanged DEF vars, Queue!vars
  <2>10. QED BY <2>1, <2>2, <2>3, <2>4, <2>5, <2>6, <2>7, <2>8, <2>9
             DEF Next, MainLoop, Environment
<1>3. QED BY <1>1, <1>2, RingInvariant, PendingInvariant, PTL
          DEF Spec, ImplementsQueue, Queue!Spec
=============================================================================
