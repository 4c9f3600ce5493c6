------------------------------ MODULE Keyboard ------------------------------
(***************************************************************************)
(* kernel/keyboard.c: the IRQ1 handler, which turns scancodes into         *)
(* characters and puts them into a ring buffer, against the loop of        *)
(* kernel_main that takes them out.  The handler runs with interrupts off  *)
(* (boot/isr.s), so it is one step; the main loop is interruptible between *)
(* any two of its memory accesses, so has_key and get_char are split at    *)
(* each access to state they share with the handler.                       *)
(*                                                                         *)
(* The keyboard itself is the environment.  A physical key is a pair       *)
(* <<extended, code>>: the keyboard sends the byte E0 first when extended  *)
(* is TRUE.  The handler takes E0 for the release of code 0x60, which it   *)
(* ignores, so that interrupt is a stuttering step and is left out.        *)
(***************************************************************************)
EXTENDS Integers, Sequences

CONSTANTS
  KEY_BUFFER_SIZE,
  Keys,                      (* physical keys, pairs <<extended, code>> *)
  scancode_to_ascii,         (* the two tables of the layout            *)
  scancode_to_ascii_shift

Code == 0 .. 127             (* a scancode without its release bit *)
Byte == 0 .. 127             (* a C char that is not negative      *)

ASSUME SizeAssumption == KEY_BUFFER_SIZE \in Nat \ {0}
ASSUME KeysAssumption == Keys \subseteq (BOOLEAN \X Code)
ASSUME TableAssumption == /\ scancode_to_ascii \in [Code -> Byte]
                          /\ scancode_to_ascii_shift \in [Code -> Byte]

Lower == 97 .. 122
Upper == 65 .. 90

(* The plain table of the layout has no capitals, and the shift table has  *)
(* nothing but capitals among its letters.                                 *)
ASSUME LettersAssumption ==
  \A s \in Code : /\ scancode_to_ascii[s] \notin Upper
                  /\ scancode_to_ascii_shift[s] \notin Lower

VARIABLES
  kb_state,      (* the modifiers as the driver believes them to be        *)
  key_buffer, buffer_start, buffer_end,
  pc,            (* where the main loop is                                 *)
  loaded,        (* keyboard_get_char's local c                            *)
  key,           (* kernel_main's local c                                  *)
  held           (* the keys physically down                               *)

driver == <<kb_state, key_buffer, buffer_end>>
loop == <<pc, loaded, key, buffer_start>>
vars == <<kb_state, key_buffer, buffer_start, buffer_end, pc, loaded, key, held>>

Index == 0 .. KEY_BUFFER_SIZE - 1
(* Mutant: the modulus is forgotten *)
Advance_NoWrap(i) == i + 1

Advance(i) == (i + 1) % KEY_BUFFER_SIZE

ShiftCodes == {42, 54}
CtrlCode == 29
AltCode == 56
CapsCode == 58
ModifierCodes == ShiftCodes \cup {CtrlCode, AltCode, CapsCode}

Init ==
  /\ kb_state = [shift_pressed |-> FALSE, ctrl_pressed |-> FALSE,
                 alt_pressed |-> FALSE, caps_lock |-> FALSE]
  /\ key_buffer = [i \in Index |-> 0]
  /\ buffer_start = 0
  /\ buffer_end = 0
  /\ pc = "has_key"
  /\ loaded = 0
  /\ key = 0
  /\ held = {}

-----------------------------------------------------------------------------
(* The interrupt handler *)

(* Mutant: the release of the right shift key is forgotten *)
ReleaseModifier_LeftOnly(code) ==
  [kb_state EXCEPT
     !.shift_pressed = IF code = 42 THEN FALSE ELSE @,
     !.ctrl_pressed  = IF code = CtrlCode THEN FALSE ELSE @,
     !.alt_pressed   = IF code = AltCode THEN FALSE ELSE @]

ReleaseModifier(code) ==
  [kb_state EXCEPT
     !.shift_pressed = IF code \in ShiftCodes THEN FALSE ELSE @,
     !.ctrl_pressed  = IF code = CtrlCode THEN FALSE ELSE @,
     !.alt_pressed   = IF code = AltCode THEN FALSE ELSE @]

PressModifier(code) ==
  [kb_state EXCEPT
     !.shift_pressed = IF code \in ShiftCodes THEN TRUE ELSE @,
     !.ctrl_pressed  = IF code = CtrlCode THEN TRUE ELSE @,
     !.alt_pressed   = IF code = AltCode THEN TRUE ELSE @,
     !.caps_lock     = IF code = CapsCode THEN ~@ ELSE @]

(* Mutant: shift with caps lock still gives upper case *)
ApplyCaps_UpperOnly(c) ==
  IF kb_state.caps_lock /\ c \in Lower THEN c - 32 ELSE c

ApplyCaps(c) ==
  IF ~kb_state.caps_lock THEN c
  ELSE IF c \in Lower THEN c - 32
  ELSE IF c \in Upper THEN c + 32
  ELSE c

Translate(code) ==
  ApplyCaps(IF kb_state.shift_pressed THEN scancode_to_ascii_shift[code]
                                      ELSE scancode_to_ascii[code])

(* Mutant: no test for a full buffer *)
Put_NoFullTest(c) ==
  IF c # 0
  THEN /\ key_buffer' = [key_buffer EXCEPT ![buffer_end] = c]
       /\ buffer_end' = Advance(buffer_end)
  ELSE UNCHANGED <<key_buffer, buffer_end>>

(* Mutant: the end of the array is taken for a full buffer *)
Put_LinearFull(c) ==
  IF c # 0 /\ buffer_end + 1 < KEY_BUFFER_SIZE
  THEN /\ key_buffer' = [key_buffer EXCEPT ![buffer_end] = c]
       /\ buffer_end' = Advance(buffer_end)
  ELSE UNCHANGED <<key_buffer, buffer_end>>

Put(c) ==
  IF c # 0 /\ Advance(buffer_end) # buffer_start
  THEN /\ key_buffer' = [key_buffer EXCEPT ![buffer_end] = c]
       /\ buffer_end' = Advance(buffer_end)
  ELSE UNCHANGED <<key_buffer, buffer_end>>

HandlePress(code) ==
  IF code \in ModifierCodes
  THEN /\ kb_state' = PressModifier(code)
       /\ UNCHANGED <<key_buffer, buffer_end>>
  ELSE /\ Put(Translate(code))
       /\ UNCHANGED kb_state

HandleRelease(code) ==
  /\ kb_state' = ReleaseModifier(code)
  /\ UNCHANGED <<key_buffer, buffer_end>>

(* A key goes down, or repeats while it is down *)
KeyDown(k) ==
  /\ held' = held \cup {k}
  /\ HandlePress(k[2])
  /\ UNCHANGED loop

KeyUp(k) ==
  /\ k \in held
  /\ held' = held \ {k}
  /\ HandleRelease(k[2])
  /\ UNCHANGED loop

-----------------------------------------------------------------------------
(* The key loop of kernel_main *)

Unchanged_driver == UNCHANGED <<driver, held>>

(* Mutant: the loop calls get_char without asking has_key *)
HasKey_Always ==
  /\ pc = "has_key"
  /\ pc' = "get"
  /\ UNCHANGED <<loaded, key, buffer_start>>
  /\ Unchanged_driver

(* Mutant: the test for a key forgets that the indices wrap *)
HasKey_LessThan ==
  /\ pc = "has_key"
  /\ pc' = IF buffer_start < buffer_end THEN "get" ELSE "gui"
  /\ UNCHANGED <<loaded, key, buffer_start>>
  /\ Unchanged_driver

HasKey ==
  /\ pc = "has_key"
  /\ pc' = IF buffer_start # buffer_end THEN "get" ELSE "gui"
  /\ UNCHANGED <<loaded, key, buffer_start>>
  /\ Unchanged_driver

GetEmpty ==
  /\ pc = "get"
  /\ IF buffer_start = buffer_end
     THEN pc' = "use" /\ key' = 0
     ELSE pc' = "load" /\ UNCHANGED key
  /\ UNCHANGED <<loaded, buffer_start>>
  /\ Unchanged_driver

GetLoad ==
  /\ pc = "load"
  /\ loaded' = key_buffer[buffer_start]
  /\ pc' = "store"
  /\ UNCHANGED <<key, buffer_start>>
  /\ Unchanged_driver

GetStore ==
  /\ pc = "store"
  /\ buffer_start' = Advance(buffer_start)
  /\ key' = loaded
  /\ pc' = "use"
  /\ UNCHANGED loaded
  /\ Unchanged_driver

(* The body of the while loop, and gui_update when the loop is left *)
UseKey ==
  /\ pc = "use"
  /\ pc' = "has_key"
  /\ UNCHANGED <<loaded, key, buffer_start>>
  /\ Unchanged_driver

GuiUpdate ==
  /\ pc = "gui"
  /\ pc' = "has_key"
  /\ UNCHANGED <<loaded, key, buffer_start>>
  /\ Unchanged_driver

MainLoop == HasKey \/ GetEmpty \/ GetLoad \/ GetStore \/ UseKey \/ GuiUpdate

Environment == \E k \in Keys : KeyDown(k) \/ KeyUp(k)

Next == MainLoop \/ Environment

Spec == Init /\ [][Next]_vars

(* kernel_main loops for ever and interrupts always return to it *)
FairSpec == Spec /\ WF_vars(MainLoop)

-----------------------------------------------------------------------------
(* The refinement mapping to KeyQueue *)

Count == IF buffer_start <= buffer_end
         THEN buffer_end - buffer_start
         ELSE buffer_end - buffer_start + KEY_BUFFER_SIZE

Slot(i) == IF buffer_start + i < KEY_BUFFER_SIZE
           THEN buffer_start + i
           ELSE buffer_start + i - KEY_BUFFER_SIZE

Pending == [i \in 1 .. Count |-> key_buffer[Slot(i - 1)]]

Queue == INSTANCE KeyQueue
           WITH Char <- Byte \ {0}, Capacity <- KEY_BUFFER_SIZE - 1,
                queue <- Pending, last <- key

-----------------------------------------------------------------------------
(* Properties *)

(* Every variable keeps to the values its C type and its use allow. *)
TypeOK ==
  /\ kb_state \in [shift_pressed : BOOLEAN, ctrl_pressed : BOOLEAN,
                   alt_pressed : BOOLEAN, caps_lock : BOOLEAN]
  /\ key_buffer \in [Index -> Byte]
  /\ buffer_start \in Index
  /\ buffer_end \in Index
  /\ pc \in {"has_key", "get", "load", "store", "use", "gui"}
  /\ loaded \in Byte
  /\ key \in Byte
  /\ held \subseteq Keys

(* The driver implements the bounded queue, whatever the interleaving of   *)
(* the handler with the accesses of has_key and get_char.                  *)
ImplementsQueue == Queue!Spec

(* With a main loop that keeps running, every accepted character is taken. *)
ImplementsFairQueue == Queue!FairSpec

(* A character is dropped only when the buffer really holds as many as it  *)
(* can: a handler that runs while the main loop is between the two halves  *)
(* of get_char must not be turned away by a stale index.                   *)
DropsOnlyWhenFull ==
  [][\A k \in Keys :
       KeyDown(k) /\ k[2] \notin ModifierCodes /\ Translate(k[2]) # 0
         => Count' > Count \/ Count = KEY_BUFFER_SIZE - 1]_vars

(* The key loop never acts on the "no key" value: has_key returning true   *)
(* guarantees that the get_char after it returns a character.              *)
KeyAfterHasKey ==
  /\ pc \in {"get", "load", "store"} => Count > 0
  /\ pc = "store" => loaded = key_buffer[buffer_start]
  /\ pc = "use" => key # 0

(* No modifier sticks: the driver believes a modifier down only while a    *)
(* key with its code is physically down.                                   *)
NoStuckModifier ==
  /\ kb_state.shift_pressed => \E k \in held : k[2] \in ShiftCodes
  /\ kb_state.ctrl_pressed => \E k \in held : k[2] = CtrlCode
  /\ kb_state.alt_pressed => \E k \in held : k[2] = AltCode

(* A letter enters the buffer in upper case exactly when one of shift and  *)
(* caps lock is on: the layout tables and the caps lock correction of the  *)
(* handler agree on every letter key.                                      *)
CaseFollowsModifiers ==
  [][\A i \in Index :
       buffer_end = i /\ buffer_end' # i /\ key_buffer'[i] \in Lower \cup Upper
         => (key_buffer'[i] \in Upper
               <=> kb_state.shift_pressed # kb_state.caps_lock)]_vars

=============================================================================
