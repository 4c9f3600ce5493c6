------------------------------- MODULE Notepad -------------------------------
(***************************************************************************)
(* The text of the notepad in kernel/kernel.c: a character array drawn up  *)
(* to its first NUL, and a cursor that says where the next character goes  *)
(* and how many bytes a save writes.  The two notions of length have to    *)
(* agree, whatever is typed and however often the window is reopened.      *)
(* Characters are ASCII codes.                                             *)
(***************************************************************************)
EXTENDS Integers

CONSTANTS
  BUFFER_SIZE,     (* sizeof(notepad_buffer)                          *)
  INITIAL_LEN,     (* length of the text the array is initialised to  *)
  WELCOME_LEN,     (* length of the text open_notepad copies into it  *)
  Keys             (* the characters that may be typed                *)

ASSUME NotepadAssumption ==
  /\ BUFFER_SIZE \in Nat
  /\ INITIAL_LEN \in 0 .. BUFFER_SIZE - 1
  /\ WELCOME_LEN \in 0 .. BUFFER_SIZE - 1

NUL == 0
BACKSPACE == 8
NEWLINE == 10
RETURN == 13
Printable == 32 .. 126
SomeLetter == 87

VARIABLES
  notepad_buffer, notepad_cursor,
  opened           (* whether a notepad window was ever created *)

vars == <<notepad_buffer, notepad_cursor, opened>>

Cells == 0 .. BUFFER_SIZE - 1

Init ==
  /\ notepad_buffer = [i \in Cells |-> IF i < INITIAL_LEN THEN SomeLetter ELSE NUL]
  /\ notepad_cursor = 0
  /\ opened = FALSE

(* Mutant: the cursor is left where it was *)
OpenNotepad_KeepsCursor ==
  /\ notepad_buffer' = [i \in Cells |->
                          IF i < WELCOME_LEN THEN SomeLetter
                          ELSE IF i = WELCOME_LEN THEN NUL
                          ELSE notepad_buffer[i]]
  /\ opened' = TRUE
  /\ UNCHANGED notepad_cursor

(* strcpy of the welcome text, then strlen of the result *)
OpenNotepad ==
  /\ notepad_buffer' = [i \in Cells |->
                          IF i < WELCOME_LEN THEN SomeLetter
                          ELSE IF i = WELCOME_LEN THEN NUL
                          ELSE notepad_buffer[i]]
  /\ notepad_cursor' = WELCOME_LEN
  /\ opened' = TRUE

Insert(c) ==
  /\ notepad_buffer' = [notepad_buffer EXCEPT ![notepad_cursor] = c,
                                              ![notepad_cursor + 1] = NUL]
  /\ notepad_cursor' = notepad_cursor + 1

Erase ==
  /\ notepad_buffer' = [notepad_buffer EXCEPT ![notepad_cursor - 1] = NUL]
  /\ notepad_cursor' = notepad_cursor - 1

(* Mutant: no room is kept for the NUL *)
RoomForOne_NoNul == notepad_cursor < BUFFER_SIZE

RoomForOne == notepad_cursor < BUFFER_SIZE - 1

(* The key loop of kernel_main, ESC aside; reached only when notepad_window *)
(* has been set                                                             *)
TypeKey(c) ==
  /\ opened
  /\ CASE c = BACKSPACE /\ notepad_cursor > 0 -> Erase
       [] c \in {NEWLINE, RETURN} /\ RoomForOne -> Insert(NEWLINE)
       [] c \in Printable /\ RoomForOne -> Insert(c)
       [] OTHER -> UNCHANGED <<notepad_buffer, notepad_cursor>>
  /\ UNCHANGED opened

Next == OpenNotepad \/ \E c \in Keys : TypeKey(c)

Spec == Init /\ [][Next]_vars

-----------------------------------------------------------------------------
(* The array holds characters and the cursor stays inside it. *)
TypeOK ==
  /\ notepad_buffer \in [Cells -> 0 .. 127]
  /\ notepad_cursor \in Cells
  /\ opened \in BOOLEAN

(* notepad_draw reads up to the first NUL and never beyond the array: the  *)
(* array always holds one.                                                 *)
DrawStopsInBuffer == \E i \in Cells : notepad_buffer[i] = NUL

(* What a save writes (the cursor's worth of bytes) is what notepad_draw   *)
(* shows (the bytes before the first NUL), once a window shows anything.   *)
DrawnIsSaved ==
  opened => /\ notepad_buffer[notepad_cursor] = NUL
            /\ \A i \in 0 .. notepad_cursor - 1 : notepad_buffer[i] # NUL
=============================================================================
