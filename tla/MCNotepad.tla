----------------------------- MODULE MCNotepad -----------------------------
(* An instance of Notepad for TLC: one key of each kind the loop tells      *)
(* apart, TAB being one it ignores.  The window has room for two rows of    *)
(* two characters, and what 640x480 leaves over: 2 and 6 pixels.            *)
EXTENDS NotepadView

MCKeys == {BACKSPACE, 9, NEWLINE, RETURN, 65}

(* On the screen, ten pixels left of it, its text half and wholly left of   *)
(* it, its right margin just left of it and just missed, and further left   *)
MCCorners == {<<0, 0>>, <<80, 60>>, <<-10, 5>>, <<-11, 5>>, <<-20, 0>>, <<-27, 0>>,
              <<-26, 0>>, <<-300, 0>>}
=============================================================================
