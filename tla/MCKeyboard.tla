----------------------------- MODULE MCKeyboard -----------------------------
(* Instances of Keyboard for TLC. *)
EXTENDS Keyboard, UsKeymap

(* Both shift keys, control, caps lock and a letter: the ring wraps, fills *)
(* and drops, with the letter in either case                               *)
TypingKeys == {<<FALSE, 42>>, <<FALSE, 54>>, <<FALSE, 29>>, <<FALSE, 58>>,
               <<FALSE, 30>>}
=============================================================================
