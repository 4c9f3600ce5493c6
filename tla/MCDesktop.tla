----------------------------- MODULE MCDesktop -----------------------------
(***************************************************************************)
(* Instances of Desktop for TLC, on the real 800x600 geometry.  The points *)
(* of the mouse are the product of a set of columns and a set of rows, so  *)
(* that a pair read half before and half after a packet is one of them.    *)
(***************************************************************************)
EXTENDS Display

NoKeys == {}
TextKeys == {ESC, 65}
OneKey == {65}

(* Columns: the icons and the start button; title bars and the second      *)
(* taskbar button; the minimize button of the notepad and the close button *)
(* of the explorer (windows dragged aside bring others under the columns)  *)
IconColumn == {30}
IconAndTitle == {30, 300}
ClickColumns == {30, 300, 660}

(* Rows: title bars and the explorer icon; the notepad icon; the taskbar   *)
NotepadRow == {240}
TitleAndNotepad == {70, 240}
ClickRows == {70, 240, 580}
=============================================================================
