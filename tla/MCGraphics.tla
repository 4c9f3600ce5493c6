----------------------------- MODULE MCGraphics -----------------------------
(***************************************************************************)
(* An instance of Graphics for TLC: words of 64 values and channels of 8,  *)
(* a back buffer of six pixels, a font of 2x1.                             *)
(***************************************************************************)
EXTENDS Graphics

(* Adjacent rows, padded rows, and a mode that does not fit; without       *)
(* information the rows overlap, as they do in the code (320 bytes at a    *)
(* distance of 160)                                                        *)
M(w, h, p) == [width |-> w, height |-> h, pitch |-> p]
MCModes == {M(3, 2, 12), M(2, 3, 12), M(3, 3, 12)}
MCFallback == M(2, 2, 4)

(* One letter with a set and a clear point; a line break, and a text that  *)
(* leaves the screen                                                       *)
MCGlyph == [c \in {65} |-> {<<0, 0>>}]
MCTexts == {<<65, 10, 65>>, <<65, 65>>}

(* A name narrower than an icon, and one that is wider *)
MCNames == {<<65>>, <<65, 65>>}

MCCoordinates == {-1, 0, 1}
MCLengths == {1, 3}
MCColors == {1, 6}
MCEnds == {<<-1, 0>>, <<1, 1>>, <<0, 2>>, <<4, 1>>, <<2, -5>>, <<-3, 4>>}
=============================================================================
