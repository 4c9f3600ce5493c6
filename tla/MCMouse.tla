------------------------------- MODULE MCMouse -------------------------------
(* An instance of Mouse for TLC, on a screen small enough for every edge to *)
(* be met: small and extreme movements, none of whose bytes has bit 3 set.  *)
EXTENDS Mouse

MCMoves == {<<1, 2>>, <<-128, 7>>, <<119, -16>>}
=============================================================================
