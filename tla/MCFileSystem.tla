---------------------------- MODULE MCFileSystem ----------------------------
(* An instance of FileSystem for TLC: a name as long as fits, one that is   *)
(* cut down to it, and contents that shrink, fill and exceed the data array *)
EXTENDS FileSystem

MCNames == {<<1, 2>>, <<1, 2, 3>>, <<2>>}
MCContents == {<<1>>, <<2, 1>>, <<1, 1, 1>>}
=============================================================================
