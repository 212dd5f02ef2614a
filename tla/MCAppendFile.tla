---------------------------- MODULE MCAppendFile ----------------------------
(***************************************************************************)
(* A small instance of AppendFile.                                         *)
(***************************************************************************)
EXTENDS AppendFile

MCContents == {<<>>, <<"x">>, <<"x", "y", "x">>, <<"y", "x", "z", "y", "y">>}
=============================================================================
