--------------------------- MODULE MCFileTransfer ---------------------------
(***************************************************************************)
(* Small instances of FileTransfer: a buffer of 3 characters for names of  *)
(* one or two, files of 0 to 2 blocks.                                     *)
(***************************************************************************)
EXTENDS FileTransfer

MCFiles ==
  [n \in {<<"a">>, <<"a", "b">>, <<"b">>} |->
     CASE n = <<"a">> -> <<"a1", "a2">>
       [] n = <<"a", "b">> -> <<"ab1">>
       [] n = <<"b">> -> <<>>]

MCMissing == {<<"c">>}

\* Zero, or left by a function called before.
MCNameBuffers ==
  {<<NUL, NUL, NUL>>, <<"x", "x", NUL>>, <<NUL, "b", NUL>>}

MCOldCopies == {<<>>, <<"o1", "o2", "o3">>}
=============================================================================
