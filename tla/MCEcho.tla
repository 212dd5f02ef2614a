------------------------------- MODULE MCEcho -------------------------------
(***************************************************************************)
(* A small instance of Echo: a buffer of 2 bytes, words up to one longer.  *)
(***************************************************************************)
EXTENDS Echo

MCWords == {<<>>, <<"a">>, <<"b", "c">>, <<"a", "b", "c">>}
MCGarbage ==
  {[i \in 0 .. (ECHOMAX + 1) |-> NUL],
   [i \in 0 .. (ECHOMAX + 1) |-> IF i = ECHOMAX + 1 THEN NUL ELSE "x"]}
=============================================================================
