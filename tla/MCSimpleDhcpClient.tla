------------------------- MODULE MCSimpleDhcpClient -------------------------
(***************************************************************************)
(* A small instance of SimpleDhcpClient.                                   *)
(***************************************************************************)
EXTENDS SimpleDhcpClient

MCMacs == {<<2, 0, 0, 0, 0, 1>>, <<255, 255, 0, 128, 1, 254>>}

\* Answers of a server with and without an address, the DISCOVER itself, and
\* frames that fail one test each.
MCFrames ==
  LET answer == [ether_type |-> "IP", ip_p |-> "UDP", uh_sport |-> 67,
                 opcode |-> 2, yiaddr |-> 7] IN
  {answer,
   [answer EXCEPT !.yiaddr = 0],
   [answer EXCEPT !.uh_sport = 68, !.opcode = 1, !.yiaddr = 0],
   [answer EXCEPT !.opcode = 1],
   [answer EXCEPT !.ether_type = "ARP"],
   [answer EXCEPT !.ip_p = "TCP"],
   [answer EXCEPT !.uh_sport = 53]}

\* Every sequence of up to six bytes at the edges: no, one and two carries.
MCData == UNION {[1 .. n -> {0, 1, 127, 128, 255}] : n \in 0 .. 6}
=============================================================================
