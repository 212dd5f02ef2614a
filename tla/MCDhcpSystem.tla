---------------------------- MODULE MCDhcpSystem ----------------------------
(***************************************************************************)
(* Small instances of DhcpSystem: the server is 1, the pool starts at 2.   *)
(***************************************************************************)
EXTENDS DhcpSystem

MCAddr == Pool \cup {INADDR_ANY, DHCP_SERVER_IP_ADDRESS}
MCXid == 0 .. MaxTime

MCSymmetry == Permutations(Mac)
=============================================================================
