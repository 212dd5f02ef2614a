---------------------------- MODULE MCDhcpClient ----------------------------
(***************************************************************************)
(* Small instances of DhcpClient.  The times of dhcp-project.h divided by  *)
(* four, the wait rounded up: as there, the wait is longer than what the   *)
(* rebind leaves of the lease and shorter than what the renewal leaves     *)
(* until the rebind.                                                       *)
(***************************************************************************)
EXTENDS DhcpClient

\* SIGALRM strikes where the client blocks, and between two calls everywhere
\* but on the way from an OFFER to setup_interface and inside set_alarm.
MCOutsideWindows ==
  Blocking \cup {"discover", "arm_t1", "nak", "nak_retry", "release"}

\* SIGALRM strikes anywhere.
MCEverywhere == Blocking \cup Between

\* Strays, NAKs, OFFERs of one address with every option, and ACKs, the ones
\* without an address or without options included.
MCDatagrams ==
  {Stray} \cup
  {d \in Answer :
     \/ d.type = "NAK" /\ d.yiaddr = INADDR_ANY /\ d.options = "none"
     \/ d.type = "OFFER" /\ d.yiaddr = 5 /\ d.options = "all"
     \/ d.type = "ACK" /\ (d.yiaddr = INADDR_ANY => d.options # "lease")}

\* The datagrams of this repository's server.
MCServerDatagrams ==
  {d \in MCDatagrams : d = Stray \/ d.type = "NAK" \/ d.options = "all"}
=============================================================================
