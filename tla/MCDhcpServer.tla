---------------------------- MODULE MCDhcpServer ----------------------------
(***************************************************************************)
(* Small instances of DhcpServer: the server is 1, the pool starts at 2    *)
(* and 9 is an address of another network.                                 *)
(***************************************************************************)
EXTENDS DhcpServer

MCSymmetry == Permutations(Mac)

Own == [opcode |-> "BOOTREQUEST", xid |-> 0, flags |-> "BROADCAST",
        ciaddr |-> INADDR_ANY, requested |-> NoOption, server_id |-> NoOption,
        len_is_4 |-> TRUE, type_first |-> TRUE]

\* The packets dhcp-client.c builds: DISCOVER, REQUEST and INFORM of a client
\* without an address carry option 50, those of a client with one do not.
MCClientPackets ==
  LET Base(t, m) == Own @@ [type |-> t, chaddr |-> m]
      ToServer(t, m) ==
        [Base(t, m) EXCEPT !.server_id = DHCP_SERVER_IP_ADDRESS]
      Wanted == Pool \cup {INADDR_ANY}
      Had == Pool \cup {9} IN
  UNION {
    {[Base("DISCOVER", m) EXCEPT !.requested = a] : a \in Wanted} \cup
    {[ToServer("REQUEST", m) EXCEPT !.requested = a] : a \in Wanted} \cup
    {[ToServer("REQUEST", m) EXCEPT !.ciaddr = a] : a \in Had} \cup
    {[ToServer("RELEASE", m) EXCEPT !.ciaddr = a, !.flags = "UNICAST"]
       : a \in Wanted} \cup
    {[Base("INFORM", m) EXCEPT !.requested = a] : a \in Wanted} \cup
    {[Base("INFORM", m) EXCEPT !.ciaddr = a] : a \in Pool}
    : m \in Mac}

\* Packets other hosts send: for another server, without options, with an
\* option 50 of another length, with option 53 behind others, with the unicast
\* flag, of a type or with an opcode the server does not serve.
MCForeignPackets ==
  LET Base(t, m) == Own @@ [type |-> t, chaddr |-> m]
      To(t, m, s) == [Base(t, m) EXCEPT !.server_id = s]
      Unicast(p) == [p EXCEPT !.flags = "UNICAST",
                              !.requested = IP_ADDRESS_POOL_START]
      Odd(p) == [p EXCEPT !.len_is_4 = FALSE,
                          !.requested = IP_ADDRESS_POOL_START] IN
  UNION {
    {To("REQUEST", m, 9), To("REQUEST", m, DHCP_SERVER_IP_ADDRESS),
     Base("REQUEST", m), Base("DISCOVER", m), To("RELEASE", m, 9),
     Base("DECLINE", m), Base("OTHER", m),
     [Base("DISCOVER", m) EXCEPT !.opcode = "BOOTREPLY"],
     Unicast(Base("DISCOVER", m)),
     Unicast(To("REQUEST", m, DHCP_SERVER_IP_ADDRESS)),
     Base("INFORM", m), Odd(Base("INFORM", m)), Odd(Base("DISCOVER", m)),
     Odd(Unicast(To("REQUEST", m, DHCP_SERVER_IP_ADDRESS))),
     [Base("INFORM", m) EXCEPT !.ciaddr = IP_ADDRESS_POOL_START,
                               !.type_first = FALSE]}
    : m \in Mac}

MCPackets == MCClientPackets \cup MCForeignPackets

MCUnwritten == {INADDR_ANY, IP_ADDRESS_POOL_START}

MCAddr == Pool \cup {INADDR_ANY, DHCP_SERVER_IP_ADDRESS, 9}
=============================================================================
