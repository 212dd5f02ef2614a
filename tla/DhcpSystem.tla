----------------------------- MODULE DhcpSystem -----------------------------
(***************************************************************************)
(* Clients and the server of DhcpServer on one network segment.  A client  *)
(* is dhcp-client.c at the grain of its exchanges: DhcpClient has what     *)
(* happens inside one.  Its last alarm strikes on time here.               *)
(*                                                                         *)
(* Datagrams keep their order and may be lost; with Delays they take any   *)
(* time, with Duplicates they may arrive again.  A broadcast reaches every *)
(* client that does not lose it, a unicast the client that has the         *)
(* address.  A socket keeps what arrives between two exchanges.  xid is    *)
(* rand() after srand(time(NULL)): a function of the second, which stands  *)
(* for it.                                                                 *)
(***************************************************************************)
EXTENDS LeaseList

CONSTANTS
  Operations,   \* what users do: some of the operations of the menu, the
                \* end of a client and the restart of the server
  CommandLine,  \* the servers a new process can be given: INADDR_ANY where
                \* it has a mode that takes none
  SameSecond,   \* whether two exchanges can begin in one second
  Delays,       \* whether a datagram can take longer than a second
  Duplicates,   \* whether a datagram can arrive twice
  QueueLimit,   \* datagrams on their way to one receiver
  NoPacket, MaxTime              \* of DhcpServer

VARIABLES
  recv, sent,   \* of DhcpServer
  toServer,     \* datagrams on their way to the server
  inbox,        \* datagrams on their way to each client
  client,       \* the process and the interface of each client
  restarted     \* whether the server has been restarted: the properties
                \* speak of it

serverVars == <<leases, num_of_lease, recv, sent>>
vars == <<serverVars, now, toServer, inbox, client, restarted>>

\* What dhcp-client.c can send: option 50 without an address, option 54 in a
\* REQUEST and in a RELEASE.
Packets ==
  {p \in [opcode : {"BOOTREQUEST"}, xid : Xid, chaddr : Mac,
          type : {"DISCOVER", "REQUEST", "RELEASE", "INFORM"},
          flags : {"UNICAST", "BROADCAST"}, ciaddr : Addr,
          requested : Addr \cup {NoOption},
          server_id : {INADDR_ANY, DHCP_SERVER_IP_ADDRESS, NoOption},
          len_is_4 : {TRUE}, type_first : {TRUE}] :
     /\ p.requested = NoOption <=> p.ciaddr # INADDR_ANY
     /\ p.server_id = NoOption <=> p.type \in {"DISCOVER", "INFORM"}
     /\ p.flags = "UNICAST" <=> p.type = "RELEASE"}

Server == INSTANCE DhcpServer WITH Unwritten <- Addr

ASSUME SystemAssumption ==
  /\ MaxTime \in Nat /\ 0 .. MaxTime \subseteq Xid
  /\ Operations \subseteq {"discover", "renew", "inform", "release", "exit",
                    "restart"}
  /\ CommandLine \subseteq {INADDR_ANY, DHCP_SERVER_IP_ADDRESS}
  /\ SameSecond \in BOOLEAN
  /\ Delays \in BOOLEAN /\ Duplicates \in BOOLEAN
  /\ QueueLimit \in Nat \ {0}

Waiting == {"offer", "discover_ack", "renew_ack", "inform_ack"}
NoGrant == [type |-> "NONE"]
NoAlarm == 0

\* pc is the recvfrom the process is in, addr the address of the interface,
\* grant the type and chaddr of the answer addr was taken from, expires the
\* time of the alarm that ends the lease.
Client ==
  [pc : Waiting \cup {"menu", "exited"}, xid : Xid, addr : Addr, yiaddr : Addr,
   dhcp_server_identifier : {INADDR_ANY, DHCP_SERVER_IP_ADDRESS},
   grant : [type : ReplyType, chaddr : Mac] \cup {NoGrant}, expires : Nat]

NewClient ==
  [pc |-> "menu", xid |-> 0, addr |-> INADDR_ANY, yiaddr |-> INADDR_ANY,
   dhcp_server_identifier |-> INADDR_ANY, grant |-> NoGrant,
   expires |-> NoAlarm]

-----------------------------------------------------------------------------
(* The network. *)

\* sendto of a client: the datagram is on its way, or lost.
ToServer(m) ==
  \/ UNCHANGED toServer
  \/ Len(toServer) < QueueLimit /\ toServer' = Append(toServer, m)

\* What is left of a queue once its first datagram has arrived.
Arrived(queue) == {Tail(queue)} \cup (IF Duplicates THEN {queue} ELSE {})

\* The clients a datagram of the server is addressed to.
Receivers(d) ==
  {c \in Mac :
     /\ d.type \in ReplyType
     /\ \/ d.dst = INADDR_BROADCAST
        \/ client[c].addr = d.dst /\ d.dst # INADDR_ANY}

ToClients(d) ==
  \E C \in SUBSET {c \in Receivers(d) : Len(inbox[c]) < QueueLimit} :
    inbox' = [c \in Mac |-> IF c \in C THEN Append(inbox[c], d) ELSE inbox[c]]

-----------------------------------------------------------------------------
(* The client.  As in LeaseList, the _Xxx operators are slips.               *)

construct_dhcp_packet_NoAddress(c, s, type) ==
  [opcode |-> "BOOTREQUEST", type |-> type, xid |-> s.xid,
   flags |-> IF type = "RELEASE" THEN "UNICAST" ELSE "BROADCAST",
   ciaddr |-> s.addr, chaddr |-> c, requested |-> NoOption,
   server_id |-> IF type \in {"REQUEST", "RELEASE"}
                 THEN s.dhcp_server_identifier ELSE NoOption,
   len_is_4 |-> TRUE, type_first |-> TRUE]

\* The packet process s of client c builds.
construct_dhcp_packet(c, s, type) ==
  [opcode |-> "BOOTREQUEST", type |-> type, xid |-> s.xid,
   flags |-> IF type = "RELEASE" THEN "UNICAST" ELSE "BROADCAST",
   ciaddr |-> s.addr, chaddr |-> c,
   requested |-> IF s.addr = INADDR_ANY THEN s.yiaddr ELSE NoOption,
   server_id |-> IF type \in {"REQUEST", "RELEASE"}
                 THEN s.dhcp_server_identifier ELSE NoOption,
   len_is_4 |-> TRUE, type_first |-> TRUE]

\* setup_interface_release.  With the address gone the last alarm has nothing
\* left to do.
setup_interface_release(s) ==
  [s EXCEPT !.addr = INADDR_ANY, !.grant = NoGrant, !.expires = NoAlarm]

\* A process in state s begins an exchange: seed, draw xid, send, and wait.
Begin(c, s, type, place) ==
  LET t == [s EXCEPT !.xid = now, !.pc = place] IN
  /\ SameSecond \/ \A d \in Mac : client[d].xid < now
  /\ client' = [client EXCEPT ![c] = t]
  /\ ToServer(construct_dhcp_packet(c, t, type))

Idle(c, op) ==
  /\ client[c].pc = "menu"
  /\ op \in Operations
  /\ UNCHANGED <<serverVars, now, inbox, restarted>>

\* discover() returns at once on an interface that has an address.
discover(c) ==
  /\ Idle(c, "discover")
  /\ client[c].addr = INADDR_ANY
  /\ Begin(c, client[c], "DISCOVER", "offer")

\* renew and rebind send the same packet, and so do the first two alarms.
renew(c) == Idle(c, "renew") /\ Begin(c, client[c], "REQUEST", "renew_ack")

inform(c) == Idle(c, "inform") /\ Begin(c, client[c], "INFORM", "inform_ack")

release_KeepsAddress(c) ==
  /\ Idle(c, "release")
  /\ SameSecond \/ \A d \in Mac : client[d].xid < now
  /\ ToServer(construct_dhcp_packet(c, [client[c] EXCEPT !.xid = now], "RELEASE"))
  /\ client' = [client EXCEPT ![c].xid = now]

release(c) ==
  /\ Idle(c, "release")
  /\ SameSecond \/ \A d \in Mac : client[d].xid < now
  /\ ToServer(construct_dhcp_packet(c, [client[c] EXCEPT !.xid = now], "RELEASE"))
  /\ client' = [client EXCEPT ![c] =
                  [setup_interface_release(client[c]) EXCEPT !.xid = now]]

\* The process ends, from the menu, after the one exchange of a mode without
\* menu, or killed; the interface keeps its address and loses its alarm.
exit(c) ==
  /\ "exit" \in Operations
  /\ client[c].pc # "exited"
  /\ client' = [client EXCEPT ![c].pc = "exited", ![c].expires = NoAlarm]
  /\ inbox' = [inbox EXCEPT ![c] = <<>>]
  /\ UNCHANGED <<serverVars, now, toServer, restarted>>

\* A new process on the interface, with nothing of the old one's memory; the
\* modes with an operation on the command line name the server there as well.
main(c) ==
  /\ client[c].pc = "exited"
  /\ \E id \in CommandLine :
       client' = [client EXCEPT ![c] =
         [NewClient EXCEPT !.xid = client[c].xid, !.addr = client[c].addr,
                           !.grant = client[c].grant,
                           !.dhcp_server_identifier = id]]
  /\ UNCHANGED <<serverVars, now, toServer, inbox, restarted>>

\* What a client in recvfrom tests of a datagram of the server.
IsAnswer(c, d) == d.xid = client[c].xid

Receive(c, places, accepted) ==
  /\ client[c].pc \in places
  /\ inbox[c] # <<>>
  /\ accepted = IsAnswer(c, Head(inbox[c]))
  /\ \E rest \in Arrived(inbox[c]) : inbox' = [inbox EXCEPT ![c] = rest]
  /\ UNCHANGED <<serverVars, now, restarted>>

ReceiveStray(c) ==
  /\ Receive(c, Waiting, FALSE)
  /\ UNCHANGED <<client, toServer>>

\* The answer names its server.
Learn(c) ==
  [client[c] EXCEPT !.dhcp_server_identifier = DHCP_SERVER_IP_ADDRESS]

\* yiaddr is the address of the offer, and what the REQUEST asks for.
ReceiveOffer(c) ==
  LET s == [Learn(c) EXCEPT !.yiaddr = Head(inbox[c]).yiaddr,
                            !.pc = "discover_ack"] IN
  /\ Receive(c, {"offer"}, TRUE)
  /\ client' = [client EXCEPT ![c] = s]
  /\ ToServer(construct_dhcp_packet(c, s, "REQUEST"))

\* setup_interface and set_alarm.
ReceiveAck(c) ==
  LET d == Head(inbox[c]) IN
  /\ Receive(c, {"discover_ack"}, TRUE)
  /\ d.type # "NAK"
  /\ client' = [client EXCEPT ![c] =
       [Learn(c) EXCEPT !.pc = "menu", !.addr = d.yiaddr,
                        !.grant = [type |-> d.type, chaddr |-> d.chaddr],
                        !.expires = now + IP_ADDRESS_LEASE_TIME]]
  /\ UNCHANGED toServer

ReceiveNak(c) ==
  /\ Receive(c, {"discover_ack"}, TRUE)
  /\ Head(inbox[c]).type = "NAK"
  /\ client' = [client EXCEPT ![c] =
       [setup_interface_release(client[c]) EXCEPT !.pc = "menu"]]
  /\ UNCHANGED toServer

\* The address stays, whatever the answer says: only set_alarm is called.
ReceiveRenewAck(c) ==
  /\ Receive(c, {"renew_ack"}, TRUE)
  /\ Head(inbox[c]).type # "NAK"
  /\ client' = [client EXCEPT ![c] =
       [Learn(c) EXCEPT !.pc = "menu",
                        !.expires = IF client[c].addr = INADDR_ANY THEN NoAlarm
                                    ELSE now + IP_ADDRESS_LEASE_TIME]]
  /\ UNCHANGED toServer

\* setup_interface_release, and discover() behind it.
ReceiveRenewNak(c) ==
  /\ Receive(c, {"renew_ack"}, TRUE)
  /\ Head(inbox[c]).type = "NAK"
  /\ Begin(c, setup_interface_release(client[c]), "DISCOVER", "offer")

\* The exchange of an INFORM ends the same way with an ACK and with a NAK but
\* for the server's name.
ReceiveInformAck(c) ==
  /\ Receive(c, {"inform_ack"}, TRUE)
  /\ client' = [client EXCEPT ![c] =
       [(IF Head(inbox[c]).type = "NAK" THEN client[c] ELSE Learn(c))
          EXCEPT !.pc = "menu"]]
  /\ UNCHANGED toServer

\* SO_RCVTIMEO, from the second after the exchange began.
Timeout(c) ==
  /\ client[c].pc \in Waiting
  /\ inbox[c] = <<>>
  /\ now > client[c].xid
  /\ client' = [client EXCEPT ![c].pc = "menu"]
  /\ UNCHANGED <<serverVars, now, toServer, inbox, restarted>>

\* The last alarm of the lease, which ends the exchange it interrupts.
lease_time_out(s) == [setup_interface_release(s) EXCEPT !.pc = "menu"]

-----------------------------------------------------------------------------
Init ==
  /\ dhcp_setup
  /\ recv = NoPacket /\ sent = Server!NoDatagram
  /\ toServer = <<>> /\ inbox = [c \in Mac |-> <<>>]
  /\ client = [c \in Mac |-> NewClient]
  /\ restarted = FALSE

ServerStep ==
  /\ toServer # <<>>
  /\ Server!Receive(Head(toServer))
  /\ toServer' \in Arrived(toServer)
  /\ ToClients(sent')
  /\ UNCHANGED <<client, restarted>>

\* The server ends and is started again: its leases were in memory only, and
\* what was in its socket is lost.
Restart ==
  /\ "restart" \in Operations
  /\ leases' = <<>> /\ num_of_lease' = 0
  /\ recv' = NoPacket /\ sent' = Server!NoDatagram
  /\ toServer' = <<>>
  /\ restarted' = TRUE
  /\ UNCHANGED <<now, inbox, client>>

Delivered ==
  /\ toServer = <<>>
  /\ \A c \in Mac : client[c].pc \in Waiting => inbox[c] = <<>>

\* A second passes, and with it the leases that end in it.
Tick ==
  /\ now < MaxTime
  /\ Delays \/ Delivered
  /\ now' = now + 1
  /\ client' = [c \in Mac |-> IF client[c].expires = now + 1
                              THEN lease_time_out(client[c]) ELSE client[c]]
  /\ UNCHANGED <<serverVars, toServer, inbox, restarted>>

ClientStep(c) ==
  \/ discover(c) \/ renew(c) \/ inform(c) \/ release(c) \/ exit(c) \/ main(c)
  \/ ReceiveStray(c) \/ ReceiveOffer(c) \/ ReceiveAck(c) \/ ReceiveNak(c)
  \/ ReceiveRenewAck(c) \/ ReceiveRenewNak(c) \/ ReceiveInformAck(c)
  \/ Timeout(c)

Next == ServerStep \/ Restart \/ Tick \/ \E c \in Mac : ClientStep(c)

Spec == Init /\ [][Next]_vars

-----------------------------------------------------------------------------
(* Properties that hold while no lease runs out and xid tells exchanges      *)
(* apart.                                                                    *)

\* Every variable keeps its type; in particular clients send nothing but the
\* packets DhcpServer and the proofs about it are stated for.
TypeOK ==
  /\ Server!TypeOK
  /\ now <= MaxTime
  /\ toServer \in Seq(Packets)
  /\ inbox \in [Mac -> Seq(Reply)]
  /\ client \in [Mac -> Client]
  /\ restarted \in BOOLEAN

\* Client c uses an address the server acknowledged to c.
Holds(c, a) ==
  /\ a # INADDR_ANY
  /\ client[c].addr = a
  /\ client[c].grant = [type |-> "ACK", chaddr |-> c]

Recorded(c, a) ==
  \E i \in DOMAIN leases : leases[i].addr = a /\ leases[i].chaddr = c

\* What a client holds is in the server's list under that client's name,
\* however datagrams are lost and delayed and processes end and start: the
\* client's view of a lease implies the server's, unless the server has been
\* restarted.
HeldIsRecorded ==
  \A c \in Mac, a \in Addr : Holds(c, a) => Recorded(c, a) \/ restarted

RenewalRefused ==
  /\ toServer' # toServer
  /\ sent' # sent /\ sent'.type = "NAK"
  /\ recv'.ciaddr # INADDR_ANY /\ Holds(recv'.chaddr, recv'.ciaddr)

\* The server answers no renewal of an address with a NAK while the client
\* still holds the address; where one client is alone, not even a server that
\* was restarted and has no lease of it.
HolderNotRefused == [][~RenewalRefused]_vars

\* dhcp-server.c:422, check_ipaddr "checks whether the address is a duplicate
\* among the present leases": no two clients hold one address.
NoAddressHeldTwice ==
  \A a \in Addr, c, d \in Mac : Holds(c, a) /\ Holds(d, a) => c = d
=============================================================================
