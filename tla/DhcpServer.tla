----------------------------- MODULE DhcpServer -----------------------------
(***************************************************************************)
(* dhcp-server.c: one process that receives a datagram, runs the handler   *)
(* of its message type to the end and goes back to recvfrom.  Handling a   *)
(* datagram is therefore one step.  The reply is built in place in         *)
(* dhcp_recv, so it keeps xid, ciaddr and chaddr of the request.           *)
(*                                                                         *)
(* A step reads one value of time(NULL) where the code reads it two or     *)
(* three times in a row.  The options of a packet are what get_dhcp_option *)
(* finds in dhcp_recv once recvfrom has filled it, whether the packet has  *)
(* them or they are left there by an earlier and longer one.               *)
(***************************************************************************)
EXTENDS LeaseList

CONSTANTS
  Packets,      \* the packets that reach the server's socket
  NoPacket,     \* recv before the first packet
  Unwritten,    \* what the program can read, as an address, where it has
                \* written nothing
  MaxTime       \* bound on the clock

ASSUME PacketAssumption == Packets \subseteq Packet
ASSUME UnwrittenAssumption == Unwritten \subseteq Addr

VARIABLES
  recv,         \* the last packet received
  sent          \* the datagram sendto was given for it, or how it ended

vars == <<leases, num_of_lease, now, recv, sent>>

NoDatagram == [type |-> "NONE"]

\* sendto with the length 0 that construct_dhcp_packet returns when the pool
\* has no address to offer.
EmptyDatagram(dst) == [type |-> "EMPTY", dst |-> dst]

\* The process has been ended by a signal: it receives nothing any more.
Segfault == [type |-> "SIGSEGV"]

Datagram ==
  Reply \cup {NoDatagram, Segfault}
        \cup {EmptyDatagram(d) : d \in Addr \cup {INADDR_BROADCAST}}

-----------------------------------------------------------------------------
\* msg_type points at the value of option 53 in dhcp_recv, and is read when
\* the front of the reply has been written.  Where option 53 comes first, the
\* reply's own lies over it.  Elsewhere it may lie behind the front and still
\* be the request's; a byte of the front is never DHCPINFORM.
MsgTypesRead(m, state) == IF m.type_first THEN {state} ELSE {state, m.type}

\* What construct_dhcp_packet leaves in dhcp_recv once yiaddr is chosen.
SendReply(m, state, yiaddr, dst) ==
  \E msg_type \in MsgTypesRead(m, state) :
    sent' = [type |-> state, xid |-> m.xid, ciaddr |-> m.ciaddr,
             yiaddr |-> yiaddr, chaddr |-> m.chaddr,
             lease_options |-> state # "NAK" /\ msg_type # "INFORM",
             dst |-> dst]

\* The client asks for an address it may have.
Requested(m) ==
  /\ m.requested # NoOption
  /\ m.len_is_4
  /\ check_ipaddr(m.requested, m.chaddr)

Offer_Unchecked(m, dst) ==
  /\ SendReply(m, "OFFER", m.requested, dst)
  /\ UNCHANGED <<leases, num_of_lease>>

Offer(m, dst) ==
  \/ /\ Requested(m)
     /\ SendReply(m, "OFFER", m.requested, dst)
     /\ UNCHANGED <<leases, num_of_lease>>
  \/ /\ ~Requested(m)
     /\ \E ret \in {0, -1}, ip \in Addr :
          /\ allocate_ip(m.chaddr, ret, ip)
          /\ \/ ret < 0 /\ sent' = EmptyDatagram(dst)
             \/ ret = 0 /\ SendReply(m, "OFFER", ip, dst)

\* The ACK to a client with an address; ret is not looked at.
AckOwn(m, dst) ==
  \E ret \in {0, -1}, ip \in Addr :
    /\ allocate_ip(m.chaddr, ret, ip)
    /\ SendReply(m, "ACK", ip, dst)

\* The ACK to a client without one, for whatever option 50 holds.
AckRequested(m, dst) ==
  /\ m.requested # NoOption
  /\ add_lease(m.requested, m.chaddr)
  /\ SendReply(m, "ACK", m.requested, dst)

\* The same without option 50: get_dhcp_option leaves option_value as it is,
\* which nothing has set.  What add_lease and memcpy read there is anything,
\* if it can be read at all.
AckUnset(m, dst) ==
  /\ m.requested = NoOption
  /\ \/ sent' = Segfault /\ UNCHANGED <<leases, num_of_lease>>
     \/ \E ip \in Unwritten :
          /\ add_lease(ip, m.chaddr)
          /\ SendReply(m, "ACK", ip, dst)

construct_dhcp_packet(m, state, dst) ==
  \/ /\ state = "NAK"
     /\ SendReply(m, state, INADDR_ANY, dst)
     /\ UNCHANGED <<leases, num_of_lease>>
  \/ state = "OFFER" /\ Offer(m, dst)
  \/ /\ state = "ACK" /\ m.ciaddr = INADDR_ANY
     /\ AckRequested(m, dst) \/ AckUnset(m, dst)
  \/ state = "ACK" /\ m.ciaddr # INADDR_ANY /\ AckOwn(m, dst)

-----------------------------------------------------------------------------
\* A handler that returns early.
Ignore == sent' = NoDatagram /\ UNCHANGED <<leases, num_of_lease>>

\* The address a handler of a packet with an empty ciaddr answers to.
AnswerTo(m) ==
  IF m.flags = "UNICAST" /\ Requested(m) THEN m.ciaddr ELSE INADDR_BROADCAST

dhcp_handle_discover(m) ==
  /\ m.type = "DISCOVER"
  /\ construct_dhcp_packet(m, "OFFER", AnswerTo(m))

\* The pointer to option 50 still points at option 54 when there is no
\* option 50.  Its length is not looked at.
RequestedAddress(m) ==
  IF m.requested # NoOption THEN m.requested ELSE m.server_id

AckOrNak(ok) == IF ok THEN "ACK" ELSE "NAK"

dhcp_handle_request_NoCheck(m) ==
  /\ m.type = "REQUEST"
  /\ \/ m.server_id # DHCP_SERVER_IP_ADDRESS /\ Ignore
     \/ /\ m.server_id = DHCP_SERVER_IP_ADDRESS
        /\ construct_dhcp_packet(m, "ACK", INADDR_BROADCAST)

dhcp_handle_request_Recorded(m) ==
  /\ m.type = "REQUEST"
  /\ \/ m.server_id # DHCP_SERVER_IP_ADDRESS /\ Ignore
     \/ /\ m.server_id = DHCP_SERVER_IP_ADDRESS
        /\ m.ciaddr = INADDR_ANY
        /\ construct_dhcp_packet(m,
             AckOrNak(check_ipaddr(RequestedAddress(m), m.chaddr)),
             AnswerTo(m))
     \/ /\ m.server_id = DHCP_SERVER_IP_ADDRESS
        /\ m.ciaddr # INADDR_ANY
        /\ construct_dhcp_packet(m,
             AckOrNak(\E i \in DOMAIN leases : leases[i].chaddr = m.chaddr),
             m.ciaddr)

dhcp_handle_request(m) ==
  /\ m.type = "REQUEST"
  /\ \/ /\ m.server_id # DHCP_SERVER_IP_ADDRESS
        /\ Ignore
     \/ /\ m.server_id = DHCP_SERVER_IP_ADDRESS
        /\ m.ciaddr = INADDR_ANY
        /\ construct_dhcp_packet(m,
             AckOrNak(check_ipaddr(RequestedAddress(m), m.chaddr)),
             AnswerTo(m))
     \/ /\ m.server_id = DHCP_SERVER_IP_ADDRESS
        /\ m.ciaddr # INADDR_ANY
        /\ construct_dhcp_packet(m,
             AckOrNak(check_ipaddr(m.ciaddr, m.chaddr)),
             m.ciaddr)

dhcp_handle_release(m) ==
  /\ m.type = "RELEASE"
  /\ sent' = NoDatagram
  /\ \/ /\ m.server_id = DHCP_SERVER_IP_ADDRESS
        /\ delete_lease(m.ciaddr, m.chaddr)
     \/ /\ m.server_id # DHCP_SERVER_IP_ADDRESS
        /\ UNCHANGED <<leases, num_of_lease>>

dhcp_handle_inform(m) ==
  /\ m.type = "INFORM"
  /\ construct_dhcp_packet(m, "ACK", m.ciaddr)

-----------------------------------------------------------------------------
Init ==
  /\ dhcp_setup
  /\ recv = NoPacket
  /\ sent = NoDatagram

\* One round of the loop in main.
Receive(m) ==
  /\ sent # Segfault
  /\ recv' = m
  /\ UNCHANGED now
  /\ \/ /\ m.opcode = "BOOTREQUEST"
        /\ \/ dhcp_handle_discover(m)
           \/ dhcp_handle_request(m)
           \/ dhcp_handle_release(m)
           \/ dhcp_handle_inform(m)
           \/ m.type \in {"DECLINE", "OTHER"} /\ Ignore
     \/ m.opcode # "BOOTREQUEST" /\ Ignore

Tick ==
  /\ now < MaxTime
  /\ now' = now + 1
  /\ UNCHANGED <<leases, num_of_lease, recv, sent>>

\* A process that has ended stays ended.
Ended == sent = Segfault /\ UNCHANGED vars

Next == Tick \/ Ended \/ \E m \in Packets : Receive(m)

Spec == Init /\ [][Next]_vars

-----------------------------------------------------------------------------
(* Properties that hold. *)

\* Every variable keeps its type, whatever packets arrive, with any options or
\* none: every node of the list and every reply has an address where the code
\* keeps one, even if it is one that was read where nothing had been written.
TypeOK ==
  /\ leases \in Seq(Lease)
  /\ num_of_lease \in Int
  /\ now \in Nat
  /\ recv \in Packets \cup {NoPacket}
  /\ sent \in Datagram

CountIsLength == num_of_lease = Len(leases)
AddressesDistinct ==
  \A i, j \in DOMAIN leases : leases[i].addr = leases[j].addr => i = j
StampsArePast == \A i \in DOMAIN leases : leases[i].time_stamp <= now

\* add_lease and delete_lease keep the counter equal to the length of the
\* list, the list never has two nodes for one address, so that stopping at
\* the first node with an address, as check_ipaddr does, misses nothing, and
\* no lease begins in the future.
ListConsistent == CountIsLength /\ AddressesDistinct /\ StampsArePast

\* The loop at label outer in allocate_ip is entered only when it can end:
\* whenever the counter lets allocate_ip draw an address, one is free.
AllocationTerminates ==
  num_of_lease <= IP_ADDRESS_POOL_AMOUNT - 1 => Pool \ Leased # {}

\* The address a client uses once it has d: a renewing client keeps the one it
\* has, which the server repeats in ciaddr, and never reads yiaddr.
Granted(d) ==
  IF d.type = "ACK" /\ d.ciaddr # INADDR_ANY THEN d.ciaddr ELSE d.yiaddr

GrantIsFree ==
  recv' \in Packets /\ now' = now =>
    (recv'.type # "INFORM" /\ sent'.type \in {"OFFER", "ACK"} =>
       ~HeldByOther(Granted(sent'), sent'.chaddr))

\* No OFFER, and no ACK of a REQUEST, grants an address another client held a
\* lease on when the packet arrived.
GrantRespectsLeases == [][GrantIsFree]_vars

KeptOrReleased(i) ==
  \/ \E j \in DOMAIN leases' :
       /\ leases'[j].addr = leases[i].addr
       /\ leases'[j].chaddr = leases[i].chaddr
       /\ leases'[j].time_stamp >= leases[i].time_stamp
  \/ /\ recv' \in Packets
     /\ recv'.type = "RELEASE"
     /\ recv'.ciaddr = leases[i].addr
     /\ recv'.chaddr = leases[i].chaddr

\* A lease disappears from the list only through a RELEASE its own holder
\* sent for that address; nothing else removes it, hands it to another
\* client or turns its time stamp back, expired or not.
LeaseLostOnlyByRelease == [][\A i \in DOMAIN leases : KeptOrReleased(i)]_vars

RecordedByInform ==
  /\ recv' \in Packets
  /\ recv'.type = "INFORM"
  /\ recv'.ciaddr = INADDR_ANY

\* An address outside the pool gets a lease only through an INFORM of a client
\* without an address: the way of a REQUEST into add_lease always leads
\* through check_ipaddr, with the same option 50.
LeaseOutsidePoolOnlyByInform ==
  [][\A a \in Leased' \ Leased : a \in Pool \/ RecordedByInform]_vars

UnsetRead ==
  \/ sent' = Segfault
  \/ /\ sent'.type = "ACK"
     /\ recv'.ciaddr = INADDR_ANY /\ recv'.requested = NoOption

\* The unset pointer of construct_dhcp_packet is used for an INFORM without
\* option 50 alone, where it may end the server.  A REQUEST without the option
\* has a NAK for an answer: the handler looks at option 54 in its place, and
\* that is the server's own address, which is not in the pool.
UnsetReadOnlyByInform ==
  [][recv' \in Packets /\ now' = now /\ UnsetRead =>
       RecordedByInform /\ recv'.requested = NoOption]_vars

RecordedFor(list, a, mac) ==
  \E i \in DOMAIN list : list[i].addr = a /\ list[i].chaddr = mac

AckRecorded ==
  recv' \in Packets /\ now' = now =>
    (recv'.type = "REQUEST" /\ recv'.ciaddr = INADDR_ANY /\ sent'.type = "ACK" =>
       \/ RecordedFor(leases', sent'.yiaddr, sent'.chaddr)
       \/ \E i \in DOMAIN leases :
            /\ leases[i].addr = sent'.yiaddr
            /\ leases[i].chaddr # sent'.chaddr /\ Expired(i))

\* The address a client without one is acknowledged is in the list under its
\* name when the ACK goes out, with one exception: where the expired lease of
\* another client has the address, add_lease finds that node and keeps its MAC.
AckRecordedUnlessTakenOver == [][AckRecorded]_vars

HolderAnswered ==
  recv' \in Packets /\ now' = now =>
    ((\E a \in Addr : RecordedFor(leases, a, recv'.chaddr)) =>
       /\ sent'.type # "EMPTY"
       /\ sent'.type = "ACK" /\ recv'.ciaddr # INADDR_ANY =>
            RecordedFor(leases, sent'.yiaddr, recv'.chaddr))

\* A client the list has a lease of is never left without an offer, however
\* full the pool and however old the lease, and the yiaddr that acknowledges
\* its ciaddr is an address of its own: what allocate_ip returns -1 for, or
\* leaves uninitialised, goes to strangers only.
HolderIsAnswered == [][HolderAnswered]_vars

\* The list implements the abstract table of LeaseTable.
Node(a) == leases[CHOOSE i \in DOMAIN leases : leases[i].addr = a]
Owner == [a \in Addr |-> IF a \in Leased THEN Node(a).chaddr ELSE NoOption]
Stamp == [a \in Addr |-> IF a \in Leased THEN Node(a).time_stamp ELSE 0]

Table == INSTANCE LeaseTable WITH
  Nobody <- NoOption, owner <- Owner, stamp <- Stamp, clock <- now

ImplementsLeaseTable == Table!Spec
=============================================================================
