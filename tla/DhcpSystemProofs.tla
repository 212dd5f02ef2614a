-------------------------- MODULE DhcpSystemProofs --------------------------
(***************************************************************************)
(* Proofs about DhcpSystem, for any number of clients, any pool and queues *)
(* of any length.                                                          *)
(***************************************************************************)
EXTENDS DhcpSystem, LeaseListProofs

-----------------------------------------------------------------------------
(* What the server does with a packet of a client. *)

\* Server has its own copy of the operations of LeaseList.
LEMMA ServerOperations ==
  /\ Server!INADDR_ANY = INADDR_ANY
  /\ Server!ReplyType = ReplyType
  /\ Server!Reply = Reply
  /\ Server!Lease = Lease
  /\ \A ip, mac : Server!check_ipaddr(ip, mac) <=> check_ipaddr(ip, mac)
  /\ \A ip, mac : Server!add_lease(ip, mac) <=> add_lease(ip, mac)
  /\ \A ip, mac : Server!delete_lease(ip, mac) <=> delete_lease(ip, mac)
  /\ \A mac, ret, ip :
       Server!allocate_ip(mac, ret, ip) <=> allocate_ip(mac, ret, ip)
<1> USE DEF Server!FirstWithAddr, FirstWithAddr, Server!FirstWithMac,
      FirstWithMac, Server!Touch, Touch, Server!Leased, Leased,
      Server!Pool, Pool, Server!Expired, Expired
<1>1. Server!INADDR_ANY = INADDR_ANY /\ Server!ReplyType = ReplyType
  BY DEF Server!INADDR_ANY, INADDR_ANY, Server!ReplyType, ReplyType
<1>2. Server!Reply = Reply /\ Server!Lease = Lease
  BY <1>1 DEF Server!Reply, Reply, Server!Lease, Lease
<1>3. \A ip, mac : Server!check_ipaddr(ip, mac) <=> check_ipaddr(ip, mac)
  BY Zenon DEF Server!check_ipaddr, check_ipaddr
<1>4. \A ip, mac : Server!add_lease(ip, mac) <=> add_lease(ip, mac)
  BY Zenon DEF Server!add_lease, add_lease
<1>5. \A ip, mac : Server!delete_lease(ip, mac) <=> delete_lease(ip, mac)
  BY Zenon DEF Server!delete_lease, delete_lease, Server!RemoveAt, RemoveAt
<1>6. \A mac, ret, ip :
       Server!allocate_ip(mac, ret, ip) <=> allocate_ip(mac, ret, ip)
  BY Zenon DEF Server!allocate_ip, allocate_ip
<1> QED BY <1>1, <1>2, <1>3, <1>4, <1>5, <1>6

\* The fields of a packet of dhcp-client.c.
LEMMA PacketFields ==
  ASSUME NEW m \in Packets
  PROVE  /\ m.opcode = "BOOTREQUEST"
         /\ m.type \in {"DISCOVER", "REQUEST", "RELEASE", "INFORM"}
         /\ m.xid \in Xid
         /\ m.ciaddr \in Addr
         /\ m.chaddr \in Mac
         /\ m.ciaddr = INADDR_ANY => m.requested \in Addr
BY PoolFacts DEF Packets

\* A reply keeps the transaction identifier and the addresses of its request.
LEMMA ReplyFields ==
  ASSUME NEW m \in Packets, NEW state \in ReplyType, NEW yiaddr \in Addr,
         NEW dst \in Addr \cup {INADDR_BROADCAST},
         Server!SendReply(m, state, yiaddr, dst)
  PROVE  /\ sent' \in Reply
         /\ sent'.type = state /\ sent'.yiaddr = yiaddr
         /\ sent'.xid = m.xid
         /\ sent'.ciaddr = m.ciaddr /\ sent'.chaddr = m.chaddr
<1>0. PICK msg_type \in Server!MsgTypesRead(m, state) :
        sent' = [type |-> state, xid |-> m.xid, ciaddr |-> m.ciaddr,
                 yiaddr |-> yiaddr, chaddr |-> m.chaddr,
                 lease_options |-> state # "NAK" /\ msg_type # "INFORM",
                 dst |-> dst]
  BY DEF Server!SendReply
<1> DEFINE opts == state # "NAK" /\ msg_type # "INFORM"
<1>1. opts \in BOOLEAN
  BY Zenon
<1>2. sent' = [type |-> state, xid |-> m.xid, ciaddr |-> m.ciaddr,
               yiaddr |-> yiaddr, chaddr |-> m.chaddr,
               lease_options |-> opts, dst |-> dst]
  BY <1>0
<1> HIDE DEF opts
<1> QED BY <1>1, <1>2, PacketFields DEF Reply

\* What construct_dhcp_packet does to the list and sends.
LEMMA Constructed ==
  ASSUME NEW m \in Packets, NEW state \in ReplyType,
         NEW dst \in Addr \cup {INADDR_BROADCAST},
         Server!construct_dhcp_packet(m, state, dst)
  PROVE  /\ \/ UNCHANGED <<leases, num_of_lease>>
            \/ \E i \in DOMAIN leases : Touch(i) /\ UNCHANGED num_of_lease
            \/ m.ciaddr = INADDR_ANY /\ Appended(m.requested, m.chaddr)
         /\ \/ sent' = Server!EmptyDatagram(dst)
            \/ \E yiaddr \in Addr :
                 /\ Server!SendReply(m, state, yiaddr, dst)
                 /\ state = "ACK" /\ m.ciaddr = INADDR_ANY =>
                      yiaddr = m.requested /\ add_lease(yiaddr, m.chaddr)
<1> DEFINE Sends(y) ==
      /\ Server!SendReply(m, state, y, dst)
      /\ state = "ACK" /\ m.ciaddr = INADDR_ANY =>
           y = m.requested /\ add_lease(y, m.chaddr)
<1>1. CASE /\ state = "NAK"
           /\ Server!SendReply(m, state, Server!INADDR_ANY, dst)
           /\ UNCHANGED <<leases, num_of_lease>>
  <2>1. Sends(INADDR_ANY)
    BY <1>1, ServerOperations
  <2> QED BY <1>1, <2>1, PoolFacts
<1>2. CASE /\ state = "OFFER"
           /\ Server!Requested(m)
           /\ Server!SendReply(m, "OFFER", m.requested, dst)
           /\ UNCHANGED <<leases, num_of_lease>>
  <2>1. m.requested \in Addr
    BY <1>2, ServerOperations, PoolFacts DEF check_ipaddr, Server!Requested
  <2> QED BY <1>2, <2>1
<1>3. CASE /\ state = "OFFER"
           /\ \E ret \in {0, -1}, ip \in Addr :
                /\ Server!allocate_ip(m.chaddr, ret, ip)
                /\ \/ ret < 0 /\ sent' = Server!EmptyDatagram(dst)
                   \/ ret = 0 /\ Server!SendReply(m, "OFFER", ip, dst)
  BY <1>3, ServerOperations, AllocateEffect
<1>4. CASE /\ state = "ACK"
           /\ m.ciaddr = Server!INADDR_ANY
           /\ Server!AckRequested(m, dst)
  <2>1. add_lease(m.requested, m.chaddr) /\ m.ciaddr = INADDR_ANY
    BY <1>4, ServerOperations DEF Server!AckRequested
  <2>2. m.requested \in Addr
    BY <2>1, PacketFields
  <2> QED BY <1>4, <2>1, <2>2 DEF add_lease, Appended, Server!AckRequested
<1>5. CASE /\ state = "ACK"
           /\ m.ciaddr # Server!INADDR_ANY
           /\ \E ret \in {0, -1}, ip \in Addr :
                /\ Server!allocate_ip(m.chaddr, ret, ip)
                /\ Server!SendReply(m, "ACK", ip, dst)
  BY <1>5, ServerOperations, AllocateEffect
<1>6. ~ (m.ciaddr = Server!INADDR_ANY /\ Server!AckUnset(m, dst))
  BY ServerOperations, PacketFields, PoolFacts DEF Server!AckUnset
<1> QED
  BY <1>1, <1>2, <1>3, <1>4, <1>5, <1>6
  DEF Server!construct_dhcp_packet, Server!Offer, Server!AckOwn

\* All that serving packet m does to the list, the way DhcpServerProofs has it,
\* and to what the properties of the system read of the answer.
ListServed(m) ==
  \/ UNCHANGED <<leases, num_of_lease>>
  \/ \E i \in DOMAIN leases : Touch(i) /\ UNCHANGED num_of_lease
  \/ m.requested \in Addr /\ Appended(m.requested, m.chaddr)
  \/ /\ m.type = "RELEASE"
     /\ \E i \in DOMAIN leases : Removed(m.ciaddr, m.chaddr, i)

AnswerServed(m) ==
  /\ sent' \in Server!Datagram
  /\ sent'.type \in ReplyType =>
       /\ sent' \in Reply
       /\ m.type # "RELEASE"
       /\ sent'.xid = m.xid /\ sent'.chaddr = m.chaddr
  /\ sent'.type = "ACK" /\ m.type # "INFORM" /\ m.ciaddr = INADDR_ANY =>
       /\ sent'.yiaddr = m.requested
       /\ check_ipaddr(m.requested, m.chaddr)
       /\ add_lease(m.requested, m.chaddr)
  /\ sent'.type = "NAK" /\ m.ciaddr # INADDR_ANY =>
       ~check_ipaddr(m.ciaddr, m.chaddr)

\* A handler that calls construct_dhcp_packet serves as AnswerServed says, if
\* it has looked at the address it acknowledges or refuses.
LEMMA ConstructServes ==
  ASSUME NEW m \in Packets, NEW state \in ReplyType,
         NEW dst \in Addr \cup {INADDR_BROADCAST},
         m.type # "RELEASE",
         state = "ACK" /\ m.type # "INFORM" /\ m.ciaddr = INADDR_ANY =>
           check_ipaddr(m.requested, m.chaddr),
         state = "NAK" /\ m.ciaddr # INADDR_ANY =>
           ~check_ipaddr(m.ciaddr, m.chaddr),
         Server!construct_dhcp_packet(m, state, dst)
  PROVE  ListServed(m) /\ AnswerServed(m)
<1>1. ListServed(m)
  BY Constructed, PacketFields DEF ListServed
<1>2. CASE sent' = Server!EmptyDatagram(dst)
  <2>1. sent' \in Server!Datagram
    BY <1>2 DEF Server!Datagram
  <2>2. sent'.type = "EMPTY"
    BY <1>2 DEF Server!EmptyDatagram
  <2> QED BY <1>1, <2>1, <2>2 DEF AnswerServed, ReplyType
<1>3. ASSUME NEW yiaddr \in Addr,
             Server!SendReply(m, state, yiaddr, dst),
             state = "ACK" /\ m.ciaddr = INADDR_ANY =>
               yiaddr = m.requested /\ add_lease(yiaddr, m.chaddr)
      PROVE  AnswerServed(m)
  <2>1. /\ sent' \in Reply
        /\ sent'.type = state /\ sent'.yiaddr = yiaddr
        /\ sent'.xid = m.xid /\ sent'.chaddr = m.chaddr
    BY <1>3, ReplyFields
  <2>2. sent' \in Server!Datagram
    BY <2>1, ServerOperations DEF Server!Datagram
  <2> QED BY <1>3, <2>1, <2>2 DEF AnswerServed
<1> QED BY <1>1, <1>2, <1>3, Constructed

\* One round of the server's loop.
LEMMA ReceiveServes ==
  ASSUME NEW m \in Packets, Server!Receive(m)
  PROVE  /\ recv' = m /\ now' = now
         /\ ListServed(m) /\ AnswerServed(m)
<1>1. recv' = m /\ now' = now
  BY DEF Server!Receive
<1> SUFFICES ListServed(m) /\ AnswerServed(m)
  BY <1>1
<1>2. /\ m.ciaddr \in Addr \cup {INADDR_BROADCAST}
      /\ Server!AnswerTo(m) \in Addr \cup {INADDR_BROADCAST}
  BY PacketFields DEF Server!AnswerTo
<1>3. ASSUME sent' = Server!NoDatagram
      PROVE  AnswerServed(m)
  <2>1. sent' \in Server!Datagram
    BY <1>3 DEF Server!Datagram
  <2>2. sent'.type = "NONE"
    BY <1>3 DEF Server!NoDatagram
  <2> QED BY <2>1, <2>2 DEF AnswerServed, ReplyType
<1>4. CASE Server!Ignore
  BY <1>3, <1>4 DEF Server!Ignore, ListServed
<1>5. CASE Server!dhcp_handle_discover(m)
  BY <1>2, <1>5, ConstructServes DEF Server!dhcp_handle_discover, ReplyType
<1>6. CASE Server!dhcp_handle_request(m)
  <2>1. CASE /\ m.type = "REQUEST"
             /\ m.ciaddr = Server!INADDR_ANY
             /\ Server!construct_dhcp_packet(m, Server!AckOrNak(
                  Server!check_ipaddr(Server!RequestedAddress(m), m.chaddr)),
                  Server!AnswerTo(m))
    <3> DEFINE state == Server!AckOrNak(
                  Server!check_ipaddr(Server!RequestedAddress(m), m.chaddr))
    <3>1. m.ciaddr = INADDR_ANY /\ m.requested \in Addr
      BY <2>1, ServerOperations, PacketFields
    <3>2. Server!RequestedAddress(m) = m.requested
      BY <3>1, PoolFacts DEF Server!RequestedAddress
    <3>3. /\ state \in ReplyType
          /\ state = "ACK" => check_ipaddr(m.requested, m.chaddr)
      BY <3>2, ServerOperations DEF Server!AckOrNak, ReplyType
    <3>4. Server!construct_dhcp_packet(m, state, Server!AnswerTo(m))
      BY <2>1
    <3> HIDE DEF state
    <3> QED BY <1>2, <2>1, <3>1, <3>3, <3>4, ConstructServes
  <2>2. CASE /\ m.type = "REQUEST"
             /\ m.ciaddr # Server!INADDR_ANY
             /\ Server!construct_dhcp_packet(m, Server!AckOrNak(
                  Server!check_ipaddr(m.ciaddr, m.chaddr)), m.ciaddr)
    <3> DEFINE state ==
          Server!AckOrNak(Server!check_ipaddr(m.ciaddr, m.chaddr))
    <3>1. m.ciaddr # INADDR_ANY
      BY <2>2, ServerOperations
    <3>2. /\ state \in ReplyType
          /\ state = "NAK" => ~check_ipaddr(m.ciaddr, m.chaddr)
      BY ServerOperations DEF Server!AckOrNak, ReplyType
    <3>3. Server!construct_dhcp_packet(m, state, m.ciaddr)
      BY <2>2
    <3> HIDE DEF state
    <3> QED BY <1>2, <2>2, <3>1, <3>2, <3>3, ConstructServes
  <2> QED BY <1>4, <1>6, <2>1, <2>2, Zenon DEF Server!dhcp_handle_request
<1>7. CASE Server!dhcp_handle_release(m)
  <2>1. AnswerServed(m)
    BY <1>3, <1>7 DEF Server!dhcp_handle_release
  <2>2. \/ UNCHANGED <<leases, num_of_lease>>
        \/ m.type = "RELEASE" /\ delete_lease(m.ciaddr, m.chaddr)
    BY <1>7, ServerOperations DEF Server!dhcp_handle_release
  <2>3. ListServed(m)
    BY <2>2 DEF ListServed, delete_lease, Removed
  <2> QED BY <2>1, <2>3
<1>8. CASE Server!dhcp_handle_inform(m)
  BY <1>2, <1>8, ConstructServes DEF Server!dhcp_handle_inform, ReplyType
<1> QED
  BY <1>4, <1>5, <1>6, <1>7, <1>8, Zenon DEF Server!Receive

-----------------------------------------------------------------------------
(* Queues of datagrams. *)

\* The first datagram of a queue is one of its members, and what is left once
\* it has arrived is the queue itself or the queue moved up by one.
LEMMA ArrivedProperties ==
  ASSUME NEW S, NEW q \in Seq(S), q # <<>>, NEW r \in Arrived(q)
  PROVE  /\ 1 \in DOMAIN q /\ Head(q) = q[1]
         /\ r \in Seq(S)
         /\ \E e \in {0, 1} :
              \A k \in DOMAIN r : k + e \in DOMAIN q /\ r[k] = q[k + e]
<1>1. /\ DOMAIN q = 1 .. Len(q) /\ Len(q) \in Nat /\ Len(q) # 0
      /\ Head(q) = q[1]
  BY LenProperties, EmptySeq
<1>2. CASE r = q
  <2>1. \A k \in DOMAIN r : k + 0 \in DOMAIN q /\ r[k] = q[k + 0]
    BY <1>1, <1>2
  <2> QED BY <1>1, <1>2, <2>1
<1>3. CASE r = Tail(q)
  <2>1. /\ r \in Seq(S) /\ Len(r) = Len(q) - 1
        /\ \A k \in 1 .. Len(r) : r[k] = q[k + 1]
    BY <1>3, HeadTailProperties
  <2>2. DOMAIN r = 1 .. Len(r)
    BY <2>1, LenProperties
  <2>3. \A k \in DOMAIN r : k + 1 \in DOMAIN q /\ r[k] = q[k + 1]
    BY <1>1, <2>1, <2>2
  <2> QED BY <1>1, <2>1, <2>3
<1> QED BY <1>2, <1>3 DEF Arrived

\* The same, of the sets of the datagrams.
LEMMA ArrivedMembers ==
  ASSUME NEW S, NEW q \in Seq(S), q # <<>>, NEW r \in Arrived(q)
  PROVE  /\ Head(q) \in Range(q)
         /\ Range(r) \subseteq Range(q)
BY ArrivedProperties DEF Range

\* Every datagram of a queue of datagrams is one.
LEMMA MembersTyped ==
  ASSUME NEW S, NEW q \in Seq(S)
  PROVE  Range(q) \subseteq S
BY LenProperties DEF Range

\* A datagram sent is the last of the queue.
LEMMA AppendMembers ==
  ASSUME NEW S, NEW q \in Seq(S), NEW m \in S
  PROVE  /\ Append(q, m) \in Seq(S)
         /\ DOMAIN Append(q, m) = 1 .. (Len(q) + 1)
         /\ DOMAIN q = 1 .. Len(q) /\ Len(q) \in Nat
         /\ \A k \in DOMAIN q : Append(q, m)[k] = q[k]
         /\ Append(q, m)[Len(q) + 1] = m
         /\ Range(Append(q, m)) = Range(q) \cup {m}
<1> DEFINE r == Append(q, m)
<1>1. /\ r \in Seq(S)
      /\ Len(r) = Len(q) + 1
      /\ \A k \in 1 .. Len(q) : r[k] = q[k]
      /\ r[Len(q) + 1] = m
  BY AppendProperties
<1>2. DOMAIN q = 1 .. Len(q) /\ Len(q) \in Nat
  BY LenProperties
<1>3. DOMAIN r = 1 .. (Len(q) + 1)
  BY <1>1, LenProperties
<1> HIDE DEF r
<1>4. \A k \in DOMAIN r : k \in DOMAIN q \/ k = Len(q) + 1
  BY <1>2, <1>3
<1>5. DOMAIN q \subseteq DOMAIN r /\ Len(q) + 1 \in DOMAIN r
  BY <1>2, <1>3
<1>6. Range(r) = Range(q) \cup {m}
  BY <1>1, <1>2, <1>4, <1>5 DEF Range
<1> QED BY <1>1, <1>2, <1>3, <1>6 DEF r

-----------------------------------------------------------------------------
(* What a step of a client does. *)

Searching == {"offer", "discover_ack"}

\* Client c takes its address and grant from an answer, keeps them, or has
\* none.
Address(c, t) ==
  \/ t.addr = INADDR_ANY /\ t.grant = NoGrant
  \/ t.addr = client[c].addr /\ t.grant = client[c].grant
  \/ /\ client[c].pc = "discover_ack"
     /\ \E d \in Range(inbox[c]) :
          /\ d.xid = client[c].xid
          /\ t.addr = d.yiaddr
          /\ t.grant = [type |-> d.type, chaddr |-> d.chaddr]

\* Client c, now in state t, sends m.
Sends(c, t, m) ==
  /\ toServer' = Append(toServer, m)
  /\ m.chaddr = c /\ m.xid = t.xid
  /\ m.type = "RELEASE" => t.addr = INADDR_ANY
  /\ m.type # "RELEASE" => m.ciaddr = t.addr
  /\ t.pc \in Searching => m.type \in {"DISCOVER", "REQUEST"}

GoesOn(c, t) ==
  /\ t.xid = client[c].xid
  /\ t.pc \in Searching =>
       client[c].pc \in Searching /\ t.addr = client[c].addr
  /\ toServer' # toServer =>
       /\ client[c].pc = "offer" /\ t.pc = "discover_ack"
       /\ \E d \in Range(inbox[c]) : d.xid = client[c].xid

BeginsAnew(c, t) ==
  /\ t.xid = now
  /\ SameSecond \/ \A d \in Mac : client[d].xid < now
  /\ t.pc \in Searching => t.addr = INADDR_ANY

InboxOnlyLoses(c) ==
  \E rest \in Seq(Reply) :
    /\ Range(rest) \subseteq Range(inbox[c])
    /\ inbox' = [inbox EXCEPT ![c] = rest]

Turn(c, t) ==
  /\ t \in Client
  /\ client' = [client EXCEPT ![c] = t]
  /\ UNCHANGED <<serverVars, now, restarted>>
  /\ InboxOnlyLoses(c)
  /\ Address(c, t)
  /\ UNCHANGED toServer \/ \E m \in Packets : Sends(c, t, m)
  /\ GoesOn(c, t) \/ BeginsAnew(c, t)

\* The packet a client builds is one of Packets.
LEMMA PacketBuilt ==
  ASSUME NEW c \in Mac, NEW s \in Client,
         NEW type \in {"DISCOVER", "REQUEST", "RELEASE", "INFORM"}
  PROVE  LET m == construct_dhcp_packet(c, s, type) IN
         /\ m \in Packets
         /\ m.chaddr = c /\ m.xid = s.xid /\ m.type = type
         /\ m.ciaddr = s.addr
BY PoolFacts DEF construct_dhcp_packet, Packets, Client

\* What a client has after a datagram has arrived.
LEMMA ReceiveProperties ==
  ASSUME TypeOK, NEW c \in Mac, NEW places, NEW accepted,
         Receive(c, places, accepted)
  PROVE  /\ client[c].pc \in places
         /\ InboxOnlyLoses(c)
         /\ Head(inbox[c]) \in Range(inbox[c])
         /\ Head(inbox[c]) \in Reply
         /\ accepted = TRUE => Head(inbox[c]).xid = client[c].xid
         /\ UNCHANGED <<serverVars, now, restarted>>
<1>1. inbox[c] \in Seq(Reply)
  BY DEF TypeOK
<1>2. PICK rest \in Arrived(inbox[c]) : inbox' = [inbox EXCEPT ![c] = rest]
  BY DEF Receive
<1>3. inbox[c] # <<>>
  BY DEF Receive
<1>4. /\ rest \in Seq(Reply)
      /\ Range(rest) \subseteq Range(inbox[c])
      /\ Head(inbox[c]) \in Range(inbox[c])
  BY <1>1, <1>3, ArrivedProperties, ArrivedMembers
<1>5. Head(inbox[c]) \in Reply
  BY <1>1, <1>4, MembersTyped
<1>6. InboxOnlyLoses(c)
  BY <1>2, <1>4 DEF InboxOnlyLoses
<1>7. accepted = TRUE => Head(inbox[c]).xid = client[c].xid
  BY DEF Receive, IsAnswer
<1> QED BY <1>4, <1>5, <1>6, <1>7 DEF Receive

\* An exchange that begins.
LEMMA BeginTurns ==
  ASSUME TypeOK, NEW c \in Mac, NEW s \in Client,
         NEW type \in {"DISCOVER", "REQUEST", "INFORM"},
         NEW place \in Waiting,
         Begin(c, s, type, place),
         UNCHANGED <<serverVars, now, restarted>>,
         InboxOnlyLoses(c), Address(c, s),
         place \in Searching => s.addr = INADDR_ANY /\ type = "DISCOVER"
  PROVE  \E t : Turn(c, t)
<1> DEFINE t == [s EXCEPT !.xid = now, !.pc = place]
           m == construct_dhcp_packet(c, t, type)
<1>1. now \in Xid
  BY SystemAssumption DEF TypeOK, Server!TypeOK
<1>2. /\ t \in Client /\ t.xid = now /\ t.pc = place
      /\ t.addr = s.addr /\ t.grant = s.grant
  BY <1>1 DEF Client
<1>3. /\ client' = [client EXCEPT ![c] = t]
      /\ UNCHANGED toServer \/ toServer' = Append(toServer, m)
      /\ SameSecond \/ \A d \in Mac : client[d].xid < now
  BY DEF Begin, ToServer
<1> HIDE DEF t
<1>4. /\ m \in Packets
      /\ m.chaddr = c /\ m.xid = t.xid /\ m.type = type /\ m.ciaddr = t.addr
  BY <1>2, PacketBuilt
<1> HIDE DEF m
<1>5. BeginsAnew(c, t)
  BY <1>2, <1>3 DEF BeginsAnew
<1>6. Address(c, t)
  BY <1>2 DEF Address
<1>7. toServer' = Append(toServer, m) => Sends(c, t, m)
  BY <1>2, <1>4 DEF Sends
<1>8. UNCHANGED toServer \/ \E p \in Packets : Sends(c, t, p)
  BY <1>3, <1>4, <1>7
<1> QED BY <1>2, <1>3, <1>5, <1>6, <1>8 DEF Turn

\* A client that goes on without sending anything.
LEMMA GoesOnTurns ==
  ASSUME NEW c \in Mac, NEW t \in Client,
         client' = [client EXCEPT ![c] = t],
         UNCHANGED <<serverVars, now, restarted>>,
         UNCHANGED toServer,
         InboxOnlyLoses(c), Address(c, t),
         t.xid = client[c].xid,
         t.pc \in Searching =>
           client[c].pc \in Searching /\ t.addr = client[c].addr
  PROVE  \E s : Turn(c, s)
<1>1. GoesOn(c, t)
  BY DEF GoesOn
<1> QED BY <1>1 DEF Turn

\* Every step of a client is a Turn.
LEMMA ClientTurns ==
  ASSUME TypeOK, NEW c \in Mac, ClientStep(c)
  PROVE  \E t : Turn(c, t)
<1>0. /\ client \in [Mac -> Client] /\ client[c] \in Client
      /\ inbox \in [Mac -> Seq(Reply)] /\ inbox[c] \in Seq(Reply)
      /\ now \in Xid /\ now \in Nat
  BY SystemAssumption DEF TypeOK, Server!TypeOK
<1>1. inbox' = inbox => InboxOnlyLoses(c)
  <2>1. inbox = [inbox EXCEPT ![c] = inbox[c]]
    BY <1>0
  <2> QED BY <1>0, <2>1 DEF InboxOnlyLoses
<1>2. Address(c, client[c])
  BY DEF Address
<1>3. LET r == setup_interface_release(client[c]) IN
      /\ r \in Client /\ Address(c, r)
      /\ r.addr = INADDR_ANY /\ r.xid = client[c].xid /\ r.pc = client[c].pc
  <2>1. /\ setup_interface_release(client[c]) \in Client
        /\ setup_interface_release(client[c]).addr = INADDR_ANY
        /\ setup_interface_release(client[c]).grant = NoGrant
        /\ setup_interface_release(client[c]).xid = client[c].xid
        /\ setup_interface_release(client[c]).pc = client[c].pc
    BY <1>0, PoolFacts DEF setup_interface_release, Client, NoAlarm
  <2> QED BY <2>1 DEF Address
<1>4. LET l == Learn(c) IN
      /\ l \in Client /\ l.addr = client[c].addr /\ l.grant = client[c].grant
      /\ l.xid = client[c].xid /\ l.pc = client[c].pc
  BY <1>0 DEF Learn, Client
<1>5. CASE discover(c)
  BY <1>0, <1>1, <1>2, <1>5, BeginTurns DEF discover, Idle, Waiting
<1>6. CASE renew(c)
  BY <1>0, <1>1, <1>2, <1>6, BeginTurns
  DEF renew, Idle, Waiting, Searching
<1>7. CASE inform(c)
  BY <1>0, <1>1, <1>2, <1>7, BeginTurns
  DEF inform, Idle, Waiting, Searching
<1>8. CASE release(c)
  <2> DEFINE t == [setup_interface_release(client[c]) EXCEPT !.xid = now]
             m == construct_dhcp_packet(c, [client[c] EXCEPT !.xid = now],
                                        "RELEASE")
  <2>1. /\ client' = [client EXCEPT ![c] = t]
        /\ UNCHANGED toServer \/ toServer' = Append(toServer, m)
        /\ SameSecond \/ \A d \in Mac : client[d].xid < now
        /\ UNCHANGED <<serverVars, now, restarted>> /\ inbox' = inbox
        /\ client[c].pc = "menu"
    BY <1>8 DEF release, Idle, ToServer
  <2>2. /\ t \in Client /\ t.xid = now /\ t.pc = client[c].pc
        /\ t.addr = INADDR_ANY /\ t.grant = NoGrant
    BY <1>0, PoolFacts DEF setup_interface_release, Client, NoAlarm
  <2>3. /\ [client[c] EXCEPT !.xid = now] \in Client
        /\ [client[c] EXCEPT !.xid = now].xid = now
    BY <1>0 DEF Client
  <2>4. m \in Packets /\ m.chaddr = c /\ m.xid = now /\ m.type = "RELEASE"
    BY <2>3, PacketBuilt
  <2> HIDE DEF t, m
  <2>5. BeginsAnew(c, t)
    BY <2>1, <2>2 DEF BeginsAnew
  <2>6. Address(c, t)
    BY <2>2 DEF Address
  <2>7. toServer' = Append(toServer, m) => Sends(c, t, m)
    BY <2>1, <2>2, <2>4 DEF Sends, Searching
  <2>8. UNCHANGED toServer \/ \E p \in Packets : Sends(c, t, p)
    BY <2>1, <2>4, <2>7
  <2> QED BY <1>1, <2>1, <2>2, <2>5, <2>6, <2>8 DEF Turn
<1>9. CASE exit(c)
  <2> DEFINE t == [client[c] EXCEPT !.pc = "exited", !.expires = NoAlarm]
  <2>1. /\ t \in Client /\ t.xid = client[c].xid /\ t.pc = "exited"
        /\ t.addr = client[c].addr /\ t.grant = client[c].grant
    BY <1>0 DEF Client, NoAlarm
  <2>2. client' = [client EXCEPT ![c] = t]
    BY <1>0, <1>9 DEF exit
  <2>3. InboxOnlyLoses(c)
    <3>1. <<>> \in Seq(Reply) /\ Range(<<>>) \subseteq Range(inbox[c])
      BY EmptySeq DEF Range
    <3> QED BY <1>9, <3>1 DEF exit, InboxOnlyLoses
  <2> HIDE DEF t
  <2>4. Address(c, t)
    BY <2>1 DEF Address
  <2> QED BY <1>9, <2>1, <2>2, <2>3, <2>4, GoesOnTurns DEF exit, Searching
<1>10. CASE main(c)
  <2>0. PICK id \in CommandLine :
          client' = [client EXCEPT ![c] =
            [NewClient EXCEPT !.xid = client[c].xid, !.addr = client[c].addr,
                              !.grant = client[c].grant,
                              !.dhcp_server_identifier = id]]
    BY <1>10 DEF main
  <2> DEFINE t == [NewClient EXCEPT !.xid = client[c].xid,
                     !.addr = client[c].addr, !.grant = client[c].grant,
                     !.dhcp_server_identifier = id]
  <2>1. /\ t \in Client /\ t.xid = client[c].xid /\ t.pc = "menu"
        /\ t.addr = client[c].addr /\ t.grant = client[c].grant
    BY <1>0, SystemAssumption, PoolFacts DEF Client, NewClient, NoAlarm
  <2>2. client' = [client EXCEPT ![c] = t]
    BY <2>0
  <2> HIDE DEF t
  <2>3. Address(c, t)
    BY <2>1 DEF Address
  <2> QED BY <1>1, <1>10, <2>1, <2>2, <2>3, GoesOnTurns DEF main, Searching
<1>11. CASE ReceiveStray(c)
  <2>1. client' = [client EXCEPT ![c] = client[c]]
    BY <1>0, <1>11 DEF ReceiveStray
  <2> QED BY <1>0, <1>2, <1>11, <2>1, ReceiveProperties, GoesOnTurns
          DEF ReceiveStray
<1>12. CASE ReceiveOffer(c)
  <2> DEFINE t == [Learn(c) EXCEPT !.yiaddr = Head(inbox[c]).yiaddr,
                                   !.pc = "discover_ack"]
             m == construct_dhcp_packet(c, t, "REQUEST")
  <2>1. Receive(c, {"offer"}, TRUE)
    BY <1>12 DEF ReceiveOffer
  <2>2. /\ client[c].pc = "offer" /\ InboxOnlyLoses(c)
        /\ Head(inbox[c]) \in Reply /\ Head(inbox[c]) \in Range(inbox[c])
        /\ Head(inbox[c]).xid = client[c].xid
        /\ UNCHANGED <<serverVars, now, restarted>>
    <3>1. client[c].pc \in {"offer"}
      BY <2>1, ReceiveProperties
    <3>2. Head(inbox[c]) \in Reply /\ Head(inbox[c]) \in Range(inbox[c])
      BY <2>1, ReceiveProperties
    <3>3. InboxOnlyLoses(c) /\ UNCHANGED <<serverVars, now, restarted>>
      BY <2>1, ReceiveProperties
    <3>4. Head(inbox[c]).xid = client[c].xid
      BY <2>1, ReceiveProperties
    <3> QED BY <3>1, <3>2, <3>3, <3>4
  <2>3. /\ t \in Client /\ t.xid = client[c].xid /\ t.pc = "discover_ack"
        /\ t.addr = client[c].addr /\ t.grant = client[c].grant
    BY <1>4, <2>2 DEF Client, Waiting, Reply
  <2>4. /\ client' = [client EXCEPT ![c] = t]
        /\ UNCHANGED toServer \/ toServer' = Append(toServer, m)
    BY <1>12 DEF ReceiveOffer, ToServer
  <2> HIDE DEF t
  <2>5. /\ m \in Packets
        /\ m.chaddr = c /\ m.xid = t.xid /\ m.type = "REQUEST"
        /\ m.ciaddr = t.addr
    BY <2>3, PacketBuilt
  <2> HIDE DEF m
  <2>6. Address(c, t)
    BY <2>3 DEF Address
  <2>7. GoesOn(c, t)
    BY <2>2, <2>3 DEF GoesOn, Searching
  <2>8. toServer' = Append(toServer, m) => Sends(c, t, m)
    BY <2>5 DEF Sends
  <2>9. UNCHANGED toServer \/ \E p \in Packets : Sends(c, t, p)
    BY <2>4, <2>5, <2>8
  <2> QED BY <2>2, <2>3, <2>4, <2>6, <2>7, <2>9 DEF Turn
<1>13. CASE ReceiveAck(c)
  <2> DEFINE d == Head(inbox[c])
             t == [Learn(c) EXCEPT !.pc = "menu", !.addr = d.yiaddr,
                     !.grant = [type |-> d.type, chaddr |-> d.chaddr],
                     !.expires = now + IP_ADDRESS_LEASE_TIME]
  <2>1. Receive(c, {"discover_ack"}, TRUE)
    BY <1>13 DEF ReceiveAck
  <2>2. /\ client[c].pc = "discover_ack" /\ InboxOnlyLoses(c)
        /\ d \in Reply /\ d \in Range(inbox[c]) /\ d.xid = client[c].xid
        /\ UNCHANGED <<serverVars, now, restarted>>
    <3>1. client[c].pc \in {"discover_ack"}
      BY <2>1, ReceiveProperties
    <3>2. Head(inbox[c]) \in Reply /\ Head(inbox[c]) \in Range(inbox[c])
      BY <2>1, ReceiveProperties
    <3>3. InboxOnlyLoses(c) /\ UNCHANGED <<serverVars, now, restarted>>
      BY <2>1, ReceiveProperties
    <3>4. Head(inbox[c]).xid = client[c].xid
      BY <2>1, ReceiveProperties
    <3> QED BY <3>1, <3>2, <3>3, <3>4
  <2>3. client' = [client EXCEPT ![c] = t] /\ UNCHANGED toServer
    BY <1>13 DEF ReceiveAck
  <2> HIDE DEF d
  <2>4. /\ t \in Client /\ t.xid = client[c].xid /\ t.pc = "menu"
        /\ t.addr = d.yiaddr
        /\ t.grant = [type |-> d.type, chaddr |-> d.chaddr]
    <3> DEFINE g == [type |-> d.type, chaddr |-> d.chaddr]
    <3>1. d.yiaddr \in Addr /\ g \in [type : ReplyType, chaddr : Mac]
      BY <2>2 DEF Reply
    <3>2. now + IP_ADDRESS_LEASE_TIME \in Nat
      BY <1>0, LeaseTimeAssumption
    <3> HIDE DEF g
    <3>3. /\ t = [Learn(c) EXCEPT !.pc = "menu", !.addr = d.yiaddr,
                     !.grant = g, !.expires = now + IP_ADDRESS_LEASE_TIME]
      BY DEF g
    <3>4. /\ t \in Client /\ t.xid = client[c].xid /\ t.pc = "menu"
          /\ t.addr = d.yiaddr /\ t.grant = g
      BY <1>4, <3>1, <3>2, <3>3 DEF Client
    <3> QED BY <3>4 DEF g
  <2> HIDE DEF t
  <2>5. Address(c, t)
    BY <2>2, <2>4 DEF Address
  <2> QED BY <2>2, <2>3, <2>4, <2>5, GoesOnTurns DEF Searching
<1>14. CASE ReceiveNak(c)
  <2> DEFINE t == [setup_interface_release(client[c]) EXCEPT !.pc = "menu"]
  <2>1. Receive(c, {"discover_ack"}, TRUE)
    BY <1>14 DEF ReceiveNak
  <2>2. InboxOnlyLoses(c) /\ UNCHANGED <<serverVars, now, restarted>>
    BY <2>1, ReceiveProperties
  <2>3. client' = [client EXCEPT ![c] = t] /\ UNCHANGED toServer
    BY <1>14 DEF ReceiveNak
  <2>4. /\ t \in Client /\ t.xid = client[c].xid /\ t.pc = "menu"
        /\ t.addr = INADDR_ANY /\ t.grant = NoGrant
    BY <1>0, PoolFacts DEF setup_interface_release, Client, NoAlarm
  <2> HIDE DEF t
  <2>5. Address(c, t)
    BY <2>4 DEF Address
  <2> QED BY <2>2, <2>3, <2>4, <2>5, GoesOnTurns DEF Searching
<1>15. CASE ReceiveRenewAck(c)
  <2> DEFINE e == IF client[c].addr = INADDR_ANY THEN NoAlarm
                  ELSE now + IP_ADDRESS_LEASE_TIME
             t == [Learn(c) EXCEPT !.pc = "menu", !.expires = e]
  <2>1. Receive(c, {"renew_ack"}, TRUE)
    BY <1>15 DEF ReceiveRenewAck
  <2>2. InboxOnlyLoses(c) /\ UNCHANGED <<serverVars, now, restarted>>
    BY <2>1, ReceiveProperties
  <2>3. client' = [client EXCEPT ![c] = t] /\ UNCHANGED toServer
    BY <1>15 DEF ReceiveRenewAck
  <2>4. e \in Nat
    BY <1>0, LeaseTimeAssumption DEF NoAlarm
  <2> HIDE DEF e
  <2>5. /\ t \in Client /\ t.xid = client[c].xid /\ t.pc = "menu"
        /\ t.addr = client[c].addr /\ t.grant = client[c].grant
    BY <1>4, <2>4 DEF Client
  <2> HIDE DEF t
  <2>6. Address(c, t)
    BY <2>5 DEF Address
  <2> QED BY <2>2, <2>3, <2>5, <2>6, GoesOnTurns DEF Searching
<1>16. CASE ReceiveRenewNak(c)
  <2>1. Receive(c, {"renew_ack"}, TRUE)
    BY <1>16 DEF ReceiveRenewNak
  <2>2. InboxOnlyLoses(c) /\ UNCHANGED <<serverVars, now, restarted>>
    BY <2>1, ReceiveProperties
  <2> QED BY <1>3, <1>16, <2>2, BeginTurns DEF ReceiveRenewNak, Waiting
<1>17. CASE ReceiveInformAck(c)
  <2> DEFINE l == IF Head(inbox[c]).type = "NAK" THEN client[c] ELSE Learn(c)
             t == [l EXCEPT !.pc = "menu"]
  <2>1. Receive(c, {"inform_ack"}, TRUE)
    BY <1>17 DEF ReceiveInformAck
  <2>2. InboxOnlyLoses(c) /\ UNCHANGED <<serverVars, now, restarted>>
    BY <2>1, ReceiveProperties
  <2>3. client' = [client EXCEPT ![c] = t] /\ UNCHANGED toServer
    BY <1>17 DEF ReceiveInformAck
  <2>4. /\ l \in Client /\ l.xid = client[c].xid
        /\ l.addr = client[c].addr /\ l.grant = client[c].grant
    BY <1>0, <1>4
  <2> HIDE DEF l
  <2>5. /\ t \in Client /\ t.xid = client[c].xid /\ t.pc = "menu"
        /\ t.addr = client[c].addr /\ t.grant = client[c].grant
    BY <2>4 DEF Client
  <2> HIDE DEF t
  <2>6. Address(c, t)
    BY <2>5 DEF Address
  <2> QED BY <2>2, <2>3, <2>5, <2>6, GoesOnTurns DEF Searching
<1>18. CASE Timeout(c)
  <2> DEFINE t == [client[c] EXCEPT !.pc = "menu"]
  <2>1. /\ t \in Client /\ t.xid = client[c].xid /\ t.pc = "menu"
        /\ t.addr = client[c].addr /\ t.grant = client[c].grant
    BY <1>0 DEF Client
  <2>2. client' = [client EXCEPT ![c] = t]
    BY <1>18 DEF Timeout
  <2> HIDE DEF t
  <2>3. Address(c, t)
    BY <2>1 DEF Address
  <2> QED BY <1>1, <1>18, <2>1, <2>2, <2>3, GoesOnTurns
          DEF Timeout, Searching
<1> QED
  BY <1>5, <1>6, <1>7, <1>8, <1>9, <1>10, <1>11, <1>12, <1>13, <1>14, <1>15,
     <1>16, <1>17, <1>18, Zenon DEF ClientStep

-----------------------------------------------------------------------------
(* Type correctness. *)

\* The server takes the first datagram and passes on what it sends.
LEMMA ServerStepProperties ==
  ASSUME TypeOK, ServerStep
  PROVE  LET m == Head(toServer) IN
         /\ 1 \in DOMAIN toServer /\ m = toServer[1]
         /\ m \in Packets /\ m \in Range(toServer)
         /\ toServer' \in Seq(Packets)
         /\ Range(toServer') \subseteq Range(toServer)
         /\ recv' = m /\ now' = now
         /\ ListServed(m) /\ AnswerServed(m)
         /\ inbox' \in [Mac -> Seq(Reply)]
         /\ \A c \in Mac : \A d \in Range(inbox'[c]) :
              d \in Range(inbox[c]) \/ (d = sent' /\ sent'.type \in ReplyType)
         /\ UNCHANGED <<client, restarted>>
<1> DEFINE m == Head(toServer)
<1>1. /\ toServer \in Seq(Packets) /\ toServer # <<>>
      /\ toServer' \in Arrived(toServer)
  BY DEF TypeOK, ServerStep
<1>2. /\ 1 \in DOMAIN toServer /\ m = toServer[1]
      /\ toServer' \in Seq(Packets)
  BY <1>1, ArrivedProperties
<1>3. m \in Range(toServer) /\ Range(toServer') \subseteq Range(toServer)
  BY <1>1, ArrivedMembers
<1>4. m \in Packets
  BY <1>1, <1>3, MembersTyped
<1>5. /\ recv' = m /\ now' = now
      /\ ListServed(m) /\ AnswerServed(m)
  BY <1>4, ReceiveServes DEF ServerStep
<1> HIDE DEF m
<1>6. PICK C \in SUBSET {c \in Receivers(sent') : Len(inbox[c]) < QueueLimit} :
        inbox' = [c \in Mac |-> IF c \in C THEN Append(inbox[c], sent')
                                ELSE inbox[c]]
  BY DEF ServerStep, ToClients
<1>7. ASSUME NEW c \in Mac
      PROVE  /\ inbox'[c] \in Seq(Reply)
             /\ \A d \in Range(inbox'[c]) :
                  \/ d \in Range(inbox[c])
                  \/ d = sent' /\ sent'.type \in ReplyType
  <2>1. inbox[c] \in Seq(Reply)
    BY DEF TypeOK
  <2>2. CASE c \in C
    <3>1. sent'.type \in ReplyType /\ inbox'[c] = Append(inbox[c], sent')
      BY <1>6, <2>2 DEF Receivers
    <3>2. sent' \in Reply
      BY <1>5, <3>1 DEF AnswerServed
    <3>3. /\ Append(inbox[c], sent') \in Seq(Reply)
          /\ Range(Append(inbox[c], sent')) = Range(inbox[c]) \cup {sent'}
      BY <2>1, <3>2, AppendMembers
    <3> QED BY <3>1, <3>3
  <2>3. CASE c \notin C
    <3>1. inbox'[c] = inbox[c]
      BY <1>6, <2>3
    <3> QED BY <2>1, <3>1
  <2> QED BY <2>2, <2>3
<1>8. inbox' \in [Mac -> Seq(Reply)]
  <2>1. DOMAIN inbox' = Mac /\ inbox' = [c \in Mac |-> inbox'[c]]
    BY <1>6
  <2> QED BY <1>7, <2>1
<1>9. UNCHANGED <<client, restarted>>
  BY DEF ServerStep
<1> QED BY <1>2, <1>3, <1>4, <1>5, <1>7, <1>8, <1>9 DEF m

\* The list changes as LeaseListProofs has it.
LEMMA ServedChanges ==
  ASSUME NEW m \in Packets, ListServed(m)
  PROVE  m.chaddr \in Mac /\ Changed(m.chaddr)
BY PacketFields DEF ListServed, Changed

\* A step of a client keeps the types.
LEMMA TurnTyped ==
  ASSUME TypeOK, NEW c \in Mac, NEW t, Turn(c, t)
  PROVE  TypeOK'
<1>1. /\ client' \in [Mac -> Client] /\ inbox' \in [Mac -> Seq(Reply)]
      /\ UNCHANGED <<serverVars, now, restarted>>
  BY DEF TypeOK, Turn, InboxOnlyLoses
<1>2. toServer' \in Seq(Packets)
  <2>1. toServer \in Seq(Packets)
    BY DEF TypeOK
  <2>2. ASSUME NEW m \in Packets, Sends(c, t, m)
        PROVE  toServer' \in Seq(Packets)
    BY <2>1, <2>2, AppendMembers DEF Sends
  <2> QED BY <2>1, <2>2 DEF Turn
<1> QED BY <1>1, <1>2 DEF TypeOK, Server!TypeOK, serverVars

\* A second passes, and clients lose their leases.
LEMMA TickProperties ==
  ASSUME TypeOK, Tick
  PROVE  /\ client' \in [Mac -> Client]
         /\ \A c \in Mac :
              /\ client'[c].xid = client[c].xid
              /\ \/ client'[c] = client[c]
                 \/ /\ client'[c].addr = INADDR_ANY
                    /\ client'[c].grant = NoGrant
                    /\ client'[c].pc = "menu"
<1>1. ASSUME NEW c \in Mac
      PROVE  /\ lease_time_out(client[c]) \in Client
             /\ lease_time_out(client[c]).xid = client[c].xid
             /\ lease_time_out(client[c]).addr = INADDR_ANY
             /\ lease_time_out(client[c]).grant = NoGrant
             /\ lease_time_out(client[c]).pc = "menu"
  <2>1. client[c] \in Client
    BY DEF TypeOK
  <2> QED BY <2>1, PoolFacts
          DEF lease_time_out, setup_interface_release, Client, NoAlarm
<1>2. client' = [c \in Mac |-> IF client[c].expires = now + 1
                               THEN lease_time_out(client[c]) ELSE client[c]]
  BY DEF Tick
<1>3. client \in [Mac -> Client]
  BY DEF TypeOK
<1> QED BY <1>1, <1>2, <1>3

\* Clients send nothing but what Packets says, the server nothing but well
\* formed replies, and every client stays in a state of Client, for any number
\* of clients and any network.
THEOREM TypeCorrect == Spec => []TypeOK
<1>1. Init => TypeOK
  <2> SUFFICES ASSUME Init PROVE TypeOK
    OBVIOUS
  <2>1. Server!TypeOK
    <3>1. leases \in Seq(Server!Lease)
      BY EmptySeq DEF Init, dhcp_setup
    <3> QED BY <3>1 DEF Init, dhcp_setup, Server!TypeOK, Server!Datagram
  <2>2. NewClient \in Client
    BY PoolFacts, SystemAssumption DEF NewClient, Client, NoAlarm
  <2>3. toServer \in Seq(Packets) /\ inbox \in [Mac -> Seq(Reply)]
    BY EmptySeq DEF Init
  <2>4. now <= MaxTime
    BY SystemAssumption DEF Init, dhcp_setup
  <2> QED BY <2>1, <2>2, <2>3, <2>4 DEF Init, TypeOK
<1>2. TypeOK /\ [Next]_vars => TypeOK'
  <2> SUFFICES ASSUME TypeOK, [Next]_vars PROVE TypeOK'
    OBVIOUS
  <2>1. /\ leases \in Seq(Lease) /\ num_of_lease \in Int /\ now \in Nat
        /\ now <= MaxTime
    BY ServerOperations DEF TypeOK, Server!TypeOK
  <2>2. CASE ServerStep
    <3> DEFINE m == Head(toServer)
    <3>1. /\ m \in Packets /\ toServer' \in Seq(Packets)
          /\ recv' = m /\ now' = now
          /\ ListServed(m) /\ AnswerServed(m)
          /\ inbox' \in [Mac -> Seq(Reply)]
          /\ UNCHANGED <<client, restarted>>
      BY <2>2, ServerStepProperties
    <3> HIDE DEF m
    <3>2. leases' \in Seq(Lease) /\ num_of_lease' \in Int
      BY <2>1, <3>1, ServedChanges, ChangeTyped DEF ListType
    <3>3. sent' \in Server!Datagram
      BY <3>1 DEF AnswerServed
    <3>4. Server!TypeOK'
      BY <2>1, <3>1, <3>2, <3>3, ServerOperations DEF Server!TypeOK
    <3> QED BY <2>1, <3>1, <3>4 DEF TypeOK
  <2>3. CASE Restart
    <3>1. leases' \in Seq(Server!Lease)
      BY <2>3, EmptySeq DEF Restart
    <3>2. Server!TypeOK'
      BY <2>1, <2>3, <3>1 DEF Restart, Server!TypeOK, Server!Datagram
    <3>3. toServer' \in Seq(Packets)
      BY <2>3, EmptySeq DEF Restart
    <3> QED BY <2>3, <3>2, <3>3 DEF Restart, TypeOK
  <2>4. CASE Tick
    <3>1. client' \in [Mac -> Client]
      BY <2>4, TickProperties
    <3>2. now' \in Nat /\ now' <= MaxTime
      BY <2>1, <2>4, SystemAssumption DEF Tick
    <3> QED BY <2>4, <3>1, <3>2 DEF Tick, TypeOK, Server!TypeOK, serverVars
  <2>5. CASE \E c \in Mac : ClientStep(c)
    BY <2>5, ClientTurns, TurnTyped
  <2>6. CASE UNCHANGED vars
    BY <2>6 DEF vars, serverVars, TypeOK, Server!TypeOK
  <2> QED BY <2>2, <2>3, <2>4, <2>5, <2>6 DEF Next
<1> QED BY <1>1, <1>2, PTL DEF Spec

-----------------------------------------------------------------------------
(* Transaction identifiers.                                                  *)
(*                                                                           *)
(* While no two exchanges begin in one second, what is on its way to the     *)
(* server and to the clients is ordered by its transaction identifiers, and  *)
(* the identifier of a client's last exchange tells its datagrams from those *)
(* of all others.                                                            *)

Answers == UNION {Range(inbox[e]) : e \in Mac}
Underway == Range(toServer) \cup Answers

XidsInv ==
  /\ \A c \in Mac : client[c].xid \in 0 .. now
  /\ \A p \in Underway : p.xid \in 1 .. client[p.chaddr].xid
  /\ \A p \in Underway, c \in Mac : p.xid = client[c].xid => p.chaddr = c

\* What is underway has a sender.
LEMMA UnderwayTyped ==
  ASSUME TypeOK, NEW p \in Underway
  PROVE  p.chaddr \in Mac
<1>1. CASE p \in Range(toServer)
  BY <1>1, MembersTyped, PacketFields DEF TypeOK
<1>2. CASE p \in Answers
  <2>1. PICK e \in Mac : p \in Range(inbox[e])
    BY <1>2 DEF Answers
  <2>2. inbox[e] \in Seq(Reply)
    BY DEF TypeOK
  <2>3. p \in Reply
    BY <2>1, <2>2, MembersTyped
  <2> QED BY <2>3 DEF Reply
<1> QED BY <1>1, <1>2 DEF Underway

\* What a step of client c changes.
LEMMA TurnEffect ==
  ASSUME TypeOK, NEW c \in Mac, NEW t, Turn(c, t)
  PROVE  /\ client'[c] = t
         /\ \A e \in Mac : e # c => client'[e] = client[e]
         /\ \A e \in Mac : Range(inbox'[e]) \subseteq Range(inbox[e])
         /\ Answers' \subseteq Answers
         /\ now' = now /\ leases' = leases /\ restarted' = restarted
         /\ \/ toServer' = toServer
            \/ \E m \in Packets :
                 /\ Sends(c, t, m)
                 /\ Range(toServer') = Range(toServer) \cup {m}
<1>1. /\ client \in [Mac -> Client] /\ inbox \in [Mac -> Seq(Reply)]
      /\ toServer \in Seq(Packets)
  BY DEF TypeOK
<1>2. client'[c] = t /\ \A e \in Mac : e # c => client'[e] = client[e]
  BY <1>1 DEF Turn
<1>3. \A e \in Mac : Range(inbox'[e]) \subseteq Range(inbox[e])
  BY <1>1 DEF Turn, InboxOnlyLoses
<1>4. Answers' \subseteq Answers
  BY <1>3 DEF Answers
<1>5. ASSUME NEW m \in Packets, Sends(c, t, m)
      PROVE  Range(toServer') = Range(toServer) \cup {m}
  BY <1>1, <1>5, AppendMembers DEF Sends
<1> QED BY <1>2, <1>3, <1>4, <1>5 DEF Turn, serverVars

\* What a step of the server changes of the datagrams.
LEMMA ServerStepUnderway ==
  ASSUME TypeOK, ServerStep
  PROVE  /\ Range(toServer') \subseteq Range(toServer)
         /\ \A d \in Answers' :
              \/ d \in Answers
              \/ /\ d = sent' /\ sent'.type \in ReplyType
                 /\ Head(toServer).type # "RELEASE"
                 /\ d.xid = Head(toServer).xid
                 /\ d.chaddr = Head(toServer).chaddr
                 /\ Head(toServer) \in Range(toServer)
<1>1. /\ Head(toServer) \in Range(toServer)
      /\ Range(toServer') \subseteq Range(toServer)
      /\ AnswerServed(Head(toServer))
  BY ServerStepProperties
<1>2. \A c \in Mac : \A d \in Range(inbox'[c]) :
        d \in Range(inbox[c]) \/ (d = sent' /\ sent'.type \in ReplyType)
  BY ServerStepProperties
<1> QED BY <1>1, <1>2 DEF Answers, AnswerServed

\* A client that begins an exchange draws an identifier no datagram and no
\* other client has.
LEMMA XidsStep ==
  ASSUME TypeOK, XidsInv, ~SameSecond, [Next]_vars
  PROVE  XidsInv'
<1>1. now \in Nat /\ \A p \in Underway : p.chaddr \in Mac
  BY UnderwayTyped DEF TypeOK, Server!TypeOK
<1>2. ASSUME NEW c \in Mac, NEW t, Turn(c, t)
      PROVE  XidsInv'
  <2>1. /\ client'[c] = t
        /\ \A e \in Mac : e # c => client'[e] = client[e]
        /\ Answers' \subseteq Answers
        /\ now' = now
    BY <1>2, TurnEffect
  <2>2. \/ t.xid = client[c].xid
        \/ t.xid = now /\ \A d \in Mac : client[d].xid < now
    BY <1>2 DEF Turn, GoesOn, BeginsAnew
  <2>3. \A e \in Mac : /\ client'[e].xid \in 0 .. now'
                       /\ client'[e].xid >= client[e].xid
    BY <1>1, <2>1, <2>2 DEF XidsInv
  <2>4. ASSUME NEW p \in Underway
        PROVE  /\ p.xid \in 1 .. client'[p.chaddr].xid
               /\ \A e \in Mac : p.xid = client'[e].xid => p.chaddr = e
    <3>1. p.chaddr \in Mac /\ p.xid \in 1 .. client[p.chaddr].xid
      BY <1>1 DEF XidsInv
    <3>2. /\ client[p.chaddr].xid \in 0 .. now
          /\ client'[p.chaddr].xid \in 0 .. now
          /\ client'[p.chaddr].xid >= client[p.chaddr].xid
      BY <2>1, <2>3, <3>1 DEF XidsInv
    <3>3. p.xid \in 1 .. client'[p.chaddr].xid
      BY <1>1, <3>1, <3>2
    <3>4. ASSUME NEW e \in Mac, p.xid = client'[e].xid
          PROVE  p.chaddr = e
      <4>1. CASE client'[e].xid = client[e].xid
        BY <3>4, <4>1 DEF XidsInv
      <4>2. CASE /\ client'[e].xid = now
                 /\ \A d \in Mac : client[d].xid < now
        BY <1>1, <3>1, <3>2, <3>4, <4>2
      <4> QED BY <2>1, <2>2, <4>1, <4>2
    <3> QED BY <3>3, <3>4
  <2>5. ASSUME NEW m \in Packets, Sends(c, t, m), toServer' # toServer
        PROVE  /\ m.xid \in 1 .. client'[m.chaddr].xid
               /\ \A e \in Mac : m.xid = client'[e].xid => m.chaddr = e
    <3>1. m.chaddr = c /\ m.xid = t.xid
      BY <2>5 DEF Sends
    <3>2. CASE t.xid = now /\ \A d \in Mac : client[d].xid < now
      <4>1. now \in 1 .. now
        BY <1>1, <3>2 DEF XidsInv
      <4>2. \A e \in Mac : e # c => client'[e].xid # now
        BY <1>1, <2>1, <3>2 DEF XidsInv
      <4> QED BY <2>1, <3>1, <3>2, <4>1, <4>2
    <3>3. CASE GoesOn(c, t)
      <4>1. PICK d \in Range(inbox[c]) : d.xid = client[c].xid
        BY <2>5, <3>3 DEF GoesOn
      <4>2. d \in Underway /\ t.xid = client[c].xid
        BY <3>3 DEF Underway, Answers, GoesOn
      <4>3. /\ d.xid \in 1 .. client'[d.chaddr].xid
            /\ \A e \in Mac : d.xid = client'[e].xid => d.chaddr = e
        BY <2>4, <4>2
      <4> QED BY <2>1, <3>1, <4>1, <4>2, <4>3
    <3> QED BY <2>2, <3>2, <3>3, <1>2 DEF Turn, BeginsAnew
  <2>6. ASSUME NEW p \in Underway'
        PROVE  /\ p.xid \in 1 .. client'[p.chaddr].xid
               /\ \A e \in Mac : p.xid = client'[e].xid => p.chaddr = e
    <3>1. CASE toServer' = toServer
      BY <2>1, <2>4, <3>1 DEF Underway
    <3>2. CASE toServer' # toServer
      <4>1. PICK m \in Packets : /\ Sends(c, t, m)
                                 /\ Range(toServer') = Range(toServer) \cup {m}
        BY <1>2, <3>2, TurnEffect
      <4>2. p \in Underway \/ p = m
        BY <2>1, <4>1 DEF Underway
      <4> QED BY <2>4, <2>5, <3>2, <4>1, <4>2
    <3> QED BY <3>1, <3>2
  <2> QED BY <2>3, <2>6 DEF XidsInv
<1>3. CASE ServerStep
  <2>1. client' = client /\ now' = now
    BY <1>3, ServerStepProperties
  <2>2. \A p \in Underway' : \E q \in Underway :
          p.xid = q.xid /\ p.chaddr = q.chaddr
    BY <1>3, ServerStepUnderway DEF Underway
  <2> QED BY <2>1, <2>2 DEF XidsInv
<1>4. CASE Restart
  <2>1. Underway' \subseteq Underway
    BY <1>4 DEF Restart, Underway, Answers, Range
  <2> QED BY <1>4, <2>1 DEF Restart, XidsInv
<1>5. CASE Tick
  <2>1. Underway' = Underway /\ now' = now + 1
    BY <1>5 DEF Tick, Underway, Answers
  <2>2. \A c \in Mac : client'[c].xid = client[c].xid
    BY <1>5, TickProperties
  <2> QED BY <1>1, <2>1, <2>2 DEF XidsInv
<1>6. CASE UNCHANGED vars
  BY <1>6 DEF vars, XidsInv, Underway, Answers
<1> QED BY <1>2, <1>3, <1>4, <1>5, <1>6, ClientTurns DEF Next

\* Before the first exchange nothing is underway.
LEMMA InitUnderway ==
  ASSUME Init
  PROVE  /\ Underway = {} /\ Range(toServer) = {} /\ DOMAIN toServer = {}
         /\ now = 0 /\ leases = <<>> /\ restarted = FALSE
         /\ \A c \in Mac : client[c] = NewClient
<1>1. Range(toServer) = {} /\ \A c \in Mac : Range(inbox[c]) = {}
  BY DEF Init, Range
<1> QED BY <1>1 DEF Init, dhcp_setup, Underway, Answers

-----------------------------------------------------------------------------
(* The order of the packets. *)

\* What a client sends, the server and the client see in the order of the
\* exchanges, with a RELEASE alone in its exchange.
OrderInv ==
  /\ \A i, j \in DOMAIN toServer :
       i < j /\ toServer[i].chaddr = toServer[j].chaddr =>
         /\ toServer[i].xid <= toServer[j].xid
         /\ toServer[i].type = "RELEASE" \/ toServer[j].type = "RELEASE" =>
              toServer[i].xid < toServer[j].xid
  /\ \A d \in Answers, m \in Range(toServer) :
       d.chaddr = m.chaddr =>
         /\ d.xid <= m.xid
         /\ m.type = "RELEASE" => d.xid < m.xid

\* A client that looks for an address has none, and what it has sent says so.
SearchInv ==
  \A c \in Mac : client[c].pc \in Searching =>
    /\ client[c].addr = INADDR_ANY
    /\ \A m \in Range(toServer) : m.xid = client[c].xid =>
         m.ciaddr = INADDR_ANY /\ m.type \in {"DISCOVER", "REQUEST"}

\* A client whose RELEASE is underway has no address.
ReleaseInv ==
  \A m \in Range(toServer) :
    m.type = "RELEASE" => client[m.chaddr].addr = INADDR_ANY

\* Searching ends when an exchange of another kind begins.
LEMMA SearchStep ==
  ASSUME TypeOK, XidsInv, SearchInv, ~SameSecond, [Next]_vars
  PROVE  SearchInv'
<1>1. now \in Nat /\ \A p \in Range(toServer) : p.chaddr \in Mac
  BY UnderwayTyped DEF TypeOK, Server!TypeOK, Underway
<1>2. ASSUME NEW c \in Mac, NEW t, Turn(c, t)
      PROVE  SearchInv'
  <2>1. /\ client'[c] = t
        /\ \A e \in Mac : e # c => client'[e] = client[e]
    BY <1>2, TurnEffect
  <2>2. \/ GoesOn(c, t)
        \/ /\ t.xid = now /\ \A d \in Mac : client[d].xid < now
           /\ t.pc \in Searching => t.addr = INADDR_ANY
    BY <1>2 DEF Turn, BeginsAnew
  <2>3. t.pc \in Searching => t.addr = INADDR_ANY
    BY <2>2 DEF GoesOn, SearchInv
  <2>4. ASSUME NEW e \in Mac, client'[e].pc \in Searching,
               NEW m \in Range(toServer), m.xid = client'[e].xid
        PROVE  m.ciaddr = INADDR_ANY /\ m.type \in {"DISCOVER", "REQUEST"}
    <3>1. CASE client'[e].xid = client[e].xid /\ client[e].pc \in Searching
      BY <2>4, <3>1 DEF SearchInv
    <3>2. CASE e = c /\ t.xid = now /\ \A d \in Mac : client[d].xid < now
      <4>1. /\ m.xid \in 1 .. client[m.chaddr].xid /\ m.chaddr \in Mac
            /\ client[m.chaddr].xid \in 0 .. now
        BY <1>1 DEF XidsInv, Underway
      <4> QED BY <1>1, <2>1, <2>4, <3>2, <4>1
    <3> QED BY <2>1, <2>2, <2>4, <3>1, <3>2 DEF GoesOn
  <2>5. ASSUME NEW e \in Mac, client'[e].pc \in Searching,
               NEW m \in Packets, Sends(c, t, m),
               m.xid = client'[e].xid, m \in Underway'
        PROVE  m.ciaddr = INADDR_ANY /\ m.type \in {"DISCOVER", "REQUEST"}
    <3>1. e = c
    BY <2>5, XidsStep DEF Sends, XidsInv
    <3> QED BY <2>1, <2>3, <2>5, <3>1 DEF Sends
  <2>6. ASSUME NEW e \in Mac, client'[e].pc \in Searching,
               NEW m \in Range(toServer'), m.xid = client'[e].xid
        PROVE  m.ciaddr = INADDR_ANY /\ m.type \in {"DISCOVER", "REQUEST"}
    <3>1. CASE m \in Range(toServer)
      BY <2>4, <2>6, <3>1
    <3>2. CASE m \notin Range(toServer)
      <4>1. PICK p \in Packets : /\ Sends(c, t, p)
                                 /\ Range(toServer') = Range(toServer) \cup {p}
        BY <1>2, <2>6, <3>2, TurnEffect
      <4>2. m = p /\ m \in Underway'
        BY <2>6, <3>2, <4>1 DEF Underway
      <4> QED BY <2>5, <2>6, <4>1, <4>2
    <3> QED BY <3>1, <3>2
  <2>7. ASSUME NEW e \in Mac, client'[e].pc \in Searching
        PROVE  client'[e].addr = INADDR_ANY
    BY <2>1, <2>3, <2>7 DEF SearchInv
  <2> QED BY <2>6, <2>7 DEF SearchInv
<1>3. CASE ServerStep
  BY <1>3, ServerStepUnderway DEF ServerStep, SearchInv
<1>4. CASE Restart
  <2>1. Range(toServer') = {} /\ client' = client
    BY <1>4 DEF Restart, Range
  <2> QED BY <2>1 DEF SearchInv
<1>5. CASE Tick
  <2>1. toServer' = toServer
    BY <1>5 DEF Tick
  <2> QED BY <1>5, <2>1, TickProperties DEF SearchInv, Searching
<1>6. CASE UNCHANGED vars
  BY <1>6 DEF vars, SearchInv
<1> QED BY <1>2, <1>3, <1>4, <1>5, <1>6, ClientTurns DEF Next

\* What a client sends is newer than what is underway from and to it.
LEMMA SentIsNewer ==
  ASSUME TypeOK, XidsInv, SearchInv, ~SameSecond,
         NEW c \in Mac, NEW t, Turn(c, t),
         NEW m \in Packets, Sends(c, t, m), toServer' # toServer,
         NEW p \in Underway, p.chaddr = c
  PROVE  /\ p.xid <= m.xid
         /\ m.type = "RELEASE" => p.xid < m.xid
         /\ p \in Range(toServer) /\ p.type = "RELEASE" => p.xid < m.xid
<1>1. /\ now \in Nat /\ client[c].xid \in 0 .. now
      /\ p.xid \in 1 .. client[c].xid
      /\ m.xid = t.xid
  BY DEF TypeOK, Server!TypeOK, XidsInv, Sends
<1>2. CASE GoesOn(c, t)
  <2>1. /\ t.xid = client[c].xid
        /\ client[c].pc = "offer" /\ t.pc = "discover_ack"
    BY <1>2 DEF GoesOn
  <2>2. m.type # "RELEASE"
    BY <2>1 DEF Sends, Searching
  <2>3. p \in Range(toServer) /\ p.type = "RELEASE" => p.xid # client[c].xid
    BY <2>1 DEF SearchInv, Searching
  <2> QED BY <1>1, <2>1, <2>2, <2>3
<1>3. CASE t.xid = now /\ \A d \in Mac : client[d].xid < now
  BY <1>1, <1>3
<1> QED BY <1>2, <1>3 DEF Turn, BeginsAnew

\* Queues keep the order, and answers are sent in the order of the requests.
LEMMA OrderStep ==
  ASSUME TypeOK, XidsInv, SearchInv, OrderInv, ~SameSecond, [Next]_vars
  PROVE  OrderInv'
<1>1. toServer \in Seq(Packets)
  BY DEF TypeOK
<1>2. ASSUME NEW c \in Mac, NEW t, Turn(c, t)
      PROVE  OrderInv'
  <2>1. Answers' \subseteq Answers
    BY <1>2, TurnEffect
  <2>2. CASE toServer' = toServer
    BY <2>1, <2>2 DEF OrderInv
  <2>3. CASE toServer' # toServer
    <3>1. PICK m \in Packets : /\ Sends(c, t, m)
                               /\ Range(toServer') = Range(toServer) \cup {m}
      BY <1>2, <2>3, TurnEffect
    <3>2. m.chaddr = c /\ toServer' = Append(toServer, m)
      BY <3>1 DEF Sends
    <3>3. /\ DOMAIN toServer' = 1 .. (Len(toServer) + 1)
          /\ DOMAIN toServer = 1 .. Len(toServer) /\ Len(toServer) \in Nat
          /\ \A k \in DOMAIN toServer : toServer'[k] = toServer[k]
          /\ toServer'[Len(toServer) + 1] = m
      BY <1>1, <3>2, AppendMembers
    <3>4. ASSUME NEW p \in Underway, p.chaddr = m.chaddr
          PROVE  /\ p.xid <= m.xid
                 /\ m.type = "RELEASE" => p.xid < m.xid
                 /\ p \in Range(toServer) /\ p.type = "RELEASE" =>
                      p.xid < m.xid
      BY <1>2, <2>3, <3>1, <3>2, <3>4, SentIsNewer
    <3>5. ASSUME NEW i \in DOMAIN toServer', NEW j \in DOMAIN toServer',
                 i < j, toServer'[i].chaddr = toServer'[j].chaddr
          PROVE  /\ toServer'[i].xid <= toServer'[j].xid
                 /\ \/ toServer'[i].type = "RELEASE"
                    \/ toServer'[j].type = "RELEASE"
                    => toServer'[i].xid < toServer'[j].xid
      <4>1. i \in DOMAIN toServer /\ toServer'[i] = toServer[i]
        BY <3>3, <3>5
      <4>2. CASE j \in DOMAIN toServer
        BY <3>3, <3>5, <4>1, <4>2 DEF OrderInv
      <4>3. CASE j = Len(toServer) + 1
        <5>1. toServer'[j] = m
          BY <3>3, <4>3
        <5>2. toServer[i] \in Range(toServer) /\ toServer[i] \in Underway
          BY <4>1 DEF Range, Underway
        <5> QED BY <3>4, <3>5, <4>1, <5>1, <5>2
      <4> QED BY <3>3, <3>5, <4>2, <4>3
    <3>6. ASSUME NEW d \in Answers', NEW p \in Range(toServer'),
                 d.chaddr = p.chaddr
          PROVE  /\ d.xid <= p.xid
                 /\ p.type = "RELEASE" => d.xid < p.xid
      <4>1. d \in Answers /\ d \in Underway
        BY <2>1 DEF Underway
      <4>2. CASE p \in Range(toServer)
        BY <3>6, <4>1, <4>2 DEF OrderInv
      <4>3. CASE p = m
        BY <3>4, <3>6, <4>1, <4>3
      <4> QED BY <3>1, <4>2, <4>3
    <3> QED BY <3>5, <3>6 DEF OrderInv
  <2> QED BY <2>2, <2>3
<1>3. CASE ServerStep
  <2> DEFINE h == Head(toServer)
  <2>1. 1 \in DOMAIN toServer /\ h = toServer[1]
    BY <1>3, ServerStepProperties
  <2>2. PICK e \in {0, 1} : \A k \in DOMAIN toServer' :
          k + e \in DOMAIN toServer /\ toServer'[k] = toServer[k + e]
    BY <1>1, <1>3, ArrivedProperties DEF ServerStep
  <2>3. /\ DOMAIN toServer \subseteq Nat \ {0}
        /\ DOMAIN toServer' \subseteq Nat \ {0}
    <3>1. toServer' \in Seq(Packets)
      BY <1>3, ServerStepProperties
    <3> QED BY <1>1, <3>1, LenProperties
  <2>4. /\ Range(toServer') \subseteq Range(toServer)
        /\ \A d \in Answers' :
             \/ d \in Answers
             \/ h.type # "RELEASE" /\ d.xid = h.xid /\ d.chaddr = h.chaddr
    BY <1>3, ServerStepUnderway
  <2> HIDE DEF h
  <2>5. ASSUME NEW i \in DOMAIN toServer', NEW j \in DOMAIN toServer', i < j
        PROVE  i + e < j + e
    BY <2>3, <2>5
  <2>6. ASSUME NEW d \in Answers', NEW p \in Range(toServer'),
               d.chaddr = p.chaddr
        PROVE  /\ d.xid <= p.xid
               /\ p.type = "RELEASE" => d.xid < p.xid
    <3>1. CASE d \in Answers
      BY <2>4, <2>6, <3>1 DEF OrderInv
    <3>2. CASE h.type # "RELEASE" /\ d.xid = h.xid /\ d.chaddr = h.chaddr
      <4>1. PICK k \in DOMAIN toServer : p = toServer[k]
        BY <2>4 DEF Range
      <4>2. CASE k = 1
        <5>1. h \in Underway /\ p = h
          BY <2>1, <4>1, <4>2 DEF Underway, Range
        <5>2. h.xid \in Int
          BY <5>1 DEF XidsInv
        <5> QED BY <3>2, <5>1, <5>2
      <4>3. CASE 1 < k
        BY <2>1, <2>6, <3>2, <4>1, <4>3 DEF OrderInv
      <4> QED BY <2>3, <4>2, <4>3
    <3> QED BY <2>4, <3>1, <3>2
  <2> QED BY <2>2, <2>5, <2>6 DEF OrderInv
<1>4. CASE Restart
  <2>1. Range(toServer') = {} /\ DOMAIN toServer' = {}
    BY <1>4 DEF Restart, Range
  <2> QED BY <2>1 DEF OrderInv
<1>5. CASE Tick \/ UNCHANGED vars
  <2>1. toServer' = toServer /\ Answers' = Answers
    BY <1>5 DEF Tick, vars, Answers
  <2> QED BY <2>1 DEF OrderInv
<1> QED BY <1>2, <1>3, <1>4, <1>5, ClientTurns DEF Next

\* A client gets an address only with an answer to an exchange it began after
\* its last RELEASE had been served or lost.
LEMMA ReleaseStep ==
  ASSUME TypeOK, XidsInv, OrderInv, ReleaseInv, [Next]_vars
  PROVE  ReleaseInv'
<1>1. \A m \in Range(toServer) : m.chaddr \in Mac
  BY UnderwayTyped DEF Underway
<1>2. ASSUME NEW c \in Mac, NEW t, Turn(c, t)
      PROVE  ReleaseInv'
  <2>1. /\ client'[c] = t
        /\ \A e \in Mac : e # c => client'[e] = client[e]
    BY <1>2, TurnEffect
  <2>2. ASSUME NEW m \in Range(toServer), m.type = "RELEASE", m.chaddr = c
        PROVE  t.addr = INADDR_ANY
    <3>1. client[c].addr = INADDR_ANY
      BY <2>2 DEF ReleaseInv
    <3>2. ASSUME NEW d \in Range(inbox[c]), d.xid = client[c].xid
          PROVE  FALSE
      <4>1. d \in Answers /\ d.chaddr = c
        BY <3>2 DEF Answers, Underway, XidsInv
      <4>2. d.xid < m.xid
        BY <2>2, <4>1 DEF OrderInv
      <4>3. m.xid \in 1 .. client[c].xid /\ client[c].xid \in 0 .. now
        BY <2>2 DEF XidsInv, Underway
      <4>4. now \in Nat
        BY DEF TypeOK, Server!TypeOK
      <4> QED BY <3>2, <4>2, <4>3, <4>4
    <3> QED BY <1>2, <3>1, <3>2 DEF Turn, Address
  <2>3. ASSUME NEW m \in Range(toServer'), m.type = "RELEASE"
        PROVE  client'[m.chaddr].addr = INADDR_ANY
    <3>1. CASE m \in Range(toServer)
      <4>1. CASE m.chaddr = c
        BY <2>1, <2>2, <2>3, <3>1, <4>1
      <4>2. CASE m.chaddr # c
        BY <1>1, <2>1, <2>3, <3>1, <4>2 DEF ReleaseInv
      <4> QED BY <4>1, <4>2
    <3>2. CASE m \notin Range(toServer)
      <4>1. PICK p \in Packets : /\ Sends(c, t, p)
                                 /\ Range(toServer') = Range(toServer) \cup {p}
        BY <1>2, <2>3, <3>2, TurnEffect
      <4>2. m = p
        BY <2>3, <3>2, <4>1
      <4> QED BY <2>1, <2>3, <4>1, <4>2 DEF Sends
    <3> QED BY <3>1, <3>2
  <2> QED BY <2>3 DEF ReleaseInv
<1>3. CASE ServerStep
  BY <1>3, ServerStepUnderway DEF ServerStep, ReleaseInv
<1>4. CASE Restart
  <2>1. Range(toServer') = {}
    BY <1>4 DEF Restart, Range
  <2> QED BY <2>1 DEF ReleaseInv
<1>5. CASE Tick
  <2>1. toServer' = toServer
    BY <1>5 DEF Tick
  <2> QED BY <1>1, <1>5, <2>1, TickProperties DEF ReleaseInv
<1>6. CASE UNCHANGED vars
  BY <1>6 DEF vars, ReleaseInv
<1> QED BY <1>2, <1>3, <1>4, <1>5, <1>6, ClientTurns DEF Next

-----------------------------------------------------------------------------
(* What a client holds. *)

OneClient == \A c, d \in Mac : c = d

\* Nobody's lease runs out and goes to another client.
NoTakeOver == MaxTime < IP_ADDRESS_LEASE_TIME \/ OneClient

\* The server stands behind address a of client c.
Backed(c, a) == a \in Pool /\ (Recorded(c, a) \/ restarted)

AckInv ==
  \A c \in Mac : client[c].pc \in Searching =>
    \A d \in Range(inbox[c]) :
      d.xid = client[c].xid /\ d.type = "ACK" => Backed(c, d.yiaddr)

HeldInv == \A c \in Mac, a \in Addr : Holds(c, a) => Backed(c, a)

\* Where a restart has left no leases, nothing is promised of them.
LEMMA BackedUnchanged ==
  ASSUME NEW c, NEW a, Backed(c, a),
         restarted' \/ (leases' = leases /\ restarted' = restarted)
  PROVE  Backed(c, a)'
BY DEF Backed, Recorded

\* The lease of a client is lost only with a RELEASE of that client.
LEMMA BackedKept ==
  ASSUME TypeOK, ServerStep, NEW c \in Mac, NEW a, Backed(c, a),
         ~(Head(toServer).type = "RELEASE" /\ Head(toServer).chaddr = c)
  PROVE  Backed(c, a)'
<1> DEFINE m == Head(toServer)
<1>1. /\ m \in Packets /\ ListServed(m)
      /\ restarted' = restarted
  BY ServerStepProperties
<1>2. m.chaddr \in Mac /\ Changed(m.chaddr)
  BY <1>1, ServedChanges
<1>3. ~(m.type = "RELEASE" /\ m.chaddr = c)
  OBVIOUS
<1> HIDE DEF m
<1>4. ListType
  BY ServerOperations DEF TypeOK, Server!TypeOK, ListType
<1>5. CASE restarted
  BY <1>1, <1>5 DEF Backed
<1>6. CASE Recorded(c, a)
  <2>1. PICK k \in DOMAIN leases : leases[k].addr = a /\ leases[k].chaddr = c
    BY <1>6 DEF Recorded
  <2>2. ASSUME NEW ip \in Addr, Removed(ip, m.chaddr, k)
        PROVE  FALSE
    <3>1. m.chaddr = c /\ num_of_lease' = num_of_lease - 1
      BY <2>1, <2>2 DEF Removed
    <3>2. num_of_lease' = num_of_lease \/ num_of_lease' = num_of_lease + 1
      BY <1>1, <1>3, <3>1 DEF ListServed, Appended
    <3> QED BY <1>4, <3>1, <3>2 DEF ListType
  <2>3. \E j \in DOMAIN leases' : /\ leases'[j].addr = leases[k].addr
                                  /\ leases'[j].chaddr = leases[k].chaddr
    BY <1>2, <1>4, <2>2, ChangeKeeps
  <2> QED BY <2>1, <2>3 DEF Backed, Recorded
<1> QED BY <1>5, <1>6 DEF Backed

\* No lease another client has is taken for one that has run out.
LEMMA NothingExpires ==
  ASSUME TypeOK, NoTakeOver, NEW i \in DOMAIN leases, NEW mac \in Mac,
         Expired(i) \/ leases[i].chaddr = mac
  PROVE  leases[i].chaddr = mac
<1>1. /\ leases \in Seq(Lease) /\ now \in Nat /\ now <= MaxTime
  BY ServerOperations DEF TypeOK, Server!TypeOK
<1>2. leases[i] \in Lease
  BY <1>1, LenProperties
<1>3. leases[i].time_stamp \in Nat /\ leases[i].chaddr \in Mac
  BY <1>2 DEF Lease
<1>4. CASE OneClient
  BY <1>3, <1>4 DEF OneClient
<1>5. CASE MaxTime < IP_ADDRESS_LEASE_TIME
  <2>1. ~Expired(i)
    BY <1>1, <1>3, <1>5, SystemAssumption, LeaseTimeAssumption DEF Expired
  <2> QED BY <2>1
<1> QED BY <1>4, <1>5 DEF NoTakeOver

\* The server stands behind the address it acknowledges to a client without
\* one.
LEMMA AckBacked ==
  ASSUME TypeOK, NoTakeOver, ServerStep,
         sent'.type = "ACK", Head(toServer).type # "INFORM",
         Head(toServer).ciaddr = INADDR_ANY,
         NEW c, c = Head(toServer).chaddr, NEW ip, ip = sent'.yiaddr
  PROVE  Backed(c, ip)'
<1> DEFINE m == Head(toServer)
<1>1. m \in Packets /\ AnswerServed(m)
  BY ServerStepProperties
<1>2. check_ipaddr(ip, c) /\ add_lease(ip, c)
  BY <1>1 DEF AnswerServed
<1>3. c \in Mac
  BY <1>1, PacketFields
<1> HIDE DEF m
<1>4. ip \in Pool /\ ip \in Addr
  BY <1>2, PoolFacts DEF check_ipaddr
<1>5. ListType
  BY ServerOperations DEF TypeOK, Server!TypeOK, ListType
<1>6. Recorded(c, ip)'
  <2>1. ASSUME NEW i \in DOMAIN leases, FirstWithAddr(i, ip), Touch(i)
        PROVE  Recorded(c, ip)'
    <3>1. leases[i].addr = ip
      BY <2>1 DEF FirstWithAddr
    <3>2. leases[i].chaddr = c
      BY <1>2, <1>3, <2>1, NothingExpires DEF check_ipaddr
    <3>3. /\ i \in DOMAIN leases'
          /\ leases'[i].addr = leases[i].addr
          /\ leases'[i].chaddr = leases[i].chaddr
      BY <1>5, <2>1, TouchProperties
    <3> QED BY <3>1, <3>2, <3>3 DEF Recorded
  <2>2. ASSUME Appended(ip, c)
        PROVE  Recorded(c, ip)'
    <3>1. /\ DOMAIN leases' = 1 .. (Len(leases) + 1)
          /\ leases'[Len(leases) + 1] =
               [time_stamp |-> now, addr |-> ip, chaddr |-> c]
      BY <1>3, <1>4, <1>5, <2>2, AppendedProperties, Zenon
    <3>2. Len(leases) \in Nat
      BY <1>5, LenProperties DEF ListType
    <3>3. Len(leases) + 1 \in DOMAIN leases'
      BY <3>1, <3>2
    <3> QED BY <3>1, <3>3 DEF Recorded
  <2> QED BY <1>2, <2>1, <2>2 DEF add_lease, Appended
<1> QED BY <1>4, <1>6 DEF Backed

\* An ACK a client waits for is backed when it is sent, and stays so until the
\* client has read it.
LEMMA AckStep ==
  ASSUME TypeOK, XidsInv, SearchInv, OrderInv, AckInv, NoTakeOver,
         ~SameSecond, [Next]_vars
  PROVE  AckInv'
<1>1. now \in Nat /\ \A p \in Underway : p.chaddr \in Mac
  BY UnderwayTyped DEF TypeOK, Server!TypeOK
<1>2. ASSUME NEW c \in Mac, NEW t, Turn(c, t)
      PROVE  AckInv'
  <2>1. /\ client'[c] = t
        /\ \A e \in Mac : e # c => client'[e] = client[e]
        /\ \A e \in Mac : Range(inbox'[e]) \subseteq Range(inbox[e])
        /\ leases' = leases /\ restarted' = restarted
    BY <1>2, TurnEffect
  <2>2. \/ GoesOn(c, t)
        \/ t.xid = now /\ \A d \in Mac : client[d].xid < now
    BY <1>2 DEF Turn, BeginsAnew
  <2>3. ASSUME NEW e \in Mac, client'[e].pc \in Searching,
               NEW d \in Range(inbox'[e]),
               d.xid = client'[e].xid, d.type = "ACK"
        PROVE  Backed(e, d.yiaddr)
    <3>1. d \in Range(inbox[e]) /\ d \in Underway
      BY <2>1 DEF Underway, Answers
    <3>2. CASE client'[e].xid = client[e].xid /\ client[e].pc \in Searching
      BY <2>3, <3>1, <3>2 DEF AckInv
    <3>3. CASE e = c /\ t.xid = now /\ \A p \in Mac : client[p].xid < now
      <4>1. /\ d.xid \in 1 .. client[d.chaddr].xid /\ d.chaddr \in Mac
            /\ client[d.chaddr].xid \in 0 .. now
        BY <1>1, <3>1 DEF XidsInv
      <4> QED BY <1>1, <2>1, <2>3, <3>3, <4>1
    <3> QED BY <2>1, <2>2, <2>3, <3>2, <3>3 DEF GoesOn
  <2>4. \A e \in Mac : \A a : Backed(e, a) => Backed(e, a)'
    BY <2>1, BackedUnchanged
  <2> QED BY <2>3, <2>4 DEF AckInv
<1>3. CASE ServerStep
  <2> DEFINE m == Head(toServer)
  <2>1. /\ m \in Range(toServer) /\ client' = client
        /\ AnswerServed(m)
        /\ \A c \in Mac : \A d \in Range(inbox'[c]) :
             d \in Range(inbox[c]) \/ (d = sent' /\ sent'.type \in ReplyType)
    BY <1>3, ServerStepProperties
  <2>2. ASSUME NEW c \in Mac, client'[c].pc \in Searching,
               NEW d \in Range(inbox'[c]), d.xid = client'[c].xid,
               d.type = "ACK", NEW a, a = d.yiaddr
        PROVE  Backed(c, a)'
    <3>1. CASE d \in Range(inbox[c])
      <4>1. Backed(c, a)
        BY <2>1, <2>2, <3>1 DEF AckInv
      <4>2. ASSUME m.type = "RELEASE", m.chaddr = c
            PROVE  FALSE
        <5>1. d \in Answers /\ d \in Underway /\ m \in Underway
          BY <2>1, <3>1 DEF Answers, Underway
        <5>2. d.chaddr = c
          BY <2>1, <2>2, <5>1 DEF XidsInv
        <5>3. d.xid < m.xid
          BY <2>1, <4>2, <5>1, <5>2 DEF OrderInv
        <5>4. m.xid \in 1 .. client[c].xid /\ client[c].xid \in 0 .. now
          BY <4>2, <5>1 DEF XidsInv
        <5> QED BY <1>1, <2>1, <2>2, <5>3, <5>4
      <4> QED BY <1>3, <4>1, <4>2, BackedKept
    <3>2. CASE d = sent' /\ sent'.type \in ReplyType
      <4>1. m.xid = client[c].xid /\ m \in Underway
        BY <2>1, <2>2, <3>2 DEF AnswerServed, Underway
      <4>2. m.chaddr = c
        BY <4>1 DEF XidsInv
      <4>3. m.ciaddr = INADDR_ANY /\ m.type \in {"DISCOVER", "REQUEST"}
        BY <2>1, <2>2, <4>1 DEF SearchInv
      <4> QED BY <1>3, <2>2, <3>2, <4>2, <4>3, AckBacked
    <3> QED BY <2>1, <2>2, <3>1, <3>2
  <2> QED BY <2>2 DEF AckInv
<1>4. CASE Restart
  <2>1. inbox' = inbox /\ client' = client /\ restarted'
    BY <1>4 DEF Restart
  <2>2. \A e \in Mac : \A a : Backed(e, a) => Backed(e, a)'
    BY <2>1, BackedUnchanged
  <2> QED BY <2>1, <2>2 DEF AckInv
<1>5. CASE Tick
  <2>1. inbox' = inbox /\ leases' = leases /\ restarted' = restarted
    BY <1>5 DEF Tick, serverVars
  <2>2. \A e \in Mac : \A a : Backed(e, a) => Backed(e, a)'
    BY <2>1, BackedUnchanged
  <2>3. \A c \in Mac : client'[c].pc \in Searching => client'[c] = client[c]
    BY <1>5, TickProperties DEF Searching
  <2> QED BY <2>1, <2>2, <2>3 DEF AckInv
<1>6. CASE UNCHANGED vars
  <2>1. /\ inbox' = inbox /\ client' = client
        /\ leases' = leases /\ restarted' = restarted
    BY <1>6 DEF vars, serverVars
  <2>2. \A e \in Mac : \A a : Backed(e, a) => Backed(e, a)'
    BY <2>1, BackedUnchanged
  <2> QED BY <2>1, <2>2 DEF AckInv
<1> QED BY <1>2, <1>3, <1>4, <1>5, <1>6, ClientTurns DEF Next

\* The address a client holds was backed when it took it, and is so as long as
\* the client has sent no RELEASE.
LEMMA HeldStep ==
  ASSUME TypeOK, ReleaseInv, AckInv, HeldInv, [Next]_vars
  PROVE  HeldInv'
<1>1. ASSUME NEW c \in Mac, NEW t, Turn(c, t)
      PROVE  HeldInv'
  <2>1. /\ client'[c] = t
        /\ \A e \in Mac : e # c => client'[e] = client[e]
        /\ leases' = leases /\ restarted' = restarted
    BY <1>1, TurnEffect
  <2>2. ASSUME NEW e \in Mac, NEW a \in Addr, Holds(e, a)'
        PROVE  Backed(e, a)
    <3>1. CASE /\ client'[e].addr = client[e].addr
               /\ client'[e].grant = client[e].grant
      BY <2>2, <3>1 DEF HeldInv, Holds
    <3>2. ASSUME client[c].pc = "discover_ack", e = c,
                 NEW d \in Range(inbox[c]), d.xid = client[c].xid,
                 t.addr = d.yiaddr,
                 t.grant = [type |-> d.type, chaddr |-> d.chaddr]
          PROVE  Backed(e, a)
      <4>1. d.type = "ACK" /\ d.yiaddr = a
        <5>1. t.addr = a /\ t.grant = [type |-> "ACK", chaddr |-> c]
          BY <2>1, <2>2, <3>2 DEF Holds
        <5>2. t.grant.type = "ACK" /\ t.grant.type = d.type
          BY <5>1, <3>2
        <5> QED BY <3>2, <5>1, <5>2
      <4> QED BY <3>2, <4>1 DEF AckInv, Searching
    <3>3. CASE e = c /\ t.addr = INADDR_ANY
      BY <2>1, <2>2, <3>3 DEF Holds
    <3> QED BY <1>1, <2>1, <3>1, <3>2, <3>3 DEF Turn, Address
  <2> QED BY <2>1, <2>2, BackedUnchanged DEF HeldInv
<1>2. CASE ServerStep
  <2>1. client' = client /\ Head(toServer) \in Range(toServer)
    BY <1>2, ServerStepProperties
  <2>2. ASSUME NEW c \in Mac, NEW a \in Addr, Holds(c, a)'
        PROVE  Backed(c, a)'
    <3>1. Holds(c, a)
      BY <2>1, <2>2 DEF Holds
    <3>2. ~(Head(toServer).type = "RELEASE" /\ Head(toServer).chaddr = c)
      BY <2>1, <3>1 DEF ReleaseInv, Holds
    <3> QED BY <1>2, <3>1, <3>2, BackedKept DEF HeldInv
  <2> QED BY <2>2 DEF HeldInv
<1>3. CASE Restart \/ UNCHANGED vars
  <2>1. /\ client' = client
        /\ restarted' \/ (leases' = leases /\ restarted' = restarted)
    BY <1>3 DEF Restart, vars, serverVars
  <2> QED BY <2>1, BackedUnchanged DEF HeldInv, Holds
<1>4. CASE Tick
  <2>1. leases' = leases /\ restarted' = restarted
    BY <1>4 DEF Tick, serverVars
  <2>2. \A c \in Mac, a \in Addr : Holds(c, a)' => Holds(c, a)
    BY <1>4, TickProperties DEF Holds
  <2> QED BY <2>1, <2>2, BackedUnchanged DEF HeldInv
<1> QED BY <1>1, <1>2, <1>3, <1>4, ClientTurns DEF Next

\* The lists of LeaseListProofs: no address twice.
LEMMA DistinctStep ==
  ASSUME TypeOK, Distinct(leases), [Next]_vars
  PROVE  Distinct(leases)'
<1>1. ListType
  BY ServerOperations DEF TypeOK, Server!TypeOK, ListType
<1>2. CASE ServerStep
  <2>1. Head(toServer) \in Packets /\ ListServed(Head(toServer))
    BY <1>2, ServerStepProperties
  <2>2. PICK mac \in Mac : Changed(mac)
    BY <2>1, ServedChanges
  <2> QED BY <1>1, <2>2, ChangeDistinct
<1>3. CASE Restart
  <2>1. DOMAIN leases' = {}
    BY <1>3 DEF Restart
  <2> QED BY <2>1 DEF Distinct
<1>4. ASSUME NEW c \in Mac, NEW t, Turn(c, t)
      PROVE  leases' = leases
  BY <1>4, TurnEffect
<1>5. CASE Tick \/ UNCHANGED vars
  BY <1>5 DEF Tick, vars, serverVars
<1> QED BY <1>2, <1>3, <1>4, <1>5, ClientTurns DEF Next

\* All together.
SystemInv ==
  /\ TypeOK
  /\ XidsInv /\ SearchInv /\ OrderInv /\ ReleaseInv
  /\ AckInv /\ HeldInv
  /\ Distinct(leases)
  /\ restarted => "restart" \in Operations

\* SystemInv is inductive.
LEMMA SystemInvariant ==
  ASSUME ~SameSecond, NoTakeOver
  PROVE  Spec => []SystemInv
<1>1. Init /\ TypeOK => SystemInv
  <2> SUFFICES ASSUME Init, TypeOK PROVE SystemInv
    OBVIOUS
  <2>1. \A c \in Mac : /\ client[c].xid = 0 /\ client[c].pc = "menu"
                       /\ client[c].addr = INADDR_ANY
    BY InitUnderway DEF NewClient
  <2>2. /\ Underway = {} /\ Range(toServer) = {} /\ DOMAIN toServer = {}
        /\ now = 0 /\ leases = <<>> /\ restarted = FALSE
    BY InitUnderway
  <2>3. XidsInv /\ OrderInv /\ ReleaseInv
    BY <2>1, <2>2 DEF XidsInv, OrderInv, ReleaseInv
  <2>4. SearchInv /\ AckInv
    BY <2>1 DEF SearchInv, AckInv, Searching
  <2>5. HeldInv
    BY <2>1 DEF HeldInv, Holds
  <2>6. Distinct(leases)
    BY <2>2 DEF Distinct
  <2> QED BY <2>2, <2>3, <2>4, <2>5, <2>6 DEF SystemInv
<1>2. SystemInv /\ TypeOK' /\ [Next]_vars => SystemInv'
  <2> SUFFICES ASSUME SystemInv, TypeOK', [Next]_vars PROVE SystemInv'
    OBVIOUS
  <2>1. XidsInv' /\ SearchInv' /\ OrderInv' /\ ReleaseInv'
    BY XidsStep, SearchStep, OrderStep, ReleaseStep DEF SystemInv
  <2>2. AckInv' /\ HeldInv'
    BY AckStep, HeldStep DEF SystemInv
  <2>3. Distinct(leases)'
    BY DistinctStep DEF SystemInv
  <2>4. restarted' => "restart" \in Operations
    <3>1. ASSUME NEW c \in Mac, NEW t, Turn(c, t)
          PROVE  restarted' = restarted
      BY <3>1, TurnEffect DEF SystemInv
    <3>2. restarted' = restarted \/ "restart" \in Operations
      BY <3>1, ClientTurns
      DEF Next, ServerStep, Restart, Tick, vars, SystemInv
    <3> QED BY <3>2 DEF SystemInv
  <2> QED BY <2>1, <2>2, <2>3, <2>4 DEF SystemInv
<1> QED BY <1>1, <1>2, TypeCorrect, PTL DEF Spec

\* What a client holds the server has a lease of, whatever is lost, delayed or
\* repeated and whoever ends and starts again, until the server is restarted:
\* if leases do not run out, or if there is one client.
THEOREM HeldAddressesAreRecorded ==
  ASSUME ~SameSecond, NoTakeOver
  PROVE  Spec => []HeldIsRecorded
<1>1. SystemInv => HeldIsRecorded
  BY DEF SystemInv, HeldInv, Backed, HeldIsRecorded
<1> QED BY <1>1, SystemInvariant, PTL

\* No two clients hold one address, as long as the server keeps its list and
\* no lease runs out: the list has one node for an address, and the node has
\* one client.
THEOREM AddressesAreHeldOnce ==
  ASSUME ~SameSecond, NoTakeOver, "restart" \notin Operations
  PROVE  Spec => []NoAddressHeldTwice
<1>1. SystemInv => NoAddressHeldTwice
  <2> SUFFICES ASSUME SystemInv, NEW a \in Addr, NEW c \in Mac, NEW d \in Mac,
                      Holds(c, a), Holds(d, a)
               PROVE  c = d
    BY DEF NoAddressHeldTwice
  <2>1. Recorded(c, a) /\ Recorded(d, a) /\ Distinct(leases)
    BY DEF SystemInv, HeldInv, Backed
  <2> QED BY <2>1 DEF Recorded, Distinct
<1> QED BY <1>1, SystemInvariant, PTL

\* A client that holds an address is never refused its renewal.
THEOREM RenewalsAreNotRefused ==
  ASSUME ~SameSecond, NoTakeOver, "restart" \notin Operations \/ OneClient
  PROVE  Spec => HolderNotRefused
<1>1. SystemInv /\ [Next]_vars => [~RenewalRefused]_vars
  <2> SUFFICES ASSUME SystemInv, Next, RenewalRefused PROVE FALSE
    OBVIOUS
  <2>1. /\ sent' # sent /\ sent'.type = "NAK"
        /\ recv'.ciaddr # INADDR_ANY /\ Holds(recv'.chaddr, recv'.ciaddr)
    BY DEF RenewalRefused
  <2>2. TypeOK
    BY DEF SystemInv
  <2>3. CASE ServerStep
    <3> DEFINE m == Head(toServer)
    <3>1. m \in Packets /\ recv' = m /\ AnswerServed(m)
      BY <2>2, <2>3, ServerStepProperties
    <3> HIDE DEF m
    <3>2. /\ ~check_ipaddr(m.ciaddr, m.chaddr)
          /\ m.ciaddr \in Addr /\ m.chaddr \in Mac
      BY <2>1, <3>1, PacketFields DEF AnswerServed
    <3>3. Backed(m.chaddr, m.ciaddr)
      BY <2>1, <3>1, <3>2 DEF SystemInv, HeldInv
    <3>4. PICK i \in DOMAIN leases :
            leases[i].addr = m.ciaddr /\ leases[i].chaddr # m.chaddr
      BY <3>2, <3>3 DEF Backed, check_ipaddr, FirstWithAddr
    <3>5. CASE OneClient
      <4>1. leases[i] \in Lease
        BY <2>2, ServerOperations, LenProperties DEF TypeOK, Server!TypeOK
      <4> QED BY <3>2, <3>4, <3>5, <4>1 DEF OneClient, Lease
    <3>6. CASE "restart" \notin Operations
      <4>1. Recorded(m.chaddr, m.ciaddr) /\ Distinct(leases)
        BY <3>3, <3>6 DEF Backed, SystemInv
      <4> QED BY <3>4, <4>1 DEF Recorded, Distinct
    <3> QED BY <3>5, <3>6
  <2>4. CASE Restart
    BY <2>1, <2>4 DEF Restart, Server!NoDatagram
  <2>5. CASE Tick
    BY <2>1, <2>5 DEF Tick, serverVars
  <2>6. ASSUME NEW c \in Mac, NEW t, Turn(c, t)
        PROVE  FALSE
    BY <2>1, <2>6 DEF Turn, serverVars
  <2> QED BY <2>2, <2>3, <2>4, <2>5, <2>6, ClientTurns DEF Next
<1> QED BY <1>1, SystemInvariant, PTL DEF Spec, HolderNotRefused
=============================================================================
