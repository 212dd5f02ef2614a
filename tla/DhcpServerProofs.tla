-------------------------- MODULE DhcpServerProofs --------------------------
(***************************************************************************)
(* Proofs about DhcpServer, for every pool, every set of clients and every *)
(* set of packets its assumptions allow.                                   *)
(***************************************************************************)
EXTENDS DhcpServer, LeaseListProofs

-----------------------------------------------------------------------------
(* What a packet does to the list. *)

\* All that serving packet m can do to the list.
ListEffect(m) ==
  \/ UNCHANGED <<leases, num_of_lease>>
  \/ \E i \in DOMAIN leases : Touch(i) /\ UNCHANGED num_of_lease
  \/ \E ip \in Addr :
       /\ ip \in Pool \/ (m.type = "INFORM" /\ m.ciaddr = INADDR_ANY)
       /\ Appended(ip, m.chaddr)
  \/ \E i \in DOMAIN leases :
       m.type = "RELEASE" /\ Removed(m.ciaddr, m.chaddr, i)

\* The fields of a packet that reaches the server.
LEMMA PacketFields ==
  ASSUME NEW m \in Packets
  PROVE  /\ m.type \in RequestType
         /\ m.xid \in Xid
         /\ m.ciaddr \in Addr
         /\ m.chaddr \in Mac
         /\ m.requested \in Addr \cup {NoOption}
         /\ m.server_id \in Addr \cup {NoOption}
BY PacketAssumption DEF Packet

\* construct_dhcp_packet records a lease only in an ACK, for option 50 if the
\* packet has one and else for whatever address it reads in its place.
LEMMA ConstructEffect ==
  ASSUME NEW m \in Packets, NEW state, NEW dst,
         construct_dhcp_packet(m, state, dst)
  PROVE  \/ UNCHANGED <<leases, num_of_lease>>
         \/ \E i \in DOMAIN leases : Touch(i) /\ UNCHANGED num_of_lease
         \/ /\ state = "ACK"
            /\ m.ciaddr = INADDR_ANY
            /\ \E ip \in Addr :
                 /\ m.requested # NoOption => ip = m.requested
                 /\ Appended(ip, m.chaddr)
<1>1. CASE state = "OFFER" /\ Offer(m, dst)
  BY <1>1, AllocateEffect DEF Offer
<1>2. CASE AckOwn(m, dst)
  BY <1>2, AllocateEffect DEF AckOwn
<1>3. ASSUME NEW ip \in Addr, add_lease(ip, m.chaddr)
      PROVE  \/ \E i \in DOMAIN leases : Touch(i) /\ UNCHANGED num_of_lease
             \/ Appended(ip, m.chaddr)
  BY <1>3 DEF add_lease, Appended
<1>4. CASE state = "ACK" /\ m.ciaddr = INADDR_ANY /\ AckRequested(m, dst)
  BY <1>3, <1>4, PacketFields DEF AckRequested
<1>5. CASE state = "ACK" /\ m.ciaddr = INADDR_ANY /\ AckUnset(m, dst)
  BY <1>3, <1>5, UnwrittenAssumption DEF AckUnset
<1> QED BY <1>1, <1>2, <1>4, <1>5 DEF construct_dhcp_packet

\* Serving one packet changes the list by at most one node, and only as
\* ListEffect says.
LEMMA ReceiveEffect ==
  ASSUME NEW m \in Packets, Receive(m)
  PROVE  ListEffect(m)
<1>1. CASE dhcp_handle_discover(m)
  BY <1>1, ConstructEffect DEF dhcp_handle_discover, ListEffect
<1>2. CASE dhcp_handle_request(m)
  <2>1. ASSUME m.ciaddr = INADDR_ANY, NEW ip \in Addr,
               m.server_id = DHCP_SERVER_IP_ADDRESS,
               m.requested # NoOption => ip = m.requested,
               Appended(ip, m.chaddr),
               AckOrNak(check_ipaddr(RequestedAddress(m), m.chaddr)) = "ACK"
        PROVE  ListEffect(m)
    <3>1. RequestedAddress(m) \in Pool
      BY <2>1 DEF AckOrNak, check_ipaddr
    <3>2. ip \in Pool
      BY <3>1, <2>1, PoolFacts DEF RequestedAddress
    <3> QED BY <3>2, <2>1, PoolFacts DEF ListEffect
  <2>2. CASE Ignore
    BY <2>2 DEF Ignore, ListEffect
  <2>3. CASE /\ m.server_id = DHCP_SERVER_IP_ADDRESS
             /\ m.ciaddr = INADDR_ANY
             /\ construct_dhcp_packet(m,
                  AckOrNak(check_ipaddr(RequestedAddress(m), m.chaddr)),
                  AnswerTo(m))
    BY <2>1, <2>3, ConstructEffect DEF ListEffect
  <2>4. CASE /\ m.ciaddr # INADDR_ANY
             /\ construct_dhcp_packet(m,
                  AckOrNak(check_ipaddr(m.ciaddr, m.chaddr)), m.ciaddr)
    BY <2>4, ConstructEffect DEF ListEffect
  <2> QED BY <1>2, <2>2, <2>3, <2>4 DEF dhcp_handle_request
<1>3. CASE dhcp_handle_release(m)
  BY <1>3 DEF dhcp_handle_release, delete_lease, ListEffect, Removed
<1>4. CASE dhcp_handle_inform(m)
  BY <1>4, ConstructEffect, PacketFields DEF dhcp_handle_inform, ListEffect
<1>5. CASE Ignore
  BY <1>5 DEF Ignore, ListEffect
<1> QED BY <1>1, <1>2, <1>3, <1>4, <1>5 DEF Receive

-----------------------------------------------------------------------------
(* The datagrams. *)

\* A reply built from a well-formed request is well formed.
LEMMA ReplyTyped ==
  ASSUME NEW m \in Packets, NEW state \in ReplyType, NEW yiaddr \in Addr,
         NEW dst \in Addr \cup {INADDR_BROADCAST},
         SendReply(m, state, yiaddr, dst)
  PROVE  sent' \in Datagram
<1>0. PICK msg_type \in MsgTypesRead(m, state) :
        sent' = [type |-> state, xid |-> m.xid, ciaddr |-> m.ciaddr,
                 yiaddr |-> yiaddr, chaddr |-> m.chaddr,
                 lease_options |-> state # "NAK" /\ msg_type # "INFORM",
                 dst |-> dst]
  BY DEF SendReply
<1> DEFINE opts == state # "NAK" /\ msg_type # "INFORM"
<1>1. opts \in BOOLEAN
  BY Zenon
<1>2. sent' = [type |-> state, xid |-> m.xid, ciaddr |-> m.ciaddr,
               yiaddr |-> yiaddr, chaddr |-> m.chaddr,
               lease_options |-> opts, dst |-> dst]
  BY <1>0
<1> HIDE DEF opts
<1>3. sent' \in Reply
  BY <1>1, <1>2, PacketFields DEF Reply
<1> QED BY <1>3 DEF Datagram

\* construct_dhcp_packet leaves a well-formed reply or an empty datagram, or
\* ends the process.
LEMMA ConstructTyped ==
  ASSUME NEW m \in Packets, NEW state \in ReplyType,
         NEW dst \in Addr \cup {INADDR_BROADCAST},
         construct_dhcp_packet(m, state, dst)
  PROVE  sent' \in Datagram
<1>1. CASE \E yiaddr \in Addr : SendReply(m, state, yiaddr, dst)
  BY <1>1, ReplyTyped
<1>2. CASE sent' = EmptyDatagram(dst)
  BY <1>2 DEF Datagram
<1>3. CASE sent' = Segfault
  BY <1>3 DEF Datagram
<1>4. CASE state = "OFFER" /\ Offer(m, dst)
  BY <1>1, <1>2, <1>4, PacketFields DEF Offer, Requested
<1>5. CASE state = "ACK" /\ (AckRequested(m, dst) \/ AckUnset(m, dst))
  BY <1>1, <1>3, <1>5, PacketFields, UnwrittenAssumption
  DEF AckRequested, AckUnset
<1>6. CASE state = "ACK" /\ AckOwn(m, dst)
  BY <1>1, <1>6 DEF AckOwn
<1> QED BY <1>1, <1>4, <1>5, <1>6, PoolFacts DEF construct_dhcp_packet

\* Whatever packet is served, what the server sends is well formed.
LEMMA ReceiveTyped ==
  ASSUME NEW m \in Packets, Receive(m)
  PROVE  sent' \in Datagram
<1>1. /\ m.ciaddr \in Addr \cup {INADDR_BROADCAST}
      /\ AnswerTo(m) \in Addr \cup {INADDR_BROADCAST}
  BY PacketFields DEF AnswerTo
<1>2. CASE Ignore
  BY <1>2 DEF Ignore, Datagram
<1>3. CASE dhcp_handle_discover(m)
  BY <1>1, <1>3, ConstructTyped DEF dhcp_handle_discover, ReplyType
<1>4. CASE dhcp_handle_request(m)
  <2>1. CASE /\ m.server_id = DHCP_SERVER_IP_ADDRESS
             /\ construct_dhcp_packet(m,
                  AckOrNak(check_ipaddr(RequestedAddress(m), m.chaddr)),
                  AnswerTo(m))
    <3> DEFINE state == AckOrNak(check_ipaddr(RequestedAddress(m), m.chaddr))
    <3>1. state \in ReplyType
      BY DEF AckOrNak, ReplyType
    <3> HIDE DEF state
    <3> QED BY <1>1, <2>1, <3>1, ConstructTyped DEF state
  <2>2. CASE /\ m.ciaddr # INADDR_ANY
             /\ construct_dhcp_packet(m,
                  AckOrNak(check_ipaddr(m.ciaddr, m.chaddr)), m.ciaddr)
    BY <1>1, <2>2, ConstructTyped DEF AckOrNak, ReplyType
  <2> QED BY <1>2, <1>4, <2>1, <2>2 DEF dhcp_handle_request
<1>5. CASE dhcp_handle_release(m)
  BY <1>5 DEF dhcp_handle_release, Datagram
<1>6. CASE dhcp_handle_inform(m)
  BY <1>1, <1>6, PacketFields, ConstructTyped
  DEF dhcp_handle_inform, ReplyType
<1> QED BY <1>2, <1>3, <1>4, <1>5, <1>6 DEF Receive

-----------------------------------------------------------------------------
(* The invariants. *)

\* Serving a packet keeps the list a list of leases.
LEMMA EffectTyped ==
  ASSUME ListType, NEW m \in Packets, ListEffect(m)
  PROVE  leases' \in Seq(Lease) /\ num_of_lease' \in Int
<1>1. Changed(m.chaddr)
  BY PacketFields DEF ListEffect, Changed
<1> QED BY <1>1, ChangeTyped, PacketFields

\* Every reachable state is well typed, whatever option 50 a packet has or
\* lacks: also where the code reads an address it has not written.
THEOREM TypeCorrect == Spec => []TypeOK
<1>1. Init => TypeOK
  <2> SUFFICES ASSUME Init PROVE TypeOK
    OBVIOUS
  <2>1. leases \in Seq(Lease)
    BY EmptySeq DEF Init, dhcp_setup
  <2> QED BY <2>1 DEF Init, dhcp_setup, TypeOK, Datagram
<1>2. TypeOK /\ [Next]_vars => TypeOK'
  <2> SUFFICES ASSUME TypeOK, [Next]_vars PROVE TypeOK'
    OBVIOUS
  <2>1. ASSUME NEW m \in Packets, Receive(m)
        PROVE  TypeOK'
    <3>1. ListType
      BY DEF TypeOK, ListType
    <3>2. leases' \in Seq(Lease) /\ num_of_lease' \in Int
      BY <2>1, <3>1, ReceiveEffect, EffectTyped
    <3>3. sent' \in Datagram
      BY <2>1, ReceiveTyped
    <3>4. recv' = m /\ now' = now
      BY <2>1 DEF Receive
    <3> QED BY <3>2, <3>3, <3>4 DEF TypeOK
  <2>2. CASE Tick
    BY <2>2 DEF Tick, TypeOK
  <2>3. CASE UNCHANGED vars
    BY <2>3 DEF vars, TypeOK
  <2> QED BY <2>1, <2>2, <2>3 DEF Next, Ended
<1> QED BY <1>1, <1>2, PTL DEF Spec

\* Serving a packet keeps the counter, the addresses and the time stamps
\* consistent.
LEMMA EffectConsistent ==
  ASSUME ListType, ListConsistent, NEW m \in Packets, ListEffect(m),
         now' = now
  PROVE  ListConsistent'
<1> USE DEF ListConsistent, CountIsLength, AddressesDistinct, StampsArePast
<1>1. /\ DOMAIN leases = 1 .. Len(leases)
      /\ Len(leases) \in Nat
      /\ \A i \in DOMAIN leases : leases[i] \in Lease
  BY LenProperties DEF ListType
<1>2. now \in Nat
  BY DEF ListType
<1>3. CASE UNCHANGED <<leases, num_of_lease>>
  BY <1>3
<1>4. CASE \E i \in DOMAIN leases : Touch(i) /\ UNCHANGED num_of_lease
  <2>1. PICK i \in DOMAIN leases : Touch(i) /\ UNCHANGED num_of_lease
    BY <1>4
  <2>2. /\ Len(leases') = Len(leases)
        /\ DOMAIN leases' = DOMAIN leases
        /\ \A j \in DOMAIN leases :
             /\ leases'[j].addr = leases[j].addr
             /\ leases'[j].chaddr = leases[j].chaddr
             /\ leases'[j].time_stamp =
                  IF j = i THEN now ELSE leases[j].time_stamp
    BY <2>1, TouchProperties, Zenon
  <2> QED BY <1>2, <2>1, <2>2
<1>5. ASSUME NEW ip \in Addr, Appended(ip, m.chaddr)
      PROVE  ListConsistent'
  <2>1. /\ Len(leases') = Len(leases) + 1
        /\ DOMAIN leases' = 1 .. (Len(leases) + 1)
        /\ \A k \in DOMAIN leases : leases'[k] = leases[k]
        /\ leases'[Len(leases) + 1] =
             [time_stamp |-> now, addr |-> ip, chaddr |-> m.chaddr]
    BY <1>5, AppendedProperties, PacketFields, Zenon
  <2>2. \A j \in DOMAIN leases : leases[j].addr # ip
    BY <1>5 DEF Appended, Leased
  <2>3. \A j \in DOMAIN leases' : j \in DOMAIN leases \/ j = Len(leases) + 1
    BY <1>1, <2>1
  <2>4. CountIsLength'
    BY <1>5, <2>1 DEF Appended
  <2>5. AddressesDistinct'
    BY <2>1, <2>2, <2>3
  <2>6. StampsArePast'
    BY <1>2, <2>1, <2>3
  <2> QED BY <2>4, <2>5, <2>6
<1>6. ASSUME NEW i \in DOMAIN leases, Removed(m.ciaddr, m.chaddr, i)
      PROVE  ListConsistent'
  <2> DEFINE old(j) == IF j < i THEN j ELSE j + 1
  <2>1. /\ Len(leases') = Len(leases) - 1
        /\ DOMAIN leases' = 1 .. (Len(leases) - 1)
        /\ \A j \in DOMAIN leases' :
             leases'[j] = IF j < i THEN leases[j] ELSE leases[j + 1]
    BY <1>6, RemovedProperties, Zenon
  <2>2. \A j \in DOMAIN leases' :
          old(j) \in DOMAIN leases /\ leases'[j] = leases[old(j)]
    BY <1>1, <1>6, <2>1
  <2>3. \A j, k \in DOMAIN leases' : old(j) = old(k) => j = k
    BY <1>1, <1>6, <2>1
  <2>4. CountIsLength'
    BY <1>6, <2>1 DEF Removed
  <2> HIDE DEF old
  <2> QED BY <2>2, <2>3, <2>4
<1> QED BY <1>3, <1>4, <1>5, <1>6 DEF ListEffect

\* The counter and the list agree, no address has two nodes, and no lease
\* begins in the future.
THEOREM ListIsConsistent == Spec => []ListConsistent
<1> USE DEF ListConsistent, CountIsLength, AddressesDistinct, StampsArePast
<1>1. Init => ListConsistent
  BY EmptySeq, LenProperties DEF Init, dhcp_setup
<1>2. TypeOK /\ ListConsistent /\ [Next]_vars => ListConsistent'
  <2> SUFFICES ASSUME TypeOK, ListConsistent, [Next]_vars
               PROVE  ListConsistent'
    OBVIOUS
  <2>1. ListType
    BY DEF TypeOK, ListType
  <2>2. ASSUME NEW m \in Packets, Receive(m)
        PROVE  ListConsistent'
    BY <2>1, <2>2, ReceiveEffect, EffectConsistent DEF Receive
  <2>3. CASE Tick
    <3>0. leases \in [DOMAIN leases -> Lease]
      BY <2>1, LenProperties DEF ListType
    <3>1. \A i \in DOMAIN leases : leases[i].time_stamp \in Nat
      BY <3>0 DEF Lease
    <3> QED BY <2>1, <2>3, <3>1 DEF Tick, ListType
  <2>4. CASE UNCHANGED vars
    BY <2>4 DEF vars
  <2> QED BY <2>2, <2>3, <2>4 DEF Next, Ended
<1> QED BY <1>1, <1>2, TypeCorrect, PTL DEF Spec

\* allocate_ip never enters the loop at label outer without a free address to
\* draw, for every pool size: the list would have to cover the pool with fewer
\* nodes than the pool has addresses.
THEOREM AllocationAlwaysTerminates == Spec => []AllocationTerminates
<1>1. TypeOK /\ ListConsistent => AllocationTerminates
  <2> SUFFICES ASSUME TypeOK, ListConsistent,
                      num_of_lease <= IP_ADDRESS_POOL_AMOUNT - 1,
                      Pool \subseteq Leased
               PROVE  FALSE
    BY DEF AllocationTerminates
  <2>1. ListType
    BY DEF TypeOK, ListType
  <2>2. IsFiniteSet(Leased) /\ Cardinality(Leased) <= Len(leases)
    BY <2>1, LeasedSize
  <2>3. Cardinality(Pool) = IP_ADDRESS_POOL_AMOUNT
    BY FS_Interval, AddressAssumption DEF Pool
  <2>4. Cardinality(Pool) <= Cardinality(Leased)
    BY <2>2, FS_Subset
  <2>5. Cardinality(Leased) \in Nat
    BY <2>2, FS_CardinalityType
  <2>6. Len(leases) \in Nat
    BY <2>1, LenProperties DEF ListType
  <2> QED BY <2>2, <2>3, <2>4, <2>5, <2>6, AddressAssumption
          DEF ListConsistent, CountIsLength
<1> QED BY <1>1, TypeCorrect, ListIsConsistent, PTL

-----------------------------------------------------------------------------
(* What a step may never do. *)

\* No step but a RELEASE of its own holder loses a lease or turns its time
\* stamp back.
THEOREM LeasesAreKept == Spec => LeaseLostOnlyByRelease
<1>1. TypeOK /\ ListConsistent /\ [Next]_vars
        => [\A i \in DOMAIN leases : KeptOrReleased(i)]_vars
  <2> SUFFICES ASSUME TypeOK, ListConsistent, Next,
                      NEW i \in DOMAIN leases
               PROVE  KeptOrReleased(i)
    OBVIOUS
  <2>1. ListType
    BY DEF TypeOK, ListType
  <2>2. /\ DOMAIN leases = 1 .. Len(leases)
        /\ Len(leases) \in Nat
        /\ leases[i] \in Lease
    BY <2>1, LenProperties DEF ListType
  <2>3. leases[i].time_stamp \in Nat /\ leases[i].time_stamp <= now
    BY <2>2 DEF Lease, ListConsistent, StampsArePast
  <2>4. CASE UNCHANGED leases
    BY <2>3, <2>4 DEF KeptOrReleased
  <2>5. ASSUME NEW m \in Packets, Receive(m)
        PROVE  KeptOrReleased(i)
    <3>1. CASE \E k \in DOMAIN leases : Touch(k)
      <4>1. PICK k \in DOMAIN leases : Touch(k)
        BY <3>1
      <4>2. /\ i \in DOMAIN leases'
            /\ leases'[i].addr = leases[i].addr
            /\ leases'[i].chaddr = leases[i].chaddr
            /\ leases'[i].time_stamp =
                 IF i = k THEN now ELSE leases[i].time_stamp
        BY <2>1, <4>1, TouchProperties, Zenon
      <4>3. leases'[i].time_stamp >= leases[i].time_stamp
        BY <2>1, <2>3, <4>2 DEF ListType
      <4> QED BY <4>2, <4>3 DEF KeptOrReleased
    <3>2. CASE \E ip \in Addr : Appended(ip, m.chaddr)
      <4>1. /\ DOMAIN leases' = 1 .. (Len(leases) + 1)
            /\ leases'[i] = leases[i]
        BY <2>1, <3>2, AppendedProperties, PacketFields, Zenon
      <4>2. i \in DOMAIN leases'
        BY <2>2, <4>1
      <4> QED BY <2>3, <4>1, <4>2 DEF KeptOrReleased
    <3>3. ASSUME NEW k \in DOMAIN leases, m.type = "RELEASE",
                 Removed(m.ciaddr, m.chaddr, k)
          PROVE  KeptOrReleased(i)
      <4>1. /\ DOMAIN leases' = 1 .. (Len(leases) - 1)
            /\ \A j \in DOMAIN leases' :
                 leases'[j] = IF j < k THEN leases[j] ELSE leases[j + 1]
        BY <2>1, <3>3, RemovedProperties, Zenon
      <4>2. CASE i = k
        BY <2>5, <3>3, <4>2 DEF Removed, Receive, KeptOrReleased
      <4>3. CASE i < k
        <5>1. i \in DOMAIN leases' /\ leases'[i] = leases[i]
          BY <2>2, <3>3, <4>1, <4>3
        <5> QED BY <2>3, <5>1 DEF KeptOrReleased
      <4>4. CASE i > k
        <5>1. i - 1 \in DOMAIN leases' /\ leases'[i - 1] = leases[i]
          BY <2>2, <3>3, <4>1, <4>4
        <5> QED BY <2>3, <5>1 DEF KeptOrReleased
      <4> QED BY <2>2, <4>2, <4>3, <4>4
    <3> QED BY <2>4, <2>5, <3>1, <3>2, <3>3, ReceiveEffect DEF ListEffect
  <2>6. CASE Tick \/ Ended
    BY <2>4, <2>6 DEF Tick, Ended, vars
  <2> QED BY <2>5, <2>6 DEF Next
<1> QED BY <1>1, TypeCorrect, ListIsConsistent, PTL
        DEF Spec, LeaseLostOnlyByRelease

\* Only an INFORM makes a lease on an address outside the pool.
THEOREM PoolIsKept == Spec => LeaseOutsidePoolOnlyByInform
<1>1. TypeOK /\ [Next]_vars
        => [\A a \in Leased' \ Leased : a \in Pool \/ RecordedByInform]_vars
  <2> SUFFICES ASSUME TypeOK, Next, NEW a \in Leased' \ Leased
               PROVE  a \in Pool \/ RecordedByInform
    OBVIOUS
  <2>1. ListType
    BY DEF TypeOK, ListType
  <2>2. DOMAIN leases = 1 .. Len(leases) /\ Len(leases) \in Nat
    BY <2>1, LenProperties DEF ListType
  <2>3. ~ UNCHANGED leases
    BY DEF Leased
  <2>4. PICK j \in DOMAIN leases' : leases'[j].addr = a
    BY DEF Leased
  <2>5. \A k \in DOMAIN leases : leases[k].addr # a
    BY DEF Leased
  <2>6. PICK m \in Packets : Receive(m)
    BY <2>3 DEF Next, Tick, Ended, vars
  <2>7. CASE \E k \in DOMAIN leases : Touch(k)
    BY <2>1, <2>4, <2>5, <2>7, TouchProperties
  <2>8. ASSUME NEW ip \in Addr, Appended(ip, m.chaddr)
        PROVE  a = ip
    <3>1. /\ DOMAIN leases' = 1 .. (Len(leases) + 1)
          /\ \A k \in DOMAIN leases : leases'[k] = leases[k]
          /\ leases'[Len(leases) + 1] =
               [time_stamp |-> now, addr |-> ip, chaddr |-> m.chaddr]
      BY <2>1, <2>8, AppendedProperties, PacketFields, Zenon
    <3>2. j \in DOMAIN leases \/ j = Len(leases) + 1
      BY <2>2, <3>1
    <3> QED BY <2>4, <2>5, <3>1, <3>2
  <2>9. ASSUME NEW k \in DOMAIN leases, Removed(m.ciaddr, m.chaddr, k)
        PROVE  FALSE
    <3>1. /\ DOMAIN leases' = 1 .. (Len(leases) - 1)
          /\ leases'[j] = IF j < k THEN leases[j] ELSE leases[j + 1]
      BY <2>1, <2>4, <2>9, RemovedProperties, Zenon
    <3>2. j \in DOMAIN leases /\ j + 1 \in DOMAIN leases
      BY <2>2, <2>4, <3>1
    <3> QED BY <2>4, <2>5, <3>1, <3>2
  <2>10. m = recv'
    BY <2>6 DEF Receive
  <2> QED BY <2>3, <2>6, <2>7, <2>8, <2>9, <2>10, ReceiveEffect
          DEF ListEffect, RecordedByInform
<1> QED BY <1>1, TypeCorrect, PTL DEF Spec, LeaseOutsidePoolOnlyByInform

\* What check_ipaddr accepts nobody else holds: with distinct addresses, the
\* first node with an address is the only one.
LEMMA CheckedIsFree ==
  ASSUME ListType, AddressesDistinct, NEW ip, NEW mac, check_ipaddr(ip, mac)
  PROVE  ~HeldByOther(ip, mac)
<1> SUFFICES ASSUME NEW i \in DOMAIN leases,
                    leases[i].addr = ip, leases[i].chaddr # mac, ~Expired(i)
             PROVE  FALSE
  BY DEF HeldByOther
<1>1. \A j \in 1 .. (i - 1) : j \in DOMAIN leases /\ j # i
  BY LenProperties DEF ListType
<1>2. FirstWithAddr(i, ip)
  BY <1>1 DEF FirstWithAddr, AddressesDistinct
<1> QED BY <1>2 DEF check_ipaddr

\* What allocate_ip returns nobody else holds.
LEMMA AllocatedIsFree ==
  ASSUME AddressesDistinct, NEW ip, NEW mac, allocate_ip(mac, 0, ip)
  PROVE  ~HeldByOther(ip, mac)
BY DEF allocate_ip, HeldByOther, Leased, FirstWithMac, AddressesDistinct

\* The fields of a reply.
LEMMA ReplyFields ==
  ASSUME NEW m, NEW state, NEW yiaddr, NEW dst,
         SendReply(m, state, yiaddr, dst)
  PROVE  /\ sent'.type = state
         /\ sent'.ciaddr = m.ciaddr
         /\ sent'.yiaddr = yiaddr
         /\ sent'.chaddr = m.chaddr
BY DEF SendReply

\* An OFFER or an ACK grants a free address, if an ACK was checked first.
LEMMA ConstructIsFree ==
  ASSUME ListType, AddressesDistinct, NEW m \in Packets, NEW state, NEW dst,
         construct_dhcp_packet(m, state, dst),
         sent'.type \in {"OFFER", "ACK"},
         state = "ACK" =>
           check_ipaddr(IF m.ciaddr = INADDR_ANY THEN m.requested
                                                 ELSE m.ciaddr, m.chaddr)
  PROVE  ~HeldByOther(Granted(sent'), sent'.chaddr)
<1>1. CASE /\ state = "NAK"
           /\ SendReply(m, state, INADDR_ANY, dst)
  BY <1>1, ReplyFields
<1>2. CASE /\ state = "OFFER"
           /\ Requested(m)
           /\ SendReply(m, state, m.requested, dst)
  BY <1>2, ReplyFields, CheckedIsFree DEF Granted, Requested
<1>3. CASE /\ state = "OFFER"
           /\ \E ip \in Addr : /\ allocate_ip(m.chaddr, 0, ip)
                               /\ SendReply(m, state, ip, dst)
  <2>1. PICK ip \in Addr : /\ allocate_ip(m.chaddr, 0, ip)
                           /\ SendReply(m, state, ip, dst)
    BY <1>3
  <2>2. Granted(sent') = ip /\ sent'.chaddr = m.chaddr
    BY <1>3, <2>1, ReplyFields DEF Granted
  <2> QED BY <2>1, <2>2, AllocatedIsFree
<1>4. CASE sent' = EmptyDatagram(dst)
  BY <1>4 DEF EmptyDatagram
<1>5. CASE /\ state = "ACK"
           /\ m.ciaddr = INADDR_ANY
           /\ SendReply(m, state, m.requested, dst)
  BY <1>5, ReplyFields, CheckedIsFree DEF Granted
<1>6. CASE /\ state = "ACK"
           /\ m.ciaddr # INADDR_ANY
           /\ \E ip \in Addr : SendReply(m, state, ip, dst)
  <2>1. Granted(sent') = m.ciaddr /\ sent'.chaddr = m.chaddr
    BY <1>6, ReplyFields DEF Granted
  <2> QED BY <1>6, <2>1, CheckedIsFree
<1>7. CASE AckUnset(m, dst) /\ state = "ACK" /\ m.ciaddr = INADDR_ANY
  BY <1>7, PoolFacts DEF AckUnset, check_ipaddr
<1>8. CASE state = "OFFER" /\ Offer(m, dst)
  BY <1>2, <1>3, <1>4, <1>8 DEF Offer
<1>9. CASE state = "ACK" /\ m.ciaddr # INADDR_ANY /\ AckOwn(m, dst)
  BY <1>6, <1>9 DEF AckOwn
<1>10. CASE state = "ACK" /\ m.ciaddr = INADDR_ANY /\ AckRequested(m, dst)
  BY <1>5, <1>10 DEF AckRequested
<1> QED BY <1>1, <1>7, <1>8, <1>9, <1>10 DEF construct_dhcp_packet

\* The server never grants an address another client has a running lease on,
\* for any number of clients and any pool.
THEOREM GrantsAreFree == Spec => GrantRespectsLeases
<1>1. TypeOK /\ ListConsistent /\ [Next]_vars => [GrantIsFree]_vars
  <2> SUFFICES ASSUME TypeOK, ListConsistent, Next, ~ UNCHANGED vars,
                      recv' \in Packets, now' = now, recv'.type # "INFORM",
                      sent'.type \in {"OFFER", "ACK"}
               PROVE  ~HeldByOther(Granted(sent'), sent'.chaddr)
    BY DEF GrantIsFree
  <2>1. ListType /\ AddressesDistinct
    BY DEF TypeOK, ListType, ListConsistent
  <2>2. ~ Tick
    BY <2>1 DEF Tick, ListType
  <2>3. PICK m \in Packets : Receive(m)
    BY <2>2 DEF Next, Ended
  <2>4. m.type # "INFORM"
    BY <2>3 DEF Receive
  <2>5. CASE dhcp_handle_discover(m)
    BY <2>1, <2>5, ConstructIsFree DEF dhcp_handle_discover
  <2>6. CASE dhcp_handle_request(m)
    <3>1. CASE Ignore
      BY <3>1 DEF Ignore, NoDatagram
    <3>2. CASE /\ m.server_id = DHCP_SERVER_IP_ADDRESS
               /\ m.ciaddr = INADDR_ANY
               /\ construct_dhcp_packet(m,
                    AckOrNak(check_ipaddr(RequestedAddress(m), m.chaddr)),
                    AnswerTo(m))
      <4> DEFINE ok == check_ipaddr(RequestedAddress(m), m.chaddr)
      <4>1. AckOrNak(ok) = "ACK" => ok
        BY DEF AckOrNak
      <4>2. ok => RequestedAddress(m) = m.requested
        BY <3>2, PoolFacts DEF check_ipaddr, RequestedAddress
      <4>3. AckOrNak(ok) = "ACK" => check_ipaddr(m.requested, m.chaddr)
        BY <4>1, <4>2
      <4> HIDE DEF ok
      <4> QED BY <2>1, <3>2, <4>3, ConstructIsFree DEF ok
    <3>3. CASE /\ m.ciaddr # INADDR_ANY
               /\ construct_dhcp_packet(m,
                    AckOrNak(check_ipaddr(m.ciaddr, m.chaddr)), m.ciaddr)
      BY <2>1, <3>3, ConstructIsFree DEF AckOrNak
    <3> QED BY <2>6, <3>1, <3>2, <3>3 DEF dhcp_handle_request
  <2>7. CASE dhcp_handle_release(m)
    BY <2>7 DEF dhcp_handle_release, NoDatagram
  <2>8. CASE Ignore
    BY <2>8 DEF Ignore, NoDatagram
  <2> QED BY <2>3, <2>4, <2>5, <2>6, <2>7, <2>8
          DEF Receive, dhcp_handle_inform
<1> QED BY <1>1, TypeCorrect, ListIsConsistent, PTL
        DEF Spec, GrantRespectsLeases

-----------------------------------------------------------------------------
(* What an answer says of the list. *)

\* An ACK to a client without an address has been recorded by add_lease, under
\* the address it carries.
LEMMA AckConstructed ==
  ASSUME NEW m, NEW state, NEW dst, construct_dhcp_packet(m, state, dst),
         m.ciaddr = INADDR_ANY, sent'.type = "ACK"
  PROVE  /\ state = "ACK"
         /\ m.requested # NoOption =>
              /\ add_lease(m.requested, m.chaddr)
              /\ sent'.yiaddr = m.requested /\ sent'.chaddr = m.chaddr
<1>1. CASE state = "NAK" /\ SendReply(m, state, INADDR_ANY, dst)
  BY <1>1, ReplyFields
<1>2. CASE Offer(m, dst)
  <2>1. CASE \E ip : SendReply(m, "OFFER", ip, dst)
    BY <2>1, ReplyFields
  <2>2. CASE sent' = EmptyDatagram(dst)
    BY <2>2 DEF EmptyDatagram
  <2> QED BY <1>2, <2>1, <2>2 DEF Offer
<1>3. CASE state = "ACK" /\ AckRequested(m, dst)
  BY <1>3, ReplyFields DEF AckRequested
<1>4. CASE state = "ACK" /\ AckUnset(m, dst)
  BY <1>4 DEF AckUnset
<1> QED BY <1>1, <1>2, <1>3, <1>4 DEF construct_dhcp_packet

\* What add_lease leaves of the address it is given: a lease of the client, or
\* the node of another client that had the address.
LEMMA AddLeaseRecords ==
  ASSUME ListType, NEW m \in Packets, NEW ip \in Addr, add_lease(ip, m.chaddr)
  PROVE  \/ RecordedFor(leases', ip, m.chaddr)
         \/ \E i \in DOMAIN leases :
              FirstWithAddr(i, ip) /\ leases[i].chaddr # m.chaddr
<1>1. ASSUME NEW i \in DOMAIN leases, FirstWithAddr(i, ip), Touch(i),
             leases[i].chaddr = m.chaddr
      PROVE  RecordedFor(leases', ip, m.chaddr)
  BY <1>1, TouchProperties DEF RecordedFor, FirstWithAddr
<1>2. CASE Appended(ip, m.chaddr)
  <2>1. /\ DOMAIN leases' = 1 .. (Len(leases) + 1)
        /\ leases'[Len(leases) + 1] =
             [time_stamp |-> now, addr |-> ip, chaddr |-> m.chaddr]
    BY <1>2, AppendedProperties, PacketFields, Zenon
  <2>2. Len(leases) + 1 \in DOMAIN leases'
    BY <2>1, LenProperties DEF ListType
  <2> QED BY <2>1, <2>2 DEF RecordedFor
<1> QED BY <1>1, <1>2 DEF add_lease, Appended

\* An address that is acknowledged to a client without one is recorded under
\* its name, unless it was taken over from an expired lease.
THEOREM AcksAreRecorded == Spec => AckRecordedUnlessTakenOver
<1>1. TypeOK /\ [Next]_vars => [AckRecorded]_vars
  <2> SUFFICES ASSUME TypeOK, Next,
                      recv' \in Packets, now' = now, recv'.type = "REQUEST",
                      recv'.ciaddr = INADDR_ANY, sent'.type = "ACK"
               PROVE  \/ RecordedFor(leases', sent'.yiaddr, sent'.chaddr)
                      \/ \E i \in DOMAIN leases :
                           /\ leases[i].addr = sent'.yiaddr
                           /\ leases[i].chaddr # sent'.chaddr /\ Expired(i)
    BY DEF AckRecorded
  <2>1. ListType
    BY DEF TypeOK, ListType
  <2>2. ~ Tick
    BY <2>1 DEF Tick, ListType
  <2>3. PICK m \in Packets : Receive(m)
    BY <2>2 DEF Next, Ended, vars, Segfault
  <2>4. m = recv'
    BY <2>3 DEF Receive
  <2>5. dhcp_handle_request(m)
    BY <2>3, <2>4 DEF Receive, Ignore, NoDatagram, dhcp_handle_discover,
                      dhcp_handle_release, dhcp_handle_inform
  <2> DEFINE ok == check_ipaddr(RequestedAddress(m), m.chaddr)
  <2>6. /\ m.server_id = DHCP_SERVER_IP_ADDRESS
        /\ construct_dhcp_packet(m, AckOrNak(ok), AnswerTo(m))
    BY <2>4, <2>5 DEF dhcp_handle_request, Ignore, NoDatagram
  <2>7. /\ AckOrNak(ok) = "ACK"
        /\ add_lease(m.requested, m.chaddr)
        /\ sent'.yiaddr = m.requested /\ sent'.chaddr = m.chaddr
    <3>1. AckOrNak(ok) = "ACK" => m.requested # NoOption
      BY <2>6, PoolFacts DEF AckOrNak, check_ipaddr, RequestedAddress
    <3> HIDE DEF ok
    <3> QED BY <2>4, <2>6, <3>1, AckConstructed
  <2>8. check_ipaddr(m.requested, m.chaddr) /\ m.requested \in Addr
    BY <2>6, <2>7, PoolFacts DEF AckOrNak, check_ipaddr, RequestedAddress
  <2>9. \A i \in DOMAIN leases :
          FirstWithAddr(i, m.requested) /\ leases[i].chaddr # m.chaddr =>
            leases[i].addr = m.requested /\ Expired(i)
    BY <2>8 DEF check_ipaddr, FirstWithAddr
  <2> QED BY <2>1, <2>7, <2>8, <2>9, AddLeaseRecords
<1> QED BY <1>1, TypeCorrect, PTL DEF Spec, AckRecordedUnlessTakenOver

\* A handler that is not the one of INFORM never uses the pointer to option 50
\* that nothing has set: a REQUEST that lacks the option is refused because
\* option 54, which is looked at in its place, is not an address of the pool.
THEOREM UnsetIsReadByInform == Spec => UnsetReadOnlyByInform
<1>1. TypeOK /\ [Next]_vars
        => [recv' \in Packets /\ now' = now /\ UnsetRead =>
              RecordedByInform /\ recv'.requested = NoOption]_vars
  <2> SUFFICES ASSUME TypeOK, Next, ~ UNCHANGED vars,
                      recv' \in Packets, now' = now, UnsetRead
               PROVE  RecordedByInform /\ recv'.requested = NoOption
    OBVIOUS
  <2>1. ~ Tick
    BY DEF Tick, TypeOK
  <2>2. PICK m \in Packets : Receive(m)
    BY <2>1 DEF Next, Ended
  <2>3. m = recv'
    BY <2>2 DEF Receive
  <2>4. CASE sent' = NoDatagram
    BY <2>4 DEF NoDatagram, Segfault, UnsetRead
  <2>5. ASSUME NEW state, NEW dst, construct_dhcp_packet(m, state, dst)
        PROVE  state = "ACK" /\ m.ciaddr = INADDR_ANY /\ m.requested = NoOption
    <3>1. CASE sent'.type = "ACK" /\ m.ciaddr = INADDR_ANY
      BY <2>3, <2>5, <3>1, AckConstructed DEF UnsetRead, Segfault
    <3>2. CASE sent' = Segfault
      <4>1. sent'.type = "SIGSEGV"
        BY <3>2 DEF Segfault
      <4>2. \A s, ip : s \in ReplyType => ~SendReply(m, s, ip, dst)
        BY <4>1, ReplyFields DEF ReplyType
      <4>3. sent' # EmptyDatagram(dst)
        BY <4>1 DEF EmptyDatagram
      <4>4. ~Offer(m, dst) /\ ~AckOwn(m, dst) /\ ~AckRequested(m, dst)
        BY <4>2, <4>3 DEF Offer, AckOwn, AckRequested, ReplyType
      <4> QED BY <2>5, <4>2, <4>4
              DEF construct_dhcp_packet, AckUnset, ReplyType
    <3> QED BY <2>3, <3>1, <3>2 DEF UnsetRead
  <2>6. CASE dhcp_handle_request(m)
    <3>1. CASE /\ m.server_id = DHCP_SERVER_IP_ADDRESS
               /\ construct_dhcp_packet(m,
                    AckOrNak(check_ipaddr(RequestedAddress(m), m.chaddr)),
                    AnswerTo(m))
      <4> DEFINE ok == check_ipaddr(RequestedAddress(m), m.chaddr)
      <4>1. AckOrNak(ok) = "ACK" => m.requested # NoOption
        BY <3>1, PoolFacts DEF AckOrNak, check_ipaddr, RequestedAddress
      <4> HIDE DEF ok
      <4> QED BY <2>5, <3>1, <4>1 DEF ok
    <3>2. CASE Ignore
      BY <2>4, <3>2 DEF Ignore
    <3> QED BY <2>5, <2>6, <3>1, <3>2 DEF dhcp_handle_request
  <2>7. CASE dhcp_handle_inform(m)
    BY <2>3, <2>5, <2>7 DEF dhcp_handle_inform, RecordedByInform
  <2> QED BY <2>2, <2>4, <2>5, <2>6, <2>7
          DEF Receive, Ignore, dhcp_handle_discover, dhcp_handle_release
<1> QED BY <1>1, TypeCorrect, PTL DEF Spec, UnsetReadOnlyByInform

\* For a client that is in the list allocate_ip returns 0 and an address of
\* that client.
LEMMA HolderIsAllocatedItsOwn ==
  ASSUME NEW mac, NEW ret, NEW ip, allocate_ip(mac, ret, ip),
         NEW a, RecordedFor(leases, a, mac)
  PROVE  ret = 0 /\ RecordedFor(leases, ip, mac)
BY DEF allocate_ip, RecordedFor, FirstWithMac

\* A client the list has a lease of gets an offer, and never an address that
\* is not its own in the acknowledgement of the one it has.
THEOREM HoldersAreAnswered == Spec => HolderIsAnswered
<1>1. TypeOK /\ [Next]_vars => [HolderAnswered]_vars
  <2> SUFFICES ASSUME TypeOK, Next, recv' \in Packets, now' = now,
                      NEW a \in Addr, RecordedFor(leases, a, recv'.chaddr)
               PROVE  /\ sent'.type # "EMPTY"
                      /\ sent'.type = "ACK" /\ recv'.ciaddr # INADDR_ANY =>
                           RecordedFor(leases, sent'.yiaddr, recv'.chaddr)
    BY DEF HolderAnswered
  <2>1. ~ Tick
    BY DEF Tick, TypeOK
  <2>0. CASE Ended
    BY <2>0 DEF Ended, vars, Segfault
  <2>2. SUFFICES ASSUME NEW m \in Packets, Receive(m)
                 PROVE  /\ sent'.type # "EMPTY"
                        /\ sent'.type = "ACK" /\ recv'.ciaddr # INADDR_ANY =>
                             RecordedFor(leases, sent'.yiaddr, recv'.chaddr)
    BY <2>0, <2>1 DEF Next
  <2>3. m = recv'
    BY <2>2 DEF Receive
  <2>4. ASSUME NEW state \in ReplyType, NEW dst,
               construct_dhcp_packet(m, state, dst)
        PROVE  /\ sent'.type # "EMPTY"
               /\ sent'.type = "ACK" /\ m.ciaddr # INADDR_ANY =>
                    RecordedFor(leases, sent'.yiaddr, m.chaddr)
    <3>1. CASE \E ip : /\ SendReply(m, state, ip, dst)
                       /\ state = "ACK" /\ m.ciaddr # INADDR_ANY =>
                            RecordedFor(leases, ip, m.chaddr)
      BY <3>1, ReplyFields DEF ReplyType
    <3>2. \A ret, ip : allocate_ip(m.chaddr, ret, ip) =>
                         ret = 0 /\ RecordedFor(leases, ip, m.chaddr)
      BY <2>3, HolderIsAllocatedItsOwn
    <3>3. CASE sent' = Segfault
      BY <3>3 DEF Segfault
    <3>4. CASE state = "OFFER" /\ Offer(m, dst)
      BY <3>1, <3>2, <3>4 DEF Offer
    <3>5. CASE state = "ACK" /\ m.ciaddr # INADDR_ANY /\ AckOwn(m, dst)
      BY <3>1, <3>2, <3>5 DEF AckOwn
    <3>6. CASE /\ state = "ACK" /\ m.ciaddr = INADDR_ANY
               /\ AckRequested(m, dst) \/ AckUnset(m, dst)
      BY <3>1, <3>3, <3>6 DEF AckRequested, AckUnset
    <3>7. CASE state = "NAK" /\ SendReply(m, state, INADDR_ANY, dst)
      BY <3>1, <3>7
    <3> QED BY <2>4, <3>4, <3>5, <3>6, <3>7 DEF construct_dhcp_packet
  <2>5. CASE sent' = NoDatagram
    BY <2>5 DEF NoDatagram
  <2>6. \A b : AckOrNak(b) \in ReplyType
    BY DEF AckOrNak, ReplyType
  <2> QED BY <2>2, <2>3, <2>4, <2>5, <2>6
          DEF Receive, Ignore, dhcp_handle_discover, dhcp_handle_request,
              dhcp_handle_release, dhcp_handle_inform, ReplyType
<1> QED BY <1>1, TypeCorrect, PTL DEF Spec, HolderIsAnswered

-----------------------------------------------------------------------------
(* The linked list implements the table of LeaseTable: the refinement mapping  *)
(* as a function of a list, and what each step of the list is for the table.  *)

Has(list, a) == \E i \in DOMAIN list : list[i].addr = a
NodeIn(list, a) == list[CHOOSE i \in DOMAIN list : list[i].addr = a]
OwnerIn(list, a) == IF Has(list, a) THEN NodeIn(list, a).chaddr ELSE NoOption
StampIn(list, a) == IF Has(list, a) THEN NodeIn(list, a).time_stamp ELSE 0

\* The table's entry for the address of a node is that node, if no other node
\* has the address.
LEMMA EntryOfNode ==
  ASSUME NEW list, Distinct(list), NEW i \in DOMAIN list, NEW a,
         list[i].addr = a
  PROVE  /\ OwnerIn(list, a) = list[i].chaddr
         /\ StampIn(list, a) = list[i].time_stamp
<1> DEFINE k == CHOOSE j \in DOMAIN list : list[j].addr = a
<1>1. k \in DOMAIN list /\ list[k].addr = a
  BY Zenon
<1>2. k = i
  BY <1>1 DEF Distinct
<1> QED BY <1>2 DEF NodeIn, Has, OwnerIn, StampIn

\* An address without a node is unbound.
LEMMA EntryWithoutNode ==
  ASSUME NEW list, NEW a, ~Has(list, a)
  PROVE  OwnerIn(list, a) = NoOption /\ StampIn(list, a) = 0
BY DEF OwnerIn, StampIn

\* A bound address has a client for an owner.
LEMMA BoundOwner ==
  ASSUME NEW list \in Seq(Lease), Distinct(list), NEW i \in DOMAIN list
  PROVE  /\ list[i].addr \in Addr
         /\ OwnerIn(list, list[i].addr) \in Mac
         /\ OwnerIn(list, list[i].addr) # NoOption
<1>1. list[i] \in Lease
  BY LenProperties
<1> QED BY <1>1, EntryOfNode, PoolFacts DEF Lease

\* The mapping of DhcpServer, now and after a step.
LEMMA MappingOfList ==
  /\ Owner = [a \in Addr |-> OwnerIn(leases, a)]
  /\ Stamp = [a \in Addr |-> StampIn(leases, a)]
  /\ Owner' = [a \in Addr |-> OwnerIn(leases', a)]
  /\ Stamp' = [a \in Addr |-> StampIn(leases', a)]
  /\ AddressesDistinct <=> Distinct(leases)
  /\ AddressesDistinct' <=> Distinct(leases')
<1>1. \A a : a \in Leased <=> Has(leases, a)
  BY DEF Leased, Has
<1>2. \A a : (a \in Leased') <=> Has(leases', a)
  BY DEF Leased, Has
<1>3. Owner = [a \in Addr |-> OwnerIn(leases, a)]
  BY <1>1 DEF Owner, OwnerIn, Node, NodeIn
<1>4. Stamp = [a \in Addr |-> StampIn(leases, a)]
  BY <1>1 DEF Stamp, StampIn, Node, NodeIn
<1>5. Owner' = [a \in Addr |-> OwnerIn(leases', a)]
  BY <1>2 DEF Owner, OwnerIn, Node, NodeIn
<1>6. Stamp' = [a \in Addr |-> StampIn(leases', a)]
  BY <1>2 DEF Stamp, StampIn, Node, NodeIn
<1> QED BY <1>3, <1>4, <1>5, <1>6 DEF AddressesDistinct, Distinct

-----------------------------------------------------------------------------
(* What the list operations do to the table. *)

\* Refreshing a node refreshes the address it has.
LEMMA TouchRefreshes ==
  ASSUME ListType, AddressesDistinct, AddressesDistinct',
         NEW i \in DOMAIN leases, Touch(i), now' = now
  PROVE  \E a \in Addr : Table!Refresh(a)
<1> DEFINE b == leases[i].addr
<1>1. /\ DOMAIN leases' = DOMAIN leases
      /\ \A j \in DOMAIN leases :
           /\ leases'[j].addr = leases[j].addr
           /\ leases'[j].chaddr = leases[j].chaddr
           /\ leases'[j].time_stamp =
                IF j = i THEN now ELSE leases[j].time_stamp
  BY TouchProperties, Zenon
<1>2. Distinct(leases) /\ Distinct(leases')
  BY MappingOfList
<1>3. b \in Addr /\ OwnerIn(leases, b) # NoOption
  BY <1>2, BoundOwner DEF ListType
<1>4. ASSUME NEW a \in Addr
      PROVE  /\ OwnerIn(leases', a) = OwnerIn(leases, a)
             /\ StampIn(leases', a) = IF a = b THEN now ELSE StampIn(leases, a)
  <2>1. CASE Has(leases, a)
    <3>1. PICK j \in DOMAIN leases : leases[j].addr = a
      BY <2>1 DEF Has
    <3>2. a = b <=> j = i
      BY <1>2, <3>1 DEF Distinct
    <3>3. /\ OwnerIn(leases, a) = leases[j].chaddr
          /\ StampIn(leases, a) = leases[j].time_stamp
      BY <1>2, <3>1, EntryOfNode
    <3>4. /\ OwnerIn(leases', a) = leases'[j].chaddr
          /\ StampIn(leases', a) = leases'[j].time_stamp
      BY <1>1, <1>2, <3>1, EntryOfNode
    <3> QED BY <1>1, <3>1, <3>2, <3>3, <3>4
  <2>2. CASE ~Has(leases, a)
    <3>1. ~Has(leases', a) /\ a # b
      BY <1>1, <2>2 DEF Has
    <3> QED BY <2>2, <3>1, EntryWithoutNode
  <2> QED BY <2>1, <2>2
<1> HIDE DEF b
<1>5. Owner[b] # NoOption
  BY <1>3, MappingOfList
<1>6. Owner' = Owner
  BY <1>4, MappingOfList
<1>7. Stamp' = [Stamp EXCEPT ![b] = now]
  BY <1>3, <1>4, MappingOfList
<1> QED BY <1>3, <1>5, <1>6, <1>7 DEF Table!Refresh

\* A new node binds an unbound address to the client of the packet.
LEMMA AppendBinds ==
  ASSUME ListType, AddressesDistinct, AddressesDistinct',
         NEW m \in Packets, NEW ip \in Addr, Appended(ip, m.chaddr), now' = now
  PROVE  Table!Bind(ip, m.chaddr)
<1> DEFINE n == Len(leases) + 1
<1>1. /\ DOMAIN leases' = 1 .. n
      /\ \A j \in DOMAIN leases : leases'[j] = leases[j]
      /\ leases'[n] = [time_stamp |-> now, addr |-> ip, chaddr |-> m.chaddr]
  BY AppendedProperties, PacketFields, Zenon
<1>2. Distinct(leases) /\ Distinct(leases')
  BY MappingOfList
<1>3. DOMAIN leases = 1 .. Len(leases) /\ Len(leases) \in Nat
  BY LenProperties DEF ListType
<1>4. n \in DOMAIN leases' /\ \A j \in DOMAIN leases : j \in DOMAIN leases'
  BY <1>1, <1>3
<1>5. \A j \in DOMAIN leases' : j \in DOMAIN leases \/ j = n
  BY <1>1, <1>3
<1> HIDE DEF n
<1>6. ~Has(leases, ip)
  BY DEF Appended, Has, Leased
<1>7. OwnerIn(leases', ip) = m.chaddr /\ StampIn(leases', ip) = now
  BY <1>1, <1>2, <1>4, EntryOfNode
<1>8. ASSUME NEW a \in Addr, a # ip
      PROVE  /\ OwnerIn(leases', a) = OwnerIn(leases, a)
             /\ StampIn(leases', a) = StampIn(leases, a)
  <2>1. CASE Has(leases, a)
    <3>1. PICK j \in DOMAIN leases : leases[j].addr = a
      BY <2>1 DEF Has
    <3>2. j \in DOMAIN leases' /\ leases'[j] = leases[j]
      BY <1>1, <1>4
    <3> QED BY <1>2, <3>1, <3>2, EntryOfNode
  <2>2. CASE ~Has(leases, a)
    <3>1. ~Has(leases', a)
      BY <1>1, <1>5, <1>8, <2>2 DEF Has
    <3> QED BY <2>2, <3>1, EntryWithoutNode
  <2> QED BY <2>1, <2>2
<1>9. Owner[ip] = NoOption
  BY <1>6, EntryWithoutNode, MappingOfList
<1>10. Owner' = [Owner EXCEPT ![ip] = m.chaddr]
  BY <1>7, <1>8, MappingOfList
<1>11. Stamp' = [Stamp EXCEPT ![ip] = now]
  BY <1>7, <1>8, MappingOfList
<1> QED BY <1>9, <1>10, <1>11 DEF Table!Bind

\* Freeing a node unbinds the address it had.
LEMMA RemovalUnbinds ==
  ASSUME ListType, AddressesDistinct, AddressesDistinct',
         NEW m \in Packets, NEW i \in DOMAIN leases,
         Removed(m.ciaddr, m.chaddr, i), now' = now
  PROVE  \E a \in Addr : Table!Unbind(a)
<1> DEFINE b == leases[i].addr
<1>1. /\ DOMAIN leases' = 1 .. (Len(leases) - 1)
      /\ \A j \in DOMAIN leases' :
           leases'[j] = IF j < i THEN leases[j] ELSE leases[j + 1]
  BY RemovedProperties, Zenon
<1>2. Distinct(leases) /\ Distinct(leases')
  BY MappingOfList
<1>3. DOMAIN leases = 1 .. Len(leases) /\ Len(leases) \in Nat
  BY LenProperties DEF ListType
<1>4. ASSUME NEW j \in DOMAIN leases'
      PROVE  \E k \in DOMAIN leases : k # i /\ leases'[j] = leases[k]
  <2>1. CASE j < i
    BY <1>1, <1>3, <1>4, <2>1
  <2>2. CASE ~(j < i)
    <3>1. j + 1 \in DOMAIN leases /\ j + 1 # i
      BY <1>1, <1>3, <1>4, <2>2
    <3> QED BY <1>1, <1>4, <2>2, <3>1
  <2> QED BY <2>1, <2>2
<1>5. ASSUME NEW k \in DOMAIN leases, k # i
      PROVE  \E j \in DOMAIN leases' : leases'[j] = leases[k]
  <2>1. CASE k < i
    <3>1. k \in DOMAIN leases' /\ leases'[k] = leases[k]
      BY <1>1, <1>3, <1>5, <2>1
    <3> QED BY <3>1
  <2>2. CASE ~(k < i)
    <3>1. k - 1 \in DOMAIN leases' /\ leases'[k - 1] = leases[k]
      BY <1>1, <1>3, <1>5, <2>2
    <3> QED BY <3>1
  <2> QED BY <2>1, <2>2
<1>6. b \in Addr /\ OwnerIn(leases, b) # NoOption
  BY <1>2, BoundOwner DEF ListType
<1>7. ~Has(leases', b)
  BY <1>2, <1>4 DEF Has, Distinct
<1>8. ASSUME NEW a \in Addr, a # b
      PROVE  /\ OwnerIn(leases', a) = OwnerIn(leases, a)
             /\ StampIn(leases', a) = StampIn(leases, a)
  <2>1. CASE Has(leases, a)
    <3>1. PICK k \in DOMAIN leases : leases[k].addr = a
      BY <2>1 DEF Has
    <3>2. PICK j \in DOMAIN leases' : leases'[j] = leases[k]
      BY <1>5, <1>8, <3>1
    <3> QED BY <1>2, <3>1, <3>2, EntryOfNode
  <2>2. CASE ~Has(leases, a)
    <3>1. ~Has(leases', a)
      BY <1>4, <2>2 DEF Has
    <3> QED BY <2>2, <3>1, EntryWithoutNode
  <2> QED BY <2>1, <2>2
<1> HIDE DEF b
<1>9. Owner[b] # NoOption
  BY <1>6, MappingOfList
<1>10. Owner' = [Owner EXCEPT ![b] = NoOption]
  BY <1>6, <1>7, <1>8, EntryWithoutNode, MappingOfList
<1>11. Stamp' = [Stamp EXCEPT ![b] = 0]
  BY <1>6, <1>7, <1>8, EntryWithoutNode, MappingOfList
<1> QED BY <1>6, <1>9, <1>10, <1>11 DEF Table!Unbind

-----------------------------------------------------------------------------
\* The linked list, with its walks, its appends and its frees, is the table:
\* every packet served binds, refreshes or unbinds one address, or changes
\* nothing, and a bound address never changes hands without being unbound.
THEOREM ListImplementsTable == Spec => ImplementsLeaseTable
<1>1. Init => Table!Init
  <2> SUFFICES ASSUME Init PROVE Table!Init
    OBVIOUS
  <2>1. leases = <<>> /\ now = 0
    BY DEF Init, dhcp_setup
  <2>2. \A a : ~Has(leases, a)
    BY <2>1 DEF Has
  <2> QED BY <2>1, <2>2, EntryWithoutNode, MappingOfList DEF Table!Init
<1>2. /\ TypeOK /\ ListConsistent /\ ListConsistent'
      /\ [Next]_vars
      => [Table!Next]_(Table!tableVars)
  <2> SUFFICES ASSUME TypeOK, ListConsistent, ListConsistent', [Next]_vars
               PROVE  Table!Next \/ UNCHANGED Table!tableVars
    OBVIOUS
  <2>1. ListType /\ AddressesDistinct /\ AddressesDistinct'
    BY DEF TypeOK, ListType, ListConsistent
  <2>2. ASSUME UNCHANGED leases
        PROVE  UNCHANGED <<Owner, Stamp>>
    BY <2>2, MappingOfList
  <2>3. ASSUME NEW m \in Packets, Receive(m)
        PROVE  Table!Next \/ UNCHANGED Table!tableVars
    <3>1. now' = now
      BY <2>3 DEF Receive
    <3>2. CASE UNCHANGED leases
      BY <2>2, <3>1, <3>2 DEF Table!tableVars
    <3>3. CASE \E i \in DOMAIN leases : Touch(i)
      BY <2>1, <3>1, <3>3, TouchRefreshes DEF Table!Next
    <3>4. CASE \E ip \in Addr : Appended(ip, m.chaddr)
      BY <2>1, <3>1, <3>4, AppendBinds, PacketFields DEF Table!Next
    <3>5. CASE \E i \in DOMAIN leases : Removed(m.ciaddr, m.chaddr, i)
      BY <2>1, <3>1, <3>5, RemovalUnbinds DEF Table!Next
    <3> QED BY <2>3, <3>2, <3>3, <3>4, <3>5, ReceiveEffect DEF ListEffect
  <2>4. CASE Tick
    BY <2>2, <2>4 DEF Tick, Table!Next, Table!Advance
  <2>5. CASE UNCHANGED vars
    BY <2>2, <2>5 DEF vars, Table!tableVars
  <2> QED BY <2>3, <2>4, <2>5 DEF Next, Ended
<1> QED BY <1>1, <1>2, TypeCorrect, ListIsConsistent, PTL
        DEF Spec, ImplementsLeaseTable, Table!Spec
=============================================================================
