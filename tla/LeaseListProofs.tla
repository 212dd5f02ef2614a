-------------------------- MODULE LeaseListProofs ---------------------------
(***************************************************************************)
(* Facts about the operations of LeaseList, which the proofs about the     *)
(* server, its refinement and the whole system rest on.                    *)
(***************************************************************************)
EXTENDS LeaseList, FiniteSetTheorems, SequenceTheorems, TLAPS

\* No address the code tests for is in the pool but a pool address.
LEMMA PoolFacts ==
  /\ Pool \subseteq Addr
  /\ INADDR_ANY \in Addr
  /\ INADDR_ANY \notin Pool
  /\ DHCP_SERVER_IP_ADDRESS \in Addr
  /\ DHCP_SERVER_IP_ADDRESS \notin Pool
  /\ NoOption \notin Addr
  /\ NoOption \notin Mac
BY AddressAssumption, Zenon

-----------------------------------------------------------------------------
(* What an operation makes of the list. *)

\* What freeing a node in delete_lease leaves: the nodes before it stay where
\* they are, the nodes after it move up by one.
LEMMA RemoveAtProperties ==
  ASSUME NEW S, NEW s \in Seq(S), NEW i \in 1 .. Len(s)
  PROVE  /\ RemoveAt(s, i) \in Seq(S)
         /\ Len(RemoveAt(s, i)) = Len(s) - 1
         /\ \A j \in 1 .. (Len(s) - 1) :
              RemoveAt(s, i)[j] = IF j < i THEN s[j] ELSE s[j + 1]
<1> DEFINE a == SubSeq(s, 1, i - 1)
           b == SubSeq(s, i + 1, Len(s))
<1>1. Len(s) \in Nat /\ i \in Int /\ 1 <= i /\ i <= Len(s)
  BY LenProperties
<1>2. /\ a \in Seq(S)
      /\ Len(a) = i - 1
      /\ \A j \in 1 .. (i - 1) : a[j] = s[j]
  BY <1>1, SubSeqProperties
<1>3. /\ b \in Seq(S)
      /\ Len(b) = Len(s) - i
      /\ \A j \in 1 .. (Len(s) - i) : b[j] = s[i + j]
  BY <1>1, SubSeqProperties
<1>4. RemoveAt(s, i) = a \o b
  BY DEF RemoveAt
<1> HIDE DEF a, b
<1>5. a \o b \in Seq(S) /\ Len(a \o b) = Len(s) - 1
  <2>1. a \in Seq(S) /\ b \in Seq(S)
    BY <1>2, <1>3
  <2>2. a \o b \in Seq(S) /\ Len(a \o b) = Len(a) + Len(b)
    BY <2>1, ConcatProperties, Zenon
  <2> QED BY <2>2, <1>1, <1>2, <1>3
<1>6. ASSUME NEW j \in 1 .. (Len(s) - 1)
      PROVE  (a \o b)[j] = IF j < i THEN s[j] ELSE s[j + 1]
  <2>1. (a \o b)[j] = IF j <= Len(a) THEN a[j] ELSE b[j - Len(a)]
    BY <1>1, <1>2, <1>3, ConcatProperties
  <2>2. CASE j < i
    BY <2>1, <2>2, <1>1, <1>2
  <2>3. CASE j >= i
    <3>1. j - (i - 1) \in 1 .. (Len(s) - i) /\ i + (j - (i - 1)) = j + 1
      BY <2>3, <1>1
    <3>2. (a \o b)[j] = b[j - (i - 1)]
      BY <2>1, <2>3, <1>1, <1>2
    <3>3. b[j - (i - 1)] = s[j + 1]
      BY <3>1, <1>3
    <3> QED BY <3>2, <3>3, <2>3, <1>1
  <2>4. j < i \/ j >= i
    BY <1>1
  <2> QED BY <2>2, <2>3, <2>4, Zenon
<1> QED BY <1>4, <1>5, <1>6

ListType ==
  /\ leases \in Seq(Lease)
  /\ num_of_lease \in Int
  /\ now \in Nat

\* What add_lease does when it finds no node: a node at the end of the list.
Appended(ip, mac) ==
  /\ ip \notin Leased
  /\ leases' = Append(leases,
       [time_stamp |-> now, addr |-> ip, chaddr |-> mac])
  /\ num_of_lease' = num_of_lease + 1

\* What delete_lease does when it finds a node.
Removed(ip, mac, i) ==
  /\ leases[i].addr = ip /\ leases[i].chaddr = mac
  /\ leases' = RemoveAt(leases, i)
  /\ num_of_lease' = num_of_lease - 1

\* allocate_ip leaves the list alone or refreshes one node, whatever it
\* returns.
LEMMA AllocateEffect ==
  ASSUME NEW mac, NEW ret, NEW ip, allocate_ip(mac, ret, ip)
  PROVE  \/ UNCHANGED <<leases, num_of_lease>>
         \/ \E i \in DOMAIN leases : Touch(i) /\ UNCHANGED num_of_lease
BY DEF allocate_ip

\* Refreshing a node changes nothing but its time stamp.
LEMMA TouchProperties ==
  ASSUME ListType, NEW i \in DOMAIN leases, Touch(i)
  PROVE  /\ leases' \in Seq(Lease)
         /\ Len(leases') = Len(leases)
         /\ DOMAIN leases' = DOMAIN leases
         /\ \A j \in DOMAIN leases :
              /\ leases'[j].addr = leases[j].addr
              /\ leases'[j].chaddr = leases[j].chaddr
              /\ leases'[j].time_stamp =
                   IF j = i THEN now ELSE leases[j].time_stamp
<1>1. /\ DOMAIN leases = 1 .. Len(leases)
      /\ leases \in [1 .. Len(leases) -> Lease]
      /\ now \in Nat
  BY LenProperties DEF ListType
<1>2. leases' = [leases EXCEPT ![i] = [@ EXCEPT !.time_stamp = now]]
  BY DEF Touch
<1>3. [leases[i] EXCEPT !.time_stamp = now] \in Lease
  BY <1>1 DEF Lease
<1>4. leases' \in Seq(Lease) /\ Len(leases') = Len(leases)
  BY <1>2, <1>3, ExceptSeq, <1>1 DEF ListType
<1>5. DOMAIN leases' = DOMAIN leases
  BY <1>2
<1>6. ASSUME NEW j \in DOMAIN leases
      PROVE  /\ leases'[j].addr = leases[j].addr
             /\ leases'[j].chaddr = leases[j].chaddr
             /\ leases'[j].time_stamp =
                  IF j = i THEN now ELSE leases[j].time_stamp
  <2>1. leases[j] \in Lease
    BY <1>1
  <2>2. leases'[j] = IF j = i THEN [leases[j] EXCEPT !.time_stamp = now]
                              ELSE leases[j]
    BY <1>2
  <2> QED BY <2>1, <2>2 DEF Lease
<1> QED BY <1>4, <1>5, <1>6

\* A new node is the last one; the others stay.
LEMMA AppendedProperties ==
  ASSUME ListType, NEW ip \in Addr, NEW mac \in Mac, Appended(ip, mac)
  PROVE  /\ leases' \in Seq(Lease)
         /\ Len(leases') = Len(leases) + 1
         /\ DOMAIN leases' = 1 .. (Len(leases) + 1)
         /\ \A j \in DOMAIN leases : leases'[j] = leases[j]
         /\ leases'[Len(leases) + 1] =
              [time_stamp |-> now, addr |-> ip, chaddr |-> mac]
<1> DEFINE node == [time_stamp |-> now, addr |-> ip, chaddr |-> mac]
<1>1. node \in Lease
  BY DEF ListType, Lease
<1>2. leases' = Append(leases, node)
  BY DEF Appended
<1> HIDE DEF node
<1>3. DOMAIN leases = 1 .. Len(leases)
  BY LenProperties DEF ListType
<1>4. /\ leases' \in Seq(Lease)
      /\ Len(leases') = Len(leases) + 1
      /\ \A j \in 1 .. Len(leases) : leases'[j] = leases[j]
      /\ leases'[Len(leases) + 1] = node
  BY <1>1, <1>2, AppendProperties DEF ListType
<1>5. DOMAIN leases' = 1 .. Len(leases')
  BY <1>4, LenProperties
<1> QED BY <1>3, <1>4, <1>5 DEF node

\* Where a freed node leaves the others.
LEMMA RemovedProperties ==
  ASSUME ListType, NEW ip, NEW mac, NEW i \in DOMAIN leases,
         Removed(ip, mac, i)
  PROVE  /\ leases' \in Seq(Lease)
         /\ Len(leases') = Len(leases) - 1
         /\ DOMAIN leases' = 1 .. (Len(leases) - 1)
         /\ \A j \in DOMAIN leases' :
              leases'[j] = IF j < i THEN leases[j] ELSE leases[j + 1]
<1>1. DOMAIN leases = 1 .. Len(leases)
  BY LenProperties DEF ListType
<1>2. leases' = RemoveAt(leases, i)
  BY SMTT(30) DEF Removed
<1>3. /\ leases' \in Seq(Lease)
      /\ Len(leases') = Len(leases) - 1
      /\ \A j \in 1 .. (Len(leases) - 1) :
           leases'[j] = IF j < i THEN leases[j] ELSE leases[j + 1]
  BY <1>1, <1>2, RemoveAtProperties DEF ListType
<1>4. DOMAIN leases' = 1 .. Len(leases')
  BY <1>3, LenProperties
<1> QED BY <1>3, <1>4

\* A list with n nodes covers at most n addresses.
LEMMA LeasedSize ==
  ASSUME ListType
  PROVE  IsFiniteSet(Leased) /\ Cardinality(Leased) <= Len(leases)
<1> DEFINE D == 1 .. Len(leases)
<1>1. DOMAIN leases = D /\ Len(leases) \in Nat
  BY LenProperties DEF ListType
<1>2. IsFiniteSet(D) /\ Cardinality(D) = Len(leases)
  <2>1. 1 \in Int /\ Len(leases) \in Int
    BY <1>1
  <2>2. /\ IsFiniteSet(D)
        /\ Cardinality(D) = IF 1 > Len(leases) THEN 0 ELSE Len(leases) - 1 + 1
    BY <2>1, FS_Interval, Zenon
  <2> HIDE DEF D
  <2> QED BY <1>1, <2>2
<1>3. Leased = {leases[i].addr : i \in D}
  BY <1>1 DEF Leased
<1> DEFINE f == [i \in D |-> leases[i].addr]
<1>4. f \in Surjection(D, Leased)
  BY <1>3 DEF Surjection
<1> HIDE DEF D, f
<1> QED BY <1>2, <1>4, FS_Surjection

-----------------------------------------------------------------------------
(* What every operation for client mac keeps. *)

Changed(mac) ==
  \/ UNCHANGED <<leases, num_of_lease>>
  \/ \E i \in DOMAIN leases : Touch(i) /\ UNCHANGED num_of_lease
  \/ \E ip \in Addr : Appended(ip, mac)
  \/ \E ip \in Addr : \E i \in DOMAIN leases : Removed(ip, mac, i)

\* No two nodes of a list have the same address.
Distinct(list) ==
  \A i, j \in DOMAIN list : list[i].addr = list[j].addr => i = j

\* The list stays a list of leases.
LEMMA ChangeTyped ==
  ASSUME ListType, NEW mac \in Mac, Changed(mac)
  PROVE  leases' \in Seq(Lease) /\ num_of_lease' \in Int
<1>1. CASE UNCHANGED <<leases, num_of_lease>>
  BY <1>1 DEF ListType
<1>2. CASE \E i \in DOMAIN leases : Touch(i) /\ UNCHANGED num_of_lease
  BY <1>2, TouchProperties DEF ListType
<1>3. CASE \E ip \in Addr : Appended(ip, mac)
  BY <1>3, AppendedProperties DEF ListType, Appended
<1>4. CASE \E ip \in Addr : \E i \in DOMAIN leases : Removed(ip, mac, i)
  BY <1>4, RemovedProperties DEF ListType, Removed
<1> QED BY <1>1, <1>2, <1>3, <1>4 DEF Changed

\* Every node of the new list has the address and the client of a node of the
\* old one, a different one for every node, or is the node appended.
LEMMA ChangeDistinct ==
  ASSUME ListType, NEW mac \in Mac, Changed(mac), Distinct(leases)
  PROVE  Distinct(leases')
<1>1. DOMAIN leases = 1 .. Len(leases) /\ Len(leases) \in Nat
  BY LenProperties DEF ListType
<1>2. CASE UNCHANGED leases
  BY <1>2
<1>3. CASE \E i \in DOMAIN leases : Touch(i)
  BY <1>3, TouchProperties DEF Distinct
<1>4. ASSUME NEW ip \in Addr, Appended(ip, mac)
      PROVE  Distinct(leases')
  <2>1. /\ DOMAIN leases' = 1 .. (Len(leases) + 1)
        /\ \A j \in DOMAIN leases : leases'[j] = leases[j]
        /\ leases'[Len(leases) + 1] =
             [time_stamp |-> now, addr |-> ip, chaddr |-> mac]
    BY <1>4, AppendedProperties, Zenon
  <2>2. \A j \in DOMAIN leases : leases[j].addr # ip
    BY <1>4 DEF Appended, Leased
  <2>3. \A j \in DOMAIN leases' : j \in DOMAIN leases \/ j = Len(leases) + 1
    BY <1>1, <2>1
  <2> QED BY <2>1, <2>2, <2>3 DEF Distinct
<1>5. ASSUME NEW ip, NEW i \in DOMAIN leases, Removed(ip, mac, i)
      PROVE  Distinct(leases')
  <2> DEFINE old(j) == IF j < i THEN j ELSE j + 1
  <2>1. /\ DOMAIN leases' = 1 .. (Len(leases) - 1)
        /\ \A j \in DOMAIN leases' :
             leases'[j] = IF j < i THEN leases[j] ELSE leases[j + 1]
    BY <1>5, RemovedProperties, Zenon
  <2>2. \A j \in DOMAIN leases' :
          old(j) \in DOMAIN leases /\ leases'[j] = leases[old(j)]
    BY <1>1, <1>5, <2>1
  <2>3. \A j, k \in DOMAIN leases' : old(j) = old(k) => j = k
    BY <1>1, <1>5, <2>1
  <2> HIDE DEF old
  <2> QED BY <2>2, <2>3 DEF Distinct
<1> QED BY <1>2, <1>3, <1>4, <1>5 DEF Changed

\* A node stays, with its address and its client, unless it is the one freed.
LEMMA ChangeKeeps ==
  ASSUME ListType, NEW mac \in Mac, Changed(mac), NEW k \in DOMAIN leases,
         \A ip \in Addr : ~Removed(ip, mac, k)
  PROVE  \E j \in DOMAIN leases' : /\ leases'[j].addr = leases[k].addr
                                   /\ leases'[j].chaddr = leases[k].chaddr
<1>1. DOMAIN leases = 1 .. Len(leases) /\ Len(leases) \in Nat
  BY LenProperties DEF ListType
<1>2. CASE UNCHANGED leases
  BY <1>2
<1>3. CASE \E i \in DOMAIN leases : Touch(i)
  BY <1>3, TouchProperties
<1>4. ASSUME NEW ip \in Addr, Appended(ip, mac)
      PROVE  k \in DOMAIN leases' /\ leases'[k] = leases[k]
  <2>1. /\ DOMAIN leases' = 1 .. (Len(leases) + 1)
        /\ \A j \in DOMAIN leases : leases'[j] = leases[j]
    BY <1>4, AppendedProperties, Zenon
  <2> QED BY <1>1, <2>1
<1>5. ASSUME NEW ip \in Addr, NEW i \in DOMAIN leases, Removed(ip, mac, i)
      PROVE  \E j \in DOMAIN leases' : leases'[j] = leases[k]
  <2>1. /\ DOMAIN leases' = 1 .. (Len(leases) - 1)
        /\ \A j \in DOMAIN leases' :
             leases'[j] = IF j < i THEN leases[j] ELSE leases[j + 1]
    BY <1>5, RemovedProperties, Zenon
  <2>2. k # i
    BY <1>5
  <2>3. CASE k < i
    <3>1. k \in DOMAIN leases' /\ leases'[k] = leases[k]
      BY <1>1, <1>5, <2>1, <2>3
    <3> QED BY <3>1
  <2>4. CASE k > i
    <3>1. k - 1 \in DOMAIN leases' /\ leases'[k - 1] = leases[k]
      BY <1>1, <1>5, <2>1, <2>4
    <3> QED BY <3>1
  <2> QED BY <1>1, <2>2, <2>3, <2>4
<1> QED BY <1>2, <1>3, <1>4, <1>5 DEF Changed
=============================================================================
