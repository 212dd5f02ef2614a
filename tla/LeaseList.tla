----------------------------- MODULE LeaseList -----------------------------
(***************************************************************************)
(* The lease list of dhcp-server.c: a linked list of struct lease_t behind *)
(* lease_head, kept as a sequence, the counter num_of_lease beside it, and *)
(* the wall clock time(NULL) reads.                                        *)
(***************************************************************************)
EXTENDS DhcpPackets, SequencesExt

VARIABLES
  leases,         \* the nodes after lease_head, in list order
  num_of_lease,
  now             \* time(NULL)

leaseVars == <<leases, num_of_lease, now>>

Lease == [time_stamp : Nat, addr : Addr, chaddr : Mac]

\* The node a walk from lease_head stops at when it looks for an address, and
\* when it looks for a hardware address.
FirstWithAddr(i, ip) ==
  /\ leases[i].addr = ip
  /\ \A j \in 1 .. (i - 1) : leases[j].addr # ip

FirstWithMac(i, mac) ==
  /\ leases[i].chaddr = mac
  /\ \A j \in 1 .. (i - 1) : leases[j].chaddr # mac

Leased == {leases[i].addr : i \in DOMAIN leases}
Expired(i) == ~(leases[i].time_stamp + IP_ADDRESS_LEASE_TIME > now)

\* Somebody other than mac has a lease on ip that has not run out.
HeldByOther(ip, mac) ==
  \E i \in DOMAIN leases :
    leases[i].addr = ip /\ leases[i].chaddr # mac /\ ~Expired(i)

-----------------------------------------------------------------------------
dhcp_setup ==
  /\ leases = <<>>
  /\ num_of_lease = 0
  /\ now = 0

\* The _Xxx operators are variants with a slip a programmer could make, each of
\* which breaks a property of DhcpServer or DhcpSystem.
check_ipaddr_AnyMac(ip, mac) == ip \in Pool

check_ipaddr_OwnLeased(ip, mac) ==
  /\ ip \in Pool
  /\ \A i \in DOMAIN leases : FirstWithAddr(i, ip) => Expired(i)

\* TRUE where the code returns 1, FALSE where it returns -1.
check_ipaddr(ip, mac) ==
  /\ ip \in Pool
  /\ \A i \in DOMAIN leases :
       FirstWithAddr(i, ip) => Expired(i) \/ leases[i].chaddr = mac

Touch(i) == leases' = [leases EXCEPT ![i].time_stamp = now]

allocate_ip_CountFirst(mac, ret, new_ip) ==
  /\ UNCHANGED num_of_lease
  /\ \/ /\ num_of_lease > IP_ADDRESS_POOL_AMOUNT - 1
        /\ UNCHANGED leases
        /\ ret = -1
     \/ /\ num_of_lease <= IP_ADDRESS_POOL_AMOUNT - 1
        /\ \E i \in DOMAIN leases :
             FirstWithMac(i, mac) /\ Touch(i) /\ new_ip = leases[i].addr
        /\ ret = 0
     \/ /\ num_of_lease <= IP_ADDRESS_POOL_AMOUNT - 1
        /\ \A i \in DOMAIN leases : leases[i].chaddr # mac
        /\ UNCHANGED leases
        /\ new_ip \in Pool \ Leased
        /\ ret = 0

\* ret and new_ip are the return value and the output parameter; the caller
\* finds new_ip uninitialised when ret is -1.  The loop at label outer draws
\* until it hits an address no lease has, so it never ends if there is none.
allocate_ip(mac, ret, new_ip) ==
  /\ UNCHANGED num_of_lease
  /\ \/ \E i \in DOMAIN leases :
          /\ FirstWithMac(i, mac)
          /\ Touch(i)
          /\ new_ip = leases[i].addr
          /\ ret = 0
     \/ /\ \A i \in DOMAIN leases : leases[i].chaddr # mac
        /\ UNCHANGED leases
        /\ \/ /\ num_of_lease > IP_ADDRESS_POOL_AMOUNT - 1
              /\ ret = -1
           \/ /\ num_of_lease <= IP_ADDRESS_POOL_AMOUNT - 1
              /\ new_ip \in Pool \ Leased
              /\ ret = 0

add_lease_NoCount(new_ip, mac) ==
  \/ \E i \in DOMAIN leases :
       FirstWithAddr(i, new_ip) /\ Touch(i) /\ UNCHANGED num_of_lease
  \/ /\ new_ip \notin Leased
     /\ leases' = Append(leases,
          [time_stamp |-> now, addr |-> new_ip, chaddr |-> mac])
     /\ UNCHANGED num_of_lease

add_lease_Always(new_ip, mac) ==
  /\ leases' = Append(leases,
       [time_stamp |-> now, addr |-> new_ip, chaddr |-> mac])
  /\ num_of_lease' = num_of_lease + 1

add_lease_NewOnly(new_ip, mac) ==
  \/ (new_ip \in Leased \/ \E i \in DOMAIN leases : leases[i].chaddr = mac)
       /\ UNCHANGED <<leases, num_of_lease>>
  \/ /\ new_ip \notin Leased
     /\ \A i \in DOMAIN leases : leases[i].chaddr # mac
     /\ leases' = Append(leases,
          [time_stamp |-> now, addr |-> new_ip, chaddr |-> mac])
     /\ num_of_lease' = num_of_lease + 1

add_lease(new_ip, mac) ==
  \/ \E i \in DOMAIN leases :
       FirstWithAddr(i, new_ip) /\ Touch(i) /\ UNCHANGED num_of_lease
  \/ /\ new_ip \notin Leased
     /\ leases' = Append(leases,
          [time_stamp |-> now, addr |-> new_ip, chaddr |-> mac])
     /\ num_of_lease' = num_of_lease + 1

delete_lease_AnyMac(ip, mac) ==
  \/ \E i \in DOMAIN leases :
       /\ FirstWithAddr(i, ip)
       /\ leases' = RemoveAt(leases, i)
       /\ num_of_lease' = num_of_lease - 1
  \/ ip \notin Leased /\ UNCHANGED <<leases, num_of_lease>>

delete_lease_CountAlways(ip, mac) ==
  /\ leases' = SelectSeq(leases, LAMBDA l : l.addr # ip \/ l.chaddr # mac)
  /\ num_of_lease' = num_of_lease - 1

delete_lease(ip, mac) ==
  LET Match(i) == leases[i].addr = ip /\ leases[i].chaddr = mac IN
  \/ \E i \in DOMAIN leases :
       /\ Match(i)
       /\ \A j \in 1 .. (i - 1) : ~Match(j)
       /\ leases' = RemoveAt(leases, i)
       /\ num_of_lease' = num_of_lease - 1
  \/ /\ \A i \in DOMAIN leases : ~Match(i)
     /\ UNCHANGED <<leases, num_of_lease>>
=============================================================================
