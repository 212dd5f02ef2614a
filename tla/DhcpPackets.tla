---------------------------- MODULE DhcpPackets ----------------------------
(***************************************************************************)
(* The constants and the packet of dhcp-project.h, shared by the server    *)
(* and the client.  An address stands for the 32-bit value it names, in    *)
(* whichever byte order the code keeps it: every ntohl on the way in is    *)
(* paired with an htonl or a memcpy of network bytes on the way out.       *)
(***************************************************************************)
EXTENDS Integers, Sequences, FiniteSets

CONSTANTS
  Mac,                      \* hardware addresses
  Addr,                     \* the IP addresses that can occur
  Xid,                      \* transaction identifiers
  IP_ADDRESS_POOL_START,
  IP_ADDRESS_POOL_AMOUNT,
  IP_ADDRESS_LEASE_TIME,
  DHCP_SERVER_IP_ADDRESS,
  INADDR_BROADCAST,
  NoOption                  \* the value of an option a packet lacks

INADDR_ANY == 0

Pool == IP_ADDRESS_POOL_START ..
          (IP_ADDRESS_POOL_START + IP_ADDRESS_POOL_AMOUNT - 1)

ASSUME AddressAssumption ==
  /\ IP_ADDRESS_POOL_START \in Nat \ {0}
  /\ IP_ADDRESS_POOL_AMOUNT \in Nat \ {0}
  /\ Addr \subseteq Nat
  /\ Pool \subseteq Addr
  /\ {INADDR_ANY, DHCP_SERVER_IP_ADDRESS} \subseteq Addr \ Pool
  /\ INADDR_BROADCAST \notin Addr
  /\ NoOption \notin Addr \cup Mac

ASSUME LeaseTimeAssumption == IP_ADDRESS_LEASE_TIME \in Nat \ {0}

\* Option 53.  "OTHER" is any value the code has no name for.
RequestType == {"DISCOVER", "REQUEST", "DECLINE", "RELEASE", "INFORM", "OTHER"}
ReplyType == {"OFFER", "ACK", "NAK"}

\* What a server receives: the fields of struct dhcp_t and the options it
\* reads.  requested is the four bytes at the value of option 50, len_is_4
\* whether four is the length it has, and type_first whether option 53 is the
\* first option.
Packet ==
  [opcode : {"BOOTREQUEST", "BOOTREPLY"}, type : RequestType, xid : Xid,
   flags : {"UNICAST", "BROADCAST"}, ciaddr : Addr, chaddr : Mac,
   requested : Addr \cup {NoOption}, server_id : Addr \cup {NoOption},
   len_is_4 : BOOLEAN, type_first : BOOLEAN]

\* What a server sends, with the address it sends it to.  lease_options says
\* that options 51, 58 and 59 are there.
Reply ==
  [type : ReplyType, xid : Xid, ciaddr : Addr, yiaddr : Addr, chaddr : Mac,
   lease_options : BOOLEAN, dst : Addr \cup {INADDR_BROADCAST}]
=============================================================================
