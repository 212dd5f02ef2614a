---------------------------- MODULE DhcpOptions ----------------------------
(***************************************************************************)
(* The options of struct dhcp_t, byte by byte: fill_dhcp_option and        *)
(* get_dhcp_option of dhcp-project.h, the packets dhcp-client.c builds     *)
(* with them, and dhcp_recv of dhcp-server.c, a buffer that is never       *)
(* cleared, that recvfrom fills from the front, and in which the server    *)
(* builds its reply over the request it answers.                           *)
(*                                                                         *)
(* Whether an address is granted is DhcpServer's matter: here the server   *)
(* may answer a REQUEST either way.                                        *)
(***************************************************************************)
EXTENDS Integers, Sequences, FiniteSets

CONSTANTS
  Requested,    \* the addresses, four bytes each, a client asks for
  OtherServer,  \* the address of another server
  Foreign,      \* packets of other programs
  Garbage,      \* what is behind a datagram in the buffer of a client
  NoOption

Byte == 0 .. 255

OPTION_SUBNET_MASK == 1
OPTION_ROUTER == 3
OPTION_DOMAIN_NAME_SERVER == 6
OPTION_REQUESTED_IP == 50
OPTION_IP_ADDRESS_LEASE_TIME == 51
OPTION_DHCP_MESSAGE_TYPE == 53
OPTION_DHCP_SERVER_IDENTIFIER == 54
OPTION_PARAMETER_REQUEST_LIST == 55
OPTION_IP_T1_RENEWAL_TIME == 58
OPTION_IP_T2_REBIND_TIME == 59
OPTION_VENDOR_CLASS_IDENTIFIER == 60
OPTION_END == 255

DHCPDISCOVER == 1
DHCPOFFER == 2
DHCPREQUEST == 3
DHCPACK == 5
DHCPNAK == 6
DHCPRELEASE == 7
DHCPINFORM == 8

\* htonl of the values of dhcp-project.h.
DHCP_SERVER_IP_ADDRESS == <<192, 168, 0, 1>>
SUBNET_MASK == <<255, 255, 255, 0>>
IP_ADDRESS_LEASE_TIME == <<0, 0, 0, 32>>
T1_RENEWAL_TIME == <<0, 0, 0, 16>>
T2_REBIND_TIME == <<0, 0, 0, 28>>

DHCP_CLIENT_VENDOR_CLASS_ID == <<50, 48, 49, 52, 50, 49, 50, 56, 56, 48>>
DHCP_SERVER_VENDOR_CLASS_ID == <<50, 48, 49, 52, 50, 49, 50, 56, 55, 51>>

parameter_req_list ==
  <<OPTION_SUBNET_MASK, OPTION_ROUTER, OPTION_DOMAIN_NAME_SERVER,
    OPTION_IP_ADDRESS_LEASE_TIME, OPTION_IP_T1_RENEWAL_TIME,
    OPTION_IP_T2_REBIND_TIME, OPTION_VENDOR_CLASS_IDENTIFIER>>

-----------------------------------------------------------------------------
(* The codec.  The _Xxx operators are variants with a slip a programmer could *)
(* make, each of which breaks a property below.                               *)

\* The length returned leaves out the code and the length: the next option is
\* written over the last two bytes.
fill_dhcp_option_NoHeader(code, data) ==
  SubSeq(<<code, Len(data)>> \o data, 1, Len(data))

\* The bytes fill_dhcp_option puts at the place it is given.
fill_dhcp_option(code, data) == <<code, Len(data)>> \o data

\* What a byte of a buffer is; nothing has been written behind its end.
At(buf, i) == IF i \in DOMAIN buf THEN buf[i] ELSE 0

Overwrite_Append(buf, bytes) == bytes \o buf

\* buf with its front replaced, by recvfrom or by a run of fill_dhcp_option.
Overwrite(buf, bytes) ==
  bytes \o SubSeq(buf, Len(bytes) + 1, Len(buf))

get_dhcp_option_ShortStep(buf, code) ==
  LET walk[i \in Nat] ==
        IF At(buf, i) \in {code, 0} THEN i ELSE walk[i + 1 + At(buf, i + 1)]
      i == walk[1]
  IN  IF At(buf, i) = 0 THEN [len |-> 0]
      ELSE [len |-> At(buf, i + 1), value |-> i + 2]

\* Where the walk from each index ends: at the option or at a zero byte, not at
\* OPTION_END.
Walk(buf, code) ==
  LET walk[i \in Nat] ==
        IF At(buf, i) \in {code, 0} THEN i ELSE walk[i + 2 + At(buf, i + 1)]
  IN  walk

\* The length returned and the index option_value is left pointing at.
get_dhcp_option(buf, code) ==
  LET i == Walk(buf, code)[1] IN
  IF At(buf, i) = 0 THEN [len |-> 0]
  ELSE [len |-> At(buf, i + 1), value |-> i + 2]

\* The value of an option where the code insists on n bytes.
Read(buf, code, n) ==
  LET got == get_dhcp_option(buf, code) IN
  IF got.len = n THEN [k \in 1 .. n |-> At(buf, got.value + k - 1)]
  ELSE NoOption

-----------------------------------------------------------------------------
(* What clients send. *)

\* The options of a packet of dhcp-client.c.  bound: the interface has an
\* address, which is then in ciaddr and makes option 50 unnecessary.
ClientOptions(type, bound, requested, server_id) ==
  fill_dhcp_option(OPTION_DHCP_MESSAGE_TYPE, <<type>>)
    \o (IF type \in {DHCPREQUEST, DHCPRELEASE}
        THEN fill_dhcp_option(OPTION_DHCP_SERVER_IDENTIFIER, server_id)
        ELSE <<>>)
    \o (IF bound THEN <<>> ELSE fill_dhcp_option(OPTION_REQUESTED_IP, requested))
    \o (IF type = DHCPRELEASE THEN <<>>
        ELSE fill_dhcp_option(OPTION_PARAMETER_REQUEST_LIST, parameter_req_list)
               \o fill_dhcp_option(OPTION_VENDOR_CLASS_IDENTIFIER,
                                   DHCP_CLIENT_VENDOR_CLASS_ID))
    \o fill_dhcp_option(OPTION_END, <<0>>)

\* The packets of dhcp-client.c, with what they mean.
OwnPackets ==
  {[own |-> TRUE, type |-> t, bound |-> b,
    requested |-> IF b THEN NoOption ELSE r,
    server_id |-> IF t \in {DHCPREQUEST, DHCPRELEASE} THEN s ELSE NoOption,
    options |-> ClientOptions(t, b, r, s)] :
     t \in {DHCPDISCOVER, DHCPREQUEST, DHCPRELEASE, DHCPINFORM},
     b \in BOOLEAN, r \in Requested,
     s \in {DHCP_SERVER_IP_ADDRESS, OtherServer}}

\* discover() sends nothing from an interface with an address.
Packets == {p \in OwnPackets : p.type = DHCPDISCOVER => ~p.bound} \cup Foreign

ASSUME OptionAssumption ==
  /\ Requested \subseteq [1 .. 4 -> Byte]
  /\ OtherServer \in [1 .. 4 -> Byte]
  /\ OtherServer # DHCP_SERVER_IP_ADDRESS
  /\ \A p \in Foreign : ~p.own /\ p.options \in Seq(Byte)
  /\ Garbage \subseteq Seq(Byte)
  /\ \A b \in Byte : NoOption # <<b>>

-----------------------------------------------------------------------------
(* The server. *)

VARIABLES
  dhcp_recv,    \* the options in the server's buffer
  packet,       \* the packet handled last
  found,        \* what its handler read of it
  state,        \* the type of the reply, 0 for none
  reply         \* the options sent

vars == <<dhcp_recv, packet, found, state, reply>>

\* *msg_type: the byte get_dhcp_option found before the reply was begun, read
\* after its front has been written.
MsgType(buf, front) ==
  At(Overwrite(buf, front), get_dhcp_option(buf, OPTION_DHCP_MESSAGE_TYPE).value)

\* The options construct_dhcp_packet fills in, in order.
ReplyOptions(buf, type) ==
  LET identity ==
        fill_dhcp_option(OPTION_DHCP_MESSAGE_TYPE, <<type>>)
          \o fill_dhcp_option(OPTION_DHCP_SERVER_IDENTIFIER, DHCP_SERVER_IP_ADDRESS)
          \o fill_dhcp_option(OPTION_VENDOR_CLASS_IDENTIFIER,
                              DHCP_SERVER_VENDOR_CLASS_ID)
      network ==
        fill_dhcp_option(OPTION_SUBNET_MASK, SUBNET_MASK)
          \o fill_dhcp_option(OPTION_ROUTER, DHCP_SERVER_IP_ADDRESS)
          \o fill_dhcp_option(OPTION_DOMAIN_NAME_SERVER, DHCP_SERVER_IP_ADDRESS)
      times ==
        fill_dhcp_option(OPTION_IP_ADDRESS_LEASE_TIME, IP_ADDRESS_LEASE_TIME)
          \o fill_dhcp_option(OPTION_IP_T1_RENEWAL_TIME, T1_RENEWAL_TIME)
          \o fill_dhcp_option(OPTION_IP_T2_REBIND_TIME, T2_REBIND_TIME)
      front == IF type = DHCPNAK THEN identity ELSE identity \o network
  IN  front
        \o (IF type # DHCPNAK /\ MsgType(buf, front) # DHCPINFORM
            THEN times ELSE <<>>)
        \o fill_dhcp_option(OPTION_END, <<0>>)

\* What a handler looks up, and only that.
Lookup(buf, p) ==
  LET type == Read(buf, OPTION_DHCP_MESSAGE_TYPE, 1) IN
  [type |-> type,
   server_id |-> IF type \in {<<DHCPREQUEST>>, <<DHCPRELEASE>>}
                 THEN Read(buf, OPTION_DHCP_SERVER_IDENTIFIER, 4) ELSE NoOption,
   requested |-> IF \/ type = <<DHCPDISCOVER>>
                    \/ type \in {<<DHCPREQUEST>>, <<DHCPINFORM>>} /\ ~p.bound
                 THEN Read(buf, OPTION_REQUESTED_IP, 4) ELSE NoOption]

\* The answers a handler can give to what it has read.  A DISCOVER is left
\* with dhcp_recv as it is when no address is to be had.
Answers(read) ==
  CASE read.type = <<DHCPDISCOVER>> -> {DHCPOFFER, 0}
    [] read.type = <<DHCPREQUEST>> /\ read.server_id = DHCP_SERVER_IP_ADDRESS ->
         {DHCPACK, DHCPNAK}
    [] read.type = <<DHCPINFORM>> -> {DHCPACK}
    [] OTHER -> {0}

\* One round of the loop in main.
Receive(p) ==
  LET buf == Overwrite(dhcp_recv, p.options) IN
  /\ packet' = p
  /\ found' = Lookup(buf, p)
  /\ state' \in Answers(found')
  /\ \/ state' = 0 /\ reply' = <<>> /\ dhcp_recv' = buf
     \/ /\ state' # 0
        /\ reply' = ReplyOptions(buf, state')
        /\ dhcp_recv' = Overwrite(buf, reply')

NoPacket == [own |-> FALSE]

Init ==
  /\ dhcp_recv = <<>>
  /\ packet = NoPacket
  /\ found = [type |-> NoOption, server_id |-> NoOption, requested |-> NoOption]
  /\ state = 0
  /\ reply = <<>>

Next == \E p \in Packets : Receive(p)

Spec == Init /\ [][Next]_vars

-----------------------------------------------------------------------------
(* Properties that hold. *)

\* The longest run of options either program fills in.
Longest == 3 + 6 + 12 + 6 * 6 + 3

\* Every variable keeps its type; in particular the buffer never grows past the
\* longest packet, however many replies have been built in it.
TypeOK ==
  /\ dhcp_recv \in Seq(Byte)
  /\ \/ Len(dhcp_recv) <= Longest
     \/ \E p \in Foreign : Len(dhcp_recv) <= Len(p.options)
  /\ packet \in Packets \cup {NoPacket}
  /\ state \in {0, DHCPOFFER, DHCPACK, DHCPNAK}
  /\ reply \in Seq(Byte)

\* Whatever has been received and answered before, what the handlers of
\* dhcp-server.c look up in a packet of dhcp-client.c is what the client put
\* into it, and an option the client left out is not looked up.
PacketReadBack ==
  packet.own =>
    /\ found.type = <<packet.type>>
    /\ found.server_id = packet.server_id
    /\ found.requested = packet.requested \/ packet.type = DHCPRELEASE

\* The reply grants a lease or offers one.
Grants == state # DHCPNAK /\ found.type # <<DHCPINFORM>>

\* The options dhcp-client.c looks up in a reply, with their values.
Expected ==
  {<<OPTION_DHCP_MESSAGE_TYPE, <<state>>>>,
   <<OPTION_DHCP_SERVER_IDENTIFIER, DHCP_SERVER_IP_ADDRESS>>}
  \cup (IF state = DHCPNAK THEN {} ELSE
    {<<OPTION_SUBNET_MASK, SUBNET_MASK>>,
     <<OPTION_ROUTER, DHCP_SERVER_IP_ADDRESS>>})
  \cup (IF ~Grants THEN {} ELSE
    {<<OPTION_IP_ADDRESS_LEASE_TIME, IP_ADDRESS_LEASE_TIME>>,
     <<OPTION_IP_T1_RENEWAL_TIME, T1_RENEWAL_TIME>>,
     <<OPTION_IP_T2_REBIND_TIME, T2_REBIND_TIME>>})

\* What the client reads of a reply is what the server filled in, whatever
\* packet the reply was built over and whatever is in the client's buffer
\* behind it.  In particular an OFFER and the ACK of a REQUEST never lose their
\* lease times, although *msg_type is read when the front of the reply lies
\* over it.  Nothing is said of lease times in the ACK of an INFORM, which the
\* code means to leave out and does not.
ReplyReadBack ==
  state # 0 =>
    \A junk \in Garbage, e \in Expected :
      Read(Overwrite(junk, reply), e[1], Len(e[2])) = e[2]
=============================================================================
