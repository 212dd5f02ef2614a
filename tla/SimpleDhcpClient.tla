-------------------------- MODULE SimpleDhcpClient --------------------------
(***************************************************************************)
(* simple-dhcp-client.c: it builds the frame of a DISCOVER byte by byte in *)
(* a buffer it has not cleared, from the options outwards, injects it with *)
(* pcap, and looks at every frame pcap captures until it takes one for the *)
(* offer.                                                                  *)
(*                                                                         *)
(* pcap is external: once the device is open it keeps what passes for the  *)
(* loop, QueueLimit frames at most, and nothing before.  An IP header on   *)
(* the wire has no options, which ip_input relies on.                      *)
(***************************************************************************)
EXTENDS InCksum

CONSTANTS
  Macs,         \* hardware addresses the interface may have, six bytes each
  Frames,       \* what can pass on the wire
  QueueLimit,   \* frames pcap keeps
  Data          \* sequences of bytes to try in_cksum on

\* A byte nobody has written: it may be any.
Uninitialised == -1

Cell == Byte \cup {Uninitialised}

ETHER == 14   \* sizeof(struct ether_header)
IP == 20
UDP == 8
DHCP == 240

\* in_cksum adds up in an int: 2^15 words are the most whose sum it holds
\* whatever they are.
MostSummed == 65536

ASSUME SimpleAssumption ==
  /\ \A m \in Macs : m \in [1 .. 6 -> Byte]
  /\ \A f \in Frames :
       f \in [ether_type : {"IP", "ARP"}, ip_p : {"UDP", "TCP"},
              uh_sport : {67, 68, 53}, opcode : 0 .. 3, yiaddr : Nat]
  /\ \A d \in Data : d \in Seq(Byte) /\ Len(d) <= MostSummed
  /\ QueueLimit \in Nat \ {0}

VARIABLES
  pc,
  mac,
  packet,       \* what was injected, <<>> before
  handle,       \* whether the device is open
  captured,     \* frames pcap keeps for the loop
  ip

vars == <<pc, mac, packet, handle, captured, ip>>

-----------------------------------------------------------------------------
(* The frame.  An output function takes and gives the buffer and the length   *)
(* so far, both as it finds them.  The _Xxx operators are variants with a     *)
(* slip a programmer could make, each of which breaks a property below.       *)

Put(buf, at, bytes) ==
  SubSeq(buf, 1, at) \o bytes \o SubSeq(buf, at + Len(bytes) + 1, Len(buf))

HighFirst(n) == <<n \div 256, n % 256>>
Zeros(n) == [i \in 1 .. n |-> 0]

\* char packet[4096], as much of it as is used; index 1 is its first byte.
Buffer == [i \in 1 .. 320 |-> Uninitialised]

fill_dhcp_option(code, data) == <<code, Len(data)>> \o data

fill_dhcp_discovery_options_EmptyEnd(p) ==
  LET options == fill_dhcp_option(53, <<1>>)
                   \o fill_dhcp_option(50, <<192, 168, 1, 10>>)
                   \o fill_dhcp_option(55, <<1, 3, 6, 15>>)
                   \o fill_dhcp_option(255, <<>>)
  IN  [buf |-> Put(p.buf, ETHER + IP + UDP + DHCP, options),
       len |-> Len(options)]

\* The options come first, behind where the header will be.
fill_dhcp_discovery_options(p) ==
  LET options == fill_dhcp_option(53, <<1>>)
                   \o fill_dhcp_option(50, <<192, 168, 1, 10>>)
                   \o fill_dhcp_option(55, <<1, 3, 6, 15>>)
                   \o fill_dhcp_option(255, <<0>>)
  IN  [buf |-> Put(p.buf, ETHER + IP + UDP + DHCP, options),
       len |-> Len(options)]

\* What is behind mac[6] on the stack of main.
BehindMac == [i \in 1 .. 10 |-> Uninitialised]

\* memcpy of DHCP_CHADDR_LEN bytes from mac[6] takes what is behind it.
dhcp_output(p) ==
  [buf |-> Put(p.buf, ETHER + IP + UDP,
             <<1, 1, 6, 0>> \o Zeros(24) \o mac \o BehindMac
               \o Zeros(64 + 128) \o <<99, 130, 83, 99>>),
   len |-> p.len + DHCP]

udp_output(p) ==
  LET len == p.len + (p.len % 2) + UDP
  IN  [buf |-> Put(p.buf, ETHER + IP,
                 HighFirst(68) \o HighFirst(67) \o HighFirst(len) \o <<0, 0>>),
       len |-> len]

ip_output_SumFirst(p) ==
  LET header(len, sum) ==
        <<69, 16>> \o HighFirst(len) \o <<0, 0, 0, 0, 16, 17>> \o sum
          \o Zeros(4) \o <<255, 255, 255, 255>>
  IN  [buf |-> Put(p.buf, ETHER,
                 header(p.len + IP, LowFirst(in_cksum(header(p.len, <<0, 0>>))))),
       len |-> p.len + IP]

\* ip_id is htonl(0xffff) cut to 16 bits, which is zero.
ip_output(p) ==
  LET len == p.len + IP
      header(sum) ==
        <<69, 16>> \o HighFirst(len) \o <<0, 0, 0, 0, 16, 17>> \o sum
          \o Zeros(4) \o <<255, 255, 255, 255>>
  IN  [buf |-> Put(p.buf, ETHER, header(LowFirst(in_cksum(header(<<0, 0>>))))),
       len |-> len]

\* The bytes given to pcap_inject.
ether_output(p) ==
  SubSeq(Put(p.buf, 0, [i \in 1 .. 6 |-> 255] \o mac \o <<8, 0>>),
         1, p.len + ETHER)

-----------------------------------------------------------------------------
(* main *)

get_mac_address ==
  /\ pc = "mac"
  /\ UNCHANGED <<packet, handle, captured, ip>>
  /\ \/ pc' = "open" /\ mac' \in Macs
     \/ pc' = "failed" /\ UNCHANGED mac

pcap_open_live ==
  /\ pc = "open"
  /\ UNCHANGED <<mac, packet, captured, ip>>
  /\ \/ pc' = "discover" /\ handle' = TRUE
     \/ pc' = "failed" /\ UNCHANGED handle

\* dhcp_discovery returns 0 whether pcap_inject fails or not.
dhcp_discovery ==
  /\ pc = "discover"
  /\ \/ \E options \in {fill_dhcp_discovery_options([buf |-> Buffer, len |-> 0])} :
        \E dhcp \in {dhcp_output(options)} :
        \E udp \in {udp_output(dhcp)} :
        \E datagram \in {ip_output(udp)} :
          packet' = ether_output(datagram)
     \/ UNCHANGED packet
  /\ pc' = "loop"
  /\ ip' = 0
  /\ UNCHANGED <<mac, handle, captured>>

Accepted_DestinationPort(f) ==
  f.ether_type = "IP" /\ f.ip_p = "UDP" /\ f.uh_sport = 68 /\ f.opcode = 2

\* The tests of ether_input, ip_input, udp_input and dhcp_input; the last
\* compares the opcode with DHCP_OPTION_OFFER.
Accepted(f) ==
  f.ether_type = "IP" /\ f.ip_p = "UDP" /\ f.uh_sport = 67 /\ f.opcode = 2

\* One call of ether_input by pcap_loop.
ether_input ==
  LET f == Head(captured) IN
  /\ pc = "loop"
  /\ captured # <<>>
  /\ captured' = Tail(captured)
  /\ \/ /\ Accepted(f)
        /\ ip' = f.yiaddr
        /\ pc' = "done"       \* pcap_breakloop
     \/ /\ ~Accepted(f)
        /\ UNCHANGED <<ip, pc>>
  /\ UNCHANGED <<mac, packet, handle>>

pcap_close ==
  /\ pc = "done"
  /\ handle
  /\ handle' = FALSE
  /\ captured' = <<>>
  /\ UNCHANGED <<pc, mac, packet, ip>>

\* A frame passes on the wire.
Pass(f) ==
  /\ handle
  /\ Len(captured) < QueueLimit
  /\ captured' = Append(captured, f)
  /\ UNCHANGED <<pc, mac, packet, handle, ip>>

Init ==
  /\ pc = "mac"
  /\ mac = Zeros(6)
  /\ packet = <<>>
  /\ handle = FALSE
  /\ captured = <<>>
  /\ ip = 0

Step ==
  \/ get_mac_address \/ pcap_open_live \/ dhcp_discovery
  \/ ether_input \/ pcap_close

Next == Step \/ \E f \in Frames : Pass(f)

\* The process runs.
Spec == Init /\ [][Next]_vars /\ WF_vars(Step)

-----------------------------------------------------------------------------
(* Properties that hold. *)

\* The last ten bytes of chaddr in the frame.
AddressRest ==
  ETHER + IP + UDP + 28 + 7 .. ETHER + IP + UDP + 28 + 16

\* Every variable keeps its type; in particular the ten bytes dhcp_output copies
\* from behind mac[6] are all that goes out without having been written.
TypeOK ==
  /\ pc \in {"mac", "open", "discover", "loop", "done", "failed"}
  /\ packet \in Seq(Cell)
  /\ \A i \in DOMAIN packet \ AddressRest : packet[i] \in Byte
  /\ handle \in BOOLEAN
  /\ Len(captured) <= QueueLimit

\* What a receiver reads of the frame, by offset.
Number(at) == 256 * packet[at + 1] + packet[at + 2]
Bytes(at, n) == SubSeq(packet, at + 1, at + n)

\* The frame that goes out is a DISCOVER others can read: the three lengths
\* agree with the bytes sent, the IP checksum verifies in network order, the
\* ports are those of DHCP, chaddr begins with the interface's address, and
\* the options filled in first have survived the headers put before them.
FrameWellFormed ==
  packet # <<>> =>
    /\ Bytes(6, 6) = mac /\ Number(12) = 2048
    /\ Len(packet) = ETHER + Number(ETHER + 2)
    /\ Number(ETHER + 2) = IP + Number(ETHER + IP + 4)
    /\ Verifies(Bytes(ETHER, IP))
    /\ Number(ETHER + IP) = 68 /\ Number(ETHER + IP + 2) = 67
    /\ Bytes(ETHER + IP + UDP + 28, 6) = mac
    /\ Bytes(ETHER + IP + UDP + DHCP, 9) = <<53, 1, 1, 50, 4, 192, 168, 1, 10>>
    /\ packet[Len(packet) - 2] = 255

\* Whatever is summed, of even or odd length, with as many carries as there
\* are, a receiver that reads words in network order finds the checksum of
\* in_cksum right: two folds are enough, and neither they nor the words depend
\* on the byte order of the machine.  Data says nothing of a state, and is
\* gone through where main begins.
ChecksumVerifies == pc = "mac" => \A bytes \in Data : Verifies(Checked(bytes))

\* An answer that passes at any time after the DISCOVER has gone out, before
\* pcap_loop has been called too, ends the program: the device is open before
\* the DISCOVER is sent.
AnswerEndsTheWait ==
  \A f \in Frames :
    f.uh_sport = 67 /\ f.opcode = 2 /\ f.ip_p = "UDP" /\ f.ether_type = "IP" =>
      ((\E i \in DOMAIN captured : captured[i] = f) ~> pc = "done")
=============================================================================
