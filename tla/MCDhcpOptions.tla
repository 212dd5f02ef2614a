--------------------------- MODULE MCDhcpOptions ---------------------------
(***************************************************************************)
(* A small instance of DhcpOptions.                                        *)
(***************************************************************************)
EXTENDS DhcpOptions

MCRequested == {<<192, 168, 0, 2>>, <<0, 0, 0, 0>>}
MCOtherServer == <<192, 168, 0, 9>>

\* Packets of other programs: the shortest DISCOVER, REQUEST and INFORM, which
\* end in a bare OPTION_END, an INFORM with option 53 behind another option, a
\* REQUEST and an INFORM with it behind the front of any reply, and a packet
\* without it.
MCHostName == <<12, 40>> \o [i \in 1 .. 40 |-> 65]

MCForeign ==
  {[own |-> FALSE, type |-> DHCPDISCOVER, bound |-> FALSE, server_id |-> NoOption,
    requested |-> NoOption, options |-> <<53, 1, 1, 255>>],
   [own |-> FALSE, type |-> DHCPREQUEST, bound |-> TRUE,
    server_id |-> DHCP_SERVER_IP_ADDRESS, requested |-> NoOption,
    options |-> <<53, 1, 3, 54, 4, 192, 168, 0, 1, 255>>],
   [own |-> FALSE, type |-> DHCPINFORM, bound |-> TRUE, server_id |-> NoOption,
    requested |-> NoOption, options |-> <<53, 1, 8, 255>>],
   [own |-> FALSE, type |-> DHCPINFORM, bound |-> TRUE, server_id |-> NoOption,
    requested |-> NoOption, options |-> <<61, 2, 1, 7, 53, 1, 8, 255>>],
   [own |-> FALSE, type |-> DHCPREQUEST, bound |-> TRUE,
    server_id |-> DHCP_SERVER_IP_ADDRESS, requested |-> NoOption,
    options |-> MCHostName \o <<53, 1, 3, 54, 4, 192, 168, 0, 1, 255>>],
   [own |-> FALSE, type |-> DHCPINFORM, bound |-> TRUE, server_id |-> NoOption,
    requested |-> NoOption, options |-> MCHostName \o <<53, 1, 8, 255>>],
   [own |-> FALSE, type |-> 0, bound |-> TRUE, server_id |-> NoOption,
    requested |-> NoOption, options |-> <<12, 2, 65, 66, 255>>]}

\* Nothing, bytes that look like options, and an older packet.
MCGarbage ==
  {<<>>, [i \in 1 .. 80 |-> 51], [i \in 1 .. 80 |-> 255],
   ClientOptions(DHCPREQUEST, FALSE, <<192, 168, 0, 2>>, MCOtherServer)}
=============================================================================
