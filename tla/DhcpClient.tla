----------------------------- MODULE DhcpClient -----------------------------
(***************************************************************************)
(* dhcp-client.c: the menu of interact(), or one operation and exit, and   *)
(* SIGALRM, whose handler lease_time_out runs whole exchanges with the     *)
(* server of its own on the same globals.                                  *)
(*                                                                         *)
(* There are two contexts, main and handler.  SIGALRM is blocked while its *)
(* handler runs, so there is at most one handler, and main stands still    *)
(* while it runs.  The network is whatever can arrive at port 68: answers, *)
(* late and duplicate answers, answers of other servers and answers meant  *)
(* for other hosts.                                                        *)
(*                                                                         *)
(* Time has no origin: the alarm, the wait in recvfrom and the lease each  *)
(* count down.  The transaction identifier is rand() after                 *)
(* srand(time(NULL)), one value per second, so all that matters of a       *)
(* datagram's is whether it matches the current one.                       *)
(***************************************************************************)
EXTENDS Integers, Sequences, FiniteSets

CONSTANTS
  Addr,                     \* addresses a server can give
  Server,                   \* addresses of servers
  IP_ADDRESS_LEASE_TIME, T1_RENEWAL_TIME, T2_REBIND_TIME,
  MAX_WAIT_TIME,
  NoOption,
  NoLease,                  \* the interface's address has no lease known
  Modes,                    \* ways to start: the menu, or one operation
  Interruptible,            \* where a second can pass and SIGALRM strike
  Datagrams,                \* what can arrive
  QueueLimit                \* datagrams the socket holds

INADDR_ANY == 0

ASSUME TimeAssumption ==
  /\ {IP_ADDRESS_LEASE_TIME, T1_RENEWAL_TIME, T2_REBIND_TIME, MAX_WAIT_TIME}
       \subseteq Nat
  /\ 0 < T1_RENEWAL_TIME
  /\ T1_RENEWAL_TIME < T2_REBIND_TIME
  /\ T2_REBIND_TIME < IP_ADDRESS_LEASE_TIME
  /\ 0 < MAX_WAIT_TIME

ASSUME ClientAssumption ==
  /\ INADDR_ANY \in Addr
  /\ INADDR_ANY \notin Server
  /\ NoOption \notin Addr \cup Server
  /\ NoLease \notin Int
  /\ Modes \subseteq {"interact", "once"}
  /\ QueueLimit \in Nat \ {0}

Context == {"main", "handler"}

\* The waits in recvfrom, one per loop that calls it.
Waiting == {"offer", "discover_ack", "inform_ack", "renew_ack", "rebind_ack"}
Blocking == Waiting \cup {"menu"}
Between == {"discover", "request", "bind", "arm_t1", "arm_t2", "arm_alarm",
            "nak", "nak_retry", "release"}

\* A datagram that has the opcode and the xid the client looks for, and what
\* the client reads of it.  options says which of the options 51, 58 and 59
\* it has: all, the first alone, or none.
Answer == [match : {TRUE}, type : {"OFFER", "ACK", "NAK"}, yiaddr : Addr,
           server_id : Server, options : {"all", "lease", "none"}]

\* Any other datagram.
Stray == [match |-> FALSE]

\* dhcp-project.h wants a lease time that is best a multiple of 8 (line 68) and
\* makes T1 and T2 its half and its seven eighths (lines 78 and 79).  Then the
\* times set_alarm derives from a lease time alone are in order and no earlier
\* than the server's: 7 * (l / 8) exceeds l / 2.  It does not for 14 seconds,
\* where a lease time without T1 and T2 makes the handler call alarm(0); such
\* an answer of another server's is assumed away, unless every answer has all
\* three options, as this server's have, or none.
ASSUME DerivedTimeAssumption ==
  (\E d \in Datagrams : d.match /\ d.options = "lease") =>
    /\ IP_ADDRESS_LEASE_TIME \div 2 < (IP_ADDRESS_LEASE_TIME \div 8) * 7
    /\ T2_REBIND_TIME <= (IP_ADDRESS_LEASE_TIME \div 8) * 7

ASSUME DatagramAssumption ==
  /\ Datagrams \subseteq Answer \cup {Stray}
  /\ Blocking \subseteq Interruptible
  /\ Interruptible \subseteq Blocking \cup Between

VARIABLES
  mode,                     \* argv
  addr,                     \* the address of the interface
  yiaddr, dhcp_server_identifier, lease_time, t1_time, t2_time,
  timer,                    \* seconds until SIGALRM, 0 when there is no alarm
  pending,                  \* SIGALRM has been raised and not delivered
  pc,                       \* where each context is
  dhcp_ack,                 \* the local dhcp_ack of each context
  wait,                     \* seconds until the current recvfrom gives up
  socket,                   \* datagrams not yet received
  sent,                     \* the last packet sent
  sameSecond,               \* no second has passed since xid was set
  xidOwner,                 \* the context that set xid
  left                      \* seconds left of the lease on addr, by the last
                            \* ACK; -1 when it has been over for a while

globals == <<yiaddr, dhcp_server_identifier, lease_time, t1_time, t2_time>>
network == <<socket, sent, sameSecond, xidOwner>>
clocks == <<timer, pending, wait>>
vars == <<mode, addr, globals, clocks, pc, dhcp_ack, network, left>>

\* The context that runs.
Running == IF pc["handler"] = "none" THEN "main" ELSE "handler"

\* SIGALRM is delivered at once unless its handler is running.
Deliverable ==
  pending /\ pc["handler"] = "none" /\ pc["main"] # "exited"

At(c, places) == c = Running /\ ~Deliverable /\ pc[c] \in places

Goto(c, place) == pc' = [pc EXCEPT ![c] = place]

\* Where a context is once the function it called last has returned.
Returned(c) ==
  IF c = "handler" THEN "none"
  ELSE IF mode = "interact" THEN "menu" ELSE "exited"

\* alarm(n), with n of type uint32_t: a negative difference is more than a
\* century.
Forever == 2 * IP_ADDRESS_LEASE_TIME
Seconds(n) == IF n < 0 THEN Forever ELSE n

-----------------------------------------------------------------------------
construct_dhcp_packet(type) ==
  [type |-> type,
   flags |-> IF type = "RELEASE" THEN "UNICAST" ELSE "BROADCAST",
   ciaddr |-> addr,
   server_id |-> IF type \in {"REQUEST", "RELEASE"}
                 THEN dhcp_server_identifier ELSE NoOption,
   requested |-> IF addr = INADDR_ANY THEN yiaddr ELSE NoOption]

\* srand(time(NULL)) and rand(): in a new second the answers to the old xid
\* that are still in the socket become strays.
NewXid(c) ==
  /\ socket' = IF sameSecond THEN socket ELSE [i \in DOMAIN socket |-> Stray]
  /\ sameSecond' = TRUE
  /\ xidOwner' = c

\* The part of dhcp_discover, dhcp_inform, dhcp_renew and dhcp_rebind before
\* the first recvfrom.
StartExchange(c, type, place) ==
  /\ NewXid(c)
  /\ sent' = construct_dhcp_packet(type)
  /\ Goto(c, place)
  /\ wait' = MAX_WAIT_TIME

setup_interface_release ==
  /\ addr' = INADDR_ANY
  /\ left' = NoLease

-----------------------------------------------------------------------------
(* Operations of the user. *)

AtMenu == At("main", {"menu"})

\* --default is the one-shot operation that takes no server's address.
ChooseDiscover ==
  /\ AtMenu
  /\ mode = "once" => dhcp_server_identifier = INADDR_ANY
  /\ Goto("main", "discover")
  /\ UNCHANGED <<mode, addr, globals, clocks, dhcp_ack, network, left>>

ChooseRelease ==
  /\ AtMenu
  /\ timer' = 0
  /\ Goto("main", "release")
  /\ UNCHANGED <<mode, addr, globals, pending, wait, dhcp_ack, network, left>>

ChooseExchange(type, place) ==
  /\ AtMenu
  /\ StartExchange("main", type, place)
  /\ UNCHANGED <<mode, addr, globals, timer, pending, dhcp_ack, left>>

ChooseInform == ChooseExchange("INFORM", "inform_ack")
ChooseRenew == ChooseExchange("REQUEST", "renew_ack")
ChooseRebind == ChooseExchange("REQUEST", "rebind_ack")

\* Choice 0 of the menu, or the end of main.
ChooseExit ==
  /\ AtMenu
  /\ Goto("main", "exited")
  /\ UNCHANGED <<mode, addr, globals, clocks, dhcp_ack, network, left>>

-----------------------------------------------------------------------------
(* The exchanges. *)

discover_NoCheck(c) ==
  /\ At(c, {"discover"})
  /\ StartExchange(c, "DISCOVER", "offer")
  /\ UNCHANGED <<mode, addr, globals, timer, pending, dhcp_ack, left>>

discover(c) ==
  /\ At(c, {"discover"})
  /\ \/ /\ addr # INADDR_ANY
        /\ Goto(c, Returned(c))
        /\ UNCHANGED <<network, wait>>
     \/ /\ addr = INADDR_ANY
        /\ StartExchange(c, "DISCOVER", "offer")
  /\ UNCHANGED <<mode, addr, globals, timer, pending, dhcp_ack, left>>

\* A datagram that is not an answer goes back to recvfrom, with a new timeout.
ReceiveStray(c) ==
  /\ At(c, Waiting)
  /\ socket # <<>>
  /\ ~Head(socket).match
  /\ socket' = Tail(socket)
  /\ wait' = MAX_WAIT_TIME
  /\ UNCHANGED <<mode, addr, globals, timer, pending, pc, dhcp_ack,
                 sent, sameSecond, xidOwner, left>>

\* An answer of any type is taken for an OFFER.
ReceiveOffer(c) ==
  /\ At(c, {"offer"})
  /\ socket # <<>>
  /\ Head(socket).match
  /\ socket' = Tail(socket)
  /\ dhcp_server_identifier' = Head(socket).server_id
  /\ yiaddr' = Head(socket).yiaddr
  /\ wait' = 0
  /\ Goto(c, "request")
  /\ UNCHANGED <<mode, addr, lease_time, t1_time, t2_time, timer, pending,
                 dhcp_ack, sent, sameSecond, xidOwner, left>>

SendRequest(c) ==
  /\ At(c, {"request"})
  /\ sent' = construct_dhcp_packet("REQUEST")
  /\ wait' = MAX_WAIT_TIME
  /\ Goto(c, "discover_ack")
  /\ UNCHANGED <<mode, addr, globals, timer, pending, dhcp_ack,
                 socket, sameSecond, xidOwner, left>>

\* Where the callers of the four exchanges go on after a NAK and after
\* anything else, which they take for an ACK.
AfterNak(c) ==
  CASE pc[c] = "discover_ack" -> "nak"
    [] pc[c] = "inform_ack" -> Returned(c)
    [] OTHER -> "nak_retry"

AfterAck(c) ==
  CASE pc[c] = "discover_ack" -> "bind"
    [] pc[c] = "inform_ack" -> Returned(c)
    [] OTHER -> "arm_t1"

ReceiveNak(c) ==
  /\ At(c, Waiting \ {"offer"})
  /\ socket # <<>>
  /\ Head(socket).match
  /\ Head(socket).type = "NAK"
  /\ socket' = Tail(socket)
  /\ wait' = 0
  /\ Goto(c, AfterNak(c))
  /\ UNCHANGED <<mode, addr, globals, timer, pending, dhcp_ack,
                 sent, sameSecond, xidOwner, left>>

ReceiveAck(c) ==
  /\ At(c, Waiting \ {"offer"})
  /\ socket # <<>>
  /\ Head(socket).match
  /\ Head(socket).type # "NAK"
  /\ socket' = Tail(socket)
  /\ dhcp_server_identifier' = Head(socket).server_id
  /\ dhcp_ack' = IF AfterAck(c) = Returned(c) THEN dhcp_ack
                  ELSE [dhcp_ack EXCEPT ![c] = Head(socket)]
  /\ wait' = 0
  /\ Goto(c, AfterAck(c))
  /\ UNCHANGED <<mode, addr, yiaddr, lease_time, t1_time, t2_time,
                 timer, pending, sent, sameSecond, xidOwner, left>>

ReceiveTimeout_Retry(c) ==
  /\ At(c, Waiting)
  /\ socket = <<>>
  /\ wait = 0
  /\ wait' = MAX_WAIT_TIME
  /\ UNCHANGED <<mode, addr, globals, timer, pending, pc, dhcp_ack, network, left>>

\* recvfrom returns -1 and so does the exchange.
ReceiveTimeout(c) ==
  /\ At(c, Waiting)
  /\ socket = <<>>
  /\ wait = 0
  /\ Goto(c, Returned(c))
  /\ UNCHANGED <<mode, addr, globals, clocks, dhcp_ack, network, left>>

\* setup_interface_release after a NAK, and for renew and rebind a discover().
HandleNak(c) ==
  /\ \/ At(c, {"nak"}) /\ Goto(c, Returned(c))
     \/ At(c, {"nak_retry"}) /\ Goto(c, "discover")
  /\ setup_interface_release
  /\ UNCHANGED <<mode, globals, clocks, dhcp_ack, network>>

setup_interface_WrongField(c) ==
  /\ At(c, {"bind"})
  /\ addr' = dhcp_ack[c].server_id
  /\ left' = NoLease
  /\ Goto(c, "arm_t1")
  /\ UNCHANGED <<mode, globals, clocks, dhcp_ack, network>>

setup_interface(c) ==
  /\ At(c, {"bind"})
  /\ addr' = dhcp_ack[c].yiaddr
  /\ left' = NoLease
  /\ Goto(c, "arm_t1")
  /\ UNCHANGED <<mode, globals, clocks, dhcp_ack, network>>

\* The second half of release().
SendRelease ==
  /\ At("main", {"release"})
  /\ NewXid("main")
  /\ sent' = construct_dhcp_packet("RELEASE")
  /\ setup_interface_release
  /\ Goto("main", Returned("main"))
  /\ UNCHANGED <<mode, globals, clocks, dhcp_ack>>

-----------------------------------------------------------------------------
(* set_alarm, interrupted where the handler could see it half done. *)

\* The values of options 58 and 59, or what set_alarm takes in their place.
RenewalTime(ack) ==
  IF ack.options = "all" THEN T1_RENEWAL_TIME
  ELSE IP_ADDRESS_LEASE_TIME \div 2

RebindTime(ack) ==
  IF ack.options = "all" THEN T2_REBIND_TIME
  ELSE (IP_ADDRESS_LEASE_TIME \div 8) * 7

\* set_alarm returns, and then the function whose local dhcp_ack is.
Leave(c) ==
  /\ Goto(c, Returned(c))
  /\ dhcp_ack' = [dhcp_ack EXCEPT ![c] = Stray]

SetT1(c) ==
  /\ At(c, {"arm_t1"})
  /\ \/ /\ dhcp_ack[c].options = "none"
        /\ Leave(c)
        /\ UNCHANGED <<lease_time, t1_time, left>>
     \/ /\ dhcp_ack[c].options # "none"
        /\ lease_time' = IP_ADDRESS_LEASE_TIME
        /\ t1_time' = RenewalTime(dhcp_ack[c])
        /\ left' = IF addr = INADDR_ANY THEN left ELSE IP_ADDRESS_LEASE_TIME
        /\ Goto(c, "arm_t2")
        /\ UNCHANGED dhcp_ack
  /\ UNCHANGED <<mode, addr, yiaddr, dhcp_server_identifier, t2_time, clocks,
                 network>>

SetT2(c) ==
  /\ At(c, {"arm_t2"})
  /\ t2_time' = RebindTime(dhcp_ack[c])
  /\ Goto(c, "arm_alarm")
  /\ UNCHANGED <<mode, addr, yiaddr, dhcp_server_identifier, lease_time,
                 t1_time, clocks, dhcp_ack, network, left>>

StartAlarm(c) ==
  /\ At(c, {"arm_alarm"})
  /\ timer' = t1_time
  /\ Leave(c)
  /\ UNCHANGED <<mode, addr, globals, pending, wait, network, left>>

-----------------------------------------------------------------------------
\* The _Xxx operators here and above are variants with a slip a programmer
\* could make, each of which breaks a property below.

\* The context lease_time_out finds when it interrupts main: recvfrom with a
\* timeout is never restarted after a handler, it fails with EINTR and the
\* exchange main was in returns -1.
Interrupted_Restart == pc["main"]

Interrupted ==
  IF pc["main"] \in Waiting THEN Returned("main") ELSE pc["main"]

InHandler(place) == pc' = [main |-> Interrupted, handler |-> place]

\* The handler's renew() or rebind(), up to its recvfrom.
HandlerExchange(place) ==
  /\ NewXid("handler")
  /\ sent' = construct_dhcp_packet("REQUEST")
  /\ InHandler(place)
  /\ wait' = MAX_WAIT_TIME
  /\ UNCHANGED <<addr, left>>

RenewalDue ==
  /\ t1_time # 0
  /\ timer' = Seconds(t2_time - t1_time)
  /\ t1_time' = 0
  /\ HandlerExchange("renew_ack")
  /\ UNCHANGED t2_time

RebindDue_NoAlarm ==
  /\ t1_time = 0
  /\ t2_time # 0
  /\ t2_time' = 0
  /\ HandlerExchange("rebind_ack")
  /\ UNCHANGED <<t1_time, timer>>

RebindDue_WholeLease ==
  /\ t1_time = 0
  /\ t2_time # 0
  /\ timer' = lease_time
  /\ t2_time' = 0
  /\ HandlerExchange("rebind_ack")
  /\ UNCHANGED t1_time

RebindDue ==
  /\ t1_time = 0
  /\ t2_time # 0
  /\ timer' = Seconds(lease_time - t2_time)
  /\ t2_time' = 0
  /\ HandlerExchange("rebind_ack")
  /\ UNCHANGED t1_time

LeaseOver_KeepAddress ==
  /\ t1_time = 0
  /\ t2_time = 0
  /\ InHandler("none")
  /\ wait' = 0
  /\ UNCHANGED <<addr, left, t1_time, t2_time, timer, network>>

LeaseOver ==
  /\ t1_time = 0
  /\ t2_time = 0
  /\ setup_interface_release
  /\ InHandler("none")
  /\ wait' = 0
  /\ UNCHANGED <<t1_time, t2_time, timer, network>>

lease_time_out ==
  /\ Deliverable
  /\ pending' = FALSE
  /\ RenewalDue \/ RebindDue \/ LeaseOver
  /\ UNCHANGED <<mode, yiaddr, dhcp_server_identifier, lease_time, dhcp_ack>>

-----------------------------------------------------------------------------
(* The world around the client. *)

Arrive(d) ==
  /\ Len(socket) < QueueLimit
  /\ pc["main"] # "exited"
  /\ socket' = Append(socket, d)
  /\ UNCHANGED <<mode, addr, globals, clocks, pc, dhcp_ack,
                 sent, sameSecond, xidOwner, left>>

\* A datagram in the socket is received before a second passes.  Between two
\* waits no time passes but the moment in which the alarm strikes.
Tick ==
  /\ At(Running, Interruptible)
  /\ pc[Running] \in Between => timer = 1
  /\ pc[Running] \in Waiting => socket = <<>> /\ wait > 0
  /\ timer' = IF timer \in {0, Forever} THEN timer ELSE timer - 1
  /\ pending' = (pending \/ timer = 1)
  /\ wait' = IF pc[Running] \in Waiting THEN wait - 1 ELSE wait
  /\ left' = IF left = NoLease \/ left = -1 THEN left ELSE left - 1
  /\ sameSecond' = FALSE
  /\ UNCHANGED <<mode, addr, globals, pc, dhcp_ack, socket, sent, xidOwner>>

-----------------------------------------------------------------------------
\* The interface may have an address from before.
Init ==
  /\ mode \in Modes
  /\ addr \in Addr
  /\ yiaddr = INADDR_ANY
  /\ dhcp_server_identifier \in
       IF mode = "once" THEN Server \cup {INADDR_ANY} ELSE {INADDR_ANY}
  /\ lease_time = 0 /\ t1_time = 0 /\ t2_time = 0
  /\ timer = 0 /\ pending = FALSE /\ wait = 0
  /\ pc = [main |-> "menu", handler |-> "none"]
  /\ dhcp_ack = [c \in Context |-> Stray]
  /\ socket = <<>>
  /\ sent = [type |-> "NONE"]
  /\ sameSecond = FALSE
  /\ xidOwner = "main"
  /\ left = NoLease

UserStep ==
  \/ ChooseDiscover \/ ChooseRelease \/ ChooseInform
  \/ ChooseRenew \/ ChooseRebind \/ ChooseExit

ExchangeStep(c) ==
  \/ discover(c) \/ SendRequest(c)
  \/ ReceiveStray(c) \/ ReceiveOffer(c) \/ ReceiveNak(c) \/ ReceiveAck(c)
  \/ ReceiveTimeout(c) \/ HandleNak(c) \/ setup_interface(c)
  \/ SetT1(c) \/ SetT2(c) \/ StartAlarm(c)

ClientStep ==
  \/ \E c \in Context : ExchangeStep(c)
  \/ SendRelease
  \/ lease_time_out

\* The process is gone.
Exited == pc["main"] = "exited" /\ UNCHANGED vars

Next ==
  \/ UserStep
  \/ ClientStep
  \/ \E d \in Datagrams : Arrive(d)
  \/ Tick
  \/ Exited

Spec == Init /\ [][Next]_vars

\* The process runs when it can, and time passes whatever it does.
FairSpec == Spec /\ WF_vars(ClientStep) /\ SF_vars(Tick)

-----------------------------------------------------------------------------
(* Safety and liveness.  TypeOK holds wherever SIGALRM strikes.  The others *)
(* need it not to strike in certain places, which nothing in the code sees *)
(* to: each names its own, in which SIGALRM does break it.                 *)

\* Every variable keeps its type; in particular no context is in two waits,
\* and no wait lasts longer than recvfrom's timeout.
TypeOK ==
  /\ mode \in Modes
  /\ addr \in Addr /\ yiaddr \in Addr
  /\ dhcp_server_identifier \in Server \cup {INADDR_ANY}
  /\ {lease_time, t1_time, t2_time} \subseteq 0 .. IP_ADDRESS_LEASE_TIME
  /\ timer \in 0 .. Forever
  /\ pending \in BOOLEAN
  /\ pc \in [Context -> Blocking \cup Between \cup {"none", "exited"}]
  /\ pc["main"] # "none"
  /\ pc["handler"] \notin {"menu", "release", "exited"}
  /\ dhcp_ack \in [Context -> Datagrams \cup {Stray}]
  /\ wait \in 0 .. MAX_WAIT_TIME
  /\ socket \in Seq(Datagrams \cup {Stray})
  /\ Len(socket) <= QueueLimit
  /\ sameSecond \in BOOLEAN
  /\ xidOwner \in Context
  /\ left \in (-1 .. IP_ADDRESS_LEASE_TIME) \cup {NoLease}

Alive == pc["main"] # "exited"
Bound == Alive /\ addr # INADDR_ANY /\ left # NoLease

\* A client that holds a leased address and waits, for the user or for an
\* answer, has an alarm running or a SIGALRM on the way: no interleaving of
\* exchanges, failures and handlers leaves an address nobody will give up.  It
\* needs that SIGALRM does not strike inside set_alarm, behind T1
\* (SetAlarmStartsTimer below is what happens then).
AlarmWhileBound ==
  Bound /\ pc[Running] \in Blocking => timer > 0 \/ pending

\* An address outlives its lease only while the handler waits for an answer
\* (the wait for the answer to the rebind is longer than what is left of the
\* lease when it starts, and strays make any wait longer), is about to start,
\* or has set the alarm that gives the address up.  It needs what
\* AlarmWhileBound needs.
ExpiredOnlyWhileHandling ==
  Bound /\ pc[Running] \in Blocking /\ left <= 0 =>
    \/ pc["handler"] # "none"
    \/ pending
    \/ /\ t1_time = 0 /\ t2_time = 0
       /\ timer \in 1 .. (IP_ADDRESS_LEASE_TIME - T2_REBIND_TIME)

\* While main waits for an answer, xid is the one main sent: an exchange of
\* the handler in between has ended main's.  It needs that SIGALRM does not
\* strike between the receipt of the OFFER and the wait for the ACK.
ExchangeKeepsItsXid ==
  pc["handler"] = "none" /\ pc["main"] \in Waiting => xidOwner = "main"

\* An interface with an address is never given another one without losing
\* the first: main and handler never both bind.  It needs that SIGALRM strikes
\* neither there nor between the receipt of the ACK and setup_interface.
AddressNotReplaced ==
  [][addr # INADDR_ANY /\ addr' # addr => addr' = INADDR_ANY]_vars

\* The network eventually has nothing for this client.
Quiet == <>[][~ \E d \in Datagrams : Arrive(d)]_vars

\* Once the network is quiet, an address whose lease is over is given up.
ExpiredAddressIsGivenUp ==
  Quiet => (Bound /\ left <= 0 ~> ~(Bound /\ left <= 0))

\* Once the network is quiet, every exchange ends, the handler's too, and the
\* user gets the menu back.
MenuComesBack ==
  Quiet => []<>(~Alive \/ (Running = "main" /\ pc["main"] = "menu"))

-----------------------------------------------------------------------------
(* What comments in the code say, and the code does not do. *)

\* dhcp-client.c:238, behind every call of set_alarm: it "updates the T1 and T2
\* timers", so an alarm runs when it returns.
SetAlarmStartsTimer ==
  [][\A c \in Context : StartAlarm(c) => timer' > 0]_vars

\* dhcp-client.c:380: what the client receives before setup_interface is "the
\* dhcp ack packet".
BindsOnlyAck ==
  \A c \in Context : pc[c] = "bind" => dhcp_ack[c].type = "ACK"
=============================================================================
