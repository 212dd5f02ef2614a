-------------------------- MODULE DhcpClientProofs --------------------------
(***************************************************************************)
(* Proofs about DhcpClient, for every set of addresses, servers and        *)
(* datagrams, every length of the socket's queue and all times its         *)
(* assumptions allow.  Type correctness holds wherever SIGALRM strikes.    *)
(* The other theorems hold for every set of places it can strike in that   *)
(* leaves out the few they name, which is more than the code sees to.      *)
(***************************************************************************)
EXTENDS DhcpClient, SequenceTheorems, TLAPS

Place == Blocking \cup Between \cup {"none", "exited"}

-----------------------------------------------------------------------------
(* The operators of the model. *)

\* T1 and T2 lie within the lease, whichever options an ACK has.
LEMMA TimesTyped ==
  ASSUME NEW ack
  PROVE  /\ IP_ADDRESS_LEASE_TIME \in Nat /\ T2_REBIND_TIME \in Nat
         /\ RenewalTime(ack) \in Nat /\ RebindTime(ack) \in Nat
         /\ 0 < RenewalTime(ack)
         /\ RenewalTime(ack) < IP_ADDRESS_LEASE_TIME
         /\ RebindTime(ack) < IP_ADDRESS_LEASE_TIME
         /\ T2_REBIND_TIME < IP_ADDRESS_LEASE_TIME
BY TimeAssumption DEF RenewalTime, RebindTime

Message == Datagrams \cup {Stray}

\* The datagrams the client takes for answers.
Answers == Datagrams \cap Answer

\* The times of an ACK that has a lease time are in order.
LEMMA TimesInOrder ==
  ASSUME NEW ack \in Answers, ack.options # "none"
  PROVE  /\ RenewalTime(ack) < RebindTime(ack)
         /\ T2_REBIND_TIME <= RebindTime(ack)
<1>1. CASE ack.options = "all"
  BY <1>1, TimeAssumption DEF RenewalTime, RebindTime
<1>2. CASE ack.options = "lease"
  <2>1. ack.match /\ ack \in Datagrams
    BY DEF Answers, Answer
  <2>2. /\ IP_ADDRESS_LEASE_TIME \div 2 < (IP_ADDRESS_LEASE_TIME \div 8) * 7
        /\ T2_REBIND_TIME <= (IP_ADDRESS_LEASE_TIME \div 8) * 7
    BY <1>2, <2>1, DerivedTimeAssumption
  <2> QED BY <1>2, <2>2 DEF RenewalTime, RebindTime
<1> QED BY <1>1, <1>2 DEF Answers, Answer

\* A datagram the client takes for an answer has the fields of one.
LEMMA ReceivedTyped ==
  ASSUME socket \in Seq(Message), socket # <<>>
  PROVE  /\ Head(socket) \in Message
         /\ Tail(socket) \in Seq(Message)
         /\ Len(Tail(socket)) = Len(socket) - 1
         /\ Len(socket) \in Nat
         /\ Head(socket).match => Head(socket) \in Answers
<1>1. Head(socket) \in Message /\ Tail(socket) \in Seq(Message)
  BY HeadTailProperties
<1>2. Len(Tail(socket)) = Len(socket) - 1 /\ Len(socket) \in Nat
  BY HeadTailProperties, LenProperties
<1>3. Head(socket).match => Head(socket) \in Answers
  BY <1>1, DatagramAssumption DEF Message, Answers, Stray
<1> QED BY <1>1, <1>2, <1>3

\* A new xid loses no datagram.
LEMMA NewXidTyped ==
  ASSUME NEW c \in Context, socket \in Seq(Message), NewXid(c)
  PROVE  /\ socket' \in Seq(Message)
         /\ Len(socket') = Len(socket)
         /\ sameSecond' \in BOOLEAN
         /\ xidOwner' = c
<1>1. DOMAIN socket = 1 .. Len(socket) /\ Len(socket) \in Nat
  BY LenProperties
<1>2. CASE socket' = socket
  BY <1>2 DEF NewXid
<1>3. CASE socket' = [i \in DOMAIN socket |-> Stray]
  <2>1. socket' = [i \in 1 .. Len(socket) |-> Stray]
    BY <1>1, <1>3
  <2>2. Stray \in Message
    BY DEF Message
  <2>3. socket' \in Seq(Message) /\ Len(socket') = Len(socket)
    BY <1>1, <2>1, <2>2, IsASeq
  <2> QED BY <2>3 DEF NewXid
<1> QED BY <1>2, <1>3 DEF NewXid

-----------------------------------------------------------------------------
(* Type correctness. *)

\* A context that binds or sets its alarm has the ACK it does it from.
AckKept ==
  \A c \in Context :
    pc[c] \in {"bind", "arm_t1", "arm_t2", "arm_alarm"} =>
      dhcp_ack[c] \in Answers

TypeInv == TypeOK /\ AckKept

\* A step of the user keeps the types.
LEMMA UserTyped == TypeInv /\ UserStep => TypeInv'
<1> SUFFICES ASSUME TypeInv, UserStep PROVE TypeInv'
  OBVIOUS
<1> USE TimeAssumption, ClientAssumption
    DEF TypeInv, TypeOK, AckKept, Place, Blocking, Waiting, Between, Context,
        Message, AtMenu, At, Goto
<1>1. CASE ChooseDiscover
  BY <1>1 DEF ChooseDiscover, network, globals, clocks
<1>2. CASE ChooseRelease
  BY <1>2 DEF ChooseRelease, network, globals, Forever
<1>3. ASSUME NEW type, NEW place \in Waiting, ChooseExchange(type, place)
      PROVE  TypeInv'
  BY <1>3, NewXidTyped DEF ChooseExchange, StartExchange, globals
<1>4. CASE ChooseExit
  BY <1>4 DEF ChooseExit, network, globals, clocks
<1> QED BY <1>1, <1>2, <1>3, <1>4
        DEF UserStep, ChooseInform, ChooseRenew, ChooseRebind

\* Where the contexts go is a place of theirs.
LEMMA PlacesTyped ==
  ASSUME TypeOK, NEW c \in Context
  PROVE  /\ Returned("main") \in {"menu", "exited"}
         /\ Returned("handler") = "none"
         /\ pc[c] \in Waiting =>
              /\ AfterNak(c) \in {"nak", "nak_retry", Returned(c)}
              /\ AfterAck(c) \in {"bind", "arm_t1", Returned(c)}
BY DEF Returned, AfterNak, AfterAck

\* A step of an exchange keeps the types.
LEMMA ExchangeTyped ==
  ASSUME TypeInv, NEW c \in Context, ExchangeStep(c)
  PROVE  TypeInv'
<1> USE TimeAssumption, ClientAssumption, PlacesTyped
    DEF TypeInv, TypeOK, AckKept, Blocking, Waiting, Between, Context,
        Message, At, Goto
<1>1. CASE discover(c)
  BY <1>1, NewXidTyped DEF discover, StartExchange, network, globals
<1>2. CASE SendRequest(c)
  BY <1>2 DEF SendRequest, globals
<1>3. CASE ReceiveStray(c)
  BY <1>3, ReceivedTyped DEF ReceiveStray, globals
<1>4. CASE ReceiveOffer(c)
  <2>1. Head(socket).server_id \in Server /\ Head(socket).yiaddr \in Addr
    BY <1>4, ReceivedTyped DEF ReceiveOffer, Answers, Answer
  <2>2. socket' \in Seq(Message) /\ Len(socket') <= QueueLimit
    BY <1>4, ReceivedTyped DEF ReceiveOffer
  <2> QED BY <1>4, <2>1, <2>2 DEF ReceiveOffer
<1>5. CASE ReceiveNak(c)
  BY <1>5, ReceivedTyped DEF ReceiveNak, globals
<1>6. CASE ReceiveAck(c)
  <2>1. /\ Head(socket) \in Answers /\ Head(socket) \in Message
        /\ Head(socket).server_id \in Server
    BY <1>6, ReceivedTyped DEF ReceiveAck, Answers, Answer
  <2>2. socket' \in Seq(Message) /\ Len(socket') <= QueueLimit
    BY <1>6, ReceivedTyped DEF ReceiveAck
  <2> QED BY <1>6, <2>1, <2>2 DEF ReceiveAck
<1>7. CASE ReceiveTimeout(c)
  BY <1>7 DEF ReceiveTimeout, network, globals, clocks
<1>8. CASE HandleNak(c)
  BY <1>8 DEF HandleNak, setup_interface_release, network, globals, clocks
<1>9. CASE setup_interface(c)
  BY <1>9 DEF setup_interface, network, globals, clocks, Answers, Answer
<1>10. CASE SetT1(c)
  BY <1>10, TimesTyped, SMTT(30) DEF SetT1, Leave, network, clocks
<1>11. CASE SetT2(c)
  BY <1>11, TimesTyped, SMTT(30) DEF SetT2, network, clocks
<1>12. CASE StartAlarm(c)
  BY <1>12 DEF StartAlarm, Leave, Forever, network, globals
<1> QED BY <1>1, <1>2, <1>3, <1>4, <1>5, <1>6, <1>7, <1>8, <1>9, <1>10,
           <1>11, <1>12 DEF ExchangeStep

\* The alarm's handler keeps the types.
LEMMA HandlerTyped == TypeInv /\ lease_time_out => TypeInv'
<1> SUFFICES ASSUME TypeInv, lease_time_out PROVE TypeInv'
  OBVIOUS
<1> DEFINE place == pc'["handler"]
<1>1. /\ pc' = [main |-> Interrupted, handler |-> place]
      /\ place \in {"renew_ack", "rebind_ack", "none"}
  BY DEF lease_time_out, RenewalDue, RebindDue, LeaseOver, HandlerExchange,
         InHandler
<1>2. Interrupted \in {pc["main"], "menu", "exited"}
  BY DEF Interrupted, Returned
<1> HIDE DEF place
<1>3. /\ pc' \in [Context -> Place]
      /\ pc'["main"] \in {pc["main"], "menu", "exited"}
      /\ pc'["handler"] \in {"renew_ack", "rebind_ack", "none"}
  BY <1>1, <1>2 DEF TypeInv, TypeOK, Place, Blocking, Waiting, Context
<1>4. AckKept'
  BY <1>3 DEF AckKept, TypeInv, lease_time_out, Context
<1>5. /\ addr' \in Addr
      /\ {t1_time', t2_time'} \subseteq 0 .. IP_ADDRESS_LEASE_TIME
      /\ timer' \in 0 .. Forever
      /\ wait' \in 0 .. MAX_WAIT_TIME
      /\ left' \in (-1 .. IP_ADDRESS_LEASE_TIME) \cup {NoLease}
  <2> USE TimeAssumption, ClientAssumption DEF TypeInv, TypeOK
  <2>1. /\ addr' \in Addr
        /\ left' \in (-1 .. IP_ADDRESS_LEASE_TIME) \cup {NoLease}
        /\ wait' \in 0 .. MAX_WAIT_TIME
    BY DEF lease_time_out, RenewalDue, RebindDue, LeaseOver, HandlerExchange,
           setup_interface_release
  <2>2. CASE RenewalDue
    <3>1. /\ t1_time' = 0 /\ t2_time' = t2_time
          /\ timer' = IF t2_time - t1_time < 0 THEN 2 * IP_ADDRESS_LEASE_TIME
                      ELSE t2_time - t1_time
      BY <2>2 DEF RenewalDue, Seconds, Forever
    <3>2. /\ t1_time \in 0 .. IP_ADDRESS_LEASE_TIME
          /\ t2_time \in 0 .. IP_ADDRESS_LEASE_TIME
          /\ IP_ADDRESS_LEASE_TIME \in Nat
      OBVIOUS
    <3>3. timer' \in 0 .. (2 * IP_ADDRESS_LEASE_TIME)
      BY <3>1, <3>2
    <3> QED BY <2>1, <3>1, <3>2, <3>3 DEF Forever
  <2>3. CASE RebindDue
    <3>1. /\ t1_time' = t1_time /\ t2_time' = 0
          /\ timer' = IF lease_time - t2_time < 0 THEN 2 * IP_ADDRESS_LEASE_TIME
                      ELSE lease_time - t2_time
      BY <2>3 DEF RebindDue, Seconds, Forever
    <3>2. /\ t1_time \in 0 .. IP_ADDRESS_LEASE_TIME
          /\ t2_time \in 0 .. IP_ADDRESS_LEASE_TIME
          /\ lease_time \in 0 .. IP_ADDRESS_LEASE_TIME
          /\ IP_ADDRESS_LEASE_TIME \in Nat
      OBVIOUS
    <3>3. timer' \in 0 .. (2 * IP_ADDRESS_LEASE_TIME)
      BY <3>1, <3>2
    <3> QED BY <2>1, <3>1, <3>2, <3>3 DEF Forever
  <2>4. CASE LeaseOver
    BY <2>1, <2>4 DEF LeaseOver
  <2> QED BY <2>2, <2>3, <2>4 DEF lease_time_out
<1>6. NewXid("handler") \/ UNCHANGED network
  BY DEF lease_time_out, RenewalDue, RebindDue, LeaseOver, HandlerExchange
<1>7. /\ socket' \in Seq(Message) /\ Len(socket') = Len(socket)
      /\ sameSecond' \in BOOLEAN /\ xidOwner' \in Context
  BY <1>6, NewXidTyped DEF TypeInv, TypeOK, network, Context, Message
<1> QED BY <1>3, <1>4, <1>5, <1>7
        DEF lease_time_out, TypeInv, TypeOK, Place, Message

\* No step breaks the types or loses the ACK a context works from.
LEMMA TypeInvariant == Spec => []TypeInv
<1>1. Init => TypeInv
  <2> SUFFICES ASSUME Init PROVE TypeInv
    OBVIOUS
  <2>1. socket \in Seq(Message) /\ Len(socket) = 0
    BY EmptySeq DEF Init
  <2>2. pc \in [Context -> Place] /\ AckKept
    BY DEF Init, AckKept, Context, Place, Blocking
  <2>3. dhcp_ack \in [Context -> Message]
    BY DEF Init, Message
  <2>4. dhcp_server_identifier \in Server \cup {INADDR_ANY}
    BY DEF Init
  <2>5. /\ {lease_time, t1_time, t2_time} \subseteq 0 .. IP_ADDRESS_LEASE_TIME
        /\ timer \in 0 .. Forever /\ wait \in 0 .. MAX_WAIT_TIME
    BY TimeAssumption DEF Init, Forever
  <2>6. /\ pc["main"] = "menu" /\ pc["handler"] = "none"
        /\ addr \in Addr /\ yiaddr \in Addr
        /\ left = NoLease /\ 0 <= QueueLimit
    BY ClientAssumption DEF Init
  <2> QED BY <2>1, <2>2, <2>3, <2>4, <2>5, <2>6
          DEF Init, TypeInv, TypeOK, Message, Place, Context
<1>2. TypeInv /\ [Next]_vars => TypeInv'
  <2> SUFFICES ASSUME TypeInv, [Next]_vars PROVE TypeInv'
    OBVIOUS
  <2>1. CASE SendRelease
    BY <2>1, NewXidTyped, PlacesTyped, ClientAssumption
    DEF SendRelease, setup_interface_release, TypeInv, TypeOK, AckKept, At,
        Goto, Message, Context, Blocking, Between, globals, clocks
  <2>2. ASSUME NEW d \in Datagrams, Arrive(d)
        PROVE  TypeInv'
    <3>1. d \in Message
      BY DEF Message
    <3>2. socket' \in Seq(Message) /\ Len(socket') <= QueueLimit
      BY <2>2, <3>1, AppendProperties, LenProperties, ClientAssumption
      DEF Arrive, TypeInv, TypeOK, Message
    <3> QED BY <2>2, <3>2
            DEF Arrive, TypeInv, TypeOK, AckKept, Message, globals, clocks
  <2>3. CASE Tick
    <3>1. pending' \in BOOLEAN
      BY <2>3, Zenon DEF Tick
    <3>2. /\ timer \in 0 .. Forever /\ wait \in 0 .. MAX_WAIT_TIME
          /\ left \in (-1 .. IP_ADDRESS_LEASE_TIME) \cup {NoLease}
          /\ timer' = IF timer \in {0, Forever} THEN timer ELSE timer - 1
          /\ left' = IF left = NoLease \/ left = -1 THEN left ELSE left - 1
      BY <2>3 DEF Tick, TypeInv, TypeOK
    <3>3. wait' = wait \/ (wait > 0 /\ wait' = wait - 1)
      BY <2>3 DEF Tick
    <3>4. /\ MAX_WAIT_TIME \in Nat /\ IP_ADDRESS_LEASE_TIME \in Nat
          /\ Forever \in Nat
      BY TimeAssumption DEF Forever
    <3> HIDE DEF Forever
    <3>5. timer' \in 0 .. Forever
      BY <3>2, <3>4
    <3>6. wait' \in 0 .. MAX_WAIT_TIME
      BY <3>2, <3>3, <3>4
    <3>7. left' \in (-1 .. IP_ADDRESS_LEASE_TIME) \cup {NoLease}
      BY <3>2, <3>4
    <3> QED BY <2>3, <3>1, <3>5, <3>6, <3>7
            DEF Tick, TypeInv, TypeOK, AckKept, globals
  <2>4. CASE UNCHANGED vars
    BY <2>4 DEF vars, globals, clocks, network, TypeInv, TypeOK, AckKept
  <2> QED BY <2>1, <2>2, <2>3, <2>4, UserTyped, ExchangeTyped, HandlerTyped
          DEF Next, ClientStep, Exited
<1> QED BY <1>1, <1>2, PTL DEF Spec

\* Every variable of the client keeps its type, wherever SIGALRM strikes; in
\* particular what setup_interface takes from dhcp_ack is an address.
THEOREM TypeCorrect == Spec => []TypeOK
<1>1. TypeInv => TypeOK
  BY DEF TypeInv
<1> QED BY <1>1, TypeInvariant, PTL

-----------------------------------------------------------------------------
(* The two contexts. *)

\* The places in which SIGALRM breaks a property: on the way from the OFFER to
\* the wait for the ACK, on the way from the OFFER to setup_interface, and
\* inside set_alarm.
NoSignalBeforeRequest == "request" \notin Interruptible
NoSignalBeforeBind == {"request", "bind"} \cap Interruptible = {}
NoSignalInSetAlarm == {"arm_t2", "arm_alarm"} \cap Interruptible = {}

\* The handler runs, or is about to, only where SIGALRM can have struck main;
\* it has ended main's wait, and it never strikes release, which has stopped
\* the alarm.
HandlerAlone ==
  /\ pc["handler"] # "none" => pc["main"] \notin Waiting
  /\ pending \/ pc["handler"] # "none" =>
       pc["main"] \in Interruptible \cup {"exited"}
  /\ pc["main"] = "release" =>
       timer = 0 /\ ~pending /\ pc["handler"] = "none"

\* Main owns xid from the DISCOVER to the ACK.
XidKept == pc["main"] \in Waiting \cup {"request"} => xidOwner = "main"

\* No context is on its way to an address while the interface has one.
NoAddressYet ==
  \A c \in Context :
    pc[c] \in {"offer", "request", "discover_ack", "bind"} =>
      addr = INADDR_ANY

\* An interface without an address has no lease.
NoLeaseYet == addr = INADDR_ANY => left = NoLease

ControlInv ==
  /\ HandlerAlone
  /\ NoLeaseYet
  /\ NoSignalBeforeRequest => XidKept
  /\ NoSignalBeforeBind => NoAddressYet

\* What a step of a context may rely on: the other one stands still.
LEMMA OneRuns ==
  ASSUME TypeOK, HandlerAlone, NEW c \in Context, NEW places, At(c, places)
  PROVE  /\ pc[c] \in places
         /\ \/ c = "main" /\ pc["handler"] = "none"
               /\ (pending => pc["main"] = "exited")
            \/ c = "handler" /\ pc["handler"] # "none"
               /\ pc["main"] \in (Interruptible \cup {"exited"}) \ Waiting
               /\ pc["main"] # "release"
BY DEF TypeOK, HandlerAlone, At, Running, Deliverable, Context

\* The user's steps keep the control invariant.
LEMMA UserControl ==
  ASSUME TypeOK, ControlInv, UserStep
  PROVE  ControlInv'
<1> USE DatagramAssumption
    DEF TypeOK, ControlInv, HandlerAlone, XidKept, NoLeaseYet, NoAddressYet,
        Blocking, Waiting, Context, Goto
<1>1. AtMenu
  BY DEF UserStep, ChooseDiscover, ChooseRelease, ChooseInform, ChooseRenew,
         ChooseRebind, ChooseExchange, ChooseExit
<1>2. pc["main"] = "menu" /\ pc["handler"] = "none" /\ ~pending
  BY <1>1, OneRuns DEF AtMenu
<1>3. CASE ChooseDiscover \/ ChooseExit
  BY <1>2, <1>3 DEF ChooseDiscover, ChooseExit, network, globals, clocks
<1>4. CASE ChooseRelease
  BY <1>2, <1>4 DEF ChooseRelease, network, globals
<1>5. ASSUME NEW type,
             NEW place \in {"inform_ack", "renew_ack", "rebind_ack"},
             ChooseExchange(type, place)
      PROVE  ControlInv'
  BY <1>2, <1>5 DEF ChooseExchange, StartExchange, NewXid, globals
<1> QED BY <1>3, <1>4, <1>5
        DEF UserStep, ChooseInform, ChooseRenew, ChooseRebind

\* The steps of an exchange keep the control invariant.
LEMMA ExchangeControl ==
  ASSUME TypeInv, ControlInv, NEW c \in Context, ExchangeStep(c)
  PROVE  ControlInv'
<1>1. TypeOK
  BY DEF TypeInv
<1> USE <1>1, OneRuns, PlacesTyped, ClientAssumption, DatagramAssumption
    DEF TypeOK, ControlInv, HandlerAlone, XidKept, NoLeaseYet, NoAddressYet,
        NoSignalBeforeRequest, NoSignalBeforeBind, Blocking, Waiting, Context,
        Goto
<1>2. CASE discover(c)
  BY <1>2 DEF discover, StartExchange, NewXid, network, globals
<1>3. CASE SendRequest(c)
  BY <1>3 DEF SendRequest, globals
<1>4. CASE ReceiveStray(c)
  BY <1>4 DEF ReceiveStray, globals
<1>5. CASE ReceiveOffer(c)
  BY <1>5 DEF ReceiveOffer
<1>6. CASE ReceiveNak(c)
  BY <1>6 DEF ReceiveNak, globals
<1>7. CASE ReceiveAck(c)
  BY <1>7 DEF ReceiveAck, AfterAck, Returned
<1>8. CASE ReceiveTimeout(c)
  BY <1>8 DEF ReceiveTimeout, network, globals, clocks
<1>9. CASE HandleNak(c)
  BY <1>9 DEF HandleNak, setup_interface_release, network, globals, clocks
<1>10. CASE setup_interface(c)
  BY <1>10 DEF setup_interface, network, globals, clocks
<1>11. CASE SetT1(c)
  BY <1>11 DEF SetT1, Leave, network, clocks
<1>12. CASE SetT2(c)
  BY <1>12 DEF SetT2, network, clocks
<1>13. CASE StartAlarm(c)
  BY <1>13 DEF StartAlarm, Leave, network, globals
<1> QED BY <1>2, <1>3, <1>4, <1>5, <1>6, <1>7, <1>8, <1>9, <1>10, <1>11,
           <1>12, <1>13 DEF ExchangeStep

\* The handler starts with main out of every wait.
LEMMA HandlerControl ==
  ASSUME TypeOK, ControlInv, lease_time_out
  PROVE  ControlInv'
<1>1. /\ pending /\ pc["handler"] = "none"
      /\ pc["main"] \in Interruptible \ {"release", "exited"}
  BY DEF lease_time_out, Deliverable, ControlInv, HandlerAlone
<1>2. \/ pc["main"] \notin Waiting /\ Interrupted = pc["main"]
      \/ Interrupted \in {"menu", "exited"}
  BY PlacesTyped DEF Interrupted, Context
<1>3. /\ \/ pc["main"] \notin Waiting /\ pc'["main"] = pc["main"]
         \/ pc'["main"] \in {"menu", "exited"}
      /\ pc'["handler"] \in {"renew_ack", "rebind_ack", "none"}
  BY <1>2 DEF lease_time_out, RenewalDue, RebindDue, LeaseOver,
              HandlerExchange, InHandler
<1>4. /\ pending' = FALSE
      /\ \/ UNCHANGED <<addr, left>>
         \/ addr' = INADDR_ANY /\ left' = NoLease
  BY DEF lease_time_out, RenewalDue, RebindDue, LeaseOver, HandlerExchange,
         setup_interface_release
<1>5. /\ pc'["main"] \notin Waiting \cup {"release"}
      /\ pc'["main"] \in Interruptible \cup {"exited"}
  BY <1>1, <1>3, DatagramAssumption DEF Waiting, Blocking
<1>6. HandlerAlone' /\ NoLeaseYet'
  BY <1>4, <1>5 DEF HandlerAlone, ControlInv, NoLeaseYet
<1>7. NoSignalBeforeRequest => XidKept'
  BY <1>1, <1>3, <1>5 DEF XidKept, NoSignalBeforeRequest
<1>8. NoSignalBeforeBind => NoAddressYet'
  BY <1>1, <1>3, <1>4 DEF NoSignalBeforeBind, NoAddressYet, Waiting, Context
<1> QED BY <1>6, <1>7, <1>8 DEF ControlInv

\* No interleaving of main and handler breaks the control invariant.
LEMMA ControlInvariant == Spec => []ControlInv
<1> USE DEF ControlInv, HandlerAlone, XidKept, NoLeaseYet, NoAddressYet
<1>1. Init => ControlInv
  BY DEF Init, Waiting, Context
<1>2. TypeInv /\ ControlInv /\ [Next]_vars => ControlInv'
  <2> SUFFICES ASSUME TypeInv, ControlInv, [Next]_vars PROVE ControlInv'
    OBVIOUS
  <2>1. TypeOK
    BY DEF TypeInv
  <2>2. CASE SendRelease
    BY <2>1, <2>2, OneRuns, PlacesTyped
    DEF SendRelease, setup_interface_release, TypeOK, Goto, Context, Waiting,
        globals, clocks
  <2>3. ASSUME NEW d \in Datagrams, Arrive(d)
        PROVE  ControlInv'
    BY <2>3 DEF Arrive, globals, clocks
  <2>4. CASE Tick
    <3>1. At(Running, Interruptible)
      BY <2>4 DEF Tick
    <3>2. pc["handler"] = "none" => pc["main"] \in Interruptible
      BY <3>1 DEF At, Running
    <3>3. left = NoLease => left' = NoLease
      BY <2>4 DEF Tick
    <3>4. pc["main"] = "release" => FALSE
      BY <2>4, <3>1 DEF Tick, At, Running, Between
    <3> QED BY <2>4, <3>2, <3>3, <3>4 DEF Tick, globals
  <2>5. CASE UNCHANGED vars
    BY <2>5 DEF vars, network, globals, clocks
  <2> HIDE DEF ControlInv
  <2> QED BY <2>1, <2>2, <2>3, <2>4, <2>5, UserControl, ExchangeControl,
             HandlerControl DEF Next, ClientStep, Exited
<1> QED BY <1>1, <1>2, TypeInvariant, PTL DEF Spec

\* While main waits for an answer, xid is the one main sent, in every behaviour
\* in which SIGALRM does not strike between the receipt of the OFFER and the
\* wait for the ACK.  The code leaves that moment open, and a signal in it does
\* break the property.
THEOREM XidIsKept ==
  ASSUME NoSignalBeforeRequest
  PROVE  Spec => []ExchangeKeepsItsXid
<1>1. ControlInv => ExchangeKeepsItsXid
  BY DEF ControlInv, XidKept, ExchangeKeepsItsXid
<1> QED BY <1>1, ControlInvariant, PTL

\* The interface never goes from one address to another: of the two contexts,
\* none binds what the other has bound.  The code leaves two moments open in
\* which SIGALRM does make it do so, and which are assumed away: between the
\* receipt of the OFFER and the wait for the ACK, and between the receipt of
\* the ACK and setup_interface.
THEOREM AddressIsNotReplaced ==
  ASSUME NoSignalBeforeBind
  PROVE  Spec => AddressNotReplaced
<1> DEFINE Step == addr # INADDR_ANY /\ addr' # addr => addr' = INADDR_ANY
<1>1. ControlInv /\ [Next]_vars => [Step]_vars
  <2> SUFFICES ASSUME ControlInv, Next, addr # INADDR_ANY, addr' # addr
               PROVE  addr' = INADDR_ANY
    OBVIOUS
  <2>1. ASSUME NEW c \in Context, setup_interface(c)
        PROVE  FALSE
    BY <2>1 DEF setup_interface, At, ControlInv, NoAddressYet
  <2>2. CASE UserStep
    BY <2>2 DEF UserStep, ChooseDiscover, ChooseRelease, ChooseInform,
                ChooseRenew, ChooseRebind, ChooseExchange, ChooseExit
  <2>3. ASSUME NEW c \in Context, ExchangeStep(c)
        PROVE  addr' = INADDR_ANY
    BY <2>1, <2>3
    DEF ExchangeStep, discover, SendRequest, ReceiveStray, ReceiveOffer,
        ReceiveNak, ReceiveAck, ReceiveTimeout, HandleNak, SetT1, SetT2,
        StartAlarm, setup_interface_release
  <2>4. CASE SendRelease \/ lease_time_out
    BY <2>4 DEF SendRelease, lease_time_out, RenewalDue, RebindDue, LeaseOver,
                HandlerExchange, setup_interface_release
  <2>5. CASE Tick \/ \E d \in Datagrams : Arrive(d)
    BY <2>5 DEF Tick, Arrive
  <2>6. CASE Exited
    BY <2>6 DEF Exited, vars
  <2> QED BY <2>2, <2>3, <2>4, <2>5, <2>6 DEF Next, ClientStep
<1> HIDE DEF Step
<1> QED BY <1>1, ControlInvariant, PTL DEF Spec, AddressNotReplaced, Step

-----------------------------------------------------------------------------
(* The alarm. *)

\* Inside set_alarm, between T1 and the call of alarm.
Arming == {"arm_t2", "arm_alarm"}

\* A lease whose times are being set is a whole one, and t1_time is already
\* the ACK's while t2_time still is an older one's.
ArmingInv ==
  \A c \in Context : pc[c] \in Arming =>
    /\ t1_time > 0
    /\ left \in {IP_ADDRESS_LEASE_TIME, NoLease}
    /\ pc[c] = "arm_t2" => /\ t1_time = RenewalTime(dhcp_ack[c])
                           /\ lease_time = IP_ADDRESS_LEASE_TIME
                           /\ dhcp_ack[c].options # "none"

\* Outside of set_alarm the times are in order: T1, T2, the lease.  The
\* differences lease_time_out passes to alarm are therefore positive.
TimesInv ==
  /\ t1_time # 0 /\ (\A c \in Context : pc[c] # "arm_t2") => t1_time < t2_time
  /\ t1_time < IP_ADDRESS_LEASE_TIME
  /\ t2_time # 0 => /\ T2_REBIND_TIME <= t2_time
                    /\ t2_time < IP_ADDRESS_LEASE_TIME
                    /\ lease_time = IP_ADDRESS_LEASE_TIME
  /\ timer < IP_ADDRESS_LEASE_TIME
  /\ t1_time = 0 /\ t2_time = 0 =>
       timer <= IP_ADDRESS_LEASE_TIME - T2_REBIND_TIME

\* While the handler waits, the renewal it handles is behind it.
RenewalBehind == pc["handler"] \notin Arming \cup {"none"} => t1_time = 0

\* A lease has its alarm, but for the moments of set_alarm and of release.
AlarmRuns ==
  Bound /\ pc[Running] \notin Arming \cup {"release"} => timer > 0 \/ pending

\* A lease lasts at least until the alarms still to come: the one for T1, then
\* the one for T2, as long as they have not struck.
LeaseOutlastsAlarm ==
  Bound /\ pc[Running] \notin Arming =>
    /\ t1_time # 0 => left >= timer + (IP_ADDRESS_LEASE_TIME - t1_time)
    /\ t1_time = 0 /\ t2_time # 0 /\ timer > 0 =>
         left >= timer + (IP_ADDRESS_LEASE_TIME - t2_time)

AlarmInv ==
  ArmingInv /\ TimesInv /\ RenewalBehind /\ AlarmRuns /\ LeaseOutlastsAlarm

\* Where the client is after a context has gone somewhere.
LEMMA AfterGoto ==
  ASSUME NoSignalInSetAlarm, TypeOK, HandlerAlone, NEW c \in Context, NEW places, NEW p,
         At(c, places), "exited" \notin places, Goto(c, p),
         c = "handler" \/ p # "none"
  PROVE  /\ pc'[c] = p
         /\ Running = c
         /\ \A d \in Context \ {c} :
              /\ pc[d] \notin Arming
              /\ pc'[d] = pc[d]
         /\ pc'["handler"] = IF c = "handler" THEN p ELSE "none"
         /\ pc[Running] = pc[c]
         /\ pc'[Running'] = p \/ pc'[Running'] \notin Arming \cup {"release"}
         /\ p # "none" => pc'[Running'] = p
         /\ Alive' => Alive
<1>1. /\ pc[c] \in places /\ Running = c
      /\ \/ c = "main" /\ pc["handler"] = "none"
         \/ c = "handler" /\ pc["handler"] # "none"
            /\ pc["main"] \in Interruptible \cup {"exited"}
            /\ pc["main"] # "release"
  BY OneRuns DEF At
<1>2. \A d \in Context \ {c} : pc[d] \notin Arming /\ pc[d] # "release"
  BY <1>1 DEF NoSignalInSetAlarm, Arming, Context
<1>3. pc' = [pc EXCEPT ![c] = p] /\ DOMAIN pc = Context
  BY DEF Goto, TypeOK
<1> QED BY <1>1, <1>2, <1>3 DEF Running, Context, Alive

\* A step that leaves the alarm alone, and the lease too or ends it, keeps the
\* alarm's invariant.
LEMMA AlarmUntouched ==
  ASSUME NoSignalInSetAlarm, TypeOK, HandlerAlone, AlarmInv,
         NEW c \in Context, NEW places, NEW p,
         At(c, places), "exited" \notin places, Goto(c, p),
         c = "handler" \/ p # "none",
         pc[c] \notin Arming, p \notin Arming,
         UNCHANGED <<lease_time, t1_time, t2_time, timer, pending>>,
         \/ UNCHANGED <<addr, left>> /\ pc[c] # "release"
         \/ left' = NoLease
  PROVE  AlarmInv'
<1>1. pc'[c] = p /\ \A d \in Context : pc'[d] \notin Arming
  BY AfterGoto DEF Arming
<1>2. ArmingInv'
  BY <1>1 DEF ArmingInv
<1>3. TimesInv'
  BY AfterGoto, <1>1 DEF AlarmInv, TimesInv, Arming
<1>4. RenewalBehind'
  BY AfterGoto, OneRuns DEF AlarmInv, RenewalBehind
<1>5. Bound' => Bound /\ UNCHANGED left /\ pc[c] # "release"
  BY AfterGoto DEF Bound
<1>6. AlarmRuns'
  BY <1>5, AfterGoto DEF AlarmInv, AlarmRuns
<1>7. LeaseOutlastsAlarm'
  BY <1>5, AfterGoto DEF AlarmInv, LeaseOutlastsAlarm
<1> QED BY <1>2, <1>3, <1>4, <1>6, <1>7 DEF AlarmInv

\* The user's steps keep the alarm's invariant.
LEMMA UserAlarm ==
  ASSUME NoSignalInSetAlarm, TypeOK, HandlerAlone, AlarmInv, UserStep
  PROVE  AlarmInv'
<1> USE DEF AtMenu, Context, Arming
<1>1. CASE ChooseDiscover
  BY <1>1, AlarmUntouched, OneRuns DEF ChooseDiscover, globals, clocks
<1>2. CASE ChooseExit
  BY <1>2, AlarmUntouched, OneRuns DEF ChooseExit, globals, clocks
<1>3. ASSUME NEW type, NEW place \in {"inform_ack", "renew_ack", "rebind_ack"},
             ChooseExchange(type, place)
      PROVE  AlarmInv'
  BY <1>3, AlarmUntouched, OneRuns DEF ChooseExchange, StartExchange, globals
<1>4. CASE ChooseRelease
  <2>1. /\ pc'["main"] = "release" /\ pc'["handler"] = "none"
        /\ pc'[Running'] = "release" /\ pc[Running] = "menu"
        /\ Alive' => Alive
    BY <1>4, AfterGoto, OneRuns, ZenonT(40) DEF ChooseRelease
  <2>2. pc["main"] = "menu" /\ pc["handler"] = "none"
    BY <1>4, OneRuns DEF ChooseRelease
  <2>3. timer' = 0 /\ UNCHANGED <<addr, lease_time, t1_time, t2_time, left>>
    BY <1>4 DEF ChooseRelease, globals
  <2>4. TypeOK /\ timer \in Nat
    BY TimeAssumption DEF TypeOK, Forever
  <2>5. TimesInv'
    BY <2>1, <2>2, <2>3, TimeAssumption DEF AlarmInv, TimesInv
  <2>6. LeaseOutlastsAlarm'
    BY <2>1, <2>3, <2>4, TimeAssumption
    DEF AlarmInv, LeaseOutlastsAlarm, TypeOK, Bound
  <2> QED BY <2>1, <2>5, <2>6
          DEF AlarmInv, ArmingInv, RenewalBehind, AlarmRuns
<1> QED BY <1>1, <1>2, <1>3, <1>4
        DEF UserStep, ChooseInform, ChooseRenew, ChooseRebind

\* set_alarm with T1: the lease is a whole one, and t2_time is not read before
\* it is set.
LEMMA SetT1Alarm ==
  ASSUME NoSignalInSetAlarm, TypeOK, ControlInv, AlarmInv, NEW c \in Context, SetT1(c)
  PROVE  AlarmInv'
<1>1. HandlerAlone
  BY DEF ControlInv
<1>2. At(c, {"arm_t1"}) /\ pc[c] = "arm_t1"
  BY DEF SetT1, At
<1>3. CASE Leave(c) /\ UNCHANGED <<lease_time, t1_time, left>>
  BY <1>1, <1>2, <1>3, AlarmUntouched, PlacesTyped
  DEF SetT1, Leave, clocks, Arming, Context
<1>4. CASE ~(Leave(c) /\ UNCHANGED <<lease_time, t1_time, left>>)
  <2>1. /\ lease_time' = IP_ADDRESS_LEASE_TIME
        /\ t1_time' = RenewalTime(dhcp_ack[c])
        /\ left' = IF addr = INADDR_ANY THEN left ELSE IP_ADDRESS_LEASE_TIME
        /\ Goto(c, "arm_t2")
        /\ dhcp_ack[c].options # "none"
        /\ UNCHANGED <<dhcp_ack, t2_time, timer>>
    BY <1>4 DEF SetT1, clocks
  <2>2. /\ pc'[c] = "arm_t2" /\ pc'[Running'] = "arm_t2"
        /\ pc'["handler"] \in {"arm_t2", "none"}
        /\ \A d \in Context \ {c} : pc'[d] \notin Arming
    BY <1>1, <1>2, <2>1, AfterGoto
  <2>3. /\ 0 < RenewalTime(dhcp_ack[c]) /\ RenewalTime(dhcp_ack[c]) \in Nat
        /\ RenewalTime(dhcp_ack[c]) < IP_ADDRESS_LEASE_TIME
    BY TimesTyped
  <2>4. left' \in {IP_ADDRESS_LEASE_TIME, NoLease}
    BY <2>1 DEF ControlInv, NoLeaseYet
  <2>5. ArmingInv'
    BY <2>1, <2>2, <2>3, <2>4 DEF ArmingInv, Arming
  <2>6. TimesInv'
    BY <2>1, <2>2, <2>3 DEF AlarmInv, TimesInv
  <2> QED BY <2>2, <2>5, <2>6
          DEF AlarmInv, RenewalBehind, AlarmRuns, LeaseOutlastsAlarm, Arming
<1> QED BY <1>3, <1>4

\* set_alarm with T2: the times are in order again.
LEMMA SetT2Alarm ==
  ASSUME NoSignalInSetAlarm, TypeInv, HandlerAlone, AlarmInv, NEW c \in Context, SetT2(c)
  PROVE  AlarmInv'
<1>1. /\ At(c, {"arm_t2"}) /\ pc[c] = "arm_t2" /\ Goto(c, "arm_alarm")
      /\ TypeOK
  BY DEF SetT2, At, TypeInv
<1>2. /\ pc'[c] = "arm_alarm" /\ pc'[Running'] = "arm_alarm"
      /\ pc'["handler"] \in {"arm_alarm", "none"}
      /\ \A d \in Context \ {c} : pc'[d] \notin Arming
  BY <1>1, AfterGoto
<1>3. /\ t2_time' = RebindTime(dhcp_ack[c])
      /\ UNCHANGED <<lease_time, t1_time, timer, left>>
  BY DEF SetT2, clocks
<1>4. /\ t1_time > 0 /\ t1_time = RenewalTime(dhcp_ack[c])
      /\ left \in {IP_ADDRESS_LEASE_TIME, NoLease}
      /\ lease_time = IP_ADDRESS_LEASE_TIME
      /\ dhcp_ack[c].options # "none"
  BY <1>1 DEF AlarmInv, ArmingInv, Arming
<1>7. dhcp_ack[c] \in Answers
  BY <1>1 DEF TypeInv, AckKept
<1>8. /\ t1_time < t2_time' /\ t1_time \in Nat
      /\ T2_REBIND_TIME <= t2_time' /\ t2_time' < IP_ADDRESS_LEASE_TIME
      /\ t1_time < IP_ADDRESS_LEASE_TIME
  BY <1>3, <1>4, <1>7, TimesInOrder, TimesTyped
<1>5. ArmingInv'
  BY <1>2, <1>3, <1>4 DEF ArmingInv, Arming
<1>6. TimesInv'
  BY <1>2, <1>3, <1>4, <1>8 DEF AlarmInv, TimesInv
<1> QED BY <1>2, <1>5, <1>6
        DEF AlarmInv, RenewalBehind, AlarmRuns, LeaseOutlastsAlarm, Arming

\* alarm(t1_time): a whole lease gets an alarm for its T1.
LEMMA StartAlarmAlarm ==
  ASSUME NoSignalInSetAlarm, TypeOK, HandlerAlone, AlarmInv, NEW c \in Context, StartAlarm(c)
  PROVE  AlarmInv'
<1>1. At(c, {"arm_alarm"}) /\ pc[c] = "arm_alarm" /\ Goto(c, Returned(c))
  BY DEF StartAlarm, At, Leave
<1>2. /\ Returned(c) \in {"none", "menu", "exited"}
      /\ c = "main" => Returned(c) # "none"
  BY PlacesTyped DEF Context
<1>3. /\ \A d \in Context : pc'[d] \notin Arming
      /\ \A d \in Context : pc[d] # "arm_t2"
      /\ pc'["handler"] = "none"
  <2>1. c = "handler" \/ Returned(c) # "none"
    BY <1>2 DEF Context
  <2>2. /\ pc'[c] = Returned(c)
        /\ \A d \in Context \ {c} : pc[d] \notin Arming /\ pc'[d] = pc[d]
        /\ pc'["handler"] = IF c = "handler" THEN Returned(c) ELSE "none"
    BY <1>1, <2>1, AfterGoto
  <2> QED BY <1>1, <1>2, <2>2, PlacesTyped DEF Context, Arming
<1>4. timer' = t1_time /\ UNCHANGED <<addr, lease_time, t1_time, t2_time, left>>
  BY DEF StartAlarm, globals
<1>5. t1_time > 0 /\ left \in {IP_ADDRESS_LEASE_TIME, NoLease}
  BY <1>1 DEF AlarmInv, ArmingInv, Arming
<1>6. t1_time \in Nat /\ IP_ADDRESS_LEASE_TIME \in Nat
  BY TimeAssumption DEF TypeOK
<1>7. ArmingInv' /\ RenewalBehind'
  BY <1>3 DEF ArmingInv, RenewalBehind, Arming
<1>8. TimesInv'
  BY <1>3, <1>4, <1>5, <1>6 DEF AlarmInv, TimesInv
<1>9. AlarmRuns'
  BY <1>4, <1>5 DEF AlarmRuns
<1>10. LeaseOutlastsAlarm'
  BY <1>4, <1>5, <1>6 DEF LeaseOutlastsAlarm, Bound
<1> QED BY <1>7, <1>8, <1>9, <1>10 DEF AlarmInv

\* The steps of an exchange keep the alarm's invariant.
LEMMA ExchangeAlarm ==
  ASSUME NoSignalInSetAlarm, TypeInv, ControlInv, AlarmInv,
         NEW c \in Context, ExchangeStep(c)
  PROVE  AlarmInv'
<1>1. HandlerAlone /\ TypeOK
  BY DEF ControlInv, TypeInv
<1>2. ASSUME NEW places, NEW p, At(c, places), Goto(c, p),
             "exited" \notin places, places \cap Arming = {}, p \notin Arming,
             c = "handler" \/ p # "none",
             UNCHANGED <<lease_time, t1_time, t2_time, timer, pending>>,
             \/ UNCHANGED <<addr, left>> /\ "release" \notin places
             \/ left' = NoLease
      PROVE  AlarmInv'
  <2>1. pc[c] \in places
    BY <1>2 DEF At
  <2> QED BY <1>1, <1>2, <2>1, AlarmUntouched
<1>3. /\ Waiting \cap Arming = {} /\ "exited" \notin Waiting
      /\ "release" \notin Waiting
  BY DEF Waiting, Arming
<1>4. Returned(c) \notin Arming /\ (c = "handler" \/ Returned(c) # "none")
  BY <1>1, PlacesTyped DEF Arming, Context
<1>5. CASE discover(c)
  BY <1>2, <1>4, <1>5 DEF discover, StartExchange, globals, Arming
<1>6. CASE SendRequest(c)
  BY <1>2, <1>6 DEF SendRequest, globals, Arming
<1>7. CASE ReceiveStray(c)
  <2>1. Goto(c, pc[c]) /\ pc[c] \in Waiting
    BY <1>1, <1>7 DEF ReceiveStray, At, Goto, TypeOK
  <2>2. pc[c] \notin Arming \cup {"none"}
    BY <2>1 DEF Waiting, Arming
  <2> QED BY <1>2, <1>3, <1>7, <2>1, <2>2 DEF ReceiveStray, globals
<1>8. CASE ReceiveOffer(c)
  BY <1>2, <1>8 DEF ReceiveOffer, Arming
<1>9. ASSUME At(c, Waiting)
      PROVE  /\ AfterNak(c) \notin Arming /\ AfterAck(c) \notin Arming
             /\ c = "handler" \/ AfterNak(c) # "none"
             /\ c = "handler" \/ AfterAck(c) # "none"
  BY <1>1, <1>4, <1>9, PlacesTyped DEF At, Arming
<1>10. CASE ReceiveNak(c)
  BY <1>2, <1>3, <1>9, <1>10 DEF ReceiveNak, globals, At
<1>11. CASE ReceiveAck(c)
  BY <1>2, <1>3, <1>9, <1>11 DEF ReceiveAck, At
<1>12. CASE ReceiveTimeout(c)
  BY <1>2, <1>3, <1>4, <1>12 DEF ReceiveTimeout, globals, clocks
<1>13. CASE HandleNak(c)
  BY <1>2, <1>4, <1>13
  DEF HandleNak, setup_interface_release, globals, clocks, Arming
<1>14. CASE setup_interface(c)
  BY <1>2, <1>14 DEF setup_interface, globals, clocks, Arming
<1> QED BY <1>1, <1>5, <1>6, <1>7, <1>8, <1>10, <1>11, <1>12, <1>13, <1>14,
           SetT1Alarm, SetT2Alarm, StartAlarmAlarm DEF ExchangeStep

\* The handler passes on what is left of the lease to the next alarm, or gives
\* the address up.
LEMMA HandlerAlarm ==
  ASSUME NoSignalInSetAlarm, TypeOK, ControlInv, AlarmInv, lease_time_out
  PROVE  AlarmInv'
<1>1. /\ pending /\ pc["handler"] = "none"
      /\ pc["main"] \in Interruptible /\ pc["main"] # "exited"
  BY DEF lease_time_out, Deliverable, ControlInv, HandlerAlone
<1>2. Interrupted \in {pc["main"], "menu", "exited"}
  BY PlacesTyped DEF Interrupted, Context
<1>3. /\ pc'["main"] \in {pc["main"], "menu", "exited"}
      /\ pc'["handler"] \in {"renew_ack", "rebind_ack", "none"}
  BY <1>2 DEF lease_time_out, RenewalDue, RebindDue, LeaseOver,
              HandlerExchange, InHandler
<1>4. /\ \A c \in Context : pc[c] \notin Arming
      /\ \A c \in Context : pc'[c] \notin Arming
      /\ pc[Running] \notin Arming
      /\ Alive
  BY <1>1, <1>3 DEF NoSignalInSetAlarm, Arming, Context, Running, Alive
<1>5. ArmingInv'
  BY <1>4 DEF ArmingInv
<1>6. /\ {t1_time, t2_time, timer, IP_ADDRESS_LEASE_TIME, T2_REBIND_TIME}
           \subseteq Nat
      /\ T2_REBIND_TIME > 0
  BY TimeAssumption DEF TypeOK, Forever
<1>7. CASE RenewalDue
  <2>1. t1_time # 0 /\ t1_time < t2_time
    BY <1>4, <1>7 DEF RenewalDue, AlarmInv, TimesInv, Arming
  <2>2. /\ timer' = t2_time - t1_time
        /\ t1_time' = 0
        /\ UNCHANGED <<addr, left, t2_time, lease_time>>
    BY <1>6, <1>7, <2>1
    DEF RenewalDue, Seconds, HandlerExchange, lease_time_out
  <2>3. TimesInv' /\ RenewalBehind'
    BY <1>6, <2>1, <2>2 DEF AlarmInv, TimesInv, RenewalBehind
  <2>4. AlarmRuns'
    BY <1>6, <2>1, <2>2 DEF AlarmRuns
  <2>5. Bound' => Bound
    BY <1>4, <2>2 DEF Bound
  <2>6. LeaseOutlastsAlarm'
    BY <1>4, <1>6, <2>1, <2>2, <2>5
    DEF AlarmInv, LeaseOutlastsAlarm, Bound, TypeOK
  <2> QED BY <1>5, <2>3, <2>4, <2>6 DEF AlarmInv
<1>8. CASE RebindDue
  <2>1. /\ t1_time = 0 /\ t2_time # 0
        /\ T2_REBIND_TIME <= t2_time /\ t2_time < IP_ADDRESS_LEASE_TIME
        /\ lease_time = IP_ADDRESS_LEASE_TIME
    BY <1>8 DEF RebindDue, AlarmInv, TimesInv
  <2>2. /\ timer' = IP_ADDRESS_LEASE_TIME - t2_time
        /\ t1_time' = 0 /\ t2_time' = 0
    BY <1>6, <1>8, <2>1 DEF RebindDue, Seconds
  <2>3. TimesInv' /\ RenewalBehind'
    BY <1>6, <2>1, <2>2 DEF AlarmInv, TimesInv, RenewalBehind
  <2> QED BY <1>5, <1>6, <2>1, <2>2, <2>3
          DEF AlarmInv, AlarmRuns, LeaseOutlastsAlarm
<1>9. CASE LeaseOver
  <2>1. /\ ~Bound' /\ t1_time = 0
        /\ UNCHANGED <<t1_time, t2_time, timer, lease_time>>
    BY <1>9 DEF LeaseOver, setup_interface_release, Bound, lease_time_out
  <2> QED BY <1>5, <2>1
          DEF AlarmInv, TimesInv, RenewalBehind, AlarmRuns, LeaseOutlastsAlarm
<1> QED BY <1>7, <1>8, <1>9 DEF lease_time_out

\* A second brings the alarm, the end of the wait and the end of the lease
\* nearer by the same.
LEMMA TickAlarm ==
  ASSUME NoSignalInSetAlarm, TypeOK, ControlInv, AlarmInv, Tick
  PROVE  AlarmInv'
<1>1. pc' = pc /\ UNCHANGED <<addr, lease_time, t1_time, t2_time, dhcp_ack>>
  BY DEF Tick, globals
<1>2. pc[Running] \in Interruptible /\ ~Deliverable /\ Running' = Running
  BY <1>1 DEF Tick, At, Running
<1>3. /\ \A c \in Context : pc[c] \notin Arming
      /\ pc[Running] \notin Arming \cup {"release"}
  <2>1. \A c \in Context : pc[c] \notin Arming
    BY <1>2 DEF NoSignalInSetAlarm, ControlInv, HandlerAlone, Arming, Context,
                Running
  <2>2. pc[Running] = "release" => Running = "main" /\ timer = 1
    BY DEF TypeOK, Running, Tick, Between
  <2> QED BY <2>1, <2>2 DEF ControlInv, HandlerAlone, Running, Context
<1>4. /\ timer \in Nat /\ timer < IP_ADDRESS_LEASE_TIME
      /\ {t1_time, t2_time, IP_ADDRESS_LEASE_TIME, T2_REBIND_TIME} \subseteq Nat
      /\ t1_time < IP_ADDRESS_LEASE_TIME
      /\ t2_time # 0 => t2_time < IP_ADDRESS_LEASE_TIME
  BY TimeAssumption DEF TypeOK, Forever, AlarmInv, TimesInv
<1>5. /\ timer' = IF timer = 0 THEN 0 ELSE timer - 1
      /\ timer = 1 => pending'
      /\ pending => pending'
  <2>1. timer # Forever
    BY <1>4 DEF Forever
  <2>2. timer' = IF timer = 0 THEN 0 ELSE timer - 1
    BY <1>4, <2>1 DEF Tick
  <2>3. (timer = 1 => pending') /\ (pending => pending')
    BY Zenon DEF Tick
  <2> QED BY <2>2, <2>3
<1>6. ArmingInv'
  BY <1>1, <1>3 DEF ArmingInv
<1>7. TimesInv' /\ RenewalBehind'
  BY <1>1, <1>4, <1>5 DEF AlarmInv, TimesInv, RenewalBehind
<1>8. Bound' => Bound
  BY <1>1 DEF Bound, Tick, Alive
<1>9. AlarmRuns'
  BY <1>1, <1>2, <1>3, <1>4, <1>5, <1>8 DEF AlarmInv, AlarmRuns
<1>10. LeaseOutlastsAlarm'
  <2> SUFFICES ASSUME Bound'
               PROVE  /\ t1_time # 0 =>
                           left' >= timer' + (IP_ADDRESS_LEASE_TIME - t1_time)
                      /\ t1_time = 0 /\ t2_time # 0 /\ timer' > 0 =>
                           left' >= timer' + (IP_ADDRESS_LEASE_TIME - t2_time)
    BY <1>1 DEF LeaseOutlastsAlarm
  <2>1. Bound /\ left \in Int
    BY <1>8 DEF Bound, TypeOK
  <2>2. /\ t1_time # 0 => left >= timer + (IP_ADDRESS_LEASE_TIME - t1_time)
        /\ t1_time = 0 /\ t2_time # 0 /\ timer > 0 =>
             left >= timer + (IP_ADDRESS_LEASE_TIME - t2_time)
    BY <1>3, <2>1 DEF AlarmInv, LeaseOutlastsAlarm
  <2>3. left > 0 => left' = left - 1
    BY <2>1 DEF Tick, Bound
  <2>4. t1_time # 0 => pc["handler"] = "none"
    BY <1>3 DEF AlarmInv, RenewalBehind, Context
  <2>5. t1_time # 0 => ~pending
    BY <1>2, <2>1, <2>4 DEF Deliverable, Bound, Alive
  <2>6. t1_time # 0 => timer > 0
    BY <1>3, <2>1, <2>5 DEF AlarmInv, AlarmRuns
  <2> QED BY <1>4, <1>5, <2>1, <2>2, <2>3, <2>6
<1> QED BY <1>6, <1>7, <1>9, <1>10 DEF AlarmInv

\* No exchange, failure or signal, in whatever order, breaks the alarm's
\* invariant.
LEMMA AlarmInvariant ==
  ASSUME NoSignalInSetAlarm
  PROVE  Spec => []AlarmInv
<1>1. Init => AlarmInv
  <2> SUFFICES ASSUME Init PROVE AlarmInv
    OBVIOUS
  <2>1. /\ \A c \in Context : pc[c] \in {"menu", "none"}
        /\ pc["handler"] = "none" /\ ~Bound
        /\ t1_time = 0 /\ t2_time = 0 /\ timer = 0
    BY DEF Init, Context, Bound
  <2> QED BY <2>1, TimeAssumption
          DEF AlarmInv, ArmingInv, TimesInv, RenewalBehind, AlarmRuns,
              LeaseOutlastsAlarm, Arming
<1>2. TypeInv /\ ControlInv /\ AlarmInv /\ [Next]_vars => AlarmInv'
  <2> SUFFICES ASSUME TypeInv, ControlInv, AlarmInv, [Next]_vars
               PROVE  AlarmInv'
    OBVIOUS
  <2>1. TypeOK /\ HandlerAlone
    BY DEF TypeInv, ControlInv
  <2>2. CASE SendRelease
    BY <2>1, <2>2, AlarmUntouched, OneRuns, PlacesTyped
    DEF SendRelease, setup_interface_release, globals, clocks, Context, Arming
  <2>3. CASE (\E d \in Datagrams : Arrive(d)) \/ UNCHANGED vars
    BY <2>3 DEF Arrive, vars, globals, clocks, AlarmInv, ArmingInv, TimesInv,
                RenewalBehind, AlarmRuns, LeaseOutlastsAlarm, Running, Bound,
                Alive
  <2> QED BY <2>1, <2>2, <2>3, UserAlarm, ExchangeAlarm, HandlerAlarm,
             TickAlarm DEF Next, ClientStep, Exited
<1> QED BY <1>1, <1>2, TypeInvariant, ControlInvariant, PTL DEF Spec

\* A client that holds a leased address and waits always has an alarm running
\* or a SIGALRM on the way, provided that SIGALRM does not strike inside
\* set_alarm once it has set T1, where the code does lose the alarm, and that
\* the lease's times are those of TimeAssumption and, if a server gives a lease
\* time alone, of DerivedTimeAssumption.
THEOREM AlarmIsRunning ==
  ASSUME NoSignalInSetAlarm
  PROVE  Spec => []AlarmWhileBound
<1>1. AlarmInv => AlarmWhileBound
  BY DEF AlarmInv, AlarmRuns, AlarmWhileBound, Blocking, Waiting, Arming
<1> QED BY <1>1, AlarmInvariant, PTL

\* A client keeps an address beyond its lease only while its handler waits or
\* the last alarm, no longer than what T2 leaves of a lease, is running: under
\* the same two provisos.
THEOREM ExpiryIsHandled ==
  ASSUME NoSignalInSetAlarm
  PROVE  Spec => []ExpiredOnlyWhileHandling
<1>1. TypeInv /\ AlarmInv => ExpiredOnlyWhileHandling
  <2> SUFFICES ASSUME TypeOK, AlarmInv, Bound, pc[Running] \in Blocking,
                      left <= 0, ~pending
               PROVE  /\ t1_time = 0 /\ t2_time = 0
                      /\ timer \in 1 .. (IP_ADDRESS_LEASE_TIME - T2_REBIND_TIME)
    BY DEF ExpiredOnlyWhileHandling, TypeInv
  <2>1. pc[Running] \notin Arming \cup {"release"}
    BY DEF Blocking, Waiting, Arming
  <2>2. /\ timer \in Nat /\ left \in Int
        /\ {t1_time, t2_time, IP_ADDRESS_LEASE_TIME, T2_REBIND_TIME}
             \subseteq Nat
    BY TimeAssumption DEF TypeOK, Forever, Bound
  <2>3. timer > 0
    BY <2>1 DEF AlarmInv, AlarmRuns
  <2>4. t1_time = 0
    BY <2>1, <2>2, <2>3 DEF AlarmInv, LeaseOutlastsAlarm, TimesInv
  <2>5. t2_time = 0
    BY <2>1, <2>2, <2>3, <2>4 DEF AlarmInv, LeaseOutlastsAlarm, TimesInv
  <2> QED BY <2>2, <2>3, <2>4, <2>5 DEF AlarmInv, TimesInv
<1> QED BY <1>1, TypeInvariant, AlarmInvariant, PTL
=============================================================================
