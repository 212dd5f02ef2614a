-------------------------------- MODULE Echo --------------------------------
(***************************************************************************)
(* l6-EchoServer.c and instances of l6-EchoClient.c.  A client sends each  *)
(* of its words in a datagram of its own and ends; the server prints what  *)
(* it receives and answers nothing.  Datagrams are lost, duplicated and    *)
(* reordered.                                                              *)
(*                                                                         *)
(* echoBuffer is kept with the byte before it, index 0, and the byte after *)
(* it, which belong to other variables of main.  The compiler may let      *)
(* those variables write their bytes between two rounds.                   *)
(***************************************************************************)
EXTENDS Integers, Sequences, FiniteSets

CONSTANTS
  Client,
  Words,        \* what a client can be given to send
  ECHOMAX,
  Garbage       \* what may be in echoBuffer before the first round

NUL == "NUL"
Other == "other"

\* A word is an argument of main, a string without a NUL in it.
ASSUME EchoAssumption ==
  /\ ECHOMAX \in Nat \ {0}
  /\ Words \subseteq Seq(STRING)
  /\ \A w \in Words : \A i \in DOMAIN w : w[i] # NUL
  /\ \A g \in Garbage : DOMAIN g = 0 .. (ECHOMAX + 1) /\ g[ECHOMAX + 1] = NUL

VARIABLES
  argv,         \* the words each client has yet to send
  sent,         \* the words sent so far
  network,      \* datagrams that can still arrive
  echoBuffer,
  recvMsgSize,  \* what the last recvfrom returned
  printed       \* the string printed last

vars == <<argv, sent, network, echoBuffer, recvMsgSize, printed>>

-----------------------------------------------------------------------------
\* One round of the client's loop.  A word longer than ECHOMAX is complained of
\* and sent all the same.
SendWord(c) ==
  /\ argv[c] # <<>>
  /\ argv' = [argv EXCEPT ![c] = Tail(@)]
  /\ sent' = sent \cup {Head(argv[c])}
  /\ network' = network \cup {Head(argv[c])}
  /\ UNCHANGED <<echoBuffer, recvMsgSize, printed>>

\* A datagram will not arrive, or not arrive again.
Lose(w) ==
  /\ w \in network
  /\ network' = network \ {w}
  /\ UNCHANGED <<argv, sent, echoBuffer, recvMsgSize, printed>>

\* A slip a programmer could make, which breaks the property below.
Terminate_Not(buf, n) == buf

\* echoBuffer[recvMsgSize] = '\0', with the index of the C array.
Terminate(buf, n) == [buf EXCEPT ![n + 1] = NUL]

\* What printf makes of the buffer: everything before the first NUL.
CString(buf) ==
  LET end == CHOOSE i \in 1 .. (ECHOMAX + 1) :
               /\ buf[i] = NUL \/ i = ECHOMAX + 1
               /\ \A j \in 1 .. (i - 1) : buf[j] # NUL
  IN  [i \in 1 .. (end - 1) |-> buf[i]]
        \o (IF buf[end] = NUL THEN <<>> ELSE <<Other>>)

\* recvfrom cuts a datagram at ECHOMAX bytes.
Cut(w) == SubSeq(w, 1, IF Len(w) > ECHOMAX THEN ECHOMAX ELSE Len(w))

\* The variables around echoBuffer have been written, or not.
Neighbours ==
  {[echoBuffer EXCEPT ![0] = b, ![ECHOMAX + 1] = a] :
     b \in {echoBuffer[0], Other}, a \in {echoBuffer[ECHOMAX + 1], Other}}

\* The rest of a round once recvfrom has returned n.
PrintBuffer(buf, n) ==
  /\ recvMsgSize' = n
  /\ echoBuffer' = Terminate(buf, n)
  /\ printed' = CString(echoBuffer')

Receive(w) ==
  /\ w \in network
  /\ \E buf \in Neighbours :
       PrintBuffer([i \in DOMAIN buf |->
                      IF i \in DOMAIN Cut(w) THEN w[i] ELSE buf[i]], Len(Cut(w)))
  /\ UNCHANGED <<argv, sent, network>>

\* recvfrom returns -1, which is said and then used as the index.
ReceiveFails ==
  /\ \E buf \in Neighbours : PrintBuffer(buf, -1)
  /\ UNCHANGED <<argv, sent, network>>

Init ==
  /\ argv \in [Client -> {<<>>} \cup {<<w>> : w \in Words}
                               \cup {<<v, w>> : v \in Words, w \in Words}]
  /\ sent = {} /\ network = {}
  /\ echoBuffer \in Garbage
  /\ recvMsgSize = -1
  /\ printed = <<>>

Next ==
  \/ \E c \in Client : SendWord(c)
  \/ \E w \in network : Lose(w) \/ Receive(w)
  \/ ReceiveFails

Spec == Init /\ [][Next]_vars

-----------------------------------------------------------------------------
(* A property that holds. *)

\* What is printed for a datagram is a word a client sent, cut at ECHOMAX: no
\* end of a longer word that came before hangs on to a shorter one, though
\* nothing clears the buffer, and a full buffer is terminated.
PrintedWasSent ==
  recvMsgSize >= 0 => \E w \in sent : printed = Cut(w)
=============================================================================
