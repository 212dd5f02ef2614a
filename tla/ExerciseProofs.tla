--------------------------- MODULE ExerciseProofs ---------------------------
(***************************************************************************)
(* Proofs about the two exercises modelled, Echo and AppendFile.  They     *)
(* have nothing in common but this module; the names of AppendFile's       *)
(* specification are such that both can be extended.                       *)
(***************************************************************************)
EXTENDS Echo, AppendFile, SequenceTheorems, WellFoundedInduction, TLAPS

-----------------------------------------------------------------------------
(* Echo, for every size of the buffer and every set of words.                 *)

Buffer == 0 .. (ECHOMAX + 1)

\* The buffer has a string of n characters, whatever is behind it.
Holds(buffer, n) ==
  /\ DOMAIN buffer = Buffer
  /\ n \in 0 .. ECHOMAX
  /\ buffer[n + 1] = NUL
  /\ \A j \in 1 .. n : buffer[j] # NUL

\* printf prints that string.
LEMMA StringHeld ==
  ASSUME NEW buffer, NEW n, Holds(buffer, n)
  PROVE  CString(buffer) = [i \in 1 .. n |-> buffer[i]]
<1> DEFINE E(i) == /\ buffer[i] = NUL \/ i = ECHOMAX + 1
                   /\ \A j \in 1 .. (i - 1) : buffer[j] # NUL
           end == CHOOSE i \in 1 .. (ECHOMAX + 1) : E(i)
<1>1. ECHOMAX \in Nat /\ n \in Nat /\ n <= ECHOMAX
  BY EchoAssumption DEF Holds
<1>2. n + 1 \in 1 .. (ECHOMAX + 1) /\ E(n + 1)
  BY <1>1 DEF Holds
<1>3. end \in 1 .. (ECHOMAX + 1) /\ E(end)
  BY <1>2
<1>4. \A i \in 1 .. (ECHOMAX + 1) : E(i) => i = n + 1
  <2> SUFFICES ASSUME NEW i \in 1 .. (ECHOMAX + 1), E(i) PROVE i = n + 1
    OBVIOUS
  <2>1. ~(n + 1 < i)
    BY <1>1 DEF Holds
  <2>2. ~(i < n + 1)
    BY <1>1 DEF Holds
  <2> QED BY <1>1, <2>1, <2>2
<1>5. end = n + 1
  BY <1>3, <1>4
<1>6. CString(buffer) = [i \in 1 .. (end - 1) |-> buffer[i]]
                       \o (IF buffer[end] = NUL THEN <<>> ELSE <<Other>>)
  BY DEF CString
<1> HIDE DEF end
<1>7. CString(buffer) = [i \in 1 .. n |-> buffer[i]] \o <<>>
  BY <1>1, <1>5, <1>6 DEF Holds
<1>8. [i \in 1 .. n |-> buffer[i]] \in Seq({buffer[i] : i \in 1 .. n})
  BY <1>1, IsASeq
<1> QED BY <1>7, <1>8, ConcatEmptySeq

\* What recvfrom stores of a word.
LEMMA CutProperties ==
  ASSUME NEW w \in Words
  PROVE  /\ Len(Cut(w)) \in 0 .. ECHOMAX
         /\ DOMAIN Cut(w) = 1 .. Len(Cut(w))
         /\ Cut(w) = [i \in 1 .. Len(Cut(w)) |-> w[i]]
         /\ \A i \in 1 .. Len(Cut(w)) : w[i] # NUL
<1> DEFINE n == IF Len(w) > ECHOMAX THEN ECHOMAX ELSE Len(w)
<1>1. /\ w \in Seq(STRING) /\ ECHOMAX \in Nat
      /\ \A i \in DOMAIN w : w[i] # NUL
  BY EchoAssumption
<1>2. DOMAIN w = 1 .. Len(w) /\ Len(w) \in Nat
  BY <1>1, LenProperties
<1>3. n \in 0 .. ECHOMAX /\ n <= Len(w) /\ n \in Nat
  BY <1>1, <1>2
<1>4. Cut(w) = SubSeq(w, 1, n)
  BY DEF Cut
<1> HIDE DEF n
<1>5. Cut(w) = [i \in 1 .. n |-> w[i]] /\ Len(Cut(w)) = n
  BY <1>1, <1>2, <1>3, <1>4
<1> QED BY <1>1, <1>2, <1>3, <1>5

\* What is sent and on its way is a word of a client, and so is what was
\* printed for a datagram.
EchoInv ==
  /\ argv \in [Client -> Seq(Words)]
  /\ sent \subseteq Words /\ network \subseteq sent
  /\ DOMAIN echoBuffer = Buffer
  /\ recvMsgSize \in -1 .. ECHOMAX
  /\ recvMsgSize >= 0 => \E w \in sent : printed = Cut(w)

\* The neighbours of the buffer do not reach into it.
LEMMA NeighboursProperties ==
  ASSUME EchoInv, NEW buffer \in Neighbours
  PROVE  /\ DOMAIN buffer = Buffer
         /\ \A i \in 1 .. ECHOMAX : buffer[i] = echoBuffer[i]
<1>1. PICK a, b :
        buffer = [echoBuffer EXCEPT ![0] = b, ![ECHOMAX + 1] = a]
  BY DEF Neighbours
<1> QED BY <1>1, EchoAssumption DEF EchoInv, Buffer

\* A round for a datagram prints the datagram.
LEMMA ReceivePrints ==
  ASSUME EchoInv, NEW w \in network, Receive(w)
  PROVE  /\ recvMsgSize' = Len(Cut(w)) /\ Holds(echoBuffer', Len(Cut(w)))
         /\ printed' = Cut(w)
         /\ UNCHANGED <<argv, sent, network>>
<1> DEFINE n == Len(Cut(w))
<1>1. w \in Words
  BY DEF EchoInv
<1>2. /\ n \in 0 .. ECHOMAX /\ DOMAIN Cut(w) = 1 .. n
      /\ Cut(w) = [i \in 1 .. n |-> w[i]]
      /\ \A i \in 1 .. n : w[i] # NUL
  BY <1>1, CutProperties
<1>3. PICK buffer \in Neighbours :
        PrintBuffer([i \in DOMAIN buffer |->
          IF i \in DOMAIN Cut(w) THEN w[i] ELSE buffer[i]], n)
  BY DEF Receive
<1> DEFINE full == [i \in DOMAIN buffer |->
                      IF i \in DOMAIN Cut(w) THEN w[i] ELSE buffer[i]]
<1>4. /\ recvMsgSize' = n /\ echoBuffer' = [full EXCEPT ![n + 1] = NUL]
      /\ printed' = CString(echoBuffer')
  BY <1>3 DEF PrintBuffer, Terminate
<1> HIDE DEF n
<1>5. DOMAIN full = Buffer /\ \A i \in 1 .. n : full[i] = w[i]
  BY <1>2, <1>3, NeighboursProperties, EchoAssumption DEF Buffer
<1> HIDE DEF full
<1>6. /\ DOMAIN echoBuffer' = Buffer /\ echoBuffer'[n + 1] = NUL
      /\ \A i \in 1 .. n : echoBuffer'[i] = w[i]
  BY <1>2, <1>4, <1>5, EchoAssumption DEF Buffer
<1>7. Holds(echoBuffer', n)
  BY <1>2, <1>6 DEF Holds
<1>8. printed' = [i \in 1 .. n |-> echoBuffer'[i]]
  BY <1>4, <1>7, StringHeld
<1>9. printed' = Cut(w)
  BY <1>2, <1>6, <1>8
<1> QED BY <1>4, <1>7, <1>8, <1>9 DEF Receive, n

\* A round after a failed recvfrom.
LEMMA FailurePrints ==
  ASSUME EchoInv, ReceiveFails
  PROVE  /\ recvMsgSize' = -1 /\ DOMAIN echoBuffer' = Buffer
         /\ UNCHANGED <<argv, sent, network>>
<1>1. PICK buffer \in Neighbours : PrintBuffer(buffer, -1)
  BY DEF ReceiveFails
<1>2. DOMAIN buffer = Buffer
  BY NeighboursProperties
<1>3. recvMsgSize' = -1 /\ echoBuffer' = [buffer EXCEPT ![0] = NUL]
  BY <1>1 DEF PrintBuffer, Terminate
<1> QED BY <1>2, <1>3 DEF ReceiveFails

\* EchoInv is inductive.
LEMMA EchoInvariant == Spec => []EchoInv
<1>1. Init => EchoInv
  <2> SUFFICES ASSUME Init PROVE EchoInv
    OBVIOUS
  <2>1. ASSUME NEW c \in Client
        PROVE  argv[c] \in Seq(Words)
    <3>1. \/ argv[c] = <<>>
          \/ \E w \in Words : argv[c] = <<w>>
          \/ \E v \in Words, w \in Words : argv[c] = <<v, w>>
      BY DEF Init
    <3>2. CASE argv[c] = <<>>
      BY <3>2, EmptySeq
    <3>3. ASSUME NEW w \in Words, argv[c] = <<w>>
          PROVE  argv[c] \in Seq(Words)
      BY <3>3
    <3>4. ASSUME NEW v \in Words, NEW w \in Words, argv[c] = <<v, w>>
          PROVE  argv[c] \in Seq(Words)
      BY <3>4
    <3> QED BY <3>1, <3>2, <3>3, <3>4
  <2>2. argv \in [Client -> Seq(Words)]
    BY <2>1 DEF Init
  <2>3. DOMAIN echoBuffer = Buffer
    BY EchoAssumption DEF Init, Buffer
  <2> QED BY <2>2, <2>3, EchoAssumption DEF Init, EchoInv
<1>2. EchoInv /\ [Next]_vars => EchoInv'
  <2> SUFFICES ASSUME EchoInv, [Next]_vars PROVE EchoInv'
    OBVIOUS
  <2>1. ASSUME NEW c \in Client, SendWord(c)
        PROVE  EchoInv'
    <3>1. /\ argv[c] \in Seq(Words) /\ argv[c] # <<>>
          /\ argv' = [argv EXCEPT ![c] = Tail(argv[c])]
      BY <2>1 DEF EchoInv, SendWord
    <3>2. Head(argv[c]) \in Words /\ Tail(argv[c]) \in Seq(Words)
      BY <3>1, HeadTailProperties
    <3>3. argv' \in [Client -> Seq(Words)]
      BY <3>1, <3>2 DEF EchoInv
    <3>4. /\ sent' \subseteq Words /\ network' \subseteq sent'
          /\ sent \subseteq sent'
      BY <2>1, <3>2 DEF EchoInv, SendWord
    <3>5. UNCHANGED <<echoBuffer, recvMsgSize, printed>>
      BY <2>1 DEF SendWord
    <3> QED BY <3>3, <3>4, <3>5 DEF EchoInv
  <2>2. ASSUME NEW w \in network, Lose(w)
        PROVE  EchoInv'
    BY <2>2 DEF Lose, EchoInv
  <2>3. ASSUME NEW w \in network, Receive(w)
        PROVE  EchoInv'
    <3> DEFINE n == Len(Cut(w))
    <3>1. /\ recvMsgSize' = n /\ Holds(echoBuffer', n)
          /\ printed' = Cut(w)
          /\ UNCHANGED <<argv, sent, network>>
      BY <2>3, ReceivePrints
    <3> HIDE DEF n
    <3>2. \E v \in sent' : printed' = Cut(v)
      BY <3>1 DEF EchoInv
    <3>3. n \in -1 .. ECHOMAX /\ DOMAIN echoBuffer' = Buffer
      BY <3>1, EchoAssumption DEF Holds
    <3> QED BY <3>1, <3>2, <3>3 DEF EchoInv
  <2>4. CASE ReceiveFails
    <3>1. -1 \in -1 .. ECHOMAX
      BY EchoAssumption
    <3> QED BY <2>4, <3>1, FailurePrints DEF EchoInv
  <2>5. CASE UNCHANGED vars
    BY <2>5 DEF vars, EchoInv
  <2> QED BY <2>1, <2>2, <2>3, <2>4, <2>5 DEF Next
<1> QED BY <1>1, <1>2, PTL DEF Spec

\* What the server prints for a datagram is a word a client sent, cut at
\* ECHOMAX, for every size of the buffer and whatever was in it.
THEOREM OnlySentWordsArePrinted == Spec => []PrintedWasSent
<1>1. EchoInv => PrintedWasSent
  BY DEF EchoInv, PrintedWasSent
<1> QED BY <1>1, EchoInvariant, PTL

-----------------------------------------------------------------------------
(* AppendFile, for files of any contents and any length.                      *)

\* What a prefix is, by its positions.
LEMMA PrefixPositions ==
  ASSUME NEW S, NEW p \in Seq(S), NEW q \in Seq(S)
  PROVE  IsPrefix(p, q) <=>
           Len(p) <= Len(q) /\ \A i \in 1 .. Len(p) : p[i] = q[i]
<1>1. Len(p) \in Nat /\ Len(q) \in Nat
  BY LenProperties
<1>2. SubSeq(p, 1, Len(p)) = [i \in 1 .. Len(p) |-> p[i]]
  BY <1>1
<1>3. ASSUME Len(p) <= Len(q)
      PROVE  SubSeq(q, 1, Len(p)) = [i \in 1 .. Len(p) |-> q[i]]
  BY <1>1, <1>3
<1>4. ASSUME IsPrefix(p, q)
      PROVE  Len(p) <= Len(q) /\ \A i \in 1 .. Len(p) : p[i] = q[i]
  <2>1. /\ Len(p) <= Len(q)
        /\ [i \in 1 .. Len(p) |-> p[i]] = [i \in 1 .. Len(p) |-> q[i]]
    BY <1>2, <1>3, <1>4 DEF IsPrefix
  <2> QED BY <2>1
<1>5. ASSUME Len(p) <= Len(q), \A i \in 1 .. Len(p) : p[i] = q[i]
      PROVE  IsPrefix(p, q)
  BY <1>2, <1>3, <1>5 DEF IsPrefix
<1> QED BY <1>4, <1>5

\* What is in front of a file stays there when something is appended.
LEMMA PrefixAppended ==
  ASSUME NEW S, NEW p \in Seq(S), NEW q \in Seq(S), NEW r \in Seq(S),
         IsPrefix(p, q)
  PROVE  IsPrefix(p, q \o r)
<1>1. Len(p) \in Nat /\ Len(q) \in Nat /\ Len(r) \in Nat
  BY LenProperties
<1>2. Len(p) <= Len(q) /\ \A i \in 1 .. Len(p) : p[i] = q[i]
  BY PrefixPositions
<1>3. q \o r \in Seq(S) /\ Len(q \o r) = Len(q) + Len(r)
  BY ConcatProperties
<1>4. \A i \in 1 .. Len(q) : (q \o r)[i] = q[i]
  BY <1>1, ConcatProperties
<1>5. Len(p) <= Len(q \o r) /\ \A i \in 1 .. Len(p) : p[i] = (q \o r)[i]
  BY <1>1, <1>2, <1>3, <1>4
<1> QED BY <1>3, <1>5, PrefixPositions

\* A word of five characters.
LEMMA FiveCharacters ==
  ASSUME NEW S, NEW a \in S, NEW b \in S, NEW c \in S, NEW d \in S, NEW e \in S
  PROVE  <<a, b, c, d, e>> \in Seq(S)
OBVIOUS

\* What can be in a file.
Byte ==
  {"H", "i", "A", "b", Uninitialised} \cup UNION {Range(c) : c \in Contents}

\* The contents of a file are bytes.
LEMMA ContentsTyped ==
  ASSUME NEW c \in Contents
  PROVE  c \in Seq(Byte)
<1>1. c \in Seq(Range(c)) /\ Range(c) \subseteq Byte
  BY AppendAssumption DEF Byte
<1> HIDE DEF Byte
<1> QED BY <1>1

\* l4-2 reads from the start, and buf has one character.
ReadInv ==
  /\ test1 \in Seq(Byte)
  /\ test2 \in Contents \cup {Directory, Missing}
  /\ buf \in Byte
  /\ fd2 \in Nat
  /\ off.l42 \in Nat
  /\ pc.l42 = "read" => off.l42 = 0
  /\ pc.l41 \in {"read", "write"} => test2 # Missing
  /\ DOMAIN pc = {"l41", "l42"} /\ DOMAIN off = {"l41", "l42"}
  /\ s # NotRead => s \in Seq(Byte) /\ IsPrefix(s, test1)

\* A write with O_APPEND.
LEMMA WriteKeeps ==
  ASSUME ReadInv, NEW p \in {"l41", "l42"}, NEW bytes \in Seq(Byte),
         Write(p, bytes), UNCHANGED s
  PROVE  /\ test1' \in Seq(Byte) /\ Len(test1') \in Nat
         /\ off' = [off EXCEPT ![p] = Len(test1')]
         /\ s' # NotRead => s' \in Seq(Byte) /\ IsPrefix(s', test1')
<1>1. test1' = test1 \o bytes /\ off' = [off EXCEPT ![p] = Len(test1')]
  BY DEF Write
<1>2. test1 \o bytes \in Seq(Byte)
  BY ConcatProperties DEF ReadInv
<1>3. Len(test1') \in Nat
  BY <1>1, <1>2, LenProperties
<1>4. s # NotRead => IsPrefix(s, test1 \o bytes)
  BY PrefixAppended DEF ReadInv
<1> QED BY <1>1, <1>2, <1>3, <1>4 DEF ReadInv

\* ReadInv is inductive.
LEMMA ReadInvariant == AppendSpec => []ReadInv
<1>1. AppendInit => ReadInv
  <2> SUFFICES ASSUME AppendInit PROVE ReadInv
    OBVIOUS
  <2>1. test1 \in Seq(Byte) /\ buf \in Byte
    BY ContentsTyped DEF AppendInit, Byte
  <2>2. /\ pc.l41 = "open" /\ pc.l42 = "open" /\ off.l42 = 0
        /\ DOMAIN pc = {"l41", "l42"} /\ DOMAIN off = {"l41", "l42"}
    BY DEF AppendInit
  <2> QED BY <2>1, <2>2 DEF AppendInit, ReadInv
<1>2. ReadInv /\ [AppendNext]_appendVars => ReadInv'
  <2> SUFFICES ASSUME ReadInv, [AppendNext]_appendVars PROVE ReadInv'
    OBVIOUS
  <2>1. CASE Open1
    BY <2>1 DEF Open1, Goto, ReadInv
  <2>2. CASE Read1
    <3>1. buf' \in Byte /\ fd2' \in Nat
      <4>1. CASE /\ test2 # Directory /\ fd2 < Len(test2)
                 /\ buf' = test2[fd2 + 1] /\ fd2' = fd2 + 1
        <5>1. test2 \in Contents
          BY <2>2, <4>1 DEF Read1, ReadInv
        <5>2. test2 \in Seq(Byte) /\ Len(test2) \in Nat
          BY <5>1, ContentsTyped, LenProperties
        <5>3. fd2 + 1 \in 1 .. Len(test2)
          BY <4>1, <5>2 DEF ReadInv
        <5> QED BY <4>1, <5>2, <5>3 DEF ReadInv
      <4> QED BY <2>2, <4>1 DEF Read1, ReadInv
    <3> QED BY <2>2, <3>1 DEF Read1, Goto, ReadInv
  <2>3. CASE Write1
    <3>1. <<buf>> \in Seq(Byte)
      BY DEF ReadInv
    <3> QED BY <2>3, <3>1, WriteKeeps DEF Write1, Goto, ReadInv
  <2>4. CASE Open2
    BY <2>4 DEF Open2, Goto, ReadInv
  <2>5. CASE WriteHiiii
    <3>1. Hiiii \in Seq(Byte)
      BY FiveCharacters DEF Hiiii, Byte
    <3> QED BY <2>5, <3>1, WriteKeeps DEF WriteHiiii, Goto, ReadInv
  <2>6. CASE Rewind
    BY <2>6 DEF Rewind, Goto, ReadInv
  <2>7. CASE Read2
    <3> DEFINE n == Min({off.l42 + ReadLimit, Len(test1)})
    <3>1. test1 \in Seq(Byte) /\ Len(test1) \in Nat /\ off.l42 = 0
      BY <2>7, LenProperties DEF Read2, ReadInv
    <3>2. n \in 0 .. Len(test1)
      <4>1. ReadLimit \in Nat
        BY AppendAssumption
      <4>2. \E x \in {ReadLimit, Len(test1)} :
              \A y \in {ReadLimit, Len(test1)} : x <= y
        BY <3>1, <4>1
      <4>3. /\ n \in {ReadLimit, Len(test1)}
            /\ \A y \in {ReadLimit, Len(test1)} : n <= y
        BY <3>1, <4>1, <4>2 DEF Min
      <4> QED BY <3>1, <4>1, <4>3
    <3>3. s' = SubSeq(test1, 1, n) /\ test1' = test1
      BY <2>7, <3>1 DEF Read2
    <3> HIDE DEF n
    <3>4. /\ s' \in Seq(Byte) /\ Len(s') = n
          /\ \A i \in 1 .. n : s'[i] = test1[i]
      BY <3>1, <3>2, <3>3, SubSeqProperties
    <3>5. IsPrefix(s', test1)
      <4>1. Len(s') <= Len(test1) /\ \A i \in 1 .. Len(s') : s'[i] = test1[i]
        BY <3>1, <3>2, <3>4
      <4> QED BY <3>1, <3>4, <4>1, PrefixPositions, Zenon
    <3>6. /\ off' = [off EXCEPT !["l42"] = n]
          /\ pc' = [pc EXCEPT !["l42"] = "rewind"]
          /\ UNCHANGED <<test1, test2, fd2, buf>>
      <4>1. off.l42 + Len(s') = n
        BY <3>1, <3>2, <3>4
      <4>2. off' = [off EXCEPT !.l42 = off.l42 + Len(s')]
        BY <2>7, Zenon DEF Read2
      <4>3. off' = [off EXCEPT !["l42"] = n]
        BY <4>1, <4>2, Zenon
      <4>4. /\ pc' = [pc EXCEPT !["l42"] = "rewind"]
            /\ UNCHANGED <<test1, test2, fd2, buf>>
        BY <2>7, Zenon DEF Read2, Goto
      <4> QED BY <4>3, <4>4
    <3> QED BY <3>2, <3>4, <3>5, <3>6 DEF ReadInv
  <2>8. CASE WriteAbbbb
    <3>1. Abbbb \in Seq(Byte)
      BY FiveCharacters DEF Abbbb, Byte
    <3> QED BY <2>8, <3>1, WriteKeeps DEF WriteAbbbb, Goto, ReadInv
  <2>9. CASE UNCHANGED appendVars
    BY <2>9 DEF appendVars, ReadInv
  <2> QED BY <2>1, <2>2, <2>3, <2>4, <2>5, <2>6, <2>7, <2>8, <2>9
          DEF AppendNext, Step1, Step2
<1> QED BY <1>1, <1>2, PTL DEF AppendSpec

\* What l4-2 printed is what the file begins with, ever after, whatever both
\* programs append and however long the file is: lseek to the start before a
\* write of a file opened with O_APPEND overwrites nothing.
THEOREM PrintedStaysTrue == AppendSpec => []ReadStaysTrue
<1>1. ReadInv => ReadStaysTrue
  BY DEF ReadInv, ReadStaysTrue
<1> QED BY <1>1, ReadInvariant, PTL

-----------------------------------------------------------------------------
(* What Filter makes of a file that grows.                                    *)

\* kept goes through f up to m.
Keeps(kept, f, set, m) ==
  /\ DOMAIN kept = 0 .. m /\ kept[0] = <<>>
  /\ \A i \in 1 .. m :
       kept[i] = IF f[i] \in set THEN Append(kept[i - 1], f[i]) ELSE kept[i - 1]

\* A set of numbers has a first one.
LEMMA FirstNumber ==
  ASSUME NEW S, S \subseteq Nat, S # {}
  PROVE  \E i \in S : \A j \in S : i <= j
<1>1. PICK i \in S : \A j \in S : ~(<<j, i>> \in OpToRel(<, Nat))
  BY NatLessThanWellFounded, WFMin
<1>2. ASSUME NEW j \in S PROVE i <= j
  <2>1. <<j, i>> \notin OpToRel(<, Nat)
    BY <1>1
  <2>2. i \in Nat /\ j \in Nat
    OBVIOUS
  <2>3. ~(j < i)
    BY <2>1, <2>2 DEF OpToRel
  <2> QED BY <2>2, <2>3
<1> QED BY <1>2

\* Some function goes through the whole of f: one goes no step, and one that
\* goes m - 1 steps can be made to go one more.
LEMMA KeptExists ==
  ASSUME NEW f, NEW set, NEW n \in Nat
  PROVE  \E kept : Keeps(kept, f, set, n)
<1> DEFINE S == {k \in Nat : ~ \E kept : Keeps(kept, f, set, k)}
<1>1. SUFFICES ASSUME S # {} PROVE FALSE
  OBVIOUS
<1>2. PICK k \in S : \A j \in S : k <= j
  <2>1. S \subseteq Nat
    OBVIOUS
  <2> HIDE DEF S
  <2> QED BY <1>1, <2>1, FirstNumber
<1>3. k \in Nat /\ ~ \E kept : Keeps(kept, f, set, k)
  BY <1>2
<1>4. CASE k = 0
  <2> DEFINE g == [i \in 0 .. 0 |-> <<>>]
  <2>1. Keeps(g, f, set, 0)
    BY DEF Keeps
  <2> QED BY <1>3, <1>4, <2>1
<1>5. CASE k # 0
  <2>1. k - 1 \in Nat /\ k - 1 \notin S
    BY <1>2, <1>3, <1>5
  <2>2. PICK h : Keeps(h, f, set, k - 1)
    BY <2>1
  <2> DEFINE last == IF f[k] \in set THEN Append(h[k - 1], f[k]) ELSE h[k - 1]
             g == [i \in 0 .. k |-> IF i = k THEN last ELSE h[i]]
  <2> HIDE DEF last
  <2>3. g[k] = last /\ \A i \in 0 .. (k - 1) : g[i] = h[i]
    BY <1>3
  <2>4. DOMAIN g = 0 .. k
    OBVIOUS
  <2> HIDE DEF g
  <2>5. ASSUME NEW i \in 1 .. k
        PROVE  g[i] = IF f[i] \in set THEN Append(g[i - 1], f[i]) ELSE g[i - 1]
    <3>1. CASE i = k
      <4>1. g[i - 1] = h[k - 1]
        BY <1>3, <1>5, <2>3, <3>1
      <4> QED BY <2>3, <3>1, <4>1 DEF last
    <3>2. CASE i # k
      <4>1. i \in 1 .. (k - 1) /\ i \in 0 .. (k - 1) /\ i - 1 \in 0 .. (k - 1)
        BY <1>3, <3>2
      <4>2. g[i] = h[i] /\ g[i - 1] = h[i - 1]
        BY <2>3, <4>1
      <4>3. h[i] = IF f[i] \in set THEN Append(h[i - 1], f[i]) ELSE h[i - 1]
        BY <2>2, <4>1 DEF Keeps
      <4> QED BY <4>2, <4>3
    <3> QED BY <3>1, <3>2
  <2>6. g[0] = <<>>
    BY <1>3, <1>5, <2>2, <2>3 DEF Keeps
  <2>7. Keeps(g, f, set, k)
    BY <2>4, <2>5, <2>6 DEF Keeps
  <2> QED BY <1>3, <2>7
<1> QED BY <1>4, <1>5

\* Filter is the last value of such a function.
LEMMA FilterKeeps ==
  ASSUME NEW f, NEW set, Len(f) \in Nat
  PROVE  \E kept : Keeps(kept, f, set, Len(f)) /\ Filter(f, set) = kept[Len(f)]
<1> DEFINE n == Len(f)
           D(g) == g = [i \in 0 .. n |->
                          IF i = 0 THEN <<>>
                          ELSE IF f[i] \in set THEN Append(g[i - 1], f[i])
                          ELSE g[i - 1]]
           kept == CHOOSE g : D(g)
<1>1. PICK h : Keeps(h, f, set, n)
  BY KeptExists
<1>2. Filter(f, set) = kept[n]
  BY Zenon DEF Filter
<1> HIDE DEF n
<1>3. D([i \in 0 .. n |-> h[i]])
  <2> DEFINE g == [i \in 0 .. n |-> h[i]]
             E(i) == IF i = 0 THEN <<>>
                     ELSE IF f[i] \in set THEN Append(g[i - 1], f[i])
                     ELSE g[i - 1]
  <2>1. n \in Nat
    BY DEF n
  <2>2. ASSUME NEW i \in 0 .. n PROVE g[i] = E(i)
    <3>1. CASE i = 0
      BY <1>1, <3>1 DEF Keeps
    <3>2. CASE i # 0
      <4>1. i \in 1 .. n /\ i - 1 \in 0 .. n
        BY <2>1, <3>2
      <4>2. g[i] = h[i] /\ g[i - 1] = h[i - 1]
        BY <4>1
      <4>3. h[i] = IF f[i] \in set THEN Append(h[i - 1], f[i]) ELSE h[i - 1]
        BY <1>1, <4>1, Zenon DEF Keeps
      <4> HIDE DEF g
      <4> QED BY <3>2, <4>2, <4>3
    <3> QED BY <3>1, <3>2
  <2>3. g = [i \in 0 .. n |-> g[i]]
    OBVIOUS
  <2> HIDE DEF g
  <2>4. g = [i \in 0 .. n |-> E(i)]
    BY <2>2, <2>3
  <2> QED BY <2>4 DEF g
<1>4. D(kept)
  BY <1>3, Zenon
<1> HIDE DEF kept
<1>5. Keeps(kept, f, set, n)
  <2>1. n \in Nat
    BY DEF n
  <2>2. DOMAIN kept = 0 .. n
    BY <1>4
  <2>3. ASSUME NEW i \in 0 .. n
        PROVE  kept[i] = IF i = 0 THEN <<>>
                         ELSE IF f[i] \in set THEN Append(kept[i - 1], f[i])
                         ELSE kept[i - 1]
    BY <1>4
  <2>4. kept[0] = <<>>
    <3>1. 0 \in 0 .. n
      BY <2>1
    <3> QED BY <2>3, <3>1, Zenon
  <2>5. ASSUME NEW i \in 1 .. n
        PROVE  kept[i] = IF f[i] \in set THEN Append(kept[i - 1], f[i])
                         ELSE kept[i - 1]
    <3>1. i \in 0 .. n /\ i # 0
      BY <2>1
    <3> QED BY <2>3, <3>1
  <2> QED BY <2>2, <2>4, <2>5 DEF Keeps
<1> QED BY <1>2, <1>5 DEF n

\* One more character.
LEMMA FilterAppend ==
  ASSUME NEW S, NEW f \in Seq(S), NEW x \in S, NEW set
  PROVE  Filter(Append(f, x), set) =
           IF x \in set THEN Append(Filter(f, set), x) ELSE Filter(f, set)
<1> DEFINE g == Append(f, x)
           n == Len(f)
<1>1. /\ n \in Nat /\ Len(g) = n + 1 /\ g[n + 1] = x
      /\ \A i \in 1 .. n : g[i] = f[i]
  BY LenProperties, AppendProperties
<1> HIDE DEF g, n
<1>2. PICK F : Keeps(F, f, set, n) /\ Filter(f, set) = F[n]
  BY <1>1, FilterKeeps DEF n
<1>3. PICK G : Keeps(G, g, set, n + 1) /\ Filter(g, set) = G[n + 1]
  <2>1. Len(g) \in Nat
    BY <1>1
  <2> QED BY <1>1, <2>1, FilterKeeps
<1>4. \A i \in 0 .. n : G[i] = F[i]
  <2> DEFINE T == {i \in 0 .. n : G[i] # F[i]}
  <2>1. SUFFICES ASSUME T # {} PROVE FALSE
    OBVIOUS
  <2>2. PICK k \in T : \A j \in T : k <= j
    <3>1. T \subseteq Nat
      OBVIOUS
    <3> HIDE DEF T
    <3> QED BY <2>1, <3>1, FirstNumber
  <2>3. k # 0
    <3>1. G[0] = F[0]
      BY <1>2, <1>3, Zenon DEF Keeps
    <3> QED BY <2>2, <3>1
  <2>4. /\ k \in 1 .. n /\ k \in 1 .. (n + 1)
        /\ k - 1 \in 0 .. n /\ k - 1 \notin T
    BY <1>1, <2>2, <2>3
  <2>5. G[k - 1] = F[k - 1] /\ g[k] = f[k]
    BY <1>1, <2>4
  <2>6. F[k] = IF f[k] \in set THEN Append(F[k - 1], f[k]) ELSE F[k - 1]
    BY <1>2, <2>4, Zenon DEF Keeps
  <2>7. G[k] = IF g[k] \in set THEN Append(G[k - 1], g[k]) ELSE G[k - 1]
    BY <1>3, <2>4, Zenon DEF Keeps
  <2>8. G[k] # F[k]
    BY <2>2
  <2> HIDE DEF T
  <2> QED BY <2>5, <2>6, <2>7, <2>8
<1>5. G[n + 1] = IF x \in set THEN Append(F[n], x) ELSE F[n]
  <2>1. n + 1 \in 1 .. (n + 1) /\ n + 1 - 1 = n /\ n \in 0 .. n
    BY <1>1
  <2>2. ASSUME NEW i \in 1 .. (n + 1)
        PROVE  G[i] = IF g[i] \in set THEN Append(G[i - 1], g[i]) ELSE G[i - 1]
    BY <1>3, Zenon DEF Keeps
  <2> QED BY <1>1, <1>4, <2>1, <2>2
<1> QED BY <1>2, <1>3, <1>5 DEF g

\* Nothing is kept of nothing.
LEMMA FilterNothing == \A set : Filter(<<>>, set) = <<>>
<1>1. ASSUME NEW set PROVE Filter(<<>>, set) = <<>>
  <2>1. Len(<<>>) \in Nat /\ Len(<<>>) = 0
    OBVIOUS
  <2>2. PICK kept : Keeps(kept, <<>>, set, 0) /\ Filter(<<>>, set) = kept[0]
    BY <2>1, FilterKeeps
  <2> QED BY <2>2 DEF Keeps
<1> QED BY <1>1

\* A word of five characters, one behind the other.
LEMMA FiveAppended ==
  ASSUME NEW S, NEW f \in Seq(S), NEW a \in S, NEW b \in S, NEW c \in S,
         NEW d \in S, NEW e \in S
  PROVE  f \o <<a, b, c, d, e>> =
           Append(Append(Append(Append(Append(f, a), b), c), d), e)
OBVIOUS

\* A word of which every character is kept, or none.
LEMMA FilterWord ==
  ASSUME NEW S, NEW f \in Seq(S), NEW a \in S, NEW b \in S, NEW c \in S,
         NEW d \in S, NEW e \in S, NEW set
  PROVE  /\ {a, b, c, d, e} \subseteq set =>
              Filter(f \o <<a, b, c, d, e>>, set) =
                Append(Append(Append(Append(Append(Filter(f, set),
                  a), b), c), d), e)
         /\ {a, b, c, d, e} \cap set = {} =>
              Filter(f \o <<a, b, c, d, e>>, set) = Filter(f, set)
<1> DEFINE f1 == Append(f, a)
           f2 == Append(f1, b)
           f3 == Append(f2, c)
           f4 == Append(f3, d)
           f5 == Append(f4, e)
<1>1. f \o <<a, b, c, d, e>> = f5
  BY FiveAppended
<1>2. f1 \in Seq(S)
  BY AppendProperties
<1> HIDE DEF f1
<1>3. f2 \in Seq(S)
  BY <1>2, AppendProperties
<1> HIDE DEF f2
<1>4. f3 \in Seq(S)
  BY <1>3, AppendProperties
<1> HIDE DEF f3
<1>5. f4 \in Seq(S)
  BY <1>4, AppendProperties
<1> HIDE DEF f4
<1>6. Filter(f1, set) = IF a \in set THEN Append(Filter(f, set), a)
                        ELSE Filter(f, set)
  BY FilterAppend DEF f1
<1>7. Filter(f2, set) = IF b \in set THEN Append(Filter(f1, set), b)
                        ELSE Filter(f1, set)
  BY <1>2, FilterAppend DEF f2
<1>8. Filter(f3, set) = IF c \in set THEN Append(Filter(f2, set), c)
                        ELSE Filter(f2, set)
  BY <1>3, FilterAppend DEF f3
<1>9. Filter(f4, set) = IF d \in set THEN Append(Filter(f3, set), d)
                        ELSE Filter(f3, set)
  BY <1>4, FilterAppend DEF f4
<1>10. Filter(f5, set) = IF e \in set THEN Append(Filter(f4, set), e)
                         ELSE Filter(f4, set)
  BY <1>5, FilterAppend
<1> HIDE DEF f5
<1>11. ASSUME {a, b, c, d, e} \subseteq set
       PROVE  Filter(f5, set) =
                Append(Append(Append(Append(Append(Filter(f, set),
                  a), b), c), d), e)
  <2>1. a \in set /\ b \in set /\ c \in set /\ d \in set /\ e \in set
    BY <1>11
  <2> QED BY <1>6, <1>7, <1>8, <1>9, <1>10, <2>1
<1>12. ASSUME {a, b, c, d, e} \cap set = {}
       PROVE  Filter(f5, set) = Filter(f, set)
  <2>1. /\ a \notin set /\ b \notin set /\ c \notin set /\ d \notin set
        /\ e \notin set
    BY <1>12
  <2> QED BY <1>6, <1>7, <1>8, <1>9, <1>10, <2>1
<1> QED BY <1>1, <1>11, <1>12

-----------------------------------------------------------------------------
(* What both programs have added to test1.                                    *)

Text == Copied \cup Letters

\* Every "H" begins a Hiiii.
Whole(f) ==
  \A i \in 1 .. Len(f) :
    f[i] = "H" => i + 4 <= Len(f) /\ \A k \in 1 .. 5 : f[i + k - 1] = Hiiii[k]

\* The letters of l4-2 are not in the files.
LEMMA LettersAreOthers ==
  /\ Letters = {"H", "i", "A", "b"}
  /\ \A x \in Copied : x \notin Letters
  /\ Hiiii \in Seq(Text) /\ Abbbb \in Seq(Text) /\ Text \subseteq Byte
<1>1. Letters = {"H", "i", "A", "b"}
  <2>1. DOMAIN Hiiii = 1 .. 5 /\ DOMAIN Abbbb = 1 .. 5
    BY DEF Hiiii, Abbbb
  <2>2. Range(Hiiii) = {"H", "i"}
    <3>1. \A k \in 1 .. 5 : Hiiii[k] \in {"H", "i"}
      BY DEF Hiiii
    <3>2. Hiiii[1] = "H" /\ Hiiii[2] = "i" /\ 1 \in 1 .. 5 /\ 2 \in 1 .. 5
      BY DEF Hiiii
    <3>3. Range(Hiiii) \subseteq {"H", "i"}
      BY <2>1, <3>1, Zenon DEF Range
    <3>4. "H" \in Range(Hiiii) /\ "i" \in Range(Hiiii)
      BY <2>1, <3>2, Zenon DEF Range
    <3> QED BY <3>3, <3>4
  <2>3. Range(Abbbb) = {"A", "b"}
    <3>1. \A k \in 1 .. 5 : Abbbb[k] \in {"A", "b"}
      BY DEF Abbbb
    <3>2. Abbbb[1] = "A" /\ Abbbb[2] = "b" /\ 1 \in 1 .. 5 /\ 2 \in 1 .. 5
      BY DEF Abbbb
    <3>3. Range(Abbbb) \subseteq {"A", "b"}
      BY <2>1, <3>1, Zenon DEF Range
    <3>4. "A" \in Range(Abbbb) /\ "b" \in Range(Abbbb)
      BY <2>1, <3>2, Zenon DEF Range
    <3> QED BY <3>3, <3>4
  <2> QED BY <2>2, <2>3 DEF Letters
<1>2. ASSUME NEW x \in Copied PROVE x \notin Letters
  <2>1. PICK c \in Contents : x \in Range(c)
    BY Zenon DEF Copied
  <2>2. PICK i \in DOMAIN c : x = c[i]
    BY <2>1, Zenon DEF Range
  <2>3. c[i] \notin {"H", "i", "A", "b", Uninitialised}
    BY AppendAssumption, Zenon
  <2> QED BY <1>1, <2>2, <2>3
<1>3. {"H", "i", "A", "b"} \subseteq Text
  BY <1>1 DEF Text
<1>4. Hiiii \in Seq(Text) /\ Abbbb \in Seq(Text)
  BY <1>3, FiveCharacters DEF Hiiii, Abbbb
<1>5. Text \subseteq Byte
  BY <1>1 DEF Text, Copied, Byte
<1> QED BY <1>1, <1>2, <1>4, <1>5, Zenon

\* A file in which every word is whole stays so when whole words are added.
LEMMA WholeConcat ==
  ASSUME NEW S, NEW f \in Seq(S), NEW w \in Seq(S), Whole(f), Whole(w)
  PROVE  Whole(f \o w)
<1> DEFINE g == f \o w
           m == Len(f)
           n == Len(w)
<1>1. m \in Nat /\ n \in Nat
  BY LenProperties
<1>2. /\ Len(g) = m + n
      /\ \A i \in 1 .. (m + n) : g[i] = IF i <= m THEN f[i] ELSE w[i - m]
  BY ConcatProperties
<1> HIDE DEF g
<1>3. ASSUME NEW i \in 1 .. Len(g), g[i] = "H"
      PROVE  i + 4 <= Len(g) /\ \A k \in 1 .. 5 : g[i + k - 1] = Hiiii[k]
  <2>1. CASE i <= m
    <3>1. f[i] = "H" /\ i \in 1 .. m
      BY <1>1, <1>2, <1>3, <2>1
    <3>2. i + 4 <= m /\ \A k \in 1 .. 5 : f[i + k - 1] = Hiiii[k]
      BY <3>1, Zenon DEF Whole
    <3> HIDE DEF m, n
    <3>3. ASSUME NEW k \in 1 .. 5 PROVE g[i + k - 1] = Hiiii[k]
      <4>1. i + k - 1 \in 1 .. (m + n) /\ i + k - 1 <= m
        BY <1>1, <3>1, <3>2
      <4> QED BY <1>2, <3>2, <4>1
    <3> QED BY <1>1, <1>2, <3>2, <3>3
  <2>2. CASE ~(i <= m)
    <3>1. w[i - m] = "H" /\ i - m \in 1 .. n
      BY <1>1, <1>2, <1>3, <2>2
    <3>2. i - m + 4 <= n /\ \A k \in 1 .. 5 : w[i - m + k - 1] = Hiiii[k]
      BY <3>1, Zenon DEF Whole
    <3> HIDE DEF m, n
    <3>3. ASSUME NEW k \in 1 .. 5 PROVE g[i + k - 1] = Hiiii[k]
      <4>1. /\ i + k - 1 \in 1 .. (m + n) /\ ~(i + k - 1 <= m)
            /\ (i + k - 1) - m = i - m + k - 1
        BY <1>1, <3>1, <3>2, <2>2
      <4> DEFINE j == i + k - 1
      <4>2. j \in 1 .. (m + n) /\ ~(j <= m) /\ j - m = i - m + k - 1
        BY <4>1
      <4> HIDE DEF j
      <4>3. g[j] = w[j - m]
        BY <1>2, <4>2
      <4>4. w[j - m] = Hiiii[k]
        BY <3>2, <4>2
      <4> QED BY <4>3, <4>4 DEF j
    <3> QED BY <1>1, <1>2, <3>1, <3>2, <3>3
  <2> QED BY <2>1, <2>2
<1> QED BY <1>3, Zenon DEF Whole, g

\* The words the programs write.
LEMMA WordsAreWhole ==
  /\ Whole(<<>>) /\ Whole(Hiiii) /\ Whole(Abbbb)
  /\ \A x : x # "H" => Whole(<<x>>)
<1>1. Whole(<<>>)
  BY DEF Whole
<1>2. Whole(Hiiii)
  <2>1. /\ Len(Hiiii) = 5 /\ Hiiii[1] = "H"
        /\ \A i \in 1 .. 5 : Hiiii[i] = "H" => i = 1
    BY DEF Hiiii
  <2>2. ASSUME NEW i \in 1 .. 5, Hiiii[i] = "H"
        PROVE  i + 4 <= 5 /\ \A k \in 1 .. 5 : Hiiii[i + k - 1] = Hiiii[k]
    <3>1. i = 1
      BY <2>1, <2>2
    <3>2. \A k \in 1 .. 5 : 1 + k - 1 = k
      OBVIOUS
    <3> QED BY <3>1, <3>2
  <2> QED BY <2>1, <2>2 DEF Whole
<1>3. Whole(Abbbb)
  <2>1. Len(Abbbb) = 5 /\ \A i \in 1 .. 5 : Abbbb[i] # "H"
    BY DEF Abbbb
  <2> QED BY <2>1 DEF Whole
<1>4. ASSUME NEW x, x # "H" PROVE Whole(<<x>>)
  <2>1. Len(<<x>>) = 1 /\ \A i \in 1 .. 1 : <<x>>[i] # "H"
    BY <1>4
  <2> QED BY <2>1 DEF Whole
<1> QED BY <1>1, <1>2, <1>3, <1>4, Zenon

\* What is behind the front of a file.
LEMMA BehindTheFront ==
  ASSUME NEW S, NEW p \in Seq(S), NEW q \in Seq(S)
  PROVE  SubSeq(p \o q, Len(p) + 1, Len(p \o q)) = q
<1> DEFINE m == Len(p)
           n == Len(q)
           g == p \o q
           r == SubSeq(g, m + 1, Len(g))
<1>1. m \in Nat /\ n \in Nat
  BY LenProperties
<1>2. /\ g \in Seq(S) /\ Len(g) = m + n
      /\ \A i \in 1 .. (m + n) : g[i] = IF i <= m THEN p[i] ELSE q[i - m]
  BY ConcatProperties
<1> HIDE DEF m, n, g
<1>3. \A i \in m + 1 .. Len(g) : g[i] \in S
  <2>1. \A i \in 1 .. Len(g) : g[i] \in S
    BY <1>2, ElementOfSeq
  <2> QED BY <1>1, <2>1
<1>4. /\ r \in Seq(S)
      /\ Len(r) = IF m + 1 <= Len(g) THEN Len(g) - (m + 1) + 1 ELSE 0
      /\ \A i \in 1 .. Len(g) - (m + 1) + 1 : r[i] = g[m + 1 + i - 1]
  <2>1. m + 1 \in Int /\ Len(g) \in Int
    BY <1>1, <1>2
  <2> QED BY <1>3, <2>1, SubSeqProperties
<1> HIDE DEF r
<1>5. Len(r) = n
  BY <1>1, <1>2, <1>4
<1>6. ASSUME NEW i \in 1 .. n PROVE r[i] = q[i]
  <2>1. /\ i \in 1 .. Len(g) - (m + 1) + 1 /\ m + 1 + i - 1 = m + i
        /\ m + i \in 1 .. (m + n) /\ ~(m + i <= m) /\ m + i - m = i
    BY <1>1, <1>2
  <2>2. r[i] = g[m + i]
    BY <1>4, <2>1
  <2> DEFINE j == m + i
  <2>3. j \in 1 .. (m + n) /\ ~(j <= m) /\ j - m = i
    BY <1>1, <2>1
  <2> HIDE DEF j
  <2>4. g[j] = q[j - m]
    BY <1>2, <2>3
  <2> QED BY <2>2, <2>3, <2>4 DEF j
<1>7. r = q
  BY <1>4, <1>5, <1>6, SeqEqual DEF n
<1> QED BY <1>7 DEF m, g, r

\* test1 is what it was and what has been added, of whole words.
GrownInv ==
  /\ old \in Contents
  /\ Added \in Seq(Text) /\ test1 = old \o Added
  /\ Whole(Added)

\* Where the programs are in what they write.
PlaceInv ==
  /\ fd2 \in 0 .. Len(test2)
  /\ pc.l41 = "write" => fd2 > 0 /\ buf = test2[fd2]
  /\ pc.l42 \in {"open", "error", "write Hiiii", "rewind", "read",
                 "write Abbbb", "done"}

\* FileIsMerge, made inductive.
MergeInv ==
  test2 \notin {Directory, Missing} =>
    /\ GrownInv /\ PlaceInv
    /\ Filter(Added, Copied) = WrittenBy1
    /\ Filter(Added, Letters) = WrittenBy2

\* A write adds its bytes.
LEMMA GrownByWrite ==
  ASSUME GrownInv, NEW p, NEW bytes \in Seq(Text), Whole(bytes),
         Write(p, bytes), UNCHANGED old
  PROVE  GrownInv' /\ Added' = Added \o bytes
<1> DEFINE a == Added \o bytes
<1>1. /\ old \in Contents /\ Added \in Seq(Text) /\ test1 = old \o Added
      /\ Whole(Added)
  BY Zenon DEF GrownInv
<1>2. a \in Seq(Text) /\ Whole(a)
  BY <1>1, ConcatProperties, WholeConcat, Zenon
<1>3. old \in Seq(Byte) /\ Added \in Seq(Byte) /\ bytes \in Seq(Byte)
      /\ a \in Seq(Byte)
  <2>1. Text \subseteq Byte
    BY LettersAreOthers, Zenon
  <2>2. Added \in Seq(Byte) /\ bytes \in Seq(Byte) /\ a \in Seq(Byte)
    BY <1>1, <1>2, <2>1, SeqMonotonic, Zenon
  <2> QED BY <1>1, <2>2, ContentsTyped, Zenon
<1>4. test1' = old \o a
  <2>1. test1' = test1 \o bytes
    BY Zenon DEF Write
  <2>2. (old \o Added) \o bytes = old \o (Added \o bytes)
    BY <1>3, ConcatAssociative
  <2> QED BY <1>1, <2>1, <2>2, Zenon
<1> HIDE DEF a
<1>5. Added' = a
  <2>1. SubSeq(old \o a, Len(old) + 1, Len(old \o a)) = a
    BY <1>3, BehindTheFront
  <2>2. Added' = SubSeq(test1', Len(old') + 1, Len(test1'))
    BY Zenon DEF Added
  <2>3. old' = old
    OBVIOUS
  <2> QED BY <1>4, <2>1, <2>2, <2>3, Zenon
<1>6. GrownInv'
  BY <1>1, <1>2, <1>4, <1>5, Zenon DEF GrownInv
<1> QED BY <1>5, <1>6, Zenon DEF a

\* A program that writes nothing changes none of it.
LEMMA NothingAdded ==
  ASSUME UNCHANGED <<old, test1>>
  PROVE  Added' = Added /\ (GrownInv => GrownInv')
<1>1. Added' = Added
  BY Zenon DEF Added
<1> QED BY <1>1, Zenon DEF GrownInv

\* A character the copy writes is kept with the copied ones only.
LEMMA FilterCopied ==
  ASSUME NEW f \in Seq(Text), NEW x \in Copied
  PROVE  /\ <<x>> \in Seq(Text) /\ Whole(<<x>>)
         /\ Filter(f \o <<x>>, Copied) = Append(Filter(f, Copied), x)
         /\ Filter(f \o <<x>>, Letters) = Filter(f, Letters)
<1>1. x \in Text /\ x \notin Letters
  BY LettersAreOthers, Zenon DEF Text
<1>2. x # "H"
  BY <1>1, LettersAreOthers
<1>3. f \o <<x>> = Append(f, x)
  BY <1>1, AppendIsConcat
<1>4. Filter(Append(f, x), Copied) = Append(Filter(f, Copied), x)
  BY <1>1, FilterAppend
<1>5. Filter(Append(f, x), Letters) = Filter(f, Letters)
  BY <1>1, FilterAppend
<1>6. <<x>> \in Seq(Text)
  BY <1>1
<1> QED BY <1>2, <1>3, <1>4, <1>5, <1>6, WordsAreWhole, Zenon

\* A word of l4-2 is kept with the letters only.
LEMMA FilterLetters ==
  ASSUME NEW f \in Seq(Text)
  PROVE  /\ Filter(f \o Hiiii, Copied) = Filter(f, Copied)
         /\ Filter(f \o Abbbb, Copied) = Filter(f, Copied)
         /\ Filter(f, Letters) = <<>> => Filter(f \o Hiiii, Letters) = Hiiii
         /\ Filter(f, Letters) = Hiiii =>
              Filter(f \o Abbbb, Letters) = Hiiii \o Abbbb
<1>1. /\ "H" \in Letters /\ "i" \in Letters /\ "A" \in Letters /\ "b" \in Letters
      /\ "H" \in Text /\ "i" \in Text /\ "A" \in Text /\ "b" \in Text
  BY LettersAreOthers DEF Text
<1>2. /\ {"H", "i", "i", "i", "i"} \subseteq Letters
      /\ {"A", "b", "b", "b", "b"} \subseteq Letters
      /\ {"H", "i", "i", "i", "i"} \cap Copied = {}
      /\ {"A", "b", "b", "b", "b"} \cap Copied = {}
  BY <1>1, LettersAreOthers, Zenon
<1>3. /\ Filter(f \o Hiiii, Copied) = Filter(f, Copied)
      /\ Filter(f \o Abbbb, Copied) = Filter(f, Copied)
  BY <1>1, <1>2, FilterWord DEF Hiiii, Abbbb
<1>4. ASSUME Filter(f, Letters) = <<>>
      PROVE  Filter(f \o Hiiii, Letters) = Hiiii
  <2>0. Filter(f \o <<"H", "i", "i", "i", "i">>, Letters) =
          Append(Append(Append(Append(Append(Filter(f, Letters),
            "H"), "i"), "i"), "i"), "i")
    BY <1>1, <1>2, FilterWord
  <2>1. Filter(f \o <<"H", "i", "i", "i", "i">>, Letters) =
          Append(Append(Append(Append(Append(<<>>, "H"), "i"), "i"), "i"), "i")
    BY <1>4, <2>0
  <2> QED BY <2>1 DEF Hiiii
<1>5. ASSUME Filter(f, Letters) = Hiiii
      PROVE  Filter(f \o Abbbb, Letters) = Hiiii \o Abbbb
  <2>0. Filter(f \o <<"A", "b", "b", "b", "b">>, Letters) =
          Append(Append(Append(Append(Append(Filter(f, Letters),
            "A"), "b"), "b"), "b"), "b")
    BY <1>1, <1>2, FilterWord
  <2>1. Filter(f \o <<"A", "b", "b", "b", "b">>, Letters) =
          Append(Append(Append(Append(Append(Hiiii, "A"), "b"), "b"), "b"), "b")
    BY <1>5, <2>0
  <2>2. Hiiii \in Seq(Text)
    BY LettersAreOthers, Zenon
  <2>3. Hiiii \o <<"A", "b", "b", "b", "b">> =
          Append(Append(Append(Append(Append(Hiiii, "A"), "b"), "b"), "b"), "b")
    BY <1>1, <2>2, FiveAppended
  <2> QED BY <2>1, <2>3, Zenon DEF Abbbb
<1> QED BY <1>3, <1>4, <1>5, Zenon

\* A step of l4-1 that writes nothing.
LEMMA MergeKept ==
  ASSUME MergeInv, UNCHANGED <<old, test1, test2>>,
         test2 \notin {Directory, Missing} =>
           PlaceInv' /\ WrittenBy1' = WrittenBy1 /\ WrittenBy2' = WrittenBy2
  PROVE  MergeInv'
<1>1. Added' = Added /\ (GrownInv => GrownInv')
  BY NothingAdded, Zenon
<1> QED BY <1>1, Zenon DEF MergeInv

\* MergeInv is inductive.
LEMMA MergeInitially == AppendInit => MergeInv
<1> SUFFICES ASSUME AppendInit PROVE MergeInv
  OBVIOUS
<1>1. /\ old \in Contents /\ test1 = old /\ fd2 = 0
      /\ pc.l41 = "open" /\ pc.l42 = "open"
      /\ test2 \in Contents \cup {Directory, Missing}
  BY DEF AppendInit
<1>2. old \in Seq(Byte) /\ Len(old) \in Nat
  BY <1>1, ContentsTyped, LenProperties
<1>3. Added = <<>>
  <2>1. Len(old) + 1 \in Int /\ Len(old) \in Int /\ Len(old) < Len(old) + 1
    BY <1>2
  <2>2. SubSeq(old, Len(old) + 1, Len(old)) = <<>>
    BY <2>1, SubSeqEmpty
  <2> QED BY <1>1, <2>2, Zenon DEF Added
<1>4. GrownInv
  <2>1. <<>> \in Seq(Text)
    OBVIOUS
  <2>2. old \o <<>> = old
    BY <1>2, ConcatEmptySeq
  <2> QED BY <1>1, <1>3, <2>1, <2>2, WordsAreWhole, Zenon DEF GrownInv
<1>5. ASSUME test2 \in Contents
      PROVE  PlaceInv /\ WrittenBy1 = <<>> /\ WrittenBy2 = <<>>
  <2>1. test2 \in Seq(Byte) /\ Len(test2) \in Nat
    BY <1>5, ContentsTyped, LenProperties
  <2>2. PlaceInv
    BY <1>1, <2>1 DEF PlaceInv
  <2>3. WrittenBy1 = SubSeq(test2, 1, 0)
    BY <1>1 DEF WrittenBy1
  <2>4. SubSeq(test2, 1, 0) = <<>>
    BY SubSeqEmpty
  <2>5. WrittenBy2 = <<>>
    BY <1>1 DEF WrittenBy2
  <2> QED BY <2>2, <2>3, <2>4, <2>5
<1> QED BY <1>1, <1>3, <1>4, <1>5, FilterNothing, Zenon DEF MergeInv

\* No system call of l4-1.c breaks the invariant.
LEMMA MergeStep1 ==
  ASSUME ReadInv, MergeInv, Step1
  PROVE  MergeInv'
<1>1. CASE Open1
  <2>1. /\ UNCHANGED <<old, test1, test2, fd2, buf>>
        /\ pc.l41 = "open" /\ pc'.l41 \in {"read", "error"}
        /\ pc'.l42 = pc.l42
    BY <1>1 DEF Open1, Goto, ReadInv
  <2>2. WrittenBy1' = WrittenBy1 /\ WrittenBy2' = WrittenBy2
    BY <2>1 DEF WrittenBy1, WrittenBy2
  <2>3. PlaceInv => PlaceInv'
    BY <2>1 DEF PlaceInv
  <2> QED BY <2>1, <2>2, <2>3, MergeKept, Zenon DEF MergeInv
<1>2. CASE Read1
  <2>1. /\ UNCHANGED <<old, test1, test2>> /\ pc.l41 = "read"
        /\ pc'.l42 = pc.l42
    BY <1>2 DEF Read1, Goto, ReadInv
  <2>2. WrittenBy2' = WrittenBy2
    BY <2>1 DEF WrittenBy2
  <2>3. ASSUME test2 \notin {Directory, Missing}
        PROVE  PlaceInv' /\ WrittenBy1' = WrittenBy1
    <3>1. test2 \in Contents /\ PlaceInv
      BY <2>3 DEF ReadInv, MergeInv
    <3>2. Len(test2) \in Nat
      BY <3>1, ContentsTyped, LenProperties
    <3>3. CASE /\ fd2 < Len(test2) /\ buf' = test2[fd2 + 1]
               /\ fd2' = fd2 + 1 /\ pc'.l41 = "write"
      <4>1. fd2' - 1 = fd2 /\ fd2' \in 0 .. Len(test2) /\ fd2' > 0
        <5>1. fd2 \in 0 .. Len(test2)
          BY <3>1, Zenon DEF PlaceInv
        <5> QED BY <3>2, <3>3, <5>1
      <4>2. WrittenBy1' = SubSeq(test2, 1, fd2)
        BY <2>1, <3>3, <4>1 DEF WrittenBy1
      <4>3. WrittenBy1 = SubSeq(test2, 1, fd2)
        BY <2>1 DEF WrittenBy1
      <4>4. PlaceInv'
        BY <2>1, <3>1, <3>3, <4>1 DEF PlaceInv
      <4> QED BY <4>2, <4>3, <4>4, Zenon
    <3>4. CASE pc'.l41 = "done" /\ UNCHANGED <<buf, fd2>>
      <4>1. WrittenBy1' = WrittenBy1
        BY <2>1, <3>4 DEF WrittenBy1
      <4>2. PlaceInv'
        BY <2>1, <3>1, <3>4 DEF PlaceInv
      <4> QED BY <4>1, <4>2
    <3>5. \/ /\ fd2 < Len(test2) /\ buf' = test2[fd2 + 1]
             /\ fd2' = fd2 + 1 /\ pc'.l41 = "write"
          \/ pc'.l41 = "done" /\ UNCHANGED <<buf, fd2>>
      BY <1>2, <2>3 DEF Read1, Goto, ReadInv
    <3> QED BY <3>3, <3>4, <3>5, Zenon
  <2> QED BY <2>1, <2>2, <2>3, MergeKept, Zenon
<1>3. CASE Write1
  <2>1. /\ UNCHANGED <<old, test2, fd2, buf>> /\ pc.l41 = "write"
        /\ pc'.l41 = "read" /\ pc'.l42 = pc.l42
        /\ Write("l41", <<buf>>)
    BY <1>3 DEF Write1, Goto, ReadInv
  <2>2. SUFFICES ASSUME test2 \notin {Directory, Missing}
                 PROVE  /\ GrownInv' /\ PlaceInv'
                        /\ Filter(Added', Copied) = WrittenBy1'
                        /\ Filter(Added', Letters) = WrittenBy2'
    BY <2>1, Zenon DEF MergeInv
  <2>3. /\ test2 \in Contents /\ GrownInv /\ PlaceInv
        /\ Filter(Added, Copied) = WrittenBy1
        /\ Filter(Added, Letters) = WrittenBy2
    BY <2>2, Zenon DEF ReadInv, MergeInv
  <2>4. /\ test2 \in Seq(Byte) /\ Len(test2) \in Nat
        /\ fd2 \in 1 .. Len(test2) /\ buf = test2[fd2]
    <3>1. test2 \in Seq(Byte) /\ Len(test2) \in Nat
      BY <2>3, ContentsTyped, LenProperties
    <3>2. fd2 \in 0 .. Len(test2) /\ fd2 > 0 /\ buf = test2[fd2]
      BY <2>1, <2>3, Zenon DEF PlaceInv
    <3>3. fd2 \in 1 .. Len(test2)
      BY <3>1, <3>2
    <3> QED BY <3>1, <3>2, <3>3, Zenon
  <2>5. buf \in Copied
    <3>1. DOMAIN test2 = 1 .. Len(test2)
      BY <2>4, LenProperties
    <3>2. buf \in Range(test2)
      BY <2>4, <3>1, Zenon DEF Range
    <3> QED BY <2>3, <3>2, Zenon DEF Copied
  <2>6. Added \in Seq(Text)
    BY <2>3, Zenon DEF GrownInv
  <2>7. /\ <<buf>> \in Seq(Text) /\ Whole(<<buf>>)
        /\ Filter(Added \o <<buf>>, Copied) = Append(Filter(Added, Copied), buf)
        /\ Filter(Added \o <<buf>>, Letters) = Filter(Added, Letters)
    BY <2>5, <2>6, FilterCopied
  <2>8. GrownInv' /\ Added' = Added \o <<buf>>
    BY <2>1, <2>3, <2>7, GrownByWrite, Zenon
  <2>9. PlaceInv'
    BY <2>1, <2>3 DEF PlaceInv
  <2>10. WrittenBy2' = WrittenBy2
    BY <2>1 DEF WrittenBy2
  <2>11. WrittenBy1' = Append(WrittenBy1, buf)
    <3>1. WrittenBy1 = SubSeq(test2, 1, fd2 - 1)
      BY <2>1 DEF WrittenBy1
    <3>2. WrittenBy1' = SubSeq(test2, 1, fd2)
      BY <2>1 DEF WrittenBy1
    <3>3. /\ 1 \in 1 .. Len(test2) /\ fd2 \in 1 .. Len(test2)
      BY <2>4
    <3>4. SubSeq(test2, 1, fd2) = SubSeq(test2, 1, fd2 - 1) \o <<test2[fd2]>>
      BY <2>4, <3>3, SubSeqRecursiveSecond
    <3>5. SubSeq(test2, 1, fd2 - 1) \in Seq(Byte) /\ buf \in Byte
      <4>1. \A i \in 1 .. fd2 - 1 : test2[i] \in Byte
        BY <2>4, ElementOfSeq
      <4>2. 1 \in Int /\ fd2 - 1 \in Int
        BY <2>4
      <4>3. SubSeq(test2, 1, fd2 - 1) \in Seq(Byte)
        BY <4>1, <4>2, SubSeqProperties
      <4> QED BY <4>3, Zenon DEF ReadInv
    <3>6. Append(SubSeq(test2, 1, fd2 - 1), buf) =
            SubSeq(test2, 1, fd2 - 1) \o <<buf>>
      BY <3>5, AppendIsConcat
    <3> QED BY <2>4, <3>1, <3>2, <3>4, <3>6
  <2> QED BY <2>3, <2>7, <2>8, <2>9, <2>10, <2>11
<1> QED BY <1>1, <1>2, <1>3 DEF Step1

\* l4-2 writes a word where it is to write one.
LEMMA MergeWord ==
  ASSUME MergeInv, NEW word \in {Hiiii, Abbbb}, Write("l42", word),
         UNCHANGED <<old, test2, fd2, buf>>, pc'.l41 = pc.l41,
         \/ /\ word = Hiiii /\ pc.l42 = "write Hiiii" /\ pc'.l42 = "rewind"
         \/ /\ word = Abbbb /\ pc.l42 = "write Abbbb" /\ pc'.l42 = "done"
  PROVE  MergeInv'
<1>1. SUFFICES ASSUME test2 \notin {Directory, Missing}
               PROVE  /\ GrownInv' /\ PlaceInv'
                      /\ Filter(Added', Copied) = WrittenBy1'
                      /\ Filter(Added', Letters) = WrittenBy2'
  BY Zenon DEF MergeInv
<1>2. /\ GrownInv /\ PlaceInv
      /\ Filter(Added, Copied) = WrittenBy1
      /\ Filter(Added, Letters) = WrittenBy2
  BY <1>1, Zenon DEF MergeInv
<1>3. word \in Seq(Text) /\ Whole(word)
  BY LettersAreOthers, WordsAreWhole, Zenon
<1>4. GrownInv' /\ Added' = Added \o word
  BY <1>2, <1>3, GrownByWrite, Zenon
<1>5. PlaceInv'
  BY <1>2 DEF PlaceInv
<1>6. WrittenBy1' = WrittenBy1
  BY DEF WrittenBy1
<1>7. Added \in Seq(Text)
  BY <1>2, Zenon DEF GrownInv
<1>8. CASE word = Hiiii /\ pc.l42 = "write Hiiii" /\ pc'.l42 = "rewind"
  <2>1. WrittenBy2 = <<>> /\ WrittenBy2' = Hiiii
    BY <1>8 DEF WrittenBy2
  <2>2. /\ Filter(Added \o Hiiii, Copied) = Filter(Added, Copied)
        /\ Filter(Added, Letters) = <<>> =>
             Filter(Added \o Hiiii, Letters) = Hiiii
    BY <1>7, FilterLetters
  <2> QED BY <1>2, <1>4, <1>5, <1>6, <1>8, <2>1, <2>2
<1>9. CASE word = Abbbb /\ pc.l42 = "write Abbbb" /\ pc'.l42 = "done"
  <2>1. WrittenBy2 = Hiiii /\ WrittenBy2' = Hiiii \o Abbbb
    BY <1>9 DEF WrittenBy2
  <2>2. /\ Filter(Added \o Abbbb, Copied) = Filter(Added, Copied)
        /\ Filter(Added, Letters) = Hiiii =>
             Filter(Added \o Abbbb, Letters) = Hiiii \o Abbbb
    BY <1>7, FilterLetters
  <2> QED BY <1>2, <1>4, <1>5, <1>6, <1>9, <2>1, <2>2
<1> QED BY <1>8, <1>9

\* No system call of l4-2.c breaks the invariant.
LEMMA MergeStep2 ==
  ASSUME ReadInv, MergeInv, Step2
  PROVE  MergeInv'
<1>1. CASE WriteHiiii
  <2>1. /\ UNCHANGED <<old, test2, fd2, buf>> /\ pc'.l41 = pc.l41
        /\ pc.l42 = "write Hiiii" /\ pc'.l42 = "rewind"
        /\ Write("l42", Hiiii)
    BY <1>1 DEF WriteHiiii, Goto, ReadInv
  <2> QED BY <2>1, MergeWord
<1>2. CASE WriteAbbbb
  <2>1. /\ UNCHANGED <<old, test2, fd2, buf>> /\ pc'.l41 = pc.l41
        /\ pc.l42 = "write Abbbb" /\ pc'.l42 = "done"
        /\ Write("l42", Abbbb)
    BY <1>2 DEF WriteAbbbb, Goto, ReadInv
  <2> QED BY <2>1, MergeWord
<1>3. CASE Open2 \/ Rewind \/ Read2
  <2>1. /\ UNCHANGED <<old, test1, test2, fd2, buf>> /\ pc'.l41 = pc.l41
        /\ \/ pc.l42 = "open" /\ pc'.l42 \in {"write Hiiii", "error"}
           \/ /\ pc.l42 \in {"rewind", "read"}
              /\ pc'.l42 \in {"rewind", "read", "write Abbbb"}
    BY <1>3 DEF Open2, Rewind, Read2, Goto, ReadInv
  <2>2. WrittenBy1' = WrittenBy1
    BY <2>1 DEF WrittenBy1
  <2>3. WrittenBy2' = WrittenBy2
    BY <2>1 DEF WrittenBy2
  <2>4. PlaceInv => PlaceInv'
    BY <2>1 DEF PlaceInv
  <2> QED BY <2>1, <2>2, <2>3, <2>4, MergeKept, Zenon DEF MergeInv
<1> QED BY <1>1, <1>2, <1>3, Zenon DEF Step2

\* However the two programs interleave, the invariant holds.
LEMMA MergeInvariant == AppendSpec => []MergeInv
<1>1. ReadInv /\ MergeInv /\ [AppendNext]_appendVars => MergeInv'
  <2>1. ASSUME ReadInv, MergeInv, AppendNext PROVE MergeInv'
    BY <2>1, MergeStep1, MergeStep2, Zenon DEF AppendNext
  <2>2. ASSUME MergeInv, UNCHANGED appendVars PROVE MergeInv'
    BY <2>2, Zenon DEF appendVars, MergeInv, GrownInv, PlaceInv, Added,
                       WrittenBy1, WrittenBy2
  <2> QED BY <2>1, <2>2
<1> QED BY <1>1, MergeInitially, ReadInvariant, PTL DEF AppendSpec

\* However the system calls of the two programs interleave, test1 is what it
\* was followed by all that each has written, in its order, and no word of l4-2
\* is cut: for files of any contents and any length.
THEOREM AppendsMerge == AppendSpec => []FileIsMerge
<1>1. MergeInv => FileIsMerge
  <2>1. SUFFICES ASSUME GrownInv
                 PROVE  /\ IsPrefix(old, test1)
                        /\ Range(Added) \subseteq Copied \cup Letters
                        /\ \A i \in DOMAIN Added :
                             Added[i] = "H" => SubSeq(Added, i, i + 4) = Hiiii
    BY Zenon DEF MergeInv, FileIsMerge
  <2>2. /\ old \in Seq(Byte) /\ Added \in Seq(Text) /\ Added \in Seq(Byte)
        /\ test1 = old \o Added /\ Whole(Added)
    <3>1. Text \subseteq Byte
      BY LettersAreOthers, Zenon
    <3> QED BY <2>1, <3>1, ContentsTyped, SeqMonotonic, Zenon DEF GrownInv
  <2>3. IsPrefix(old, test1)
    <3>1. IsPrefix(old, old)
      BY <2>2, PrefixPositions, LenProperties
    <3> QED BY <2>2, <3>1, PrefixAppended
  <2>4. DOMAIN Added = 1 .. Len(Added) /\ Len(Added) \in Nat
    BY <2>2, LenProperties
  <2>5. Range(Added) \subseteq Copied \cup Letters
    <3>1. \A i \in 1 .. Len(Added) : Added[i] \in Text
      BY <2>2, ElementOfSeq
    <3> QED BY <2>4, <3>1, Zenon DEF Range, Text
  <2>6. ASSUME NEW i \in 1 .. Len(Added), Added[i] = "H"
        PROVE  SubSeq(Added, i, i + 4) = Hiiii
    <3>1. i + 4 <= Len(Added) /\ \A k \in 1 .. 5 : Added[i + k - 1] = Hiiii[k]
      BY <2>2, <2>6, Zenon DEF Whole
    <3> DEFINE r == SubSeq(Added, i, i + 4)
    <3>2. /\ r \in Seq(Byte)
          /\ Len(r) = IF i <= i + 4 THEN i + 4 - i + 1 ELSE 0
          /\ \A k \in 1 .. i + 4 - i + 1 : r[k] = Added[i + k - 1]
      <4>1. i \in Int /\ i + 4 \in Int
        BY <2>4
      <4>2. \A k \in i .. i + 4 : Added[k] \in Byte
        <5>1. \A k \in 1 .. Len(Added) : Added[k] \in Byte
          BY <2>2, ElementOfSeq
        <5> QED BY <2>4, <3>1, <5>1
      <4> QED BY <4>1, <4>2, SubSeqProperties
    <3> HIDE DEF r
    <3>3. Len(r) = 5 /\ \A k \in 1 .. 5 : r[k] = Hiiii[k]
      <4>1. i <= i + 4 /\ i + 4 - i + 1 = 5
        BY <2>4
      <4> QED BY <3>1, <3>2, <4>1
    <3>4. Len(Hiiii) = 5
      BY DEF Hiiii
    <3>5. Hiiii \in Seq(Byte)
      <4>1. Hiiii \in Seq(Text)
        BY LettersAreOthers, Zenon
      <4>2. Text \subseteq Byte
        BY LettersAreOthers, Zenon
      <4> QED BY <4>1, <4>2, SeqMonotonic, Zenon
    <3>6. r = Hiiii
      BY <3>2, <3>3, <3>4, <3>5, SeqEqual
    <3> QED BY <3>6 DEF r
  <2> QED BY <2>3, <2>4, <2>5, <2>6, Zenon
<1> QED BY <1>1, MergeInvariant, PTL
=============================================================================
