------------------------- MODULE FileTransferProofs -------------------------
(***************************************************************************)
(* Proofs about FileTransfer, for any number of clients, any files and     *)
(* any names.                                                              *)
(***************************************************************************)
EXTENDS FileTransfer, SequenceTheorems, WellFoundedInduction, TLAPS

\* What can be in a file, and in a name.
Block == UNION ({{Junk}} \cup {Range(Files[n]) : n \in DOMAIN Files}
                         \cup {Range(f) : f \in OldCopies})
Char == UNION ({{NUL}} \cup {Range(n) : n \in Names}
                       \cup {Range(buf) : buf \in NameBuffers})

Types ==
  /\ request \in [Client -> Names]
  /\ pc \in [Client ->
              {"start", "connected", "recv", "done", "killed", "silent"}]
  /\ old \in [Client -> Seq(Block)]
  /\ copy \in [Client -> Seq(Block)]
  /\ written \in [Client -> Nat]
  /\ backlog \in Seq(Client)
  /\ stream \in [Client -> Seq(Block)]
  /\ \A c \in Client : Len(stream[c]) <= Window
  /\ ended \in [Client -> {"open", "closed", "reset"}]
  /\ server \in {"accept", "recv", "send", "spin", "dead"}
  /\ clientSock \in Client \cup {None}
  /\ fileName \in Seq(Char)
  /\ opened \in [Client -> Seq(Char)]
  /\ position \in Nat /\ longest \in Nat

\* fileName ends in a NUL and has nothing but NULs where nothing was put.
BufferInv ==
  /\ fileName # <<>> /\ fileName[Len(fileName)] = NUL
  /\ \A n \in Names : Len(n) < Len(fileName)
  /\ \A i \in 1 .. Len(fileName) : i > longest => fileName[i] = NUL

\* A name that was opened for a client that is still there is the requested
\* one, or that and an end that was in the buffer behind it.
NameExtends(name, requested, filled) ==
  /\ Len(requested) <= Len(name)
  /\ \A i \in 1 .. Len(requested) : name[i] = requested[i]
  /\ Len(requested) < Len(name) => Len(requested) < filled

NameInv ==
  \A c \in Client :
    pc[c] \in {"recv", "done"} /\ opened[c] # <<>> =>
      NameExtends(opened[c], request[c], longest)

\* A connection waits once, and nothing was done for it yet.
QueueInv ==
  /\ \A i, j \in DOMAIN backlog : backlog[i] = backlog[j] => i = j
  /\ \A i \in DOMAIN backlog :
       LET c == backlog[i] IN
       /\ c # clientSock /\ pc[c] # "start" /\ opened[c] = <<>>
       /\ server # "dead" => ended[c] = "open"

\* The connection that is served.
SockInv ==
  LET c == clientSock IN
  /\ server = "accept" => c = None
  /\ server # "accept" => c \in Client /\ pc[c] # "start"
  /\ server \in {"recv", "send", "spin"} => ended[c] = "open"
  /\ server = "recv" => opened[c] = <<>>
  /\ server = "send" => opened[c] \in DOMAIN Files /\ position <= Len(File)
  /\ server = "spin" => opened[c] # <<>> \/ pc[c] \in {"silent", "killed"}
  /\ server = "dead" => Gone(c)

\* The first n blocks of a file are on their way to client c or have arrived.
Transferred(c, file, n) ==
  /\ written[c] + Len(stream[c]) = n
  /\ \A i \in 1 .. written[c] : copy[c][i] = file[i]
  /\ \A i \in 1 .. Len(stream[c]) : stream[c][i] = file[written[c] + i]

\* The .bak is the old one from where the client has written to.
CopyInv(c) ==
  /\ written[c] <= Len(copy[c]) /\ Len(old[c]) <= Len(copy[c])
  /\ Len(copy[c]) \in {written[c], Len(old[c])}
  /\ \A i \in (written[c] + 1) .. Len(copy[c]) : copy[c][i] = old[c][i]

\* A client no file was opened for yet.
UnservedInv(c) ==
  opened[c] = <<>> =>
    /\ stream[c] = <<>>
    /\ \A i \in 1 .. written[c] : copy[c][i] = Junk
    /\ server # "dead" =>
         written[c] = 0 /\ (ended[c] = "open" \/ pc[c] = "silent")

\* A client the server is sending to, or has finished with.
ServedInv(c) ==
  opened[c] # <<>> =>
    /\ pc[c] \in {"recv", "killed", "done", "silent"}
    /\ c = clientSock /\ server = "send" /\ pc[c] = "recv" =>
         Transferred(c, Files[opened[c]], position)
    /\ c # clientSock =>
         /\ ended[c] = "closed" /\ Served(c)
         /\ pc[c] \in {"recv", "done"} =>
              Transferred(c, Files[opened[c]], Len(Files[opened[c]]))

EndInv(c) ==
  /\ pc[c] = "start" => opened[c] = <<>> /\ ended[c] = "open"
  /\ pc[c] = "done" => ended[c] = "closed" /\ stream[c] = <<>>
  /\ ended[c] = "reset" => server = "dead"

ClientInv(c) == CopyInv(c) /\ UnservedInv(c) /\ ServedInv(c) /\ EndInv(c)

TransferInv ==
  /\ Types /\ BufferInv /\ NameInv /\ QueueInv /\ SockInv
  /\ \A c \in Client : ClientInv(c)

-----------------------------------------------------------------------------
(* Buffers, names and files. *)

\* A set of natural numbers has a first one.
LEMMA FirstNumber ==
  ASSUME NEW S, S \subseteq Nat, S # {}
  PROVE  \E i \in S : \A j \in S : i <= j
<1>1. \E i \in S : \A j \in S : ~(<<j, i>> \in OpToRel(<, Nat))
  BY NatLessThanWellFounded, WFMin
<1>2. PICK i \in S : \A j \in S : ~(<<j, i>> \in OpToRel(<, Nat))
  BY <1>1
<1>3. ASSUME NEW j \in S PROVE i <= j
  <2>1. <<j, i>> \notin OpToRel(<, Nat)
    BY <1>2
  <2>2. i \in Nat /\ j \in Nat
    OBVIOUS
  <2>3. ~(j < i)
    BY <2>1, <2>2 DEF OpToRel
  <2> QED BY <2>2, <2>3
<1> QED BY <1>3

\* What writing over the front of a buffer or of a file gives.
LEMMA OverwriteProperties ==
  ASSUME NEW S, NEW buf \in Seq(S), NEW front \in Seq(S)
  PROVE  /\ Overwrite(buf, front) \in Seq(S)
         /\ Len(Overwrite(buf, front)) =
              IF Len(front) > Len(buf) THEN Len(front) ELSE Len(buf)
         /\ \A i \in 1 .. Len(Overwrite(buf, front)) :
              Overwrite(buf, front)[i] =
                IF i <= Len(front) THEN front[i] ELSE buf[i]
<1> DEFINE rest == SubSeq(buf, Len(front) + 1, Len(buf))
<1>1. Len(front) \in Nat /\ Len(buf) \in Nat
  BY LenProperties
<1>2. \A i \in (Len(front) + 1) .. Len(buf) : buf[i] \in S
  BY <1>1, ElementOfSeq
<1>3. /\ rest \in Seq(S)
      /\ Len(rest) = IF Len(front) + 1 <= Len(buf)
                     THEN Len(buf) - (Len(front) + 1) + 1 ELSE 0
      /\ \A i \in 1 .. (Len(buf) - (Len(front) + 1) + 1) :
           rest[i] = buf[(Len(front) + 1) + i - 1]
  BY <1>1, <1>2, SubSeqProperties
<1> HIDE DEF rest
<1>4. Overwrite(buf, front) = front \o rest
  BY DEF Overwrite, rest
<1>5. /\ front \o rest \in Seq(S)
      /\ Len(front \o rest) = Len(front) + Len(rest)
      /\ \A i \in 1 .. Len(front) + Len(rest) : (front \o rest)[i] =
           IF i <= Len(front) THEN front[i] ELSE rest[i - Len(front)]
  BY <1>3, ConcatProperties
<1>6. ASSUME NEW i \in 1 .. (Len(front) + Len(rest)), i > Len(front)
      PROVE  rest[i - Len(front)] = buf[i]
  BY <1>1, <1>3, <1>6
<1> QED BY <1>1, <1>3, <1>4, <1>5, <1>6

\* Names, buffers and files are sequences of characters and of blocks.
LEMMA ConstantsTyped ==
  /\ \A n \in Names : n \in Seq(Char)
  /\ \A buf \in NameBuffers : buf \in Seq(Char)
  /\ \A n \in DOMAIN Files : Files[n] \in Seq(Block)
  /\ \A f \in OldCopies : f \in Seq(Block)
<1>1. ASSUME NEW n \in Names PROVE n \in Seq(Char)
  <2>1. n \in Seq(Range(n)) /\ Range(n) \subseteq Char
    BY FileAssumption DEF Char
  <2> HIDE DEF Char
  <2> QED BY <2>1
<1>2. ASSUME NEW buf \in NameBuffers PROVE buf \in Seq(Char)
  <2>1. buf \in Seq(Range(buf)) /\ Range(buf) \subseteq Char
    BY FileAssumption DEF Char
  <2> HIDE DEF Char
  <2> QED BY <2>1
<1>3. ASSUME NEW n \in DOMAIN Files PROVE Files[n] \in Seq(Block)
  <2>1. Files[n] \in Seq(Range(Files[n])) /\ Range(Files[n]) \subseteq Block
    BY FileAssumption DEF Block
  <2> HIDE DEF Block
  <2> QED BY <2>1
<1>4. ASSUME NEW f \in OldCopies PROVE f \in Seq(Block)
  <2>1. f \in Seq(Range(f)) /\ Range(f) \subseteq Block
    BY FileAssumption DEF Block
  <2> HIDE DEF Block
  <2> QED BY <2>1
<1> QED BY <1>1, <1>2, <1>3, <1>4

\* The name the server opens: the request, and an end only if the buffer was
\* filled further than the request.
LEMMA NameReceived ==
  ASSUME Types, BufferInv, NEW name \in Names,
         NEW buf, buf = ReceiveName(fileName, name),
         NEW filled, filled = IF Len(name) > longest THEN Len(name) ELSE longest
  PROVE  /\ buf \in Seq(Char) /\ Len(buf) = Len(fileName)
         /\ buf[Len(buf)] = NUL
         /\ \A i \in 1 .. Len(buf) : i > filled => buf[i] = NUL
         /\ CString(buf) \in Seq(Char) /\ CString(buf) # <<>>
         /\ NameExtends(CString(buf), name, filled)
<1> DEFINE E(i) == buf[i] = NUL /\ \A j \in 1 .. (i - 1) : buf[j] # NUL
           end == CHOOSE i \in DOMAIN buf : E(i)
<1>1. /\ name \in Seq(Char) /\ Len(name) \in Nat /\ Len(name) # 0
      /\ \A i \in 1 .. Len(name) : name[i] # NUL
  <2>1. name \in Seq(Char) /\ name # <<>> /\ NUL \notin Range(name)
    BY ConstantsTyped, FileAssumption
  <2>2. DOMAIN name = 1 .. Len(name) /\ Len(name) \in Nat /\ Len(name) # 0
    BY <2>1, LenProperties, EmptySeq
  <2>3. \A i \in DOMAIN name : name[i] # NUL
    BY <2>1 DEF Range
  <2> QED BY <2>1, <2>2, <2>3
<1>2. /\ fileName \in Seq(Char) /\ Len(fileName) \in Nat
      /\ Len(name) < Len(fileName) /\ longest \in Nat
  BY LenProperties DEF Types, BufferInv
<1>3. /\ buf \in Seq(Char) /\ Len(buf) = Len(fileName)
      /\ \A i \in 1 .. Len(buf) :
           buf[i] = IF i <= Len(name) THEN name[i] ELSE fileName[i]
  <2>1. buf = Overwrite(fileName, name)
    BY DEF ReceiveName
  <2> QED BY <1>1, <1>2, <2>1, OverwriteProperties
<1>4. DOMAIN buf = 1 .. Len(buf)
  BY <1>3, LenProperties
<1>5. buf[Len(buf)] = NUL
  BY <1>1, <1>2, <1>3 DEF BufferInv
<1>6. \A i \in 1 .. Len(buf) : i > filled => buf[i] = NUL
  BY <1>1, <1>2, <1>3 DEF BufferInv
<1>7. \E i \in DOMAIN buf : E(i)
  <2> DEFINE Nuls == {i \in 1 .. Len(buf) : buf[i] = NUL}
  <2>1. Nuls # {} /\ Nuls \subseteq Nat
    BY <1>2, <1>3, <1>5
  <2>2. PICK i \in Nuls : \A j \in Nuls : i <= j
    BY <2>1, FirstNumber
  <2> QED BY <1>2, <1>3, <1>4, <2>2
<1>8. end \in 1 .. Len(buf) /\ E(end)
  BY <1>4, <1>7
<1>9. CString(buf) = SubSeq(buf, 1, end - 1)
  BY DEF CString
<1> HIDE DEF end
<1>10. end > Len(name)
  BY <1>1, <1>2, <1>3, <1>8
<1>11. /\ CString(buf) \in Seq(Char) /\ Len(CString(buf)) = end - 1
       /\ \A i \in 1 .. (end - 1) : CString(buf)[i] = buf[i]
  <2>1. \A i \in 1 .. (end - 1) : buf[i] \in Char
    BY <1>2, <1>3, <1>8, ElementOfSeq
  <2>2. end - 1 \in Int /\ 1 \in Int /\ 1 <= end - 1
    BY <1>1, <1>2, <1>3, <1>8, <1>10
  <2> QED BY <1>9, <2>1, <2>2, SubSeqProperties
<1>12. CString(buf) # <<>>
  BY <1>1, <1>2, <1>3, <1>8, <1>10, <1>11, EmptySeq
<1>13. NameExtends(CString(buf), name, filled)
  <2>1. Len(name) <= end - 1
    BY <1>1, <1>2, <1>3, <1>8, <1>10
  <2>2. \A i \in 1 .. Len(name) : CString(buf)[i] = name[i]
    BY <1>1, <1>2, <1>3, <1>8, <1>10, <1>11, SMTT(30)
  <2>3. ASSUME Len(name) < end - 1 PROVE Len(name) < filled
    <3>1. end - 1 \in 1 .. Len(buf) /\ buf[end - 1] # NUL
      BY <1>1, <1>2, <1>3, <1>8, <2>3
    <3> QED BY <1>1, <1>2, <1>3, <1>6, <2>3, <3>1
  <2> QED BY <1>11, <2>1, <2>2, <2>3 DEF NameExtends
<1> QED BY <1>3, <1>5, <1>6, <1>11, <1>12, <1>13

\* What Filled says of a buffer that ends in a NUL.
LEMMA FilledProperties ==
  ASSUME NEW S, NEW buf \in Seq(S)
  PROVE  /\ Filled(buf) \in Nat
         /\ \A i \in 1 .. Len(buf) : i > Filled(buf) => buf[i] = NUL
<1> DEFINE F(k) == /\ k = 0 \/ buf[k] # NUL
                   /\ \A i \in (k + 1) .. Len(buf) : buf[i] = NUL
           Ends == {k \in 0 .. Len(buf) :
                      \A i \in (k + 1) .. Len(buf) : buf[i] = NUL}
<1>1. Len(buf) \in Nat
  BY LenProperties
<1>2. Len(buf) \in Ends /\ Ends \subseteq Nat
  BY <1>1
<1>3. PICK k \in Ends : \A j \in Ends : k <= j
  BY <1>2, FirstNumber
<1>4. ASSUME k # 0, buf[k] = NUL PROVE FALSE
  <2>1. k - 1 \in Ends
    BY <1>1, <1>4
  <2>2. k \in Nat
    BY <1>1
  <2> HIDE DEF Ends
  <2>3. k <= k - 1
    BY <1>3, <2>1
  <2> QED BY <2>2, <2>3
<1>5. k \in 0 .. Len(buf) /\ F(k)
  BY <1>4
<1>6. Filled(buf) = CHOOSE j \in 0 .. Len(buf) : F(j)
  BY DEF Filled
<1>7. Filled(buf) \in 0 .. Len(buf) /\ F(Filled(buf))
  BY <1>5, <1>6
<1> QED BY <1>1, <1>7

-----------------------------------------------------------------------------
(* The clients. *)

\* What one write to the .bak does.
LEMMA WriteProperties ==
  ASSUME Types, NEW c \in Client, CopyInv(c), NEW block \in Block,
         Write(c, block), UNCHANGED old
  PROVE  /\ copy' \in [Client -> Seq(Block)] /\ written' \in [Client -> Nat]
         /\ \A d \in Client \ {c} :
              copy'[d] = copy[d] /\ written'[d] = written[d]
         /\ written'[c] = written[c] + 1
         /\ copy'[c][written[c] + 1] = block
         /\ \A i \in 1 .. written[c] : copy'[c][i] = copy[c][i]
         /\ CopyInv(c)'
<1> DEFINE n == written[c]
           front == Append(SubSeq(copy[c], 1, n), block)
           new == Overwrite(copy[c], front)
<1>1. /\ copy[c] \in Seq(Block) /\ Len(copy[c]) \in Nat
      /\ n \in Nat /\ n <= Len(copy[c])
      /\ old[c] \in Seq(Block) /\ Len(old[c]) \in Nat
  BY LenProperties DEF Types, CopyInv
<1>2. /\ SubSeq(copy[c], 1, n) \in Seq(Block)
      /\ Len(SubSeq(copy[c], 1, n)) = n
      /\ \A i \in 1 .. n : SubSeq(copy[c], 1, n)[i] = copy[c][i]
  <2>1. \A i \in 1 .. n : copy[c][i] \in Block
    BY <1>1, ElementOfSeq
  <2> QED BY <1>1, <2>1, SubSeqProperties
<1>3. /\ front \in Seq(Block) /\ Len(front) = n + 1
      /\ \A i \in 1 .. n : front[i] = copy[c][i]
      /\ front[n + 1] = block
  BY <1>2, AppendProperties
<1>4. /\ copy' = [copy EXCEPT ![c] = new]
      /\ written' = [written EXCEPT ![c] = n + 1]
  BY DEF Write
<1> HIDE DEF front, n
<1>5. /\ new \in Seq(Block)
      /\ Len(new) = IF n + 1 > Len(copy[c]) THEN n + 1 ELSE Len(copy[c])
      /\ \A i \in 1 .. Len(new) :
           new[i] = IF i <= n + 1 THEN front[i] ELSE copy[c][i]
  BY <1>1, <1>3, OverwriteProperties
<1> HIDE DEF new
<1>6. copy'[c] = new /\ written'[c] = n + 1 /\ old'[c] = old[c]
  BY <1>4 DEF Types
<1>7. new[n + 1] = block /\ \A i \in 1 .. n : new[i] = copy[c][i]
  <2>1. n + 1 <= Len(new)
    BY <1>1, <1>5
  <2>2. \A i \in 1 .. (n + 1) : new[i] = front[i]
    BY <1>1, <1>5, <2>1
  <2> QED BY <1>1, <1>3, <2>2
<1>8. /\ n + 1 <= Len(new) /\ Len(old[c]) <= Len(new)
      /\ Len(new) \in {n + 1, Len(old[c])}
      /\ \A i \in (n + 2) .. Len(new) : new[i] = old[c][i]
  BY <1>1, <1>5 DEF CopyInv, n
<1>9. CopyInv(c)'
  <2>1. \A i \in (written'[c] + 1) .. Len(copy'[c]) : copy'[c][i] = old'[c][i]
    BY <1>1, <1>6, <1>8
  <2> QED BY <1>6, <1>8, <2>1 DEF CopyInv
<1>10. copy' \in [Client -> Seq(Block)] /\ written' \in [Client -> Nat]
  BY <1>1, <1>4, <1>5 DEF Types
<1>11. \A d \in Client \ {c} :
         copy'[d] = copy[d] /\ written'[d] = written[d]
  BY <1>4 DEF Types
<1> QED BY <1>6, <1>7, <1>9, <1>10, <1>11 DEF n

\* A step that has nothing to do with a client leaves its invariant alone.
LEMMA ClientKept ==
  ASSUME NEW c \in Client, ClientInv(c),
         pc'[c] = pc[c], old'[c] = old[c], copy'[c] = copy[c],
         written'[c] = written[c], stream'[c] = stream[c],
         ended'[c] = ended[c], opened'[c] = opened[c],
         server' = "dead" <=> server = "dead",
         c = clientSock' <=> c = clientSock,
         c = clientSock => server' = server /\ position' = position
  PROVE  ClientInv(c)'
<1>1. CopyInv(c)'
  BY DEF ClientInv, CopyInv
<1>2. UnservedInv(c)'
  BY DEF ClientInv, UnservedInv
<1>3. ServedInv(c)'
  <2>1. \A file, n : Transferred(c, file, n) => Transferred(c, file, n)'
    BY DEF Transferred
  <2> QED BY <2>1 DEF ClientInv, ServedInv, Served
<1>4. EndInv(c)'
  BY DEF ClientInv, EndInv
<1> QED BY <1>1, <1>2, <1>3, <1>4 DEF ClientInv

\* A client that goes on without touching anything else.
LEMMA ClientMoves ==
  ASSUME TransferInv, NEW c \in Client,
         NEW to \in {"connected", "recv", "done", "killed", "silent"},
         pc[c] \in {"start", "connected", "recv"},
         pc' = [pc EXCEPT ![c] = to],
         to = "done" => ended[c] = "closed" /\ stream[c] = <<>>,
         to = "recv" => pc[c] = "connected",
         pc[c] = "recv" => to \in {"done", "killed"},
         UNCHANGED <<request, old, copy, written, backlog, stream, ended,
                     serverVars>>
  PROVE  TransferInv'
<1>1. /\ Types /\ BufferInv /\ NameInv /\ QueueInv /\ SockInv
      /\ \A d \in Client : ClientInv(d)
  BY DEF TransferInv
<1>2. pc'[c] = to /\ \A d \in Client \ {c} : pc'[d] = pc[d]
  BY <1>1 DEF Types
<1>3. Types'
  BY <1>1 DEF Types, serverVars
<1>4. BufferInv' /\ NameInv'
  <2>1. BufferInv'
    BY <1>1 DEF BufferInv, serverVars
  <2>2. ServedInv(c)
    BY <1>1 DEF ClientInv
  <2>3. opened[c] # <<>> => pc[c] = "recv"
    BY <2>2 DEF ServedInv
  <2>4. \A d \in Client :
          opened[d] # <<>> /\ pc'[d] \in {"recv", "done"} =>
            pc[d] \in {"recv", "done"}
    BY <1>2, <2>3
  <2>5. NameInv'
    BY <1>1, <2>4 DEF NameInv, serverVars
  <2> QED BY <2>1, <2>5
<1>5. QueueInv'
  <2>1. \A d \in Client : pc[d] # "start" => pc'[d] # "start"
    BY <1>2
  <2>2. \A i \in DOMAIN backlog : backlog[i] \in Client
    BY <1>1, LenProperties, ElementOfSeq DEF Types
  <2> QED BY <1>1, <2>1, <2>2 DEF QueueInv, serverVars
<1>6. SockInv'
  <2>1. ASSUME server = "dead" PROVE clientSock # c
    BY <1>1, <2>1 DEF SockInv, Gone
  <2>2. \A d \in Client : pc[d] # "start" => pc'[d] # "start"
    BY <1>2
  <2>3. server = "dead" => Gone(clientSock)'
    BY <1>1, <1>2, <2>1 DEF SockInv, Gone, serverVars
  <2> QED BY <1>1, <2>2, <2>3 DEF SockInv, File, serverVars
<1>7. ASSUME NEW d \in Client PROVE ClientInv(d)'
  <2>1. CASE d # c
    <3>1. ClientInv(d)
      BY <1>1
    <3> QED BY <1>2, <2>1, <3>1, ClientKept DEF serverVars
  <2>2. CASE d = c
    <3>1. CopyInv(c) /\ UnservedInv(c) /\ ServedInv(c) /\ EndInv(c)
      BY <1>1 DEF ClientInv
    <3>2. CopyInv(c)' /\ UnservedInv(c)' /\ EndInv(c)'
      BY <1>2, <3>1 DEF CopyInv, UnservedInv, EndInv, serverVars
    <3>3. \A file, n : Transferred(c, file, n) => Transferred(c, file, n)'
      BY DEF Transferred
    <3>4. ServedInv(c)'
      <4>1. opened[c] # <<>> => pc[c] = "recv"
        BY <3>1 DEF ServedInv
      <4> QED BY <1>2, <3>1, <3>3, <4>1 DEF ServedInv, Served, serverVars
    <3> QED BY <2>2, <3>2, <3>4 DEF ClientInv
  <2> QED BY <2>1, <2>2
<1> QED BY <1>3, <1>4, <1>5, <1>6, <1>7 DEF TransferInv

\* connect puts a client behind the ones that wait.
LEMMA ConnectKeeps ==
  ASSUME TransferInv, NEW c \in Client, Connect(c)
  PROVE  TransferInv'
<1>1. CASE server = "dead"
  BY <1>1, ClientMoves DEF Connect
<1>2. CASE server # "dead"
  <2>1. /\ Types /\ BufferInv /\ NameInv /\ QueueInv /\ SockInv
        /\ \A d \in Client : ClientInv(d)
    BY DEF TransferInv
  <2>2. /\ pc[c] = "start" /\ pc' = [pc EXCEPT ![c] = "connected"]
        /\ backlog' = Append(backlog, c)
        /\ UNCHANGED <<request, old, copy, written, stream, ended, serverVars>>
    BY <1>2 DEF Connect
  <2>3. pc'[c] = "connected" /\ \A d \in Client \ {c} : pc'[d] = pc[d]
    BY <2>1, <2>2 DEF Types
  <2>4. /\ backlog' \in Seq(Client) /\ Len(backlog') = Len(backlog) + 1
        /\ Len(backlog) \in Nat
        /\ \A i \in 1 .. Len(backlog) : backlog'[i] = backlog[i]
        /\ backlog'[Len(backlog) + 1] = c
        /\ DOMAIN backlog = 1 .. Len(backlog)
        /\ DOMAIN backlog' = 1 .. Len(backlog')
    BY <2>1, <2>2, AppendProperties, LenProperties DEF Types
  <2>5. opened[c] = <<>> /\ ended[c] = "open" /\ c # clientSock
    BY <2>1, <2>2, FileAssumption DEF ClientInv, EndInv, SockInv
  <2>6. \A i \in 1 .. Len(backlog) : backlog[i] # c /\ backlog[i] \in Client
    BY <2>1, <2>2, <2>4, ElementOfSeq DEF QueueInv, Types
  <2>7. Types'
    BY <2>1, <2>2, <2>4 DEF Types, serverVars
  <2>8. BufferInv' /\ NameInv'
    BY <2>1, <2>2, <2>3, <2>5 DEF BufferInv, NameInv, serverVars
  <2>9. QueueInv'
    <3>1. \A i, j \in DOMAIN backlog' : backlog'[i] = backlog'[j] => i = j
      BY <2>1, <2>4, <2>6 DEF QueueInv
    <3>2. ASSUME NEW i \in DOMAIN backlog'
          PROVE  /\ backlog'[i] # clientSock' /\ pc'[backlog'[i]] # "start"
                 /\ opened'[backlog'[i]] = <<>>
                 /\ server' # "dead" => ended'[backlog'[i]] = "open"
      <4>1. CASE i = Len(backlog) + 1
        BY <2>2, <2>3, <2>4, <2>5, <4>1 DEF serverVars
      <4>2. CASE i \in 1 .. Len(backlog)
        <5>1. /\ backlog[i] # clientSock /\ pc[backlog[i]] # "start"
              /\ opened[backlog[i]] = <<>>
              /\ server # "dead" => ended[backlog[i]] = "open"
          BY <2>1, <2>4, <4>2 DEF QueueInv
        <5>2. backlog'[i] = backlog[i] /\ pc'[backlog[i]] # "start"
          BY <2>3, <2>4, <2>6, <4>2, <5>1
        <5> QED BY <2>2, <5>1, <5>2 DEF serverVars
      <4> QED BY <2>4, <4>1, <4>2
    <3> QED BY <3>1, <3>2 DEF QueueInv
  <2>10. SockInv'
    <3>1. clientSock \in Client => pc'[clientSock] = pc[clientSock]
      BY <2>3, <2>5
    <3> QED BY <2>1, <2>2, <3>1 DEF SockInv, File, Gone, serverVars
  <2>11. ASSUME NEW d \in Client PROVE ClientInv(d)'
    <3>1. CASE d # c
      <4>1. ClientInv(d)
        BY <2>1
      <4> QED BY <2>2, <2>3, <3>1, <4>1, ClientKept DEF serverVars
    <3>2. CASE d = c
      <4>1. CopyInv(c) /\ UnservedInv(c) /\ EndInv(c)
        BY <2>1 DEF ClientInv
      <4>2. CopyInv(c)' /\ UnservedInv(c)' /\ EndInv(c)' /\ ServedInv(c)'
        BY <2>2, <2>3, <2>5, <4>1
        DEF CopyInv, UnservedInv, EndInv, ServedInv, serverVars
      <4> QED BY <3>2, <4>2 DEF ClientInv
    <3> QED BY <3>1, <3>2
  <2> QED BY <2>7, <2>8, <2>9, <2>10, <2>11 DEF TransferInv
<1> QED BY <1>1, <1>2

\* A block that is written leaves the blocks in their order.
LEMMA BlockMoves ==
  ASSUME Types, NEW c \in Client, CopyInv(c), stream[c] # <<>>,
         Write(c, Head(stream[c])), UNCHANGED old,
         stream' = [stream EXCEPT ![c] = Tail(@)],
         NEW file, NEW n, Transferred(c, file, n)
  PROVE  Transferred(c, file, n)'
<1> DEFINE s == stream[c]  k == written[c]
<1>1. s \in Seq(Block) /\ k \in Nat /\ s # <<>>
  BY DEF Types
<1>2. /\ Head(s) \in Block /\ Tail(s) \in Seq(Block)
      /\ Len(Tail(s)) = Len(s) - 1 /\ Len(s) \in Nat /\ Len(s) # 0
      /\ \A i \in 1 .. Len(Tail(s)) : Tail(s)[i] = s[i + 1]
  BY <1>1, HeadTailProperties, LenProperties, EmptySeq
<1>3. Head(s) = s[1]
  BY <1>1
<1>4. /\ written'[c] = k + 1 /\ copy'[c][k + 1] = Head(s)
      /\ \A i \in 1 .. k : copy'[c][i] = copy[c][i]
  BY <1>2, WriteProperties
<1>5. stream'[c] = Tail(s)
  BY DEF Types
<1>6. /\ \A i \in 1 .. k : copy[c][i] = file[i]
      /\ \A i \in 1 .. Len(s) : s[i] = file[k + i]
  BY DEF Transferred
<1>7. written'[c] + Len(stream'[c]) = n
  <2>1. /\ k + Len(s) = n /\ k \in Nat /\ Len(s) \in Nat
        /\ written'[c] = k + 1 /\ Len(stream'[c]) = Len(s) - 1
    BY <1>1, <1>2, <1>4, <1>5 DEF Transferred
  <2> HIDE DEF s, k
  <2>2. \A a, b \in Nat : (a + 1) + (b - 1) = a + b
    OBVIOUS
  <2> QED BY <2>1, <2>2, Zenon
<1> HIDE DEF s, k
<1>8. \A i \in 1 .. written'[c] : copy'[c][i] = file[i]
  <2>1. copy'[c][k + 1] = file[k + 1]
    BY <1>2, <1>3, <1>4, <1>6
  <2> QED BY <1>1, <1>4, <1>6, <2>1
<1>9. ASSUME NEW i \in 1 .. Len(stream'[c])
      PROVE  stream'[c][i] = file[written'[c] + i]
  <2>1. i \in 1 .. Len(Tail(s)) /\ i + 1 \in 1 .. Len(s)
    BY <1>2, <1>5, <1>9
  <2>2. Tail(s)[i] = file[k + (i + 1)]
    BY <1>2, <1>6, <2>1
  <2>3. k + (i + 1) = (k + 1) + i
    BY <1>1, <2>1
  <2> QED BY <1>4, <1>5, <2>2, <2>3
<1> QED BY <1>7, <1>8, <1>9 DEF Transferred

\* A client takes the next block off its connection.
LEMMA RecvBlockKeeps ==
  ASSUME TransferInv, NEW c \in Client, RecvBlock(c)
  PROVE  TransferInv'
<1>1. /\ Types /\ BufferInv /\ NameInv /\ QueueInv /\ SockInv
      /\ \A d \in Client : ClientInv(d)
  BY DEF TransferInv
<1>2. /\ pc[c] = "recv" /\ stream[c] # <<>> /\ Write(c, Head(stream[c]))
      /\ stream' = [stream EXCEPT ![c] = Tail(@)]
      /\ UNCHANGED <<request, pc, old, backlog, ended, serverVars>>
  BY DEF RecvBlock
<1>3. /\ Head(stream[c]) \in Block /\ Tail(stream[c]) \in Seq(Block)
      /\ Len(Tail(stream[c])) <= Len(stream[c])
  BY <1>1, <1>2, HeadTailProperties, LenProperties DEF Types
<1>4. CopyInv(c) /\ UnservedInv(c) /\ ServedInv(c) /\ EndInv(c)
  BY <1>1 DEF ClientInv
<1>5. /\ copy' \in [Client -> Seq(Block)] /\ written' \in [Client -> Nat]
      /\ \A d \in Client \ {c} : copy'[d] = copy[d] /\ written'[d] = written[d]
      /\ CopyInv(c)'
  BY <1>1, <1>2, <1>3, <1>4, WriteProperties
<1>6. /\ stream' \in [Client -> Seq(Block)] /\ stream'[c] = Tail(stream[c])
      /\ \A d \in Client \ {c} : stream'[d] = stream[d]
  BY <1>1, <1>2, <1>3 DEF Types
<1>7. \A d \in Client : Len(stream'[d]) <= Window
  <2>1. Len(stream[c]) \in Nat /\ Len(Tail(stream[c])) \in Nat /\ Window \in Nat
    BY <1>1, <1>3, LenProperties, FileAssumption DEF Types
  <2>2. Len(stream'[c]) <= Window
    BY <1>1, <1>3, <1>6, <2>1 DEF Types
  <2> QED BY <1>1, <1>6, <2>2 DEF Types
<1>8. Types'
  BY <1>1, <1>2, <1>5, <1>6, <1>7 DEF Types, serverVars
<1>9. BufferInv' /\ NameInv' /\ QueueInv' /\ SockInv'
  BY <1>1, <1>2 DEF BufferInv, NameInv, QueueInv, SockInv, File, Gone,
                    serverVars
<1>10. ASSUME NEW d \in Client PROVE ClientInv(d)'
  <2>1. CASE d # c
    <3>1. ClientInv(d)
      BY <1>1
    <3> QED BY <1>2, <1>5, <1>6, <2>1, <3>1, ClientKept DEF serverVars
  <2>2. CASE d = c
    <3>1. opened[c] # <<>>
      BY <1>2, <1>4 DEF UnservedInv
    <3>2. UnservedInv(c)' /\ EndInv(c)'
      BY <1>2, <1>4, <3>1 DEF UnservedInv, EndInv, serverVars
    <3>3. \A file, n : Transferred(c, file, n) => Transferred(c, file, n)'
      BY <1>1, <1>2, <1>4, BlockMoves
    <3>4. ServedInv(c)'
      BY <1>2, <1>4, <3>3 DEF ServedInv, Served, serverVars
    <3> QED BY <1>5, <2>2, <3>2, <3>4 DEF ClientInv
  <2> QED BY <2>1, <2>2
<1> QED BY <1>8, <1>9, <1>10 DEF TransferInv

\* Only a client the server had opened no file for sees a reset.
LEMMA RecvResetKeeps ==
  ASSUME TransferInv, NEW c \in Client, RecvReset(c)
  PROVE  TransferInv'
<1>1. /\ Types /\ BufferInv /\ NameInv /\ QueueInv /\ SockInv
      /\ \A d \in Client : ClientInv(d)
  BY DEF TransferInv
<1>2. /\ pc[c] = "recv" /\ ended[c] = "reset"
      /\ ended' = [ended EXCEPT ![c] = "closed"]
      /\ Write(c, Junk) \/ UNCHANGED <<copy, written>>
      /\ UNCHANGED <<request, pc, old, backlog, stream, serverVars>>
  BY DEF RecvReset
<1>3. CopyInv(c) /\ UnservedInv(c) /\ ServedInv(c) /\ EndInv(c)
  BY <1>1 DEF ClientInv
<1>4. server = "dead" /\ c # clientSock
  BY <1>1, <1>2, <1>3 DEF EndInv, SockInv, Gone
<1>5. opened[c] = <<>>
  BY <1>2, <1>3, <1>4 DEF ServedInv
<1>6. /\ copy' \in [Client -> Seq(Block)] /\ written' \in [Client -> Nat]
      /\ \A d \in Client \ {c} : copy'[d] = copy[d] /\ written'[d] = written[d]
      /\ CopyInv(c)' /\ \A i \in 1 .. written'[c] : copy'[c][i] = Junk
  <2>1. CASE Write(c, Junk)
    <3>1. Junk \in Block /\ written[c] \in Nat
      BY <1>1 DEF Block, Types
    <3>2. /\ copy' \in [Client -> Seq(Block)] /\ written' \in [Client -> Nat]
          /\ \A d \in Client \ {c} :
               copy'[d] = copy[d] /\ written'[d] = written[d]
          /\ written'[c] = written[c] + 1 /\ copy'[c][written[c] + 1] = Junk
          /\ \A i \in 1 .. written[c] : copy'[c][i] = copy[c][i]
          /\ CopyInv(c)'
      BY <1>1, <1>2, <1>3, <2>1, <3>1, WriteProperties
    <3>3. \A i \in 1 .. written[c] : copy[c][i] = Junk
      BY <1>3, <1>5 DEF UnservedInv
    <3>4. \A i \in 1 .. written'[c] : copy'[c][i] = Junk
      BY <3>1, <3>2, <3>3
    <3> QED BY <3>2, <3>4
  <2>2. CASE UNCHANGED <<copy, written>>
    BY <1>1, <1>2, <1>3, <1>5, <2>2 DEF Types, UnservedInv, CopyInv
  <2> QED BY <1>2, <2>1, <2>2
<1>7. ended'[c] = "closed" /\ \A d \in Client \ {c} : ended'[d] = ended[d]
  BY <1>1, <1>2 DEF Types
<1>8. Types'
  BY <1>1, <1>2, <1>6 DEF Types, serverVars
<1>9. BufferInv' /\ NameInv' /\ QueueInv' /\ SockInv'
  BY <1>1, <1>2, <1>4
  DEF BufferInv, NameInv, QueueInv, SockInv, File, Gone, serverVars
<1>10. ASSUME NEW d \in Client PROVE ClientInv(d)'
  <2>1. CASE d # c
    <3>1. ClientInv(d)
      BY <1>1
    <3> QED BY <1>2, <1>6, <1>7, <2>1, <3>1, ClientKept DEF serverVars
  <2>2. CASE d = c
    <3>1. UnservedInv(c)' /\ ServedInv(c)' /\ EndInv(c)'
      BY <1>2, <1>3, <1>4, <1>5, <1>6, <1>7
      DEF UnservedInv, ServedInv, EndInv, serverVars
    <3> QED BY <1>6, <2>2, <3>1 DEF ClientInv
  <2> QED BY <2>1, <2>2
<1> QED BY <1>8, <1>9, <1>10 DEF TransferInv

\* Every step of a client preserves the invariant.
LEMMA ClientKeeps ==
  ASSUME TransferInv, NEW c \in Client,
         Connect(c) \/ ClientStep(c) \/ Kill(c)
  PROVE  TransferInv'
<1>1. CASE SendName(c)
  <2>1. pc' = [pc EXCEPT ![c] = "recv"] \/ pc' = [pc EXCEPT ![c] = "silent"]
    BY <1>1 DEF SendName
  <2> QED BY <1>1, <2>1, ClientMoves DEF SendName
<1>2. CASE RecvEnd(c)
  BY <1>2, ClientMoves DEF RecvEnd
<1>3. CASE Kill(c)
  <2>1. CASE pc[c] = "recv"
    <3>1. pc' = [pc EXCEPT ![c] = "killed"]
      BY <1>3, <2>1 DEF Kill
    <3> QED BY <1>3, <2>1, <3>1, ClientMoves DEF Kill
  <2>2. CASE pc[c] = "connected"
    <3>1. pc' = [pc EXCEPT ![c] = "silent"]
      BY <1>3, <2>2 DEF Kill
    <3> QED BY <1>3, <2>2, <3>1, ClientMoves DEF Kill
  <2> QED BY <1>3, <2>1, <2>2 DEF Kill
<1> QED BY <1>1, <1>2, <1>3, ConnectKeeps, RecvBlockKeeps, RecvResetKeeps
        DEF ClientStep

-----------------------------------------------------------------------------
(* The server. *)

\* accept takes the first of the connections that wait.
LEMMA AcceptKeeps ==
  ASSUME TransferInv, Accept
  PROVE  TransferInv'
<1> SUFFICES ASSUME NEW c, c = Head(backlog) PROVE TransferInv'
  OBVIOUS
<1>1. /\ Types /\ BufferInv /\ NameInv /\ QueueInv /\ SockInv
      /\ \A d \in Client : ClientInv(d)
  BY DEF TransferInv
<1>2. /\ server = "accept" /\ backlog # <<>> /\ backlog' = Tail(backlog)
      /\ clientSock' = c /\ server' = "recv"
      /\ UNCHANGED <<clientVars, stream, ended, fileName, opened, position,
                     longest>>
  BY DEF Accept
<1>3. /\ c \in Client /\ backlog' \in Seq(Client)
      /\ Len(backlog) \in Nat /\ Len(backlog) # 0
      /\ Len(backlog') = Len(backlog) - 1
      /\ \A i \in 1 .. Len(backlog') : backlog'[i] = backlog[i + 1]
      /\ DOMAIN backlog = 1 .. Len(backlog)
      /\ DOMAIN backlog' = 1 .. Len(backlog')
  BY <1>1, <1>2, HeadTailProperties, LenProperties, EmptySeq DEF Types
<1>4. c = backlog[1] /\ 1 \in DOMAIN backlog
  BY <1>1, <1>2, <1>3 DEF Types
<1>5. pc[c] # "start" /\ opened[c] = <<>> /\ ended[c] = "open"
  BY <1>1, <1>2, <1>4 DEF QueueInv
<1>6. clientSock = None /\ None \notin Client
  BY <1>1, <1>2, FileAssumption DEF SockInv
<1>7. Types'
  BY <1>1, <1>2, <1>3 DEF Types, clientVars
<1>8. BufferInv' /\ NameInv'
  BY <1>1, <1>2 DEF BufferInv, NameInv, clientVars
<1>9. QueueInv'
  <2>1. \A i \in DOMAIN backlog' :
          i + 1 \in DOMAIN backlog /\ backlog'[i] = backlog[i + 1]
    BY <1>3
  <2>2. \A i, j \in DOMAIN backlog' : backlog'[i] = backlog'[j] => i = j
    BY <1>1, <1>3, <2>1 DEF QueueInv
  <2>3. ASSUME NEW i \in DOMAIN backlog' PROVE backlog[i + 1] # c
    <3>1. i + 1 \in DOMAIN backlog /\ i + 1 # 1
      BY <1>3, <2>1, <2>3
    <3> QED BY <1>1, <1>4, <3>1 DEF QueueInv
  <2>4. ASSUME NEW i \in DOMAIN backlog'
        PROVE  /\ backlog'[i] # clientSock' /\ pc'[backlog'[i]] # "start"
               /\ opened'[backlog'[i]] = <<>>
               /\ server' # "dead" => ended'[backlog'[i]] = "open"
    <3>1. /\ pc[backlog[i + 1]] # "start" /\ opened[backlog[i + 1]] = <<>>
          /\ ended[backlog[i + 1]] = "open"
      BY <1>1, <1>2, <2>1 DEF QueueInv
    <3> QED BY <1>2, <2>1, <2>3, <3>1 DEF clientVars
  <2> QED BY <2>2, <2>4 DEF QueueInv
<1>10. SockInv'
  BY <1>2, <1>3, <1>5 DEF SockInv, clientVars
<1>11. ASSUME NEW d \in Client PROVE ClientInv(d)'
  <2>1. ClientInv(d)
    BY <1>1
  <2>2. CASE d # c
    BY <1>2, <1>6, <2>1, <2>2, ClientKept DEF clientVars
  <2>3. CASE d = c
    <3>1. CopyInv(c) /\ UnservedInv(c) /\ EndInv(c)
      BY <2>1, <2>3 DEF ClientInv
    <3>2. CopyInv(c)' /\ UnservedInv(c)' /\ EndInv(c)' /\ ServedInv(c)'
      <4>1. /\ pc'[c] = pc[c] /\ old'[c] = old[c] /\ copy'[c] = copy[c]
            /\ written'[c] = written[c] /\ stream'[c] = stream[c]
            /\ ended'[c] = ended[c] /\ opened'[c] = opened[c]
        BY <1>2 DEF clientVars
      <4> QED BY <1>2, <1>5, <2>3, <3>1, <4>1
              DEF CopyInv, UnservedInv, EndInv, ServedInv
    <3> QED BY <2>3, <3>2 DEF ClientInv
  <2> QED BY <2>2, <2>3
<1> QED BY <1>7, <1>8, <1>9, <1>10, <1>11 DEF TransferInv

\* The server closes a connection over which no name came, or behind the whole
\* file.
LEMMA CloseKeeps ==
  ASSUME TransferInv, Close,
         \/ server = "recv" /\ pc[clientSock] = "silent"
         \/ server = "send" /\ EndOfFile,
         UNCHANGED <<clientVars, backlog, stream, fileName, opened, position,
                     longest>>
  PROVE  TransferInv'
<1> SUFFICES ASSUME NEW c, c = clientSock PROVE TransferInv'
  OBVIOUS
<1>1. /\ Types /\ BufferInv /\ NameInv /\ QueueInv /\ SockInv
      /\ \A d \in Client : ClientInv(d)
  BY DEF TransferInv
<1>2. /\ ended' = [ended EXCEPT ![c] = "closed"] /\ server' = "accept"
      /\ clientSock' = None
  BY DEF Close
<1>3. c \in Client /\ None \notin Client /\ server # "dead" /\ ended[c] = "open"
  BY <1>1, FileAssumption DEF SockInv
<1>4. ended'[c] = "closed" /\ \A d \in Client \ {c} : ended'[d] = ended[d]
  BY <1>1, <1>2, <1>3 DEF Types
<1>5. Types'
  BY <1>1, <1>2, <1>3 DEF Types, clientVars
<1>6. BufferInv' /\ NameInv'
  BY <1>1 DEF BufferInv, NameInv, clientVars
<1>7. QueueInv'
  <2>1. \A i \in DOMAIN backlog : backlog[i] \in Client \ {c}
    BY <1>1, LenProperties, ElementOfSeq DEF QueueInv, Types
  <2> QED BY <1>1, <1>2, <1>3, <1>4, <2>1 DEF QueueInv, clientVars
<1>8. SockInv'
  BY <1>2 DEF SockInv
<1>9. ASSUME NEW d \in Client PROVE ClientInv(d)'
  <2>1. ClientInv(d)
    BY <1>1
  <2>2. CASE d # c
    BY <1>2, <1>3, <1>4, <2>1, <2>2, ClientKept DEF clientVars
  <2>3. CASE d = c
    <3>1. CopyInv(c) /\ UnservedInv(c) /\ ServedInv(c) /\ EndInv(c)
      BY <2>1, <2>3 DEF ClientInv
    <3>2. /\ pc'[c] = pc[c] /\ old'[c] = old[c] /\ copy'[c] = copy[c]
          /\ written'[c] = written[c] /\ stream'[c] = stream[c]
          /\ opened'[c] = opened[c] /\ c # clientSock'
      BY <1>2, <1>3 DEF clientVars
    <3>3. CopyInv(c)'
      BY <3>1, <3>2 DEF CopyInv
    <3>4. pc[c] # "start" /\ pc[c] # "done"
      BY <1>1, <1>3, <3>1 DEF SockInv, EndInv
    <3>5. EndInv(c)'
      BY <1>4, <3>2, <3>4 DEF EndInv
    <3>6. CASE server = "recv" /\ pc[c] = "silent"
      <4>1. opened[c] = <<>>
        BY <1>1, <3>6 DEF SockInv
      <4> QED BY <1>3, <2>3, <3>1, <3>2, <3>3, <3>5, <3>6, <4>1
              DEF ClientInv, UnservedInv, ServedInv
    <3>7. CASE server = "send" /\ EndOfFile
      <4>1. opened[c] \in DOMAIN Files /\ position = Len(Files[opened[c]])
        BY <1>1, <3>7 DEF SockInv, EndOfFile, File
      <4>2. opened[c] # <<>>
        BY <4>1, FileAssumption DEF Names
      <4>3. \A file, n : Transferred(c, file, n) => Transferred(c, file, n)'
        BY <3>2 DEF Transferred
      <4>4. UnservedInv(c)'
        BY <3>2, <4>2 DEF UnservedInv
      <4>5. ServedInv(c)'
        BY <1>4, <3>1, <3>2, <3>4, <3>7, <4>1, <4>2, <4>3 DEF ServedInv, Served
      <4> QED BY <2>3, <3>3, <3>5, <4>4, <4>5 DEF ClientInv
    <3> QED BY <3>6, <3>7
  <2> QED BY <2>2, <2>3
<1> QED BY <1>5, <1>6, <1>7, <1>8, <1>9 DEF TransferInv

\* The server receives a name and opens a file, or fails to.
LEMMA RecvNameKeeps ==
  ASSUME TransferInv, RecvName
  PROVE  TransferInv'
<1> DEFINE max == IF Len(request[clientSock]) > longest
                  THEN Len(request[clientSock]) ELSE longest
<1> SUFFICES ASSUME NEW c, c = clientSock, NEW filled, filled = max,
                    NEW buf, buf = ReceiveName(fileName, request[c])
             PROVE  TransferInv'
  OBVIOUS
<1>1. /\ Types /\ BufferInv /\ NameInv /\ QueueInv /\ SockInv
      /\ \A d \in Client : ClientInv(d)
  BY DEF TransferInv
<1>2. /\ server = "recv" /\ pc[c] \in {"recv", "killed"} /\ pc' = pc
      /\ fileName' = buf /\ opened' = [opened EXCEPT ![c] = CString(buf)]
      /\ longest' = filled /\ position' = 0
      /\ server' = IF CString(buf) \in DOMAIN Files THEN "send" ELSE "spin"
      /\ UNCHANGED <<clientVars, backlog, stream, ended, clientSock>>
  BY DEF RecvName, Open, clientVars
<1>3. c \in Client /\ opened[c] = <<>> /\ ended[c] = "open"
  BY <1>1, <1>2 DEF SockInv
<1>4. request[c] \in Names /\ longest \in Nat
  BY <1>1, <1>3 DEF Types
<1>5. request[c] \in Seq(Char) /\ Len(request[c]) \in Nat
  BY <1>4, ConstantsTyped, LenProperties
<1>6. filled \in Nat /\ longest <= filled
  BY <1>4, <1>5
<1>7. /\ buf \in Seq(Char) /\ Len(buf) = Len(fileName) /\ buf[Len(buf)] = NUL
      /\ \A i \in 1 .. Len(buf) : i > filled => buf[i] = NUL
      /\ CString(buf) \in Seq(Char) /\ CString(buf) # <<>>
      /\ NameExtends(CString(buf), request[c], filled)
  BY <1>1, <1>4, NameReceived, Zenon
<1> HIDE DEF max
<1>8. /\ opened'[c] = CString(buf)
      /\ \A d \in Client \ {c} : opened'[d] = opened[d]
  BY <1>1, <1>2, <1>3 DEF Types
<1>9. Types'
  <2>1. opened' \in [Client -> Seq(Char)]
    BY <1>1, <1>2, <1>7 DEF Types
  <2> QED BY <1>1, <1>2, <1>6, <1>7, <2>1 DEF Types, clientVars
<1>10. BufferInv'
  <2>1. buf # <<>> /\ \A n \in Names : Len(n) < Len(buf)
    <3>1. fileName # <<>> /\ fileName \in Seq(Char)
      BY <1>1 DEF BufferInv, Types
    <3>2. Len(fileName) # 0
      BY <3>1, EmptySeq
    <3>3. buf # <<>>
      BY <1>7, <3>2, EmptySeq
    <3> QED BY <1>1, <1>7, <3>3 DEF BufferInv
  <2> QED BY <1>2, <1>7, <2>1 DEF BufferInv
<1>11. NameInv'
  <2> SUFFICES ASSUME NEW d \in Client, pc[d] \in {"recv", "done"},
                      opened'[d] # <<>>
               PROVE  NameExtends(opened'[d], request[d], filled)
    BY <1>2 DEF NameInv, clientVars
  <2>1. CASE d = c
    BY <1>7, <1>8, <2>1
  <2>2. CASE d # c
    <3>1. NameExtends(opened[d], request[d], longest)
      BY <1>1, <1>8, <2>2 DEF NameInv
    <3>2. Len(request[d]) \in Nat
      BY <1>1, ConstantsTyped, LenProperties DEF Types
    <3> QED BY <1>4, <1>6, <1>8, <2>2, <3>1, <3>2 DEF NameExtends
  <2> QED BY <2>1, <2>2
<1>12. QueueInv'
  <2>1. \A i \in DOMAIN backlog : backlog[i] \in Client \ {c}
    BY <1>1, LenProperties, ElementOfSeq DEF QueueInv, Types
  <2> QED BY <1>1, <1>2, <1>8, <2>1 DEF QueueInv, clientVars
<1>13. SockInv'
  <2>1. pc[c] # "start"
    BY <1>2
  <2>2. CString(buf) \in DOMAIN Files => 0 <= Len(Files[CString(buf)])
    BY ConstantsTyped, LenProperties
  <2> QED BY <1>2, <1>3, <1>7, <1>8, <2>1, <2>2 DEF SockInv, File, clientVars
<1>14. ASSUME NEW d \in Client PROVE ClientInv(d)'
  <2>1. ClientInv(d)
    BY <1>1
  <2>2. CASE d # c
    <3>1. server # "dead" /\ server' # "dead"
      BY <1>2
    <3> QED BY <1>2, <1>8, <2>1, <2>2, <3>1, ClientKept DEF clientVars
  <2>3. CASE d = c
    <3>1. CopyInv(c) /\ UnservedInv(c) /\ EndInv(c)
      BY <2>1, <2>3 DEF ClientInv
    <3>2. /\ pc'[c] = pc[c] /\ old'[c] = old[c] /\ copy'[c] = copy[c]
          /\ written'[c] = written[c] /\ stream'[c] = stream[c]
          /\ ended'[c] = ended[c] /\ clientSock' = c
      BY <1>2 DEF clientVars
    <3>3. CopyInv(c)' /\ UnservedInv(c)' /\ EndInv(c)'
      BY <1>2, <1>3, <1>7, <1>8, <3>1, <3>2 DEF CopyInv, UnservedInv, EndInv
    <3>4. written[c] = 0 /\ stream[c] = <<>>
      BY <1>2, <1>3, <3>1 DEF UnservedInv
    <3>5. Len(<<>>) = 0 /\ Len(stream[c]) = 0
      BY <3>4, EmptySeq
    <3>6. \A file : Transferred(c, file, 0)'
      BY <3>2, <3>4, <3>5 DEF Transferred
    <3>7. ServedInv(c)'
      BY <1>2, <3>2, <3>6 DEF ServedInv
    <3> QED BY <2>3, <3>3, <3>7 DEF ClientInv
  <2> QED BY <2>2, <2>3
<1> QED BY <1>9, <1>10, <1>11, <1>12, <1>13, <1>14 DEF TransferInv

\* What is before the first NUL is made of what is in the buffer.
LEMMA StringTyped ==
  ASSUME NEW buf \in Seq(Char), buf # <<>>, buf[Len(buf)] = NUL
  PROVE  CString(buf) \in Seq(Char)
<1> DEFINE E(i) == buf[i] = NUL /\ \A j \in 1 .. (i - 1) : buf[j] # NUL
           end == CHOOSE i \in DOMAIN buf : E(i)
           Nuls == {i \in 1 .. Len(buf) : buf[i] = NUL}
<1>1. Len(buf) \in Nat /\ Len(buf) # 0 /\ DOMAIN buf = 1 .. Len(buf)
  BY LenProperties, EmptySeq
<1>2. Nuls # {} /\ Nuls \subseteq Nat
  BY <1>1
<1>3. PICK i \in Nuls : \A j \in Nuls : i <= j
  BY <1>2, FirstNumber
<1>4. \E j \in DOMAIN buf : E(j)
  BY <1>1, <1>3
<1>5. end \in 1 .. Len(buf)
  BY <1>1, <1>4
<1>6. CString(buf) = SubSeq(buf, 1, end - 1)
  BY DEF CString
<1> HIDE DEF end
<1>7. \A j \in 1 .. (end - 1) : buf[j] \in Char
  BY <1>1, <1>5, ElementOfSeq
<1>8. end - 1 \in Int /\ 1 \in Int
  BY <1>1, <1>5
<1> QED BY <1>6, <1>7, <1>8, SubSeqProperties

\* The server did not hear a client that is gone and opens what it has.
LEMMA RecvFailsKeeps ==
  ASSUME TransferInv, RecvFails
  PROVE  TransferInv'
<1> SUFFICES ASSUME NEW c, c = clientSock, NEW name, name = CString(fileName)
             PROVE  TransferInv'
  OBVIOUS
<1>1. /\ Types /\ BufferInv /\ NameInv /\ QueueInv /\ SockInv
      /\ \A d \in Client : ClientInv(d)
  BY DEF TransferInv
<1>2. /\ server = "recv" /\ pc[c] \in {"silent", "killed"} /\ pc' = pc
      /\ fileName' = fileName /\ opened' = [opened EXCEPT ![c] = name]
      /\ longest' = longest /\ position' = 0
      /\ server' = IF name \in DOMAIN Files THEN "send" ELSE "spin"
      /\ UNCHANGED <<clientVars, backlog, stream, ended, clientSock>>
  BY DEF RecvFails, Open, clientVars
<1>3. c \in Client /\ opened[c] = <<>> /\ ended[c] = "open"
  BY <1>1, <1>2 DEF SockInv
<1>4. name \in Seq(Char)
  BY <1>1, StringTyped DEF Types, BufferInv
<1>5. opened'[c] = name /\ \A d \in Client \ {c} : opened'[d] = opened[d]
  BY <1>1, <1>2, <1>3 DEF Types
<1>6. Types'
  <2>1. opened' \in [Client -> Seq(Char)]
    BY <1>1, <1>2, <1>4 DEF Types
  <2> QED BY <1>1, <1>2, <2>1 DEF Types, clientVars
<1>7. BufferInv'
  BY <1>1, <1>2 DEF BufferInv
<1>8. NameInv'
  <2> SUFFICES ASSUME NEW d \in Client, pc[d] \in {"recv", "done"},
                      opened'[d] # <<>>
               PROVE  NameExtends(opened'[d], request[d], longest)
    BY <1>2 DEF NameInv, clientVars
  <2>1. d # c
    BY <1>2
  <2> QED BY <1>1, <1>5, <2>1 DEF NameInv
<1>9. QueueInv'
  <2>1. \A i \in DOMAIN backlog : backlog[i] \in Client \ {c}
    BY <1>1, LenProperties, ElementOfSeq DEF QueueInv, Types
  <2> QED BY <1>1, <1>2, <1>5, <2>1 DEF QueueInv, clientVars
<1>10. SockInv'
  <2>1. name \in DOMAIN Files => 0 <= Len(Files[name])
    BY ConstantsTyped, LenProperties
  <2> QED BY <1>2, <1>3, <1>5, <2>1 DEF SockInv, File, clientVars
<1>11. ASSUME NEW d \in Client PROVE ClientInv(d)'
  <2>1. ClientInv(d)
    BY <1>1
  <2>2. CASE d # c
    <3>1. server # "dead" /\ server' # "dead"
      BY <1>2
    <3> QED BY <1>2, <1>5, <2>1, <2>2, <3>1, ClientKept DEF clientVars
  <2>3. CASE d = c
    <3>1. CopyInv(c) /\ UnservedInv(c) /\ EndInv(c)
      BY <2>1, <2>3 DEF ClientInv
    <3>2. /\ pc'[c] = pc[c] /\ old'[c] = old[c] /\ copy'[c] = copy[c]
          /\ written'[c] = written[c] /\ stream'[c] = stream[c]
          /\ ended'[c] = ended[c] /\ clientSock' = c
      BY <1>2 DEF clientVars
    <3>3. CopyInv(c)' /\ UnservedInv(c)' /\ EndInv(c)'
      BY <1>2, <1>3, <1>5, <3>1, <3>2 DEF CopyInv, UnservedInv, EndInv
    <3>4. ServedInv(c)'
      BY <1>2, <3>2 DEF ServedInv
    <3> QED BY <2>3, <3>3, <3>4 DEF ClientInv
  <2> QED BY <2>2, <2>3
<1> QED BY <1>6, <1>7, <1>8, <1>9, <1>10, <1>11 DEF TransferInv

\* A block that is sent comes behind the ones before it.
LEMMA BlockSent ==
  ASSUME Types, NEW c \in Client, NEW block \in Block,
         stream' = [stream EXCEPT ![c] = Append(@, block)],
         UNCHANGED <<copy, written>>,
         NEW file, NEW n \in Nat, block = file[n + 1],
         Transferred(c, file, n)
  PROVE  Transferred(c, file, n + 1)'
<1> DEFINE s == stream[c]  k == written[c]
<1>1. s \in Seq(Block) /\ Len(s) \in Nat /\ k \in Nat
  BY LenProperties DEF Types
<1>2. /\ Len(Append(s, block)) = Len(s) + 1
      /\ \A i \in 1 .. Len(s) : Append(s, block)[i] = s[i]
      /\ Append(s, block)[Len(s) + 1] = block
  BY <1>1, AppendProperties
<1>3. stream'[c] = Append(s, block) /\ written'[c] = k /\ copy'[c] = copy[c]
  BY DEF Types
<1>4. /\ \A i \in 1 .. k : copy[c][i] = file[i]
      /\ \A i \in 1 .. Len(s) : s[i] = file[k + i]
  BY DEF Transferred
<1>5. k + (Len(s) + 1) = n + 1
  <2>1. k + Len(s) = n /\ Len(s) \in Nat /\ k \in Nat
    BY <1>1 DEF Transferred
  <2> HIDE DEF s, k
  <2> QED BY <2>1
<1> HIDE DEF s, k
<1>6. ASSUME NEW i \in 1 .. (Len(s) + 1)
      PROVE  Append(s, block)[i] = file[k + i]
  <2>1. CASE i = Len(s) + 1
    BY <1>2, <1>5, <2>1
  <2>2. CASE i # Len(s) + 1
    <3>1. i \in 1 .. Len(s)
      BY <1>1, <2>2
    <3> QED BY <1>2, <1>4, <3>1
  <2> QED BY <2>1, <2>2
<1> QED BY <1>2, <1>3, <1>4, <1>5, <1>6 DEF Transferred

\* send, with its three outcomes.
LEMMA SendKeeps ==
  ASSUME TransferInv, server \in {"send", "spin"}, NEW block \in Block,
         SendBlock(block), position' = position + 1,
         server = "send" => position < Len(File) /\ block = File[position + 1],
         UNCHANGED <<clientVars, backlog, clientSock, fileName, opened,
                     longest>>
  PROVE  TransferInv'
<1> SUFFICES ASSUME NEW c, c = clientSock, NEW p, p = position
             PROVE  TransferInv'
  OBVIOUS
<1>1. /\ Types /\ BufferInv /\ NameInv /\ QueueInv /\ SockInv
      /\ \A d \in Client : ClientInv(d)
  BY DEF TransferInv
<1>2. /\ c \in Client /\ ended[c] = "open" /\ pc[c] # "start"
      /\ server = "send" => opened[c] \in DOMAIN Files
  BY <1>1 DEF SockInv
<1>3. opened[c] # <<>> \/ pc[c] \in {"silent", "killed"}
  BY <1>1, <1>2, FileAssumption DEF SockInv, Names
<1>4. CopyInv(c) /\ UnservedInv(c) /\ ServedInv(c) /\ EndInv(c) /\ p \in Nat
  BY <1>1, <1>2 DEF ClientInv, Types
<1>5. pc[c] \in {"recv", "killed", "silent"}
  BY <1>2, <1>3, <1>4 DEF ServedInv, EndInv
<1>6. /\ pc' = pc /\ old' = old /\ copy' = copy /\ written' = written
      /\ request' = request
  BY DEF clientVars
<1>7. BufferInv' /\ NameInv'
  BY <1>1, <1>6 DEF BufferInv, NameInv
<1>8. server = "send" => p + 1 <= Len(Files[opened[c]])
  <2>1. server = "send" => Len(Files[opened[c]]) \in Nat
    BY <1>2, ConstantsTyped, LenProperties
  <2> QED BY <1>4, <2>1 DEF File
<1>9. \A i \in DOMAIN backlog : backlog[i] \in Client \ {c}
  BY <1>1, LenProperties, ElementOfSeq DEF QueueInv, Types
<1>10. CopyInv(c)'
  BY <1>4, <1>6 DEF CopyInv
<1>11. CASE /\ ~Gone(c) /\ Len(stream[c]) < Window
            /\ stream' = [stream EXCEPT ![c] = Append(@, block)]
            /\ UNCHANGED <<server, ended>>
  <2>1. pc[c] = "recv" /\ opened[c] # <<>>
    BY <1>3, <1>5, <1>11 DEF Gone
  <2>2. /\ Append(stream[c], block) \in Seq(Block)
        /\ Len(Append(stream[c], block)) = Len(stream[c]) + 1
        /\ Len(stream[c]) \in Nat
    BY <1>1, <1>2, AppendProperties, LenProperties DEF Types
  <2>3. /\ stream' \in [Client -> Seq(Block)]
        /\ stream'[c] = Append(stream[c], block)
        /\ \A d \in Client \ {c} : stream'[d] = stream[d]
    BY <1>1, <1>2, <1>11, <2>2 DEF Types
  <2>4. \A d \in Client : Len(stream'[d]) <= Window
    <3>1. Len(stream'[c]) <= Window
      BY <1>11, <2>2, <2>3, FileAssumption
    <3> QED BY <1>1, <2>3, <3>1 DEF Types
  <2>5. Types'
    BY <1>1, <1>4, <1>6, <1>11, <2>3, <2>4 DEF Types
  <2>6. QueueInv' /\ SockInv'
    BY <1>1, <1>6, <1>8, <1>11 DEF QueueInv, SockInv, File, Gone
  <2>7. ASSUME NEW d \in Client PROVE ClientInv(d)'
    <3>1. CASE d # c
      <4>1. ClientInv(d)
        BY <1>1
      <4> QED BY <1>6, <1>11, <2>3, <3>1, <4>1, ClientKept
    <3>2. CASE d = c
      <4>1. EndInv(c)' /\ UnservedInv(c)'
        BY <1>4, <1>6, <1>11, <2>1 DEF EndInv, UnservedInv
      <4>2. ASSUME server = "send"
            PROVE  Transferred(c, Files[opened[c]], p + 1)'
        <5>1. Transferred(c, Files[opened[c]], p)
          BY <1>4, <2>1, <4>2 DEF ServedInv
        <5>2. block = Files[opened[c]][p + 1]
          BY <4>2 DEF File
        <5>3. ASSUME NEW file, file = Files[opened[c]]
              PROVE  Transferred(c, file, p + 1)'
          BY <1>1, <1>2, <1>4, <1>6, <1>11, <5>1, <5>2, <5>3, BlockSent
        <5>4. opened' = opened /\ Files[opened[c]] = Files[opened'[c]]
          OBVIOUS
        <5> QED BY <5>3, <5>4 DEF Transferred
      <4>3. ServedInv(c)'
        BY <1>6, <1>11, <2>1, <4>2 DEF ServedInv
      <4> QED BY <1>10, <3>2, <4>1, <4>3 DEF ClientInv
    <3> QED BY <3>1, <3>2
  <2> QED BY <1>7, <2>5, <2>6, <2>7 DEF TransferInv
<1>12. CASE Gone(c) /\ UNCHANGED <<server, stream, ended>>
  <2>1. pc[c] \in {"killed", "silent"}
    BY <1>5, <1>12 DEF Gone
  <2>2. Types' /\ QueueInv'
    BY <1>1, <1>4, <1>6, <1>12 DEF Types, QueueInv
  <2>3. SockInv'
    BY <1>1, <1>6, <1>8, <1>12 DEF SockInv, File, Gone
  <2>4. ASSUME NEW d \in Client PROVE ClientInv(d)'
    <3>1. CASE d # c
      <4>1. ClientInv(d)
        BY <1>1
      <4> QED BY <1>6, <1>12, <3>1, <4>1, ClientKept
    <3>2. CASE d = c
      <4>1. EndInv(c)' /\ ServedInv(c)' /\ UnservedInv(c)'
        BY <1>4, <1>6, <1>12, <2>1 DEF EndInv, ServedInv, UnservedInv
      <4> QED BY <1>10, <3>2, <4>1 DEF ClientInv
    <3> QED BY <3>1, <3>2
  <2> QED BY <1>7, <2>2, <2>3, <2>4 DEF TransferInv
<1>13. CASE /\ Gone(c) /\ server' = "dead" /\ UNCHANGED stream
            /\ ended' = [d \in Client |->
                           IF ended[d] = "open" /\ pc[d] # "start"
                           THEN "reset" ELSE ended[d]]
  <2>1. pc[c] \in {"killed", "silent"}
    BY <1>5, <1>13 DEF Gone
  <2>2. Types'
    BY <1>1, <1>4, <1>6, <1>13 DEF Types
  <2>3. QueueInv' /\ SockInv'
    BY <1>1, <1>2, <1>6, <1>13 DEF QueueInv, SockInv, Gone
  <2>4. ASSUME NEW d \in Client PROVE ClientInv(d)'
    <3>1. CopyInv(d) /\ UnservedInv(d) /\ ServedInv(d) /\ EndInv(d)
      BY <1>1 DEF ClientInv
    <3>2. /\ ended[d] # "open" \/ pc[d] = "start" => ended'[d] = ended[d]
          /\ ended'[d] \in {ended[d], "reset"}
      BY <1>13
    <3>3. CopyInv(d)' /\ UnservedInv(d)'
      BY <1>6, <1>13, <3>1 DEF CopyInv, UnservedInv
    <3>4. EndInv(d)'
      BY <1>6, <1>13, <3>1, <3>2 DEF EndInv
    <3>5. \A file, n : Transferred(d, file, n) => Transferred(d, file, n)'
      BY <1>6, <1>13 DEF Transferred
    <3>6. ServedInv(d)'
      BY <1>6, <1>13, <2>1, <3>1, <3>2, <3>5 DEF ServedInv, Served
    <3> QED BY <3>3, <3>4, <3>6 DEF ClientInv
  <2> QED BY <1>7, <2>2, <2>3, <2>4 DEF TransferInv
<1> QED BY <1>11, <1>12, <1>13 DEF SendBlock

\* A step that changes nothing preserves the invariant.
LEMMA StutterKeeps ==
  ASSUME TransferInv, UNCHANGED vars
  PROVE  TransferInv'
<1>1. Types' /\ BufferInv' /\ NameInv' /\ QueueInv'
  BY DEF TransferInv, Types, BufferInv, NameInv, QueueInv, vars, clientVars,
         serverVars
<1>2. SockInv'
  BY DEF TransferInv, SockInv, File, Gone, vars, clientVars, serverVars
<1>3. ASSUME NEW c \in Client PROVE ClientInv(c)'
  BY ClientKept DEF TransferInv, vars, clientVars, serverVars
<1> QED BY <1>1, <1>2, <1>3 DEF TransferInv

\* Every step of the server preserves the invariant.
LEMMA ServerKeeps ==
  ASSUME TransferInv, ServerStep
  PROVE  TransferInv'
<1>1. Types /\ SockInv /\ \A d \in Client : ClientInv(d)
  BY DEF TransferInv
<1>2. CASE RecvNothing
  BY <1>2, CloseKeeps DEF RecvNothing
<1>3. CASE EndFile
  BY <1>3, CloseKeeps DEF EndFile
<1>4. CASE SendFile
  <2>1. /\ server = "send" /\ position < Len(File)
        /\ SendBlock(File[position + 1]) /\ position' = position + 1
        /\ UNCHANGED <<clientVars, backlog, clientSock, fileName, opened,
                       longest>>
    BY <1>4 DEF SendFile
  <2>2. File \in Seq(Block) /\ Len(File) \in Nat
    BY <1>1, <2>1, ConstantsTyped, LenProperties DEF SockInv, File
  <2>3. position + 1 \in 1 .. Len(File)
    BY <1>1, <2>1, <2>2 DEF Types
  <2>4. File[position + 1] \in Block
    BY <2>2, <2>3, ElementOfSeq
  <2> QED BY <2>1, <2>4, SendKeeps
<1>5. CASE Spin
  <2>1. CASE SendBlock(Junk) /\ position' = position + 1
    <3>1. Junk \in Block
      BY DEF Block
    <3> QED BY <1>5, <2>1, <3>1, SendKeeps DEF Spin
  <2>2. CASE UNCHANGED <<server, stream, ended, position>>
    <3>1. UNCHANGED vars
      BY <1>5, <2>2 DEF Spin, vars, serverVars
    <3> QED BY <3>1, StutterKeeps
  <2> QED BY <1>5, <2>1, <2>2 DEF Spin
<1> QED BY <1>2, <1>3, <1>4, <1>5, AcceptKeeps, RecvNameKeeps, RecvFailsKeeps
        DEF ServerStep

-----------------------------------------------------------------------------
(* The invariant and what follows from it. *)

\* TransferInv is inductive.
LEMMA TransferInvariant == Spec => []TransferInv
<1>1. Init => TransferInv
  <2> SUFFICES ASSUME Init PROVE TransferInv
    OBVIOUS
  <2>1. fileName \in Seq(Char) /\ fileName # <<>>
        /\ fileName[Len(fileName)] = NUL
        /\ \A n \in Names : Len(n) < Len(fileName)
    BY ConstantsTyped, FileAssumption DEF Init
  <2>2. /\ longest \in Nat
        /\ \A i \in 1 .. Len(fileName) : i > longest => fileName[i] = NUL
    BY <2>1, FilledProperties DEF Init
  <2>3. /\ backlog = <<>> /\ <<>> \in Seq(Client) /\ Len(<<>>) = 0
        /\ <<>> \in Seq(Block) /\ <<>> \in Seq(Char) /\ Window \in Nat
    BY EmptySeq, FileAssumption DEF Init
  <2>4. old \in [Client -> Seq(Block)]
    BY ConstantsTyped DEF Init
  <2>5. Types
    BY <2>1, <2>2, <2>3, <2>4 DEF Init, Types
  <2>6. BufferInv /\ NameInv
    BY <2>1, <2>2 DEF Init, BufferInv, NameInv
  <2>7. QueueInv /\ SockInv
    BY <2>3 DEF Init, QueueInv, SockInv
  <2>8. ASSUME NEW c \in Client PROVE ClientInv(c)
    <3>1. copy[c] = old[c] /\ Len(old[c]) \in Nat /\ written[c] = 0
      BY <2>4, LenProperties DEF Init
    <3>2. CopyInv(c)
      BY <3>1 DEF CopyInv
    <3>3. UnservedInv(c) /\ ServedInv(c) /\ EndInv(c)
      BY <3>1 DEF Init, UnservedInv, ServedInv, EndInv
    <3> QED BY <3>2, <3>3 DEF ClientInv
  <2> QED BY <2>5, <2>6, <2>7, <2>8 DEF TransferInv
<1>2. TransferInv /\ [Next]_vars => TransferInv'
  <2> SUFFICES ASSUME TransferInv, [Next]_vars PROVE TransferInv'
    OBVIOUS
  <2>1. CASE UNCHANGED vars
    BY <2>1, StutterKeeps
  <2> QED BY <2>1, ClientKeeps, ServerKeeps DEF Next
<1> QED BY <1>1, <1>2, PTL DEF Spec

\* A client that has received everything has the whole file in its .bak.
LEMMA WholeCopy ==
  ASSUME Types, NEW c \in Client, CopyInv(c), Served(c), stream[c] = <<>>,
         Transferred(c, Files[opened[c]], Len(Files[opened[c]]))
  PROVE  copy[c] = Overwrite(old[c], Files[opened[c]])
<1> DEFINE file == Files[opened[c]]
           new == Overwrite(old[c], file)
<1>1. /\ file \in Seq(Block) /\ old[c] \in Seq(Block) /\ copy[c] \in Seq(Block)
      /\ Len(file) \in Nat /\ Len(old[c]) \in Nat /\ Len(copy[c]) \in Nat
  BY ConstantsTyped, LenProperties DEF Types, Served
<1>2. written[c] = Len(file) /\ \A i \in 1 .. Len(file) : copy[c][i] = file[i]
  <2>1. written[c] \in Nat /\ Len(stream[c]) = 0
    BY EmptySeq DEF Types
  <2> QED BY <2>1 DEF Transferred
<1> HIDE DEF file
<1>3. /\ new \in Seq(Block)
      /\ Len(new) = IF Len(file) > Len(old[c]) THEN Len(file) ELSE Len(old[c])
      /\ \A i \in 1 .. Len(new) :
           new[i] = IF i <= Len(file) THEN file[i] ELSE old[c][i]
  BY <1>1, OverwriteProperties
<1> HIDE DEF new
<1>4. /\ Len(file) <= Len(copy[c]) /\ Len(old[c]) <= Len(copy[c])
      /\ Len(copy[c]) \in {Len(file), Len(old[c])}
      /\ \A i \in (Len(file) + 1) .. Len(copy[c]) : copy[c][i] = old[c][i]
  BY <1>2 DEF CopyInv
<1>5. Len(copy[c]) = Len(new)
  BY <1>1, <1>3, <1>4
<1>6. \A i \in 1 .. Len(copy[c]) : copy[c][i] = new[i]
  BY <1>1, <1>2, <1>3, <1>4, <1>5
<1>7. copy[c] = new
  BY <1>1, <1>3, <1>5, <1>6, SeqEqual
<1> QED BY <1>7 DEF new, file

\* Every variable keeps its type, and a connection that is served waits no
\* longer, for any number of clients.
THEOREM TypeCorrect == Spec => []TypeOK
<1>1. TransferInv => TypeOK
  <2> SUFFICES ASSUME TransferInv PROVE TypeOK
    OBVIOUS
  <2>1. \A i \in DOMAIN backlog : backlog[i] \in Client \ {clientSock}
    BY LenProperties, ElementOfSeq DEF TransferInv, Types, QueueInv
  <2>2. \A c \in Client :
          Len(stream[c]) <= Window /\ written[c] <= Len(copy[c])
    BY DEF TransferInv, Types, ClientInv, CopyInv
  <2> QED BY <2>1, <2>2 DEF TransferInv, Types, TypeOK
<1> QED BY <1>1, TransferInvariant, PTL

\* A name arrives whole: the server opens another file for a client that is
\* still there only because fileName was filled further before, whatever the
\* names and the size of the buffer.
THEOREM NamesArriveWhole == Spec => []WrongNameOnlyAfterLonger
<1>1. TransferInv => WrongNameOnlyAfterLonger
  <2> SUFFICES ASSUME TransferInv, NEW c \in Client,
                      pc[c] \in {"recv", "done"},
                      opened[c] \notin {<<>>, request[c]}
               PROVE  /\ longest > Len(request[c])
                      /\ SubSeq(opened[c], 1, Len(request[c])) = request[c]
    BY DEF WrongNameOnlyAfterLonger
  <2> DEFINE n == Len(request[c])  name == opened[c]
  <2>1. /\ request[c] \in Seq(Char) /\ name \in Seq(Char)
        /\ n \in Nat /\ Len(name) \in Nat /\ longest \in Nat
    BY ConstantsTyped, LenProperties DEF TransferInv, Types
  <2>2. /\ n <= Len(name) /\ \A i \in 1 .. n : name[i] = request[c][i]
        /\ n < Len(name) => n < longest
    BY DEF TransferInv, NameInv, NameExtends
  <2>3. Len(name) # n
    BY <2>1, <2>2, SeqEqual
  <2>4. SubSeq(name, 1, n) = request[c]
    <3>1. \A i \in 1 .. n : name[i] \in Char
      BY <2>1, <2>2, ElementOfSeq
    <3>2. /\ SubSeq(name, 1, n) \in Seq(Char)
          /\ Len(SubSeq(name, 1, n)) = IF 1 <= n THEN n - 1 + 1 ELSE 0
          /\ \A i \in 1 .. (n - 1 + 1) : SubSeq(name, 1, n)[i] = name[1 + i - 1]
      BY <2>1, <3>1, SubSeqProperties
    <3>3. /\ Len(SubSeq(name, 1, n)) = n
          /\ \A i \in 1 .. n : SubSeq(name, 1, n)[i] = name[i]
      BY <2>1, <3>2
    <3> QED BY <2>1, <2>2, <3>2, <3>3, SeqEqual
  <2> QED BY <2>1, <2>2, <2>3, <2>4
<1> QED BY <1>1, TransferInvariant, PTL

\* While the server lives, a client that has finished has the whole file the
\* server opened, for files of any length and any number of clients.
THEOREM FinishedCopiesAreWhole == Spec => []FinishedCopyIsWhole
<1>1. TransferInv => FinishedCopyIsWhole
  <2> SUFFICES ASSUME TransferInv, NEW c \in Client,
                      pc[c] = "done", server # "dead"
               PROVE  Served(c) /\ copy[c] = Overwrite(old[c], Files[opened[c]])
    BY DEF FinishedCopyIsWhole
  <2>1. /\ Types /\ SockInv
        /\ CopyInv(c) /\ UnservedInv(c) /\ ServedInv(c) /\ EndInv(c)
    BY DEF TransferInv, ClientInv
  <2>2. ended[c] = "closed" /\ stream[c] = <<>>
    BY <2>1 DEF EndInv
  <2>3. c # clientSock /\ opened[c] # <<>>
    BY <2>1, <2>2, FileAssumption DEF SockInv, UnservedInv, Types
  <2>4. /\ Served(c)
        /\ Transferred(c, Files[opened[c]], Len(Files[opened[c]]))
    BY <2>1, <2>3 DEF ServedInv
  <2> QED BY <2>1, <2>2, <2>4, WholeCopy
<1> QED BY <1>1, TransferInvariant, PTL

\* Only a client that has gone away ends the server, and the death of the
\* server costs no other client a file it had begun to send.
THEOREM DeathIsContained == Spec => []DeathSparesNoOther
<1>1. TransferInv => DeathSparesNoOther
  <2> SUFFICES ASSUME TransferInv, server = "dead"
               PROVE  /\ Gone(clientSock)
                      /\ \A c \in Client \ {clientSock} :
                           /\ Served(c) /\ pc[c] = "done" =>
                                copy[c] = Overwrite(old[c], Files[opened[c]])
                           /\ opened[c] = <<>> =>
                                \A i \in 1 .. written[c] : copy[c][i] = Junk
    BY DEF DeathSparesNoOther
  <2>1. Types /\ SockInv /\ \A c \in Client : ClientInv(c)
    BY DEF TransferInv
  <2>2. ASSUME NEW c \in Client \ {clientSock}, Served(c), pc[c] = "done"
        PROVE  copy[c] = Overwrite(old[c], Files[opened[c]])
    <3>1. CopyInv(c) /\ ServedInv(c) /\ EndInv(c)
      BY <2>1 DEF ClientInv
    <3>2. opened[c] # <<>>
      BY <2>2, FileAssumption DEF Served, Names
    <3>3. Transferred(c, Files[opened[c]], Len(Files[opened[c]]))
      BY <2>2, <3>1, <3>2 DEF ServedInv
    <3> QED BY <2>1, <2>2, <3>1, <3>3, WholeCopy DEF EndInv
  <2>3. ASSUME NEW c \in Client, opened[c] = <<>>
        PROVE  \A i \in 1 .. written[c] : copy[c][i] = Junk
    BY <2>1, <2>3 DEF ClientInv, UnservedInv
  <2>4. Gone(clientSock)
    BY <2>1 DEF SockInv
  <2> QED BY <2>2, <2>3, <2>4
<1> QED BY <1>1, TransferInvariant, PTL
=============================================================================
