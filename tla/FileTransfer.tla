---------------------------- MODULE FileTransfer ----------------------------
(***************************************************************************)
(* l7-Server.c, which serves one connection after the other, and instances *)
(* of l7-Client.c, each in a directory of its own.  A client sends a file  *)
(* name and writes what it receives to the file's .bak; the server sends   *)
(* the file in blocks of one read each.                                    *)
(*                                                                         *)
(* A client can be killed at any time, and a recv from one that is gone    *)
(* may fail.  The server has no handler for SIGPIPE, which a send to a     *)
(* peer that is gone may raise.  A name is shorter than the buffer for it, *)
(* not empty, and arrives in one piece.                                    *)
(***************************************************************************)
EXTENDS Integers, Sequences, FiniteSets, Functions

CONSTANTS
  Client,
  Files,        \* the files of the server: a function from name to blocks
  Missing,      \* names of files the server does not have
  NameBuffers,  \* what may be in fileName before the first request
  OldCopies,    \* what may be in a .bak from before
  Window,       \* blocks a connection holds
  JunkLimit,    \* blocks of junk one connection is given
  None

Names == DOMAIN Files \cup Missing
NUL == "NUL"
Junk == "junk"

\* Names and files are sequences; a name has no NUL in it and leaves the last
\* byte of fileName, which ends the string there is in it, alone.
ASSUME FileAssumption ==
  /\ \A n \in Names : n \in Seq(Range(n)) /\ n # <<>> /\ NUL \notin Range(n)
  /\ \A buf \in NameBuffers :
       /\ buf \in Seq(Range(buf)) /\ buf # <<>> /\ buf[Len(buf)] = NUL
       /\ \A n \in Names : Len(n) < Len(buf)
  /\ \A n \in DOMAIN Files : Files[n] \in Seq(Range(Files[n]))
  /\ \A f \in OldCopies : f \in Seq(Range(f))
  /\ Window \in Nat \ {0}
  /\ JunkLimit \in Nat
  /\ None \notin Client

VARIABLES
  request,      \* argv[2] of each client
  pc,           \* where each client is
  old,          \* each client's .bak when it was opened
  copy,         \* and now
  written,      \* how many blocks the client has written to it
  backlog,      \* connections not yet accepted
  stream,       \* blocks on their way to each client
  ended,        \* how the server's side of each connection is: open, closed
                \* or reset
  server,       \* where the server is
  clientSock,   \* the client it serves
  fileName,     \* its buffer
  opened,       \* the name it gave to open for each client
  position,     \* blocks read of the file
  longest       \* how far fileName has been filled so far: the properties
                \* speak of it

clientVars == <<request, pc, old, copy, written>>
serverVars == <<server, clientSock, fileName, opened, position, longest>>
vars == <<clientVars, backlog, stream, ended, serverVars>>

\* The string in a buffer: what is before the first NUL.
CString(buf) ==
  LET end == CHOOSE i \in DOMAIN buf :
               buf[i] = NUL /\ \A j \in 1 .. (i - 1) : buf[j] # NUL
  IN  SubSeq(buf, 1, end - 1)

\* How far a buffer is filled, NULs between strings included.
Filled(buf) ==
  CHOOSE k \in 0 .. Len(buf) :
    /\ k = 0 \/ buf[k] # NUL
    /\ \A i \in (k + 1) .. Len(buf) : buf[i] = NUL

\* buf with its front replaced: recv into a buffer, or write into a file that
\* was opened without O_TRUNC.
Overwrite(buf, front) == front \o SubSeq(buf, Len(front) + 1, Len(buf))

\* "silent" is a client killed before it sent the name.
Gone(c) == pc[c] \in {"silent", "killed", "done"}

-----------------------------------------------------------------------------
(* The client. *)

\* connect; to a server that is gone it fails unnoticed, and the send behind it
\* raises SIGPIPE.
Connect(c) ==
  /\ pc[c] = "start"
  /\ \/ /\ server # "dead"
        /\ pc' = [pc EXCEPT ![c] = "connected"]
        /\ backlog' = Append(backlog, c)
     \/ /\ server = "dead"
        /\ pc' = [pc EXCEPT ![c] = "silent"]
        /\ UNCHANGED backlog
  /\ UNCHANGED <<request, old, copy, written, stream, ended, serverVars>>

\* send and open of the .bak; a reset connection may raise SIGPIPE.
SendName(c) ==
  /\ pc[c] = "connected"
  /\ \/ pc' = [pc EXCEPT ![c] = "recv"]
     \/ ended[c] # "open" /\ pc' = [pc EXCEPT ![c] = "silent"]
  /\ UNCHANGED <<request, old, copy, written, backlog, stream, ended, serverVars>>

\* The _Xxx operators are variants with a slip a programmer could make, each of
\* which breaks a property below.
Write_Append(c, block) ==
  /\ copy' = [copy EXCEPT ![c] = Append(@, block)]
  /\ written' = [written EXCEPT ![c] = @ + 1]

Write(c, block) ==
  /\ copy' = [copy EXCEPT ![c] =
       Overwrite(copy[c], Append(SubSeq(copy[c], 1, written[c]), block))]
  /\ written' = [written EXCEPT ![c] = @ + 1]

RecvBlock(c) ==
  /\ pc[c] = "recv"
  /\ stream[c] # <<>>
  /\ Write(c, Head(stream[c]))
  /\ stream' = [stream EXCEPT ![c] = Tail(@)]
  /\ UNCHANGED <<request, pc, old, backlog, ended, serverVars>>

\* recv returns 0.
RecvEnd(c) ==
  /\ pc[c] = "recv"
  /\ stream[c] = <<>>
  /\ ended[c] = "closed"
  /\ pc' = [pc EXCEPT ![c] = "done"]
  /\ UNCHANGED <<request, old, copy, written, backlog, stream, ended, serverVars>>

\* recv returns -1: the length -1 is given to write, which fails or writes what
\* it finds behind the buffer.  The next recv returns 0.
RecvReset(c) ==
  /\ pc[c] = "recv"
  /\ ended[c] = "reset"
  /\ ended' = [ended EXCEPT ![c] = "closed"]
  /\ Write(c, Junk) \/ UNCHANGED <<copy, written>>
  /\ UNCHANGED <<request, pc, old, backlog, stream, serverVars>>

Kill(c) ==
  /\ pc[c] \in {"connected", "recv"}
  /\ pc' = [pc EXCEPT ![c] = IF @ = "recv" THEN "killed" ELSE "silent"]
  /\ UNCHANGED <<request, old, copy, written, backlog, stream, ended, serverVars>>

-----------------------------------------------------------------------------
(* The server. *)

Accept_Keep ==
  /\ server = "accept"
  /\ backlog # <<>>
  /\ clientSock' = Head(backlog)
  /\ server' = "recv"
  /\ UNCHANGED <<clientVars, backlog, stream, ended, fileName, opened, position,
                 longest>>

Accept ==
  /\ server = "accept"
  /\ backlog # <<>>
  /\ clientSock' = Head(backlog)
  /\ backlog' = Tail(backlog)
  /\ server' = "recv"
  /\ UNCHANGED <<clientVars, stream, ended, fileName, opened, position, longest>>

Close ==
  /\ ended' = [ended EXCEPT ![clientSock] = "closed"]
  /\ server' = "accept"
  /\ clientSock' = None

\* recv returns 0: the client was killed before it sent the name.
RecvNothing ==
  /\ server = "recv"
  /\ pc[clientSock] = "silent"
  /\ Close
  /\ UNCHANGED <<clientVars, backlog, stream, fileName, opened, position, longest>>

ReceiveName_Short(buf, name) == Overwrite(buf, SubSeq(name, 1, 1))

\* recv puts the name over what is in fileName, without a NUL behind it.
ReceiveName(buf, name) == Overwrite(buf, name)

\* open of the string in the buffer.
Open(buf) ==
  /\ opened' = [opened EXCEPT ![clientSock] = CString(buf)]
  /\ position' = 0
  /\ server' = IF CString(buf) \in DOMAIN Files THEN "send" ELSE "spin"

\* recv of the name and open.
RecvName ==
  LET buf == ReceiveName(fileName, request[clientSock]) IN
  /\ server = "recv"
  /\ pc[clientSock] \in {"recv", "killed"}
  /\ fileName' = buf
  /\ longest' = IF Len(request[clientSock]) > longest
                THEN Len(request[clientSock]) ELSE longest
  /\ Open(buf)
  /\ UNCHANGED <<clientVars, backlog, stream, ended, clientSock>>

\* recv returns -1, which is not 0 either: what is in fileName is opened.
RecvFails ==
  /\ server = "recv"
  /\ pc[clientSock] \in {"silent", "killed"}
  /\ Open(fileName)
  /\ UNCHANGED <<clientVars, backlog, stream, ended, clientSock, fileName, longest>>

\* send: to a peer that is gone it succeeds while the news has not come, and
\* raises SIGPIPE once it has.
SendBlock(block) ==
  \/ /\ ~Gone(clientSock)
     /\ Len(stream[clientSock]) < Window
     /\ stream' = [stream EXCEPT ![clientSock] = Append(@, block)]
     /\ UNCHANGED <<server, ended>>
  \/ /\ Gone(clientSock)
     /\ UNCHANGED <<server, stream, ended>>
  \/ /\ Gone(clientSock)
     /\ server' = "dead"
     /\ ended' = [c \in Client |-> IF ended[c] = "open" /\ pc[c] # "start"
                                   THEN "reset" ELSE ended[c]]
     /\ UNCHANGED stream

File == Files[opened[clientSock]]

EndOfFile_Never == FALSE
EndOfFile_Early == position + 1 >= Len(File)

EndOfFile == position = Len(File)

SendFile ==
  /\ server = "send"
  /\ ~EndOfFile
  /\ position < Len(File)
  /\ SendBlock(File[position + 1])
  /\ position' = position + 1
  /\ UNCHANGED <<clientVars, backlog, clientSock, fileName, opened, longest>>

EndFile ==
  /\ server = "send"
  /\ EndOfFile
  /\ Close
  /\ UNCHANGED <<clientVars, backlog, stream, fileName, opened, position, longest>>

\* read of a file that could not be opened returns -1, not 0, for ever.  send
\* with the length -1 fails, or sends what it finds behind the buffer.
Spin ==
  /\ server = "spin"
  /\ \/ /\ position < JunkLimit
        /\ SendBlock(Junk)
        /\ position' = position + 1
     \/ UNCHANGED <<server, stream, ended, position>>
  /\ UNCHANGED <<clientVars, backlog, clientSock, fileName, opened, longest>>

-----------------------------------------------------------------------------
Init ==
  /\ request \in [Client -> Names]
  /\ pc = [c \in Client |-> "start"]
  /\ old \in [Client -> OldCopies]
  /\ copy = old
  /\ written = [c \in Client |-> 0]
  /\ backlog = <<>>
  /\ stream = [c \in Client |-> <<>>]
  /\ ended = [c \in Client |-> "open"]
  /\ server = "accept"
  /\ clientSock = None
  /\ fileName \in NameBuffers
  /\ opened = [c \in Client |-> <<>>]
  /\ position = 0
  /\ longest = Filled(fileName)

ClientStep(c) ==
  \/ SendName(c) \/ RecvBlock(c) \/ RecvEnd(c) \/ RecvReset(c)

ServerStep ==
  \/ Accept \/ RecvNothing \/ RecvName \/ RecvFails
  \/ SendFile \/ EndFile \/ Spin

Next ==
  \/ ServerStep
  \/ \E c \in Client : Connect(c) \/ ClientStep(c) \/ Kill(c)

Spec == Init /\ [][Next]_vars

\* The processes run; nobody has to start a client or kill one.
FairSpec ==
  /\ Spec
  /\ WF_vars(ServerStep)
  /\ \A c \in Client : WF_vars(ClientStep(c))

-----------------------------------------------------------------------------
(* Properties that hold. *)

\* Every variable keeps its type; in particular a connection that is served is
\* in no queue any more.
TypeOK ==
  /\ request \in [Client -> Names]
  /\ pc \in [Client -> {"start", "connected", "recv", "done", "killed", "silent"}]
  /\ \A c \in Client : Len(stream[c]) <= Window /\ written[c] <= Len(copy[c])
  /\ ended \in [Client -> {"open", "closed", "reset"}]
  /\ server \in {"accept", "recv", "send", "spin", "dead"}
  /\ clientSock \in Client \cup {None}
  /\ \A i \in DOMAIN backlog : backlog[i] \in Client \ {clientSock}
  /\ position \in Nat /\ longest \in Nat

\* The server opens another file than the one a client asked for that is still
\* there only when fileName was filled further before, by a longer name or by
\* what was in it at the start: the name itself is received whole, whoever was
\* served, killed or not heard in between.
WrongNameOnlyAfterLonger ==
  \A c \in Client :
    pc[c] \in {"recv", "done"} /\ opened[c] \notin {<<>>, request[c]} =>
      /\ longest > Len(request[c])
      /\ SubSeq(opened[c], 1, Len(request[c])) = request[c]

Served(c) == opened[c] \in DOMAIN Files

\* While the server lives, a client that has finished has the file the server
\* opened for it, whole and in order, in front of what an older and longer
\* .bak had behind that length.
FinishedCopyIsWhole ==
  \A c \in Client :
    pc[c] = "done" /\ server # "dead" =>
      Served(c) /\ copy[c] = Overwrite(old[c], Files[opened[c]])

\* Nothing but a client that went away in the middle of its file ends the
\* server, and no client but that one loses a file the server had begun to
\* send: the ones that wait are reset before they get a block.
DeathSparesNoOther ==
  server = "dead" =>
    /\ Gone(clientSock)
    /\ \A c \in Client \ {clientSock} :
         /\ Served(c) /\ pc[c] = "done" =>
              copy[c] = Overwrite(old[c], Files[opened[c]])
         /\ opened[c] = <<>> => \A i \in 1 .. written[c] : copy[c][i] = Junk

\* While the server lives and never comes upon a file it does not have, every
\* client that has connected and is not killed gets its file: it ends with the
\* whole of what the server opened.  If the server dies, the client's wait
\* ends all the same, with or without the file.
TransfersEnd ==
  /\ [](server \notin {"spin", "dead"}) =>
       \A c \in Client :
         pc[c] = "connected" ~>
           \/ pc[c] \in {"silent", "killed"}
           \/ /\ pc[c] = "done" /\ Served(c)
              /\ copy[c] = Overwrite(old[c], Files[opened[c]])
  /\ <>(server = "dead") =>
       \A c \in Client : (pc[c] = "connected" ~> Gone(c))
=============================================================================
