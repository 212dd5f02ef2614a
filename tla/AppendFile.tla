----------------------------- MODULE AppendFile -----------------------------
(***************************************************************************)
(* l4-1.c and l4-2.c, which both write at the end of the file test1, run   *)
(* side by side.  A system call is one step; a byte of test1 is a          *)
(* character.                                                              *)
(***************************************************************************)
EXTENDS Naturals, SequencesExt, FiniteSetsExt

CONSTANTS
  Contents,     \* what test1 and test2 may hold
  Directory,    \* test2 can be opened and not read
  Missing,
  ReadLimit,    \* the 50 bytes l4-2.c reads
  MaxLength     \* bound: nobody looks at a file longer than this

Hiiii == <<"H", "i", "i", "i", "i">>
Abbbb == <<"A", "b", "b", "b", "b">>
Uninitialised == "?"  \* what buf holds before the first read
NotRead == <<"nothing read">>

ASSUME AppendAssumption ==
  /\ \A c \in Contents : c \in Seq(Range(c))
  /\ \A c \in Contents : \A i \in DOMAIN c :
       c[i] \notin {"H", "i", "A", "b", Uninitialised}
  /\ Directory \notin Contents /\ Missing \notin Contents
  /\ ReadLimit \in Nat \ {0}

VARIABLES
  old,          \* test1 as the programs find it
  test1, test2,
  pc,           \* of the two programs, "l41" and "l42"
  off,          \* the offset of each program's fd1
  fd2,          \* the offset of l4-1's fd2
  buf,          \* its one byte
  s             \* what l4-2 has read

appendVars == <<old, test1, test2, pc, off, fd2, buf, s>>

Goto(p, to) == pc' = [pc EXCEPT ![p] = to]

AppendInit ==
  /\ old \in Contents /\ test1 = old
  /\ test2 \in Contents \cup {Directory, Missing}
  /\ pc = [l41 |-> "open", l42 |-> "open"]
  /\ off = [l41 |-> 0, l42 |-> 0]
  /\ fd2 = 0 /\ buf = Uninitialised /\ s = NotRead

\* The _Xxx operators are variants with a slip a programmer could make.
Write_NoAppend(p, bytes) ==
  /\ test1' = SubSeq(test1, 1, off[p]) \o bytes
                \o SubSeq(test1, off[p] + Len(bytes) + 1, Len(test1))
  /\ off' = [off EXCEPT ![p] = @ + Len(bytes)]

\* write to a file opened with O_APPEND, wherever lseek has been.
Write(p, bytes) ==
  /\ test1' = test1 \o bytes
  /\ off' = [off EXCEPT ![p] = Len(test1')]

-----------------------------------------------------------------------------
(* l4-1.c *)

\* Opens test1, then test2; either may fail.
Open1 ==
  /\ pc.l41 = "open"
  /\ \/ test2 # Missing /\ Goto("l41", "read")
     \/ Goto("l41", "error")
  /\ UNCHANGED <<old, test1, test2, off, fd2, buf, s>>

Read1_WaitsAtEnd ==
  /\ pc.l41 = "read"
  /\ test2 # Directory /\ fd2 < Len(test2)
  /\ buf' = test2[fd2 + 1] /\ fd2' = fd2 + 1
  /\ Goto("l41", "write")
  /\ UNCHANGED <<old, test1, test2, off, s>>

\* read gives a byte, or 0 at the end, or -1, which is not 0.
Read1 ==
  /\ pc.l41 = "read"
  /\ \/ /\ test2 # Directory /\ fd2 < Len(test2)
        /\ buf' = test2[fd2 + 1] /\ fd2' = fd2 + 1
        /\ Goto("l41", "write")
     \/ /\ test2 # Directory /\ fd2 = Len(test2)
        /\ Goto("l41", "done") /\ UNCHANGED <<buf, fd2>>
     \/ /\ test2 = Directory
        /\ Goto("l41", "write") /\ UNCHANGED <<buf, fd2>>
  /\ UNCHANGED <<old, test1, test2, off, s>>

Write1 ==
  /\ pc.l41 = "write"
  /\ Len(test1) < MaxLength
  /\ Write("l41", <<buf>>)
  /\ Goto("l41", "read")
  /\ UNCHANGED <<old, test2, fd2, buf, s>>

-----------------------------------------------------------------------------
(* l4-2.c *)

Open2 ==
  /\ pc.l42 = "open"
  /\ \/ Goto("l42", "write Hiiii")
     \/ Goto("l42", "error")
  /\ UNCHANGED <<old, test1, test2, off, fd2, buf, s>>

WriteHiiii ==
  /\ pc.l42 = "write Hiiii"
  /\ Write("l42", Hiiii)
  /\ Goto("l42", "rewind")
  /\ UNCHANGED <<old, test2, fd2, buf, s>>

Rewind_FromEnd ==
  /\ pc.l42 = "rewind"
  /\ off' = [off EXCEPT !.l42 = Len(test1)]
  /\ Goto("l42", IF s = NotRead THEN "read" ELSE "write Abbbb")
  /\ UNCHANGED <<old, test1, test2, fd2, buf, s>>

\* lseek(fd1, 0, SEEK_SET), before the read and again after it.
Rewind ==
  /\ pc.l42 = "rewind"
  /\ off' = [off EXCEPT !.l42 = 0]
  /\ Goto("l42", IF s = NotRead THEN "read" ELSE "write Abbbb")
  /\ UNCHANGED <<old, test1, test2, fd2, buf, s>>

Read2 ==
  /\ pc.l42 = "read"
  /\ s' = SubSeq(test1, off.l42 + 1, Min({off.l42 + ReadLimit, Len(test1)}))
  /\ off' = [off EXCEPT !.l42 = @ + Len(s')]
  /\ Goto("l42", "rewind")
  /\ UNCHANGED <<old, test1, test2, fd2, buf>>

WriteAbbbb ==
  /\ pc.l42 = "write Abbbb"
  /\ Write("l42", Abbbb)
  /\ Goto("l42", "done")
  /\ UNCHANGED <<old, test2, fd2, buf, s>>

Step1 == Open1 \/ Read1 \/ Write1
Step2 == Open2 \/ WriteHiiii \/ Rewind \/ Read2 \/ WriteAbbbb
AppendNext == Step1 \/ Step2

\* Both processes run.
AppendSpec ==
  /\ AppendInit /\ [][AppendNext]_appendVars
  /\ WF_appendVars(Step1) /\ WF_appendVars(Step2)

-----------------------------------------------------------------------------
(* Properties that hold. *)

WrittenBy1 ==
  SubSeq(test2, 1, IF pc.l41 = "write" THEN fd2 - 1 ELSE fd2)

WrittenBy2 ==
  CASE pc.l42 \in {"open", "error", "write Hiiii"} -> <<>>
    [] pc.l42 \in {"rewind", "read", "write Abbbb"} -> Hiiii
    [] pc.l42 = "done" -> Hiiii \o Abbbb

\* The characters the programs can write, and those of f that are in set.
Copied == UNION {Range(c) : c \in Contents}
Letters == Range(Hiiii) \cup Range(Abbbb)

Filter(f, set) ==
  LET kept[i \in 0 .. Len(f)] ==
        IF i = 0 THEN <<>>
        ELSE IF f[i] \in set THEN Append(kept[i - 1], f[i]) ELSE kept[i - 1]
  IN  kept[Len(f)]

Added == SubSeq(test1, Len(old) + 1, Len(test1))

\* However the two programs interleave, test1 is what it was followed by what
\* each has written, complete and in its order, and the copy does not cut a
\* word of the other program: each write goes to the end there is (O_APPEND).
FileIsMerge ==
  test2 \notin {Directory, Missing} =>
    /\ IsPrefix(old, test1)
    /\ Filter(Added, Copied) = WrittenBy1
    /\ Filter(Added, Letters) = WrittenBy2
    /\ Range(Added) \subseteq Copied \cup Letters
    /\ \A i \in DOMAIN Added :
         Added[i] = "H" => SubSeq(Added, i, i + 4) = Hiiii

\* What l4-2 has read from the start and printed stays there, though it goes
\* back to offset 0 before it writes again.
ReadStaysTrue ==
  s # NotRead => IsPrefix(s, test1)

\* The copy ends, or never begins, when test2 is a file; the loop that tests
\* for 0 has no other way out.
CopyEnds ==
  test2 # Directory ~> pc.l41 \in {"done", "error"}
=============================================================================
