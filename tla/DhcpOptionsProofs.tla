------------------------- MODULE DhcpOptionsProofs -------------------------
(***************************************************************************)
(* Proofs about DhcpOptions, for every address asked for, every packet of  *)
(* other programs and whatever the buffers hold from before.               *)
(***************************************************************************)
EXTENDS DhcpOptions, SequenceTheorems, WellFoundedInduction, TLAPS

-----------------------------------------------------------------------------
(* The walk of get_dhcp_option.                                               *)

\* A set of numbers has a first one.
LEMMA FirstNumber ==
  ASSUME NEW S, S \subseteq Nat, S # {}
  PROVE  \E i \in S : \A j \in S : i <= j
<1>1. PICK i \in S : \A j \in S : ~(<<j, i>> \in OpToRel(<, Nat))
  BY NatLessThanWellFounded, WFMin
<1>2. ASSUME NEW j \in S PROVE i <= j
  <2>1. <<j, i>> \notin OpToRel(<, Nat)
    BY <1>1
  <2>2. i \in Nat /\ j \in Nat
    OBVIOUS
  <2>3. ~(j < i)
    BY <2>1, <2>2 DEF OpToRel
  <2> QED BY <2>2, <2>3
<1> QED BY <1>2

\* The next option is further on.
LEMMA Further == \A m, v \in Nat : m + 2 + v \in Nat /\ m + 2 + v > m
OBVIOUS

\* g walks through buf from m on.
Walks(g, buf, code, m) ==
  /\ g \in [Nat -> Nat]
  /\ \A i \in Nat :
       i >= m => g[i] = IF At(buf, i) \in {code, 0} THEN i
                        ELSE g[i + 2 + At(buf, i + 1)]

\* What a buffer holds.
LEMMA AtIsByte ==
  ASSUME NEW buf \in Seq(Byte), NEW i \in Nat
  PROVE  /\ At(buf, i) \in Byte /\ At(buf, i) \in Nat
         /\ i \notin 1 .. Len(buf) => At(buf, i) = 0
         /\ i \in 1 .. Len(buf) => At(buf, i) = buf[i]
<1>1. DOMAIN buf = 1 .. Len(buf)
  BY LenProperties
<1>2. i \in 1 .. Len(buf) => buf[i] \in Byte
  BY ElementOfSeq
<1>3. /\ i \notin 1 .. Len(buf) => At(buf, i) = 0
      /\ i \in 1 .. Len(buf) => At(buf, i) = buf[i]
  BY <1>1, Zenon DEF At
<1>4. At(buf, i) \in Byte
  <2>1. 0 \in Byte
    BY DEF Byte
  <2> QED BY <1>2, <1>3, <2>1, Zenon
<1>5. At(buf, i) \in Nat
  <2>1. Byte \subseteq Nat
    BY DEF Byte
  <2> QED BY <1>4, <2>1, Zenon
<1> QED BY <1>3, <1>4, <1>5, Zenon

\* Some function walks through the whole buffer: one walks behind its end, and
\* one that walks from m + 1 on can be made to walk from m on.
LEMMA WalkExists ==
  ASSUME NEW buf \in Seq(Byte), NEW code
  PROVE  \E g : Walks(g, buf, code, 0)
<1> DEFINE N == Len(buf) + 1
           S == {k \in 0 .. N : ~ \E g : Walks(g, buf, code, N - k)}
<1>1. N \in Nat
  BY LenProperties
<1>2. S = {} => \E g : Walks(g, buf, code, 0)
  <2>1. N \in 0 .. N /\ N - N = 0
    BY <1>1
  <2> HIDE DEF N
  <2> QED BY <2>1
<1>3. SUFFICES ASSUME S # {} PROVE FALSE
  BY <1>2
<1>4. PICK k \in S : \A j \in S : k <= j
  <2>1. S \subseteq Nat
    OBVIOUS
  <2> HIDE DEF S
  <2> QED BY <1>3, <2>1, FirstNumber
<1>5. k \in Nat /\ k <= N /\ ~ \E g : Walks(g, buf, code, N - k)
  BY <1>1, <1>4
<1>6. CASE k = 0
  <2> DEFINE g == [i \in Nat |-> i]
  <2>1. ASSUME NEW i \in Nat, i >= N PROVE At(buf, i) = 0
    <3>1. i \notin 1 .. Len(buf)
      BY <2>1, LenProperties
    <3> QED BY <3>1, AtIsByte
  <2>2. N - k = N
    BY <1>1, <1>6
  <2> HIDE DEF N
  <2>3. Walks(g, buf, code, N)
    BY <2>1 DEF Walks
  <2> QED BY <1>5, <2>2, <2>3
<1>7. CASE k # 0
  <2> DEFINE m == N - k
  <2>1. k - 1 \notin S /\ k - 1 \in 0 .. N /\ N - (k - 1) = m + 1 /\ m \in Nat
    BY <1>1, <1>4, <1>5, <1>7
  <2>2. PICK f : Walks(f, buf, code, m + 1)
    BY <2>1
  <2> HIDE DEF m
  <2> DEFINE to == m + 2 + At(buf, m + 1)
             v == IF At(buf, m) \in {code, 0} THEN m ELSE f[to]
             g == [f EXCEPT ![m] = v]
  <2>3. f \in [Nat -> Nat] /\ m \in Nat /\ to \in Nat /\ to > m
    <3>1. At(buf, m + 1) \in Nat
      <4>1. m + 1 \in Nat
        BY <2>1
      <4> QED BY <4>1, AtIsByte, Zenon
    <3>2. f \in [Nat -> Nat]
      BY <2>2, Zenon DEF Walks
    <3> QED BY <2>1, <3>1, <3>2, Further, Zenon
  <2>4. g \in [Nat -> Nat] /\ \A i \in Nat : i > m => g[i] = f[i]
    <3> HIDE DEF to
    <3>1. v \in Nat
      BY <2>3
    <3> HIDE DEF v
    <3>2. f \in [Nat -> Nat] /\ m \in Nat
      BY <2>3, Zenon
    <3>3. g \in [Nat -> Nat]
      BY <3>1, <3>2
    <3>4. ASSUME NEW i \in Nat, i > m PROVE g[i] = f[i]
      <4>1. i # m
        BY <3>2, <3>4
      <4> QED BY <3>2, <4>1
    <3> QED BY <3>3, <3>4, Zenon
  <2>5. g[m] = IF At(buf, m) \in {code, 0} THEN m ELSE g[to]
    <3> HIDE DEF to
    <3> QED BY <2>3
  <2>6. ASSUME NEW i \in Nat, i > m
        PROVE  g[i] = IF At(buf, i) \in {code, 0} THEN i
                      ELSE g[i + 2 + At(buf, i + 1)]
    <3>1. f[i] = IF At(buf, i) \in {code, 0} THEN i
                 ELSE f[i + 2 + At(buf, i + 1)]
      <4>1. i >= m + 1
        BY <2>3, <2>6
      <4> QED BY <2>2, <4>1, Zenon DEF Walks
    <3>2. At(buf, i + 1) \in Nat
      <4>1. i + 1 \in Nat
        OBVIOUS
      <4> QED BY <4>1, AtIsByte, Zenon
    <3>3. i + 2 + At(buf, i + 1) \in Nat /\ i + 2 + At(buf, i + 1) > m
      <4> DEFINE next == i + 2 + At(buf, i + 1)
      <4>1. next \in Nat /\ next > i
        BY <3>2, Further, Zenon
      <4> HIDE DEF next
      <4>2. next > m
        BY <2>3, <2>6, <4>1
      <4> QED BY <4>1, <4>2 DEF next
    <3> HIDE DEF g
    <3>4. /\ g[i] = f[i]
          /\ g[i + 2 + At(buf, i + 1)] = f[i + 2 + At(buf, i + 1)]
      BY <2>4, <2>6, <3>3, Zenon
    <3> QED BY <3>1, <3>4, Zenon
  <2> HIDE DEF g
  <2>7. Walks(g, buf, code, m)
    <3>1. ASSUME NEW i \in Nat, i >= m
          PROVE  g[i] = IF At(buf, i) \in {code, 0} THEN i
                        ELSE g[i + 2 + At(buf, i + 1)]
      <4>1. CASE i = m
        BY <2>5, <4>1
      <4>2. CASE i > m
        BY <2>6, <4>2
      <4> QED BY <2>3, <3>1, <4>1, <4>2
    <3> QED BY <2>4, <3>1 DEF Walks
  <2> QED BY <1>5, <2>7 DEF m
<1> QED BY <1>6, <1>7

\* The walk goes from option to option.
LEMMA WalkStep ==
  ASSUME NEW buf \in Seq(Byte), NEW code, NEW i \in Nat
  PROVE  Walk(buf, code)[i] =
           IF At(buf, i) \in {code, 0} THEN i
           ELSE Walk(buf, code)[i + 2 + At(buf, i + 1)]
<1> DEFINE D(g) == g = [j \in Nat |-> IF At(buf, j) \in {code, 0} THEN j
                                      ELSE g[j + 2 + At(buf, j + 1)]]
           walk == CHOOSE g : D(g)
<1>1. PICK g : Walks(g, buf, code, 0)
  BY WalkExists
<1>2. D(g)
  BY <1>1 DEF Walks
<1>3. D(walk)
  BY <1>2, Zenon
<1>4. Walk(buf, code) = walk
  BY Zenon DEF Walk
<1> HIDE DEF walk
<1> QED BY <1>3, <1>4

-----------------------------------------------------------------------------
(* Options one behind the other.  The walk passes a run of options that does  *)
(* not hold the code, and reads one that does, wherever the run stands.       *)

Passes(s, code) ==
  \A a, t \in Seq(Byte) :
    Walk((a \o s) \o t, code)[Len(a) + 1] =
      Walk((a \o s) \o t, code)[Len(a \o s) + 1]

HoldsAt(buf, i, code, data) ==
  /\ i \in Nat
  /\ At(buf, i) = code
  /\ At(buf, i + 1) = Len(data)
  /\ \A k \in 1 .. Len(data) : At(buf, i + 1 + k) = data[k]

Reads(s, code, data) ==
  \A a, t \in Seq(Byte) :
    HoldsAt((a \o s) \o t, Walk((a \o s) \o t, code)[Len(a) + 1], code, data)

\* Three runs of bytes put together.
LEMMA Middle ==
  ASSUME NEW a \in Seq(Byte), NEW s \in Seq(Byte), NEW t \in Seq(Byte)
  PROVE  /\ (a \o s) \o t \in Seq(Byte)
         /\ Len(a) \in Nat /\ Len(a \o s) = Len(a) + Len(s)
         /\ \A i \in 1 .. Len(s) : At((a \o s) \o t, Len(a) + i) = s[i]
<1> DEFINE b == a \o s
           c == b \o t
<1>1. /\ b \in Seq(Byte) /\ Len(b) = Len(a) + Len(s)
      /\ \A i \in 1 .. (Len(a) + Len(s)) :
           b[i] = IF i <= Len(a) THEN a[i] ELSE s[i - Len(a)]
  BY ConcatProperties, Zenon
<1> HIDE DEF b
<1>2. /\ c \in Seq(Byte) /\ Len(c) = Len(b) + Len(t)
      /\ \A i \in 1 .. (Len(b) + Len(t)) :
           c[i] = IF i <= Len(b) THEN b[i] ELSE t[i - Len(b)]
  <2>1. b \in Seq(Byte)
    BY <1>1, Zenon
  <2> QED BY <2>1, ConcatProperties, Zenon
<1> HIDE DEF c
<1>3. Len(a) \in Nat /\ Len(s) \in Nat /\ Len(t) \in Nat
  BY LenProperties
<1>4. ASSUME NEW i \in 1 .. Len(s) PROVE At(c, Len(a) + i) = s[i]
  <2>1. /\ Len(a) + i \in 1 .. (Len(a) + Len(s)) /\ ~(Len(a) + i <= Len(a))
        /\ (Len(a) + i) - Len(a) = i
    BY <1>3
  <2>2. b[Len(a) + i] = s[i]
    BY <1>1, <2>1
  <2>3. /\ Len(a) + i \in 1 .. (Len(b) + Len(t)) /\ Len(a) + i <= Len(b)
        /\ Len(a) + i \in Nat
    BY <1>1, <1>3
  <2>4. c[Len(a) + i] = b[Len(a) + i]
    BY <1>2, <2>3
  <2>5. At(c, Len(a) + i) = c[Len(a) + i]
    BY <1>2, <2>3, AtIsByte
  <2> QED BY <2>2, <2>4, <2>5, Zenon
<1>5. Len(b) = Len(a) + Len(s)
  BY <1>1
<1> QED BY <1>2, <1>3, <1>4, <1>5, Zenon DEF b, c

\* An option as fill_dhcp_option writes it.
LEMMA OptionBytes ==
  ASSUME NEW code \in Byte, NEW data \in Seq(Byte), Len(data) \in Byte, NEW s,
         s = fill_dhcp_option(code, data)
  PROVE  /\ s \in Seq(Byte) /\ Len(data) \in Nat /\ Len(s) = Len(data) + 2
         /\ s[1] = code /\ s[2] = Len(data)
         /\ \A k \in 1 .. Len(data) : s[2 + k] = data[k]
<1> DEFINE head == <<code, Len(data)>>
<1>1. head \in Seq(Byte) /\ Len(head) = 2 /\ head[1] = code /\ head[2] = Len(data)
  OBVIOUS
<1>2. s = head \o data
  BY DEF fill_dhcp_option
<1> HIDE DEF head
<1>3. /\ s \in Seq(Byte) /\ Len(s) = Len(head) + Len(data)
      /\ \A i \in 1 .. (Len(head) + Len(data)) :
           s[i] = IF i <= Len(head) THEN head[i] ELSE data[i - Len(head)]
  <2>1. head \in Seq(Byte)
    BY <1>1, Zenon
  <2>2. /\ head \o data \in Seq(Byte)
        /\ Len(head \o data) = Len(head) + Len(data)
        /\ \A i \in 1 .. (Len(head) + Len(data)) :
             (head \o data)[i] =
               IF i <= Len(head) THEN head[i] ELSE data[i - Len(head)]
    BY <2>1, ConcatProperties, Zenon
  <2> QED BY <1>2, <2>2, Zenon
<1>4. Len(data) \in Nat
  BY LenProperties
<1>5. s[1] = code /\ s[2] = Len(data)
  BY <1>1, <1>3, <1>4
<1>6. ASSUME NEW k \in 1 .. Len(data) PROVE s[2 + k] = data[k]
  <2>1. 2 + k \in 1 .. (2 + Len(data)) /\ ~(2 + k <= 2) /\ (2 + k) - 2 = k
    BY <1>4
  <2> QED BY <1>1, <1>3, <2>1
<1>7. Len(s) = Len(data) + 2
  BY <1>1, <1>3, <1>4
<1> QED BY <1>3, <1>4, <1>5, <1>6, <1>7

\* The option looked for is read.
LEMMA OptionReads ==
  ASSUME NEW code \in Byte, NEW data \in Seq(Byte), Len(data) \in Byte
  PROVE  Reads(fill_dhcp_option(code, data), code, data)
<1> DEFINE s == fill_dhcp_option(code, data)
<1>1. /\ s \in Seq(Byte) /\ Len(data) \in Nat /\ Len(s) = Len(data) + 2
      /\ s[1] = code /\ s[2] = Len(data)
      /\ \A k \in 1 .. Len(data) : s[2 + k] = data[k]
  BY OptionBytes
<1> HIDE DEF s
<1>2. ASSUME NEW a \in Seq(Byte), NEW t \in Seq(Byte)
      PROVE  HoldsAt((a \o s) \o t, Walk((a \o s) \o t, code)[Len(a) + 1],
                     code, data)
  <2> DEFINE buf == (a \o s) \o t
             i == Len(a) + 1
  <2>1. /\ buf \in Seq(Byte) /\ Len(a) \in Nat
        /\ \A k \in 1 .. Len(s) : At(buf, Len(a) + k) = s[k]
    BY <1>1, Middle, Zenon
  <2> HIDE DEF buf
  <2>2. /\ At(buf, i) = code /\ At(buf, i + 1) = Len(data) /\ i \in Nat
    <3>1. /\ 1 \in 1 .. Len(s) /\ 2 \in 1 .. Len(s)
          /\ Len(a) + 2 = i + 1 /\ i \in Nat
      BY <1>1, <2>1
    <3>2. At(buf, Len(a) + 1) = s[1] /\ At(buf, Len(a) + 2) = s[2]
      BY <2>1, <3>1, Zenon
    <3> QED BY <1>1, <3>1, <3>2, Zenon
  <2>3. ASSUME NEW k \in 1 .. Len(data) PROVE At(buf, i + 1 + k) = data[k]
    <3>1. 2 + k \in 1 .. Len(s) /\ i + 1 + k = Len(a) + (2 + k)
      BY <1>1, <2>1
    <3> QED BY <1>1, <2>1, <3>1
  <2> HIDE DEF i
  <2>4. Walk(buf, code)[i] = i
    <3>1. buf \in Seq(Byte) /\ i \in Nat
      BY <2>1, <2>2, Zenon
    <3>2. Walk(buf, code)[i] =
            IF At(buf, i) \in {code, 0} THEN i
            ELSE Walk(buf, code)[i + 2 + At(buf, i + 1)]
      BY <3>1, WalkStep
    <3>3. At(buf, i) \in {code, 0}
      BY <2>2
    <3> QED BY <3>2, <3>3, Zenon
  <2>5. HoldsAt(buf, i, code, data)
    BY <2>2, <2>3, Zenon DEF HoldsAt
  <2> QED BY <2>4, <2>5, Zenon DEF buf, i
<1> QED BY <1>2, Zenon DEF Reads, s

\* Another option is passed.
LEMMA OptionPasses ==
  ASSUME NEW code, NEW c \in Byte, c # 0, c # code,
         NEW data \in Seq(Byte), Len(data) \in Byte
  PROVE  Passes(fill_dhcp_option(c, data), code)
<1> DEFINE s == fill_dhcp_option(c, data)
<1>1. /\ s \in Seq(Byte) /\ Len(data) \in Nat /\ Len(s) = Len(data) + 2
      /\ s[1] = c /\ s[2] = Len(data)
  BY OptionBytes
<1> HIDE DEF s
<1>2. ASSUME NEW a \in Seq(Byte), NEW t \in Seq(Byte)
      PROVE  Walk((a \o s) \o t, code)[Len(a) + 1] =
               Walk((a \o s) \o t, code)[Len(a \o s) + 1]
  <2> DEFINE buf == (a \o s) \o t
             i == Len(a) + 1
  <2>1. /\ buf \in Seq(Byte) /\ Len(a) \in Nat /\ Len(a \o s) = Len(a) + Len(s)
        /\ \A k \in 1 .. Len(s) : At(buf, Len(a) + k) = s[k]
    BY <1>1, Middle, Zenon
  <2> HIDE DEF buf
  <2>2. At(buf, i) = c /\ At(buf, i + 1) = Len(data) /\ i \in Nat
    <3>1. /\ 1 \in 1 .. Len(s) /\ 2 \in 1 .. Len(s)
          /\ Len(a) + 2 = i + 1 /\ i \in Nat
      BY <1>1, <2>1
    <3>2. At(buf, Len(a) + 1) = s[1] /\ At(buf, Len(a) + 2) = s[2]
      BY <2>1, <3>1, Zenon
    <3> QED BY <1>1, <3>1, <3>2, Zenon
  <2>3. Len(a \o s) + 1 = i + 2 + Len(data)
    BY <1>1, <2>1
  <2> HIDE DEF i
  <2>4. Walk(buf, code)[i] = Walk(buf, code)[i + 2 + At(buf, i + 1)]
    <3>1. At(buf, i) \notin {code, 0}
      BY <2>2
    <3>2. buf \in Seq(Byte) /\ i \in Nat
      BY <2>1, <2>2, Zenon
    <3>3. Walk(buf, code)[i] =
            IF At(buf, i) \in {code, 0} THEN i
            ELSE Walk(buf, code)[i + 2 + At(buf, i + 1)]
      BY <3>2, WalkStep
    <3> QED BY <3>1, <3>3, Zenon
  <2> QED BY <2>2, <2>3, <2>4, Zenon DEF buf, i
<1> QED BY <1>2, Zenon DEF Passes, s

\* Putting runs together in another order.
Regroups(a, s, u, t) ==
  /\ (a \o (s \o u)) \o t = ((a \o s) \o u) \o t
  /\ (a \o (s \o u)) \o t = (a \o s) \o (u \o t)
  /\ a \o (s \o u) = (a \o s) \o u
  /\ a \o s \in Seq(Byte) /\ u \o t \in Seq(Byte)

\* Appending is associative, in the forms the walk needs.
LEMMA Regroup ==
  ASSUME NEW a \in Seq(Byte), NEW s \in Seq(Byte), NEW u \in Seq(Byte),
         NEW t \in Seq(Byte)
  PROVE  Regroups(a, s, u, t)
<1>1. /\ a \o s \in Seq(Byte) /\ u \o t \in Seq(Byte) /\ s \o u \in Seq(Byte)
  BY ConcatProperties, Zenon
<1>2. a \o (s \o u) = (a \o s) \o u
  BY ConcatAssociative, SMTT(30)
<1>3. ((a \o s) \o u) \o t = (a \o s) \o (u \o t)
  BY <1>1, ConcatAssociative, SMTT(30)
<1> QED BY <1>1, <1>2, <1>3, Zenon DEF Regroups

\* What no part stops at, the whole does not stop at.
LEMMA PassThenPass ==
  ASSUME NEW code, NEW s \in Seq(Byte), NEW u \in Seq(Byte),
         Passes(s, code), Passes(u, code)
  PROVE  Passes(s \o u, code)
<1>1. ASSUME NEW a \in Seq(Byte), NEW t \in Seq(Byte)
      PROVE  Walk((a \o (s \o u)) \o t, code)[Len(a) + 1] =
               Walk((a \o (s \o u)) \o t, code)[Len(a \o (s \o u)) + 1]
  <2>0. /\ (a \o (s \o u)) \o t = ((a \o s) \o u) \o t
        /\ (a \o (s \o u)) \o t = (a \o s) \o (u \o t)
        /\ a \o (s \o u) = (a \o s) \o u
        /\ a \o s \in Seq(Byte) /\ u \o t \in Seq(Byte)
    <3>1. Regroups(a, s, u, t)
      BY Regroup, Zenon
    <3> QED BY <3>1, Zenon DEF Regroups
  <2>1. Walk((a \o s) \o (u \o t), code)[Len(a) + 1] =
          Walk((a \o s) \o (u \o t), code)[Len(a \o s) + 1]
    BY <2>0, Zenon DEF Passes
  <2>2. Walk(((a \o s) \o u) \o t, code)[Len(a \o s) + 1] =
          Walk(((a \o s) \o u) \o t, code)[Len((a \o s) \o u) + 1]
    BY <2>0, Zenon DEF Passes
  <2> QED BY <2>1, <2>2, <2>0
<1> QED BY <1>1, Zenon DEF Passes

\* An option is found behind a part that does not hold it.
LEMMA PassThenRead ==
  ASSUME NEW code, NEW data, NEW s \in Seq(Byte), NEW u \in Seq(Byte),
         Passes(s, code), Reads(u, code, data)
  PROVE  Reads(s \o u, code, data)
<1>1. ASSUME NEW a \in Seq(Byte), NEW t \in Seq(Byte)
      PROVE  HoldsAt((a \o (s \o u)) \o t,
                     Walk((a \o (s \o u)) \o t, code)[Len(a) + 1], code, data)
  <2>0. /\ (a \o (s \o u)) \o t = ((a \o s) \o u) \o t
        /\ (a \o (s \o u)) \o t = (a \o s) \o (u \o t)
        /\ a \o (s \o u) = (a \o s) \o u
        /\ a \o s \in Seq(Byte) /\ u \o t \in Seq(Byte)
    <3>1. Regroups(a, s, u, t)
      BY Regroup, Zenon
    <3> QED BY <3>1, Zenon DEF Regroups
  <2>1. Walk((a \o s) \o (u \o t), code)[Len(a) + 1] =
          Walk((a \o s) \o (u \o t), code)[Len(a \o s) + 1]
    BY <2>0, Zenon DEF Passes
  <2>2. HoldsAt(((a \o s) \o u) \o t,
                Walk(((a \o s) \o u) \o t, code)[Len(a \o s) + 1], code, data)
    BY <2>0, Zenon DEF Reads
  <2> QED BY <2>1, <2>2, <2>0
<1> QED BY <1>1, Zenon DEF Reads

\* What comes behind does not matter.
LEMMA ReadThenRest ==
  ASSUME NEW code, NEW data, NEW s \in Seq(Byte), NEW u \in Seq(Byte),
         Reads(s, code, data)
  PROVE  Reads(s \o u, code, data)
<1>1. ASSUME NEW a \in Seq(Byte), NEW t \in Seq(Byte)
      PROVE  HoldsAt((a \o (s \o u)) \o t,
                     Walk((a \o (s \o u)) \o t, code)[Len(a) + 1], code, data)
  <2>0. /\ (a \o (s \o u)) \o t = (a \o s) \o (u \o t)
        /\ u \o t \in Seq(Byte)
    <3>1. Regroups(a, s, u, t)
      BY Regroup, Zenon
    <3> QED BY <3>1, Zenon DEF Regroups
  <2>1. HoldsAt((a \o s) \o (u \o t),
                Walk((a \o s) \o (u \o t), code)[Len(a) + 1], code, data)
    BY <2>0, Zenon DEF Reads
  <2> QED BY <2>1, <2>0
<1> QED BY <1>1, Zenon DEF Reads

\* What Read makes of a run that holds the option.
LEMMA ReadIsData ==
  ASSUME NEW code, code # 0, NEW data \in Seq(Byte), NEW s \in Seq(Byte),
         NEW t \in Seq(Byte), Reads(s, code, data)
  PROVE  Read(s \o t, code, Len(data)) = data
<1> DEFINE buf == s \o t
           i == Walk(buf, code)[1]
           got == get_dhcp_option(buf, code)
           n == Len(data)
<1>1. HoldsAt(buf, i, code, data)
  <2>1. <<>> \in Seq(Byte) /\ Len(<<>>) + 1 = 1
    OBVIOUS
  <2>2. <<>> \o s = s
    BY ConcatEmptySeq, Zenon
  <2> QED BY <2>1, <2>2, Zenon DEF Reads
<1> HIDE DEF i
<1>2. got = [len |-> n, value |-> i + 2]
  BY <1>1 DEF get_dhcp_option, HoldsAt, i
<1> HIDE DEF got, buf
<1>3. \A k \in 1 .. n : At(buf, got.value + k - 1) = data[k]
  <2>1. n \in Nat
    BY LenProperties
  <2>2. ASSUME NEW k \in 1 .. n PROVE At(buf, got.value + k - 1) = data[k]
    <3>1. got.value + k - 1 = i + 1 + k
      BY <1>1, <1>2, <2>1 DEF HoldsAt
    <3> QED BY <1>1, <3>1 DEF HoldsAt
  <2> QED BY <2>2
<1>4. [k \in 1 .. n |-> At(buf, got.value + k - 1)] = data
  BY <1>3
<1>5. Read(buf, code, n) = [k \in 1 .. n |-> At(buf, got.value + k - 1)]
  BY <1>2 DEF Read, got
<1> QED BY <1>4, <1>5, Zenon DEF buf

\* Three runs, as construct_dhcp_packet fills them in.
LEMMA ThreeRead ==
  ASSUME NEW code, NEW data,
         NEW x \in Seq(Byte), NEW y \in Seq(Byte), NEW z \in Seq(Byte),
         \/ Reads(x, code, data)
         \/ Passes(x, code) /\ Reads(y, code, data)
         \/ Passes(x, code) /\ Passes(y, code) /\ Reads(z, code, data)
  PROVE  Reads((x \o y) \o z, code, data)
<1>1. x \o y \in Seq(Byte)
  BY ConcatProperties, Zenon
<1>2. CASE Reads(x, code, data)
  <2>1. Reads(x \o y, code, data)
    BY <1>2, ReadThenRest, Zenon
  <2> QED BY <1>1, <2>1, ReadThenRest, Zenon
<1>3. CASE Passes(x, code) /\ Reads(y, code, data)
  <2>1. Reads(x \o y, code, data)
    BY <1>3, PassThenRead, Zenon
  <2> QED BY <1>1, <2>1, ReadThenRest, Zenon
<1>4. CASE Passes(x, code) /\ Passes(y, code) /\ Reads(z, code, data)
  <2>1. Passes(x \o y, code)
    BY <1>4, PassThenPass, Zenon
  <2> QED BY <1>1, <1>4, <2>1, PassThenRead, Zenon
<1> QED BY <1>2, <1>3, <1>4, Zenon

\* The same of three parts.
LEMMA ThreePass ==
  ASSUME NEW code, NEW x \in Seq(Byte), NEW y \in Seq(Byte), NEW z \in Seq(Byte),
         Passes(x, code), Passes(y, code), Passes(z, code)
  PROVE  Passes((x \o y) \o z, code)
<1>1. x \o y \in Seq(Byte)
  BY ConcatProperties, Zenon
<1>2. Passes(x \o y, code)
  BY PassThenPass, Zenon
<1> QED BY <1>1, <1>2, PassThenPass, Zenon

\* Where there is no option the walk does not move.
LEMMA NothingPasses == ASSUME NEW code PROVE Passes(<<>>, code)
<1>1. ASSUME NEW a \in Seq(Byte) PROVE a \o <<>> = a
  BY ConcatEmptySeq
<1> QED BY <1>1, Zenon DEF Passes

-----------------------------------------------------------------------------
(* What both programs fill in. *)

\* n bytes.
Run(s, n) == s \in Seq(Byte) /\ n \in Nat /\ Len(s) = n

\* Lengths add up.
LEMMA RunConcat ==
  ASSUME NEW s, NEW u, NEW m, NEW n, Run(s, m), Run(u, n)
  PROVE  Run(s \o u, m + n)
<1>1. s \in Seq(Byte) /\ u \in Seq(Byte)
  BY Zenon DEF Run
<1>2. s \o u \in Seq(Byte) /\ Len(s \o u) = Len(s) + Len(u)
  BY <1>1, ConcatProperties, Zenon
<1>3. m + n \in Nat /\ Len(s) = m /\ Len(u) = n
  BY DEF Run
<1> QED BY <1>2, <1>3 DEF Run

\* fill_dhcp_option puts two bytes in front of its data.
LEMMA RunFilled ==
  ASSUME NEW code \in Byte, NEW data, NEW n \in Byte, Run(data, n)
  PROVE  Run(fill_dhcp_option(code, data), n + 2)
<1>1. data \in Seq(Byte) /\ Len(data) = n /\ Len(data) \in Byte
  BY DEF Run
<1>2. /\ fill_dhcp_option(code, data) \in Seq(Byte)
      /\ Len(fill_dhcp_option(code, data)) = Len(data) + 2
  BY <1>1, OptionBytes
<1>3. n + 2 \in Nat
  BY DEF Byte
<1> QED BY <1>1, <1>2, <1>3 DEF Run

\* The values the programs know.
LEMMA Values ==
  /\ Run(DHCP_SERVER_IP_ADDRESS, 4) /\ Run(SUBNET_MASK, 4)
  /\ Run(IP_ADDRESS_LEASE_TIME, 4) /\ Run(T1_RENEWAL_TIME, 4)
  /\ Run(T2_REBIND_TIME, 4)
  /\ Run(DHCP_CLIENT_VENDOR_CLASS_ID, 10) /\ Run(DHCP_SERVER_VENDOR_CLASS_ID, 10)
  /\ Run(parameter_req_list, 7)
  /\ \A type \in 1 .. 8 : Run(<<type>>, 1)
  /\ Run(<<0>>, 1) /\ Run(<<>>, 0)
<1>1. Run(DHCP_SERVER_IP_ADDRESS, 4)
  BY DEF Run, Byte, DHCP_SERVER_IP_ADDRESS
<1>2. Run(SUBNET_MASK, 4)
  BY DEF Run, Byte, SUBNET_MASK
<1>3. /\ Run(IP_ADDRESS_LEASE_TIME, 4) /\ Run(T1_RENEWAL_TIME, 4)
      /\ Run(T2_REBIND_TIME, 4)
  BY DEF Run, Byte, IP_ADDRESS_LEASE_TIME, T1_RENEWAL_TIME, T2_REBIND_TIME
<1>4. Run(DHCP_CLIENT_VENDOR_CLASS_ID, 10)
  BY DEF Run, Byte, DHCP_CLIENT_VENDOR_CLASS_ID
<1>5. Run(DHCP_SERVER_VENDOR_CLASS_ID, 10)
  BY DEF Run, Byte, DHCP_SERVER_VENDOR_CLASS_ID
<1>6. Run(parameter_req_list, 7)
  BY DEF Run, Byte, parameter_req_list, OPTION_SUBNET_MASK, OPTION_ROUTER,
         OPTION_DOMAIN_NAME_SERVER, OPTION_IP_ADDRESS_LEASE_TIME,
         OPTION_IP_T1_RENEWAL_TIME, OPTION_IP_T2_REBIND_TIME,
         OPTION_VENDOR_CLASS_IDENTIFIER
<1>7. \A type \in 1 .. 8 : Run(<<type>>, 1)
  BY DEF Run, Byte
<1>8. Run(<<0>>, 1) /\ Run(<<>>, 0)
  BY DEF Run, Byte
<1> QED BY <1>1, <1>2, <1>3, <1>4, <1>5, <1>6, <1>7, <1>8, Zenon

\* The codes are different bytes, and none is the zero that ends a walk.
Codes == {OPTION_SUBNET_MASK, OPTION_ROUTER, OPTION_DOMAIN_NAME_SERVER,
          OPTION_REQUESTED_IP, OPTION_IP_ADDRESS_LEASE_TIME,
          OPTION_DHCP_MESSAGE_TYPE, OPTION_DHCP_SERVER_IDENTIFIER,
          OPTION_PARAMETER_REQUEST_LIST, OPTION_IP_T1_RENEWAL_TIME,
          OPTION_IP_T2_REBIND_TIME, OPTION_VENDOR_CLASS_IDENTIFIER, OPTION_END}

\* No option the programs fill in has the code 0, which ends the walk.
LEMMA CodesAreBytes == \A c \in Codes : c \in Byte /\ c # 0
BY DEF Codes, Byte, OPTION_SUBNET_MASK, OPTION_ROUTER,
       OPTION_DOMAIN_NAME_SERVER, OPTION_REQUESTED_IP,
       OPTION_IP_ADDRESS_LEASE_TIME, OPTION_DHCP_MESSAGE_TYPE,
       OPTION_DHCP_SERVER_IDENTIFIER, OPTION_PARAMETER_REQUEST_LIST,
       OPTION_IP_T1_RENEWAL_TIME, OPTION_IP_T2_REBIND_TIME,
       OPTION_VENDOR_CLASS_IDENTIFIER, OPTION_END

\* One option with n bytes of data.
LEMMA OneOption ==
  ASSUME NEW c \in Codes, NEW data, NEW n \in Byte, Run(data, n)
  PROVE  /\ Run(fill_dhcp_option(c, data), n + 2)
         /\ fill_dhcp_option(c, data) \in Seq(Byte)
         /\ Reads(fill_dhcp_option(c, data), c, data)
         /\ \A code \in Codes : c # code => Passes(fill_dhcp_option(c, data), code)
<1>1. c \in Byte /\ c # 0 /\ data \in Seq(Byte) /\ Len(data) \in Byte
  BY CodesAreBytes, Zenon DEF Run
<1>2. Run(fill_dhcp_option(c, data), n + 2)
  BY <1>1, RunFilled, Zenon
<1>3. fill_dhcp_option(c, data) \in Seq(Byte)
  BY <1>2, Zenon DEF Run
<1>4. Reads(fill_dhcp_option(c, data), c, data)
  BY <1>1, OptionReads, Zenon
<1>5. ASSUME NEW code \in Codes, c # code
      PROVE  Passes(fill_dhcp_option(c, data), code)
  BY <1>1, <1>5, OptionPasses, Zenon
<1> QED BY <1>2, <1>3, <1>4, <1>5, Zenon

-----------------------------------------------------------------------------
(* The reply.                                                                 *)

\* The options that are looked up are told apart by their codes.
LEMMA CodesDiffer ==
  /\ OPTION_DHCP_MESSAGE_TYPE # OPTION_DHCP_SERVER_IDENTIFIER
  /\ OPTION_DHCP_MESSAGE_TYPE # OPTION_REQUESTED_IP
  /\ OPTION_DHCP_SERVER_IDENTIFIER # OPTION_REQUESTED_IP
  /\ OPTION_SUBNET_MASK # OPTION_ROUTER
  /\ OPTION_IP_ADDRESS_LEASE_TIME # OPTION_IP_T1_RENEWAL_TIME
  /\ OPTION_IP_ADDRESS_LEASE_TIME # OPTION_IP_T2_REBIND_TIME
  /\ OPTION_IP_T1_RENEWAL_TIME # OPTION_IP_T2_REBIND_TIME
  /\ \A c \in {OPTION_SUBNET_MASK, OPTION_ROUTER, OPTION_IP_ADDRESS_LEASE_TIME,
               OPTION_IP_T1_RENEWAL_TIME, OPTION_IP_T2_REBIND_TIME} :
       c \notin {OPTION_DHCP_MESSAGE_TYPE, OPTION_DHCP_SERVER_IDENTIFIER,
                 OPTION_VENDOR_CLASS_IDENTIFIER}
  /\ \A c \in {OPTION_IP_ADDRESS_LEASE_TIME, OPTION_IP_T1_RENEWAL_TIME,
               OPTION_IP_T2_REBIND_TIME} :
       c \notin {OPTION_SUBNET_MASK, OPTION_ROUTER, OPTION_DOMAIN_NAME_SERVER}
BY DEF OPTION_SUBNET_MASK, OPTION_ROUTER, OPTION_DOMAIN_NAME_SERVER,
       OPTION_REQUESTED_IP, OPTION_IP_ADDRESS_LEASE_TIME,
       OPTION_DHCP_MESSAGE_TYPE, OPTION_DHCP_SERVER_IDENTIFIER,
       OPTION_IP_T1_RENEWAL_TIME, OPTION_IP_T2_REBIND_TIME,
       OPTION_VENDOR_CLASS_IDENTIFIER

\* The groups of options construct_dhcp_packet of the server fills in.
Identity(type) ==
  (fill_dhcp_option(OPTION_DHCP_MESSAGE_TYPE, <<type>>)
     \o fill_dhcp_option(OPTION_DHCP_SERVER_IDENTIFIER, DHCP_SERVER_IP_ADDRESS))
    \o fill_dhcp_option(OPTION_VENDOR_CLASS_IDENTIFIER,
                        DHCP_SERVER_VENDOR_CLASS_ID)
Network ==
  (fill_dhcp_option(OPTION_SUBNET_MASK, SUBNET_MASK)
     \o fill_dhcp_option(OPTION_ROUTER, DHCP_SERVER_IP_ADDRESS))
    \o fill_dhcp_option(OPTION_DOMAIN_NAME_SERVER, DHCP_SERVER_IP_ADDRESS)
Times ==
  (fill_dhcp_option(OPTION_IP_ADDRESS_LEASE_TIME, IP_ADDRESS_LEASE_TIME)
     \o fill_dhcp_option(OPTION_IP_T1_RENEWAL_TIME, T1_RENEWAL_TIME))
    \o fill_dhcp_option(OPTION_IP_T2_REBIND_TIME, T2_REBIND_TIME)
End == fill_dhcp_option(OPTION_END, <<0>>)

\* A group of three options is read and passed as its options are.
Grouped(s, c1, d1, n1, c2, d2, n2, c3, d3, n3) ==
  /\ Run(s, ((n1 + 2) + (n2 + 2)) + (n3 + 2)) /\ s \in Seq(Byte)
  /\ Reads(s, c1, d1)
  /\ c1 # c2 => Reads(s, c2, d2)
  /\ c1 # c3 /\ c2 # c3 => Reads(s, c3, d3)
  /\ \A code \in Codes : code \notin {c1, c2, c3} => Passes(s, code)

\* Three options in a row: each is found, and every other code passes them.
LEMMA Group ==
  ASSUME NEW c1 \in Codes, NEW c2 \in Codes, NEW c3 \in Codes,
         NEW d1, NEW d2, NEW d3, NEW n1 \in Byte, NEW n2 \in Byte, NEW n3 \in Byte,
         Run(d1, n1), Run(d2, n2), Run(d3, n3), NEW s,
         s = (fill_dhcp_option(c1, d1) \o fill_dhcp_option(c2, d2))
               \o fill_dhcp_option(c3, d3)
  PROVE  Grouped(s, c1, d1, n1, c2, d2, n2, c3, d3, n3)
<1> DEFINE x == fill_dhcp_option(c1, d1)
           y == fill_dhcp_option(c2, d2)
           z == fill_dhcp_option(c3, d3)
<1>1. /\ Run(x, n1 + 2) /\ x \in Seq(Byte) /\ Reads(x, c1, d1)
      /\ \A code \in Codes : c1 # code => Passes(x, code)
  BY OneOption, Zenon
<1>2. /\ Run(y, n2 + 2) /\ y \in Seq(Byte) /\ Reads(y, c2, d2)
      /\ \A code \in Codes : c2 # code => Passes(y, code)
  BY OneOption, Zenon
<1>3. /\ Run(z, n3 + 2) /\ z \in Seq(Byte) /\ Reads(z, c3, d3)
      /\ \A code \in Codes : c3 # code => Passes(z, code)
  BY OneOption, Zenon
<1>4. s = (x \o y) \o z
  OBVIOUS
<1> HIDE DEF x, y, z
<1>5. Run(s, ((n1 + 2) + (n2 + 2)) + (n3 + 2))
  <2>1. Run(x \o y, (n1 + 2) + (n2 + 2))
    BY <1>1, <1>2, RunConcat, Zenon
  <2> QED BY <1>3, <1>4, <2>1, RunConcat, Zenon
<1>6. Reads(s, c1, d1)
  BY <1>1, <1>2, <1>3, <1>4, ThreeRead, Zenon
<1>7. c1 # c2 => Reads(s, c2, d2)
  BY <1>1, <1>2, <1>3, <1>4, ThreeRead, Zenon
<1>8. c1 # c3 /\ c2 # c3 => Reads(s, c3, d3)
  BY <1>1, <1>2, <1>3, <1>4, ThreeRead, Zenon
<1>9. ASSUME NEW code \in Codes, code \notin {c1, c2, c3}
      PROVE  Passes(s, code)
  <2>1. Passes(x, code) /\ Passes(y, code) /\ Passes(z, code)
    BY <1>1, <1>2, <1>3, <1>9, Zenon
  <2>2. x \in Seq(Byte) /\ y \in Seq(Byte) /\ z \in Seq(Byte)
    BY <1>1, <1>2, <1>3, Zenon
  <2>3. Passes((x \o y) \o z, code)
    BY <2>1, <2>2, ThreePass, Zenon
  <2> QED BY <1>4, <2>3, Zenon
<1>10. s \in Seq(Byte)
  BY <1>5, Zenon DEF Run
<1> QED BY <1>5, <1>6, <1>7, <1>8, <1>9, <1>10, Zenon DEF Grouped

\* The lengths of the options are bytes.
LEMMA Small == 1 \in Byte /\ 4 \in Byte /\ 7 \in Byte /\ 10 \in Byte /\ 0 \in Byte
BY DEF Byte

\* The first three options of every reply.
LEMMA GroupIdentity ==
  ASSUME NEW type \in 1 .. 8
  PROVE  /\ Run(Identity(type), 21)
         /\ Reads(Identity(type), OPTION_DHCP_MESSAGE_TYPE, <<type>>)
         /\ Reads(Identity(type), OPTION_DHCP_SERVER_IDENTIFIER,
                  DHCP_SERVER_IP_ADDRESS)
         /\ \A code \in Codes :
              code \notin {OPTION_DHCP_MESSAGE_TYPE, OPTION_DHCP_SERVER_IDENTIFIER,
                           OPTION_VENDOR_CLASS_IDENTIFIER}
                => Passes(Identity(type), code)
<1> DEFINE s == Identity(type)
<1>1. /\ OPTION_DHCP_MESSAGE_TYPE \in Codes
      /\ OPTION_DHCP_SERVER_IDENTIFIER \in Codes
      /\ OPTION_VENDOR_CLASS_IDENTIFIER \in Codes
  BY DEF Codes
<1>2. /\ Run(<<type>>, 1) /\ Run(DHCP_SERVER_IP_ADDRESS, 4)
      /\ Run(DHCP_SERVER_VENDOR_CLASS_ID, 10)
  BY Values, Zenon
<1>3. s = (fill_dhcp_option(OPTION_DHCP_MESSAGE_TYPE, <<type>>)
             \o fill_dhcp_option(OPTION_DHCP_SERVER_IDENTIFIER,
                                 DHCP_SERVER_IP_ADDRESS))
            \o fill_dhcp_option(OPTION_VENDOR_CLASS_IDENTIFIER,
                                DHCP_SERVER_VENDOR_CLASS_ID)
  BY DEF Identity
<1> HIDE DEF s
<1>4. Grouped(s, OPTION_DHCP_MESSAGE_TYPE, <<type>>, 1,
               OPTION_DHCP_SERVER_IDENTIFIER, DHCP_SERVER_IP_ADDRESS, 4,
               OPTION_VENDOR_CLASS_IDENTIFIER, DHCP_SERVER_VENDOR_CLASS_ID, 10)
  BY <1>1, <1>2, <1>3, Small, Group, Zenon
<1>5. ((1 + 2) + (4 + 2)) + (10 + 2) = 21
  OBVIOUS
<1> QED BY <1>4, <1>5, CodesDiffer, Zenon DEF s, Grouped

\* The three options an ACK and an OFFER go on with.
LEMMA GroupNetwork ==
  /\ Run(Network, 18)
  /\ Reads(Network, OPTION_SUBNET_MASK, SUBNET_MASK)
  /\ Reads(Network, OPTION_ROUTER, DHCP_SERVER_IP_ADDRESS)
  /\ \A code \in Codes :
       code \notin {OPTION_SUBNET_MASK, OPTION_ROUTER, OPTION_DOMAIN_NAME_SERVER}
         => Passes(Network, code)
<1> DEFINE s == Network
<1>1. /\ OPTION_SUBNET_MASK \in Codes /\ OPTION_ROUTER \in Codes
      /\ OPTION_DOMAIN_NAME_SERVER \in Codes
  BY DEF Codes
<1>2. Run(DHCP_SERVER_IP_ADDRESS, 4) /\ Run(SUBNET_MASK, 4)
  BY Values, Zenon
<1>3. s = (fill_dhcp_option(OPTION_SUBNET_MASK, SUBNET_MASK)
             \o fill_dhcp_option(OPTION_ROUTER, DHCP_SERVER_IP_ADDRESS))
            \o fill_dhcp_option(OPTION_DOMAIN_NAME_SERVER, DHCP_SERVER_IP_ADDRESS)
  BY DEF Network
<1> HIDE DEF s
<1>4. Grouped(s, OPTION_SUBNET_MASK, SUBNET_MASK, 4,
               OPTION_ROUTER, DHCP_SERVER_IP_ADDRESS, 4,
               OPTION_DOMAIN_NAME_SERVER, DHCP_SERVER_IP_ADDRESS, 4)
  BY <1>1, <1>2, <1>3, Small, Group, Zenon
<1>5. ((4 + 2) + (4 + 2)) + (4 + 2) = 18
  OBVIOUS
<1> QED BY <1>4, <1>5, CodesDiffer, Zenon DEF s, Grouped

\* The lease times.
LEMMA GroupTimes ==
  /\ Run(Times, 18)
  /\ Reads(Times, OPTION_IP_ADDRESS_LEASE_TIME, IP_ADDRESS_LEASE_TIME)
  /\ Reads(Times, OPTION_IP_T1_RENEWAL_TIME, T1_RENEWAL_TIME)
  /\ Reads(Times, OPTION_IP_T2_REBIND_TIME, T2_REBIND_TIME)
<1> DEFINE s == Times
<1>1. /\ OPTION_IP_ADDRESS_LEASE_TIME \in Codes
      /\ OPTION_IP_T1_RENEWAL_TIME \in Codes /\ OPTION_IP_T2_REBIND_TIME \in Codes
  BY DEF Codes
<1>2. /\ Run(IP_ADDRESS_LEASE_TIME, 4) /\ Run(T1_RENEWAL_TIME, 4)
      /\ Run(T2_REBIND_TIME, 4)
  BY Values, Zenon
<1>3. s = (fill_dhcp_option(OPTION_IP_ADDRESS_LEASE_TIME, IP_ADDRESS_LEASE_TIME)
             \o fill_dhcp_option(OPTION_IP_T1_RENEWAL_TIME, T1_RENEWAL_TIME))
            \o fill_dhcp_option(OPTION_IP_T2_REBIND_TIME, T2_REBIND_TIME)
  BY DEF Times
<1> HIDE DEF s
<1>4. Grouped(s, OPTION_IP_ADDRESS_LEASE_TIME, IP_ADDRESS_LEASE_TIME, 4,
               OPTION_IP_T1_RENEWAL_TIME, T1_RENEWAL_TIME, 4,
               OPTION_IP_T2_REBIND_TIME, T2_REBIND_TIME, 4)
  BY <1>1, <1>2, <1>3, Small, Group, Zenon
<1>5. ((4 + 2) + (4 + 2)) + (4 + 2) = 18
  OBVIOUS
<1> QED BY <1>4, <1>5, CodesDiffer, Zenon DEF s, Grouped

\* OPTION_END is filled in with one byte of data.
LEMMA GroupEnd == Run(End, 3)
<1>1. OPTION_END \in Codes /\ Run(<<0>>, 1) /\ 1 + 2 = 3
  BY Values DEF Codes
<1>2. Run(End, 1 + 2)
  BY <1>1, Small, OneOption, Zenon DEF End
<1> QED BY <1>1, <1>2

\* Both groups before the times.
Front(type) ==
  IF type = DHCPNAK THEN Identity(type) ELSE Identity(type) \o Network

\* The options the client looks up in front of the times, in s.
FrontRead(s, type) ==
  /\ s \in Seq(Byte)
  /\ Reads(s, OPTION_DHCP_MESSAGE_TYPE, <<type>>)
  /\ Reads(s, OPTION_DHCP_SERVER_IDENTIFIER, DHCP_SERVER_IP_ADDRESS)
  /\ type # DHCPNAK =>
       /\ Reads(s, OPTION_SUBNET_MASK, SUBNET_MASK)
       /\ Reads(s, OPTION_ROUTER, DHCP_SERVER_IP_ADDRESS)

TimesRead(s) ==
  /\ Reads(s, OPTION_IP_ADDRESS_LEASE_TIME, IP_ADDRESS_LEASE_TIME)
  /\ Reads(s, OPTION_IP_T1_RENEWAL_TIME, T1_RENEWAL_TIME)
  /\ Reads(s, OPTION_IP_T2_REBIND_TIME, T2_REBIND_TIME)

\* What is read of the front of a reply is read of the reply.
LEMMA FrontThenRest ==
  ASSUME NEW s, NEW type, NEW u \in Seq(Byte), FrontRead(s, type)
  PROVE  FrontRead(s \o u, type)
<1>1. s \in Seq(Byte)
  BY Zenon DEF FrontRead
<1>2. s \o u \in Seq(Byte)
  BY <1>1, ConcatProperties, Zenon
<1> QED BY <1>1, <1>2, ReadThenRest, Zenon DEF FrontRead

\* The same of the lease times.
LEMMA TimesThenRest ==
  ASSUME NEW s \in Seq(Byte), NEW u \in Seq(Byte), TimesRead(s)
  PROVE  TimesRead(s \o u)
BY ReadThenRest, Zenon DEF TimesRead

\* The front of a reply is read back, and the lease times are looked for behind
\* it.
LEMMA FrontIsRead ==
  ASSUME NEW type \in 1 .. 8
  PROVE  /\ FrontRead(Front(type), type)
         /\ type # DHCPNAK => Run(Front(type), 39)
         /\ type = DHCPNAK => Run(Front(type), 21)
         /\ \A code \in {OPTION_IP_ADDRESS_LEASE_TIME, OPTION_IP_T1_RENEWAL_TIME,
                         OPTION_IP_T2_REBIND_TIME} : Passes(Front(type), code)
<1> DEFINE s == Identity(type)
<1>1. /\ Run(s, 21) /\ s \in Seq(Byte)
      /\ Reads(s, OPTION_DHCP_MESSAGE_TYPE, <<type>>)
      /\ Reads(s, OPTION_DHCP_SERVER_IDENTIFIER, DHCP_SERVER_IP_ADDRESS)
  BY GroupIdentity, Zenon DEF Run
<1>2. /\ Run(Network, 18) /\ Network \in Seq(Byte)
      /\ Reads(Network, OPTION_SUBNET_MASK, SUBNET_MASK)
      /\ Reads(Network, OPTION_ROUTER, DHCP_SERVER_IP_ADDRESS)
  BY GroupNetwork, Zenon DEF Run
<1>3. \A code \in {OPTION_SUBNET_MASK, OPTION_ROUTER,
                   OPTION_IP_ADDRESS_LEASE_TIME, OPTION_IP_T1_RENEWAL_TIME,
                   OPTION_IP_T2_REBIND_TIME} : code \in Codes /\ Passes(s, code)
  <2>1. \A code \in {OPTION_SUBNET_MASK, OPTION_ROUTER,
                     OPTION_IP_ADDRESS_LEASE_TIME, OPTION_IP_T1_RENEWAL_TIME,
                     OPTION_IP_T2_REBIND_TIME} : code \in Codes
    BY DEF Codes
  <2> QED BY <2>1, CodesDiffer, GroupIdentity, Zenon
<1>4. \A code \in {OPTION_IP_ADDRESS_LEASE_TIME, OPTION_IP_T1_RENEWAL_TIME,
                   OPTION_IP_T2_REBIND_TIME} : Passes(Network, code)
  BY <1>3, CodesDiffer, GroupNetwork, Zenon
<1> HIDE DEF s
<1>5. CASE type = DHCPNAK
  <2>1. Front(type) = s
    BY <1>5, Zenon DEF Front, s
  <2> QED BY <1>1, <1>3, <1>5, <2>1, Zenon DEF FrontRead
<1>6. CASE type # DHCPNAK
  <2>1. Front(type) = s \o Network
    BY <1>6, Zenon DEF Front, s
  <2>2. Run(s \o Network, 39)
    <3>1. 21 + 18 = 39
      OBVIOUS
    <3>2. Run(s \o Network, 21 + 18)
      BY <1>1, <1>2, RunConcat
    <3> QED BY <3>1, <3>2
  <2>3. /\ Reads(s \o Network, OPTION_DHCP_MESSAGE_TYPE, <<type>>)
        /\ Reads(s \o Network, OPTION_DHCP_SERVER_IDENTIFIER,
                 DHCP_SERVER_IP_ADDRESS)
    BY <1>1, <1>2, ReadThenRest, Zenon
  <2>4. /\ Reads(s \o Network, OPTION_SUBNET_MASK, SUBNET_MASK)
        /\ Reads(s \o Network, OPTION_ROUTER, DHCP_SERVER_IP_ADDRESS)
    BY <1>1, <1>2, <1>3, PassThenRead, Zenon
  <2>5. \A code \in {OPTION_IP_ADDRESS_LEASE_TIME, OPTION_IP_T1_RENEWAL_TIME,
                     OPTION_IP_T2_REBIND_TIME} : Passes(s \o Network, code)
    BY <1>1, <1>2, <1>3, <1>4, PassThenPass, Zenon
  <2>6. s \o Network \in Seq(Byte)
    BY <2>2, Zenon DEF Run
  <2> QED BY <1>6, <2>1, <2>2, <2>3, <2>4, <2>5, <2>6, Zenon DEF FrontRead
<1> QED BY <1>5, <1>6, Zenon

\* The lengths of the groups.
LEMMA Lengths ==
  \A n : /\ n = 39 \/ n = 21 => n \in Nat /\ n <= 39 /\ 21 <= n
         /\ n = 18 \/ n = 0 => n <= 18
OBVIOUS

\* A reply holds what the client looks up in it, the times if *msg_type is not
\* that of an INFORM.
LEMMA ReplyIsRead ==
  ASSUME NEW buf, NEW type \in {DHCPOFFER, DHCPACK, DHCPNAK}
  PROVE  /\ ReplyOptions(buf, type) \in Seq(Byte)
         /\ Len(ReplyOptions(buf, type)) <= Longest
         /\ FrontRead(ReplyOptions(buf, type), type)
         /\ type # DHCPNAK /\ MsgType(buf, Front(type)) # DHCPINFORM =>
              TimesRead(ReplyOptions(buf, type))
<1> DEFINE front == Front(type)
           timed == type # DHCPNAK /\ MsgType(buf, front) # DHCPINFORM
           times == IF timed THEN Times ELSE <<>>
           r == ReplyOptions(buf, type)
<1>1. r = (front \o times) \o End
  BY Zenon DEF ReplyOptions, Front, Identity, Network, Times, End
<1>2. type \in 1 .. 8
  BY DEF DHCPOFFER, DHCPACK, DHCPNAK
<1>3. /\ FrontRead(front, type) /\ front \in Seq(Byte)
      /\ Run(front, 39) \/ Run(front, 21)
      /\ \A code \in {OPTION_IP_ADDRESS_LEASE_TIME, OPTION_IP_T1_RENEWAL_TIME,
                      OPTION_IP_T2_REBIND_TIME} : Passes(front, code)
  BY <1>2, FrontIsRead, Zenon DEF FrontRead
<1>4. /\ End \in Seq(Byte) /\ Times \in Seq(Byte) /\ Len(End) = 3
      /\ times \in Seq(Byte) /\ Len(times) <= 18
  <2>1. Run(End, 3) /\ Run(Times, 18) /\ Run(<<>>, 0)
    BY GroupEnd, GroupTimes, Values, Zenon
  <2>2. Run(times, 18) \/ Run(times, 0)
    BY <2>1, Zenon
  <2> HIDE DEF times
  <2>3. /\ End \in Seq(Byte) /\ Times \in Seq(Byte) /\ Len(End) = 3
        /\ times \in Seq(Byte) /\ (Len(times) = 18 \/ Len(times) = 0)
    BY <2>1, <2>2, Zenon DEF Run
  <2>4. Len(times) <= 18
    BY <2>3, Lengths, Zenon
  <2> QED BY <2>3, <2>4, Zenon
<1> HIDE DEF front, times, r, timed
<1>5. /\ front \o times \in Seq(Byte) /\ r \in Seq(Byte)
      /\ Len(front \o times) = Len(front) + Len(times)
      /\ Len((front \o times) \o End) = Len(front \o times) + Len(End)
  <2>1. /\ front \o times \in Seq(Byte)
        /\ Len(front \o times) = Len(front) + Len(times)
    BY <1>3, <1>4, ConcatProperties, Zenon
  <2>2. /\ (front \o times) \o End \in Seq(Byte)
        /\ Len((front \o times) \o End) = Len(front \o times) + Len(End)
    BY <1>4, <2>1, ConcatProperties, Zenon
  <2> QED BY <1>1, <2>1, <2>2, Zenon
<1>6. Len(r) <= Longest
  <2>1. Len(front) \in Nat /\ Len(front) <= 39
    <3>1. Run(front, 39) \/ Run(front, 21)
      BY <1>3, Zenon
    <3>2. Len(front) = 39 \/ Len(front) = 21
      BY <3>1, Zenon DEF Run
    <3> QED BY <3>2, Lengths, Zenon
  <2>2. Len(times) \in Nat
    BY <1>4, LenProperties
  <2> QED BY <1>1, <1>4, <1>5, <2>1, <2>2 DEF Longest
<1>7. FrontRead(r, type)
  BY <1>1, <1>3, <1>4, FrontThenRest, Zenon
<1>8. ASSUME timed PROVE TimesRead(r)
  <2>1. times = Times
    BY <1>8, Zenon DEF times
  <2>2. TimesRead(front \o Times)
    BY <1>3, <1>4, GroupTimes, PassThenRead, Zenon DEF TimesRead
  <2> QED BY <1>1, <1>4, <1>5, <2>1, <2>2, TimesThenRest, Zenon
<1> QED BY <1>5, <1>6, <1>7, <1>8, Zenon DEF r, timed, front

-----------------------------------------------------------------------------
(* A buffer whose front is overwritten.                                       *)

\* A buffer whose front is replaced: the new bytes, then the old ones.
LEMMA OverwriteBytes ==
  ASSUME NEW buf \in Seq(Byte), NEW front \in Seq(Byte), NEW new,
         new = Overwrite(buf, front)
  PROVE  /\ SubSeq(buf, Len(front) + 1, Len(buf)) \in Seq(Byte)
         /\ new = front \o SubSeq(buf, Len(front) + 1, Len(buf))
         /\ new \in Seq(Byte)
         /\ Len(new) = Len(front) \/ Len(new) = Len(buf)
         /\ \A i \in 1 .. Len(front) : At(new, i) = front[i]
         /\ \A i \in Nat : i > Len(front) => At(new, i) = At(buf, i)
<1> DEFINE m == Len(front)
           n == Len(buf)
           rest == SubSeq(buf, m + 1, n)
<1>1. m \in Nat /\ n \in Nat
  BY LenProperties
<1>2. \A i \in m + 1 .. n : buf[i] \in Byte
  BY <1>1, ElementOfSeq
<1>3. /\ rest \in Seq(Byte) /\ Len(rest) = IF m + 1 <= n THEN n - (m + 1) + 1 ELSE 0
      /\ \A i \in 1 .. n - (m + 1) + 1 : rest[i] = buf[(m + 1) + i - 1]
  <2>1. m + 1 \in Int /\ n \in Int
    BY <1>1
  <2> HIDE DEF m, n
  <2> QED BY <1>2, <2>1, SubSeqProperties
<1>4. new = front \o rest
  BY Zenon DEF Overwrite
<1> HIDE DEF rest
<1>5. /\ new \in Seq(Byte) /\ Len(new) = m + Len(rest)
      /\ \A i \in 1 .. (m + Len(rest)) :
           new[i] = IF i <= m THEN front[i] ELSE rest[i - m]
  <2>1. /\ front \o rest \in Seq(Byte) /\ Len(front \o rest) = m + Len(rest)
        /\ \A i \in 1 .. (m + Len(rest)) :
             (front \o rest)[i] = IF i <= m THEN front[i] ELSE rest[i - m]
    BY <1>3, ConcatProperties, Zenon
  <2> QED BY <1>4, <2>1, Zenon
<1> HIDE DEF m, n
<1>6. Len(new) = m \/ Len(new) = n
  BY <1>1, <1>3, <1>5
<1>7. ASSUME NEW i \in 1 .. m PROVE At(new, i) = front[i]
  <2>1. i \in Nat /\ i \in 1 .. (m + Len(rest)) /\ i <= m
    BY <1>1, <1>3
  <2>2. At(new, i) = new[i]
    BY <1>5, <2>1, AtIsByte
  <2> QED BY <1>5, <2>1, <2>2
<1>8. ASSUME NEW i \in Nat, i > m PROVE At(new, i) = At(buf, i)
  <2>1. CASE i <= n
    <3>1. /\ i \in 1 .. (m + Len(rest)) /\ ~(i <= m)
          /\ i - m \in 1 .. n - (m + 1) + 1 /\ (m + 1) + (i - m) - 1 = i
          /\ i \in 1 .. n
      BY <1>1, <1>3, <1>8, <2>1
    <3>2. At(new, i) = new[i] /\ At(buf, i) = buf[i]
      BY <1>5, <3>1, AtIsByte DEF n
    <3>3. new[i] = rest[i - m]
      BY <1>5, <3>1
    <3>4. rest[i - m] = buf[i]
      BY <1>3, <3>1
    <3> QED BY <3>2, <3>3, <3>4, Zenon
  <2>2. CASE ~(i <= n)
    <3>1. i \notin 1 .. n /\ i \notin 1 .. (m + Len(rest))
      BY <1>1, <1>3, <1>8, <2>2
    <3>2. At(new, i) = 0 /\ At(buf, i) = 0
      BY <1>5, <3>1, AtIsByte DEF n
    <3> QED BY <3>2, Zenon
  <2> QED BY <2>1, <2>2
<1> QED BY <1>3, <1>4, <1>5, <1>6, <1>7, <1>8, Zenon DEF m, n, rest

-----------------------------------------------------------------------------
(* *msg_type when the front of the reply is written.                          *)

\* No byte of the front is the type of an INFORM.
NotInform == Byte \ {DHCPINFORM}

\* An option of bytes in S is made of bytes in S.
LEMMA FilledStays ==
  ASSUME NEW S, NEW code \in S, NEW data \in Seq(S), Len(data) \in S
  PROVE  fill_dhcp_option(code, data) \in Seq(S)
<1>1. <<code, Len(data)>> \in Seq(S)
  OBVIOUS
<1>2. <<code, Len(data)>> \o data \in Seq(S)
  BY <1>1, ConcatProperties, Zenon
<1> QED BY <1>2, Zenon DEF fill_dhcp_option

\* Two runs of bytes in S are one.
LEMMA ConcatStays ==
  ASSUME NEW S, NEW s \in Seq(S), NEW u \in Seq(S)
  PROVE  s \o u \in Seq(S)
BY ConcatProperties, Zenon

\* No byte of the front of a reply is DHCPINFORM, wherever *msg_type points
\* into it.
LEMMA FrontHasNoInform ==
  ASSUME NEW type \in {DHCPOFFER, DHCPACK, DHCPNAK}
  PROVE  Front(type) \in Seq(NotInform)
<1>1. /\ OPTION_DHCP_MESSAGE_TYPE \in NotInform
      /\ OPTION_DHCP_SERVER_IDENTIFIER \in NotInform
      /\ OPTION_VENDOR_CLASS_IDENTIFIER \in NotInform
      /\ OPTION_SUBNET_MASK \in NotInform /\ OPTION_ROUTER \in NotInform
      /\ OPTION_DOMAIN_NAME_SERVER \in NotInform
  BY DEF NotInform, Byte, DHCPINFORM, OPTION_DHCP_MESSAGE_TYPE, OPTION_ROUTER,
         OPTION_DHCP_SERVER_IDENTIFIER, OPTION_VENDOR_CLASS_IDENTIFIER,
         OPTION_SUBNET_MASK, OPTION_DOMAIN_NAME_SERVER
<1>2. <<type>> \in Seq(NotInform) /\ Len(<<type>>) \in NotInform
  BY DEF NotInform, Byte, DHCPINFORM, DHCPOFFER, DHCPACK, DHCPNAK
<1>3. /\ DHCP_SERVER_IP_ADDRESS \in Seq(NotInform)
      /\ Len(DHCP_SERVER_IP_ADDRESS) \in NotInform
  BY DEF NotInform, Byte, DHCPINFORM, DHCP_SERVER_IP_ADDRESS
<1>4. SUBNET_MASK \in Seq(NotInform) /\ Len(SUBNET_MASK) \in NotInform
  BY DEF NotInform, Byte, DHCPINFORM, SUBNET_MASK
<1>5. /\ DHCP_SERVER_VENDOR_CLASS_ID \in Seq(NotInform)
      /\ Len(DHCP_SERVER_VENDOR_CLASS_ID) \in NotInform
  BY DEF NotInform, Byte, DHCPINFORM, DHCP_SERVER_VENDOR_CLASS_ID
<1>6. Identity(type) \in Seq(NotInform)
  BY <1>1, <1>2, <1>3, <1>5, FilledStays, ConcatStays, Zenon DEF Identity
<1>7. Network \in Seq(NotInform)
  BY <1>1, <1>3, <1>4, FilledStays, ConcatStays, Zenon DEF Network
<1>8. Identity(type) \o Network \in Seq(NotInform)
  BY <1>6, <1>7, ConcatStays, Zenon
<1> QED BY <1>6, <1>8, Zenon DEF Front

\* What *msg_type has become: a byte of the front, or what it was behind it.
LEMMA MsgTypeOverwritten ==
  ASSUME NEW buf \in Seq(Byte), NEW type \in {DHCPOFFER, DHCPACK, DHCPNAK},
         NEW v \in Nat, v > 0,
         get_dhcp_option(buf, OPTION_DHCP_MESSAGE_TYPE).value = v,
         v <= Len(Front(type)) \/ At(buf, v) # DHCPINFORM
  PROVE  MsgType(buf, Front(type)) # DHCPINFORM
<1> DEFINE front == Front(type)
           new == Overwrite(buf, front)
<1>1. /\ front \in Seq(Byte) /\ Len(front) \in Nat
      /\ v <= Len(front) \/ At(buf, v) # DHCPINFORM
  <2>1. type \in 1 .. 8
    BY DEF DHCPOFFER, DHCPACK, DHCPNAK
  <2>2. Run(front, 39) \/ Run(front, 21)
    BY <2>1, FrontIsRead, Zenon
  <2>3. front \in Seq(Byte) /\ (Len(front) = 39 \/ Len(front) = 21)
    BY <2>2, Zenon DEF Run
  <2>4. v <= Len(front) \/ At(buf, v) # DHCPINFORM
    BY Zenon
  <2> HIDE DEF front
  <2>5. Len(front) \in Nat
    BY <2>3, Lengths, Zenon
  <2> QED BY <2>3, <2>4, <2>5, Zenon
<1>2. /\ \A i \in 1 .. Len(front) : At(new, i) = front[i]
      /\ \A i \in Nat : i > Len(front) => At(new, i) = At(buf, i)
  <2>1. front \in Seq(Byte)
    BY <1>1, Zenon
  <2> HIDE DEF front
  <2> QED BY <2>1, OverwriteBytes
<1>3. \A i \in 1 .. Len(front) : front[i] # DHCPINFORM
  <2>1. front \in Seq(NotInform)
    BY FrontHasNoInform, Zenon
  <2>2. \A i \in 1 .. Len(front) : front[i] \in NotInform
    BY <2>1, ElementOfSeq
  <2> QED BY <2>2, Zenon DEF NotInform
<1> HIDE DEF front, new
<1>4. MsgType(buf, front) = At(new, v)
  BY Zenon DEF MsgType, new
<1>5. CASE v \in 1 .. Len(front)
  <2>1. At(new, v) = front[v] /\ front[v] # DHCPINFORM
    BY <1>2, <1>3, <1>5, Zenon
  <2> QED BY <1>4, <2>1, Zenon DEF front
<1>6. CASE v \notin 1 .. Len(front)
  <2>1. v > Len(front) /\ ~(v <= Len(front))
    BY <1>1, <1>6
  <2>2. At(new, v) = At(buf, v)
    BY <1>2, <2>1, Zenon
  <2>3. At(buf, v) # DHCPINFORM
    BY <1>1, <2>1, Zenon
  <2> QED BY <1>4, <2>2, <2>3, Zenon DEF front
<1> QED BY <1>5, <1>6, Zenon

-----------------------------------------------------------------------------
(* What the client fills in.                                                  *)

\* The option that names the server, option 50, and the two it ends with.
ServerPart(type, s) ==
  IF type \in {DHCPREQUEST, DHCPRELEASE}
  THEN fill_dhcp_option(OPTION_DHCP_SERVER_IDENTIFIER, s) ELSE <<>>
AddressPart(bound, r) ==
  IF bound THEN <<>> ELSE fill_dhcp_option(OPTION_REQUESTED_IP, r)
ListPart(type) ==
  IF type = DHCPRELEASE THEN <<>>
  ELSE fill_dhcp_option(OPTION_PARAMETER_REQUEST_LIST, parameter_req_list)
         \o fill_dhcp_option(OPTION_VENDOR_CLASS_IDENTIFIER,
                             DHCP_CLIENT_VENDOR_CLASS_ID)

\* What the server looks up in a packet of the client.
ClientRead(o, type, bound, r, s) ==
  /\ o \in Seq(Byte)
  /\ Reads(o, OPTION_DHCP_MESSAGE_TYPE, <<type>>)
  /\ type \in {DHCPREQUEST, DHCPRELEASE} =>
       Reads(o, OPTION_DHCP_SERVER_IDENTIFIER, s)
  /\ ~bound => Reads(o, OPTION_REQUESTED_IP, r)

\* What is read of the options of a client is read of what is appended to.
LEMMA ClientThenRest ==
  ASSUME NEW o, NEW type, NEW bound, NEW r, NEW s, NEW u \in Seq(Byte),
         ClientRead(o, type, bound, r, s)
  PROVE  ClientRead(o \o u, type, bound, r, s)
<1>1. o \in Seq(Byte)
  BY Zenon DEF ClientRead
<1>2. o \o u \in Seq(Byte)
  BY <1>1, ConcatStays, Zenon
<1> QED BY <1>1, <1>2, ReadThenRest, Zenon DEF ClientRead

\* A run of at most n bytes.
Within(s, n) == s \in Seq(Byte) /\ n \in Nat /\ Len(s) <= n

\* A length is a bound.
LEMMA RunWithin == ASSUME NEW s, NEW n, Run(s, n) PROVE Within(s, n)
BY DEF Run, Within

\* An option that is left out needs no room.
LEMMA EmptyWithin == ASSUME NEW n \in Nat PROVE Within(<<>>, n)
BY DEF Within

\* Bounds add up.
LEMMA ConcatWithin ==
  ASSUME NEW s, NEW u, NEW m, NEW n, Within(s, m), Within(u, n)
  PROVE  Within(s \o u, m + n)
<1>1. s \in Seq(Byte) /\ u \in Seq(Byte)
  BY Zenon DEF Within
<1>2. s \o u \in Seq(Byte) /\ Len(s \o u) = Len(s) + Len(u)
  BY <1>1, ConcatProperties, Zenon
<1>3. /\ m + n \in Nat /\ Len(s) <= m /\ Len(u) <= n /\ m \in Nat /\ n \in Nat
      /\ Len(s) \in Nat /\ Len(u) \in Nat
  <2>1. m \in Nat /\ n \in Nat /\ Len(s) <= m /\ Len(u) <= n
    BY Zenon DEF Within
  <2>2. Len(s) \in Nat /\ Len(u) \in Nat
    BY <1>1, LenProperties
  <2> QED BY <2>1, <2>2
<1> QED BY <1>2, <1>3 DEF Within

\* The parts of a client's packet: what they hold and how long they can be.
LEMMA ClientParts ==
  ASSUME NEW type \in 1 .. 8, NEW bound \in BOOLEAN, NEW r, NEW s,
         Run(r, 4), Run(s, 4)
  PROVE  /\ Within(fill_dhcp_option(OPTION_DHCP_MESSAGE_TYPE, <<type>>), 3)
         /\ Within(ServerPart(type, s), 6) /\ Within(AddressPart(bound, r), 6)
         /\ Within(ListPart(type), 21)
         /\ Reads(fill_dhcp_option(OPTION_DHCP_MESSAGE_TYPE, <<type>>),
                  OPTION_DHCP_MESSAGE_TYPE, <<type>>)
         /\ \A code \in {OPTION_DHCP_SERVER_IDENTIFIER, OPTION_REQUESTED_IP} :
              Passes(fill_dhcp_option(OPTION_DHCP_MESSAGE_TYPE, <<type>>), code)
         /\ type \in {DHCPREQUEST, DHCPRELEASE} =>
              Reads(ServerPart(type, s), OPTION_DHCP_SERVER_IDENTIFIER, s)
         /\ Passes(ServerPart(type, s), OPTION_REQUESTED_IP)
         /\ ~bound => Reads(AddressPart(bound, r), OPTION_REQUESTED_IP, r)
<1>1. /\ OPTION_DHCP_MESSAGE_TYPE \in Codes
      /\ OPTION_DHCP_SERVER_IDENTIFIER \in Codes
      /\ OPTION_REQUESTED_IP \in Codes
      /\ OPTION_PARAMETER_REQUEST_LIST \in Codes
      /\ OPTION_VENDOR_CLASS_IDENTIFIER \in Codes
  BY DEF Codes
<1>2. Run(<<type>>, 1)
  BY Values, Zenon
<1>3. /\ 1 + 2 = 3 /\ 4 + 2 = 6 /\ (7 + 2) + (10 + 2) = 21
      /\ 6 \in Nat /\ 21 \in Nat
  OBVIOUS
<1>4. /\ Within(fill_dhcp_option(OPTION_DHCP_MESSAGE_TYPE, <<type>>), 3)
      /\ Reads(fill_dhcp_option(OPTION_DHCP_MESSAGE_TYPE, <<type>>),
               OPTION_DHCP_MESSAGE_TYPE, <<type>>)
      /\ \A code \in {OPTION_DHCP_SERVER_IDENTIFIER, OPTION_REQUESTED_IP} :
           Passes(fill_dhcp_option(OPTION_DHCP_MESSAGE_TYPE, <<type>>), code)
  <2> DEFINE x == fill_dhcp_option(OPTION_DHCP_MESSAGE_TYPE, <<type>>)
  <2>1. /\ Run(x, 1 + 2) /\ Reads(x, OPTION_DHCP_MESSAGE_TYPE, <<type>>)
        /\ \A code \in Codes :
             OPTION_DHCP_MESSAGE_TYPE # code => Passes(x, code)
    BY <1>1, <1>2, Small, OneOption, Zenon
  <2> HIDE DEF x
  <2>2. Run(x, 3)
    BY <1>3, <2>1
  <2>3. Within(x, 3)
    BY <2>2, RunWithin, Zenon
  <2> QED BY <1>1, <2>1, <2>3, CodesDiffer, Zenon DEF x
<1>5. /\ Within(ServerPart(type, s), 6)
      /\ type \in {DHCPREQUEST, DHCPRELEASE} =>
           Reads(ServerPart(type, s), OPTION_DHCP_SERVER_IDENTIFIER, s)
      /\ Passes(ServerPart(type, s), OPTION_REQUESTED_IP)
  <2> DEFINE x == fill_dhcp_option(OPTION_DHCP_SERVER_IDENTIFIER, s)
  <2>1. /\ Run(x, 4 + 2) /\ Reads(x, OPTION_DHCP_SERVER_IDENTIFIER, s)
        /\ \A code \in Codes :
             OPTION_DHCP_SERVER_IDENTIFIER # code => Passes(x, code)
    BY <1>1, Small, OneOption, Zenon
  <2> HIDE DEF x
  <2>2. Run(x, 6)
    BY <1>3, <2>1
  <2>3. Within(x, 6) /\ Within(<<>>, 6)
    BY <1>3, <2>2, RunWithin, EmptyWithin, Zenon
  <2> QED BY <1>1, <2>1, <2>3, CodesDiffer, NothingPasses, Zenon
          DEF ServerPart, x
<1>6. /\ Within(AddressPart(bound, r), 6)
      /\ ~bound => Reads(AddressPart(bound, r), OPTION_REQUESTED_IP, r)
  <2> DEFINE x == fill_dhcp_option(OPTION_REQUESTED_IP, r)
  <2>1. Run(x, 4 + 2) /\ Reads(x, OPTION_REQUESTED_IP, r)
    BY <1>1, Small, OneOption, Zenon
  <2> HIDE DEF x
  <2>2. Run(x, 6)
    BY <1>3, <2>1
  <2>3. Within(x, 6) /\ Within(<<>>, 6)
    BY <1>3, <2>2, RunWithin, EmptyWithin, Zenon
  <2> QED BY <2>1, <2>3, Zenon DEF AddressPart, x
<1>7. Within(ListPart(type), 21)
  <2> DEFINE x == fill_dhcp_option(OPTION_PARAMETER_REQUEST_LIST,
                                   parameter_req_list)
             y == fill_dhcp_option(OPTION_VENDOR_CLASS_IDENTIFIER,
                                   DHCP_CLIENT_VENDOR_CLASS_ID)
  <2>1. Run(x, 7 + 2) /\ Run(y, 10 + 2)
    BY <1>1, Small, Values, OneOption, Zenon
  <2> HIDE DEF x, y
  <2>2. Run(x \o y, (7 + 2) + (10 + 2))
    BY <2>1, RunConcat, Zenon
  <2>3. Run(x \o y, 21)
    BY <1>3, <2>2
  <2>4. Within(x \o y, 21) /\ Within(<<>>, 21)
    BY <1>3, <2>3, RunWithin, EmptyWithin, Zenon
  <2> QED BY <2>4, Zenon DEF ListPart, x, y
<1> QED BY <1>4, <1>5, <1>6, <1>7, Zenon

\* c comes first.
Begins(s, c) == s \in Seq(Byte) /\ Len(s) >= 1 /\ s[1] = c

\* An option begins with its code.
LEMMA FilledBegins ==
  ASSUME NEW code \in Byte, NEW data \in Seq(Byte), Len(data) \in Byte
  PROVE  Begins(fill_dhcp_option(code, data), code)
<1> DEFINE s == fill_dhcp_option(code, data)
<1>1. /\ s \in Seq(Byte) /\ Len(data) \in Nat /\ Len(s) = Len(data) + 2
      /\ s[1] = code
  BY OptionBytes
<1> HIDE DEF s
<1>2. Begins(s, code)
  BY <1>1 DEF Begins
<1> QED BY <1>2 DEF s

\* What is appended does not change the beginning.
LEMMA StillBegins ==
  ASSUME NEW s, NEW c, NEW u \in Seq(Byte), Begins(s, c)
  PROVE  Begins(s \o u, c)
<1>1. s \in Seq(Byte) /\ Len(s) >= 1 /\ s[1] = c
  BY Zenon DEF Begins
<1>2. /\ s \o u \in Seq(Byte) /\ Len(s \o u) = Len(s) + Len(u)
      /\ \A i \in 1 .. (Len(s) + Len(u)) :
           (s \o u)[i] = IF i <= Len(s) THEN s[i] ELSE u[i - Len(s)]
  BY <1>1, ConcatProperties, Zenon
<1>3. Len(s) \in Nat /\ Len(u) \in Nat
  BY <1>1, LenProperties
<1>4. (s \o u)[1] = c /\ Len(s \o u) >= 1
  BY <1>1, <1>2, <1>3
<1> QED BY <1>2, <1>4 DEF Begins

\* The first byte of the buffer is that code.
LEMMA BeginsAt ==
  ASSUME NEW s, NEW c, Begins(s, c)
  PROVE  At(s, 1) = c
<1>1. s \in Seq(Byte) /\ Len(s) >= 1 /\ s[1] = c
  BY Zenon DEF Begins
<1>2. 1 \in 1 .. Len(s) /\ 1 \in Nat
  BY <1>1, LenProperties
<1>3. At(s, 1) = s[1]
  BY <1>1, <1>2, AtIsByte
<1> QED BY <1>1, <1>3

\* A packet of the client holds what it means, and begins with option 53.
LEMMA ClientIsRead ==
  ASSUME NEW type \in 1 .. 8, NEW bound \in BOOLEAN, NEW r, NEW s,
         Run(r, 4), Run(s, 4), NEW o, o = ClientOptions(type, bound, r, s)
  PROVE  /\ ClientRead(o, type, bound, r, s)
         /\ Len(o) <= Longest
         /\ At(o, 1) = OPTION_DHCP_MESSAGE_TYPE
<1> DEFINE a == fill_dhcp_option(OPTION_DHCP_MESSAGE_TYPE, <<type>>)
           b == ServerPart(type, s)
           c == AddressPart(bound, r)
           d == ListPart(type)
<1>1. o = (((a \o b) \o c) \o d) \o End
  BY Zenon DEF ClientOptions, ServerPart, AddressPart, ListPart, End
<1>2. /\ Within(a, 3) /\ Within(b, 6) /\ Within(c, 6) /\ Within(d, 21)
      /\ Reads(a, OPTION_DHCP_MESSAGE_TYPE, <<type>>)
      /\ \A code \in {OPTION_DHCP_SERVER_IDENTIFIER, OPTION_REQUESTED_IP} :
           Passes(a, code)
      /\ type \in {DHCPREQUEST, DHCPRELEASE} =>
           Reads(b, OPTION_DHCP_SERVER_IDENTIFIER, s)
      /\ Passes(b, OPTION_REQUESTED_IP)
      /\ ~bound => Reads(c, OPTION_REQUESTED_IP, r)
  BY ClientParts, Zenon
<1>3. /\ a \in Seq(Byte) /\ b \in Seq(Byte) /\ c \in Seq(Byte)
      /\ d \in Seq(Byte) /\ End \in Seq(Byte) /\ Within(End, 3)
  BY <1>2, GroupEnd, RunWithin, Zenon DEF Within
<1>4. Begins(a, OPTION_DHCP_MESSAGE_TYPE)
  <2>1. OPTION_DHCP_MESSAGE_TYPE \in Codes
    BY DEF Codes
  <2>2. OPTION_DHCP_MESSAGE_TYPE \in Byte
    BY <2>1, CodesAreBytes, Zenon
  <2>3. Run(<<type>>, 1)
    BY Values, Zenon
  <2>4. <<type>> \in Seq(Byte) /\ Len(<<type>>) \in Byte
    BY <2>3, Small, Zenon DEF Run
  <2> QED BY <2>2, <2>4, FilledBegins, Zenon
<1> HIDE DEF a, b, c, d
<1>5. /\ a \o b \in Seq(Byte) /\ (a \o b) \o c \in Seq(Byte)
      /\ ((a \o b) \o c) \o d \in Seq(Byte)
      /\ (b \o c) \o (d \o End) \in Seq(Byte)
      /\ b \o c \in Seq(Byte) /\ d \o End \in Seq(Byte)
  BY <1>3, ConcatStays, Zenon
<1>6. ClientRead((a \o b) \o c, type, bound, r, s)
  <2>1. Reads((a \o b) \o c, OPTION_DHCP_MESSAGE_TYPE, <<type>>)
    BY <1>2, <1>3, <1>5, ReadThenRest, Zenon
  <2>2. ASSUME type \in {DHCPREQUEST, DHCPRELEASE}
        PROVE  Reads((a \o b) \o c, OPTION_DHCP_SERVER_IDENTIFIER, s)
    <3>1. Reads(a \o b, OPTION_DHCP_SERVER_IDENTIFIER, s)
      BY <1>2, <1>3, <2>2, PassThenRead, Zenon
    <3> QED BY <1>3, <1>5, <3>1, ReadThenRest, Zenon
  <2>3. ASSUME ~bound PROVE Reads((a \o b) \o c, OPTION_REQUESTED_IP, r)
    <3>1. Passes(a \o b, OPTION_REQUESTED_IP)
      BY <1>2, <1>3, PassThenPass, Zenon
    <3> QED BY <1>2, <1>3, <1>5, <2>3, <3>1, PassThenRead, Zenon
  <2> QED BY <1>5, <2>1, <2>2, <2>3, Zenon DEF ClientRead
<1>7. ClientRead(o, type, bound, r, s)
  BY <1>1, <1>3, <1>5, <1>6, ClientThenRest, Zenon
<1>8. Len(o) <= Longest
  <2>1. Within(o, (((3 + 6) + 6) + 21) + 3)
    BY <1>1, <1>2, <1>3, ConcatWithin, Zenon
  <2>2. Len(o) <= (((3 + 6) + 6) + 21) + 3 /\ o \in Seq(Byte)
    BY <2>1, Zenon DEF Within
  <2>3. Len(o) \in Nat
    BY <2>2, LenProperties
  <2> QED BY <2>2, <2>3 DEF Longest
<1>9. At(o, 1) = OPTION_DHCP_MESSAGE_TYPE
  <2>1. Begins(o, OPTION_DHCP_MESSAGE_TYPE)
    BY <1>1, <1>3, <1>4, StillBegins, Zenon
  <2> QED BY <2>1, BeginsAt, Zenon
<1> QED BY <1>7, <1>8, <1>9, Zenon

-----------------------------------------------------------------------------
(* What is read of a packet and of a reply.                                   *)

\* The walk ends somewhere.
LEMMA WalkInNat ==
  ASSUME NEW buf \in Seq(Byte), NEW code, NEW i \in Nat
  PROVE  Walk(buf, code)[i] \in Nat
<1> DEFINE N == Len(buf) + 1
           walk == Walk(buf, code)
           S == {k \in 0 .. N : walk[N - k] \notin Nat}
<1>1. N \in Nat
  BY LenProperties
<1>2. ASSUME NEW j \in Nat, j >= N PROVE walk[j] = j
  <2>1. j \notin 1 .. Len(buf)
    BY <1>2, LenProperties
  <2>2. At(buf, j) \in {code, 0}
    BY <2>1, AtIsByte
  <2> QED BY <2>2, WalkStep, Zenon
<1>3. \A j \in Nat : walk[j] = j \/ \E to \in Nat : to > j /\ walk[j] = walk[to]
  <2>1. ASSUME NEW j \in Nat
        PROVE  walk[j] = j \/ \E to \in Nat : to > j /\ walk[j] = walk[to]
    <3>1. At(buf, j + 1) \in Nat
      <4>1. j + 1 \in Nat
        OBVIOUS
      <4> QED BY <4>1, AtIsByte, Zenon
    <3>2. j + 2 + At(buf, j + 1) \in Nat /\ j + 2 + At(buf, j + 1) > j
      BY <3>1, Further, Zenon
    <3>3. walk[j] = IF At(buf, j) \in {code, 0} THEN j
                    ELSE walk[j + 2 + At(buf, j + 1)]
      BY WalkStep
    <3> HIDE DEF walk
    <3> QED BY <3>2, <3>3, Zenon
  <2> QED BY <2>1
<1> HIDE DEF walk, N
<1>4. S = {}
  <2>1. SUFFICES ASSUME S # {} PROVE FALSE
    BY Zenon
  <2>2. PICK k \in S : \A j \in S : k <= j
    <3>1. S \subseteq Nat
      OBVIOUS
    <3> HIDE DEF S
    <3> QED BY <2>1, <3>1, FirstNumber
  <2>3. k \in Nat /\ k <= N /\ N - k \in Nat /\ walk[N - k] \notin Nat
    BY <1>1, <2>2
  <2>4. PICK to \in Nat : to > N - k /\ walk[N - k] = walk[to]
    BY <1>3, <2>3
  <2>5. to < N /\ walk[to] \notin Nat
    BY <1>1, <1>2, <2>3, <2>4
  <2>6. N - to \in S /\ N - to < k
    <3>1. N - to \in 0 .. N /\ N - (N - to) = to /\ N - to < k
      BY <1>1, <2>3, <2>4, <2>5
    <3> QED BY <2>5, <3>1
  <2> QED BY <1>1, <2>2, <2>3, <2>6
<1>5. CASE i >= N
  BY <1>2, <1>5 DEF walk
<1>6. CASE ~(i >= N)
  <2>1. N - i \in 0 .. N /\ N - (N - i) = i
    BY <1>1, <1>6
  <2> QED BY <1>4, <2>1 DEF walk
<1> QED BY <1>5, <1>6, Zenon

\* A byte read as option 53 is where *msg_type points.
LEMMA TypeIsAt ==
  ASSUME NEW buf \in Seq(Byte), NEW c \in Byte,
         Read(buf, OPTION_DHCP_MESSAGE_TYPE, 1) = <<c>>
  PROVE  \E v \in Nat :
           /\ v > 0 /\ At(buf, v) = c
           /\ get_dhcp_option(buf, OPTION_DHCP_MESSAGE_TYPE).value = v
<1> DEFINE got == get_dhcp_option(buf, OPTION_DHCP_MESSAGE_TYPE)
           i == Walk(buf, OPTION_DHCP_MESSAGE_TYPE)[1]
<1>1. i \in Nat
  BY WalkInNat
<1>2. got = IF At(buf, i) = 0 THEN [len |-> 0]
            ELSE [len |-> At(buf, i + 1), value |-> i + 2]
  BY Zenon DEF get_dhcp_option
<1> HIDE DEF got, i
<1>3. got.len = 1 /\ [k \in 1 .. 1 |-> At(buf, got.value + k - 1)] = <<c>>
  <2>1. Read(buf, OPTION_DHCP_MESSAGE_TYPE, 1) =
          IF got.len = 1 THEN [k \in 1 .. 1 |-> At(buf, got.value + k - 1)]
          ELSE NoOption
    BY Zenon DEF Read, got
  <2>2. NoOption # <<c>>
    BY OptionAssumption
  <2> QED BY <2>1, <2>2
<1>4. got.value = i + 2
  BY <1>2, <1>3
<1>5. At(buf, got.value + 1 - 1) = c
  <2>1. [k \in 1 .. 1 |-> At(buf, got.value + k - 1)][1] = <<c>>[1]
    BY <1>3, Zenon
  <2> QED BY <2>1
<1>6. got.value \in Nat /\ got.value > 0 /\ got.value + 1 - 1 = got.value
  BY <1>1, <1>4
<1>7. At(buf, got.value) = c
  BY <1>5, <1>6
<1> QED BY <1>6, <1>7 DEF got

\* A value of four bytes.
LEMMA AsRun ==
  ASSUME NEW n \in Nat, NEW r \in [1 .. n -> Byte]
  PROVE  Run(r, n)
<1>1. r \in Seq(Byte) /\ Len(r) = n
  OBVIOUS
<1> QED BY <1>1, Zenon DEF Run

\* A packet p of the client asks for r and names s, as far as it does either.
Meant(p, r, s) ==
  /\ p.type \in {DHCPDISCOVER, DHCPREQUEST, DHCPRELEASE, DHCPINFORM}
  /\ p.bound \in BOOLEAN
  /\ Run(r, 4) /\ Run(s, 4)
  /\ ClientRead(p.options, p.type, p.bound, r, s)
  /\ p.options \in Seq(Byte)
  /\ Len(p.options) <= Longest
  /\ At(p.options, 1) = OPTION_DHCP_MESSAGE_TYPE
  /\ p.requested = IF p.bound THEN NoOption ELSE r
  /\ p.server_id = IF p.type \in {DHCPREQUEST, DHCPRELEASE} THEN s ELSE NoOption
  /\ p.type = DHCPDISCOVER => ~p.bound

\* A packet of dhcp-client.c has an address asked for and a server behind it.
LEMMA OwnIsMeant ==
  ASSUME NEW p \in Packets, p.own
  PROVE  \E r, s : Meant(p, r, s)
<1>1. p \in OwnPackets /\ (p.type = DHCPDISCOVER => ~p.bound)
  BY OptionAssumption, Zenon DEF Packets
<1>2. PICK t \in {DHCPDISCOVER, DHCPREQUEST, DHCPRELEASE, DHCPINFORM},
           b \in BOOLEAN, r \in Requested,
           s \in {DHCP_SERVER_IP_ADDRESS, OtherServer} :
        p = [own |-> TRUE, type |-> t, bound |-> b,
             requested |-> IF b THEN NoOption ELSE r,
             server_id |-> IF t \in {DHCPREQUEST, DHCPRELEASE} THEN s
                           ELSE NoOption,
             options |-> ClientOptions(t, b, r, s)]
  BY <1>1 DEF OwnPackets
<1>3. /\ p.type = t /\ p.bound = b /\ p.options = ClientOptions(t, b, r, s)
      /\ p.requested = (IF b THEN NoOption ELSE r)
      /\ p.server_id = IF t \in {DHCPREQUEST, DHCPRELEASE} THEN s ELSE NoOption
  BY <1>2, Zenon
<1>4. Run(r, 4) /\ Run(s, 4)
  <2>1. 4 \in Nat
    OBVIOUS
  <2>2. r \in [1 .. 4 -> Byte]
    BY OptionAssumption
  <2>3. s = DHCP_SERVER_IP_ADDRESS \/ s \in [1 .. 4 -> Byte]
    BY OptionAssumption, Zenon
  <2>4. Run(r, 4)
    BY <2>1, <2>2, AsRun
  <2>5. ASSUME s \in [1 .. 4 -> Byte] PROVE Run(s, 4)
    BY <2>1, <2>5, AsRun
  <2>6. Run(DHCP_SERVER_IP_ADDRESS, 4)
    BY Values, Zenon
  <2> QED BY <2>3, <2>4, <2>5, <2>6, Zenon
<1>5. t \in 1 .. 8
  BY DEF DHCPDISCOVER, DHCPREQUEST, DHCPRELEASE, DHCPINFORM
<1> DEFINE o == ClientOptions(t, b, r, s)
<1>6. /\ ClientRead(o, t, b, r, s) /\ Len(o) <= Longest
      /\ At(o, 1) = OPTION_DHCP_MESSAGE_TYPE
  BY <1>4, <1>5, ClientIsRead, Zenon
<1>7. o \in Seq(Byte)
  BY <1>6, Zenon DEF ClientRead
<1> HIDE DEF o
<1>8. p.options = o
  BY <1>3, Zenon DEF o
<1>9. Meant(p, r, s)
  BY <1>1, <1>3, <1>4, <1>6, <1>7, <1>8, Zenon DEF Meant
<1> QED BY <1>9, Zenon

\* An option that a run holds is read of a buffer with the run in front.
LEMMA OverwrittenRead ==
  ASSUME NEW code \in Codes, NEW data, NEW n, Run(data, n),
         NEW s \in Seq(Byte), Reads(s, code, data), NEW buf \in Seq(Byte)
  PROVE  Read(Overwrite(buf, s), code, n) = data
<1> DEFINE t == SubSeq(buf, Len(s) + 1, Len(buf))
<1>1. t \in Seq(Byte)
  <2>1. Overwrite(buf, s) = Overwrite(buf, s)
    OBVIOUS
  <2> QED BY OverwriteBytes
<1>2. Overwrite(buf, s) = s \o t
  BY Zenon DEF Overwrite
<1> HIDE DEF t
<1>3. code # 0 /\ data \in Seq(Byte) /\ Len(data) = n
  BY CodesAreBytes, Zenon DEF Run
<1>4. Read(s \o t, code, Len(data)) = data
  BY <1>1, <1>3, ReadIsData
<1> QED BY <1>2, <1>3, <1>4, Zenon

\* The handler has found in p what its sender put there.
FoundAsMeant(read, p) ==
  /\ read.type = <<p.type>>
  /\ read.server_id = p.server_id
  /\ read.requested = p.requested \/ p.type = DHCPRELEASE

\* What a handler reads of a packet of the client.
LEMMA LookupOwn ==
  ASSUME NEW recv \in Seq(Byte), NEW p, NEW r, NEW s, Meant(p, r, s),
         NEW read, read = Lookup(Overwrite(recv, p.options), p)
  PROVE  FoundAsMeant(read, p)
<1> DEFINE buf == Overwrite(recv, p.options)
           type == Read(buf, OPTION_DHCP_MESSAGE_TYPE, 1)
           server == Read(buf, OPTION_DHCP_SERVER_IDENTIFIER, 4)
           address == Read(buf, OPTION_REQUESTED_IP, 4)
           named == IF type \in {<<DHCPREQUEST>>, <<DHCPRELEASE>>}
                    THEN server ELSE NoOption
           asked == IF \/ type = <<DHCPDISCOVER>>
                       \/ /\ type \in {<<DHCPREQUEST>>, <<DHCPINFORM>>}
                          /\ ~p.bound
                    THEN address ELSE NoOption
<1>1. read = [type |-> type, server_id |-> named, requested |-> asked]
  BY Zenon DEF Lookup
<1>2. /\ p.type \in {DHCPDISCOVER, DHCPREQUEST, DHCPRELEASE, DHCPINFORM}
      /\ p.bound \in BOOLEAN /\ Run(r, 4) /\ Run(s, 4)
      /\ p.options \in Seq(Byte)
      /\ Reads(p.options, OPTION_DHCP_MESSAGE_TYPE, <<p.type>>)
      /\ p.type \in {DHCPREQUEST, DHCPRELEASE} =>
           Reads(p.options, OPTION_DHCP_SERVER_IDENTIFIER, s)
      /\ ~p.bound => Reads(p.options, OPTION_REQUESTED_IP, r)
      /\ p.requested = (IF p.bound THEN NoOption ELSE r)
      /\ p.server_id = (IF p.type \in {DHCPREQUEST, DHCPRELEASE} THEN s
                        ELSE NoOption)
      /\ p.type = DHCPDISCOVER => ~p.bound
  BY Zenon DEF Meant, ClientRead
<1>3. /\ OPTION_DHCP_MESSAGE_TYPE \in Codes
      /\ OPTION_DHCP_SERVER_IDENTIFIER \in Codes /\ OPTION_REQUESTED_IP \in Codes
  BY DEF Codes
<1>4. type = <<p.type>>
  <2>1. p.type \in 1 .. 8
    BY <1>2 DEF DHCPDISCOVER, DHCPREQUEST, DHCPRELEASE, DHCPINFORM
  <2>2. Run(<<p.type>>, 1)
    BY <2>1, Values, Zenon
  <2> QED BY <1>2, <1>3, <2>2, OverwrittenRead
<1>5. p.type \in {DHCPREQUEST, DHCPRELEASE} => server = s
  BY <1>2, <1>3, OverwrittenRead
<1>6. ~p.bound => address = r
  BY <1>2, <1>3, OverwrittenRead
<1> HIDE DEF type, server, address, named, asked
<1>7. read.type = type /\ read.server_id = named /\ read.requested = asked
  BY <1>1
<1>8. \A x, y : <<x>> = <<y>> <=> x = y
  OBVIOUS
<1>9. read.server_id = p.server_id
  <2>1. type \in {<<DHCPREQUEST>>, <<DHCPRELEASE>>} <=>
          p.type \in {DHCPREQUEST, DHCPRELEASE}
    BY <1>4, <1>8, Zenon
  <2> QED BY <1>2, <1>5, <1>7, <2>1, Zenon DEF named
<1>10. read.requested = p.requested \/ p.type = DHCPRELEASE
  <2>1. /\ type = <<DHCPDISCOVER>> <=> p.type = DHCPDISCOVER
        /\ type \in {<<DHCPREQUEST>>, <<DHCPINFORM>>} <=>
             p.type \in {DHCPREQUEST, DHCPINFORM}
    BY <1>4, <1>8, Zenon
  <2> QED BY <1>2, <1>6, <1>7, <2>1, Zenon DEF asked
<1> QED BY <1>4, <1>7, <1>9, <1>10, Zenon DEF FoundAsMeant

\* A reply answers one of three types.
LEMMA AnswerTypes ==
  ASSUME NEW read, NEW st \in Answers(read)
  PROVE  \/ st = 0
         \/ /\ st \in {DHCPOFFER, DHCPACK, DHCPNAK}
            /\ read.type \in {<<DHCPDISCOVER>>, <<DHCPREQUEST>>, <<DHCPINFORM>>}
<1>1. CASE read.type = <<DHCPDISCOVER>>
  BY <1>1 DEF Answers
<1>2. CASE /\ read.type # <<DHCPDISCOVER>>
           /\ read.type = <<DHCPREQUEST>>
           /\ read.server_id = DHCP_SERVER_IP_ADDRESS
  <2>1. Answers(read) = {DHCPACK, DHCPNAK}
    BY <1>2 DEF Answers, DHCPDISCOVER, DHCPREQUEST, DHCPINFORM
  <2> QED BY <1>2, <2>1
<1>3. CASE /\ read.type # <<DHCPDISCOVER>>
           /\ ~(read.type = <<DHCPREQUEST>>
                  /\ read.server_id = DHCP_SERVER_IP_ADDRESS)
           /\ read.type = <<DHCPINFORM>>
  BY <1>3 DEF Answers
<1>4. CASE /\ read.type # <<DHCPDISCOVER>>
           /\ ~(read.type = <<DHCPREQUEST>>
                  /\ read.server_id = DHCP_SERVER_IP_ADDRESS)
           /\ read.type # <<DHCPINFORM>>
  BY <1>4 DEF Answers
<1> QED BY <1>1, <1>2, <1>3, <1>4, Zenon

\* A reply of type st to a packet of type read grants a lease.
GrantsOf(st, type) == st # DHCPNAK /\ type # <<DHCPINFORM>>

\* All that the client looks up in that reply.
Answered(r, st, type) ==
  FrontRead(r, st) /\ (GrantsOf(st, type) => TimesRead(r))

\* The type of a packet that asks for a lease is not DHCPINFORM, and neither is
\* any byte of the front of the reply that may lie over it.
LEMMA ReplyIsAnswered ==
  ASSUME NEW buf \in Seq(Byte), NEW p, NEW read, read = Lookup(buf, p),
         NEW st \in Answers(read), st # 0
  PROVE  Answered(ReplyOptions(buf, st), st, read.type)
<1>1. /\ st \in {DHCPOFFER, DHCPACK, DHCPNAK}
      /\ read.type \in {<<DHCPDISCOVER>>, <<DHCPREQUEST>>, <<DHCPINFORM>>}
  BY AnswerTypes, Zenon
<1>2. read.type = Read(buf, OPTION_DHCP_MESSAGE_TYPE, 1)
  BY DEF Lookup
<1>3. ASSUME read.type # <<DHCPINFORM>>
      PROVE  MsgType(buf, Front(st)) # DHCPINFORM
  <2>1. PICK c \in {DHCPDISCOVER, DHCPREQUEST} : read.type = <<c>>
    BY <1>1, <1>3, Zenon
  <2>2. c \in Byte /\ c # DHCPINFORM
    BY DEF Byte, DHCPDISCOVER, DHCPREQUEST, DHCPINFORM
  <2>3. PICK v \in Nat :
          /\ v > 0 /\ At(buf, v) = c
          /\ get_dhcp_option(buf, OPTION_DHCP_MESSAGE_TYPE).value = v
    <3>1. Read(buf, OPTION_DHCP_MESSAGE_TYPE, 1) = <<c>>
      BY <1>2, <2>1, Zenon
    <3> QED BY <2>2, <3>1, TypeIsAt, Zenon
  <2>4. At(buf, v) # DHCPINFORM
    BY <2>2, <2>3
  <2> QED BY <1>1, <2>3, <2>4, MsgTypeOverwritten
<1>4. /\ FrontRead(ReplyOptions(buf, st), st)
      /\ GrantsOf(st, read.type) => TimesRead(ReplyOptions(buf, st))
  BY <1>1, <1>3, ReplyIsRead, Zenon DEF GrantsOf
<1> QED BY <1>4, Zenon DEF Answered

\* What dhcp-client.c looks up in a reply of type st to a packet of some type.
ExpectedOf(st, type) ==
  {<<OPTION_DHCP_MESSAGE_TYPE, <<st>>>>,
   <<OPTION_DHCP_SERVER_IDENTIFIER, DHCP_SERVER_IP_ADDRESS>>}
  \cup (IF st = DHCPNAK THEN {} ELSE
    {<<OPTION_SUBNET_MASK, SUBNET_MASK>>,
     <<OPTION_ROUTER, DHCP_SERVER_IP_ADDRESS>>})
  \cup (IF ~GrantsOf(st, type) THEN {} ELSE
    {<<OPTION_IP_ADDRESS_LEASE_TIME, IP_ADDRESS_LEASE_TIME>>,
     <<OPTION_IP_T1_RENEWAL_TIME, T1_RENEWAL_TIME>>,
     <<OPTION_IP_T2_REBIND_TIME, T2_REBIND_TIME>>})

\* Every option the client looks up in a reply is read back, whatever is behind
\* it.
LEMMA AnsweredReadBack ==
  ASSUME NEW st \in 1 .. 8, NEW type, NEW r, Answered(r, st, type),
         NEW junk \in Seq(Byte), NEW e \in ExpectedOf(st, type)
  PROVE  Read(Overwrite(junk, r), e[1], Len(e[2])) = e[2]
<1> DEFINE Held(x) ==
             \E n : x[1] \in Codes /\ Run(x[2], n) /\ Reads(r, x[1], x[2])
<1>1. Held(e)
  <2>1. /\ OPTION_DHCP_MESSAGE_TYPE \in Codes
        /\ OPTION_DHCP_SERVER_IDENTIFIER \in Codes
        /\ OPTION_SUBNET_MASK \in Codes /\ OPTION_ROUTER \in Codes
        /\ OPTION_IP_ADDRESS_LEASE_TIME \in Codes
        /\ OPTION_IP_T1_RENEWAL_TIME \in Codes
        /\ OPTION_IP_T2_REBIND_TIME \in Codes
    BY DEF Codes
  <2>2. /\ Run(<<st>>, 1) /\ Run(DHCP_SERVER_IP_ADDRESS, 4)
        /\ Run(SUBNET_MASK, 4) /\ Run(IP_ADDRESS_LEASE_TIME, 4)
        /\ Run(T1_RENEWAL_TIME, 4) /\ Run(T2_REBIND_TIME, 4)
    BY Values, Zenon
  <2>3. ASSUME NEW c \in Codes, NEW d, NEW n, Run(d, n), Reads(r, c, d)
        PROVE  Held(<<c, d>>)
    <3>1. <<c, d>>[1] = c /\ <<c, d>>[2] = d
      OBVIOUS
    <3> QED BY <2>3, <3>1
  <2> HIDE DEF Held
  <2>4. CASE e \in {<<OPTION_DHCP_MESSAGE_TYPE, <<st>>>>,
                    <<OPTION_DHCP_SERVER_IDENTIFIER, DHCP_SERVER_IP_ADDRESS>>}
    <3>1. /\ Reads(r, OPTION_DHCP_MESSAGE_TYPE, <<st>>)
          /\ Reads(r, OPTION_DHCP_SERVER_IDENTIFIER, DHCP_SERVER_IP_ADDRESS)
      BY Zenon DEF Answered, FrontRead
    <3> QED BY <2>1, <2>2, <2>3, <2>4, <3>1, Zenon
  <2>5. CASE st # DHCPNAK
             /\ e \in {<<OPTION_SUBNET_MASK, SUBNET_MASK>>,
                       <<OPTION_ROUTER, DHCP_SERVER_IP_ADDRESS>>}
    <3>1. /\ Reads(r, OPTION_SUBNET_MASK, SUBNET_MASK)
          /\ Reads(r, OPTION_ROUTER, DHCP_SERVER_IP_ADDRESS)
      BY <2>5, Zenon DEF Answered, FrontRead
    <3> QED BY <2>1, <2>2, <2>3, <2>5, <3>1, Zenon
  <2>6. CASE GrantsOf(st, type)
             /\ e \in {<<OPTION_IP_ADDRESS_LEASE_TIME, IP_ADDRESS_LEASE_TIME>>,
                       <<OPTION_IP_T1_RENEWAL_TIME, T1_RENEWAL_TIME>>,
                       <<OPTION_IP_T2_REBIND_TIME, T2_REBIND_TIME>>}
    <3>1. /\ Reads(r, OPTION_IP_ADDRESS_LEASE_TIME, IP_ADDRESS_LEASE_TIME)
          /\ Reads(r, OPTION_IP_T1_RENEWAL_TIME, T1_RENEWAL_TIME)
          /\ Reads(r, OPTION_IP_T2_REBIND_TIME, T2_REBIND_TIME)
      BY <2>6, Zenon DEF Answered, TimesRead
    <3> QED BY <2>1, <2>2, <2>3, <2>6, <3>1, Zenon
  <2>7. \/ e \in {<<OPTION_DHCP_MESSAGE_TYPE, <<st>>>>,
                  <<OPTION_DHCP_SERVER_IDENTIFIER, DHCP_SERVER_IP_ADDRESS>>}
        \/ /\ st # DHCPNAK
           /\ e \in {<<OPTION_SUBNET_MASK, SUBNET_MASK>>,
                     <<OPTION_ROUTER, DHCP_SERVER_IP_ADDRESS>>}
        \/ /\ GrantsOf(st, type)
           /\ e \in {<<OPTION_IP_ADDRESS_LEASE_TIME, IP_ADDRESS_LEASE_TIME>>,
                     <<OPTION_IP_T1_RENEWAL_TIME, T1_RENEWAL_TIME>>,
                     <<OPTION_IP_T2_REBIND_TIME, T2_REBIND_TIME>>}
    BY Zenon DEF ExpectedOf
  <2> QED BY <2>4, <2>5, <2>6, <2>7, Zenon
<1>2. PICK n : e[1] \in Codes /\ Run(e[2], n) /\ Reads(r, e[1], e[2])
  BY <1>1, Zenon
<1>3. r \in Seq(Byte)
  BY Zenon DEF Answered, FrontRead
<1>4. Read(Overwrite(junk, r), e[1], n) = e[2]
  BY <1>2, <1>3, OverwrittenRead
<1> QED BY <1>2, <1>4, Zenon DEF Run

-----------------------------------------------------------------------------
(* The theorems.                                                              *)

\* What every state the server is in between two packets satisfies.
OptionInv ==
  /\ TypeOK
  /\ PacketReadBack
  /\ ReplyReadBack

\* The server begins with an empty buffer.
LEMMA InitialOptions == Init => OptionInv
<1> SUFFICES ASSUME Init PROVE OptionInv
  OBVIOUS
<1>1. TypeOK
  <2>1. Len(dhcp_recv) <= Longest
    BY DEF Init, Longest
  <2> QED BY <2>1 DEF Init, TypeOK
<1>2. PacketReadBack
  BY DEF Init, PacketReadBack, NoPacket
<1>3. ReplyReadBack
  BY DEF Init, ReplyReadBack
<1> QED BY <1>1, <1>2, <1>3 DEF OptionInv

\* A length TypeOK allows.
Fits(n) == n <= Longest \/ \E q \in Foreign : n <= Len(q.options)

\* A datagram is no longer than the bound on the buffer.
LEMMA PacketFits ==
  ASSUME NEW p \in Packets
  PROVE  p.options \in Seq(Byte) /\ Fits(Len(p.options))
<1>1. CASE p.own
  <2>1. PICK r, s : Meant(p, r, s)
    BY <1>1, OwnIsMeant, Zenon
  <2> QED BY <2>1, Zenon DEF Meant, Fits
<1>2. CASE ~p.own
  <2>1. p \in Foreign
    <3>1. ASSUME p \in OwnPackets PROVE FALSE
      BY <1>2, <3>1 DEF OwnPackets
    <3> QED BY <3>1, Zenon DEF Packets
  <2>2. p.options \in Seq(Byte)
    BY <2>1, OptionAssumption, Zenon
  <2>3. Len(p.options) \in Nat
    BY <2>2, LenProperties
  <2>4. Len(p.options) <= Len(p.options)
    BY <2>3
  <2> QED BY <2>1, <2>2, <2>4, Zenon DEF Fits
<1> QED BY <1>1, <1>2, Zenon

\* Writing over the front keeps a buffer of bytes within its bound.
LEMMA OverwriteFits ==
  ASSUME NEW buf \in Seq(Byte), Fits(Len(buf)),
         NEW front \in Seq(Byte), Fits(Len(front))
  PROVE  Overwrite(buf, front) \in Seq(Byte) /\ Fits(Len(Overwrite(buf, front)))
<1> DEFINE new == Overwrite(buf, front)
<1>1. new \in Seq(Byte) /\ (Len(new) = Len(front) \/ Len(new) = Len(buf))
  BY OverwriteBytes
<1> HIDE DEF new
<1>2. Fits(Len(new))
  BY <1>1, Zenon
<1> QED BY <1>1, <1>2, Zenon DEF new

\* One round of the server's loop preserves the invariant.
LEMMA ReceiveKeeps ==
  ASSUME OptionInv, NEW p \in Packets, Receive(p)
  PROVE  OptionInv'
<1> DEFINE buf == Overwrite(dhcp_recv, p.options)
<1>1. dhcp_recv \in Seq(Byte) /\ Fits(Len(dhcp_recv))
  BY Zenon DEF OptionInv, TypeOK, Fits
<1>2. p.options \in Seq(Byte) /\ Fits(Len(p.options))
  BY PacketFits, Zenon
<1>3. buf \in Seq(Byte) /\ Fits(Len(buf))
  BY <1>1, <1>2, OverwriteFits, Zenon
<1> HIDE DEF buf
<1>4. /\ packet' = p /\ found' = Lookup(buf, p) /\ state' \in Answers(found')
      /\ \/ state' = 0 /\ reply' = <<>> /\ dhcp_recv' = buf
         \/ /\ state' # 0
            /\ reply' = ReplyOptions(buf, state')
            /\ dhcp_recv' = Overwrite(buf, reply')
  BY Zenon DEF Receive, buf
<1>5. state' = 0 \/ state' \in {DHCPOFFER, DHCPACK, DHCPNAK}
  BY <1>4, AnswerTypes, Zenon
<1>6. TypeOK'
  <2>1. CASE state' = 0
    <3>1. reply' = <<>> /\ dhcp_recv' = buf
      BY <1>4, <2>1, Zenon
    <3>2. <<>> \in Seq(Byte)
      OBVIOUS
    <3> QED BY <1>3, <1>4, <2>1, <3>1, <3>2, Zenon DEF TypeOK, Fits
  <2>2. CASE state' # 0
    <3> DEFINE r == ReplyOptions(buf, state')
    <3>1. reply' = r /\ dhcp_recv' = Overwrite(buf, r)
      BY <1>4, <2>2, Zenon
    <3>2. r \in Seq(Byte) /\ Len(r) <= Longest
      BY <1>5, <2>2, ReplyIsRead, Zenon
    <3> HIDE DEF r
    <3>3. Overwrite(buf, r) \in Seq(Byte) /\ Fits(Len(Overwrite(buf, r)))
      <4>1. Fits(Len(r))
        BY <3>2, Zenon DEF Fits
      <4> QED BY <1>3, <3>2, <4>1, OverwriteFits, Zenon
    <3>4. dhcp_recv' \in Seq(Byte) /\ Fits(Len(dhcp_recv'))
      BY <3>1, <3>3, Zenon
    <3> QED BY <1>4, <1>5, <2>2, <3>1, <3>2, <3>4, Zenon DEF TypeOK, Fits
  <2> QED BY <2>1, <2>2, Zenon
<1>7. PacketReadBack'
  <2>1. SUFFICES ASSUME p.own PROVE FoundAsMeant(found', p)
    BY <1>4, Zenon DEF PacketReadBack, FoundAsMeant
  <2>2. PICK r, s : Meant(p, r, s)
    BY <2>1, OwnIsMeant, Zenon
  <2>3. found' = Lookup(Overwrite(dhcp_recv, p.options), p)
    BY <1>4, Zenon DEF buf
  <2> QED BY <1>1, <2>2, <2>3, LookupOwn, Zenon
<1>8. ReplyReadBack'
  <2>1. SUFFICES ASSUME state' # 0,
                        NEW junk \in Garbage, NEW e \in Expected'
                 PROVE  Read(Overwrite(junk, reply'), e[1], Len(e[2])) = e[2]
    BY Zenon DEF ReplyReadBack
  <2>2. found' = Lookup(buf, p) /\ state' \in Answers(found')
    BY <1>4, Zenon
  <2>3. Answered(reply', state', found'.type)
    <3>1. Answered(ReplyOptions(buf, state'), state', found'.type)
      BY <1>3, <2>1, <2>2, ReplyIsAnswered
    <3> QED BY <1>4, <2>1, <3>1, Zenon
  <2>4. e \in ExpectedOf(state', found'.type)
    BY <2>1, Zenon DEF Expected, ExpectedOf, Grants, GrantsOf
  <2>5. state' \in 1 .. 8
    BY <1>5, <2>1 DEF DHCPOFFER, DHCPACK, DHCPNAK
  <2>6. junk \in Seq(Byte)
    BY <2>1, OptionAssumption, Zenon
  <2> QED BY <2>3, <2>4, <2>5, <2>6, AnsweredReadBack
<1> QED BY <1>6, <1>7, <1>8, Zenon DEF OptionInv

\* So does every step.
LEMMA OptionStep == OptionInv /\ [Next]_vars => OptionInv'
<1>1. ASSUME OptionInv, Next PROVE OptionInv'
  BY <1>1, ReceiveKeeps, Zenon DEF Next
<1>2. ASSUME OptionInv, UNCHANGED vars PROVE OptionInv'
  BY <1>2, Zenon DEF vars, OptionInv, TypeOK, PacketReadBack, ReplyReadBack,
                     Expected, Grants
<1> QED BY <1>1, <1>2

\* Every variable keeps its type, and the server's buffer never grows past the
\* longest run of options a program sends.
THEOREM OptionTypeCorrect == Spec => []TypeOK
<1>1. OptionInv => TypeOK
  BY DEF OptionInv
<1> QED BY InitialOptions, OptionStep, <1>1, PTL DEF Spec

\* What the handlers look up in a packet of dhcp-client.c is what it says,
\* whatever the buffer held before: the walk of get_dhcp_option ends inside it.
THEOREM PacketsReadBack == Spec => []PacketReadBack
<1>1. OptionInv => PacketReadBack
  BY DEF OptionInv
<1> QED BY InitialOptions, OptionStep, <1>1, PTL DEF Spec

\* What dhcp-client.c looks up in a reply is what the server filled in, whatever
\* is in its buffer behind the reply and whatever packet, its own or another
\* program's, the reply was built over: *msg_type, read under the front of the
\* reply, never takes the lease times from an OFFER or the ACK of a REQUEST.
THEOREM RepliesReadBack == Spec => []ReplyReadBack
<1>1. OptionInv => ReplyReadBack
  BY DEF OptionInv
<1> QED BY InitialOptions, OptionStep, <1>1, PTL DEF Spec
=============================================================================
