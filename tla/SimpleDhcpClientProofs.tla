----------------------- MODULE SimpleDhcpClientProofs -----------------------
(***************************************************************************)
(* Proofs about in_cksum and SimpleDhcpClient, for every sequence of bytes *)
(* whose sum an int holds, every hardware address and whatever is behind   *)
(* it on the stack.                                                        *)
(***************************************************************************)
EXTENDS SimpleDhcpClient, SequenceTheorems, WellFoundedInduction, TLAPS

\* A set of numbers has a first one: how the recursion of Total is followed
\* without an operator for a parameter.
LEMMA FirstNumber ==
  ASSUME NEW S, S \subseteq Nat, S # {}
  PROVE  \E i \in S : \A j \in S : i <= j
<1>1. PICK i \in S : \A j \in S : ~(<<j, i>> \in OpToRel(<, Nat))
  BY NatLessThanWellFounded, WFMin
<1>2. ASSUME NEW j \in S PROVE i <= j
  <2>1. <<j, i>> \notin OpToRel(<, Nat)
    BY <1>1
  <2>2. i \in Nat /\ j \in Nat
    OBVIOUS
  <2>3. ~(j < i)
    BY <2>1, <2>2 DEF OpToRel
  <2> QED BY <2>2, <2>3
<1> QED BY <1>2

\* What the definition of add in Total asks of f.
Adds(f, n, words) ==
  f = [i \in 0 .. n |-> IF i = 0 THEN 0 ELSE f[i - 1] + words[i]]

\* There is such a function: for no words, and for one more word if for all
\* before it.
LEMMA AddExists ==
  ASSUME NEW n \in Nat, NEW words
  PROVE  \E f : Adds(f, n, words)
<1> DEFINE S == {k \in 0 .. n : ~ \E f : Adds(f, k, words)}
<1>1. SUFFICES ASSUME S # {} PROVE FALSE
  OBVIOUS
<1>2. PICK k \in S : \A j \in S : k <= j
  <2>1. S \subseteq Nat
    OBVIOUS
  <2> HIDE DEF S
  <2> QED BY <1>1, <2>1, FirstNumber
<1>3. k \in Nat /\ k <= n /\ ~ \E f : Adds(f, k, words)
  BY <1>2
<1>4. CASE k = 0
  <2>1. Adds([i \in 0 .. 0 |-> 0], 0, words)
    BY DEF Adds
  <2> QED BY <1>3, <1>4, <2>1
<1>5. CASE k # 0
  <2>1. k - 1 \notin S /\ k - 1 \in 0 .. n
    BY <1>2, <1>3, <1>5
  <2>2. PICK f : Adds(f, k - 1, words)
    BY <2>1
  <2> DEFINE g == [i \in 0 .. k |-> IF i = k THEN f[k - 1] + words[k] ELSE f[i]]
  <2>3. ASSUME NEW i \in 0 .. k
        PROVE  g[i] = IF i = 0 THEN 0 ELSE g[i - 1] + words[i]
    <3>1. CASE i = k
      BY <3>1, <1>3, <1>5
    <3>2. CASE i # k
      <4>1. i \in 0 .. (k - 1)
        BY <3>2, <1>3
      <4>2. f[i] = IF i = 0 THEN 0 ELSE f[i - 1] + words[i]
        BY <2>2, <4>1 DEF Adds
      <4> QED BY <3>2, <4>1, <4>2, <1>3
    <3> QED BY <3>1, <3>2
  <2>4. g = [i \in 0 .. k |-> IF i = 0 THEN 0 ELSE g[i - 1] + words[i]]
    BY <2>3
  <2>5. Adds(g, k, words)
    BY <2>4 DEF Adds
  <2> QED BY <1>3, <2>5
<1> QED BY <1>4, <1>5

\* Total adds up its words one after the other.
LEMMA TotalAdds ==
  ASSUME NEW words, Len(words) \in Nat
  PROVE  \E f : /\ Total(words) = f[Len(words)]
                /\ f[0] = 0
                /\ \A i \in 1 .. Len(words) : f[i] = f[i - 1] + words[i]
<1> DEFINE f == CHOOSE g : Adds(g, Len(words), words)
<1>1. Adds(f, Len(words), words)
  BY AddExists, Zenon
<1>2. Total(words) = f[Len(words)]
  BY DEF Total, Adds
<1> HIDE DEF f
<1>3. f[0] = 0 /\ \A i \in 1 .. Len(words) : f[i] = f[i - 1] + words[i]
  BY <1>1 DEF Adds
<1> QED BY <1>2, <1>3

-----------------------------------------------------------------------------
(* in_cksum.  Ones and Fits keep large numbers from the provers that count    *)
(* by successors.                                                             *)

Ones == 65535
Word16(n) == n \in Int /\ 0 <= n /\ n <= Ones
Fits(n) == n \in Int /\ 0 <= n /\ n <= 2147483647

\* The second fold.
Folded(o) == (o + o \div 65536) % 65536

\* The halves of a sum.
LEMMA Halves ==
  ASSUME NEW s, Fits(s)
  PROVE  \E h \in Int, l \in Int :
           /\ Word16(h) /\ Word16(l)
           /\ s = (h + l) + Ones * h
           /\ Fold(s) = Folded(h + l)
<1>1. /\ (s \div 65536) \in Int /\ (s % 65536) \in Int
      /\ Word16(s \div 65536) /\ Word16(s % 65536)
      /\ s = ((s \div 65536) + (s % 65536)) + Ones * (s \div 65536)
  BY SMT DEF Fits, Word16, Ones
<1>2. Fold(s) = Folded((s \div 65536) + (s % 65536))
  BY SMT DEF Fold, Folded
<1> QED BY <1>1, <1>2, SMT

\* Folding the carry of two words once more into their sum.
LEMMA FoldedOnce ==
  ASSUME NEW o \in Int, 0 <= o, o <= Ones + Ones
  PROVE  Word16(Folded(o)) /\ (Folded(o) = o \/ Folded(o) = o - Ones)
<1>1. CASE o < 65536
  <2>1. Folded(o) = o
    BY <1>1, SMT DEF Folded
  <2> QED BY <2>1, <1>1, SMT DEF Word16, Ones
<1>2. CASE 65536 <= o
  <2>1. Folded(o) = o - 65535
    BY <1>2, SMT DEF Ones, Folded
  <2> QED BY <2>1, <1>2, SMT DEF Word16, Ones
<1> QED BY <1>1, <1>2, SMT

\* The two folds keep the sum modulo 65535.
LEMMA FoldKeepsResidue ==
  ASSUME NEW s, Fits(s)
  PROVE  Word16(Fold(s)) /\ \E q \in Nat : s = Fold(s) + Ones * q
<1>1. PICK h \in Int, l \in Int :
        /\ Word16(h) /\ Word16(l)
        /\ s = (h + l) + Ones * h
        /\ Fold(s) = Folded(h + l)
  BY Halves, Zenon
<1>2. PICK o \in Int : o = h + l
  BY SMT
<1>3. Fold(s) = Folded(o)
  BY <1>1, <1>2, Zenon
<1>4. 0 <= o /\ o <= Ones + Ones
  BY <1>1, <1>2, SMT DEF Word16, Ones
<1>5. Word16(Fold(s)) /\ (Fold(s) = o \/ Fold(s) = o - Ones)
  BY <1>3, <1>4, FoldedOnce, SMT
<1>6. CASE Fold(s) = o
  <2>1. s = Fold(s) + Ones * h /\ h \in Nat
    BY <1>1, <1>2, <1>6, SMT DEF Word16, Ones
  <2> QED BY <1>5, <2>1, Zenon
<1>7. CASE Fold(s) = o - Ones
  <2>1. s = Fold(s) + Ones * (h + 1) /\ h + 1 \in Nat
    BY <1>1, <1>2, <1>7, SMT DEF Word16, Ones
  <2> QED BY <1>5, <2>1, Zenon
<1> QED BY <1>5, <1>6, <1>7, Zenon

\* A word of two bytes as the machine and as the network has it.
MachineWord(low, high) == low + 256 * high
NetworkWord(low, high) == 256 * low + high

\* f and g are the sums of the same n words as the machine has them and as the
\* network has them: 256 f is g but for multiples of 65535, and f is nought if
\* g is.
SameSums(f, g, k, n) ==
  /\ f \in Nat /\ g \in Nat /\ k \in Nat
  /\ f <= Ones * n
  /\ f <= 256 * g
  /\ 256 * f = g + Ones * k

\* One word more.
LEMMA NextWord ==
  ASSUME NEW f, NEW g, NEW k, NEW n \in Nat,
         NEW low \in Byte, NEW high \in Byte,
         SameSums(f, g, k, n - 1)
  PROVE  SameSums(f + MachineWord(low, high), g + NetworkWord(low, high),
                  k + high, n)
BY SMT DEF SameSums, Ones, Byte, MachineWord, NetworkWord

\* All words.
LEMMA AllWords ==
  ASSUME NEW n \in Nat, NEW f, NEW g,
         NEW low \in [1 .. n -> Byte], NEW high \in [1 .. n -> Byte],
         f[0] = 0, g[0] = 0,
         \A i \in 1 .. n : f[i] = f[i - 1] + MachineWord(low[i], high[i]),
         \A i \in 1 .. n : g[i] = g[i - 1] + NetworkWord(low[i], high[i])
  PROVE  \E k : SameSums(f[n], g[n], k, n)
<1> DEFINE P(i) == \E k : SameSums(f[i], g[i], k, i)
           S == {i \in 0 .. n : ~P(i)}
<1>1. SUFFICES ASSUME S # {} PROVE FALSE
  OBVIOUS
<1>2. PICK i \in S : \A j \in S : i <= j
  <2>1. S \subseteq Nat
    OBVIOUS
  <2> HIDE DEF S
  <2> QED BY <1>1, <2>1, FirstNumber
<1>3. i \in Nat /\ i <= n /\ ~P(i)
  BY <1>2
<1>4. i # 0
  <2>1. SameSums(f[0], g[0], 0, 0)
    BY DEF SameSums, Ones
  <2> QED BY <2>1, <1>3
<1>5. i - 1 \notin S /\ i - 1 \in 0 .. n /\ i \in 1 .. n
  BY <1>2, <1>3, <1>4, SMTT(30)
<1>6. PICK k : SameSums(f[i - 1], g[i - 1], k, i - 1)
  BY <1>5
<1>7. low[i] \in Byte /\ high[i] \in Byte
  BY <1>5
<1>8. SameSums(f[i - 1] + MachineWord(low[i], high[i]),
               g[i - 1] + NetworkWord(low[i], high[i]), k + high[i], i)
  BY <1>3, <1>6, <1>7, NextWord, Zenon
<1>9. /\ f[i] = f[i - 1] + MachineWord(low[i], high[i])
      /\ g[i] = g[i - 1] + NetworkWord(low[i], high[i])
  BY <1>5, Zenon
<1> QED BY <1>3, <1>8, <1>9, Zenon

\* The sum of in_cksum and its complement, in either order of the bytes, are
\* all ones.
LEMMA SumAndChecksum ==
  ASSUME NEW f, NEW g, NEW k, NEW n, SameSums(f, g, k, n), Fits(f)
  PROVE  LET c == 65535 - Fold(f) IN
         /\ (c % 256) \in Byte /\ (c \div 256) \in Byte
         /\ OnesSum(g + NetworkWord(c % 256, c \div 256)) = 65535
<1>1. PICK q \in Nat : Word16(Fold(f)) /\ f = Fold(f) + Ones * q
  BY FoldKeepsResidue, Zenon
<1>2. PICK c \in Int : c = 65535 - Fold(f)
  BY <1>1, SMT DEF Word16
<1>3. Word16(c) /\ f + c = Ones + Ones * q
  BY <1>1, <1>2, SMT DEF Word16, Ones
<1>4. /\ (c % 256) \in Byte /\ (c \div 256) \in Byte
      /\ c = (c % 256) + 256 * (c \div 256)
  BY <1>3, SMT DEF Word16, Ones, Byte
<1>5. PICK low \in Int, high \in Int : low = c % 256 /\ high = c \div 256
  BY <1>4, SMT DEF Byte
<1>6. /\ 0 <= low /\ low <= 255 /\ 0 <= high /\ high <= 255
      /\ c = low + 256 * high
  BY <1>4, <1>5, SMT DEF Byte
<1>7. PICK sum \in Int : sum = g + NetworkWord(low, high)
  BY <1>6, SMT DEF SameSums, NetworkWord
<1>8. PICK w \in Int : sum = Ones * w
  <2>1. sum = Ones * (256 + 256 * q - k - high)
    BY <1>1, <1>3, <1>6, <1>7, SMT DEF SameSums, Ones, NetworkWord
  <2>2. 256 + 256 * q - k - high \in Int
    BY <1>1, SMT DEF SameSums
  <2> QED BY <2>1, <2>2, SMT
<1>9. sum > 0
  <2>1. g >= 0 /\ f <= 256 * g /\ f \in Nat /\ g \in Nat
    BY SMT DEF SameSums
  <2>2. CASE g = 0
    BY <1>3, <1>6, <1>7, <2>1, <2>2, SMT DEF Ones, NetworkWord
  <2>3. CASE g > 0
    BY <1>6, <1>7, <2>1, <2>3, SMT DEF NetworkWord
  <2> QED BY <2>1, <2>2, <2>3, SMT
<1>10. OnesSum(sum) = 65535
  BY <1>8, <1>9, SMT DEF OnesSum, Ones
<1> QED BY <1>2, <1>4, <1>5, <1>7, <1>10, SMT

\* The bytes with their checksum, word by word.
LEMMA CheckedWords ==
  ASSUME NEW bytes \in Seq(Byte)
  PROVE  \E m \in Nat :
         \E low \in [1 .. m -> Byte], high \in [1 .. m -> Byte] :
           LET c == in_cksum(bytes) IN
           /\ 2 * m <= Len(bytes) + 1
           /\ (Len(bytes) + 1) \div 2 = m
           /\ \A i \in 1 .. m : Word(bytes, i) = MachineWord(low[i], high[i])
           /\ Len(Checked(bytes)) \div 2 = m + 1
           /\ \A i \in 1 .. m : /\ Checked(bytes)[2 * i - 1] = low[i]
                                /\ Checked(bytes)[2 * i] = high[i]
           /\ Checked(bytes)[2 * m + 1] = c % 256
           /\ Checked(bytes)[2 * m + 2] = c \div 256
<1> DEFINE m == (Len(bytes) + 1) \div 2
           low == [i \in 1 .. m |-> bytes[2 * i - 1]]
           high == [i \in 1 .. m |->
                      IF 2 * i <= Len(bytes) THEN bytes[2 * i] ELSE 0]
           c == in_cksum(bytes)
<1>1. Len(bytes) \in Nat /\ \A i \in 1 .. Len(bytes) : bytes[i] \in Byte
  BY LenProperties, ElementOfSeq
<1>2. /\ m \in Nat
      /\ \/ Len(bytes) % 2 = 0 /\ Len(bytes) = 2 * m
         \/ Len(bytes) % 2 = 1 /\ Len(bytes) = 2 * m - 1
  BY <1>1, SMT
<1> HIDE DEF m
<1>3. low \in [1 .. m -> Byte] /\ high \in [1 .. m -> Byte]
  <2>1. ASSUME NEW i \in 1 .. m
        PROVE  /\ 2 * i - 1 \in 1 .. Len(bytes)
               /\ 2 * i <= Len(bytes) => 2 * i \in 1 .. Len(bytes)
    BY <1>1, <1>2, SMT
  <2>2. 0 \in Byte
    BY DEF Byte
  <2> QED BY <1>1, <2>1, <2>2
<1>4. ASSUME NEW i \in 1 .. m
      PROVE  Word(bytes, i) = MachineWord(low[i], high[i])
  <2>1. CASE 2 * i <= Len(bytes)
    BY <2>1, SMT DEF Word, MachineWord
  <2>2. CASE ~(2 * i <= Len(bytes))
    BY <2>2, SMT DEF Word, MachineWord
  <2> QED BY <2>1, <2>2
<1>5. /\ Len(Checked(bytes)) \div 2 = m + 1
      /\ \A i \in 1 .. m : /\ Checked(bytes)[2 * i - 1] = low[i]
                                  /\ Checked(bytes)[2 * i] = high[i]
      /\ Checked(bytes)[2 * m + 1] = c % 256
      /\ Checked(bytes)[2 * m + 2] = c \div 256
  <2> DEFINE pad == IF Len(bytes) % 2 = 1 THEN <<0>> ELSE <<>>
             p == bytes \o pad
             e == <<c % 256, c \div 256>>
  <2>1. /\ pad \in Seq(Byte) /\ Len(pad) = 2 * m - Len(bytes)
        /\ Len(pad) = 1 => pad[1] = 0
    <3>1. CASE Len(bytes) % 2 = 0
      BY <3>1, <1>2
    <3>2. CASE Len(bytes) % 2 = 1
      BY <3>2, <1>2 DEF Byte
    <3> QED BY <3>1, <3>2, <1>2
  <2> HIDE DEF pad
  <2>2. /\ p \in Seq(Byte) /\ Len(p) = Len(bytes) + Len(pad)
        /\ \A i \in 1 .. (Len(bytes) + Len(pad)) :
             p[i] = IF i <= Len(bytes) THEN bytes[i] ELSE pad[i - Len(bytes)]
    BY <2>1, ConcatProperties, Zenon
  <2>9. /\ p \in Seq(Byte) /\ Len(p) = 2 * m
         /\ \A i \in 1 .. Len(p) :
              p[i] = IF i <= Len(bytes) THEN bytes[i] ELSE pad[i - Len(bytes)]
    BY <1>1, <1>2, <2>1, <2>2
  <2> HIDE DEF p
  <2>3. e \in Seq({c % 256, c \div 256}) /\ Len(e) = 2
        /\ e[1] = c % 256 /\ e[2] = c \div 256
    OBVIOUS
  <2> HIDE DEF e
  <2>4. Checked(bytes) = p \o e
    BY Zenon DEF Checked, LowFirst, p, pad, e
  <2>5. /\ Len(p \o e) = 2 * m + 2
        /\ \A i \in 1 .. (2 * m + 2) :
             (p \o e)[i] = IF i <= 2 * m THEN p[i] ELSE e[i - 2 * m]
    <3> DEFINE T == Byte \cup {c % 256, c \div 256}
    <3>1. p \in Seq(T) /\ e \in Seq(T)
      BY <2>3, <2>9
    <3> HIDE DEF T
    <3>2. /\ Len(p \o e) = Len(p) + Len(e)
          /\ \A i \in 1 .. (Len(p) + Len(e)) :
               (p \o e)[i] = IF i <= Len(p) THEN p[i] ELSE e[i - Len(p)]
      BY <3>1, ConcatProperties, Zenon
    <3>3. Len(p) = 2 * m /\ Len(p) + Len(e) = 2 * m + 2
      <4>1. Len(p) = 2 * m /\ Len(e) = 2
        BY <2>3, <2>9, Zenon
      <4> QED BY <4>1
    <3> QED BY <3>2, <3>3, Zenon
  <2>6. ASSUME NEW i \in 1 .. m
        PROVE  (p \o e)[2 * i - 1] = low[i] /\ (p \o e)[2 * i] = high[i]
    <3>1. /\ 2 * i - 1 \in 1 .. Len(p) /\ 2 * i - 1 <= Len(bytes)
          /\ 2 * i \in 1 .. Len(p)
          /\ 2 * i - 1 \in 1 .. (2 * m + 2) /\ 2 * i \in 1 .. (2 * m + 2)
          /\ 2 * i - 1 <= 2 * m /\ 2 * i <= 2 * m
      BY <1>2, <2>9
    <3>2. (p \o e)[2 * i - 1] = bytes[2 * i - 1]
      BY <3>1, <2>9, <2>5
    <3>3. CASE 2 * i <= Len(bytes)
      BY <3>1, <3>3, <2>9, <2>5, <3>2
    <3>4. CASE ~(2 * i <= Len(bytes))
      <4>1. 2 * i - Len(bytes) = 1 /\ Len(pad) = 1
        BY <3>1, <3>4, <1>2, <2>1
      <4> QED BY <4>1, <3>1, <3>4, <2>1, <2>9, <2>5, <3>2
    <3> QED BY <3>3, <3>4
  <2>7. (p \o e)[2 * m + 1] = c % 256 /\ (p \o e)[2 * m + 2] = c \div 256
    <3>1. /\ 2 * m + 1 \in 1 .. (2 * m + 2) /\ ~(2 * m + 1 <= 2 * m)
          /\ 2 * m + 2 \in 1 .. (2 * m + 2) /\ ~(2 * m + 2 <= 2 * m)
          /\ (2 * m + 1) - 2 * m = 1 /\ (2 * m + 2) - 2 * m = 2
      BY <1>2
    <3> QED BY <3>1, <2>3, <2>5, ZenonT(40)
  <2>8. (2 * m + 2) \div 2 = m + 1
    BY <1>2, SMT
  <2> QED BY <2>4, <2>5, <2>6, <2>7, <2>8, ZenonT(40)
<1>6. 2 * m <= Len(bytes) + 1
  BY <1>1, <1>2
<1>7. (Len(bytes) + 1) \div 2 = m
  BY DEF m
<1> HIDE DEF low, high
<1>8. \A i \in 1 .. m : Word(bytes, i) = MachineWord(low[i], high[i])
  BY <1>4
<1>9. m \in Nat
  BY <1>2
<1>10. low \in [1 .. m -> Byte] /\ high \in [1 .. m -> Byte]
  BY <1>3
<1> HIDE DEF m
<1> QED BY <1>5, <1>6, <1>7, <1>8, <1>9, <1>10, ZenonT(40)

\* A receiver finds the checksum of any bytes right whose sum an int holds.
LEMMA CheckedVerifies ==
  ASSUME NEW bytes \in Seq(Byte), Len(bytes) <= MostSummed
  PROVE  Verifies(Checked(bytes))
<1> DEFINE c == in_cksum(bytes)
           k == Checked(bytes)
<1>1. PICK m \in Nat :
        \E low \in [1 .. m -> Byte], high \in [1 .. m -> Byte] :
          /\ 2 * m <= Len(bytes) + 1
          /\ (Len(bytes) + 1) \div 2 = m
          /\ \A i \in 1 .. m : Word(bytes, i) = MachineWord(low[i], high[i])
          /\ Len(k) \div 2 = m + 1
          /\ \A i \in 1 .. m : k[2 * i - 1] = low[i] /\ k[2 * i] = high[i]
          /\ k[2 * m + 1] = c % 256
          /\ k[2 * m + 2] = c \div 256
  BY CheckedWords, Zenon
<1>2. PICK low \in [1 .. m -> Byte], high \in [1 .. m -> Byte] :
        /\ 2 * m <= Len(bytes) + 1
        /\ (Len(bytes) + 1) \div 2 = m
        /\ \A i \in 1 .. m : Word(bytes, i) = MachineWord(low[i], high[i])
        /\ Len(k) \div 2 = m + 1
        /\ \A i \in 1 .. m : k[2 * i - 1] = low[i] /\ k[2 * i] = high[i]
        /\ k[2 * m + 1] = c % 256
        /\ k[2 * m + 2] = c \div 256
  BY <1>1, Zenon
<1> DEFINE words == [i \in 1 .. m |-> Word(bytes, i)]
           sent == [i \in 1 .. (m + 1) |-> 256 * k[2 * i - 1] + k[2 * i]]
<1> HIDE DEF k
<1>3. Sum(bytes) = Total(words) /\ Len(words) = m
  <2>1. Len(words) = m
    OBVIOUS
  <2>2. Sum(bytes) = Total(words)
    BY <1>2, Zenon DEF Sum
  <2> QED BY <2>1, <2>2
<1>4. PICK f : /\ Sum(bytes) = f[m] /\ f[0] = 0
               /\ \A i \in 1 .. m : f[i] = f[i - 1] + words[i]
  <2> HIDE DEF words
  <2> QED BY <1>3, TotalAdds, Zenon
<1>5. \A i \in 1 .. m : f[i] = f[i - 1] + MachineWord(low[i], high[i])
  BY <1>2, <1>4, ZenonT(40)
<1>6. Len(sent) = m + 1 /\ m + 1 \in Nat
  OBVIOUS
<1>7. PICK g : /\ Total(sent) = g[m + 1] /\ g[0] = 0
               /\ \A i \in 1 .. (m + 1) : g[i] = g[i - 1] + sent[i]
  <2> HIDE DEF sent
  <2>1. Len(sent) \in Nat
    BY <1>6
  <2>2. \E g : /\ Total(sent) = g[Len(sent)] /\ g[0] = 0
               /\ \A i \in 1 .. Len(sent) : g[i] = g[i - 1] + sent[i]
    BY <2>1, TotalAdds, Zenon
  <2> QED BY <1>6, <2>2, Zenon
<1>8. ASSUME NEW i \in 1 .. m
      PROVE  g[i] = g[i - 1] + NetworkWord(low[i], high[i])
  <2>1. i \in 1 .. (m + 1)
    OBVIOUS
  <2>2. g[i] = g[i - 1] + sent[i]
    BY <1>7, <2>1, Zenon
  <2>3. k[2 * i - 1] = low[i] /\ k[2 * i] = high[i]
    BY <1>2, Zenon
  <2>4. sent[i] = NetworkWord(low[i], high[i])
    BY <2>1, <2>3, SMT DEF NetworkWord
  <2> QED BY <2>2, <2>4, Zenon
<1>9. PICK n : SameSums(f[m], g[m], n, m)
  BY <1>4, <1>5, <1>7, <1>8, AllWords, ZenonT(40)
<1>10. Fits(f[m])
  <2>1. Len(bytes) \in Nat
    BY LenProperties
  <2>2. m <= 32768
    BY <1>2, <2>1, SMT DEF MostSummed
  <2> QED BY <1>9, <2>2, SMT DEF SameSums, Fits, Ones
<1>11. c = 65535 - Fold(f[m])
  BY <1>4, SMT DEF in_cksum
<1>12. OnesSum(g[m] + NetworkWord(c % 256, c \div 256)) = 65535
  BY <1>9, <1>10, <1>11, SumAndChecksum, SMT
<1>13. Total(sent) = g[m] + NetworkWord(c % 256, c \div 256)
  <2>1. m + 1 \in 1 .. (m + 1) /\ (m + 1) - 1 = m
        /\ 2 * (m + 1) - 1 = 2 * m + 1 /\ 2 * (m + 1) = 2 * m + 2
    OBVIOUS
  <2>2. g[m + 1] = g[m] + sent[m + 1]
    BY <1>7, <2>1, ZenonT(40)
  <2>3. sent[m + 1] = NetworkWord(c % 256, c \div 256)
    BY <1>2, <2>1, SMT DEF NetworkWord
  <2> QED BY <1>7, <2>2, <2>3
<1>14. NetworkSum(k) = Total(sent)
  BY <1>2 DEF NetworkSum
<1> QED BY <1>12, <1>13, <1>14, SMT DEF Verifies, k

\* The checksum is right whatever Data holds.
THEOREM ChecksumAlwaysVerifies == Spec => []ChecksumVerifies
<1>1. ChecksumVerifies
  BY SimpleAssumption, CheckedVerifies, Zenon DEF ChecksumVerifies
<1> QED BY <1>1, PTL

-----------------------------------------------------------------------------
(* The frame. *)

\* What an output function does to the buffer.
LEMMA PutProperties ==
  ASSUME NEW S, NEW buf \in Seq(S), NEW bytes \in Seq(S), NEW at \in Nat,
         at + Len(bytes) <= Len(buf)
  PROVE  /\ Put(buf, at, bytes) \in Seq(S)
         /\ Len(Put(buf, at, bytes)) = Len(buf)
         /\ \A i \in 1 .. Len(buf) :
              Put(buf, at, bytes)[i] =
                IF at < i /\ i <= at + Len(bytes) THEN bytes[i - at] ELSE buf[i]
<1> DEFINE a == SubSeq(buf, 1, at)
           b == SubSeq(buf, at + Len(bytes) + 1, Len(buf))
           n == Len(buf)
           k == Len(bytes)
<1>1. n \in Nat /\ k \in Nat
  BY LenProperties
<1>2. a \in Seq(S) /\ Len(a) = at /\ \A i \in 1 .. at : a[i] = buf[i]
  BY <1>1, SubSeqProperties
<1>3. /\ b \in Seq(S) /\ Len(b) = n - (at + k)
      /\ \A i \in 1 .. (n - (at + k)) : b[i] = buf[(at + k) + i]
  BY <1>1, SubSeqProperties
<1> HIDE DEF a, b
<1>4. /\ a \o bytes \in Seq(S) /\ Len(a \o bytes) = at + k
      /\ \A i \in 1 .. (at + k) :
           (a \o bytes)[i] = IF i <= at THEN buf[i] ELSE bytes[i - at]
  <2>1. /\ a \o bytes \in Seq(S) /\ Len(a \o bytes) = Len(a) + k
        /\ \A i \in 1 .. (Len(a) + k) :
             (a \o bytes)[i] = IF i <= Len(a) THEN a[i] ELSE bytes[i - Len(a)]
    BY <1>2, ConcatProperties, Zenon
  <2> QED BY <1>1, <1>2, <2>1
<1> DEFINE c == a \o bytes
<1> HIDE DEF c
<1>5. /\ c \o b \in Seq(S) /\ Len(c \o b) = n
      /\ \A i \in 1 .. n :
           (c \o b)[i] = IF i <= at + k THEN c[i] ELSE buf[i]
  <2>1. c \in Seq(S) /\ Len(c) = at + k /\ b \in Seq(S)
    BY <1>3, <1>4 DEF c
  <2>2. /\ c \o b \in Seq(S) /\ Len(c \o b) = Len(c) + Len(b)
        /\ \A i \in 1 .. (Len(c) + Len(b)) :
             (c \o b)[i] = IF i <= Len(c) THEN c[i] ELSE b[i - Len(c)]
    <3>1. c \in Seq(S) /\ b \in Seq(S)
      BY <2>1, Zenon
    <3> QED BY <3>1, ConcatProperties, Zenon
  <2>3. Len(c) + Len(b) = n
    <3>1. Len(c) = at + k /\ Len(b) = n - (at + k)
      BY <1>3, <2>1, Zenon
    <3> HIDE DEF n, k
    <3> QED BY <1>1, <3>1
  <2>4. ASSUME NEW i \in 1 .. n
        PROVE  (c \o b)[i] = IF i <= at + k THEN c[i] ELSE buf[i]
    <3>1. CASE i <= at + k
      BY <3>1, <2>1, <2>2, <2>3
    <3>2. CASE i > at + k
      <4>1. /\ i - (at + k) \in 1 .. (n - (at + k))
            /\ (at + k) + (i - (at + k)) = i
        BY <3>2, <1>1
      <4>2. b[i - (at + k)] = buf[i]
        BY <1>3, <4>1
      <4>3. ~(i <= Len(c)) /\ i - Len(c) = i - (at + k)
        BY <3>2, <2>1, <1>1
      <4>4. (c \o b)[i] = b[i - Len(c)]
        BY <2>2, <2>3, <4>3
      <4>5. (c \o b)[i] = buf[i]
        BY <4>2, <4>3, <4>4, Zenon
      <4>6. ~(i <= at + k)
        BY <3>2, <1>1
      <4> QED BY <4>5, <4>6, Zenon
    <3>3. i <= at + k \/ i > at + k
      BY <1>1
    <3> QED BY <3>1, <3>2, <3>3, Zenon
  <2> QED BY <2>2, <2>3, <2>4
<1>6. Put(buf, at, bytes) = c \o b
  BY DEF Put, c, a, b
<1>7. ASSUME NEW i \in 1 .. n
      PROVE  (c \o b)[i] =
               IF at < i /\ i <= at + k THEN bytes[i - at] ELSE buf[i]
  <2>1. i <= at + k => c[i] = IF i <= at THEN buf[i] ELSE bytes[i - at]
    BY <1>1, <1>4 DEF c
  <2> QED BY <1>1, <1>5, <2>1
<1> QED BY <1>5, <1>6, <1>7

\* A short run of bytes is a sequence of bytes.
LEMMA ZerosProperties ==
  ASSUME NEW n \in Nat
  PROVE  /\ Zeros(n) \in Seq(Byte) /\ Len(Zeros(n)) = n
         /\ \A i \in 1 .. n : Zeros(n)[i] = 0
BY DEF Zeros, Byte

\* What is put together stands one behind the other.
LEMMA ConcatAt ==
  ASSUME NEW a \in Seq(Byte), NEW b \in Seq(Byte)
  PROVE  /\ a \o b \in Seq(Byte) /\ Len(a \o b) = Len(a) + Len(b)
         /\ \A i \in 1 .. Len(a) : (a \o b)[i] = a[i]
         /\ \A i \in 1 .. Len(b) : (a \o b)[Len(a) + i] = b[i]
<1>1. /\ a \o b \in Seq(Byte) /\ Len(a \o b) = Len(a) + Len(b)
      /\ \A i \in 1 .. (Len(a) + Len(b)) :
           (a \o b)[i] = IF i <= Len(a) THEN a[i] ELSE b[i - Len(a)]
  BY ConcatProperties, Zenon
<1>2. Len(a) \in Nat /\ Len(b) \in Nat
  BY LenProperties
<1>3. ASSUME NEW i \in 1 .. Len(a) PROVE (a \o b)[i] = a[i]
  <2>1. i \in 1 .. (Len(a) + Len(b)) /\ i <= Len(a)
    BY <1>2
  <2> QED BY <1>1, <2>1, Zenon
<1>4. ASSUME NEW i \in 1 .. Len(b) PROVE (a \o b)[Len(a) + i] = b[i]
  <2>1. /\ Len(a) + i \in 1 .. (Len(a) + Len(b))
        /\ ~(Len(a) + i <= Len(a)) /\ (Len(a) + i) - Len(a) = i
    BY <1>2
  <2> QED BY <1>1, <2>1
<1> QED BY <1>1, <1>3, <1>4

\* The same where some may not have been written.
LEMMA ConcatCells ==
  ASSUME NEW a \in Seq(Cell), NEW b \in Seq(Cell)
  PROVE  /\ a \o b \in Seq(Cell) /\ Len(a \o b) = Len(a) + Len(b)
         /\ \A i \in 1 .. Len(a) : (a \o b)[i] = a[i]
         /\ \A i \in 1 .. Len(b) : (a \o b)[Len(a) + i] = b[i]
<1>1. /\ a \o b \in Seq(Cell) /\ Len(a \o b) = Len(a) + Len(b)
      /\ \A i \in 1 .. (Len(a) + Len(b)) :
           (a \o b)[i] = IF i <= Len(a) THEN a[i] ELSE b[i - Len(a)]
  BY ConcatProperties, Zenon
<1>2. Len(a) \in Nat /\ Len(b) \in Nat
  BY LenProperties
<1>3. ASSUME NEW i \in 1 .. Len(a) PROVE (a \o b)[i] = a[i]
  <2>1. i \in 1 .. (Len(a) + Len(b)) /\ i <= Len(a)
    BY <1>2
  <2> QED BY <1>1, <2>1, Zenon
<1>4. ASSUME NEW i \in 1 .. Len(b) PROVE (a \o b)[Len(a) + i] = b[i]
  <2>1. /\ Len(a) + i \in 1 .. (Len(a) + Len(b))
        /\ ~(Len(a) + i <= Len(a)) /\ (Len(a) + i) - Len(a) = i
    BY <1>2
  <2> QED BY <1>1, <2>1
<1> QED BY <1>1, <1>3, <1>4

\* What a sequence of bytes is made of.
LEMMA ByteOf ==
  ASSUME NEW s \in Seq(Byte), NEW n, Len(s) = n, NEW j \in 1 .. n
  PROVE  s[j] \in Byte
BY ElementOfSeq

\* An option.
LEMMA OptionProperties ==
  ASSUME NEW code \in Byte, NEW data \in Seq(Byte), Len(data) \in Byte
  PROVE  LET o == fill_dhcp_option(code, data) IN
         /\ o \in Seq(Byte) /\ Len(o) = 2 + Len(data)
         /\ o[1] = code /\ o[2] = Len(data)
         /\ \A i \in 1 .. Len(data) : o[2 + i] = data[i]
<1> DEFINE head == <<code, Len(data)>>
<1>1. /\ head \in Seq(Byte) /\ Len(head) = 2
      /\ head[1] = code /\ head[2] = Len(data)
  OBVIOUS
<1> HIDE DEF head
<1>2. /\ head \o data \in Seq(Byte)
      /\ Len(head \o data) = Len(head) + Len(data)
      /\ \A i \in 1 .. Len(head) : (head \o data)[i] = head[i]
      /\ \A i \in 1 .. Len(data) : (head \o data)[Len(head) + i] = data[i]
  BY <1>1, ConcatAt, Zenon
<1>3. fill_dhcp_option(code, data) = head \o data
  BY Zenon DEF fill_dhcp_option, head
<1> QED BY <1>1, <1>2, <1>3

-----------------------------------------------------------------------------
(* What each output function puts into the buffer. *)

\* The options of the DISCOVER as far as a receiver relies on them.
Options(o) ==
  /\ Len(o) = 18
  /\ o[1] = 53 /\ o[2] = 1 /\ o[3] = 1
  /\ o[4] = 50 /\ o[5] = 4
  /\ o[6] = 192 /\ o[7] = 168 /\ o[8] = 1 /\ o[9] = 10
  /\ o[16] = 255

\* fill_dhcp_discovery_options writes 18 bytes behind the fixed fields.
LEMMA OptionsFilled ==
  \E o \in Seq(Byte) :
    /\ Options(o)
    /\ fill_dhcp_discovery_options([buf |-> Buffer, len |-> 0]) =
         [buf |-> Put(Buffer, 282, o), len |-> 18]
<1> DEFINE a == fill_dhcp_option(53, <<1>>)
           b == fill_dhcp_option(50, <<192, 168, 1, 10>>)
           c == fill_dhcp_option(55, <<1, 3, 6, 15>>)
           d == fill_dhcp_option(255, <<0>>)
<1>1. a \in Seq(Byte) /\ Len(a) = 3 /\ a[1] = 53 /\ a[2] = 1 /\ a[3] = 1
  <2> DEFINE data == <<1>>
             o == fill_dhcp_option(53, data)
  <2>1. /\ data \in Seq(Byte) /\ Len(data) = 1
        /\ data[1] = 1
        /\ 1 \in Byte /\ 53 \in Byte
    BY DEF Byte
  <2> HIDE DEF data
  <2>2. 53 \in Byte /\ data \in Seq(Byte) /\ Len(data) \in Byte
    BY <2>1
  <2>3. /\ o \in Seq(Byte) /\ Len(o) = 2 + Len(data)
        /\ o[1] = 53 /\ o[2] = Len(data)
        /\ \A i \in 1 .. Len(data) : o[2 + i] = data[i]
    BY <2>2, OptionProperties, Zenon
  <2> HIDE DEF o
  <2>4. o \in Seq(Byte) /\ Len(o) = 3 /\ o[1] = 53 /\ o[2] = 1 /\ o[3] = 1
    BY <2>1, <2>3
  <2> QED BY <2>4 DEF o, data
<1>2. /\ b \in Seq(Byte) /\ Len(b) = 6 /\ b[1] = 50 /\ b[2] = 4
      /\ b[3] = 192 /\ b[4] = 168 /\ b[5] = 1 /\ b[6] = 10
  <2> DEFINE data == <<192, 168, 1, 10>>
             o == fill_dhcp_option(50, data)
  <2>1. /\ data \in Seq(Byte) /\ Len(data) = 4
        /\ data[1] = 192
        /\ data[2] = 168
        /\ data[3] = 1
        /\ data[4] = 10
        /\ 4 \in Byte /\ 50 \in Byte
    BY DEF Byte
  <2> HIDE DEF data
  <2>2. 50 \in Byte /\ data \in Seq(Byte) /\ Len(data) \in Byte
    BY <2>1
  <2>3. /\ o \in Seq(Byte) /\ Len(o) = 2 + Len(data)
        /\ o[1] = 50 /\ o[2] = Len(data)
        /\ \A i \in 1 .. Len(data) : o[2 + i] = data[i]
    BY <2>2, OptionProperties, Zenon
  <2> HIDE DEF o
  <2>4. /\ o \in Seq(Byte) /\ Len(o) = 6 /\ o[1] = 50 /\ o[2] = 4
        /\ o[3] = 192 /\ o[4] = 168 /\ o[5] = 1 /\ o[6] = 10
    BY <2>1, <2>3
  <2> QED BY <2>4 DEF o, data
<1>3. c \in Seq(Byte) /\ Len(c) = 6
  <2> DEFINE data == <<1, 3, 6, 15>>
             o == fill_dhcp_option(55, data)
  <2>1. /\ data \in Seq(Byte) /\ Len(data) = 4
        /\ data[1] = 1
        /\ data[2] = 3
        /\ data[3] = 6
        /\ data[4] = 15
        /\ 4 \in Byte /\ 55 \in Byte
    BY DEF Byte
  <2> HIDE DEF data
  <2>2. 55 \in Byte /\ data \in Seq(Byte) /\ Len(data) \in Byte
    BY <2>1
  <2>3. /\ o \in Seq(Byte) /\ Len(o) = 2 + Len(data)
        /\ o[1] = 55 /\ o[2] = Len(data)
        /\ \A i \in 1 .. Len(data) : o[2 + i] = data[i]
    BY <2>2, OptionProperties, Zenon
  <2> HIDE DEF o
  <2>4. o \in Seq(Byte) /\ Len(o) = 6
    BY <2>1, <2>3
  <2> QED BY <2>4 DEF o, data
<1>4. d \in Seq(Byte) /\ Len(d) = 3 /\ d[1] = 255
  <2> DEFINE data == <<0>>
             o == fill_dhcp_option(255, data)
  <2>1. /\ data \in Seq(Byte) /\ Len(data) = 1
        /\ data[1] = 0
        /\ 1 \in Byte /\ 255 \in Byte
    BY DEF Byte
  <2> HIDE DEF data
  <2>2. 255 \in Byte /\ data \in Seq(Byte) /\ Len(data) \in Byte
    BY <2>1
  <2>3. /\ o \in Seq(Byte) /\ Len(o) = 2 + Len(data)
        /\ o[1] = 255 /\ o[2] = Len(data)
        /\ \A i \in 1 .. Len(data) : o[2 + i] = data[i]
    BY <2>2, OptionProperties, ZenonT(40)
  <2> HIDE DEF o
  <2>4. o \in Seq(Byte) /\ Len(o) = 3 /\ o[1] = 255
    BY <2>1, <2>3
  <2> QED BY <2>4 DEF o, data
<1> DEFINE ab == a \o b
           abc == ab \o c
           o == abc \o d
<1> HIDE DEF a, b, c, d
<1>5. /\ ab \in Seq(Byte) /\ Len(ab) = 9
      /\ ab[1] = 53 /\ ab[2] = 1 /\ ab[3] = 1 /\ ab[4] = 50 /\ ab[5] = 4
      /\ ab[6] = 192 /\ ab[7] = 168 /\ ab[8] = 1 /\ ab[9] = 10
  <2>1. a \in Seq(Byte) /\ b \in Seq(Byte)
    BY <1>1, <1>2
  <2>2. /\ ab \in Seq(Byte) /\ Len(ab) = Len(a) + Len(b)
        /\ \A i \in 1 .. Len(a) : ab[i] = a[i]
        /\ \A i \in 1 .. Len(b) : ab[Len(a) + i] = b[i]
    BY <2>1, ConcatAt, Zenon
  <2> HIDE DEF ab
  <2> QED BY <1>1, <1>2, <2>2
<1> HIDE DEF ab
<1>6. /\ abc \in Seq(Byte) /\ Len(abc) = 15
      /\ \A i \in 1 .. 9 : abc[i] = ab[i]
  <2>1. ab \in Seq(Byte) /\ c \in Seq(Byte)
    BY <1>3, <1>5
  <2>2. /\ abc \in Seq(Byte) /\ Len(abc) = Len(ab) + Len(c)
        /\ \A i \in 1 .. Len(ab) : abc[i] = ab[i]
    BY <2>1, ConcatAt, Zenon
  <2> HIDE DEF abc
  <2> QED BY <1>3, <1>5, <2>2
<1> HIDE DEF abc
<1>7. /\ o \in Seq(Byte) /\ Len(o) = 18
      /\ \A i \in 1 .. 15 : o[i] = abc[i]
      /\ o[16] = 255
  <2>1. abc \in Seq(Byte) /\ d \in Seq(Byte)
    BY <1>4, <1>6
  <2>2. /\ o \in Seq(Byte) /\ Len(o) = Len(abc) + Len(d)
        /\ \A i \in 1 .. Len(abc) : o[i] = abc[i]
        /\ \A i \in 1 .. Len(d) : o[Len(abc) + i] = d[i]
    BY <2>1, ConcatAt, Zenon
  <2> HIDE DEF o
  <2> QED BY <1>4, <1>6, <2>2
<1>8. fill_dhcp_discovery_options([buf |-> Buffer, len |-> 0]) =
         [buf |-> Put(Buffer, 282, o), len |-> 18]
  <2>1. fill_dhcp_discovery_options([buf |-> Buffer, len |-> 0]) =
          [buf |-> Put(Buffer, ETHER + IP + UDP + DHCP, o), len |-> Len(o)]
    BY DEF fill_dhcp_discovery_options, o, abc, ab, a, b, c, d
  <2>2. ETHER + IP + UDP + DHCP = 282 /\ Len(o) = 18
    BY <1>7 DEF ETHER, IP, UDP, DHCP
  <2> QED BY <2>1, <2>2
<1> HIDE DEF o
<1>9. /\ Len(o) = 18
       /\ o[1] = 53 /\ o[2] = 1 /\ o[3] = 1 /\ o[4] = 50 /\ o[5] = 4
       /\ o[6] = 192 /\ o[7] = 168 /\ o[8] = 1 /\ o[9] = 10 /\ o[16] = 255
  BY <1>5, <1>6, <1>7
<1>10. Options(o)
  BY <1>9 DEF Options
<1> QED BY <1>7, <1>8, <1>10

\* The 240 bytes of struct dhcp_t, as far as a property looks at them.
DhcpMessage(d) ==
  /\ Len(d) = 240
  /\ \A i \in 1 .. 6 : d[28 + i] = mac[i]
  /\ \A i \in 1 .. 240 : i \in 35 .. 44 \/ d[i] \in Byte

\* A sequence of bytes that have been written.
LEMMA BytesAreCells == Seq(Byte) \subseteq Seq(Cell)
<1>1. Byte \subseteq Cell
  BY DEF Cell
<1> QED BY <1>1, SeqMonotonic, Zenon

\* The DHCP message: what is behind the address on the stack goes out with it.
LEMMA DhcpFilled ==
  ASSUME NEW b, mac \in [1 .. 6 -> Byte]
  PROVE  \E d \in Seq(Cell) :
           /\ DhcpMessage(d)
           /\ dhcp_output([buf |-> b, len |-> 18]) =
                [buf |-> Put(b, 42, d), len |-> 258]
<1> DEFINE a1 == <<1, 1, 6, 0>>
           a2 == <<99, 130, 83, 99>>
           z1 == Zeros(24)
           z2 == Zeros(192)
           s1 == a1 \o z1
           s2 == s1 \o mac
           s3 == s2 \o BehindMac
           s4 == s3 \o z2
           d == s4 \o a2
<1>1. /\ a1 \in Seq(Byte) /\ Len(a1) = 4 /\ a2 \in Seq(Byte) /\ Len(a2) = 4
      /\ mac \in Seq(Byte) /\ Len(mac) = 6
      /\ BehindMac \in Seq(Cell) /\ Len(BehindMac) = 10
  <2>1. a1 \in Seq(Byte) /\ Len(a1) = 4 /\ a2 \in Seq(Byte) /\ Len(a2) = 4
    BY DEF Byte
  <2>2. \A n \in Nat : \A s \in [1 .. n -> Byte] : s \in Seq(Byte) /\ Len(s) = n
    OBVIOUS
  <2>3. BehindMac \in Seq(Cell) /\ Len(BehindMac) = 10
    BY DEF BehindMac, Cell
  <2> QED BY <2>1, <2>2, <2>3
<1> HIDE DEF a1, a2
<1>2. z1 \in Seq(Byte) /\ Len(z1) = 24 /\ z2 \in Seq(Byte) /\ Len(z2) = 192
  BY ZerosProperties, ZenonT(40)
<1> HIDE DEF z1, z2
<1>3. s1 \in Seq(Byte) /\ Len(s1) = 28
  <2>1. a1 \in Seq(Byte) /\ z1 \in Seq(Byte)
    BY <1>1, <1>2
  <2>2. /\ s1 \in Seq(Byte) /\ Len(s1) = Len(a1) + Len(z1)
        /\ \A i \in 1 .. Len(a1) : s1[i] = a1[i]
        /\ \A i \in 1 .. Len(z1) : s1[Len(a1) + i] = z1[i]
    BY <2>1, ConcatAt, Zenon
  <2> HIDE DEF s1
  <2> QED BY <1>1, <1>2, <2>2
<1> HIDE DEF s1
<1>4. s2 \in Seq(Byte) /\ Len(s2) = 34 /\ \A i \in 1 .. 6 : s2[28 + i] = mac[i]
  <2>1. s1 \in Seq(Byte) /\ mac \in Seq(Byte)
    BY <1>1, <1>3
  <2>2. /\ s2 \in Seq(Byte) /\ Len(s2) = Len(s1) + Len(mac)
        /\ \A i \in 1 .. Len(s1) : s2[i] = s1[i]
        /\ \A i \in 1 .. Len(mac) : s2[Len(s1) + i] = mac[i]
    BY <2>1, ConcatAt, Zenon
  <2> HIDE DEF s2
  <2> QED BY <1>1, <1>3, <2>2
<1> HIDE DEF s2
<1>5. s3 \in Seq(Cell) /\ Len(s3) = 44 /\ \A i \in 1 .. 34 : s3[i] = s2[i]
  <2>1. s2 \in Seq(Cell) /\ BehindMac \in Seq(Cell)
    BY <1>1, <1>4, BytesAreCells
  <2>2. /\ s3 \in Seq(Cell) /\ Len(s3) = Len(s2) + Len(BehindMac)
        /\ \A i \in 1 .. Len(s2) : s3[i] = s2[i]
    BY <2>1, ConcatCells, Zenon
  <2> HIDE DEF s3
  <2> QED BY <1>1, <1>4, <2>2
<1> HIDE DEF s3
<1>6. /\ s4 \in Seq(Cell) /\ Len(s4) = 236
      /\ \A i \in 1 .. 44 : s4[i] = s3[i]
      /\ \A i \in 1 .. 192 : s4[44 + i] = z2[i]
  <2>1. s3 \in Seq(Cell) /\ z2 \in Seq(Cell)
    BY <1>2, <1>5, BytesAreCells
  <2>2. /\ s4 \in Seq(Cell) /\ Len(s4) = Len(s3) + Len(z2)
        /\ \A i \in 1 .. Len(s3) : s4[i] = s3[i]
        /\ \A i \in 1 .. Len(z2) : s4[Len(s3) + i] = z2[i]
    BY <2>1, ConcatCells, Zenon
  <2> HIDE DEF s4
  <2> QED BY <1>2, <1>5, <2>2
<1> HIDE DEF s4
<1>7. /\ d \in Seq(Cell) /\ Len(d) = 240
      /\ \A i \in 1 .. 236 : d[i] = s4[i]
      /\ \A i \in 1 .. 4 : d[236 + i] = a2[i]
  <2>1. s4 \in Seq(Cell) /\ a2 \in Seq(Cell)
    BY <1>1, <1>6, BytesAreCells
  <2>2. /\ d \in Seq(Cell) /\ Len(d) = Len(s4) + Len(a2)
        /\ \A i \in 1 .. Len(s4) : d[i] = s4[i]
        /\ \A i \in 1 .. Len(a2) : d[Len(s4) + i] = a2[i]
    BY <2>1, ConcatCells, Zenon
  <2> HIDE DEF d
  <2> QED BY <1>1, <1>6, <2>2
<1>8. dhcp_output([buf |-> b, len |-> 18]) =
        [buf |-> Put(b, 42, d), len |-> 258]
  <2>1. dhcp_output([buf |-> b, len |-> 18]) =
          [buf |-> Put(b, ETHER + IP + UDP,
                       a1 \o Zeros(24) \o mac \o BehindMac
                         \o Zeros(64 + 128) \o a2),
           len |-> 18 + DHCP]
    BY DEF dhcp_output, a1, a2
  <2>2. ETHER + IP + UDP = 42 /\ 64 + 128 = 192 /\ 18 + DHCP = 258
    BY DEF ETHER, IP, UDP, DHCP
  <2> QED BY <2>1, <2>2 DEF s4, s3, s2, s1, z1, z2
<1> HIDE DEF d
<1>9. ASSUME NEW i \in 1 .. 6 PROVE d[28 + i] = mac[i]
  <2>1. 28 + i \in 1 .. 34 /\ 28 + i \in 1 .. 44 /\ 28 + i \in 1 .. 236
    OBVIOUS
  <2>2. d[28 + i] = s4[28 + i]
    BY <1>7, <2>1
  <2>3. s4[28 + i] = s3[28 + i]
    BY <1>6, <2>1
  <2>4. s3[28 + i] = s2[28 + i]
    BY <1>5, <2>1
  <2>5. s2[28 + i] = mac[i]
    BY <1>4
  <2> QED BY <2>2, <2>3, <2>4, <2>5
<1>10. ASSUME NEW i \in 1 .. 240, i \notin 35 .. 44 PROVE d[i] \in Byte
  <2>1. CASE i \in 1 .. 34
    <3>1. i \in 1 .. 44 /\ i \in 1 .. 236
      BY <2>1
    <3>2. d[i] = s2[i]
      <4>1. d[i] = s4[i]
        BY <1>7, <3>1, Zenon
      <4>2. s4[i] = s3[i]
        BY <1>6, <3>1, Zenon
      <4>3. s3[i] = s2[i]
        BY <1>5, <2>1, Zenon
      <4> QED BY <4>1, <4>2, <4>3
    <3>3. s2[i] \in Byte
      BY <1>4, <2>1, ByteOf
    <3> QED BY <3>2, <3>3
  <2>2. CASE i \in 45 .. 236
    <3>1. i - 44 \in 1 .. 192 /\ 44 + (i - 44) = i /\ i \in 1 .. 236
      BY <2>2
    <3>2. d[i] = z2[i - 44]
      <4>1. d[i] = s4[i]
        BY <1>7, <3>1
      <4>2. s4[44 + (i - 44)] = z2[i - 44]
        BY <1>6, <3>1
      <4> QED BY <3>1, <4>1, <4>2
    <3>3. z2[i - 44] \in Byte
      <4>1. i - 44 \in 1 .. Len(z2) /\ z2 \in Seq(Byte)
        BY <1>2, <3>1
      <4> HIDE DEF z2
      <4> QED BY <4>1, ElementOfSeq, Zenon
    <3> QED BY <3>2, <3>3
  <2>3. CASE i \in 237 .. 240
    <3>1. i - 236 \in 1 .. 4 /\ 236 + (i - 236) = i
      BY <2>3
    <3>2. d[236 + (i - 236)] = a2[i - 236]
      BY <1>7, <3>1
    <3>3. a2[i - 236] \in Byte
      BY <1>1, <3>1, ByteOf
    <3> QED BY <3>1, <3>2, <3>3
  <2> QED BY <1>10, <2>1, <2>2, <2>3
<1>11. d \in Seq(Cell) /\ DhcpMessage(d)
  BY <1>7, <1>9, <1>10 DEF DhcpMessage
<1> QED BY <1>8, <1>11

\* A number in two bytes.
LEMMA HighFirstProperties ==
  ASSUME NEW n \in Nat, n < 65536
  PROVE  /\ HighFirst(n) \in Seq(Byte) /\ Len(HighFirst(n)) = 2
         /\ HighFirst(n)[1] = n \div 256 /\ HighFirst(n)[2] = n % 256
<1>1. (n \div 256) \in Byte /\ (n % 256) \in Byte
  BY SMT DEF Byte
<1> QED BY <1>1 DEF HighFirst

\* The ports and the length of the UDP header.
UdpHeader(u) ==
  /\ Len(u) = 8
  /\ u[1] = 0 /\ u[2] = 68 /\ u[3] = 0 /\ u[4] = 67 /\ u[5] = 1 /\ u[6] = 10

\* udp_output writes its header in front of the datagram and adds its length.
LEMMA UdpFilled ==
  ASSUME NEW b
  PROVE  \E u \in Seq(Byte) :
           /\ UdpHeader(u)
           /\ udp_output([buf |-> b, len |-> 258]) =
                [buf |-> Put(b, 34, u), len |-> 266]
<1> DEFINE a1 == HighFirst(68)
           a2 == HighFirst(67)
           a3 == HighFirst(266)
           a4 == <<0, 0>>
           s1 == a1 \o a2
           s2 == s1 \o a3
           u == s2 \o a4
<1>1. /\ a1 \in Seq(Byte) /\ Len(a1) = 2 /\ a1[1] = 0 /\ a1[2] = 68
      /\ a2 \in Seq(Byte) /\ Len(a2) = 2 /\ a2[1] = 0 /\ a2[2] = 67
      /\ a3 \in Seq(Byte) /\ Len(a3) = 2 /\ a3[1] = 1 /\ a3[2] = 10
  BY HighFirstProperties, SMT
<1>2. a4 \in Seq(Byte) /\ Len(a4) = 2
  BY DEF Byte
<1> HIDE DEF a1, a2, a3, a4
<1>3. /\ s1 \in Seq(Byte) /\ Len(s1) = 4
      /\ s1[1] = 0 /\ s1[2] = 68 /\ s1[3] = 0 /\ s1[4] = 67
  <2>1. a1 \in Seq(Byte) /\ a2 \in Seq(Byte)
    BY <1>1
  <2>2. /\ s1 \in Seq(Byte) /\ Len(s1) = Len(a1) + Len(a2)
        /\ \A i \in 1 .. Len(a1) : s1[i] = a1[i]
        /\ \A i \in 1 .. Len(a2) : s1[Len(a1) + i] = a2[i]
    BY <2>1, ConcatAt, Zenon
  <2> HIDE DEF s1
  <2> QED BY <1>1, <2>2
<1> HIDE DEF s1
<1>4. /\ s2 \in Seq(Byte) /\ Len(s2) = 6
      /\ s2[1] = 0 /\ s2[2] = 68 /\ s2[3] = 0 /\ s2[4] = 67 /\ s2[5] = 1
      /\ s2[6] = 10
  <2>1. s1 \in Seq(Byte) /\ a3 \in Seq(Byte)
    BY <1>1, <1>3
  <2>2. /\ s2 \in Seq(Byte) /\ Len(s2) = Len(s1) + Len(a3)
        /\ \A i \in 1 .. Len(s1) : s2[i] = s1[i]
        /\ \A i \in 1 .. Len(a3) : s2[Len(s1) + i] = a3[i]
    BY <2>1, ConcatAt, Zenon
  <2> HIDE DEF s2
  <2> QED BY <1>1, <1>3, <2>2
<1> HIDE DEF s2
<1>5. /\ u \in Seq(Byte) /\ Len(u) = 8
      /\ u[1] = 0 /\ u[2] = 68 /\ u[3] = 0 /\ u[4] = 67 /\ u[5] = 1
      /\ u[6] = 10
  <2>1. s2 \in Seq(Byte) /\ a4 \in Seq(Byte)
    BY <1>2, <1>4
  <2>2. /\ u \in Seq(Byte) /\ Len(u) = Len(s2) + Len(a4)
        /\ \A i \in 1 .. Len(s2) : u[i] = s2[i]
        /\ \A i \in 1 .. Len(a4) : u[Len(s2) + i] = a4[i]
    BY <2>1, ConcatAt, Zenon
  <2> HIDE DEF u
  <2> QED BY <1>2, <1>4, <2>2
<1> HIDE DEF u
<1>6. udp_output([buf |-> b, len |-> 258]) =
        [buf |-> Put(b, 34, u), len |-> 266]
  <2>1. 258 + (258 % 2) + UDP = 266 /\ ETHER + IP = 34
    BY SMT DEF ETHER, IP, UDP
  <2>2. udp_output([buf |-> b, len |-> 258]) =
          [buf |-> Put(b, ETHER + IP,
                       HighFirst(68) \o HighFirst(67)
                         \o HighFirst(258 + (258 % 2) + UDP) \o <<0, 0>>),
           len |-> 258 + (258 % 2) + UDP]
    BY DEF udp_output
  <2> QED BY <2>1, <2>2 DEF u, s2, s1, a1, a2, a3, a4
<1>7. UdpHeader(u)
  BY <1>5 DEF UdpHeader
<1> QED BY <1>5, <1>6, <1>7

\* The IP header with sum for its checksum.
Header(sum) ==
  <<69, 16>> \o HighFirst(286) \o <<0, 0, 0, 0, 16, 17>> \o sum
    \o Zeros(4) \o <<255, 255, 255, 255>>

\* The bytes of the IP header, around a checksum.
LEMMA HeaderBytes ==
  ASSUME NEW sum \in Seq(Byte), Len(sum) = 2
  PROVE  /\ Header(sum) \in Seq(Byte) /\ Len(Header(sum)) = 20
         /\ Header(sum)[1] = 69 /\ Header(sum)[2] = 16
         /\ Header(sum)[3] = 1 /\ Header(sum)[4] = 30
         /\ \A i \in 5 .. 8 : Header(sum)[i] = 0
         /\ Header(sum)[9] = 16 /\ Header(sum)[10] = 17
         /\ Header(sum)[11] = sum[1] /\ Header(sum)[12] = sum[2]
         /\ \A i \in 13 .. 16 : Header(sum)[i] = 0
         /\ \A i \in 17 .. 20 : Header(sum)[i] = 255
<1> DEFINE a1 == <<69, 16>>
           a2 == HighFirst(286)
           a3 == <<0, 0, 0, 0, 16, 17>>
           a4 == Zeros(4)
           a5 == <<255, 255, 255, 255>>
           s1 == a1 \o a2
           s2 == s1 \o a3
           s3 == s2 \o sum
           s4 == s3 \o a4
           h == s4 \o a5
<1>1. /\ a1 \in Seq(Byte) /\ Len(a1) = 2 /\ a1[1] = 69 /\ a1[2] = 16
      /\ a3 \in Seq(Byte) /\ Len(a3) = 6
      /\ a3[1] = 0 /\ a3[2] = 0 /\ a3[3] = 0 /\ a3[4] = 0
      /\ a3[5] = 16 /\ a3[6] = 17
      /\ a5 \in Seq(Byte) /\ Len(a5) = 4
      /\ a5[1] = 255 /\ a5[2] = 255 /\ a5[3] = 255 /\ a5[4] = 255
  BY DEF Byte
<1>2. a2 \in Seq(Byte) /\ Len(a2) = 2 /\ a2[1] = 1 /\ a2[2] = 30
  BY HighFirstProperties, SMT
<1>3. /\ a4 \in Seq(Byte) /\ Len(a4) = 4
      /\ a4[1] = 0 /\ a4[2] = 0 /\ a4[3] = 0 /\ a4[4] = 0
  BY DEF Zeros, Byte
<1> HIDE DEF a1, a2, a3, a4, a5
<1>4. /\ s1 \in Seq(Byte) /\ Len(s1) = 4
      /\ s1[1] = 69 /\ s1[2] = 16 /\ s1[3] = 1 /\ s1[4] = 30
  <2>1. a1 \in Seq(Byte) /\ a2 \in Seq(Byte)
    BY <1>1, <1>2
  <2>2. /\ s1 \in Seq(Byte) /\ Len(s1) = Len(a1) + Len(a2)
        /\ \A i \in 1 .. Len(a1) : s1[i] = a1[i]
        /\ \A i \in 1 .. Len(a2) : s1[Len(a1) + i] = a2[i]
    BY <2>1, ConcatAt, Zenon
  <2> HIDE DEF s1
  <2> QED BY <1>1, <1>2, <2>2
<1> HIDE DEF s1
<1>5. /\ s2 \in Seq(Byte) /\ Len(s2) = 10
      /\ s2[1] = 69 /\ s2[2] = 16 /\ s2[3] = 1 /\ s2[4] = 30 /\ s2[5] = 0
      /\ s2[6] = 0 /\ s2[7] = 0 /\ s2[8] = 0 /\ s2[9] = 16 /\ s2[10] = 17
  <2>1. s1 \in Seq(Byte) /\ a3 \in Seq(Byte)
    BY <1>1, <1>4
  <2>2. /\ s2 \in Seq(Byte) /\ Len(s2) = Len(s1) + Len(a3)
        /\ \A i \in 1 .. Len(s1) : s2[i] = s1[i]
        /\ \A i \in 1 .. Len(a3) : s2[Len(s1) + i] = a3[i]
    BY <2>1, ConcatAt, Zenon
  <2> HIDE DEF s2
  <2> QED BY <1>1, <1>4, <2>2
<1> HIDE DEF s2
<1>6. /\ s3 \in Seq(Byte) /\ Len(s3) = 12
      /\ s3[1] = 69 /\ s3[2] = 16 /\ s3[3] = 1 /\ s3[4] = 30 /\ s3[5] = 0
      /\ s3[6] = 0 /\ s3[7] = 0 /\ s3[8] = 0 /\ s3[9] = 16 /\ s3[10] = 17
      /\ s3[11] = sum[1] /\ s3[12] = sum[2]
  <2>1. s2 \in Seq(Byte) /\ sum \in Seq(Byte)
    BY <1>5
  <2>2. /\ s3 \in Seq(Byte) /\ Len(s3) = Len(s2) + Len(sum)
        /\ \A i \in 1 .. Len(s2) : s3[i] = s2[i]
        /\ \A i \in 1 .. Len(sum) : s3[Len(s2) + i] = sum[i]
    BY <2>1, ConcatAt, Zenon
  <2> HIDE DEF s3
  <2> QED BY <1>5, <2>2
<1> HIDE DEF s3
<1>7. /\ s4 \in Seq(Byte) /\ Len(s4) = 16
      /\ s4[1] = 69 /\ s4[2] = 16 /\ s4[3] = 1 /\ s4[4] = 30 /\ s4[5] = 0
      /\ s4[6] = 0 /\ s4[7] = 0 /\ s4[8] = 0 /\ s4[9] = 16 /\ s4[10] = 17
      /\ s4[11] = sum[1] /\ s4[12] = sum[2] /\ s4[13] = 0 /\ s4[14] = 0
      /\ s4[15] = 0
      /\ s4[16] = 0
  <2>1. s3 \in Seq(Byte) /\ a4 \in Seq(Byte)
    BY <1>3, <1>6
  <2>2. /\ s4 \in Seq(Byte) /\ Len(s4) = Len(s3) + Len(a4)
        /\ \A i \in 1 .. Len(s3) : s4[i] = s3[i]
        /\ \A i \in 1 .. Len(a4) : s4[Len(s3) + i] = a4[i]
    BY <2>1, ConcatAt, Zenon
  <2> HIDE DEF s4
  <2> QED BY <1>3, <1>6, <2>2
<1> HIDE DEF s4
<1>8. /\ h \in Seq(Byte) /\ Len(h) = 20
      /\ h[1] = 69 /\ h[2] = 16 /\ h[3] = 1 /\ h[4] = 30 /\ h[5] = 0
      /\ h[6] = 0 /\ h[7] = 0 /\ h[8] = 0 /\ h[9] = 16 /\ h[10] = 17
      /\ h[11] = sum[1] /\ h[12] = sum[2] /\ h[13] = 0 /\ h[14] = 0 /\ h[15] = 0
      /\ h[16] = 0 /\ h[17] = 255 /\ h[18] = 255 /\ h[19] = 255 /\ h[20] = 255
  <2>1. s4 \in Seq(Byte) /\ a5 \in Seq(Byte)
    BY <1>1, <1>7
  <2>2. /\ h \in Seq(Byte) /\ Len(h) = Len(s4) + Len(a5)
        /\ \A i \in 1 .. Len(s4) : h[i] = s4[i]
        /\ \A i \in 1 .. Len(a5) : h[Len(s4) + i] = a5[i]
    BY <2>1, ConcatAt, Zenon
  <2> HIDE DEF h
  <2> QED BY <1>1, <1>7, <2>2
<1> HIDE DEF h
<1>9. Header(sum) = h
  BY Zenon DEF Header, h, s4, s3, s2, s1, a1, a2, a3, a4, a5
<1>10. /\ \A i \in 5 .. 8 : h[i] = 0
       /\ \A i \in 13 .. 16 : h[i] = 0
       /\ \A i \in 17 .. 20 : h[i] = 255
  BY <1>8
<1> QED BY <1>8, <1>9, <1>10

\* The sum of the ten words of an IP header.
LEMMA TotalOfTen ==
  ASSUME NEW w, Len(w) = 10, \A i \in 1 .. 10 : w[i] \in Int
  PROVE  Total(w) = w[1] + w[2] + w[3] + w[4] + w[5]
                      + w[6] + w[7] + w[8] + w[9] + w[10]
<1>1. Len(w) \in Nat
  OBVIOUS
<1>2. PICK f : /\ Total(w) = f[Len(w)] /\ f[0] = 0
               /\ \A i \in 1 .. Len(w) : f[i] = f[i - 1] + w[i]
  BY <1>1, TotalAdds, Zenon
<1>3. /\ f[1] = f[0] + w[1] /\ f[2] = f[1] + w[2] /\ f[3] = f[2] + w[3]
      /\ f[4] = f[3] + w[4] /\ f[5] = f[4] + w[5] /\ f[6] = f[5] + w[6]
      /\ f[7] = f[6] + w[7] /\ f[8] = f[7] + w[8] /\ f[9] = f[8] + w[9]
      /\ f[10] = f[9] + w[10]
  BY <1>2
<1>4. /\ w[1] \in Int /\ w[2] \in Int /\ w[3] \in Int /\ w[4] \in Int
      /\ w[5] \in Int /\ w[6] \in Int /\ w[7] \in Int /\ w[8] \in Int
      /\ w[9] \in Int /\ w[10] \in Int
  OBVIOUS
<1>5. Total(w) = f[10] /\ f[0] = 0
  BY <1>2
<1> QED BY <1>3, <1>4, <1>5, SMT

\* The sum of a header without its checksum, as the machine adds it up.
LEMMA HeaderSum ==
  ASSUME NEW sum \in Seq(Byte), Len(sum) = 2, sum[1] = 0, sum[2] = 0
  PROVE  in_cksum(Header(sum)) = 49321
<1> DEFINE h == Header(sum)
           w == [i \in 1 .. 10 |-> Word(h, i)]
<1>1. /\ Len(h) = 20 /\ h[1] = 69 /\ h[2] = 16 /\ h[3] = 1 /\ h[4] = 30
      /\ h[5] = 0 /\ h[6] = 0 /\ h[7] = 0 /\ h[8] = 0 /\ h[9] = 16 /\ h[10] = 17
      /\ h[11] = 0 /\ h[12] = 0 /\ h[13] = 0 /\ h[14] = 0 /\ h[15] = 0
      /\ h[16] = 0 /\ h[17] = 255 /\ h[18] = 255 /\ h[19] = 255 /\ h[20] = 255
  BY HeaderBytes, SMTT(30)
<1> HIDE DEF h
<1>2. /\ w[1] = 4165 /\ w[2] = 7681 /\ w[3] = 0 /\ w[4] = 0 /\ w[5] = 4368
      /\ w[6] = 0 /\ w[7] = 0 /\ w[8] = 0 /\ w[9] = 65535 /\ w[10] = 65535
  <2>1. ASSUME NEW i \in 1 .. 10 PROVE w[i] = h[2 * i - 1] + 256 * h[2 * i]
    <3>1. Len(h) = 20 /\ 2 * i <= 20
      BY <1>1
    <3>2. Word(h, i) = h[2 * i - 1] + 256 * h[2 * i]
      BY <3>1 DEF Word
    <3> QED BY <3>2
  <2>2. /\ w[1] = h[1] + 256 * h[2] /\ w[2] = h[3] + 256 * h[4]
        /\ w[3] = h[5] + 256 * h[6] /\ w[4] = h[7] + 256 * h[8]
        /\ w[5] = h[9] + 256 * h[10] /\ w[6] = h[11] + 256 * h[12]
        /\ w[7] = h[13] + 256 * h[14] /\ w[8] = h[15] + 256 * h[16]
        /\ w[9] = h[17] + 256 * h[18] /\ w[10] = h[19] + 256 * h[20]
    BY <2>1
  <2> HIDE DEF w
  <2> QED BY <1>1, <2>2, SMT
<1>3. Len(w) = 10
  OBVIOUS
<1>4. Sum(h) = Total(w)
  <2>1. (Len(h) + 1) \div 2 = 10
    BY <1>1, SMT
  <2> QED BY <2>1, Zenon DEF Sum
<1> HIDE DEF w
<1>5. Total(w) = 147284
  <2>1. \A i \in 1 .. 10 : w[i] \in Int
    BY <1>2, SMTT(30)
  <2>2. Total(w) = w[1] + w[2] + w[3] + w[4] + w[5]
                     + w[6] + w[7] + w[8] + w[9] + w[10]
    BY <1>3, <2>1, TotalOfTen, Zenon
  <2> QED BY <1>2, <2>2, SMT
<1>6. Fold(147284) = 16214
  BY SMT DEF Fold
<1> QED BY <1>4, <1>5, <1>6, SMT DEF in_cksum, h

\* The checksum of the header is what a receiver expects.
LEMMA HeaderVerifies ==
  ASSUME NEW sum \in Seq(Byte), Len(sum) = 2, sum[1] = 169, sum[2] = 192
  PROVE  Verifies(Header(sum))
<1> DEFINE h == Header(sum)
           w == [i \in 1 .. 10 |-> 256 * h[2 * i - 1] + h[2 * i]]
<1>1. /\ Len(h) = 20 /\ h[1] = 69 /\ h[2] = 16 /\ h[3] = 1 /\ h[4] = 30
      /\ h[5] = 0 /\ h[6] = 0 /\ h[7] = 0 /\ h[8] = 0 /\ h[9] = 16 /\ h[10] = 17
      /\ h[11] = 169 /\ h[12] = 192 /\ h[13] = 0 /\ h[14] = 0 /\ h[15] = 0
      /\ h[16] = 0 /\ h[17] = 255 /\ h[18] = 255 /\ h[19] = 255 /\ h[20] = 255
  BY HeaderBytes, SMTT(30)
<1> HIDE DEF h
<1>2. /\ w[1] = 17680 /\ w[2] = 286 /\ w[3] = 0 /\ w[4] = 0 /\ w[5] = 4113
      /\ w[6] = 43456 /\ w[7] = 0 /\ w[8] = 0 /\ w[9] = 65535 /\ w[10] = 65535
  <2>1. /\ w[1] = 256 * h[1] + h[2] /\ w[2] = 256 * h[3] + h[4]
        /\ w[3] = 256 * h[5] + h[6] /\ w[4] = 256 * h[7] + h[8]
        /\ w[5] = 256 * h[9] + h[10] /\ w[6] = 256 * h[11] + h[12]
        /\ w[7] = 256 * h[13] + h[14] /\ w[8] = 256 * h[15] + h[16]
        /\ w[9] = 256 * h[17] + h[18] /\ w[10] = 256 * h[19] + h[20]
    OBVIOUS
  <2> HIDE DEF w
  <2> QED BY <1>1, <2>1, SMT
<1>3. Len(w) = 10
  OBVIOUS
<1>4. NetworkSum(h) = Total(w)
  <2>1. Len(h) \div 2 = 10
    BY <1>1, SMT
  <2> QED BY <2>1, Zenon DEF NetworkSum
<1> HIDE DEF w
<1>5. Total(w) = 196605
  <2>1. \A i \in 1 .. 10 : w[i] \in Int
    BY <1>2, SMTT(30)
  <2>2. Total(w) = w[1] + w[2] + w[3] + w[4] + w[5]
                     + w[6] + w[7] + w[8] + w[9] + w[10]
    BY <1>3, <2>1, TotalOfTen, Zenon
  <2> QED BY <1>2, <2>2, SMT
<1>6. OnesSum(196605) = 65535
  BY SMT DEF OnesSum
<1> QED BY <1>4, <1>5, <1>6, SMT DEF Verifies, h

\* The Ethernet header.
EtherHeader(e) ==
  Len(e) = 14 /\ e[13] = 8 /\ e[14] = 0 /\ \A i \in 1 .. 6 : e[6 + i] = mac[i]

\* ether_output writes its header and injects the first 300 bytes.
LEMMA EtherFilled ==
  ASSUME NEW b, mac \in [1 .. 6 -> Byte]
  PROVE  \E e \in Seq(Byte) :
           /\ EtherHeader(e)
           /\ ether_output([buf |-> b, len |-> 286]) =
                SubSeq(Put(b, 0, e), 1, 300)
<1> DEFINE a1 == [i \in 1 .. 6 |-> 255]
           a2 == <<8, 0>>
           s1 == a1 \o mac
           e == s1 \o a2
<1>1. /\ a1 \in Seq(Byte) /\ Len(a1) = 6
      /\ a2 \in Seq(Byte) /\ Len(a2) = 2 /\ a2[1] = 8 /\ a2[2] = 0
  BY DEF Byte
<1>2. mac \in Seq(Byte) /\ Len(mac) = 6
  <2>1. \A n \in Nat : \A s \in [1 .. n -> Byte] : s \in Seq(Byte) /\ Len(s) = n
    OBVIOUS
  <2> QED BY <2>1
<1> HIDE DEF a1, a2
<1>3. /\ s1 \in Seq(Byte) /\ Len(s1) = 12
      /\ \A i \in 1 .. 6 : s1[6 + i] = mac[i]
  <2>1. a1 \in Seq(Byte) /\ mac \in Seq(Byte)
    BY <1>1, <1>2
  <2>2. /\ s1 \in Seq(Byte) /\ Len(s1) = Len(a1) + Len(mac)
        /\ \A i \in 1 .. Len(a1) : s1[i] = a1[i]
        /\ \A i \in 1 .. Len(mac) : s1[Len(a1) + i] = mac[i]
    BY <2>1, ConcatAt, Zenon
  <2> HIDE DEF s1
  <2> QED BY <1>1, <1>2, <2>2
<1> HIDE DEF s1
<1>4. /\ e \in Seq(Byte) /\ Len(e) = 14 /\ e[13] = 8 /\ e[14] = 0
      /\ \A i \in 1 .. 12 : e[i] = s1[i]
  <2>1. s1 \in Seq(Byte) /\ a2 \in Seq(Byte)
    BY <1>1, <1>3
  <2>2. /\ e \in Seq(Byte) /\ Len(e) = Len(s1) + Len(a2)
        /\ \A i \in 1 .. Len(s1) : e[i] = s1[i]
        /\ \A i \in 1 .. Len(a2) : e[Len(s1) + i] = a2[i]
    BY <2>1, ConcatAt, Zenon
  <2> HIDE DEF e
  <2> QED BY <1>1, <1>3, <2>2
<1> HIDE DEF e
<1>5. EtherHeader(e)
  <2>1. ASSUME NEW i \in 1 .. 6 PROVE e[6 + i] = mac[i]
    <3>1. 6 + i \in 1 .. 12
      OBVIOUS
    <3> QED BY <1>3, <1>4, <3>1
  <2> QED BY <1>4, <2>1 DEF EtherHeader
<1>6. ether_output([buf |-> b, len |-> 286]) = SubSeq(Put(b, 0, e), 1, 300)
  <2>1. 286 + ETHER = 300
    BY DEF ETHER
  <2> QED BY <2>1, ZenonT(40) DEF ether_output, e, s1, a1, a2
<1> QED BY <1>4, <1>5, <1>6, ZenonT(40)

\* The IP header, as far as a property looks at it.
IpHeader(h) ==
  Len(h) = 20 /\ h[3] = 1 /\ h[4] = 30 /\ Verifies(h)

\* ip_output writes its header, whose checksum verifies, and adds its length.
LEMMA IpFilled ==
  ASSUME NEW b
  PROVE  \E h \in Seq(Byte) :
           /\ IpHeader(h)
           /\ ip_output([buf |-> b, len |-> 266]) =
                [buf |-> Put(b, 14, h), len |-> 286]
<1> DEFINE none == <<0, 0>>
           sum == LowFirst(49321)
           h == Header(sum)
<1>1. none \in Seq(Byte) /\ Len(none) = 2 /\ none[1] = 0 /\ none[2] = 0
  BY DEF Byte
<1>2. /\ sum \in Seq(Byte) /\ Len(sum) = 2 /\ sum[1] = 169 /\ sum[2] = 192
  <2>1. 49321 % 256 = 169 /\ 49321 \div 256 = 192
    BY SMT
  <2> QED BY <2>1, SMT DEF LowFirst, Byte
<1>3. LowFirst(in_cksum(Header(none))) = sum
  <2> HIDE DEF none
  <2>1. in_cksum(Header(none)) = 49321
    BY <1>1, HeaderSum, SMT
  <2> QED BY <2>1, SMT
<1> HIDE DEF sum
<1>4. Verifies(h)
  BY <1>2, HeaderVerifies, SMT
<1>5. h \in Seq(Byte) /\ Len(h) = 20 /\ h[3] = 1 /\ h[4] = 30
  BY <1>2, HeaderBytes, SMT
<1>6. IpHeader(h)
  BY <1>4, <1>5, SMT DEF IpHeader
<1>7. ip_output([buf |-> b, len |-> 266]) = [buf |-> Put(b, 14, h), len |-> 286]
  <2>1. 266 + IP = 286 /\ ETHER = 14
    BY DEF IP, ETHER
  <2>2. ip_output([buf |-> b, len |-> 266]) =
          [buf |-> Put(b, ETHER, Header(LowFirst(in_cksum(Header(none))))),
           len |-> 266 + IP]
    BY <2>1, SMT DEF ip_output, Header
  <2> QED BY <1>3, <2>1, <2>2, SMT
<1> HIDE DEF h
<1> QED BY <1>5, <1>6, <1>7, SMT

-----------------------------------------------------------------------------
(* The frame as a whole. *)

\* The buffer, some of whose bytes may not be written yet.
IsBuffer(buf) == buf \in Seq(Int) /\ Len(buf) = 320

\* n bytes with a place in the buffer.
HasPlace(bytes, at, n) ==
  /\ bytes \in Seq(Cell) /\ Len(bytes) = n /\ n \in Nat
  /\ at \in Nat /\ at + n <= 320

\* n bytes stand in buf behind the first at.
Stand(buf, bytes, at, n) == \A i \in 1 .. n : buf[at + i] = bytes[i]

\* new is old but for n bytes behind the first at.
SameBut(old, new, at, n) ==
  \A i \in 1 .. 320 : ~(at < i /\ i <= at + n) => new[i] = old[i]

\* What a layer does: a part stands where it belongs and nothing else changes.
LEMMA Laid ==
  ASSUME NEW buf, IsBuffer(buf),
         NEW bytes, NEW at, NEW n, HasPlace(bytes, at, n)
  PROVE  /\ IsBuffer(Put(buf, at, bytes))
         /\ Stand(Put(buf, at, bytes), bytes, at, n)
         /\ SameBut(buf, Put(buf, at, bytes), at, n)
<1>1. buf \in Seq(Int) /\ Len(buf) = 320
  BY DEF IsBuffer
<1>2. /\ bytes \in Seq(Cell) /\ at \in Nat /\ at + Len(bytes) <= 320
      /\ Len(bytes) = n /\ n \in Nat
  BY DEF HasPlace
<1>3. bytes \in Seq(Int)
  <2>1. Cell \subseteq Int
    BY DEF Cell, Byte, Uninitialised
  <2> QED BY <1>2, <2>1, SeqMonotonic, Zenon
<1>4. at + Len(bytes) <= Len(buf)
  BY <1>1, <1>2
<1>5. /\ Put(buf, at, bytes) \in Seq(Int)
      /\ Len(Put(buf, at, bytes)) = Len(buf)
      /\ \A i \in 1 .. Len(buf) :
           Put(buf, at, bytes)[i] =
             IF at < i /\ i <= at + Len(bytes) THEN bytes[i - at] ELSE buf[i]
  <2>1. at \in Nat /\ buf \in Seq(Int)
    BY <1>1, <1>2
  <2> QED BY <2>1, <1>3, <1>4, PutProperties, ZenonT(40)
<1> DEFINE b == Put(buf, at, bytes)
<1>6. /\ b \in Seq(Int) /\ Len(b) = 320
      /\ \A i \in 1 .. 320 :
           b[i] = IF at < i /\ i <= at + n THEN bytes[i - at] ELSE buf[i]
  BY <1>1, <1>2, <1>5, ZenonT(40)
<1>7. n \in Nat /\ at \in Nat /\ at + n <= 320
  BY <1>2
<1> HIDE DEF b
<1>8. ASSUME NEW i \in 1 .. n PROVE b[at + i] = bytes[i]
  <2>1. /\ at + i \in 1 .. 320 /\ at < at + i /\ at + i <= at + n
        /\ (at + i) - at = i
    BY <1>7
  <2>2. \A j \in 1 .. 320 :
          at < j /\ j <= at + n => b[j] = bytes[j - at]
    BY <1>6, Zenon
  <2>3. b[at + i] = bytes[(at + i) - at]
    BY <2>1, <2>2
  <2> QED BY <2>1, <2>3
<1>9. ASSUME NEW i \in 1 .. 320, ~(at < i /\ i <= at + n) PROVE b[i] = buf[i]
  BY <1>6, <1>9
<1>10. IsBuffer(b)
  BY <1>6 DEF IsBuffer
<1>11. Stand(b, bytes, at, n)
  BY <1>8 DEF Stand
<1>12. SameBut(buf, b, at, n)
  BY <1>9 DEF SameBut
<1> QED BY <1>10, <1>11, <1>12 DEF b

\* A part stays when a layer is put before it.
LEMMA StillThere ==
  ASSUME NEW old, NEW new, NEW at \in Nat, NEW n \in Nat,
         SameBut(old, new, at, n),
         NEW bytes, NEW k \in Nat, NEW m \in Nat, at + n <= k, k + m <= 320,
         Stand(old, bytes, k, m)
  PROVE  Stand(new, bytes, k, m)
<1>1. ASSUME NEW i \in 1 .. m PROVE new[k + i] = bytes[i]
  <2>1. k + i \in 1 .. 320 /\ ~(at < k + i /\ k + i <= at + n)
    OBVIOUS
  <2>2. new[k + i] = old[k + i]
    BY <2>1, Zenon DEF SameBut
  <2> QED BY <2>2, Zenon DEF Stand
<1> QED BY <1>1, Zenon DEF Stand

\* The buffer nothing is written to yet.
LEMMA BufferProperties == IsBuffer(Buffer)
BY DEF IsBuffer, Buffer, Uninitialised

\* What a receiver relies on in the frame p of a client with the address mac.
Frame(p) ==
  /\ Len(p) = 300
  /\ p[13] = 8 /\ p[14] = 0
  /\ \A i \in 1 .. 6 : p[6 + i] = mac[i]
  /\ p[17] = 1 /\ p[18] = 30
  /\ Verifies(SubSeq(p, 15, 34))
  /\ p[35] = 0 /\ p[36] = 68 /\ p[37] = 0 /\ p[38] = 67
  /\ p[39] = 1 /\ p[40] = 10
  /\ \A i \in 1 .. 6 : p[70 + i] = mac[i]
  /\ p[283] = 53 /\ p[284] = 1 /\ p[285] = 1 /\ p[286] = 50 /\ p[287] = 4
  /\ p[288] = 192 /\ p[289] = 168 /\ p[290] = 1 /\ p[291] = 10
  /\ p[298] = 255
  /\ \A i \in 1 .. 300 : i \in 77 .. 86 \/ p[i] \in Byte

\* Where the five parts are when each has been written over the last.
LEMMA PartsApart ==
  ASSUME NEW o, NEW d, NEW u, NEW h, NEW e,
         NEW b0, NEW b1, NEW b2, NEW b3, NEW b4, NEW b5,
         Stand(b1, o, 282, 18),
         Stand(b2, d, 42, 240), SameBut(b1, b2, 42, 240),
         Stand(b3, u, 34, 8), SameBut(b2, b3, 34, 8),
         Stand(b4, h, 14, 20), SameBut(b3, b4, 14, 20),
         SameBut(b4, b5, 0, 14)
  PROVE  /\ Stand(b5, h, 14, 20) /\ Stand(b5, u, 34, 8)
         /\ Stand(b5, d, 42, 240) /\ Stand(b5, o, 282, 18)
<1>1. Stand(b2, o, 282, 18)
  BY StillThere, SMT
<1>2. Stand(b3, d, 42, 240) /\ Stand(b3, o, 282, 18)
  BY <1>1, StillThere, SMT
<1>3. Stand(b4, u, 34, 8) /\ Stand(b4, d, 42, 240) /\ Stand(b4, o, 282, 18)
  BY <1>2, StillThere, SMT
<1> QED BY <1>3, StillThere, SMT

\* All that is written is made of bytes but for what is behind the address.
Written(o, d, u, h, e) ==
  /\ o \in [1 .. 18 -> Byte] /\ u \in [1 .. 8 -> Byte]
  /\ h \in [1 .. 20 -> Byte] /\ e \in [1 .. 14 -> Byte]
  /\ d \in [1 .. 240 -> Cell]
  /\ \A j \in 1 .. 240 : j \in 35 .. 44 \/ d[j] \in Byte

AllStand(b, o, d, u, h, e) ==
  /\ Stand(b, e, 0, 14) /\ Stand(b, h, 14, 20) /\ Stand(b, u, 34, 8)
  /\ Stand(b, d, 42, 240) /\ Stand(b, o, 282, 18)

GoesOut(b) == \A i \in 1 .. 300 : b[i] \in Cell /\ (i \in 77 .. 86 \/ b[i] \in Byte)

LEMMA PartsAreBytes ==
  ASSUME NEW o, NEW d, NEW u, NEW h, NEW e, NEW b,
         Written(o, d, u, h, e), AllStand(b, o, d, u, h, e)
  PROVE  GoesOut(b)
<1> SUFFICES ASSUME NEW i \in 1 .. 300
             PROVE  b[i] \in Cell /\ (i \in 77 .. 86 \/ b[i] \in Byte)
  BY Zenon DEF GoesOut
<1>0. /\ o \in [1 .. 18 -> Byte] /\ u \in [1 .. 8 -> Byte]
      /\ h \in [1 .. 20 -> Byte] /\ e \in [1 .. 14 -> Byte]
      /\ d \in [1 .. 240 -> Cell]
      /\ \A j \in 1 .. 240 : j \in 35 .. 44 \/ d[j] \in Byte
  BY Zenon DEF Written
<1>7. /\ Stand(b, e, 0, 14) /\ Stand(b, h, 14, 20) /\ Stand(b, u, 34, 8)
      /\ Stand(b, d, 42, 240) /\ Stand(b, o, 282, 18)
  BY Zenon DEF AllStand
<1> DEFINE Fine == b[i] \in Cell /\ (i \in 77 .. 86 \/ b[i] \in Byte)
<1>1. ASSUME b[i] \in Byte PROVE Fine
  BY <1>1 DEF Cell
<1>2. CASE i \in 1 .. 14
  <2>1. 0 + i = i
    OBVIOUS
  <2> QED BY <1>0, <1>7, <1>1, <1>2, <2>1 DEF Stand
<1>3. CASE i \in 15 .. 34
  <2>1. i - 14 \in 1 .. 20 /\ 14 + (i - 14) = i
    BY <1>3
  <2> QED BY <1>0, <1>7, <1>1, <2>1 DEF Stand
<1>4. CASE i \in 35 .. 42
  <2>1. i - 34 \in 1 .. 8 /\ 34 + (i - 34) = i
    BY <1>4
  <2> QED BY <1>0, <1>7, <1>1, <2>1 DEF Stand
<1>5. CASE i \in 43 .. 282
  <2>1. /\ i - 42 \in 1 .. 240 /\ 42 + (i - 42) = i
        /\ i - 42 \in 35 .. 44 => i \in 77 .. 86
    BY <1>5
  <2>2. b[i] = d[i - 42]
    BY <1>7, <2>1 DEF Stand
  <2> QED BY <1>0, <2>1, <2>2
<1>6. CASE i \in 283 .. 300
  <2>1. i - 282 \in 1 .. 18 /\ 282 + (i - 282) = i
    BY <1>6
  <2> QED BY <1>0, <1>7, <1>1, <2>1 DEF Stand
<1> QED BY <1>2, <1>3, <1>4, <1>5, <1>6

\* The parts as functions, which the solvers see through more easily.
LEMMA AsFunction ==
  ASSUME NEW s, NEW at, NEW n, HasPlace(s, at, n), s \in Seq(Byte)
  PROVE  s \in [1 .. n -> Byte]
<1>1. s \in Seq(Byte) /\ Len(s) = n
  BY DEF HasPlace
<1> QED BY <1>1

\* The same where some may not have been written.
LEMMA AsCells ==
  ASSUME NEW s, NEW at, NEW n, HasPlace(s, at, n)
  PROVE  s \in [1 .. n -> Cell]
<1>1. s \in Seq(Cell) /\ Len(s) = n
  BY DEF HasPlace
<1> QED BY <1>1

\* A buffer indexed from 1 is a sequence.
LEMMA AsSequence ==
  ASSUME NEW n \in Nat, NEW s \in [1 .. n -> Cell]
  PROVE  s \in Seq(Cell) /\ Len(s) = n
OBVIOUS

\* The five parts fit in, and what comes of them.
Fitting(o, d, u, h, e) ==
  /\ HasPlace(o, 282, 18) /\ HasPlace(d, 42, 240) /\ HasPlace(u, 34, 8)
  /\ HasPlace(h, 14, 20) /\ HasPlace(e, 0, 14)
  /\ o \in Seq(Byte) /\ u \in Seq(Byte) /\ h \in Seq(Byte) /\ e \in Seq(Byte)
  /\ \A j \in 1 .. 240 : j \in 35 .. 44 \/ d[j] \in Byte

Assembled(o, d, u, h, e) ==
  Put(Put(Put(Put(Put(Buffer, 282, o), 42, d), 34, u), 14, h), 0, e)

Complete(b, o, d, u, h, e) ==
  /\ IsBuffer(b)
  /\ GoesOut(b)
  /\ Stand(b, e, 0, 14) /\ Stand(b, h, 14, 20) /\ Stand(b, u, 34, 8)
  /\ Stand(b, d, 42, 240) /\ Stand(b, o, 282, 18)

\* None of the five parts overwrites another, and together they are all that
\* goes out.
LEMMA Layers ==
  ASSUME NEW o, NEW d, NEW u, NEW h, NEW e, Fitting(o, d, u, h, e)
  PROVE  Complete(Assembled(o, d, u, h, e), o, d, u, h, e)
<1> DEFINE b1 == Put(Buffer, 282, o)
           b2 == Put(b1, 42, d)
           b3 == Put(b2, 34, u)
           b4 == Put(b3, 14, h)
           b == Assembled(o, d, u, h, e)
<1>0. /\ HasPlace(o, 282, 18) /\ HasPlace(d, 42, 240) /\ HasPlace(u, 34, 8)
      /\ HasPlace(h, 14, 20) /\ HasPlace(e, 0, 14)
  BY DEF Fitting
<1>1. IsBuffer(b1) /\ Stand(b1, o, 282, 18)
  BY <1>0, BufferProperties, Laid, SMT
<1> HIDE DEF b1
<1>2. /\ IsBuffer(b2) /\ Stand(b2, d, 42, 240) /\ SameBut(b1, b2, 42, 240)
  BY <1>0, <1>1, Laid, SMT
<1> HIDE DEF b2
<1>3. IsBuffer(b3) /\ Stand(b3, u, 34, 8) /\ SameBut(b2, b3, 34, 8)
  BY <1>0, <1>2, Laid, SMT
<1> HIDE DEF b3
<1>4. IsBuffer(b4) /\ Stand(b4, h, 14, 20) /\ SameBut(b3, b4, 14, 20)
  BY <1>0, <1>3, Laid, SMT
<1>5. b = Put(b4, 0, e)
  BY SMT DEF b1, b2, b3, Assembled
<1> HIDE DEF b4, b
<1>6. IsBuffer(b) /\ Stand(b, e, 0, 14) /\ SameBut(b4, b, 0, 14)
  BY <1>0, <1>4, <1>5, Laid, SMT
<1>7. /\ Stand(b, h, 14, 20) /\ Stand(b, u, 34, 8)
      /\ Stand(b, d, 42, 240) /\ Stand(b, o, 282, 18)
  BY <1>1, <1>2, <1>3, <1>4, <1>6, PartsApart, SMT
<1>8. /\ o \in [1 .. 18 -> Byte] /\ d \in [1 .. 240 -> Cell]
      /\ u \in [1 .. 8 -> Byte] /\ h \in [1 .. 20 -> Byte]
      /\ e \in [1 .. 14 -> Byte]
  <2>0. /\ o \in Seq(Byte) /\ u \in Seq(Byte) /\ h \in Seq(Byte)
        /\ e \in Seq(Byte)
    BY Zenon DEF Fitting
  <2>1. o \in [1 .. 18 -> Byte]
    BY <1>0, <2>0, AsFunction, ZenonT(40)
  <2>2. d \in [1 .. 240 -> Cell]
    BY <1>0, AsCells, ZenonT(40)
  <2>3. u \in [1 .. 8 -> Byte]
    BY <1>0, <2>0, AsFunction, ZenonT(40)
  <2>4. h \in [1 .. 20 -> Byte]
    BY <1>0, <2>0, AsFunction, ZenonT(40)
  <2>5. e \in [1 .. 14 -> Byte]
    BY <1>0, <2>0, AsFunction, ZenonT(40)
  <2> QED BY <2>1, <2>2, <2>3, <2>4, <2>5, SMT
<1>9. GoesOut(b)
  <2>1. \A j \in 1 .. 240 : j \in 35 .. 44 \/ d[j] \in Byte
    BY Zenon DEF Fitting
  <2>2. Written(o, d, u, h, e)
    BY <1>8, <2>1, Zenon DEF Written
  <2>3. AllStand(b, o, d, u, h, e)
    BY <1>6, <1>7, Zenon DEF AllStand
  <2> QED BY <2>2, <2>3, PartsAreBytes, Zenon
<1>10. Complete(b, o, d, u, h, e)
  BY <1>6, <1>7, <1>9, SMT DEF Complete
<1> QED BY <1>10, SMT DEF b

\* A receiver finds in what is sent what was put together.
LEMMA Received ==
  ASSUME NEW o, NEW d, NEW u, NEW h \in Seq(Byte), NEW e, NEW b,
         Complete(b, o, d, u, h, e),
         Options(o), DhcpMessage(d), UdpHeader(u), IpHeader(h), EtherHeader(e),
         NEW p, p = SubSeq(b, 1, 300)
  PROVE  p \in Seq(Cell) /\ Frame(p)
<1>1. b \in Seq(Int) /\ Len(b) = 320
  BY SMT DEF Complete, IsBuffer
<1>2. p = [i \in 1 .. 300 |-> b[i]]
  BY <1>1
<1>3. /\ p \in [1 .. 300 -> Cell]
      /\ \A i \in 1 .. 300 : i \in 77 .. 86 \/ p[i] \in Byte
  <2>1. \A i \in 1 .. 300 : b[i] \in Cell /\ (i \in 77 .. 86 \/ b[i] \in Byte)
    BY Zenon DEF Complete, GoesOut
  <2> QED BY <1>2, <2>1
<1>4. p \in Seq(Cell) /\ Len(p) = 300
  <2> DEFINE n == 300
  <2>1. n \in Nat
    OBVIOUS
  <2>2. p \in [1 .. n -> Cell]
    BY <1>3
  <2> HIDE DEF n
  <2>3. p \in Seq(Cell) /\ Len(p) = n
    BY <2>1, <2>2, AsSequence, ZenonT(40)
  <2> QED BY <2>3 DEF n
<1>5. /\ Stand(p, e, 0, 14) /\ Stand(p, h, 14, 20) /\ Stand(p, u, 34, 8)
      /\ Stand(p, d, 42, 240) /\ Stand(p, o, 282, 18)
  <2>1. \A i \in 1 .. 300 : p[i] = b[i]
    BY <1>2
  <2>2. ASSUME NEW s, NEW at \in Nat, NEW n \in Nat, at + n <= 300,
               Stand(b, s, at, n)
        PROVE  Stand(p, s, at, n)
    BY <2>1, <2>2, SMT DEF Stand
  <2> QED BY <2>2, SMT DEF Complete
<1>6. p[13] = 8 /\ p[14] = 0 /\ \A i \in 1 .. 6 : p[6 + i] = mac[i]
  <2>1. \A i \in 1 .. 14 : p[0 + i] = e[i]
    BY <1>5, Zenon DEF Stand
  <2>2. p[13] = e[13] /\ p[14] = e[14] /\ \A i \in 1 .. 6 : p[6 + i] = e[6 + i]
    BY <2>1
  <2> QED BY <2>2, ZenonT(40) DEF EtherHeader
<1>7. p[17] = 1 /\ p[18] = 30
  <2>1. \A i \in 1 .. 20 : p[14 + i] = h[i]
    BY <1>5, Zenon DEF Stand
  <2> QED BY <2>1, SMT DEF IpHeader
<1>8. /\ p[35] = 0 /\ p[36] = 68 /\ p[37] = 0 /\ p[38] = 67
      /\ p[39] = 1 /\ p[40] = 10
  <2>1. \A i \in 1 .. 8 : p[34 + i] = u[i]
    BY <1>5, Zenon DEF Stand
  <2> QED BY <2>1, SMT DEF UdpHeader
<1>9. \A i \in 1 .. 6 : p[70 + i] = mac[i]
  <2>1. \A i \in 1 .. 240 : p[42 + i] = d[i]
    BY <1>5, Zenon DEF Stand
  <2>2. \A i \in 1 .. 6 : p[70 + i] = d[28 + i]
    <3>1. ASSUME NEW i \in 1 .. 6 PROVE p[70 + i] = d[28 + i]
      <4>1. 28 + i \in 1 .. 240 /\ 42 + (28 + i) = 70 + i
        OBVIOUS
      <4> QED BY <2>1, <4>1, ZenonT(40)
    <3> QED BY <3>1
  <2>3. \A i \in 1 .. 6 : d[28 + i] = mac[i]
    BY Zenon DEF DhcpMessage
  <2> QED BY <2>2, <2>3
<1>10. /\ p[283] = 53 /\ p[284] = 1 /\ p[285] = 1 /\ p[286] = 50 /\ p[287] = 4
       /\ p[288] = 192 /\ p[289] = 168 /\ p[290] = 1 /\ p[291] = 10
       /\ p[298] = 255
  <2>1. \A i \in 1 .. 18 : p[282 + i] = o[i]
    BY <1>5, Zenon DEF Stand
  <2> QED BY <2>1, SMT DEF Options
<1>11. SubSeq(p, 15, 34) = h
  <2>1. \A i \in 1 .. 20 : p[14 + i] = h[i]
    BY <1>5, Zenon DEF Stand
  <2>2. Len(h) = 20
    BY SMT DEF IpHeader
  <2>3. /\ SubSeq(p, 15, 34) \in Seq(Cell) /\ Len(SubSeq(p, 15, 34)) = 20
        /\ \A i \in 1 .. 20 : SubSeq(p, 15, 34)[i] = p[14 + i]
    BY <1>4
  <2>4. Len(SubSeq(p, 15, 34)) = Len(h)
    BY <2>2, <2>3
  <2>5. \A i \in 1 .. Len(SubSeq(p, 15, 34)) : SubSeq(p, 15, 34)[i] = h[i]
    BY <2>1, <2>3, ZenonT(40)
  <2>6. h \in Seq(Cell)
    BY BytesAreCells
  <2> QED BY <2>3, <2>4, <2>5, <2>6, SeqEqual, ZenonT(40)
<1>12. Verifies(SubSeq(p, 15, 34))
  BY <1>11, Zenon DEF IpHeader
<1>13. /\ Len(p) = 300 /\ p \in Seq(Cell)
       /\ \A i \in 1 .. 300 : i \in 77 .. 86 \/ p[i] \in Byte
  BY <1>3, <1>4, Zenon
<1>14. Frame(p)
  BY <1>6, <1>7, <1>8, <1>9, <1>10, <1>12, <1>13, ZenonT(40) DEF Frame
<1> QED BY <1>13, <1>14, Zenon

\* What the program sends.
LEMMA FrameBuilt ==
  ASSUME mac \in [1 .. 6 -> Byte],
         NEW options, NEW dhcp, NEW udp, NEW datagram,
         options = fill_dhcp_discovery_options([buf |-> Buffer, len |-> 0]),
         dhcp = dhcp_output(options),
         udp = udp_output(dhcp),
         datagram = ip_output(udp)
  PROVE  ether_output(datagram) \in Seq(Cell) /\ Frame(ether_output(datagram))
<1>1. PICK o \in Seq(Byte) :
        Options(o) /\ options = [buf |-> Put(Buffer, 282, o), len |-> 18]
  BY OptionsFilled, SMT
<1> DEFINE b1 == Put(Buffer, 282, o)
<1> HIDE DEF b1
<1>2. PICK d \in Seq(Cell) :
        DhcpMessage(d) /\ dhcp = [buf |-> Put(b1, 42, d), len |-> 258]
  <2>1. options = [buf |-> b1, len |-> 18]
    BY <1>1, SMT DEF b1
  <2> QED BY <2>1, DhcpFilled, SMT
<1> DEFINE b2 == Put(b1, 42, d)
<1> HIDE DEF b2
<1>3. PICK u \in Seq(Byte) :
        UdpHeader(u) /\ udp = [buf |-> Put(b2, 34, u), len |-> 266]
  <2>1. dhcp = [buf |-> b2, len |-> 258]
    BY <1>2, SMT DEF b2
  <2> QED BY <2>1, UdpFilled, SMT
<1> DEFINE b3 == Put(b2, 34, u)
<1> HIDE DEF b3
<1>4. PICK h \in Seq(Byte) :
        IpHeader(h) /\ datagram = [buf |-> Put(b3, 14, h), len |-> 286]
  <2>1. udp = [buf |-> b3, len |-> 266]
    BY <1>3, SMT DEF b3
  <2>2. \E h \in Seq(Byte) :
          /\ IpHeader(h)
          /\ ip_output([buf |-> b3, len |-> 266]) =
               [buf |-> Put(b3, 14, h), len |-> 286]
    BY IpFilled, ZenonT(40)
  <2>3. datagram = ip_output([buf |-> b3, len |-> 266])
    BY <2>1, Zenon
  <2> QED BY <2>2, <2>3
<1> DEFINE b4 == Put(b3, 14, h)
<1> HIDE DEF b4
<1>5. PICK e \in Seq(Byte) :
        EtherHeader(e) /\ ether_output(datagram) = SubSeq(Put(b4, 0, e), 1, 300)
  <2>1. datagram = [buf |-> b4, len |-> 286]
    BY <1>4, SMT DEF b4
  <2>2. \E e \in Seq(Byte) :
          /\ EtherHeader(e)
          /\ ether_output([buf |-> b4, len |-> 286]) =
               SubSeq(Put(b4, 0, e), 1, 300)
    BY EtherFilled, ZenonT(40)
  <2>3. ether_output(datagram) = ether_output([buf |-> b4, len |-> 286])
    BY <2>1, Zenon
  <2> QED BY <2>2, <2>3, ZenonT(40)
<1> DEFINE b == Assembled(o, d, u, h, e)
           p == ether_output(datagram)
<1>6. Fitting(o, d, u, h, e)
  <2>1. /\ Len(o) = 18 /\ Len(u) = 8 /\ Len(h) = 20 /\ Len(e) = 14
        /\ Len(d) = 240 /\ \A j \in 1 .. 240 : j \in 35 .. 44 \/ d[j] \in Byte
    BY <1>1, <1>2, <1>3, <1>4, <1>5, SMT
    DEF Options, DhcpMessage, UdpHeader, IpHeader, EtherHeader
  <2>2. /\ o \in Seq(Cell) /\ u \in Seq(Cell) /\ h \in Seq(Cell)
        /\ e \in Seq(Cell) /\ d \in Seq(Cell)
    BY <1>1, <1>2, <1>3, <1>4, <1>5, BytesAreCells
  <2>3. /\ HasPlace(o, 282, 18) /\ HasPlace(d, 42, 240) /\ HasPlace(u, 34, 8)
        /\ HasPlace(h, 14, 20) /\ HasPlace(e, 0, 14)
    BY <2>1, <2>2, SMT DEF HasPlace
  <2> QED BY <2>1, <2>3, Zenon DEF Fitting
<1>7. Complete(b, o, d, u, h, e)
  BY <1>6, Layers, Zenon
<1>8. p = SubSeq(b, 1, 300)
  <2>1. b = Put(b4, 0, e)
    BY SMTT(30) DEF Assembled, b1, b2, b3, b4
  <2>2. p = SubSeq(Put(b4, 0, e), 1, 300)
    BY <1>5
  <2> HIDE DEF b, p
  <2> QED BY <2>1, <2>2
<1> HIDE DEF b, p
<1>9. p \in Seq(Cell) /\ Frame(p)
  BY <1>1, <1>2, <1>3, <1>4, <1>5, <1>7, <1>8, Received, ZenonT(40)
<1> QED BY <1>9, Zenon DEF p

-----------------------------------------------------------------------------
(* The invariant: the address is one of the interface's from the time it is   *)
(* read on, nothing has been sent before, and what has been sent is a frame   *)
(* with that address in it.                                                   *)

SenderInv ==
  /\ pc \in {"mac", "open", "discover", "loop", "done", "failed"}
  /\ pc \in {"mac", "open", "discover", "failed"} => packet = <<>>
  /\ pc \in {"mac", "failed"} \/ mac \in Macs
  /\ handle \in BOOLEAN
  /\ captured \in Seq(Frames) /\ Len(captured) <= QueueLimit
  /\ packet \in Seq(Cell)
  /\ packet # <<>> => mac \in Macs /\ Frame(packet)

\* Sending is the only step that changes what was sent.
LEMMA SendingKeeps ==
  ASSUME SenderInv, dhcp_discovery
  PROVE  SenderInv'
<1>1. pc = "discover" /\ pc' = "loop" /\ mac \in Macs /\ mac' = mac
  BY DEF SenderInv, dhcp_discovery
<1>2. packet' \in Seq(Cell) /\ (packet' # <<>> => Frame(packet'))
  <2>1. CASE packet' = packet
    BY <1>1, <2>1 DEF SenderInv
  <2>2. CASE packet' # packet
    <3>1. \E options \in
                 {fill_dhcp_discovery_options([buf |-> Buffer, len |-> 0])} :
            \E dhcp \in {dhcp_output(options)} :
            \E udp \in {udp_output(dhcp)} :
            \E datagram \in {ip_output(udp)} :
              packet' = ether_output(datagram)
      BY <2>2, Zenon DEF dhcp_discovery
    <3>2. PICK options, dhcp, udp, datagram :
            /\ options =
                 fill_dhcp_discovery_options([buf |-> Buffer, len |-> 0])
            /\ dhcp = dhcp_output(options)
            /\ udp = udp_output(dhcp)
            /\ datagram = ip_output(udp)
            /\ packet' = ether_output(datagram)
      BY <3>1, Zenon
    <3>3. mac \in [1 .. 6 -> Byte]
      BY <1>1, SimpleAssumption, Zenon
    <3> QED BY <3>2, <3>3, FrameBuilt, Zenon
  <2> QED BY <2>1, <2>2
<1>3. Frame(packet') => Frame(packet)'
  BY <1>1 DEF Frame
<1> QED BY <1>1, <1>2, <1>3 DEF SenderInv, dhcp_discovery

\* A queue that is empty is not too long.
LEMMA NothingKept == <<>> \in Seq(Frames) /\ Len(<<>>) <= QueueLimit
<1>1. QueueLimit \in Nat
  BY SimpleAssumption
<1> QED BY <1>1

\* Every step preserves the invariant.
LEMMA StepKeeps == SenderInv /\ [Next]_vars => SenderInv'
<1> SUFFICES ASSUME SenderInv, [Next]_vars
             PROVE  SenderInv'
  OBVIOUS
<1>1. mac' = mac /\ packet' = packet => (packet # <<>> => Frame(packet))'
  BY DEF SenderInv, Frame
<1>2. CASE get_mac_address
  BY <1>1, <1>2 DEF SenderInv, get_mac_address
<1>3. CASE pcap_open_live
  BY <1>1, <1>3 DEF SenderInv, pcap_open_live
<1>4. CASE dhcp_discovery
  BY <1>4, SendingKeeps
<1>5. CASE ether_input
  <2>1. captured' \in Seq(Frames) /\ Len(captured') <= QueueLimit
    BY <1>5, SimpleAssumption DEF SenderInv, ether_input
  <2> QED BY <1>1, <1>5, <2>1 DEF SenderInv, ether_input
<1>6. CASE pcap_close
  <2>1. captured' \in Seq(Frames) /\ Len(captured') <= QueueLimit
    BY <1>6, NothingKept DEF pcap_close
  <2> QED BY <1>1, <1>6, <2>1 DEF SenderInv, pcap_close
<1>7. CASE \E f \in Frames : Pass(f)
  <2>1. PICK f \in Frames : Pass(f)
    BY <1>7
  <2>2. captured' \in Seq(Frames) /\ Len(captured') <= QueueLimit
    BY <2>1, SimpleAssumption DEF SenderInv, Pass
  <2> QED BY <1>1, <2>1, <2>2 DEF SenderInv, Pass
<1>8. CASE UNCHANGED vars
  BY <1>1, <1>8 DEF SenderInv, vars
<1> QED BY <1>2, <1>3, <1>4, <1>5, <1>6, <1>7, <1>8 DEF Next, Step

\* The invariant holds in every reachable state.
LEMMA InvHolds == Spec => []SenderInv
<1>1. Init => SenderInv
  <2> SUFFICES ASSUME Init PROVE SenderInv
    OBVIOUS
  <2>1. captured \in Seq(Frames) /\ Len(captured) <= QueueLimit
    BY NothingKept DEF Init
  <2>2. packet \in Seq(Cell)
    BY DEF Init
  <2> QED BY <2>1, <2>2 DEF Init, SenderInv
<1> QED BY <1>1, StepKeeps, PTL DEF Spec

\* Every variable keeps its type, and of the bytes that go out the ten behind
\* mac[6], no more, have not been written: what dhcp_output copies without
\* looking at the length of the address.
THEOREM TypeCorrect == Spec => []TypeOK
<1>1. SenderInv => TypeOK
  <2> SUFFICES ASSUME SenderInv
               PROVE  \A i \in DOMAIN packet \ AddressRest : packet[i] \in Byte
    BY DEF SenderInv, TypeOK
  <2>1. CASE packet = <<>>
    BY <2>1
  <2>2. CASE packet # <<>>
    <3>1. packet \in Seq(Cell) /\ Frame(packet)
      BY <2>2, Zenon DEF SenderInv
    <3>2. /\ DOMAIN packet = 1 .. 300
          /\ \A i \in 1 .. 300 : i \in 77 .. 86 \/ packet[i] \in Byte
      BY <3>1, SMT DEF Frame
    <3>3. AddressRest = 77 .. 86
      BY DEF AddressRest, ETHER, IP, UDP
    <3> QED BY <3>2, <3>3
  <2> QED BY <2>1, <2>2
<1> QED BY <1>1, InvHolds, PTL

\* n bytes of s from the at-th on.
LEMMA Window ==
  ASSUME NEW s \in Seq(Cell), NEW at \in Nat, NEW n \in Nat, at + n <= Len(s)
  PROVE  /\ SubSeq(s, at + 1, at + n) \in Seq(Cell)
         /\ Len(SubSeq(s, at + 1, at + n)) = n
         /\ \A i \in 1 .. n : SubSeq(s, at + 1, at + n)[i] = s[at + i]
OBVIOUS

\* What goes out is a DISCOVER others can read, for every address and whatever
\* the ten bytes behind mac[6] are.
THEOREM FrameAlwaysWellFormed == Spec => []FrameWellFormed
<1>1. SenderInv => FrameWellFormed
  <2> SUFFICES ASSUME SenderInv, packet # <<>>
               PROVE  /\ Bytes(6, 6) = mac /\ Number(12) = 2048
                      /\ Len(packet) = ETHER + Number(ETHER + 2)
                      /\ Number(ETHER + 2) = IP + Number(ETHER + IP + 4)
                      /\ Verifies(Bytes(ETHER, IP))
                      /\ Number(ETHER + IP) = 68 /\ Number(ETHER + IP + 2) = 67
                      /\ Bytes(ETHER + IP + UDP + 28, 6) = mac
                      /\ Bytes(ETHER + IP + UDP + DHCP, 9) =
                           <<53, 1, 1, 50, 4, 192, 168, 1, 10>>
                      /\ packet[Len(packet) - 2] = 255
    BY Zenon DEF FrameWellFormed
  <2>1. packet \in Seq(Cell) /\ Frame(packet) /\ mac \in [1 .. 6 -> Byte]
    BY SimpleAssumption, Zenon DEF SenderInv
  <2>2. Len(packet) = 300
    BY <2>1, SMT DEF Frame
  <2>3. Number(12) = 2048 /\ Number(16) = 286 /\ Number(38) = 266
        /\ Number(34) = 68 /\ Number(36) = 67 /\ packet[298] = 255
    <3>1. /\ packet[13] = 8 /\ packet[14] = 0
          /\ packet[17] = 1 /\ packet[18] = 30
          /\ packet[35] = 0 /\ packet[36] = 68 /\ packet[37] = 0
          /\ packet[38] = 67 /\ packet[39] = 1 /\ packet[40] = 10
          /\ packet[298] = 255
      BY <2>1, SMT DEF Frame
    <3> QED BY <3>1, SMTT(30) DEF Number
  <2>4. ASSUME NEW at \in Nat, at + 6 <= 300,
               \A i \in 1 .. 6 : packet[at + i] = mac[i]
        PROVE  Bytes(at, 6) = mac
    <3>1. /\ SubSeq(packet, at + 1, at + 6) \in Seq(Cell)
          /\ Len(SubSeq(packet, at + 1, at + 6)) = 6
          /\ \A i \in 1 .. 6 :
               SubSeq(packet, at + 1, at + 6)[i] = packet[at + i]
      <4>1. packet \in Seq(Cell) /\ Len(packet) = 300
        BY <2>1, <2>2 DEF Frame
      <4>2. \A i \in at + 1 .. at + 6 : packet[i] \in Cell
        <5>1. ASSUME NEW i \in at + 1 .. at + 6 PROVE packet[i] \in Cell
          <6>1. i \in 1 .. Len(packet)
            BY <2>4, <4>1
          <6>2. packet \in Seq(Cell)
            BY <4>1
          <6> QED BY <6>1, <6>2, ElementOfSeq, Zenon
        <5> QED BY <5>1
      <4>3. at + 1 \in Int /\ at + 6 \in Int /\ at + 1 <= at + 6
        BY <2>4
      <4>4. /\ SubSeq(packet, at + 1, at + 6) \in Seq(Cell)
            /\ Len(SubSeq(packet, at + 1, at + 6)) = (at + 6) - (at + 1) + 1
            /\ \A i \in 1 .. (at + 6) - (at + 1) + 1 :
                 SubSeq(packet, at + 1, at + 6)[i] = packet[at + 1 + i - 1]
        BY <4>2, <4>3, SubSeqProperties
      <4>5. /\ (at + 6) - (at + 1) + 1 = 6
            /\ \A i \in 1 .. 6 : at + 1 + i - 1 = at + i
        BY <2>4
      <4> QED BY <4>4, <4>5
    <3>2. mac \in Seq(Cell) /\ Len(mac) = 6
      <4>1. mac \in [1 .. 6 -> Byte]
        BY <2>1
      <4>2. \A n \in Nat : \A s \in [1 .. n -> Byte] :
              s \in Seq(Byte) /\ Len(s) = n
        OBVIOUS
      <4>3. mac \in Seq(Byte) /\ Len(mac) = 6
        BY <4>1, <4>2
      <4> QED BY <4>3, BytesAreCells, Zenon
    <3>3. Len(Bytes(at, 6)) = Len(mac)
      BY <3>1, <3>2 DEF Bytes
    <3>4. \A i \in 1 .. Len(Bytes(at, 6)) : Bytes(at, 6)[i] = mac[i]
      BY <2>4, <3>1 DEF Bytes
    <3>5. Bytes(at, 6) \in Seq(Cell)
      BY <3>1 DEF Bytes
    <3> QED BY <3>2, <3>3, <3>4, <3>5, SeqEqual, Zenon
  <2>5. Bytes(6, 6) = mac /\ Bytes(70, 6) = mac
    <3>1. /\ \A i \in 1 .. 6 : packet[6 + i] = mac[i]
          /\ \A i \in 1 .. 6 : packet[70 + i] = mac[i]
      BY <2>1, Zenon DEF Frame
    <3> QED BY <2>4, <3>1
  <2>6. Verifies(Bytes(14, 20))
    BY <2>1, SMT DEF Frame, Bytes
  <2>7. Bytes(282, 9) = <<53, 1, 1, 50, 4, 192, 168, 1, 10>>
    <3> DEFINE t == <<53, 1, 1, 50, 4, 192, 168, 1, 10>>
    <3>1. /\ t \in Seq(Int) /\ Len(t) = 9
          /\ t[1] = 53 /\ t[2] = 1 /\ t[3] = 1 /\ t[4] = 50 /\ t[5] = 4
          /\ t[6] = 192 /\ t[7] = 168 /\ t[8] = 1 /\ t[9] = 10
      OBVIOUS
    <3> DEFINE w == Bytes(282, 9)
    <3>2. /\ w \in Seq(Cell) /\ Len(w) = 9
          /\ \A i \in 1 .. 9 : w[i] = packet[282 + i]
      <4>1. 282 \in Nat /\ 9 \in Nat /\ 282 + 9 <= Len(packet)
        BY <2>2
      <4> QED BY <2>1, <4>1, Window DEF Bytes
    <3> HIDE DEF t, w
    <3>3. \A i \in 1 .. 9 : w[i] = t[i]
      <4>1. /\ packet[283] = 53 /\ packet[284] = 1 /\ packet[285] = 1
            /\ packet[286] = 50 /\ packet[287] = 4 /\ packet[288] = 192
            /\ packet[289] = 168 /\ packet[290] = 1 /\ packet[291] = 10
        BY <2>1, SMT DEF Frame
      <4>2. \A i \in 1 .. 9 : w[i] = packet[282 + i]
        BY <3>2
      <4>3. /\ w[1] = 53 /\ w[2] = 1 /\ w[3] = 1 /\ w[4] = 50 /\ w[5] = 4
            /\ w[6] = 192 /\ w[7] = 168 /\ w[8] = 1 /\ w[9] = 10
        BY <4>1, <4>2, SMTT(30)
      <4>4. /\ t[1] = 53 /\ t[2] = 1 /\ t[3] = 1 /\ t[4] = 50 /\ t[5] = 4
            /\ t[6] = 192 /\ t[7] = 168 /\ t[8] = 1 /\ t[9] = 10
        BY <3>1
      <4>5. \A i \in 1 .. 9 : i \in {1, 2, 3, 4, 5, 6, 7, 8, 9}
        OBVIOUS
      <4> QED BY <4>3, <4>4, <4>5
    <3>4. w \in Seq(Int) /\ t \in Seq(Int)
      <4>1. Cell \subseteq Int
        BY DEF Cell, Byte, Uninitialised
      <4>2. w \in Seq(Cell) /\ t \in Seq(Int)
        BY <3>1, <3>2
      <4> QED BY <4>1, <4>2, SeqMonotonic, Zenon
    <3>5. Len(w) = Len(t) /\ \A i \in 1 .. Len(w) : w[i] = t[i]
      <4>1. Len(w) = 9 /\ Len(t) = 9
        BY <3>1, <3>2
      <4> QED BY <3>3, <4>1
    <3>6. w = t
      BY <3>4, <3>5, SeqEqual, Zenon
    <3> QED BY <3>6 DEF t, w
  <2>8. /\ ETHER + 2 = 16 /\ ETHER + IP = 34 /\ ETHER + IP + 2 = 36
        /\ ETHER + IP + 4 = 38 /\ ETHER + IP + UDP + 28 = 70
        /\ ETHER + IP + UDP + DHCP = 282
    BY DEF ETHER, IP, UDP, DHCP
  <2>9. Number(12) = 2048 /\ Number(ETHER + IP) = 68 /\ Number(ETHER + IP + 2) = 67
    BY <2>3, <2>8
  <2>10. /\ Len(packet) = ETHER + Number(ETHER + 2)
         /\ Number(ETHER + 2) = IP + Number(ETHER + IP + 4)
    <3>1. Number(ETHER + 2) = 286 /\ Number(ETHER + IP + 4) = 266
      BY <2>3, <2>8
    <3>2. 300 = ETHER + 286 /\ 286 = IP + 266
      BY DEF ETHER, IP
    <3> QED BY <2>2, <3>1, <3>2
  <2>11. Verifies(Bytes(ETHER, IP))
    <3>1. ETHER = 14 /\ IP = 20
      BY DEF ETHER, IP
    <3> QED BY <2>6, <3>1
  <2>12. Bytes(6, 6) = mac /\ Bytes(ETHER + IP + UDP + 28, 6) = mac
    BY <2>5, <2>8
  <2>13. Bytes(ETHER + IP + UDP + DHCP, 9) = <<53, 1, 1, 50, 4, 192, 168, 1, 10>>
    BY <2>7, <2>8
  <2>14. packet[Len(packet) - 2] = 255
    <3> DEFINE j == Len(packet) - 2
               z == 298
    <3>1. j = z
      BY <2>2
    <3>2. packet[z] = 255
      BY <2>3, SMT
    <3> HIDE DEF j, z
    <3>3. packet[j] = 255
      BY <3>1, <3>2, Zenon
    <3> QED BY <3>3 DEF j
  <2> QED BY <2>9, <2>10, <2>11, <2>12, <2>13, <2>14
<1> QED BY <1>1, InvHolds, PTL
=============================================================================
