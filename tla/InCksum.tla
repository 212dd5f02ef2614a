------------------------------ MODULE InCksum ------------------------------
(***************************************************************************)
(* in_cksum of simple-dhcp-client.c, the checksum of an IP header, as it   *)
(* runs on a machine that keeps the low byte of a word first.              *)
(***************************************************************************)
EXTENDS Integers, Sequences

Byte == 0 .. 255

\* The 16-bit words of a sequence of bytes, the low byte first; an odd byte at
\* the end is the low byte of a last word.
Word(bytes, i) ==
  bytes[2 * i - 1] + (IF 2 * i <= Len(bytes) THEN 256 * bytes[2 * i] ELSE 0)

\* The sum of a sequence of words, which the loop adds up in sum.
Total(words) ==
  LET add[i \in 0 .. Len(words)] ==
        IF i = 0 THEN 0 ELSE add[i - 1] + words[i]
  IN  add[Len(words)]

Sum(bytes) ==
  Total([i \in 1 .. (Len(bytes) + 1) \div 2 |-> Word(bytes, i)])

\* The _Xxx operators are variants with a slip a programmer could make.
Fold_Once(sum) == ((sum \div 65536) + (sum % 65536)) % 65536

\* The two folds, and the truncation to 16 bits.
Fold(sum) ==
  LET once == (sum \div 65536) + (sum % 65536)
  IN  (once + once \div 65536) % 65536

\* ~sum, truncated.
in_cksum(bytes) == 65535 - Fold(Sum(bytes))

\* How the program stores a word.
LowFirst(n) == <<n % 256, n \div 256>>

-----------------------------------------------------------------------------
\* The sum of 16-bit words with end-around carry, RFC 1071: zero for zero and
\* otherwise the number from 1 to 65535 that is congruent modulo 65535.
OnesSum(sum) == IF sum = 0 THEN 0 ELSE ((sum - 1) % 65535) + 1

\* The words as the network has them, the high byte first.
NetworkSum(bytes) ==
  Total([i \in 1 .. Len(bytes) \div 2 |->
           256 * bytes[2 * i - 1] + bytes[2 * i]])

\* What a receiver checks of an even number of bytes.
Verifies(bytes) == OnesSum(NetworkSum(bytes)) = 65535

\* bytes with a zero byte behind an odd one, and the checksum as it is stored.
Checked(bytes) ==
  bytes \o (IF Len(bytes) % 2 = 1 THEN <<0>> ELSE <<>>)
        \o LowFirst(in_cksum(bytes))
=============================================================================
