-------------------------------- MODULE Bits --------------------------------
(***************************************************************************)
(* Unsigned numbers as the sets of their bits that are 1.                  *)
(***************************************************************************)
EXTENDS Integers, FiniteSets, Sequences
Sets == INSTANCE FiniteSetsExt

Bytes == SUBSET (0 .. 7)

Xor(a, b) == (a \ b) \cup (b \ a)

\* Shifts to the left and to the right, and the n lowest bits.
Up(a, n) == {i + n : i \in a}
Down(a, n) == {i - n : i \in {j \in a : j >= n}}
Low(a, n) == {i \in a : i < n}

Less(a, b) == a # b /\ Sets!Max(Xor(a, b)) \in b

\* Numbers below 2^16 and their bits.
Bit(n, i) == (n \div 2 ^ i) % 2
BitsOf(n) == {i \in 0 .. 15 : Bit(n, i) = 1}
Byte(n) == {i \in 0 .. 7 : Bit(n, i) = 1}
Value(a) == Sets!MapThenSumSet(LAMBDA i : 2 ^ i, a)
=============================================================================
