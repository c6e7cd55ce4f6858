------------------------------- MODULE Blocks -------------------------------
(***************************************************************************)
(* Bytes and blocks as the modes of operation in libs/uAES/src/uaes.c see  *)
(* them.  Nothing is known of the cipher but that it can be inverted, so   *)
(* what it returns is written down, not computed: a byte is the set of the *)
(* terms it is the exclusive or of, and byte k of an encrypted block b is  *)
(* the term E of b and k.  What holds of these bytes holds for every       *)
(* cipher, every key and every message.  A block has B bytes, 16 in the    *)
(* code, and a digit of a number is less than R, 256 there.                *)
(***************************************************************************)
EXTENDS Integers, Sequences

CONSTANTS B, R

BlocksAssumption == B \in Nat \ {0} /\ R \in Nat \ {0, 1}

Pos == 0 .. B - 1

Term(name, b, k) == <<name, b, k>>

Zero == {}
Xor(a, b) == (a \ b) \cup (b \ a)

\* XorBlocks()
XorBlocks(b1, b2) == [k \in Pos |-> Xor(b1[k], b2[k])]

ZeroBlock == [k \in Pos |-> Zero]

\* A block in memory.
Loaded(m, at) == [k \in Pos |-> m[at + k]]
Stored(m, at, b) == [a \in DOMAIN m |-> IF a - at \in Pos THEN b[a - at] ELSE m[a]]

\* Names of bytes whose value does not matter.
Named(name, k) == {Term(name, <<>>, k)}

\* Bytes that are numbers: the bits of d.  An exclusive or of numbers is one.
Digit(d) == {Term("bit", <<>>, i) : i \in {j \in 0 .. 7 : (d \div 2 ^ j) % 2 = 1}}

Cipher(b) == [k \in Pos |-> {Term("E", b, k)}]

\* The inverse of E; of a block that is none of its values nothing is known.
InvCipher(c) ==
  LET args == {t[2] : t \in {u \in UNION {c[k] : k \in Pos} : u[1] = "E"}}
      x == CHOOSE b \in args : TRUE
  IN IF args # {} /\ c = Cipher(x) THEN x ELSE [k \in Pos |-> {Term("D", c, k)}]

\* Mutant of Increased: the carry is lost.
IncreasedNoCarry(counter) == [counter EXCEPT ![B - 1] = (@ + 1) % R]

\* The counter of IterateKeyStream(), a number in big-endian digits, plus 1.
Increased(counter) ==
  LET full(k) == \A j \in k + 1 .. B - 1 : counter[j] = R - 1
  IN [k \in Pos |-> IF full(k) THEN (counter[k] + 1) % R ELSE counter[k]]

\* A number shifted to the right, digit after digit, until k of them have gone.
Shifted(x, k) ==
  LET rest[j \in 0 .. k] == IF j = 0 THEN x ELSE rest[j - 1] \div R
  IN rest[k]

Digits(counter) == [k \in Pos |-> Digit(counter[k])]
=============================================================================
