-------------------------------- MODULE Ghash --------------------------------
(***************************************************************************)
(* Ghash() of libs/uAES/src/uaes.c: the product of a block and the hash    *)
(* key in GF(2^128), computed bit by bit in four 32-bit words.             *)
(***************************************************************************)
EXTENDS Bits

CONSTANT Factors   \* pairs [key, input] of blocks, bytes 0 .. 15

VARIABLES
  input, key,
  hash_key,   \* as words, from DataToGhashState()
  buf,        \* the words
  turn,       \* how many bits of the input have been taken
  output      \* the block that is returned, <<>> before

vars == <<input, key, hash_key, buf, turn, output>>

Words == 0 .. 3

-----------------------------------------------------------------------------
(* The field, NIST SP 800-38D: an element is the set of the powers of x in  *)
(* it, the first bit of a block, the highest of its first byte, is x^0.     *)

Element(block) == {e \in 0 .. 127 : 7 - (e % 8) \in block[e \div 8]}

\* x^128 = x^7 + x^2 + x + 1
Folded(p) ==
  LET h == Down(p, 128)
  IN Xor(Low(p, 128), Xor(Xor(Up(h, 7), Up(h, 2)), Xor(Up(h, 1), h)))

Product(a, b) ==
  Folded(Folded({e \in 0 .. 254 : Cardinality({i \in a : e - i \in b}) % 2 = 1}))

-----------------------------------------------------------------------------

\* Mutant of DataToGhashState: the first byte is the lowest.
DataToGhashStateLittle(data) ==
  [i \in Words |-> UNION {Up(data[4 * i + j], 8 * j) : j \in 0 .. 3}]

DataToGhashState(data) ==
  [i \in Words |-> UNION {Up(data[4 * i + j], 8 * (3 - j)) : j \in 0 .. 3}]

GhashStateToData(u32) ==
  [n \in 0 .. 15 |-> Low(Down(u32[n \div 4], 8 * (3 - (n % 4))), 8)]

\* The words shifted to the right, as one number; buf[0] is its highest word.
Shift1(w) ==
  [i \in Words |-> Down(w[i], 1) \cup (IF i > 0 /\ 0 \in w[i - 1] THEN {31} ELSE {})]

\* Mutant of Polynomial: E1h is put into the low byte.
PolynomialLow == {7, 6, 5, 0}

Polynomial == {31, 30, 29, 24}

Init ==
  /\ \E f \in Factors : input = f.input /\ key = f.key
  /\ hash_key = DataToGhashState(key)
  /\ buf = [i \in Words |-> {}] /\ turn = 0 /\ output = <<>>

\* The input is taken from the lowest bit of its last byte on.
NextBit ==
  /\ turn < 128
  /\ LET s == Shift1(buf)
         r == IF 0 \in buf[3] THEN [s EXCEPT ![0] = Xor(@, Polynomial)] ELSE s
     IN buf' = IF turn % 8 \in input[15 - turn \div 8]
               THEN [i \in Words |-> Xor(r[i], hash_key[i])] ELSE r
  /\ turn' = turn + 1
  /\ UNCHANGED <<input, key, hash_key, output>>

Return ==
  /\ turn = 128 /\ output = <<>>
  /\ output' = GhashStateToData(buf)
  /\ UNCHANGED <<input, key, hash_key, buf, turn>>

Next == NextBit \/ Return

Spec == Init /\ [][Next]_vars

-----------------------------------------------------------------------------
(***************************************************************************)
(* Properties                                                              *)
(***************************************************************************)

\* After each bit the words hold the key times what has been taken of the input, divided
\* by the power of x that is still to come: no carry between words is lost.
Horner ==
  LET taken == {e \in Element(input) : e >= 128 - turn}
  IN Element(GhashStateToData(buf)) = Product({e - (128 - turn) : e \in taken}, Element(key))

\* What is returned is the product in the field.
ProductRight == output # <<>> => Element(output) = Product(Element(input), Element(key))
=============================================================================
