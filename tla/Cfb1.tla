-------------------------------- MODULE Cfb1 --------------------------------
(***************************************************************************)
(* CFB with segments of one bit, CFB1_Xcrypt() of libs/uAES/src/uaes.c.    *)
(* A message is encrypted in place by one call or more, each from a byte   *)
(* of its own on, and then decrypted by the same calls.  A bit is the set  *)
(* of the terms it is the exclusive or of; of the cipher only the first    *)
(* bit of what it returns matters, Top of the block.                       *)
(***************************************************************************)
EXTENDS Integers, Sequences

CONSTANTS
  W,          \* bits in a byte, 8 in the code
  P,          \* values of byte_pos, an uint8_t: 256 in the code
  N,          \* bits in a block, 128 in the code
  Size,       \* bytes in the message's buffer
  Lengths,    \* of the calls, in bits
  Data(_),    \* the bits of the buffer
  IV(_),
  Top(_)

Cfb1Assumption == {W, P, N, Size} \subseteq Nat \ {0} /\ Lengths \subseteq Nat \ {0}

VARIABLES
  phase,         \* "encrypt", "decrypt"
  buf,           \* the bits of the buffer, byte by byte from the highest bit on
  input_block,   \* the bits of the context's block
  bit_len,       \* of the call that runs, 0 between calls
  i,             \* the bit it has come to
  at,            \* the byte it began at
  calls,         \* the lengths of the calls that encrypted
  done           \* how many calls have ended in this phase

vars == <<phase, buf, input_block, bit_len, i, at, calls, done>>

Xor(a, b) == (a \ b) \cup (b \ a)

Start == [k \in 1 .. N |-> IV(k)]

\* The bytes that a call of n bits covers.
Covered(n) == (n + W - 1) \div W

-----------------------------------------------------------------------------

\* UAES_CFB1_Init()
Init ==
  /\ phase = "encrypt"
  /\ buf = [k \in 0 .. W * Size - 1 |-> Data(k)]
  /\ input_block = Start
  /\ bit_len = 0 /\ i = 0 /\ at = 0 /\ calls = <<>> /\ done = 0

\* UAES_CFB1_Encrypt() and UAES_CFB1_Decrypt()
Call(n) ==
  /\ bit_len = 0 /\ at + Covered(n) <= Size
  /\ IF phase = "encrypt" THEN calls' = Append(calls, n)
     ELSE done < Len(calls) /\ n = calls[done + 1] /\ UNCHANGED calls
  /\ bit_len' = n /\ i' = 0
  /\ UNCHANGED <<phase, buf, input_block, at, done>>

BytePos(n) == (n \div W) % P

\* Mutant of Shifted: the first byte of the block does not take the next one's bit.
ShiftedCut(ct_bit) ==
  [k \in 1 .. N |-> IF k = N THEN ct_bit ELSE IF k = W THEN {} ELSE input_block[k + 1]]

\* The block, shifted by a bit, with the bit of ciphertext at its end.
Shifted(ct_bit) == Append(Tail(input_block), ct_bit)

\* Mutant of CtBit: the output is taken for the ciphertext, to decrypt as well.
CtBitOutput(input, output) == output

CtBit(input, output) == IF phase = "encrypt" THEN output ELSE input

Bit ==
  /\ i < bit_len
  /\ LET pos == W * (at + BytePos(i)) + (i % W)
         bit == Xor(buf[pos], Top(input_block))
     IN /\ input_block' = Shifted(CtBit(buf[pos], bit))
        /\ buf' = [buf EXCEPT ![pos] = bit]
  /\ i' = i + 1
  /\ UNCHANGED <<phase, bit_len, at, calls, done>>

Return ==
  /\ bit_len > 0 /\ i = bit_len
  /\ at' = at + Covered(bit_len)
  /\ done' = done + 1 /\ bit_len' = 0 /\ i' = 0
  /\ UNCHANGED <<phase, buf, input_block, calls>>

\* The user decrypts with a new context.
Turn ==
  /\ phase = "encrypt" /\ bit_len = 0 /\ calls # <<>>
  /\ phase' = "decrypt" /\ input_block' = Start /\ at' = 0 /\ done' = 0
  /\ UNCHANGED <<buf, bit_len, i, calls>>

Next == (\E n \in Lengths : Call(n)) \/ Bit \/ Return \/ Turn

Spec == Init /\ [][Next]_vars

-----------------------------------------------------------------------------
(***************************************************************************)
(* Properties                                                              *)
(***************************************************************************)

\* The bits that have been encrypted, in order.
RECURSIVE BitsOfCalls(_, _)
BitsOfCalls(k, byte) ==
  IF k > Len(calls) THEN <<>>
  ELSE [j \in 1 .. calls[k] |-> W * byte + j - 1]
         \o BitsOfCalls(k + 1, byte + Covered(calls[k]))

\* Behind each call that encrypts, the bits passed so far are CFB1 of the message, cut
\* into calls as it may be, and the bits behind the end of a call are as they were.
\* By NIST SP 800-38A a bit is encrypted with the first bit of what the N bits of IV
\* and ciphertext before it encrypt to.
EncryptedRight ==
  phase = "encrypt" /\ bit_len = 0 =>
    LET bits == BitsOfCalls(1, 0)
        text == Start \o [k \in 1 .. Len(bits) |-> buf[bits[k]]]
    IN /\ \A k \in 1 .. Len(bits) :
            text[N + k] = Xor(Data(bits[k]), Top(SubSeq(text, k, N + k - 1)))
       /\ \A b \in DOMAIN buf \ {bits[k] : k \in 1 .. Len(bits)} : buf[b] = Data(b)

\* What has been encrypted is decrypted by the same calls, whatever their length.
DecryptInverts ==
  phase = "decrypt" /\ done = Len(calls) => \A k \in DOMAIN buf : buf[k] = Data(k)
=============================================================================
