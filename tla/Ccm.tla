--------------------------------- MODULE Ccm ---------------------------------
(***************************************************************************)
(* CCM of libs/uAES/src/uaes.c, with which Extra.hpp encrypts: additional  *)
(* data and then a message, both in calls of any length, encrypted or      *)
(* decrypted in place, and a tag over both.  A Simple function is Init and *)
(* one call of each.  On the way to who decrypts the message, the          *)
(* additional data or the tag may be changed.                              *)
(***************************************************************************)
EXTENDS Blocks

CONSTANTS
  AadLens, DataLens, TagLens, NonceLens,   \* the lengths that UAES_CCM_Init is given
  Changes                                  \* what may be changed on the way

CcmAssumption ==
  /\ AadLens \cup DataLens \subseteq Nat
  /\ \A n \in AadLens : n < 65280   \* FF00h; longer ones are not modelled
  /\ \A n \in DataLens, l \in NonceLens : Shifted(n, B - 1 - l) = 0   \* as uaes.h asks
  /\ NonceLens \subseteq 1 .. B - 2 /\ TagLens \subseteq {t \in 4 .. B : t % 2 = 0}
  /\ Changes \subseteq {"none", "aad", "data", "tag"}

VARIABLES
  encrypt,
  nonce_len, aad_len, data_len, tag_len,
  change,
  ctx, mem,
  aad_done, done     \* what has been passed of the additional data and the message

ccmVars == <<encrypt, nonce_len, aad_len, data_len, tag_len, change, ctx, mem, aad_done, done>>

Nonce(k) == Named("nonce", k)

\* Byte k of n bytes that hold the number x.
NumberByte(x, n, k) == Digit(Shifted(x, n - 1 - k) % R)

-----------------------------------------------------------------------------
(* What the mode promises, NIST SP 800-38C *)

\* A sequence of bytes as blocks, the last one filled with zeros.
BlocksOf(s) ==
  [i \in 1 .. (Len(s) + B - 1) \div B |->
     [k \in Pos |-> IF B * (i - 1) + k < Len(s) THEN s[B * (i - 1) + k + 1] ELSE Zero]]

LengthOfLength == B - 1 - nonce_len

Block0 ==
  [k \in Pos |->
     IF k = 0 THEN Digit((IF aad_len > 0 THEN 64 ELSE 0)
                           + 8 * ((tag_len - 2) \div 2) + LengthOfLength - 1)
     ELSE IF k <= nonce_len THEN Nonce(k - 1)
     ELSE NumberByte(data_len, LengthOfLength, k - nonce_len - 1)]

CounterBlock(j) ==
  [k \in Pos |-> IF k = 0 THEN Digit(LengthOfLength - 1)
                 ELSE IF k <= nonce_len THEN Nonce(k - 1)
                 ELSE NumberByte(j, LengthOfLength, k - nonce_len - 1)]

CbcMac(blocks) ==
  LET y[i \in 1 .. Len(blocks)] ==
        Cipher(IF i = 1 THEN blocks[i] ELSE XorBlocks(y[i - 1], blocks[i]))
  IN y[Len(blocks)]

Plain(k) == Named("p", k)
Aad(k) == Named("aad", k)

CipherText(k) == Xor(Plain(k), Cipher(CounterBlock(k \div B + 1))[k % B])

Tag ==
  LET aad == IF aad_len = 0 THEN <<>>
             ELSE [k \in 1 .. 2 |-> NumberByte(aad_len, 2, k - 1)]
                    \o [k \in 1 .. aad_len |-> Aad(k - 1)]
      data == [k \in 1 .. data_len |-> Plain(k - 1)]
      mac == CbcMac(<<Block0>> \o BlocksOf(aad) \o BlocksOf(data))
      s0 == Cipher(CounterBlock(0))
  IN [k \in 0 .. tag_len - 1 |-> Xor(mac[k], s0[k])]

-----------------------------------------------------------------------------
(* The code *)

\* Mutant of FirstBytePos: counter 0, which is for the tag, encrypts data.
FirstBytePosZero == 0

\* As if a block were full: counter 0 is skipped.
FirstBytePos == B

UAES_CCM_Init ==
  LET tag_bits_l == B - 2 - nonce_len
      tag_bits_m == (tag_len - 2) \div 2
      flags == tag_bits_l + 8 * tag_bits_m + (IF aad_len > 0 THEN 64 ELSE 0)
      b0 == [k \in Pos |-> IF k = 0 THEN Digit(flags)
                           ELSE IF k <= nonce_len THEN Nonce(k - 1)
                           ELSE Digit(Shifted(data_len, B - 1 - k) % R)]
      length == [k \in Pos |-> IF k < 2 THEN Digit(Shifted(aad_len, 1 - k) % R) ELSE Zero]
  IN [byte_pos |-> FirstBytePos, nonce_len |-> nonce_len,
      aad_byte_pos |-> IF aad_len > 0 THEN 2 ELSE 0,
      cbc_buf |-> IF aad_len > 0 THEN XorBlocks(Cipher(b0), length) ELSE b0,
      counter |-> [k \in Pos |-> IF k = 0 THEN tag_bits_l ELSE 0]]

\* The counter with the nonce in it; its bytes behind the nonce are counted up.
CounterBytes(c, counter) ==
  [k \in Pos |-> IF k \in 1 .. c.nonce_len THEN Nonce(k - 1) ELSE Digit(counter[k])]

\* Mutant of AadByte: a block that is full is encrypted at once, not before the next byte.
AadByteEager(c, a) ==
  LET b == [c.cbc_buf EXCEPT ![c.aad_byte_pos] = Xor(@, a)]
  IN IF c.aad_byte_pos = B - 1 THEN [c EXCEPT !.cbc_buf = Cipher(b), !.aad_byte_pos = 0]
     ELSE [c EXCEPT !.cbc_buf = b, !.aad_byte_pos = @ + 1]

AadByte(c, a) ==
  LET full == c.aad_byte_pos >= B
      pos == IF full THEN 0 ELSE c.aad_byte_pos
      buf == IF full THEN Cipher(c.cbc_buf) ELSE c.cbc_buf
  IN [c EXCEPT !.cbc_buf = [buf EXCEPT ![pos] = Xor(@, a)], !.aad_byte_pos = pos + 1]

\* Mutant of DataByte: what is encrypted goes into the tag, not what is to be encrypted.
DataByteOfOutput(c, from) ==
  LET full == c.byte_pos >= B
      pos == IF full THEN 0 ELSE c.byte_pos
      counter == IF full THEN Increased(c.counter) ELSE c.counter
      buf == IF full THEN Cipher(c.cbc_buf) ELSE c.cbc_buf
      to == Xor(from, Cipher(CounterBytes(c, counter))[pos])
  IN [ctx |-> [c EXCEPT !.cbc_buf = [buf EXCEPT ![pos] = Xor(@, to)],
                        !.counter = counter, !.byte_pos = pos + 1],
      output |-> to]

\* A turn of CCM_Xcrypt().
DataByte(c, from) ==
  LET full == c.byte_pos >= B
      pos == IF full THEN 0 ELSE c.byte_pos
      counter == IF full THEN Increased(c.counter) ELSE c.counter
      buf == IF full THEN Cipher(c.cbc_buf) ELSE c.cbc_buf
      to == Xor(from, Cipher(CounterBytes(c, counter))[pos])
  IN [ctx |-> [c EXCEPT !.cbc_buf = [buf EXCEPT ![pos] = Xor(@, IF encrypt THEN from ELSE to)],
                        !.counter = counter, !.byte_pos = pos + 1],
      output |-> to]

UAES_CCM_GenerateTag(c) ==
  LET ctr_tag == Cipher(CounterBytes(c, [k \in Pos |-> IF k = 0 THEN c.counter[0] ELSE 0]))
  IN [k \in 0 .. tag_len - 1 |-> XorBlocks(ctr_tag, Cipher(c.cbc_buf))[k]]

\* Mutant of UAES_CCM_VerifyTag: the first byte is not compared.
VerifyTagFromOne(c, tag) == \A k \in 1 .. tag_len - 1 : UAES_CCM_GenerateTag(c)[k] = tag[k]

UAES_CCM_VerifyTag(c, tag) == UAES_CCM_GenerateTag(c) = tag

-----------------------------------------------------------------------------

\* What is passed to the calls.
PassedAad(k) == IF change = "aad" /\ k = 0 THEN Named("x", 0) ELSE Aad(k)
PassedTag == IF change = "tag" THEN [Tag EXCEPT ![0] = Named("x", 0)] ELSE Tag
PassedData ==
  [k \in 0 .. data_len - 1 |->
     IF change = "data" /\ k = 0 THEN Named("x", 0)
     ELSE IF encrypt THEN Plain(k) ELSE CipherText(k)]

CcmInit ==
  /\ encrypt \in BOOLEAN
  /\ nonce_len \in NonceLens /\ aad_len \in AadLens
  /\ data_len \in DataLens /\ tag_len \in TagLens
  /\ change \in {c \in Changes : /\ encrypt => c = "none"
                                 /\ c = "aad" => aad_len > 0
                                 /\ c = "data" => data_len > 0}
  /\ ctx = UAES_CCM_Init
  /\ mem = PassedData
  /\ aad_done = 0 /\ done = 0

AddAad(n) ==
  /\ done = 0 /\ aad_done + n <= aad_len
  /\ LET turn[i \in 0 .. n] ==
           IF i = 0 THEN ctx ELSE AadByte(turn[i - 1], PassedAad(aad_done + i - 1))
     IN ctx' = turn[n]
  /\ aad_done' = aad_done + n
  /\ UNCHANGED <<encrypt, nonce_len, aad_len, data_len, tag_len, change, mem, done>>

Xcrypt(n) ==
  /\ aad_done = aad_len /\ done + n <= data_len
  /\ LET turn[i \in 0 .. n] ==
           IF i = 0 THEN [ctx |-> ctx, mem |-> mem]
           ELSE LET r == turn[i - 1]
                    d == DataByte(r.ctx, r.mem[done + i - 1])
                IN [ctx |-> d.ctx, mem |-> [r.mem EXCEPT ![done + i - 1] = d.output]]
         r == turn[n]
     IN ctx' = r.ctx /\ mem' = r.mem
  /\ done' = done + n
  /\ UNCHANGED <<encrypt, nonce_len, aad_len, data_len, tag_len, change, aad_done>>

CcmNext == (\E n \in 1 .. aad_len - aad_done : AddAad(n)) \/ (\E n \in 1 .. data_len - done : Xcrypt(n))

CcmSpec == CcmInit /\ [][CcmNext]_ccmVars

-----------------------------------------------------------------------------
(***************************************************************************)
(* Properties                                                              *)
(***************************************************************************)

Complete == aad_done = aad_len /\ done = data_len

\* However the message is cut into calls, it is encrypted and decrypted as the mode says.
OutputRight ==
  change = "none" =>
    \A k \in 0 .. done - 1 : mem[k] = IF encrypt THEN CipherText(k) ELSE Plain(k)

\* So is the tag: who encrypts and who decrypts come to the same one, with calls of
\* different lengths and blocks that are full, begun or empty.
TagRight == Complete /\ change = "none" => UAES_CCM_GenerateTag(ctx) = Tag

\* The tag is accepted only if nothing has been changed on the way.
ChangesFound == Complete => (UAES_CCM_VerifyTag(ctx, PassedTag) <=> change = "none")

\* What two stations that encrypt need of the mode: its output, its tag, and that no change
\* passes, with any cut into calls on either side.
MessageRight == OutputRight /\ TagRight /\ ChangesFound
=============================================================================
