-------------------------------- MODULE Aes8 --------------------------------
(***************************************************************************)
(* The cipher of libs/uAES/src/uaes.c for 8-bit processors                 *)
(* (UAES_32BIT_CONFIG 0), with the round keys stored or expanded on the    *)
(* way, through Cipher() and back through InvCipher().  The state is the   *)
(* block itself, 16 bytes, column by column.                               *)
(***************************************************************************)
EXTENDS Gf28

CONSTANT Vectors   \* records of a key, a block and the answer: what it is encrypted to

\* A key has 16, 24 or 32 bytes and a block 16.
VectorsAssumption ==
  \A v \in Vectors :
    /\ \E words \in {4, 6, 8} : v.key \in [0 .. 4 * words - 1 -> Bytes]
    /\ v.block \in [0 .. 15 -> Bytes]

VARIABLES
  key, block,
  output,      \* the state
  stored,      \* UAES_KEY_CONFIG
  ctx_key,     \* the round keys, when stored: words of four bytes
  round_key,   \* otherwise the buffer they are expanded in
  round, phase

vars == <<key, block, output, stored, ctx_key, round_key, round, phase>>

keysize_word == Cardinality(DOMAIN key) \div 4
num_rounds == keysize_word + 6

Block == 0 .. 15

-----------------------------------------------------------------------------

SubByte(x) == Sbox[x]
InvSubByte(x) == RSbox[x]

XorBytes(u, v) == [k \in 1 .. 4 |-> Xor(u[k], v[k])]

\* What ExpandRoundKey() makes of tmp.
Substituted(nk, step, iter_num, tmp) ==
  IF step = 0 THEN <<Xor(SubByte(tmp[2]), Byte(RCON[iter_num + 1])),
                     SubByte(tmp[3]), SubByte(tmp[4]), SubByte(tmp[1])>>
  ELSE IF nk = 8 /\ step = 4 THEN [k \in 1 .. 4 |-> SubByte(tmp[k])]
  ELSE tmp

Keys == INSTANCE KeySchedule WITH X <- XorBytes, T <- Substituted

KeyWord(i) == [k \in 1 .. 4 |-> key[4 * i + k - 1]]

\* The buffer holds word i when a byte of it is asked for.
At(rk, i) == Keys!MoveTo(keysize_word, rk, i)

\* AddRoundKey(): the words of a round, in ascending order, and where the buffer
\* is when the last one has been read.
RoundWord(n, c) ==
  IF stored THEN ctx_key[4 * n + c + 1]
  ELSE LET rk[k \in 0 .. c] == At(IF k = 0 THEN round_key ELSE rk[k - 1], 4 * n + k)
       IN Keys!WordIn(keysize_word, rk[c], 4 * n + c)

RoundKeyBehind(n) ==
  IF stored THEN round_key
  ELSE At(At(At(At(round_key, 4 * n), 4 * n + 1), 4 * n + 2), 4 * n + 3)

AddRoundKey(s, n) ==
  LET w == [c \in 0 .. 3 |-> RoundWord(n, c)]
  IN [i \in Block |-> Xor(s[i], w[i \div 4][(i % 4) + 1])]

SubBytes(s) == [i \in Block |-> SubByte(s[i])]
InvSubBytes(s) == [i \in Block |-> InvSubByte(s[i])]

\* Byte i of the shifted state comes from byte ShiftRow[i].
ShiftRow == <<0, 5, 10, 15, 4, 9, 14, 3, 8, 13, 2, 7, 12, 1, 6, 11>>
InvShiftRow == <<0, 13, 10, 7, 4, 1, 14, 11, 8, 5, 2, 15, 12, 9, 6, 3>>
ShiftRows(s) == [i \in Block |-> s[ShiftRow[i + 1]]]
InvShiftRows(s) == [i \in Block |-> s[InvShiftRow[i + 1]]]

\* Mutant of MixColumns: p[0] has changed when p[3] is mixed with it.
MixColumnsInPlace(s) ==
  [i \in Block |->
     LET p(k) == s[4 * (i \div 4) + (k % 4)]
         j == i % 4
         sum == Xor(Xor(p(0), p(1)), Xor(p(2), p(3)))
         q(k) == IF k = 4 THEN Xor(p(0), Xor(sum, ByteTimes2(Xor(p(0), p(1))))) ELSE p(k)
     IN Xor(p(j), Xor(sum, ByteTimes2(Xor(p(j), q(j + 1)))))]

\* p[0] is kept for the last of the four.
MixColumns(s) ==
  [i \in Block |->
     LET p(k) == s[4 * (i \div 4) + (k % 4)]
         j == i % 4
         sum == Xor(Xor(p(0), p(1)), Xor(p(2), p(3)))
     IN Xor(p(j), Xor(sum, ByteTimes2(Xor(p(j), p(j + 1)))))]

InvMixColumns(s) ==
  [i \in Block |->
     LET a(k) == s[4 * (i \div 4) + ((i + k) % 4)]
     IN Xor(Xor(ByteTimesByte(a(0), Byte(14)), ByteTimesByte(a(1), Byte(11))),
            Xor(ByteTimesByte(a(2), Byte(13)), ByteTimesByte(a(3), Byte(9))))]

-----------------------------------------------------------------------------

\* InitAesCtx() and the begin of Cipher().
Init ==
  /\ \E v \in Vectors : key = v.key /\ block = v.block
  /\ output = block
  /\ stored \in BOOLEAN
  /\ LET w == [i \in 0 .. keysize_word - 1 |-> KeyWord(i)]
     IN /\ ctx_key = IF stored THEN Keys!StoredKeys(keysize_word, w, 4 * (keysize_word + 7))
                     ELSE w
        /\ round_key = Keys!InitRoundKey(keysize_word, w)
  /\ round = 0 /\ phase = "encrypt"

CipherRound ==
  /\ phase = "encrypt"
  /\ output' = LET s == ShiftRows(SubBytes(output))
               IN AddRoundKey(IF round = 0 THEN output
                              ELSE IF round < num_rounds THEN MixColumns(s) ELSE s, round)
  /\ round_key' = IF round = num_rounds /\ ~stored THEN Keys!InitRoundKey(keysize_word, ctx_key)
                  ELSE RoundKeyBehind(round)
  /\ phase' = IF round = num_rounds THEN "decrypt" ELSE "encrypt"
  /\ round' = IF round = num_rounds THEN num_rounds ELSE round + 1
  /\ UNCHANGED <<key, block, stored, ctx_key>>

InvCipherRound ==
  /\ phase = "decrypt"
  /\ output' = LET s == AddRoundKey(output, round)
               IN IF round = 0 THEN s
                  ELSE InvSubBytes(InvShiftRows(
                         IF round < num_rounds THEN InvMixColumns(s) ELSE s))
  /\ round_key' = RoundKeyBehind(round)
  /\ phase' = IF round = 0 THEN "done" ELSE "decrypt"
  /\ round' = IF round = 0 THEN 0 ELSE round - 1
  /\ UNCHANGED <<key, block, stored, ctx_key>>

Next == CipherRound \/ InvCipherRound

Spec == Init /\ [][Next]_vars

-----------------------------------------------------------------------------
(***************************************************************************)
(* Properties                                                              *)
(***************************************************************************)

\* What the refinement maps to the matrix of Aes.tla.
Matrix == [p \in (0 .. 3) \X (0 .. 3) |-> output[p[1] + 4 * p[2]]]

\* Cipher() gives the published answers, the measure of the reference as well.
KnownAnswers ==
  \A v \in Vectors :
    phase = "decrypt" /\ round = num_rounds /\ key = v.key /\ block = v.block
      => output = v.answer

\* InvCipher() undoes Cipher().
DecryptInverts == phase = "done" => output = block
=============================================================================
