-------------------------------- MODULE Aes32 --------------------------------
(***************************************************************************)
(* The cipher of libs/uAES/src/uaes.c for 32-bit processors                *)
(* (UAES_32BIT_CONFIG 1).  The state is four words, each a row of the      *)
(* matrix, so that a step is done to four columns at once; the words of    *)
(* the round keys are columns, and stored ones are transposed beforehand.  *)
(***************************************************************************)
EXTENDS Gf28

CONSTANT Vectors

VARIABLES
  key, block,
  output,
  state,       \* the rows
  stored,      \* UAES_KEY_CONFIG
  ctx_key,     \* the round keys, when stored: rows
  round_key,   \* otherwise the buffer they are expanded in: columns
  round, phase

vars == <<key, block, output, state, stored, ctx_key, round_key, round, phase>>

keysize_word == Cardinality(DOMAIN key) \div 4
num_rounds == keysize_word + 6

Rows == 0 .. 3

-----------------------------------------------------------------------------
(* Words *)

ByteOf(x, k) == Low(Down(x, 8 * k), 8)
WordOf(b(_)) == UNION {Up(b(k), 8 * k) : k \in 0 .. 3}

Right(x, n) == Down(x, n) \cup Low(Up(x, 32 - n), 32)
Left(x, n) == Right(x, 32 - n)

SubWord(x) == LET b(k) == Sbox[ByteOf(x, k)] IN WordOf(b)
InvSubWord(x) == LET b(k) == RSbox[ByteOf(x, k)] IN WordOf(b)

\* Bytes i, i + 4, i + 8, i + 12 of the block make row i.
DataToState(data) == [i \in Rows |-> LET b(j) == data[i + 4 * j] IN WordOf(b)]
StateToData(s) == [k \in 0 .. 15 |-> ByteOf(s[k % 4], k \div 4)]

-----------------------------------------------------------------------------
(* The round keys *)

\* What ExpandRoundKey() makes of tmp.
Substituted(nk, step, iter_num, tmp) ==
  IF step = 0 THEN Xor(SubWord(Right(tmp, 8)), Byte(RCON[iter_num + 1]))
  ELSE IF nk = 8 /\ step = 4 THEN SubWord(tmp)
  ELSE tmp

Keys == INSTANCE KeySchedule WITH X <- Xor, T <- Substituted

KeyWord(i) == LET b(j) == key[4 * i + j] IN WordOf(b)

\* Mutant of Transposed: the words of the round keys stay columns.
NotTransposed(w) == w

\* The last loop of ExpandRoundKey(): the columns of each round become rows.
Transposed(w) ==
  [i \in 1 .. Len(w) |->
     LET first == 4 * ((i - 1) \div 4)
         b(j) == ByteOf(w[first + j + 1], (i - 1) % 4)
     IN WordOf(b)]

At(rk, i) == Keys!MoveTo(keysize_word, rk, i)

\* The word for column c of round n, the buffer having been moved for each before it.
RoundWord(n, c) ==
  LET rk[k \in 0 .. c] == At(IF k = 0 THEN round_key ELSE rk[k - 1], 4 * n + k)
  IN Keys!WordIn(keysize_word, rk[c], 4 * n + c)

RoundKeyBehind(n) ==
  IF stored THEN round_key
  ELSE At(At(At(At(round_key, 4 * n), 4 * n + 1), 4 * n + 2), 4 * n + 3)

\* AddRoundKey(): a stored word goes to its row at once, a byte of a column to each.
AddRoundKey(s, n) ==
  LET w == [c \in Rows |-> IF stored THEN {} ELSE RoundWord(n, c)]
  IN [i \in Rows |->
        IF stored THEN Xor(s[i], ctx_key[4 * n + i + 1])
        ELSE LET b(c) == ByteOf(w[c], i) IN Xor(s[i], WordOf(b))]

-----------------------------------------------------------------------------
(* The steps of a round *)

SubBytes(s) == [i \in Rows |-> SubWord(s[i])]
InvSubBytes(s) == [i \in Rows |-> InvSubWord(s[i])]

\* Mutant of ShiftRows: row 2 shifts by one byte.
ShiftRowsOnce(s) == [i \in Rows |-> IF i = 0 THEN s[i] ELSE Right(s[i], IF i = 2 THEN 8 ELSE 8 * i)]

ShiftRows(s) == [i \in Rows |-> IF i = 0 THEN s[i] ELSE Right(s[i], 8 * i)]
InvShiftRows(s) == [i \in Rows |-> IF i = 0 THEN s[i] ELSE Left(s[i], 8 * i)]

MixColumns(s) ==
  LET sum == Xor(Xor(s[0], s[1]), Xor(s[2], s[3]))
  IN [i \in Rows |-> Xor(s[i], Xor(sum, WordTimes2(Xor(s[i], s[(i + 1) % 4]))))]

InvMixColumns(s) ==
  [i \in Rows |->
     LET a(k) == s[(i + k) % 4]
     IN Xor(Xor(WordTimesByte(a(0), Byte(14)), WordTimesByte(a(1), Byte(11))),
            Xor(WordTimesByte(a(2), Byte(13)), WordTimesByte(a(3), Byte(9))))]

-----------------------------------------------------------------------------

\* InitAesCtx() and the begin of Cipher().
Init ==
  /\ \E v \in Vectors : key = v.key /\ block = v.block
  /\ output = block /\ state = DataToState(block)
  /\ stored \in BOOLEAN
  /\ LET w == [i \in 0 .. keysize_word - 1 |-> KeyWord(i)]
     IN /\ ctx_key = IF stored
                     THEN Transposed(Keys!StoredKeys(keysize_word, w, 4 * (keysize_word + 7)))
                     ELSE w
        /\ round_key = Keys!InitRoundKey(keysize_word, w)
  /\ round = 0 /\ phase = "encrypt"

\* Behind the last round Cipher() stores the block and InvCipher() loads it.
CipherRound ==
  /\ phase = "encrypt"
  /\ LET s == ShiftRows(SubBytes(state))
         after == AddRoundKey(IF round = 0 THEN state
                              ELSE IF round < num_rounds THEN MixColumns(s) ELSE s, round)
     IN IF round = num_rounds
        THEN /\ output' = StateToData(after)
             /\ state' = DataToState(output')
             /\ round_key' = IF stored THEN round_key ELSE Keys!InitRoundKey(keysize_word, ctx_key)
             /\ round' = num_rounds /\ phase' = "decrypt"
        ELSE /\ state' = after
             /\ round_key' = RoundKeyBehind(round)
             /\ round' = round + 1
             /\ UNCHANGED <<output, phase>>
  /\ UNCHANGED <<key, block, stored, ctx_key>>

InvCipherRound ==
  /\ phase = "decrypt"
  /\ round_key' = RoundKeyBehind(round)
  /\ LET s == AddRoundKey(state, round)
     IN IF round = 0
        THEN /\ output' = StateToData(s)
             /\ state' = s
             /\ round' = 0 /\ phase' = "done"
        ELSE /\ state' = InvSubBytes(InvShiftRows(
                           IF round < num_rounds THEN InvMixColumns(s) ELSE s))
             /\ round' = round - 1
             /\ UNCHANGED <<output, phase>>
  /\ UNCHANGED <<key, block, stored, ctx_key>>

Next == CipherRound \/ InvCipherRound

Spec == Init /\ [][Next]_vars

-----------------------------------------------------------------------------
(***************************************************************************)
(* Properties                                                              *)
(***************************************************************************)

\* What the refinement maps to the matrix of Aes.tla.
Matrix == [p \in (0 .. 3) \X (0 .. 3) |-> ByteOf(state[p[1]], p[2])]

\* Cipher() gives the published answers.
KnownAnswers ==
  \A v \in Vectors :
    phase = "decrypt" /\ round = num_rounds /\ key = v.key /\ block = v.block
      => output = v.answer

\* InvCipher() undoes Cipher().
DecryptInverts == phase = "done" => output = block
=============================================================================
