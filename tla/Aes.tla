--------------------------------- MODULE Aes ---------------------------------
(***************************************************************************)
(* The cipher as FIPS 197 defines it, what the two implementations in      *)
(* libs/uAES/src/uaes.c are measured by: a block is encrypted round by     *)
(* round and then decrypted again.  The state is a matrix of bytes, and    *)
(* the products are those of the field, not a sequence of doublings.       *)
(***************************************************************************)
EXTENDS Gf28

CONSTANT Vectors   \* records of a key, bytes 0 .. 4 * KeyLength - 1, and a block, 0 .. 15

VARIABLES
  key, block,   \* what is encrypted
  matrix,       \* the state: matrix[r, c] in row r and column c
  round,
  phase         \* "encrypt", "decrypt", "done"

aesVars == <<key, block, matrix, round, phase>>

Places == (0 .. 3) \X (0 .. 3)

MatrixOf(b) == [p \in Places |-> b[p[1] + 4 * p[2]]]

KeyLength == Cardinality(DOMAIN key) \div 4
Rounds == KeyLength + 6

-----------------------------------------------------------------------------
(* 5.2, the key expansion; a word is a sequence of four bytes *)

XorWords(u, v) == [k \in 1 .. 4 |-> Xor(u[k], v[k])]
SubWord(u) == [k \in 1 .. 4 |-> Sbox[u[k]]]
RotWord(u) == <<u[2], u[3], u[4], u[1]>>

\* x^(n-1) in the field, in the first byte.
Rcon(n) ==
  LET power[k \in 1 .. 10] == IF k = 1 THEN {0} ELSE Product(power[k - 1], {1})
  IN <<power[n], {}, {}, {}>>

\* Word i is the member i + 1 of the sequence.
KeyExpansion ==
  LET upto[i \in KeyLength .. 4 * (Rounds + 1)] ==
        IF i = KeyLength THEN [j \in 1 .. KeyLength |-> [k \in 1 .. 4 |-> key[4 * j + k - 5]]]
        ELSE LET w == upto[i - 1]
                 last == w[i - 1]
                 temp == IF (i - 1) % KeyLength = 0
                         THEN XorWords(SubWord(RotWord(last)), Rcon((i - 1) \div KeyLength))
                         ELSE IF KeyLength > 6 /\ (i - 1) % KeyLength = 4 THEN SubWord(last)
                         ELSE last
             IN Append(w, XorWords(w[i - KeyLength], temp))
  IN upto[4 * (Rounds + 1)]

-----------------------------------------------------------------------------
(* 5.1 and 5.3, the rounds *)

AddRoundKey(s, n) ==
  LET w == KeyExpansion IN [p \in Places |-> Xor(s[p], w[4 * n + p[2] + 1][p[1] + 1])]

SubBytes(s) == [p \in Places |-> Sbox[s[p]]]
InvSubBytes(s) == [p \in Places |-> RSbox[s[p]]]

ShiftRows(s) == [p \in Places |-> s[<<p[1], (p[2] + p[1]) % 4>>]]
InvShiftRows(s) == [p \in Places |-> s[<<p[1], (p[2] - p[1]) % 4>>]]

\* Each column times a polynomial; row r of the matrix is the first one, shifted.
Mixed(s, row) ==
  [p \in Places |->
     LET term(k) == Product(Byte(row[((k - p[1]) % 4) + 1]), s[<<k, p[2]>>])
     IN Xor(Xor(term(0), term(1)), Xor(term(2), term(3)))]

MixColumns(s) == Mixed(s, <<2, 3, 1, 1>>)
InvMixColumns(s) == Mixed(s, <<14, 11, 13, 9>>)

-----------------------------------------------------------------------------

Init ==
  /\ \E v \in Vectors : key = v.key /\ block = v.block
  /\ matrix = MatrixOf(block) /\ round = 0 /\ phase = "encrypt"

Encrypted ==
  IF round = 0 THEN AddRoundKey(matrix, 0)
  ELSE LET s == ShiftRows(SubBytes(matrix))
       IN AddRoundKey(IF round < Rounds THEN MixColumns(s) ELSE s, round)

EncryptRound ==
  /\ phase = "encrypt"
  /\ phase' = IF round = Rounds THEN "decrypt" ELSE "encrypt"
  /\ round' = IF round = Rounds THEN Rounds ELSE round + 1
  /\ matrix' = Encrypted
  /\ UNCHANGED <<key, block>>

Decrypted ==
  LET s == AddRoundKey(matrix, round)
  IN IF round = 0 THEN s
     ELSE InvSubBytes(InvShiftRows(IF round < Rounds THEN InvMixColumns(s) ELSE s))

DecryptRound ==
  /\ phase = "decrypt"
  /\ phase' = IF round = 0 THEN "done" ELSE "decrypt"
  /\ round' = IF round = 0 THEN 0 ELSE round - 1
  /\ matrix' = Decrypted
  /\ UNCHANGED <<key, block>>

Next == EncryptRound \/ DecryptRound

Spec == Init /\ [][Next]_aesVars
=============================================================================
