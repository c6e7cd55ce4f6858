----------------------------- MODULE MCLibraries -----------------------------
(***************************************************************************)
(* The modules of the libraries, frozen, libcrc and uAES, side by side.    *)
(* They share nothing: in a behaviour one of them runs, and part names it. *)
(* The modules extended here have variables of their own; those of the     *)
(* others are s1 to s9, as each INSTANCE says.                             *)
(***************************************************************************)
EXTENDS RoundKeys, LazyTable, FrozenMap, Ccm, Sequences, FiniteSets

CONSTANTS
  Libraries,
  BitLengths    \* of the calls of CFB1; its byte_pos goes round behind 4 bits

VARIABLES part, s1, s2, s3, s4, s5, s6, s7, s8, s9

ASSUME LastEntryAssumption /\ FrozenMapAssumption /\ BlocksAssumption /\ CcmAssumption

-----------------------------------------------------------------------------
(* frozen *)

\* Strings of which one is the begin of another, and the empty one.
MCName == {<<>>, <<1>>, <<1, 1>>, <<1, 2>>, <<2>>}

-----------------------------------------------------------------------------
(* libcrc *)

Bytes == SUBSET (0 .. 7)
Byte(n) == {b \in 0 .. 7 : (n \div 2 ^ b) % 2 = 1}

\* 00h, and A6h, of which only some bits are 1.
MCSent == {Byte(0), Byte(166)}

CRC == INSTANCE Crc WITH Sent <- MCSent, MaxLen <- 3, alg <- s1, message <- s2, crc <- s3

ASSUME CRC!CrcAssumption

-----------------------------------------------------------------------------
(* uAES, the cipher *)

SBOX ==
  INSTANCE SboxTable WITH p <- s1, q <- s2, s_sbox <- s3, s_rsbox <- s4, running <- s5

\* The examples of FIPS 197, appendix C, and a key and a block of zeros.
Counting(n, step) == [k \in 0 .. n - 1 |-> Byte(step * k)]
Answer(s) == [k \in 0 .. 15 |-> Byte(s[k + 1])]

MCVectors ==
  {[key |-> Counting(16, 1), block |-> Counting(16, 17),
    answer |-> Answer(<<105, 196, 224, 216, 106, 123, 4, 48,
                        216, 205, 183, 128, 112, 180, 197, 90>>)],
   [key |-> Counting(24, 1), block |-> Counting(16, 17),
    answer |-> Answer(<<221, 169, 124, 164, 134, 76, 223, 224,
                        110, 175, 112, 160, 236, 13, 113, 145>>)],
   [key |-> Counting(32, 1), block |-> Counting(16, 17),
    answer |-> Answer(<<142, 162, 183, 202, 81, 103, 69, 191,
                        234, 252, 73, 144, 75, 73, 96, 137>>)],
   [key |-> Counting(16, 0), block |-> Counting(16, 0),
    answer |-> Answer(<<102, 233, 75, 212, 239, 138, 44, 59,
                        136, 76, 250, 89, 202, 52, 43, 46>>)]}

AES8 ==
  INSTANCE Aes8 WITH
    Vectors <- MCVectors, key <- s1, block <- s2, output <- s3, stored <- s4, ctx_key <- s5,
    round_key <- s6, round <- s7, phase <- s8

ASSUME AES8!VectorsAssumption

AES32 ==
  INSTANCE Aes32 WITH
    Vectors <- MCVectors, key <- s1, block <- s2, output <- s3, stored <- s4, ctx_key <- s5,
    round_key <- s6, round <- s7, phase <- s8, state <- s9

Encrypts == part \in {"aes8", "aes32"}
Zeros == Counting(16, 0)

\* The reference; while another part runs it is about to encrypt zeros.
AES ==
  INSTANCE Aes WITH
    Vectors <- MCVectors,
    key <- IF Encrypts THEN s1 ELSE Zeros,
    block <- IF Encrypts THEN s2 ELSE Zeros,
    matrix <- IF part = "aes8" THEN AES8!Matrix
              ELSE IF part = "aes32" THEN AES32!Matrix
              ELSE [p \in (0 .. 3) \X (0 .. 3) |-> {}],
    round <- IF Encrypts THEN s7 ELSE 0,
    phase <- IF Encrypts THEN s8 ELSE "encrypt"

\* Words of three bits, and a function of the word before that cannot be inverted.
MCWord == SUBSET (0 .. 2)
MCX(a, b) == (a \ b) \cup (b \ a)
MCT(k, n, a) ==
  IF k = 0 THEN MCX({(b + 1) % 3 : b \in a}, {n % 3})
  ELSE IF k = 2 THEN a \cap {0, 1} ELSE a

MCSchedule ==
  LET upto[j \in 0 .. Nk * (Last + 1)] ==
        IF j = 0 THEN [n \in 0 .. Last |-> [k \in 0 .. Nk - 1 |-> {k % 3, (k + 1) % 3}]]
        ELSE LET before == upto[j - 1]
                 n == (j - 1) \div Nk
                 k == (j - 1) % Nk
             IN IF n = 0 THEN before
                ELSE [before EXCEPT ![n][k] =
                        MCX(before[n - 1][k],
                            MCT(k, n - 1, IF k > 0 THEN before[n][k - 1] ELSE before[n - 1][Nk - 1]))]
  IN upto[Nk * (Last + 1)]

-----------------------------------------------------------------------------
(* uAES, the modes *)

\* Two blocks of three bytes, in a memory with room for the output in front of the
\* input, behind it and overlapping it either way.
TEXTS == INSTANCE Blocks WITH B <- 3, R <- 2

MODE ==
  INSTANCE Modes WITH
    B <- 3, R <- 2, L <- 6, Size <- 12, mode <- s1, encrypt <- s2, in <- s3, out <- s4,
    param <- s5, ctx <- s6, mem <- s7, done <- s8

ASSUME TEXTS!BlocksAssumption /\ MODE!ModesAssumption

\* Nothing is known of the message, the IV and the cipher: what holds of the terms
\* holds for any.
MCData(k) == {<<"p", <<>>, k>>}
MCIV(k) == {<<"iv", <<>>, k>>}
MCTop(b) == {<<"E", b, 0>>}

CFB1 ==
  INSTANCE Cfb1 WITH
    W <- 2, P <- 2, N <- 4, Size <- 4, Lengths <- BitLengths, Data <- MCData, IV <- MCIV,
    Top <- MCTop, phase <- s1, buf <- s2, input_block <- s3, bit_len <- s4, i <- s5, at <- s6,
    calls <- s7, done <- s8

ASSUME CFB1!Cfb1Assumption

Dense(a, m) == [n \in 0 .. 15 |-> Byte((a + m * n) % 256)]
Sparse(n, b) == [k \in 0 .. 15 |-> IF k = n THEN {b} ELSE {}]

\* Factors with bits everywhere and at the borders of the words.
MCFactors ==
  {[key |-> Dense(102, 75), input |-> Dense(3, 136)],
   [key |-> Dense(255, 0), input |-> Sparse(15, 0)],
   [key |-> Sparse(3, 0), input |-> Sparse(4, 7)],
   [key |-> Sparse(15, 0), input |-> Dense(200, 33)]}

GHASH ==
  INSTANCE Ghash WITH
    Factors <- MCFactors, input <- s1, key <- s2, hash_key <- s3, buf <- s4, turn <- s5,
    output <- s6

GCM ==
  INSTANCE Gcm WITH
    B <- 3, R <- 3, C <- 2, IvLens <- {0, 1, 3, 4}, AadLens <- {0, 3, 4},
    DataLens <- {0, 3, 7}, Counters <- [0 .. 2 -> 0 .. 2], encrypt <- s1, aad_len <- s2,
    data_len <- s3, iv_len <- s4, counter0 <- s5, width <- s6, ctx <- s7, mem <- s8

ASSUME GCM!BlocksAssumption /\ GCM!GcmAssumption

-----------------------------------------------------------------------------

own == <<s1, s2, s3, s4, s5, s6, s7, s8, s9>>

libraryVars == <<part, vars, mapVars, tableVars, ccmVars, own>>

\* Variables that a part does not have.
None == "none"
No9 == s9 = None
No8 == s8 = None /\ No9
No7 == s7 = None /\ No8
No6 == s6 = None /\ No7
No4 == s4 = None /\ s5 = None /\ No6
No1 == s1 = None /\ s2 = None /\ s3 = None /\ No4

\* A map and a message that are not used while another part runs.
NoMap == items = [k \in {0} |-> <<>>] /\ key = <<>>
NoMessage == encrypt = TRUE /\ nonce_len = 1 /\ aad_len = 4 /\ data_len = 0 /\ tag_len = 4

LibrariesInit ==
  /\ part \in Libraries
  /\ Init /\ TableInit
  /\ (IF part = "map" THEN TRUE ELSE NoMap) /\ MapInit
  /\ (IF part = "ccm" THEN TRUE ELSE NoMessage) /\ CcmInit
  /\ \/ part \in {"keys", "lazy", "map", "ccm"} /\ No1
     \/ part = "crc" /\ CRC!Init /\ No4
     \/ part = "sbox" /\ SBOX!Init /\ No6
     \/ part = "aes8" /\ AES8!Init /\ No9
     \/ part = "aes32" /\ AES32!Init
     \/ part = "modes" /\ MODE!Init /\ No9
     \/ part = "cfb1" /\ CFB1!Init /\ No9
     \/ part = "ghash" /\ GHASH!Init /\ No7
     \/ part = "gcm" /\ GCM!Init /\ No9

KeysRun == part = "keys" /\ UNCHANGED <<part, tableVars, mapVars, ccmVars, own>>
TableRun == part = "lazy" /\ UNCHANGED <<part, vars, mapVars, ccmVars, own>>
MapRun == part = "map" /\ UNCHANGED <<part, vars, tableVars, ccmVars, own>>
CcmRun == part = "ccm" /\ UNCHANGED <<part, vars, tableVars, mapVars, own>>

Keeps10 == UNCHANGED <<part, vars, tableVars, mapVars, ccmVars>>
Keeps9 == Keeps10 /\ UNCHANGED s9
Keeps7 == Keeps9 /\ UNCHANGED <<s7, s8>>
Keeps6 == Keeps7 /\ UNCHANGED s6
Keeps4 == Keeps6 /\ UNCHANGED <<s4, s5>>

LibrariesNext ==
  \/ KeysRun /\ Next
  \/ TableRun /\ TableNext
  \/ MapRun /\ MapNext
  \/ CcmRun /\ CcmNext
  \/ part = "crc" /\ CRC!Next /\ Keeps4
  \/ part = "sbox" /\ SBOX!Next /\ Keeps6
  \/ part = "aes8" /\ AES8!Next /\ Keeps9
  \/ part = "aes32" /\ AES32!Next /\ Keeps10
  \/ part = "modes" /\ MODE!Next /\ Keeps9
  \/ part = "cfb1" /\ CFB1!Next /\ Keeps9
  \/ part = "ghash" /\ GHASH!Next /\ Keeps7
  \/ part = "gcm" /\ GCM!Next /\ Keeps9

\* A function that has been called goes on.
GoesOn ==
  \/ MapRun /\ (SortTurn \/ PartitionTurn \/ PartitionEnd \/ SortReturn
                  \/ SearchFirst \/ SearchFast)
  \/ part = "sbox" /\ SBOX!Next /\ Keeps6
  \/ KeysRun /\ (Forth \/ Back)

LibrariesSpec ==
  /\ LibrariesInit /\ [][LibrariesNext]_libraryVars
  /\ WF_libraryVars(GoesOn)
  /\ \A t \in Thread :
       /\ WF_libraryVars(TableRun /\ See(t))
       /\ WF_libraryVars(TableRun /\ Write(t))

-----------------------------------------------------------------------------
(* Properties.  Those of the modules extended here are theirs: AnswerRight, *)
(* TableRight, NamesFound, NamesKept and MessageRight.                      *)

\* libcrc: a register holds the remainder of what was fed, and damage shows.
ChecksRight ==
  part = "crc" =>
    CRC!RegisterRight /\ CRC!KnownAnswers /\ CRC!FrameVerifies /\ CRC!DamageFound

\* uAES: round by round both builds of the cipher are AES, forth and back, for every
\* length of the key and both ways to come by the round keys.
IsAes == AES!Spec

\* uAES: the entries of the S-box are those of the standard, in every build; so are the
\* published answers; what is encrypted is decrypted to what it was; and the buffer of round
\* keys holds what it should in the midst of its steps.
CipherRight ==
  /\ TypeOK /\ BufferJoins /\ Approaches
  /\ part = "sbox" =>
       SBOX!LoopInvariant /\ SBOX!TablesRight /\ SBOX!BuildsAgree /\ SBOX!ProductsRight
  /\ part = "aes8" => AES8!KnownAnswers /\ AES8!DecryptInverts
  /\ part = "aes32" => AES32!KnownAnswers /\ AES32!DecryptInverts
  /\ part = "cfb1" => CFB1!DecryptInverts

\* uAES: with every mode but CCM, a message becomes what the mode says, however it is cut
\* into calls, and nothing but the output is written: but for an output that begins in the
\* midst of the input, and for the blocks of GCM behind which the digits that the standard
\* counts have overflowed, which are just the cases in which it does not.  So does the tag of
\* GCM, and what it is made of: the product, the first counter, and that counter as it is
\* recovered.
ModesRight ==
  /\ part = "modes" => MODE!OutputRight /\ MODE!OnlyOutput
  /\ part = "cfb1" => CFB1!EncryptedRight
  /\ part = "ghash" => GHASH!Horner /\ GHASH!ProductRight
  /\ part = "gcm" =>
       /\ GCM!OutputRight /\ GCM!TagRight /\ GCM!EndsAgree
       /\ GCM!InitialCounterRight /\ GCM!CounterRecovered

\* uAES: the length of a call of CFB1 is its data's in bits, any size_t (uaes.h:588, 590);
\* so what becomes of the message is CFB1 of it, however long the calls are.
Cfb1Right == part = "cfb1" => CFB1!EncryptedRight

SboxFilled == IF part = "sbox" THEN SBOX!Filled ELSE TRUE

\* Every loop that ends by a condition on the data ends: the sort and the search of
\* frozen, the tables that are filled, the way to a round key.
LoopsEnd ==
  /\ <>(part # "map" \/ phase = "ready")
  /\ phase = "first" ~> phase = "ready"
  /\ \A t \in Thread : at[t] = "fill" ~> at[t] = "ready"
  /\ <>SboxFilled
  /\ Returns
=============================================================================
