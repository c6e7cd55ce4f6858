--------------------------------- MODULE Gcm ---------------------------------
(***************************************************************************)
(* GCM of libs/uAES/src/uaes.c: additional data and a message in calls of  *)
(* any length, and a tag over both.  Ghash() is a function of which only   *)
(* is known that 0 goes to 0; Ghash.tla is about what it computes.  The    *)
(* counter is a number of B digits below R, 16 and 256 in the code.  The   *)
(* standard counts blocks in the last C digits, 4 there; the code counts   *)
(* in all of them.  So the station at the other end is one that counts as  *)
(* the standard says, or another uAES.                                     *)
(***************************************************************************)
EXTENDS Blocks

CONSTANTS
  C, AadLens, DataLens,
  IvLens,     \* lengths of IVs
  Counters    \* the values that the hash of an IV may have

GcmAssumption ==
  /\ C \in 1 .. B - 1 /\ AadLens \cup DataLens \cup IvLens \subseteq Nat
  /\ Counters \subseteq [Pos -> 0 .. R - 1]
  \* The longest message of the standard: every block has a counter of its own,
  \* behind that of the tag.
  /\ \A n \in DataLens : (n + B - 1) \div B + 1 < R ^ C

VARIABLES
  encrypt,
  aad_len, data_len,   \* of the whole
  iv_len,
  counter0,            \* what Init makes of the IV
  width,               \* the number of digits that the other end counts in
  ctx, mem

vars == <<encrypt, aad_len, data_len, iv_len, counter0, width, ctx, mem>>

Plain(k) == Named("p", k)
Aad(k) == Named("aad", k)
Iv(k) == Named("iv", k)

Ghash(b) == IF b = ZeroBlock THEN b ELSE [k \in Pos |-> {Term("H", b, k)}]

\* The last block that is hashed, for n and m bytes.
LengthBlock(n, m) == [k \in Pos |-> {Term("length", <<n, m>>, k)}]

-----------------------------------------------------------------------------
(* What the mode promises, NIST SP 800-38D, of a station that counts in d digits. *)
(* That of the standard has d = C.                                                *)

\* The counter of block i of the message: the last d digits count.
CounterBlock(d, i) ==
  LET low[k \in 0 .. d] == IF k = 0 THEN 0 ELSE low[k - 1] * R + counter0[B - d + k - 1]
      n == (low[d] + i) % R ^ d
  IN [k \in Pos |-> IF k < B - d THEN counter0[k] ELSE (n \div R ^ (B - 1 - k)) % R]

CipherText(d, k) == Xor(Plain(k), Cipher(Digits(CounterBlock(d, k \div B + 1)))[k % B])

BlocksOf(s) ==
  [i \in 1 .. (Len(s) + B - 1) \div B |->
     [k \in Pos |-> IF B * (i - 1) + k < Len(s) THEN s[B * (i - 1) + k + 1] ELSE Zero]]

GHASH(blocks) ==
  LET y[i \in 0 .. Len(blocks)] ==
        IF i = 0 THEN ZeroBlock ELSE Ghash(XorBlocks(y[i - 1], blocks[i]))
  IN y[Len(blocks)]

Tag(d) ==
  XorBlocks(GHASH(BlocksOf([k \in 1 .. aad_len |-> Aad(k - 1)])
                    \o BlocksOf([k \in 1 .. data_len |-> CipherText(d, k - 1)])
                    \o <<LengthBlock(aad_len, data_len)>>),
            Cipher(Digits(counter0)))

-----------------------------------------------------------------------------
(* The code *)

\* Mutant of HashedIv: a block that is begun is not hashed before the length.
HashedIvShort(n) ==
  LET from(i) == [k \in Pos |-> IF B * i + k < n THEN Iv(B * i + k) ELSE Zero]
      turn[i \in 0 .. n \div B] ==
        IF i = 0 THEN ZeroBlock ELSE Ghash(XorBlocks(turn[i - 1], from(i - 1)))
      rest == IF n % B = 0 THEN turn[n \div B] ELSE XorBlocks(turn[n \div B], from(n \div B))
  IN Ghash(XorBlocks(rest, LengthBlock(0, n)))

\* What UAES_GCM_Init() makes of n bytes of IV that it hashes: blocks, then the length.
HashedIv(n) ==
  LET turn[i \in 0 .. (n + B - 1) \div B] ==
        IF i = 0 THEN ZeroBlock
        ELSE Ghash([k \in Pos |->
               LET at == B * (i - 1) + k
               IN IF at < n THEN Xor(turn[i - 1][k], Iv(at)) ELSE turn[i - 1][k]])
  IN Ghash(XorBlocks(turn[(n + B - 1) \div B], LengthBlock(0, n)))

\* UAES_GCM_Init() for an IV that gives the counter c.
UAES_GCM_Init(c) == [counter |-> c, data_len |-> 0, aad_len |-> 0, hash_buf |-> ZeroBlock]

AadByte(c, a) ==
  LET hash_buf == IF c.aad_len % B = 0 THEN Ghash(c.hash_buf) ELSE c.hash_buf
  IN [c EXCEPT !.hash_buf = [hash_buf EXCEPT ![c.aad_len % B] = Xor(@, a)], !.aad_len = @ + 1]

\* Mutant of NewBlock: a call begins a block.
NewBlockOfCall(c, i) == i = 0 \/ c.data_len % B = 0

NewBlock(c, i) == c.data_len % B = 0

\* Turn i of the loop of GCM_Xcrypt().
DataByte(c, i, from) ==
  LET new == NewBlock(c, i)
      pos == c.data_len % B
      counter == IF new THEN Increased(c.counter) ELSE c.counter
      hash_buf == IF new THEN Ghash(c.hash_buf) ELSE c.hash_buf
      to == Xor(from, Cipher(Digits(counter))[pos])
  IN [ctx |-> [c EXCEPT !.counter = counter, !.data_len = @ + 1,
                        !.hash_buf = [hash_buf EXCEPT ![pos] = Xor(@, IF encrypt THEN to ELSE from)]],
      output |-> to]

\* Mutant of BlocksUsed: a block that is begun does not count.
BlocksFull(n) == n \div B

\* The number of blocks of n bytes.
BlocksUsed(n) == (n + B - 1) \div B

\* UAES_GCM_GenerateTag(): the loop that subtracts the number of blocks from the
\* counter, digit by digit, all but the first.
Recovered(c) ==
  LET turn[pos \in 1 .. B] ==    \* the turns for the digits from pos on have been made
        IF pos = B THEN [counter |-> c.counter, remain |-> BlocksUsed(c.data_len), end |-> FALSE]
        ELSE LET t == turn[pos + 1]
                 r == t.remain % R
                 more == t.remain \div R
             IN IF t.end THEN t
                ELSE IF t.counter[pos] >= r
                THEN [counter |-> [t.counter EXCEPT ![pos] = @ - r], remain |-> more, end |-> more = 0]
                ELSE [counter |-> [t.counter EXCEPT ![pos] = (@ + R - r) % R],
                      remain |-> more + 1, end |-> FALSE]
  IN turn[1].counter

UAES_GCM_GenerateTag(c) ==
  LET last == XorBlocks(Ghash(c.hash_buf), LengthBlock(c.aad_len, c.data_len))
  IN XorBlocks(Ghash(last), Cipher(Digits(Recovered(c))))

-----------------------------------------------------------------------------

\* An IV of this length, 12 bytes, is not hashed.
DirectLen == B - C

\* It is the begin of the counter, with a 1 behind it; the hash of any other IV is the
\* whole of the counter.
InitialCounters(n) ==
  IF n = DirectLen
  THEN {[k \in Pos |-> IF k < n THEN c[k] ELSE IF k = B - 1 THEN 1 ELSE 0] : c \in Counters}
  ELSE Counters

Init ==
  /\ encrypt \in BOOLEAN
  /\ aad_len \in AadLens /\ data_len \in DataLens
  /\ iv_len \in IvLens /\ counter0 \in InitialCounters(iv_len)
  /\ width \in {C, B}
  /\ ctx = UAES_GCM_Init(counter0)
  /\ mem = [k \in 0 .. data_len - 1 |-> IF encrypt THEN Plain(k) ELSE CipherText(width, k)]

AddAad(n) ==
  /\ ctx.data_len = 0 /\ ctx.aad_len + n <= aad_len
  /\ LET turn[i \in 0 .. n] ==
           IF i = 0 THEN ctx ELSE AadByte(turn[i - 1], Aad(ctx.aad_len + i - 1))
     IN ctx' = turn[n]
  /\ UNCHANGED <<encrypt, aad_len, data_len, iv_len, counter0, width, mem>>

Xcrypt(n) ==
  /\ ctx.aad_len = aad_len /\ ctx.data_len + n <= data_len
  /\ LET turn[i \in 0 .. n] ==
           IF i = 0 THEN [ctx |-> ctx, mem |-> mem]
           ELSE LET r == turn[i - 1]
                    at == ctx.data_len + i - 1
                    d == DataByte(r.ctx, i - 1, r.mem[at])
                IN [ctx |-> d.ctx, mem |-> [r.mem EXCEPT ![at] = d.output]]
         r == turn[n]
     IN ctx' = r.ctx /\ mem' = r.mem
  /\ UNCHANGED <<encrypt, aad_len, data_len, iv_len, counter0, width>>

Next ==
  \/ \E n \in 1 .. aad_len - ctx.aad_len : AddAad(n)
  \/ \E n \in 1 .. data_len - ctx.data_len : Xcrypt(n)

Spec == Init /\ [][Next]_vars

-----------------------------------------------------------------------------
(***************************************************************************)
(* Properties                                                              *)
(***************************************************************************)

\* The counter of block i is the same at both ends, the first of which counts in d digits.
\* It is not when the last d digits overflow: there the code carries into the next one.
Agrees(d, i) == CounterBlock(d, i) = CounterBlock(B, i)

\* The counter made of an IV that is hashed is the hash of the IV in whole blocks.
InitialCounterRight ==
  iv_len # DirectLen =>
    HashedIv(iv_len) = GHASH(BlocksOf([k \in 1 .. iv_len |-> Iv(k - 1)]) \o <<LengthBlock(0, iv_len)>>)

\* However it is cut into calls, a byte of the message becomes what the mode says if, and
\* only if, its block has the same counter at both ends.
OutputRight ==
  \A k \in 0 .. ctx.data_len - 1 :
    (mem[k] = IF encrypt THEN CipherText(width, k) ELSE Plain(k)) <=> Agrees(width, k \div B + 1)

\* The counters are the same when the other end is uAES, and when the IV is not hashed.
\* So uAES understands itself with any IV, and the standard with one of the usual length.
\* A hashed IV that stands near the overflow gives another ciphertext than the standard.
EndsAgree ==
  width = B \/ iv_len = DirectLen => \A i \in 1 .. BlocksUsed(data_len) : Agrees(width, i)

\* The tag is right if, and only if, what is hashed is (ciphertext that comes from the other
\* end is), and the counter to begin with has been recovered.
TagRight ==
  ctx.aad_len = aad_len /\ ctx.data_len = data_len =>
    (UAES_GCM_GenerateTag(ctx) = Tag(width)
       <=> /\ encrypt => \A i \in 1 .. BlocksUsed(data_len) : Agrees(width, i)
           /\ ctx.counter[0] = counter0[0])

\* At any time, and whatever borrows it makes, the subtraction gives the counter that Init
\* began with, but for its first digit, which it leaves as it is.
CounterRecovered == Recovered(ctx) = [counter0 EXCEPT ![0] = ctx.counter[0]]
=============================================================================
