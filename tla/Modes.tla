-------------------------------- MODULE Modes --------------------------------
(***************************************************************************)
(* The modes ECB, CBC, CFB, OFB and CTR of libs/uAES/src/uaes.c.  A        *)
(* message of L bytes lies in memory from in on, and calls of any length   *)
(* encrypt, or decrypt, it to where out points, in the same buffer or in   *)
(* another.  A Simple function is Init and one call for the whole message. *)
(* The cipher reads a block before it writes one, as in the 32-bit build.  *)
(***************************************************************************)
EXTENDS Blocks

CONSTANTS
  L,        \* the length of the message
  Size      \* the size of the memory

ModesAssumption == L \in Nat /\ L % B = 0 /\ Size >= L

VARIABLES
  mode, encrypt,
  in, out,     \* where the message is and where it goes
  param,       \* segment_size, in bits (CFB), the length of the nonce (CTR)
  ctx, mem,
  done         \* how much of the message has been passed to calls

vars == <<mode, encrypt, in, out, param, ctx, mem, done>>

Modes == {"ECB", "CBC", "CFB", "OFB", "CTR"}

IV == [k \in Pos |-> Named("iv", k)]
Nonce(k) == R - 1    \* digits of the nonce: the counter is about to carry

-----------------------------------------------------------------------------
(* What the modes promise, NIST SP 800-38A: byte k of the encrypted message *)

P(k) == Named("p", k)

EcbText(k) == Cipher([j \in Pos |-> P(B * (k \div B) + j)])[k % B]

CbcBlocks ==
  LET c[i \in 0 .. L \div B - 1] ==
        Cipher([j \in Pos |-> Xor(P(B * i + j), IF i = 0 THEN IV[j] ELSE c[i - 1][j])])
  IN c

\* Segment i is encrypted with what the last B bytes of IV and ciphertext encrypt to.
CfbText(s) ==
  LET upto[i \in 0 .. L] ==     \* the ciphertext before segment i ends
        IF i = 0 THEN [k \in 1 .. B |-> IV[k - 1]]
        ELSE LET before == upto[i - 1]
                 from == B + s * (i - 1)
                 o == Cipher([j \in Pos |-> before[from - B + j + 1]])
             IN before \o [j \in 1 .. s |-> Xor(P(s * (i - 1) + j - 1), o[j - 1])]
  IN upto[(L + s - 1) \div s]

\* A segment has 1 to B bytes, and of these the number that is nearest to the size.
Segment(bits) ==
  CHOOSE s \in 1 .. B : \A t \in 1 .. B :
    (8 * s - bits) * (8 * s - bits) <= (8 * t - bits) * (8 * t - bits)

OfbBlocks ==
  LET o[i \in 0 .. L \div B] == Cipher(IF i = 0 THEN IV ELSE o[i - 1]) IN o

\* Counter block i: the nonce, zeros behind it, plus i.
CtrBlock(n, i) ==
  LET start[k \in 0 .. B] ==
        IF k = 0 THEN 0 ELSE start[k - 1] * R + (IF k <= n THEN Nonce(k - 1) ELSE 0)
  IN [k \in Pos |-> ((start[B] + i) \div R ^ (B - 1 - k)) % R]

Text(m, par) ==
  CASE m = "ECB" -> [k \in 0 .. L - 1 |-> EcbText(k)]
    [] m = "CBC" -> LET c == CbcBlocks IN [k \in 0 .. L - 1 |-> c[k \div B][k % B]]
    [] m = "CFB" -> LET c == CfbText(Segment(par)) IN [k \in 0 .. L - 1 |-> c[B + k + 1]]
    [] m = "OFB" -> LET o == OfbBlocks IN [k \in 0 .. L - 1 |-> Xor(P(k), o[k \div B][k % B])]
    [] m = "CTR" -> [k \in 0 .. L - 1 |->
                       Xor(P(k), Cipher(Digits(CtrBlock(par, k \div B)))[k % B])]

Plain == [k \in 0 .. L - 1 |-> P(k)]

-----------------------------------------------------------------------------
(* The modes; r is the context and the memory, s and d are the input and the *)
(* output of the call and i is where its loop is                            *)

EcbEncrypt(r, s, d, i) ==
  [r EXCEPT !.mem = Stored(@, d + i, Cipher(Loaded(@, s + i)))]

EcbDecrypt(r, s, d, i) ==
  [r EXCEPT !.mem = Stored(@, d + i, InvCipher(Loaded(@, s + i)))]

CbcInit == [iv |-> IV]

\* XorBlocks(): byte by byte, so that it may change input that is still to be read.
XorInto(m, b, s, d) ==
  LET upto[k \in 0 .. B] ==
        IF k = 0 THEN m
        ELSE LET x == upto[k - 1] IN [x EXCEPT ![d + k - 1] = Xor(b[k - 1], x[s + k - 1])]
  IN upto[B]

\* Mutant of CbcEncrypt: the iv is not stored for the next call.
CbcEncryptForgets(r, s, d, i) ==
  LET m == XorInto(r.mem, r.ctx.iv, s + i, d + i)
  IN [r EXCEPT !.mem = Stored(m, d + i, Cipher(Loaded(m, d + i)))]

CbcEncrypt(r, s, d, i) ==
  LET m == XorInto(r.mem, r.ctx.iv, s + i, d + i)
      b == Cipher(Loaded(m, d + i))
  IN [ctx |-> [r.ctx EXCEPT !.iv = b], mem |-> Stored(m, d + i, b)]

CbcDecrypt(r, s, d, i) ==
  LET next_iv == Loaded(r.mem, s + i)
      b == InvCipher(next_iv)
  IN [ctx |-> [r.ctx EXCEPT !.iv = next_iv],
      mem |-> Stored(r.mem, d + i, [k \in Pos |-> Xor(r.ctx.iv[k], b[k])])]

\* Mutant of SegmentBytes: the size is limited at one end only.
SegmentBytesFromZero(segment_size) ==
  LET bytes == segment_size \div 8 IN IF bytes > B THEN B ELSE bytes

\* A size of no byte is taken for one of one byte, a size of more than a block for a block.
SegmentBytes(segment_size) ==
  LET bytes == segment_size \div 8
  IN IF bytes < 1 THEN 1 ELSE IF bytes > B THEN B ELSE bytes

CfbInit(segment_size) ==
  [input_block |-> IV, cipher_block |-> Cipher(IV), byte_pos |-> 0,
   segment_bytes |-> SegmentBytes(segment_size)]

\* Mutant of CfbShifted: the whole block is taken for one segment.
CfbNotShifted(c) == [c EXCEPT !.cipher_block = Cipher(c.input_block), !.byte_pos = 0]

\* The ciphertext of the segment, at the front of the block, goes to its end.
CfbShifted(c) ==
  LET b == [k \in Pos |-> c.input_block[(k + c.segment_bytes) % B]]
  IN [c EXCEPT !.input_block = b, !.cipher_block = Cipher(b), !.byte_pos = 0]

CFB_Xcrypt(r, s, d, i, enc) ==
  LET c == IF r.ctx.byte_pos >= r.ctx.segment_bytes THEN CfbShifted(r.ctx) ELSE r.ctx
      from == r.mem[s + i]
      to == Xor(from, c.cipher_block[c.byte_pos])
  IN [ctx |-> [c EXCEPT !.input_block[c.byte_pos] = IF enc THEN to ELSE from, !.byte_pos = @ + 1],
      mem |-> [r.mem EXCEPT ![d + i] = to]]

OfbInit == [cipher_stream |-> IV, byte_pos |-> B]

OfbEncrypt(r, s, d, i) ==
  LET c == IF r.ctx.byte_pos >= B
           THEN [cipher_stream |-> Cipher(r.ctx.cipher_stream), byte_pos |-> 0] ELSE r.ctx
  IN [ctx |-> [c EXCEPT !.byte_pos = @ + 1],
      mem |-> [r.mem EXCEPT ![d + i] = Xor(r.mem[s + i], c.cipher_stream[c.byte_pos])]]

CtrInit(nonce_len) ==
  [counter |-> [k \in Pos |-> IF k < nonce_len THEN Nonce(k) ELSE 0], byte_pos |-> 0]

\* The key stream is not in the context: it is Cipher() of the counter at all times.
CtrEncrypt(r, s, d, i) ==
  LET c == IF r.ctx.byte_pos >= B
           THEN [counter |-> Increased(r.ctx.counter), byte_pos |-> 0] ELSE r.ctx
      key_stream == Cipher(Digits(c.counter))
  IN [ctx |-> [c EXCEPT !.byte_pos = @ + 1],
      mem |-> [r.mem EXCEPT ![d + i] = Xor(r.mem[s + i], key_stream[c.byte_pos])]]

-----------------------------------------------------------------------------

Memory(i, text) ==
  [a \in 0 .. Size - 1 |-> IF a - i \in 0 .. L - 1 THEN text[a - i] ELSE Named("m", a)]

Source == IF encrypt THEN Plain ELSE Text(mode, param)
Target == IF encrypt THEN Text(mode, param) ELSE Plain

\* The multiples of 8 up to a block, and the next one to either side.
SegmentSizes == {8 * s : s \in 0 .. B + 1}

Init ==
  /\ mode \in Modes /\ encrypt \in BOOLEAN
  /\ in \in 0 .. Size - L /\ out \in 0 .. Size - L
  /\ param \in CASE mode = "CFB" -> SegmentSizes [] mode = "CTR" -> 0 .. B [] OTHER -> {0}
  /\ ctx = CASE mode = "ECB" -> <<>>
             [] mode = "CBC" -> CbcInit
             [] mode = "CFB" -> CfbInit(param)
             [] mode = "OFB" -> OfbInit
             [] mode = "CTR" -> CtrInit(param)
  /\ mem = Memory(in, Source)
  /\ done = 0

Unit == IF mode \in {"ECB", "CBC"} THEN B ELSE 1

\* Mutant of Turns: the loop runs once more.
TurnsOneMore(n) == n \div Unit + 1

Turns(n) == n \div Unit

\* The loop of a call, over n bytes.
Loop(n) ==
  LET s == in + done
      d == out + done
      turn[t \in 0 .. Turns(n)] ==
        IF t = 0 THEN [ctx |-> ctx, mem |-> mem]
        ELSE LET r == turn[t - 1]
                 i == Unit * (t - 1)
             IN CASE mode = "ECB" -> IF encrypt THEN EcbEncrypt(r, s, d, i) ELSE EcbDecrypt(r, s, d, i)
                  [] mode = "CBC" -> IF encrypt THEN CbcEncrypt(r, s, d, i) ELSE CbcDecrypt(r, s, d, i)
                  [] mode = "CFB" -> CFB_Xcrypt(r, s, d, i, encrypt)
                  [] mode = "OFB" -> OfbEncrypt(r, s, d, i)
                  [] mode = "CTR" -> CtrEncrypt(r, s, d, i)
  IN turn[Turns(n)]

Call(n) ==
  /\ done + n <= L /\ n % Unit = 0
  /\ LET r == Loop(n) IN ctx' = r.ctx /\ mem' = r.mem
  /\ done' = done + n
  /\ UNCHANGED <<mode, encrypt, in, out, param>>

Next == \E n \in 1 .. L : Call(n)

Spec == Init /\ [][Next]_vars

-----------------------------------------------------------------------------
(***************************************************************************)
(* Properties                                                              *)
(***************************************************************************)

\* The output begins at the input, before it, or behind its end.  The sentences of uaes.h
\* have it the other way round ("the output should not be before the input", line 456), but
\* its examples and the reason it gives agree with the code: "buf, buf + 16u, 240u" is
\* illegal, "buf + 16u, buf, 240u" legal (lines 463 and 464, 685, 789), since an output that
\* begins in the midst of the input overwrites what is still to be read.
Ascending == out <= in \/ out >= in + L

\* Where a message is cut into calls makes no difference to what becomes of it, in one
\* buffer or two: behind every call as much of it is what the mode says as was passed.
\* No other place for the output will do: in the end the message is right just if the
\* output did not begin in the midst of the input, whatever the mode.
OutputRight ==
  LET target == Target
      right == \A k \in 0 .. done - 1 : mem[out + k] = target[k]
  IN Ascending \/ done = L => (right <=> Ascending)

\* Nothing is written but as much output as there was input.
OnlyOutput ==
  LET before == Memory(in, Source)
  IN \A a \in 0 .. Size - 1 : a - out \notin 0 .. done - 1 => mem[a] = before[a]
=============================================================================
