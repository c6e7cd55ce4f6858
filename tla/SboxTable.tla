------------------------------ MODULE SboxTable ------------------------------
(***************************************************************************)
(* EnsureSboxInitialized() of libs/uAES/src/uaes.c, turn by turn: p runs   *)
(* through the powers of 3, q through those of its inverse, and the        *)
(* entries of the two tables are filled in on the way.                     *)
(***************************************************************************)
EXTENDS Gf28

VARIABLES
  p, q,
  s_sbox, s_rsbox,
  running   \* in the loop; FALSE before and behind it

vars == <<p, q, s_sbox, s_rsbox, running>>

Init ==
  /\ p = {0} /\ q = {0}
  /\ s_sbox = [x \in Bytes |-> {}] /\ s_rsbox = [x \in Bytes |-> {}]
  /\ running = FALSE

Start ==
  /\ ~running /\ s_sbox[{}] = {}
  /\ running' = TRUE
  /\ UNCHANGED <<p, q, s_sbox, s_rsbox>>

TimesThree(x) == Xor(x, ByteTimes2(x))

\* Mutant of OverThree: the last correction is left out.
OverThreeShort(x) ==
  LET a == Xor(x, Low(Up(x, 1), 8))
      b == Xor(a, Low(Up(a, 2), 8))
  IN Xor(b, Low(Up(b, 4), 8))

\* q divided by 3: times F6h.
OverThree(x) ==
  LET a == Xor(x, Low(Up(x, 1), 8))
      b == Xor(a, Low(Up(a, 2), 8))
      c == Xor(b, Low(Up(b, 4), 8))
  IN Xor(c, IF 7 \in c THEN Byte(9) ELSE {})

\* Mutant of Turn: the loop goes on until p is 0.
TurnUntilZero ==
  /\ running
  /\ p' = TimesThree(p) /\ q' = OverThree(q)
  /\ running' = (p' # {})
  /\ s_sbox' = [s_sbox EXCEPT ![p'] = SboxAffineTransform(q')]
  /\ s_rsbox' = [s_rsbox EXCEPT ![SboxAffineTransform(q')] = p']

\* A turn of the loop; behind the last one the entries for 0 are written.
Turn ==
  /\ running
  /\ p' = TimesThree(p) /\ q' = OverThree(q)
  /\ running' = (p' # {0})
  /\ s_sbox' = [s_sbox EXCEPT ![p'] = SboxAffineTransform(q'),
                              ![{}] = IF p' = {0} THEN Byte(99) ELSE @]
  /\ s_rsbox' = [s_rsbox EXCEPT ![SboxAffineTransform(q')] = p',
                                ![Byte(99)] = IF p' = {0} THEN {} ELSE @]

Next == Start \/ Turn

Spec == Init /\ [][Next]_vars /\ WF_vars(Next)

-----------------------------------------------------------------------------
(***************************************************************************)
(* Properties                                                              *)
(***************************************************************************)

\* p * q == 1 in the Galois field: the loop invariant the source states.
LoopInvariant == Product(p, q) = {0}

Filled == ~running /\ s_sbox[{}] # {}

\* Once the entry for 0 is there, and the table is used, every entry of both tables
\* is right, and until then no entry is wrong.
TablesRight ==
  /\ \A x \in Bytes : s_sbox[x] \in {{}, Sbox[x]} /\ s_rsbox[x] \in {{}, RSbox[x]}
  /\ Filled => s_sbox = Sbox /\ s_rsbox = RSbox

\* The three builds have the same S-box and the same reverse, and it is that of the
\* standard: the affine transformation of the inverse, which for p is q.
BuildsAgree ==
  /\ Sbox[p] = Affine(q) /\ Sbox[{}] = Affine({})
  /\ RSbox[Affine(q)] = p /\ RSbox[Affine({})] = {}
  /\ \A x \in {p, {}} : SubByteComputed(x) = Sbox[x] /\ InvSubByteComputed(x) = RSbox[x]

\* A word of four bytes.
Packed(a, b, c, d) == a \cup Up(b, 8) \cup Up(c, 16) \cup Up(d, 24)

\* Products by way of doubling, of bytes and of the four bytes of a word at once,
\* are products of the field, for the factors the reverse cipher uses and for q.
ProductsRight ==
  \A b \in {Byte(9), Byte(11), Byte(13), Byte(14), q} :
    /\ ByteTimesByte(p, b) = Product(p, b)
    /\ WordTimesByte(Packed(p, q, {}, p), b) =
         Packed(Product(p, b), Product(q, b), {}, Product(p, b))
=============================================================================
