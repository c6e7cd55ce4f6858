---------------------------- MODULE CMemoryProofs ----------------------------
(***************************************************************************)
(* What get() and set() of a memory come to, for any property, offset,     *)
(* length, losses and logs, and any number of blocks.                      *)
(***************************************************************************)
EXTENDS CMemory, HostCSProofs

-----------------------------------------------------------------------------
(* Numbers that wrap *)

LEMMA Remainder ==
  ASSUME NEW m \in Nat \ {0}, NEW r \in 0 .. m - 1, NEW q \in Int
  PROVE  (q * m + r) % m = r
OBVIOUS

LEMMA Division ==
  ASSUME NEW n \in Nat, NEW d \in Nat \ {0}
  PROVE  \E q \in Nat, r \in 0 .. d - 1 : n = q * d + r /\ n \div d = q /\ n % d = r
<1> DEFINE q == n \div d
           r == n % d
<1>1. q \in Nat
  OBVIOUS
<1>2. r \in 0 .. d - 1
  OBVIOUS
<1>3. ASSUME d > 0 PROVE n % d = n - d * (n \div d)
  BY <1>3
<1>4. r = n - d * q
  BY <1>3
<1> HIDE DEF q, r
<1>5. n = q * d + r
  BY <1>1, <1>2, <1>4
<1>6. QED
  BY <1>1, <1>2, <1>5 DEF q, r

\* Wrapping on the way changes nothing.
LEMMA WrapSum ==
  ASSUME NEW m \in Nat \ {0}, NEW a \in Nat, NEW b \in Nat
  PROVE  ((a % m) + b) % m = (a + b) % m
<1>1. PICK q \in Nat, s \in 0 .. m - 1 : a = q * m + s /\ a % m = s
  BY Division
<1>2. PICK p \in Nat, r \in 0 .. m - 1 : s + b = p * m + r /\ (s + b) % m = r
  BY Division
<1>3. ASSUME NEW t \in Int, t = q * m + p * m PROVE a + b = t + r
  BY <1>1, <1>2, <1>3
<1>4. q * m + p * m = (q + p) * m /\ (q + p) * m \in Int /\ q + p \in Int
  OBVIOUS
<1>5. (a + b) % m = r
  <2>1. a + b = (q + p) * m + r
    BY <1>3, <1>4
  <2>2. QED
    BY <1>4, <2>1, Remainder
<1>6. QED
  BY <1>1, <1>2, <1>5

\* What is left behind a wrapped number is right although it is counted from there.
LEMMA WrapRest ==
  ASSUME NEW m \in Nat \ {0}, NEW b \in Nat, NEW r \in 0 .. m - 1
  PROVE  (b + r - (b % m)) % m = r
<1>1. PICK q \in Nat, s \in 0 .. m - 1 : b = q * m + s /\ b % m = s
  BY Division
<1>2. b + r - s = q * m + r
  BY <1>1
<1>3. (q * m + r) % m = r
  BY Remainder
<1>4. QED
  BY <1>1, <1>2, <1>3

LEMMA WrapFacts ==
  /\ \A a \in Nat : Wrap(a) \in Cells /\ Wrap(a) \in Nat /\ Wrap(a) <= a
  /\ \A a \in Cells : Wrap(a) = a /\ a \in Nat
  /\ \A a, b \in Nat : Wrap(Wrap(a) + b) = Wrap(a + b)
  /\ \A b \in Nat, r \in Cells : Wrap(b + r - Wrap(b)) = r
<1> DEFINE m == MaxCell + 1
<1>1. m \in Nat \ {0} /\ Cells = 0 .. m - 1
  BY ExtraAssumption DEF Cells
<1>2. \A a : Wrap(a) = a % m
  BY DEF Wrap
<1> HIDE DEF m
<1>3. ASSUME NEW a \in Nat PROVE a % m \in 0 .. m - 1 /\ a % m <= a
  BY <1>1
<1>4. ASSUME NEW a \in 0 .. m - 1 PROVE a % m = a
  BY <1>1, <1>4
<1>5. \A a \in Nat : Wrap(a) \in Cells /\ Wrap(a) \in Nat /\ Wrap(a) <= a
  <2>1. \A r \in 0 .. m - 1 : r \in Nat
    BY <1>1
  <2>2. QED
    BY <1>1, <1>2, <1>3, <2>1
<1>6. \A a \in Cells : Wrap(a) = a /\ a \in Nat
  BY <1>1, <1>2, <1>4
<1>7. \A a, b \in Nat : Wrap(Wrap(a) + b) = Wrap(a + b)
  BY <1>1, <1>2, WrapSum
<1>8. \A b \in Nat, r \in Cells : Wrap(b + r - Wrap(b)) = r
  BY <1>1, <1>2, WrapRest
<1>9. QED
  BY <1>5, <1>6, <1>7, <1>8

-----------------------------------------------------------------------------
(* The blocks of a call *)

\* Where block k begins, how long it is, and what the first k blocks cover.
At(k) == k * BlockMax
Length(o, k) == IF k < WholeBlocks(o) THEN BlockMax ELSE o.size - At(WholeBlocks(o))
Covered(o, k) == IF k <= WholeBlocks(o) THEN At(k) ELSE o.size

LEMMA AtFacts ==
  ASSUME CMemoryAssumption
  PROVE  /\ BlockMax \in Cells \ {0} /\ BlockMax \in Nat \ {0} /\ At(0) = 0
         /\ \A k \in Nat : At(k) \in Nat /\ At(k + 1) = At(k) + BlockMax
         /\ \A j, k \in Nat : j <= k => At(j) <= At(k)
         /\ \A k \in Nat \ {0} : At(k) # 0
<1>1. BlockMax \in Cells \ {0} /\ BlockMax \in Nat \ {0}
  BY ExtraAssumption DEF CMemoryAssumption, Cells
<1>2. At(0) = 0
  BY <1>1 DEF At
<1>3. \A k \in Nat : At(k) \in Nat /\ At(k + 1) = At(k) + BlockMax
  BY <1>1 DEF At
<1>4. \A j, k \in Nat : j <= k => At(j) <= At(k)
  BY <1>1 DEF At
<1>5. \A k \in Nat \ {0} : At(k) # 0
  BY <1>1 DEF At
<1>6. QED
  BY <1>1, <1>2, <1>3, <1>4, <1>5

LEMMA BlockFacts ==
  ASSUME CMemoryAssumption, NEW o \in Operations
  PROVE  /\ o.size \in Nat /\ o.offset \in Cells /\ WholeBlocks(o) \in Nat
         /\ Covered(o, 0) = 0
         /\ \A k \in Nat : Covered(o, k) \in Nat /\ Covered(o, k) <= o.size
         /\ \A k \in Nat : k <= WholeBlocks(o) =>
              /\ Covered(o, k) = At(k) /\ Length(o, k) \in Nat /\ Length(o, k) <= BlockMax
              /\ Covered(o, k + 1) = At(k) + Length(o, k) /\ At(k) + Length(o, k) <= o.size
         /\ o.size - At(WholeBlocks(o)) \in 0 .. BlockMax - 1
<1> DEFINE w == WholeBlocks(o)
<1>1. o.size \in Nat /\ o.offset \in Cells
  BY DEF CMemoryAssumption
<1>2. BlockMax \in Nat \ {0}
  BY AtFacts
<1>3. PICK q \in Nat, r \in 0 .. BlockMax - 1 :
        o.size = q * BlockMax + r /\ o.size \div BlockMax = q
  BY <1>1, <1>2, Division
<1>4. w = q /\ w \in Nat /\ At(w) = q * BlockMax /\ At(w) \in Nat
  BY <1>3, AtFacts DEF WholeBlocks, At
<1>5. o.size = At(w) + r
  BY <1>3, <1>4
<1> HIDE DEF w
<1>6. At(w) <= o.size /\ o.size - At(w) \in 0 .. BlockMax - 1
  <2>1. ASSUME NEW a \in Nat, NEW s \in Nat, s = a + r PROVE a <= s /\ s - a \in 0 .. BlockMax - 1
    BY <1>2, <2>1
  <2>2. QED
    BY <1>1, <1>4, <1>5, <2>1
<1>7. ASSUME NEW k \in Nat
      PROVE  /\ At(k) \in Nat /\ At(k + 1) = At(k) + BlockMax
             /\ k <= w => At(k) <= At(w)
             /\ k < w => At(k + 1) <= At(w)
             /\ k = w \/ k < w \/ w < k
             /\ k <= w <=> ~(w < k)
             /\ k + 1 <= w <=> k < w
  <2>1. At(k) \in Nat /\ At(k + 1) = At(k) + BlockMax /\ (k <= w => At(k) <= At(w))
    BY <1>4, AtFacts
  <2>2. k < w => At(k + 1) <= At(w)
    <3>1. k < w => k + 1 <= w /\ k + 1 \in Nat
      BY <1>4
    <3>2. QED
      BY <1>4, <3>1, AtFacts
  <2>3. /\ k = w \/ k < w \/ w < k
        /\ k <= w <=> ~(w < k)
        /\ k + 1 <= w <=> k < w
    BY <1>4
  <2>4. QED
    BY <2>1, <2>2, <2>3
<1>8. ASSUME NEW k \in Nat PROVE Covered(o, k) \in Nat /\ Covered(o, k) <= o.size
  <2>1. Covered(o, k) = IF k <= w THEN At(k) ELSE o.size
    BY DEF Covered, w
  <2>2. QED
    BY <1>1, <1>4, <1>6, <1>7, <2>1
<1>9. ASSUME NEW k \in Nat, k <= w
      PROVE  /\ Covered(o, k) = At(k) /\ Length(o, k) \in Nat /\ Length(o, k) <= BlockMax
             /\ Covered(o, k + 1) = At(k) + Length(o, k) /\ At(k) + Length(o, k) <= o.size
  <2>1. /\ Covered(o, k) = At(k)
        /\ Covered(o, k + 1) = IF k + 1 <= w THEN At(k + 1) ELSE o.size
        /\ Length(o, k) = IF k < w THEN BlockMax ELSE o.size - At(w)
    BY <1>9 DEF Covered, Length, w
  <2>2. CASE k < w
    BY <1>1, <1>2, <1>4, <1>6, <1>7, <2>1, <2>2
  <2>3. CASE k = w
    BY <1>1, <1>2, <1>4, <1>6, <1>7, <2>1, <2>3
  <2>4. QED
    BY <1>7, <1>9, <2>2, <2>3
<1>10. Covered(o, 0) = 0
  <2>1. 0 <= w
    BY <1>4
  <2>2. QED
    BY <1>9, <2>1, AtFacts
<1>11. QED
  BY <1>1, <1>4, <1>6, <1>8, <1>9, <1>10 DEF w

-----------------------------------------------------------------------------
(* What is written over what *)

Over(u, v, f, s) ==
  /\ u \in Seq(Cells) /\ Len(u) = Len(v)
  /\ \A k \in 1 .. Len(v) : u[k] = IF k - f \in 1 .. Len(s) THEN s[k - f] ELSE v[k]

LEMMA OverwrittenFacts ==
  ASSUME NEW v \in Seq(Cells), NEW f \in Nat, NEW s \in Seq(Cells)
  PROVE  Over(Overwritten(v, f, s), v, f, s)
<1> DEFINE w == Overwritten(v, f, s)
<1>1. w = [k \in 1 .. Len(v) |-> IF k - f \in 1 .. Len(s) THEN s[k - f] ELSE v[k]]
  BY DEF Overwritten
<1>2. \A k \in 1 .. Len(v) : v[k] \in Cells
  OBVIOUS
<1>3. \A j \in 1 .. Len(s) : s[j] \in Cells
  OBVIOUS
<1> HIDE DEF w
<1>4. \A k \in 1 .. Len(v) : w[k] \in Cells
  BY <1>1, <1>2, <1>3
<1>5. Len(v) \in Nat /\ DOMAIN w = 1 .. Len(v)
  BY <1>1
<1>6. ASSUME NEW n \in Nat, NEW u, u = [k \in 1 .. n |-> u[k]], \A k \in 1 .. n : u[k] \in Cells
      PROVE  u \in Seq(Cells) /\ Len(u) = n
  <2>1. [k \in 1 .. n |-> u[k]] \in Seq(Cells) /\ Len([k \in 1 .. n |-> u[k]]) = n
    BY <1>6
  <2>2. QED
    BY <1>6, <2>1
<1>7. w = [k \in 1 .. Len(v) |-> w[k]]
  BY <1>1
<1>8. w \in Seq(Cells) /\ Len(w) = Len(v)
  BY <1>4, <1>5, <1>6, <1>7
<1>9. \A k \in 1 .. Len(v) : w[k] = IF k - f \in 1 .. Len(s) THEN s[k - f] ELSE v[k]
  BY <1>1
<1>10. QED
  BY <1>8, <1>9 DEF w, Over

\* Two sequences of the same length and the same cells are the same.
LEMMA SameCells ==
  ASSUME NEW u \in Seq(Cells), NEW w \in Seq(Cells), NEW n \in Nat, Len(u) = n, Len(w) = n,
         \A k \in 1 .. n : u[k] = w[k]
  PROVE  u = w
OBVIOUS

LEMMA PartFacts ==
  ASSUME NEW d \in Seq(Cells), NEW a \in Nat, NEW n \in Nat, a + n <= Len(d)
  PROVE  /\ SubSeq(d, a + 1, a + n) \in Seq(Cells) /\ Len(SubSeq(d, a + 1, a + n)) = n
         /\ \A k \in 1 .. n : SubSeq(d, a + 1, a + n)[k] = d[a + k]
<1>1. SubSeq(d, a + 1, a + n) \in Seq(Cells) /\ Len(SubSeq(d, a + 1, a + n)) = n
  OBVIOUS
<1>2. \A k \in 1 .. n : SubSeq(d, a + 1, a + n)[k] = d[a + k]
  OBVIOUS
<1>3. QED
  BY <1>1, <1>2

LEMMA FirstPart ==
  ASSUME NEW d \in Seq(Cells), NEW n \in Nat, n <= Len(d)
  PROVE  /\ SubSeq(d, 1, n) \in Seq(Cells) /\ Len(SubSeq(d, 1, n)) = n
         /\ \A k \in 1 .. n : SubSeq(d, 1, n)[k] = d[k]
<1>1. SubSeq(d, 1, n) \in Seq(Cells) /\ Len(SubSeq(d, 1, n)) = n
  OBVIOUS
<1>2. \A k \in 1 .. n : SubSeq(d, 1, n)[k] = d[k]
  OBVIOUS
<1>3. QED
  BY <1>1, <1>2

\* The first n cells of d over v, from cell f on.
Written(v, f, d, n) == Overwritten(v, f, SubSeq(d, 1, n))

LEMMA WrittenFacts ==
  ASSUME NEW v \in Seq(Cells), NEW f \in Nat, NEW d \in Seq(Cells), NEW n \in Nat, n <= Len(d)
  PROVE  /\ Written(v, f, d, n) \in Seq(Cells) /\ Len(Written(v, f, d, n)) = Len(v)
         /\ \A k \in 1 .. Len(v) :
              Written(v, f, d, n)[k] = IF f < k /\ k <= f + n THEN d[k - f] ELSE v[k]
<1> DEFINE s == SubSeq(d, 1, n)
<1>1. s \in Seq(Cells) /\ Len(s) = n /\ \A k \in 1 .. n : s[k] = d[k]
  BY FirstPart
<1> HIDE DEF s
<1>2. Over(Overwritten(v, f, s), v, f, s)
  BY <1>1, OverwrittenFacts
<1>3. ASSUME NEW k \in Nat PROVE k - f \in 1 .. n <=> f < k /\ k <= f + n
  OBVIOUS
<1>4. \A k \in 1 .. Len(v) : k - f \in 1 .. n => s[k - f] = d[k - f]
  BY <1>1
<1>5. Len(v) \in Nat /\ \A k \in 1 .. Len(v) : k \in Nat
  OBVIOUS
<1>6. QED
  BY <1>1, <1>2, <1>3, <1>4, <1>5 DEF Written, Over, s

LEMMA WrittenNone ==
  ASSUME NEW v \in Seq(Cells), NEW f \in Nat, NEW d \in Seq(Cells)
  PROVE  Written(v, f, d, 0) = v
<1>1. /\ Written(v, f, d, 0) \in Seq(Cells) /\ Len(Written(v, f, d, 0)) = Len(v)
      /\ \A k \in 1 .. Len(v) :
           Written(v, f, d, 0)[k] = IF f < k /\ k <= f + 0 THEN d[k - f] ELSE v[k]
  BY WrittenFacts
<1>2. \A k \in 1 .. Len(v) : ~(f < k /\ k <= f + 0)
  OBVIOUS
<1>3. QED
  BY <1>1, <1>2, SameCells

\* A block written behind what has been written makes it longer.
LEMMA WrittenOn ==
  ASSUME NEW v \in Seq(Cells), NEW f \in Nat, NEW d \in Seq(Cells), NEW n \in Nat, NEW m \in Nat,
         n + m <= Len(d)
  PROVE  Overwritten(Written(v, f, d, n), f + n, SubSeq(d, n + 1, n + m)) = Written(v, f, d, n + m)
<1> DEFINE s == SubSeq(d, n + 1, n + m)
           w == Written(v, f, d, n)
           u == Overwritten(w, f + n, s)
           z == Written(v, f, d, n + m)
<1>1. s \in Seq(Cells) /\ Len(s) = m /\ \A k \in 1 .. m : s[k] = d[n + k]
  BY PartFacts
<1>2. n <= Len(d) /\ n + m \in Nat /\ f + n \in Nat
  OBVIOUS
<1>3. /\ w \in Seq(Cells) /\ Len(w) = Len(v)
      /\ \A k \in 1 .. Len(v) : w[k] = IF f < k /\ k <= f + n THEN d[k - f] ELSE v[k]
  BY <1>2, WrittenFacts
<1>4. /\ z \in Seq(Cells) /\ Len(z) = Len(v)
      /\ \A k \in 1 .. Len(v) : z[k] = IF f < k /\ k <= f + (n + m) THEN d[k - f] ELSE v[k]
  BY <1>2, WrittenFacts
<1> HIDE DEF s, w
<1>5. Over(u, w, f + n, s)
  BY <1>1, <1>2, <1>3, OverwrittenFacts
<1> HIDE DEF u, z
<1>6. ASSUME NEW k \in 1 .. Len(v) PROVE u[k] = z[k]
  <2>0. k \in Nat /\ k \in 1 .. Len(w)
    BY <1>3
  <2>1. CASE k - (f + n) \in 1 .. m
    <3>1. u[k] = s[k - (f + n)] /\ s[k - (f + n)] = d[n + (k - (f + n))]
      BY <1>1, <1>5, <2>0, <2>1 DEF Over
    <3>2. n + (k - (f + n)) = k - f /\ f < k /\ k <= f + (n + m)
      BY <2>0, <2>1
    <3>3. z[k] = d[k - f]
      BY <1>4, <3>2
    <3>4. QED
      BY <3>1, <3>2, <3>3
  <2>2. CASE k - (f + n) \notin 1 .. m
    <3>1. u[k] = w[k]
      BY <1>1, <1>5, <2>0, <2>2 DEF Over
    <3>2. f < k /\ k <= f + n <=> f < k /\ k <= f + (n + m)
      BY <2>0, <2>2
    <3>3. QED
      BY <1>3, <1>4, <3>1, <3>2
  <2>3. QED
    BY <2>1, <2>2
<1>7. Len(v) \in Nat
  OBVIOUS
<1>8. u = z
  BY <1>3, <1>4, <1>5, <1>6, <1>7, SameCells DEF Over
<1>9. QED
  BY <1>8 DEF u, w, z, s

-----------------------------------------------------------------------------
(* The requests *)

\* The payload of a block of n cells, m cells into the range, for offset f: the id, the
\* place, and for a set() the cells.
Carried(o, m, n) == IF o.do = "set" THEN SubSeq(o.data, m + 1, m + n) ELSE <<>>
BlockData(o, m, f, n) == <<IdOf[o.name], f, n>> \o Carried(o, m, n)

\* The request for the block a at cell m of the range.
MadeBlock(o, m, a, q) ==
  /\ q.cmd = IF o.do = "get" THEN "GET_PROPERTY" ELSE "SET_PROPERTY"
  /\ q.data = BlockData(o, m, a.offset, a.size)
  /\ ~Privileged(o) => q.seal = NoSeal

\* What a set() is given is a sequence of as many cells as it says.
LEMMA DataFacts ==
  ASSUME CMemoryAssumption, NEW o \in Operations, o.do = "set"
  PROVE  o.data \in Seq(Cells) /\ Len(o.data) = o.size
<1>1. o.size \in Nat /\ o.data \in [1 .. o.size -> Cells]
  BY DEF CMemoryAssumption
<1>2. ASSUME NEW n \in Nat, NEW d \in [1 .. n -> Cells] PROVE d \in Seq(Cells) /\ Len(d) = n
  <2>1. [k \in 1 .. n |-> d[k]] \in Seq(Cells) /\ Len([k \in 1 .. n |-> d[k]]) = n
    BY <1>2
  <2>2. d = [k \in 1 .. n |-> d[k]]
    BY <1>2
  <2>3. QED
    BY <2>1, <2>2
<1>3. QED
  BY <1>1, <1>2

\* What the server finds in it.
Found(d, o, m, f, n) ==
  /\ d \in Seq(Cells) /\ d # << >>
  /\ d[1] = IdOf[o.name] /\ d[2] = f /\ d[3] = n
  /\ o.do = "set" => SubSeq(d, 4, 3 + n) = SubSeq(o.data, m + 1, m + n)

LEMMA PayloadParts ==
  ASSUME CMemoryAssumption, NEW o \in Operations, o.name \in DOMAIN IdOf,
         NEW m \in Nat, NEW n \in Cells, NEW f \in Cells, m + n <= o.size
  PROVE  Found(BlockData(o, m, f, n), o, m, f, n)
<1> DEFINE s == Carried(o, m, n)
           h == <<IdOf[o.name], f, n>>
<1>1. n \in Nat /\ IdOf[o.name] \in Cells
  <2>1. IdOf[o.name] \in Ids
    BY DEF CMemoryAssumption
  <2>2. Ids \subseteq Cells
    BY PropsAssumption, ExtraAssumption DEF Ids, Cells
  <2>3. n \in Nat
    BY ExtraAssumption DEF Cells
  <2>4. QED
    BY <2>1, <2>2, <2>3
<1>2. s \in Seq(Cells) /\ (o.do = "set" => Len(s) = n)
  <2>1. CASE o.do = "set"
    <3>1. o.data \in Seq(Cells) /\ m + n <= Len(o.data)
      BY <2>1, DataFacts
    <3>2. QED
      BY <1>1, <2>1, <3>1, PartFacts DEF Carried
  <2>2. CASE o.do # "set"
    <3>1. << >> \in Seq(Cells)
      OBVIOUS
    <3>2. QED
      BY <2>2, <3>1 DEF Carried
  <2>3. QED
    BY <2>1, <2>2
<1>3. h \in Seq(Cells) /\ Len(h) = 3
  BY <1>1
<1>4. ASSUME NEW t \in Seq(Cells), NEW a \in Cells
      PROVE  /\ <<a, f, n>> \o t \in Seq(Cells) /\ <<a, f, n>> \o t # << >>
             /\ (<<a, f, n>> \o t)[1] = a /\ (<<a, f, n>> \o t)[2] = f /\ (<<a, f, n>> \o t)[3] = n
  OBVIOUS
<1> HIDE DEF s
<1>5. o.do = "set" => SubSeq(h \o s, 4, 3 + n) = s
  <2> SUFFICES ASSUME o.do = "set" PROVE SubSeq(h \o s, 4, 3 + n) = s
    OBVIOUS
  <2> HIDE DEF h
  <2>1. SubSeq(h \o s, Len(h) + 1, Len(h) + Len(s)) = s
    BY <1>2, <1>3, BehindPart
  <2>2. Len(h) + 1 = 4 /\ Len(h) + Len(s) = 3 + n
    BY <1>2, <1>3
  <2>3. QED
    BY <2>1, <2>2, Zenon
<1>6. o.do = "set" => s = SubSeq(o.data, m + 1, m + n)
  BY DEF s, Carried
<1>7. BlockData(o, m, f, n) = h \o s
  BY DEF BlockData, h, s
<1>8. /\ h \o s \in Seq(Cells) /\ h \o s # << >>
      /\ (h \o s)[1] = IdOf[o.name] /\ (h \o s)[2] = f /\ (h \o s)[3] = n
  BY <1>1, <1>2, <1>4 DEF h
<1>9. QED
  BY <1>5, <1>6, <1>7, <1>8 DEF Found

LEMMA BlockMade ==
  ASSUME CMemoryAssumption, BlocksKnown, NEW o \in Operations, o.name \in DOMAIN IdOf,
         moved \in Cells, NEW a \in [offset : Cells, size : Cells],
         a.offset = Wrap(o.offset + moved), a.size <= BlockMax, moved + a.size <= o.size
  PROVE  BlockRequest(o, a) \in Requests /\ MadeBlock(o, moved, a, BlockRequest(o, a))
<1> DEFINE s == BlockData(o, moved, a.offset, a.size)
           x == Added(Empty, s)
           y == IF Privileged(o) THEN Encrypt(x, Secret) ELSE x
<1>1. a.size \in Cells /\ a.offset \in Cells /\ a.size \in Nat /\ moved \in Nat
  BY ExtraAssumption DEF Cells
<1>2. s \in Seq(Cells) /\ s # << >>
  <2>1. Found(s, o, moved, a.offset, a.size)
    BY <1>1, PayloadParts
  <2> HIDE DEF s
  <2>2. QED
    BY <2>1 DEF Found
<1> HIDE DEF s
<1>3. x = [cells |-> s, data |-> Len(s), seal |-> NoSeal]
  BY <1>2, FirstAdded
<1> HIDE DEF x
<1>4. y.cells = s /\ y.seal \in {NoSeal, Secret} /\ (~Privileged(o) => y.seal = NoSeal)
  BY <1>2, <1>3 DEF Encrypt
<1>5. BlockRequest(o, a) = [cmd |-> IF o.do = "get" THEN "GET_PROPERTY" ELSE "SET_PROPERTY",
                            data |-> y.cells, seal |-> y.seal]
  BY DEF BlockRequest, BlockData, Carried, x, s
<1> HIDE DEF y
<1>6. s = BlockPayload(o, moved, a.size)
  BY DEF s, BlockPayload, BlockData, Carried
<1>7. a.size \in 0 .. BlockMax
  <2>1. BlockMax \in Nat
    BY AtFacts
  <2>2. QED
    BY <1>1, <2>1
<1>8. BlockRequest(o, a) \in Requests
  <2>1. [cmd |-> IF o.do = "get" THEN "GET_PROPERTY" ELSE "SET_PROPERTY",
         data |-> BlockPayload(o, moved, a.size), seal |-> y.seal] \in Requests
    BY <1>4, <1>7 DEF BlocksKnown
  <2>2. QED
    BY <1>4, <1>5, <1>6, <2>1
<1>9. MadeBlock(o, moved, a, BlockRequest(o, a))
  BY <1>4, <1>5 DEF MadeBlock, s
<1>10. QED
  BY <1>8, <1>9

\* What serving the request for a block does to the property, and what the client is told.
LEMMA BlockServed ==
  ASSUME CMemoryAssumption, Memories, NEW o \in Operations, o.name \in DOMAIN IdOf,
         Srv!TypeOK, NEW m \in Nat, NEW a \in [offset : Cells, size : Cells], m + a.size <= o.size,
         NEW q \in Requests, MadeBlock(o, m, a, q), Srv!Poll(q)
  PROVE  LET id == IdOf[o.name]
         IN /\ reply' \in Srv!Frame
            /\ o.do = "get" \/ reply'.err # "S_OK" => values'[id] = values[id]
            /\ reply'.err = "S_OK" =>
                 /\ a.offset + a.size <= Len(values[id])
                 /\ o.do = "set" => values'[id] =
                      Overwritten(values[id], a.offset, SubSeq(o.data, m + 1, m + a.size))
                 /\ o.do = "get" /\ ~Privileged(o) =>
                      /\ reply'.seal = NoSeal
                      /\ reply'.data = SubSeq(values[id], a.offset + 1, a.offset + a.size)
<1> DEFINE id == IdOf[o.name]
           f == Srv!Answered(values, q)
<1>1. Srv!Request(q) /\ Srv!Typed(values) /\ reply' = f /\ f \in Srv!Frame
  BY PollTypes
<1>2. a.size \in Cells /\ a.offset \in Cells /\ o.do \in {"get", "set"}
  BY DEF CMemoryAssumption
<1>3. /\ q.data[1] = id /\ q.data[2] = a.offset /\ q.data[3] = a.size
      /\ o.do = "set" => SubSeq(q.data, 4, 3 + a.size) = SubSeq(o.data, m + 1, m + a.size)
  <2> DEFINE d == BlockData(o, m, a.offset, a.size)
  <2>1. Found(d, o, m, a.offset, a.size)
    BY <1>2, PayloadParts
  <2>2. q.data = d
    BY DEF MadeBlock
  <2> HIDE DEF d
  <2>3. QED
    BY <2>1, <2>2 DEF Found
<1>4. id \in Ids /\ id \in Srv!Ids /\ Props[id].kind = "memory" /\ id # NonceId
  BY ConstantFacts DEF CMemoryAssumption, Memories
<1>5. o.do = "set" => SubSeq(q.data, 4, 3 + a.size) = SubSeq(o.data, m + 1, m + a.size)
  BY <1>3
<1>6. (o.do = "get" => q.cmd = "GET_PROPERTY") /\ (o.do = "set" => q.cmd = "SET_PROPERTY")
  BY DEF MadeBlock
<1>7. o.do = "get" /\ ~Privileged(o) => Srv!Plain(q)
  BY DEF MadeBlock, Srv!Plain
<1> HIDE DEF id, f
<1>8. values'[id] = Srv!Serve(values, q).values[id]
  BY <1>1, <1>4, ServerAssumptions, Srv!PollKeeps
<1>9. o.do = "get" \/ f.err # "S_OK" => values'[id] = values[id]
  <2> SUFFICES ASSUME o.do = "get" \/ f.err # "S_OK" PROVE values'[id] = values[id]
    OBVIOUS
  <2>1. f.err # "S_OK" \/ q.cmd # "SET_PROPERTY"
    BY <1>6
  <2>2. Srv!Serve(values, q).values[id] = values[id]
    BY <1>1, <1>4, <2>1, ServerAssumptions, Srv!FailedChangesNothing DEF f
  <2>3. QED
    BY <1>8, <2>2
<1>10. ASSUME f.err = "S_OK", o.do = "set"
       PROVE  /\ a.offset + a.size <= Len(values[id])
              /\ values'[id] = Overwritten(values[id], a.offset, SubSeq(o.data, m + 1, m + a.size))
  <2>1. /\ q.data[2] + q.data[3] <= Len(values[q.data[1]])
        /\ Srv!Serve(values, q).values =
             [values EXCEPT ![q.data[1]] =
                Srv!Overwritten(values[q.data[1]], q.data[2], SubSeq(q.data, 4, 3 + q.data[3]))]
    <3>1. q.cmd = "SET_PROPERTY" /\ Props[q.data[1]].kind = "memory"
      BY <1>3, <1>4, <1>6, <1>10
    <3>2. QED
      BY <1>1, <1>10, <3>1, ServerAssumptions, Srv!MemorySet DEF f
  <2>2. values \in [Srv!Ids -> Seq(Srv!Cells)]
    BY <1>1 DEF Srv!Typed
  <2>3. Srv!Serve(values, q).values[id] =
          Srv!Overwritten(values[id], a.offset, SubSeq(q.data, 4, 3 + a.size))
    BY <1>3, <1>4, <2>1, <2>2
  <2>4. \A v, k, s : Srv!Overwritten(v, k, s) = Overwritten(v, k, s)
    BY DEF Srv!Overwritten, Overwritten
  <2>5. QED
    BY <1>3, <1>5, <1>8, <1>10, <2>1, <2>3, <2>4
<1>11. ASSUME f.err = "S_OK", o.do = "get"
       PROVE  /\ a.offset + a.size <= Len(values[id])
              /\ f.data = SubSeq(values[id], a.offset + 1, a.offset + a.size)
  <2>1. /\ q.data[2] + q.data[3] <= Len(values[q.data[1]])
        /\ f.data = SubSeq(values[q.data[1]], q.data[2] + 1, q.data[2] + q.data[3])
    <3>1. q.cmd = "GET_PROPERTY" /\ Props[q.data[1]].kind = "memory"
      BY <1>3, <1>4, <1>6, <1>11
    <3>2. QED
      BY <1>1, <1>11, <3>1, ServerAssumptions, Srv!MemoryTold DEF f
  <2>2. QED
    BY <1>3, <2>1
<1>12. o.do = "get" /\ ~Privileged(o) => f.seal = NoSeal
  BY <1>1, <1>7, ServerAssumptions, Srv!PlainTold DEF f
<1>13. QED
  BY <1>1, <1>2, <1>9, <1>10, <1>11, <1>12 DEF id
-----------------------------------------------------------------------------
(* The invariant *)

\* The block that is next lies behind those acknowledged, as far as Size can count.
InPlace ==
  block <= WholeBlocks(op) =>
    moved = Wrap(At(block)) /\ access.offset = Wrap(op.offset + At(block))

BlockTypes ==
  /\ op \in Operations \cup {NoOp} /\ block \in Nat
  /\ result \in ErrorCode \cup {"E_PENDING", "E_TIMEOUT", "E_FAIL"}
  /\ access \in [offset : Cells, size : Cells] /\ moved \in Cells
  /\ Running => op \in Operations /\ InPlace
  /\ waiting # "none" =>
       /\ Running /\ op.name \in DOMAIN IdOf
       /\ block <= WholeBlocks(op) /\ access.size = Length(op, block)
  /\ op # NoOp /\ op.do = "get" => buffer \in [1 .. op.size -> Cells \cup {Other}]

Id == IdOf[op.name]
Done == Covered(op, block)

\* The property holds what it held with the first n cells of a set() written over it.
HoldsTo(n) ==
  values[Id] = IF op.do = "set" THEN Written(before, op.offset, op.data, n) ELSE before

\* The first n cells of the caller's buffer are filled, the others not touched.
FilledTo(n) ==
  op.do = "get" /\ ~Privileged(op) =>
    \A k \in 1 .. op.size : buffer[k] = IF k <= n THEN before[op.offset + k] ELSE Other

\* While no call has timed out: the acknowledged blocks lie within the property and are
\* what has been copied; only the block that is waited for may be written already.
Copied ==
  /\ before \in Seq(Cells) /\ Len(before) <= MaxCell /\ Len(before) = Len(values[Id])
  /\ Done = 0 \/ op.offset + Done <= Len(before)
  /\ result = "S_OK" => Done = op.size
  /\ HoldsTo(Done) \/ (waiting # "none" /\ HoldsTo(Done + access.size))
  /\ FilledTo(Done)

\* The request on its way is for the block that is next, which is not written yet.
Going == \A q \in OnWay : q \in Requests /\ MadeBlock(op, moved, access, q) /\ HoldsTo(Done)

\* The answer that comes back tells whether the block is copied.
Coming ==
  \A f \in Came :
    /\ f \in Srv!Frame
    /\ f.err # "S_OK" => HoldsTo(Done)
    /\ f.err = "S_OK" =>
         /\ op.offset + Done + access.size <= Len(before) /\ HoldsTo(Done + access.size)
         /\ op.do = "get" /\ ~Privileged(op) =>
              /\ f.seal = NoSeal
              /\ f.data = SubSeq(before, op.offset + Done + 1, op.offset + Done + access.size)

Truth ==
  timeouts = 0 /\ op # NoOp /\ op.name \in DOMAIN IdOf =>
    Copied /\ Going /\ Coming

MemInv == LineSound /\ BlockTypes /\ Truth

-----------------------------------------------------------------------------
(* Where a block lies *)

LEMMA CallFacts ==
  ASSUME CMemoryAssumption, NEW o \in Operations
  PROVE  /\ o # NoOp /\ o.do \in {"get", "set"} /\ o.offset \in Cells /\ o.offset \in Nat
         /\ o.size \in Nat /\ MaxCell \in Nat
<1>1. o.do \in {"get", "set"} /\ o.offset \in Cells /\ o.size \in Nat
  BY DEF CMemoryAssumption
<1>2. NoOp.do = "none"
  BY DEF NoOp
<1>3. o # NoOp
  BY <1>1, <1>2
<1>4. \A c \in Cells : c \in Nat
  BY ExtraAssumption DEF Cells
<1>5. QED
  BY <1>1, <1>3, <1>4, ExtraAssumption

\* However often Size has wrapped, the block that is next is as long as it should be, lies
\* within the caller's buffer, and begins in the property where it does in the buffer.
LEMMA NextBlock ==
  ASSUME CMemoryAssumption, op \in Operations, block \in Nat, block <= WholeBlocks(op), InPlace
  PROVE  /\ BlockSize(op) = Length(op, block) /\ Length(op, block) \in Cells
         /\ Length(op, block) <= BlockMax
         /\ moved \in Cells /\ moved + Length(op, block) <= op.size
         /\ access.offset = Wrap(op.offset + moved)
<1> DEFINE w == WholeBlocks(op)
           l == Length(op, block)
           b == At(block)
<1>1. /\ op.size \in Nat /\ op.offset \in Nat /\ w \in Nat
      /\ l \in Nat /\ l <= BlockMax /\ b + l <= op.size
      /\ op.size - At(w) \in 0 .. BlockMax - 1
  BY BlockFacts, CallFacts
<1>2. BlockMax \in Cells \ {0} /\ BlockMax \in Nat /\ b \in Nat /\ At(w) \in Nat
  BY <1>1, AtFacts
<1>3. moved = Wrap(b) /\ access.offset = Wrap(op.offset + b)
  BY DEF InPlace
<1>4. \A n \in Nat : n <= BlockMax => n \in Cells
  BY <1>2, ExtraAssumption DEF Cells
<1>5. l \in Cells
  BY <1>1, <1>4
<1>6. BlockSize(op) = l
  <2>1. CASE block < w
    BY <2>1 DEF BlockSize, Length
  <2>2. CASE ~(block < w)
    <3>1. block = w
      BY <1>1, <2>2
    <3>2. l = op.size - At(w) /\ BlockSize(op) = Wrap(op.size - Wrap(At(w)))
      BY <1>3, <2>2, <3>1 DEF BlockSize, Length
    <3>3. op.size = At(w) + l
      BY <1>1, <1>2, <3>2
    <3>4. Wrap(At(w) + l - Wrap(At(w))) = l
      BY <1>2, <1>5, WrapFacts
    <3>5. Wrap(At(w)) \in Nat
      BY <1>2, WrapFacts
    <3>6. ASSUME NEW a \in Nat, NEW c \in Nat PROVE (a + l) - c = a + (l - c)
      BY <1>1
    <3>7. op.size - Wrap(At(w)) = At(w) + (l - Wrap(At(w)))
      BY <1>2, <3>3, <3>5, <3>6
    <3>8. QED
      BY <3>2, <3>4, <3>7
  <2>3. QED
    BY <2>1, <2>2
<1> HIDE DEF w, l, b
<1>7. Wrap(b) \in Cells /\ Wrap(b) \in Nat /\ Wrap(b) <= b
  BY <1>2, WrapFacts
<1>8. moved + l <= op.size
  BY <1>1, <1>2, <1>3, <1>7
<1>9. access.offset = Wrap(op.offset + moved)
  <2>1. Wrap(Wrap(b) + op.offset) = Wrap(b + op.offset)
    BY <1>1, <1>2, WrapFacts
  <2>2. b + op.offset = op.offset + b /\ Wrap(b) + op.offset = op.offset + Wrap(b)
    BY <1>1, <1>2, <1>7
  <2>3. QED
    BY <1>3, <2>1, <2>2
<1>10. QED
  BY <1>1, <1>3, <1>5, <1>6, <1>7, <1>8, <1>9 DEF w, l, b

\* Nothing has wrapped when the acknowledged blocks lie within a property.
LEMMA NotWrapped ==
  ASSUME CMemoryAssumption, op \in Operations, block \in Nat, block <= WholeBlocks(op), InPlace,
         NEW n \in Nat, n <= MaxCell, Done = 0 \/ op.offset + Done <= n
  PROVE  /\ moved = Done /\ access.offset = op.offset + Done /\ Done \in Nat
         /\ Done + Length(op, block) = Covered(op, block + 1)
         /\ Done + Length(op, block) <= op.size
<1>1. /\ op.offset \in Cells /\ op.offset \in Nat /\ Done = At(block)
      /\ MaxCell \in Nat
      /\ At(block) + Length(op, block) = Covered(op, block + 1)
      /\ At(block) + Length(op, block) <= op.size
  BY BlockFacts, CallFacts DEF Done
<1>2. At(block) \in Nat
  BY AtFacts
<1>3. moved = Wrap(At(block)) /\ access.offset = Wrap(op.offset + At(block))
  BY DEF InPlace
<1>4. At(block) \in Cells /\ op.offset + At(block) \in Cells
  <2>1. CASE At(block) = 0
    <3>1. At(block) \in Cells
      BY <1>1, <2>1 DEF Cells
    <3>2. op.offset + At(block) = op.offset
      BY <1>1, <2>1
    <3>3. QED
      BY <1>1, <3>1, <3>2
  <2>2. CASE At(block) # 0
    <3>1. op.offset + At(block) <= n
      BY <1>1, <2>2
    <3>2. ASSUME NEW a \in Nat, NEW c \in Nat, a + c <= n PROVE a + c \in 0 .. MaxCell /\ c \in 0 .. MaxCell
      BY <1>1, <3>2
    <3>3. QED
      BY <1>1, <1>2, <3>1, <3>2 DEF Cells
  <2>3. QED
    BY <2>1, <2>2
<1>5. Wrap(At(block)) = At(block) /\ Wrap(op.offset + At(block)) = op.offset + At(block)
  BY <1>4, WrapFacts
<1>6. QED
  BY <1>1, <1>2, <1>3, <1>5

\* Behind an acknowledged block the next one is in its place.
LEMMA NextInPlace ==
  ASSUME CMemoryAssumption, op \in Operations, block \in Nat, block <= WholeBlocks(op), InPlace,
         access.size = Length(op, block), op' = op, block' = block + 1,
         access' = [offset |-> Wrap(access.offset + access.size), size |-> access.size],
         moved' = IF block < WholeBlocks(op) THEN Wrap(moved + access.size) ELSE moved
  PROVE  InPlace'
<1> SUFFICES ASSUME block' <= WholeBlocks(op')
             PROVE  moved' = Wrap(At(block')) /\ access'.offset = Wrap(op'.offset + At(block'))
  BY DEF InPlace, At
<1> DEFINE b == At(block)
<1>1. op.offset \in Nat /\ WholeBlocks(op) \in Nat /\ b \in Nat /\ BlockMax \in Nat
  BY AtFacts, BlockFacts, CallFacts
<1>2. block < WholeBlocks(op)
  BY <1>1
<1>3. access.size = BlockMax /\ At(block') = b + BlockMax
  BY <1>2, AtFacts DEF Length
<1>4. moved = Wrap(b) /\ access.offset = Wrap(op.offset + b)
  BY DEF InPlace
<1> HIDE DEF b
<1>5. moved' = Wrap(b + BlockMax)
  <2>1. Wrap(Wrap(b) + BlockMax) = Wrap(b + BlockMax)
    BY <1>1, WrapFacts
  <2>2. QED
    BY <1>2, <1>3, <1>4, <2>1
<1>6. access'.offset = Wrap(op.offset + (b + BlockMax))
  <2>1. op.offset + b \in Nat /\ op.offset + b + BlockMax = op.offset + (b + BlockMax)
    BY <1>1
  <2>2. Wrap(Wrap(op.offset + b) + BlockMax) = Wrap(op.offset + b + BlockMax)
    BY <1>1, <2>1, WrapFacts
  <2>3. access'.offset = Wrap(access.offset + access.size)
    OBVIOUS
  <2>4. QED
    BY <1>3, <1>4, <2>1, <2>2, <2>3
<1>7. QED
  BY <1>3, <1>5, <1>6

-----------------------------------------------------------------------------
(* The steps *)

\* What send() puts on the line is the request for the block that is next.
LEMMA SentBlock ==
  ASSUME CMemoryAssumption, BlocksKnown, BlockTypes, SendBlock
  PROVE  /\ op \in Operations /\ InPlace /\ block <= WholeBlocks(op)
         /\ access' = [offset |-> access.offset, size |-> Length(op, block)]
         /\ access' \in [offset : Cells, size : Cells]
         /\ BlockRequest(op, access') \in Requests
         /\ MadeBlock(op, moved, access', BlockRequest(op, access'))
<1>1. /\ op \in Operations /\ op.name \in DOMAIN IdOf /\ InPlace /\ MoreBlocks(op)
      /\ access' = [offset |-> access.offset, size |-> BlockSize(op)]
  BY DEF SendBlock, BlockTypes
<1>2. block \in Nat /\ block <= WholeBlocks(op)
  <2>1. WholeBlocks(op) \in Nat
    BY <1>1, BlockFacts
  <2>2. QED
    BY <1>1, <2>1 DEF BlockTypes, MoreBlocks
<1>3. /\ BlockSize(op) = Length(op, block) /\ Length(op, block) \in Cells
      /\ Length(op, block) <= BlockMax
      /\ moved \in Cells /\ moved + Length(op, block) <= op.size
      /\ access.offset = Wrap(op.offset + moved)
  BY <1>1, <1>2, NextBlock
<1> DEFINE a == [offset |-> access.offset, size |-> Length(op, block)]
<1>4. a \in [offset : Cells, size : Cells] /\ access' = a
  BY <1>1, <1>3 DEF BlockTypes
<1>5. a.offset = access.offset /\ a.size = Length(op, block)
  OBVIOUS
<1> HIDE DEF a
<1>6. BlockRequest(op, a) \in Requests /\ MadeBlock(op, moved, a, BlockRequest(op, a))
  BY <1>1, <1>3, <1>4, <1>5, BlockMade
<1>7. QED
  BY <1>1, <1>2, <1>4, <1>6 DEF a

\* To the line, the steps of a call are requests, answers and timeouts like any other.
LEMMA StepOnLine ==
  ASSUME CMemoryAssumption, BlocksKnown, BlockTypes, Next
  PROVE  [CSNext]_csVars
<1>1. ASSUME NEW o \in Operations, Begin(o) PROVE [CSNext]_csVars
  BY <1>1 DEF Begin
<1>2. CASE NameUnknown \/ Complete
  BY <1>2 DEF NameUnknown, Complete
<1>3. CASE SendBlock
  <2>1. BlockRequest(op, access') \in Requests /\ Send(BlockRequest(op, access'))
    BY <1>3, SentBlock DEF SendBlock
  <2>2. QED
    BY <2>1 DEF CSNext
<1>4. CASE BlockDone \/ BlockFailed
  BY <1>4 DEF BlockDone, BlockFailed, CSNext
<1>5. CASE TimedOut
  BY <1>5 DEF TimedOut, CSNext
<1>6. CASE (PassOver \/ Elsewhere) /\ UNCHANGED callVars
  BY <1>6 DEF CSNext
<1>7. QED
  BY <1>1, <1>2, <1>3, <1>4, <1>5, <1>6 DEF Next

\* The caller's buffer with the cells of a block.
LEMMA FilledType ==
  ASSUME NEW o, o.size \in Nat, buffer \in [1 .. o.size -> Cells \cup {Other}],
         moved \in Nat, access.size \in Nat, NEW f, f.data \in Seq(Cells), access.size <= Len(f.data)
  PROVE  Filled(o, f) \in [1 .. o.size -> Cells \cup {Other}]
<1>1. ASSUME NEW k \in 1 .. o.size, k - moved \in 1 .. access.size PROVE f.data[k - moved] \in Cells
  <2>1. k - moved \in 1 .. Len(f.data)
    BY <1>1
  <2>2. QED
    BY <2>1
<1>2. QED
  BY <1>1 DEF Filled

LEMMA InitTypes == CMemoryAssumption /\ Init => BlockTypes
<1> SUFFICES ASSUME CMemoryAssumption, Init PROVE BlockTypes
  OBVIOUS
<1>1. /\ op = NoOp /\ result = "S_OK" /\ block = 0 /\ moved = 0
      /\ access = [offset |-> 0, size |-> BlockMax] /\ waiting = "none"
  BY DEF Init, CallInit, CSInit
<1>2. 0 \in Cells /\ BlockMax \in Cells
  BY ExtraAssumption DEF Cells, CMemoryAssumption
<1>3. "S_OK" \in ErrorCode
  BY DEF ErrorCode
<1>4. QED
  BY <1>1, <1>2, <1>3 DEF BlockTypes, Running

LEMMA NextTypes ==
  ASSUME CMemoryAssumption, BlocksKnown, CSTypeOK, BlockTypes, Next
  PROVE  BlockTypes'
<1>0. \A c \in Cells : c \in Nat
  BY ExtraAssumption DEF Cells
<1>1. ASSUME NEW o \in Operations, Begin(o) PROVE BlockTypes'
  <2>1. /\ ~Running /\ op' = o /\ block' = 0 /\ moved' = 0 /\ waiting' = waiting
        /\ access' = [offset |-> o.offset, size |-> BlockMax]
        /\ o.do = "get" => buffer' = [k \in 1 .. o.size |-> Other]
        /\ result' \in {"E_READ_ONLY", "E_PENDING"}
    BY <1>1 DEF Begin, csVars, clientVars
  <2>2. o.offset \in Cells /\ 0 \in Cells /\ BlockMax \in Cells /\ o.offset \in Nat
    BY CallFacts, AtFacts, ExtraAssumption DEF Cells
  <2>3. InPlace'
    <3>1. At(0) = 0 /\ Wrap(0) = 0 /\ Wrap(o.offset + 0) = o.offset
      <4>1. o.offset + 0 = o.offset
        BY <2>2
      <4>2. QED
        BY <2>2, <4>1, AtFacts, WrapFacts
    <3>2. At(block') = 0 /\ access'.offset = o.offset
      BY <2>1, <3>1
    <3>3. QED
      BY <2>1, <3>1, <3>2 DEF InPlace
  <2>4. waiting' = "none"
    BY <2>1 DEF BlockTypes
  <2>5. result' \in ErrorCode \cup {"E_PENDING"}
    BY <2>1 DEF ErrorCode
  <2>6. o.do = "get" => buffer' \in [1 .. o.size -> Cells \cup {Other}]
    BY <2>1
  <2>7. QED
    BY <2>1, <2>2, <2>3, <2>4, <2>5, <2>6 DEF BlockTypes
<1>2. CASE NameUnknown \/ Complete
  <2>1. /\ waiting = "none" /\ result' \in {"E_ID_NOT_EXIST", "S_OK"}
        /\ UNCHANGED <<waiting, op, block, access, moved, buffer>>
    BY <1>2 DEF NameUnknown, Complete, csVars, clientVars
  <2>2. result' \in ErrorCode /\ result' # "E_PENDING"
    BY <2>1 DEF ErrorCode
  <2>3. QED
    BY <2>1, <2>2 DEF BlockTypes, Running
<1>3. CASE SendBlock
  <2>1. /\ op \in Operations /\ InPlace /\ block <= WholeBlocks(op)
        /\ access' = [offset |-> access.offset, size |-> Length(op, block)]
        /\ access' \in [offset : Cells, size : Cells]
    BY <1>3, SentBlock
  <2>2. Running /\ op.name \in DOMAIN IdOf /\ UNCHANGED <<op, block, moved, buffer, result>>
    BY <1>3 DEF SendBlock
  <2>3. access'.offset = access.offset /\ access'.size = Length(op, block)
    BY <2>1
  <2>4. InPlace'
    <3>1. At(block') = At(block)
      BY <2>2
    <3>2. QED
      BY <2>1, <2>2, <2>3, <3>1 DEF InPlace
  <2>5. Length(op', block') = Length(op, block)
    BY <2>2
  <2>6. QED
    BY <2>1, <2>2, <2>3, <2>4, <2>5 DEF BlockTypes, Running
<1>4. CASE BlockDone
  <2> DEFINE f == Head(toClient).frame
  <2>1. /\ Take /\ BlockError(op, f) = "S_OK" /\ block' = block + 1
        /\ access' = [offset |-> Wrap(access.offset + access.size), size |-> access.size]
        /\ moved' = IF block < WholeBlocks(op) THEN Wrap(moved + access.size) ELSE moved
        /\ buffer' = IF op.do = "get" THEN Filled(op, f) ELSE buffer
        /\ UNCHANGED <<op, result, before>>
    BY <1>4 DEF BlockDone
  <2>2. waiting # "none" /\ waiting' = "none" /\ f \in Srv!Frame
    BY <2>1, HeadIsFrame DEF Take
  <2> HIDE DEF f
  <2>3. /\ Running /\ op \in Operations /\ InPlace /\ block \in Nat /\ block <= WholeBlocks(op)
        /\ access.size = Length(op, block)
        /\ access \in [offset : Cells, size : Cells] /\ moved \in Cells
    BY <2>2 DEF BlockTypes
  <2>4. /\ access.size \in Cells /\ access.size \in Nat
        /\ access.offset \in Nat /\ moved \in Nat
    BY <1>0, <2>3
  <2>5. InPlace'
    BY <2>1, <2>3, NextInPlace
  <2>6. /\ access' \in [offset : Cells, size : Cells] /\ moved' \in Cells /\ block' \in Nat
    <3>1. access.offset + access.size \in Nat /\ moved + access.size \in Nat /\ block + 1 \in Nat
      BY <2>3, <2>4
    <3>2. Wrap(access.offset + access.size) \in Cells /\ Wrap(moved + access.size) \in Cells
      BY <3>1, WrapFacts
    <3>3. QED
      BY <2>1, <2>3, <2>4, <3>1, <3>2
  <2>7. op.do = "get" => buffer' \in [1 .. op.size -> Cells \cup {Other}]
    <3> SUFFICES ASSUME op.do = "get" PROVE buffer' \in [1 .. op.size -> Cells \cup {Other}]
      OBVIOUS
    <3>1. f.data \in Seq(Cells)
      BY <2>2, FrameFacts
    <3>2. access.size <= Len(f.data)
      <4>1. ~(Len(f.data) < access.size)
        BY <2>1 DEF BlockError
      <4>2. Len(f.data) \in Nat
        BY <3>1
      <4>3. QED
        BY <2>4, <4>1, <4>2
    <3>3. op.size \in Nat /\ buffer \in [1 .. op.size -> Cells \cup {Other}]
      BY <2>3, CallFacts DEF BlockTypes
    <3>4. Filled(op, f) \in [1 .. op.size -> Cells \cup {Other}]
      BY <2>4, <3>1, <3>2, <3>3, FilledType
    <3>5. QED
      BY <2>1, <3>4
  <2>8. QED
    BY <2>1, <2>2, <2>3, <2>5, <2>6, <2>7 DEF BlockTypes
<1>5. CASE BlockFailed
  <2> DEFINE f == Head(toClient).frame
  <2>1. /\ Take /\ result' = BlockError(op, f) /\ result' # "S_OK"
        /\ UNCHANGED <<op, block, access, moved, buffer>>
    BY <1>5 DEF BlockFailed
  <2>2. waiting' = "none" /\ f \in Srv!Frame
    BY <2>1, HeadIsFrame DEF Take
  <2> HIDE DEF f
  <2>3. f.err \in ErrorCode /\ f.err # "E_PENDING"
    BY <2>2, FrameFacts DEF Srv!Frame, Srv!ErrorCode, ErrorCode
  <2>4. result' \in ErrorCode \cup {"E_FAIL"} /\ result' # "E_PENDING"
    BY <2>1, <2>3 DEF BlockError
  <2>5. QED
    BY <2>1, <2>2, <2>4 DEF BlockTypes, Running
<1>6. CASE TimedOut
  <2>1. waiting' = "none" /\ result' = "E_TIMEOUT" /\ UNCHANGED <<op, block, access, moved, buffer>>
    BY <1>6 DEF TimedOut, TimeoutSilent, TimeoutEarly, GiveUp
  <2>2. QED
    BY <2>1 DEF BlockTypes, Running
<1>7. CASE (PassOver \/ Elsewhere) /\ UNCHANGED callVars
  <2>1. UNCHANGED <<waiting, op, block, access, moved, buffer, result>>
    BY <1>7 DEF callVars, PassOver, Elsewhere, Serve, Return, Log, LoseRequest, LoseAnswer, clientVars
  <2>2. Length(op', block') = Length(op, block) /\ At(block') = At(block)
    BY <2>1
  <2>3. QED
    BY <2>1, <2>2 DEF BlockTypes, Running, InPlace
<1>8. QED
  BY <1>1, <1>2, <1>3, <1>4, <1>5, <1>6, <1>7 DEF Next

-----------------------------------------------------------------------------
(* What is copied *)

\* The property a call is of, and that it keeps its length.
LEMMA IdFacts ==
  ASSUME CMemoryAssumption, NEW o \in Operations, o.name \in DOMAIN IdOf, Srv!Typed(values)
  PROVE  /\ IdOf[o.name] \in Ids
         /\ values[IdOf[o.name]] \in Seq(Cells)
         /\ Len(values[IdOf[o.name]]) = Len(InitValues[IdOf[o.name]])
         /\ Len(values[IdOf[o.name]]) <= MaxCell
<1>1. IdOf[o.name] \in Ids
  BY DEF CMemoryAssumption
<1>2. \A id \in Ids : Len(InitValues[id]) <= MaxCell
  BY ConstantFacts, ServerAssumptions DEF Srv!ServerConstants
<1>3. /\ values \in [Ids -> Seq(Cells)]
      /\ \A id \in Ids : Len(values[id]) = Len(InitValues[id])
  BY ConstantFacts DEF Srv!Typed
<1>4. QED
  BY <1>1, <1>2, <1>3

\* A call that begins has copied nothing.
LEMMA BeginCopies ==
  ASSUME CMemoryAssumption, Srv!Typed(values), NEW o \in Operations, o.name \in DOMAIN IdOf, Begin(o)
  PROVE  Copied'
<1> DEFINE v == values[IdOf[o.name]]
<1>1. /\ op' = o /\ block' = 0 /\ before' = v /\ values' = values
      /\ result' # "S_OK"
      /\ o.do = "get" => buffer' = [k \in 1 .. o.size |-> Other]
  BY DEF Begin, csVars, serverVars
<1>2. v \in Seq(Cells) /\ Len(v) <= MaxCell
  BY IdFacts
<1>3. Id' = IdOf[o.name] /\ values'[Id'] = v
  BY <1>1 DEF Id
<1>4. Done' = 0
  <2>1. Done' = Covered(o, 0)
    BY <1>1 DEF Done, Covered, At, WholeBlocks
  <2>2. QED
    BY <2>1, BlockFacts
<1> HIDE DEF v
<1>5. HoldsTo(0)'
  <2>1. o.do = "set" => Written(v, o.offset, o.data, 0) = v
    BY <1>2, CallFacts, DataFacts, WrittenNone
  <2>2. QED
    BY <1>1, <1>3, <2>1 DEF HoldsTo, Written, Overwritten
<1>6. HoldsTo(Done)'
  BY <1>4, <1>5 DEF HoldsTo, Written, Overwritten
<1>7. FilledTo(Done)'
  <2>1. o.do = "get" => \A k \in 1 .. o.size : buffer'[k] = Other /\ ~(k <= 0)
    BY <1>1, CallFacts
  <2>2. QED
    BY <1>1, <1>4, <2>1 DEF FilledTo, Privileged
<1>8. QED
  BY <1>1, <1>2, <1>3, <1>4, <1>6, <1>7 DEF Copied

\* When no block is left, all of them are acknowledged.
LEMMA AllDone ==
  ASSUME CMemoryAssumption, BlockTypes, op \in Operations, InPlace, ~MoreBlocks(op)
  PROVE  Done = op.size
<1> DEFINE w == WholeBlocks(op)
<1>1. w \in Nat /\ block \in Nat /\ op.size \in Nat
  BY BlockFacts DEF BlockTypes
<1>2. CASE w < block
  BY <1>1, <1>2 DEF Done, Covered
<1>3. CASE block = w
  <2>1. block <= w /\ moved = op.size
    BY <1>1, <1>3 DEF MoreBlocks
  <2>2. moved = Wrap(At(block)) /\ Done = At(block)
    BY <2>1 DEF InPlace, Done, Covered
  <2>3. Done \in Nat /\ Done <= op.size
    BY <1>1, BlockFacts DEF Done
  <2>4. Wrap(At(block)) <= At(block) /\ Wrap(At(block)) \in Nat
    BY <2>2, <2>3, WrapFacts
  <2>5. QED
    BY <1>1, <2>1, <2>2, <2>3, <2>4
<1>4. QED
  <2>1. ~(block < w)
    BY DEF MoreBlocks
  <2>2. QED
    BY <1>1, <1>2, <1>3, <2>1

\* The cells of an answer continue those that are there.
LEMMA FilledOn ==
  ASSUME Done \in Nat, access.size \in Nat, Done + access.size <= op.size,
         op.size \in Nat, op.offset \in Nat,
         op.do = "get", ~Privileged(op), moved = Done, FilledTo(Done),
         NEW f, f.seal = NoSeal, before \in Seq(Cells),
         op.offset + Done + access.size <= Len(before),
         f.data = SubSeq(before, op.offset + Done + 1, op.offset + Done + access.size)
  PROVE  \A k \in 1 .. op.size :
           Filled(op, f)[k] = IF k <= Done + access.size THEN before[op.offset + k] ELSE Other
<1> DEFINE n == Done
           m == access.size
<1>0. /\ n \in Nat /\ m \in Nat /\ n + m <= op.size /\ moved = n /\ access.size = m /\ FilledTo(n)
      /\ op.offset + n + m <= Len(before)
      /\ f.data = SubSeq(before, op.offset + n + 1, op.offset + n + m)
  OBVIOUS
<1> SUFFICES \A k \in 1 .. op.size :
               Filled(op, f)[k] = IF k <= n + m THEN before[op.offset + k] ELSE Other
  OBVIOUS
<1> HIDE DEF n, m
<1> SUFFICES ASSUME NEW k \in 1 .. op.size
             PROVE  Filled(op, f)[k] = IF k <= n + m THEN before[op.offset + k] ELSE Other
  OBVIOUS
<1>1. Filled(op, f)[k] = IF k - n \notin 1 .. m THEN buffer[k] ELSE f.data[k - n]
  BY <1>0 DEF Filled
<1>2. buffer[k] = IF k <= n THEN before[op.offset + k] ELSE Other
  BY <1>0 DEF FilledTo
<1>3. k \in Nat /\ k >= 1
  OBVIOUS
<1>4. CASE k - n \in 1 .. m
  <2>1. op.offset + n \in Nat
    BY <1>0
  <2>2. ASSUME NEW a \in Nat, a + m <= Len(before)
        PROVE  \A j \in 1 .. m : SubSeq(before, a + 1, a + m)[j] = before[a + j]
    BY <1>0, <2>2, PartFacts
  <2>3. f.data[k - n] = before[op.offset + n + (k - n)]
    BY <1>0, <1>4, <2>1, <2>2
  <2>4. op.offset + n + (k - n) = op.offset + k /\ k <= n + m
    BY <1>0, <1>3, <1>4
  <2>5. QED
    BY <1>1, <1>4, <2>3, <2>4
<1>5. CASE k - n \notin 1 .. m
  <2>1. k <= n <=> k <= n + m
    BY <1>0, <1>3, <1>5
  <2>2. QED
    BY <1>1, <1>2, <1>5, <2>1
<1>6. QED
  BY <1>4, <1>5

\* An acknowledged block is copied.
LEMMA DoneCopies ==
  ASSUME CMemoryAssumption, CSTypeOK, BlockTypes, Srv!Typed(values), CSInv, timeouts = 0,
         op.name \in DOMAIN IdOf, Copied, Coming, BlockDone
  PROVE  Copied' /\ OnWay' = {} /\ Came' = {}
<1> DEFINE f == Head(toClient).frame
           l == access.size
<1>1. /\ Take /\ BlockError(op, f) = "S_OK" /\ block' = block + 1
      /\ buffer' = IF op.do = "get" THEN Filled(op, f) ELSE buffer
      /\ UNCHANGED <<op, result, before>>
  BY DEF BlockDone
<1>2. /\ f \in Came /\ waiting # "none" /\ waiting' = "none"
      /\ OnWay' = {} /\ Came' = {} /\ values' = values
  BY <1>1, TakeMoves
<1>3. f.err = "S_OK"
  BY <1>1 DEF BlockError
<1> HIDE DEF f
<1>4. /\ op \in Operations /\ InPlace /\ block \in Nat /\ block <= WholeBlocks(op)
      /\ l = Length(op, block) /\ result = "E_PENDING"
  BY <1>2 DEF BlockTypes, Running
<1>5. /\ op.offset + Done + l <= Len(before) /\ HoldsTo(Done + l)
      /\ op.do = "get" /\ ~Privileged(op) =>
           /\ f.seal = NoSeal
           /\ f.data = SubSeq(before, op.offset + Done + 1, op.offset + Done + l)
  BY <1>2, <1>3 DEF Coming
<1>6. /\ before \in Seq(Cells) /\ Len(before) <= MaxCell /\ Len(before) = Len(values[Id])
      /\ Len(before) \in Nat /\ FilledTo(Done)
      /\ Done = 0 \/ op.offset + Done <= Len(before)
  BY DEF Copied
<1>7. /\ moved = Done /\ Done \in Nat /\ Done + l = Covered(op, block + 1)
      /\ Done + l <= op.size /\ op.size \in Nat /\ op.offset \in Nat /\ l \in Nat
  BY <1>4, <1>6, NotWrapped, BlockFacts, CallFacts
<1> DEFINE d == Done
<1>8. Done' = d + l
  BY <1>1, <1>7 DEF Done, Covered, At, WholeBlocks
<1>9. /\ before' = before /\ op' = op /\ Id' = Id /\ values'[Id] = values[Id]
      /\ op.offset + (d + l) <= Len(before)
  <2>1. op.offset + (d + l) = op.offset + Done + l
    BY <1>7
  <2>2. QED
    BY <1>1, <1>2, <1>5, <2>1 DEF Id
<1>10. HoldsTo(Done)'
  BY <1>5, <1>8, <1>9 DEF HoldsTo, Written, Overwritten
<1>11. FilledTo(Done)'
  <2> SUFFICES ASSUME op.do = "get", ~Privileged(op)
               PROVE  \A k \in 1 .. op.size :
                        buffer'[k] = IF k <= d + l THEN before[op.offset + k] ELSE Other
    BY <1>8, <1>9 DEF FilledTo, Privileged
  <2>1. \A k \in 1 .. op.size :
          Filled(op, f)[k] = IF k <= Done + access.size THEN before[op.offset + k] ELSE Other
    BY <1>5, <1>6, <1>7, FilledOn
  <2>2. QED
    BY <1>1, <2>1
<1>12. QED
  <2>1. result' # "S_OK"
    BY <1>1, <1>4
  <2>2. Len(before') = Len(values'[Id'])
    BY <1>6, <1>9
  <2>3. op'.offset + Done' <= Len(before')
    BY <1>8, <1>9
  <2>4. QED
    BY <1>2, <1>6, <1>9, <1>10, <1>11, <2>1, <2>2, <2>3 DEF Copied

\* A block that fails has not been written.
LEMMA FailedCopies ==
  ASSUME CSTypeOK, BlockTypes, CSInv, timeouts = 0, Copied, Coming, BlockFailed
  PROVE  Copied' /\ OnWay' = {} /\ Came' = {}
<1> DEFINE f == Head(toClient).frame
<1>1. /\ Take /\ BlockError(op, f) # "S_OK" /\ result' # "S_OK"
      /\ UNCHANGED <<op, block, access, moved, buffer, before>>
  BY DEF BlockFailed
<1>2. /\ f \in Came /\ waiting # "none" /\ waiting' = "none"
      /\ OnWay' = {} /\ Came' = {} /\ values' = values
  BY <1>1, TakeMoves
<1> HIDE DEF f
<1>3. HoldsTo(Done)
  <2>1. CASE f.err # "S_OK"
    BY <1>2, <2>1 DEF Coming
  <2>2. CASE f.err = "S_OK"
    <3>1. op.do = "get"
      BY <1>1, <2>2 DEF BlockError
    <3>2. HoldsTo(Done + access.size)
      BY <1>2, <2>2 DEF Coming
    <3>3. QED
      BY <3>1, <3>2 DEF HoldsTo
  <2>3. QED
    BY <2>1, <2>2
<1>4. /\ Done' = Done /\ Id' = Id /\ HoldsTo(Done)' /\ (FilledTo(Done) => FilledTo(Done)')
  BY <1>1, <1>2, <1>3 DEF Done, Covered, At, WholeBlocks, Id, HoldsTo, FilledTo, Privileged,
    Written, Overwritten
<1>5. QED
  BY <1>1, <1>2, <1>4 DEF Copied

\* The server serves the block that is next, and none other.
LEMMA ServedCopies ==
  ASSUME CMemoryAssumption, Memories, BlockTypes, Srv!TypeOK, CSInv, timeouts = 0,
         op \in Operations, op.name \in DOMAIN IdOf, Copied, Going, Serve, UNCHANGED callVars
  PROVE  Copied' /\ OnWay' = {} /\ Coming'
<1> DEFINE l == access.size
           f == reply'
<1>1. PICK q \in OnWay :
        /\ Srv!Poll(q) /\ OnWay' = {} /\ Came' = {f} /\ waiting # "none" /\ waiting' = waiting
  BY ServeMoves DEF clientVars
<1>2. q \in Requests /\ MadeBlock(op, moved, access, q) /\ HoldsTo(Done)
  BY <1>1 DEF Going
<1>3. /\ InPlace /\ block \in Nat /\ block <= WholeBlocks(op)
      /\ l = Length(op, block) /\ result # "S_OK"
      /\ access \in [offset : Cells, size : Cells] /\ moved \in Cells
  BY <1>1 DEF BlockTypes, Running
<1>4. /\ before \in Seq(Cells) /\ Len(before) <= MaxCell /\ Len(before) = Len(values[Id])
      /\ Len(before) \in Nat /\ FilledTo(Done)
      /\ Done = 0 \/ op.offset + Done <= Len(before)
  BY DEF Copied
<1>5. /\ moved = Done /\ access.offset = op.offset + Done /\ Done \in Nat
      /\ Done + l <= op.size /\ op.size \in Nat /\ op.offset \in Nat /\ l \in Nat
      /\ op.do \in {"get", "set"}
  BY <1>3, <1>4, NotWrapped, BlockFacts, CallFacts
<1>6. /\ f \in Srv!Frame
      /\ op.do = "get" \/ f.err # "S_OK" => values'[Id] = values[Id]
      /\ f.err = "S_OK" =>
           /\ access.offset + l <= Len(values[Id])
           /\ op.do = "set" => values'[Id] =
                Overwritten(values[Id], access.offset, SubSeq(op.data, moved + 1, moved + l))
           /\ op.do = "get" /\ ~Privileged(op) =>
                /\ f.seal = NoSeal
                /\ f.data = SubSeq(values[Id], access.offset + 1, access.offset + l)
  <2>1. moved \in Nat /\ moved + l <= op.size
    BY <1>5
  <2>2. QED
    BY <1>1, <1>2, <1>3, <2>1, BlockServed DEF Id
<1>7. Len(values'[Id]) = Len(values[Id])
  <2>1. Srv!Typed(values) /\ Srv!Typed(values')
    BY <1>1, <1>2, PollTypes
  <2>2. Id \in Ids
    BY <2>1, IdFacts DEF Id
  <2>3. QED
    BY <2>1, <2>2, ConstantFacts DEF Srv!Typed
<1>8. UNCHANGED <<op, block, access, moved, buffer, result, before>>
  BY DEF callVars
<1> DEFINE d == Done
<1>9. Done' = d /\ Id' = Id /\ (FilledTo(Done) => FilledTo(Done)')
  BY <1>8 DEF Done, Covered, At, WholeBlocks, Id, FilledTo, Privileged
<1>10. f.err # "S_OK" => HoldsTo(Done)'
  BY <1>2, <1>6, <1>8, <1>9 DEF HoldsTo, Written, Overwritten
<1>11. f.err = "S_OK" => HoldsTo(Done + access.size)'
  <2> SUFFICES ASSUME f.err = "S_OK" PROVE HoldsTo(Done + access.size)'
    OBVIOUS
  <2>1. CASE op.do = "get"
    BY <1>2, <1>6, <1>8, <1>9, <2>1 DEF HoldsTo
  <2>2. CASE op.do = "set"
    <3>1. op.data \in Seq(Cells) /\ Len(op.data) = op.size
      BY <2>2, DataFacts
    <3>2. values[Id] = Written(before, op.offset, op.data, d)
      BY <1>2, <2>2 DEF HoldsTo
    <3>3. values'[Id] = Overwritten(values[Id], op.offset + d, SubSeq(op.data, d + 1, d + l))
      BY <1>5, <1>6, <2>2
    <3>4. d \in Nat /\ l \in Nat /\ d + l <= Len(op.data)
      BY <1>5, <3>1
    <3> HIDE DEF d, l
    <3>5. Overwritten(Written(before, op.offset, op.data, d), op.offset + d,
                      SubSeq(op.data, d + 1, d + l))
            = Written(before, op.offset, op.data, d + l)
      BY <1>4, <1>5, <3>1, <3>4, WrittenOn
    <3>6. values'[Id] = Written(before, op.offset, op.data, d + l)
      BY <3>2, <3>3, <3>5
    <3>7. QED
      BY <1>8, <1>9, <2>2, <3>6 DEF HoldsTo, Written, Overwritten, l
  <2>3. QED
    BY <1>5, <2>1, <2>2
<1>12. Copied'
  <2>1. HoldsTo(Done)' \/ HoldsTo(Done + access.size)'
    BY <1>10, <1>11
  <2>2. QED
    BY <1>1, <1>3, <1>4, <1>7, <1>8, <1>9, <2>1 DEF Copied
<1>13. Coming'
  <2>1. ASSUME f.err = "S_OK" PROVE op.offset + d + l <= Len(before)
    BY <1>4, <1>5, <1>6, <2>1
  <2>2. ASSUME f.err = "S_OK", op.do = "get", ~Privileged(op)
        PROVE  f.seal = NoSeal /\ f.data = SubSeq(before, op.offset + d + 1, op.offset + d + l)
    <3>1. values[Id] = before
      BY <1>2, <2>2 DEF HoldsTo
    <3>2. QED
      BY <1>5, <1>6, <2>2, <3>1
  <2>3. Privileged(op') <=> Privileged(op)
    BY <1>8
  <2> HIDE DEF f, d, l
  <2>4. QED
    BY <1>1, <1>6, <1>8, <1>9, <1>10, <1>11, <2>1, <2>2, <2>3 DEF Coming, l, d
<1>14. QED
  BY <1>1, <1>12, <1>13

\* Nothing is copied by a step that leaves the call, the property and the client alone.
LEMMA QuietCopies ==
  ASSUME Copied, Going, Coming, UNCHANGED <<op, block, access, moved, buffer, result, before>>,
         UNCHANGED <<values, waiting>>, OnWay' \subseteq OnWay, Came' \subseteq Came
  PROVE  Copied' /\ Going' /\ Coming'
<1>1. /\ Done' = Done /\ Id' = Id /\ (Privileged(op') <=> Privileged(op))
      /\ HoldsTo(Done)' = HoldsTo(Done) /\ HoldsTo(Done + access.size)' = HoldsTo(Done + access.size)
      /\ (FilledTo(Done) => FilledTo(Done)')
  BY DEF Done, Covered, At, WholeBlocks, Id, FilledTo, Privileged, HoldsTo, Written, Overwritten
<1>2. Copied'
  BY <1>1 DEF Copied
<1>3. Going'
  BY <1>1 DEF Going, MadeBlock, BlockData, Carried, Privileged
<1>4. Coming'
  BY <1>1 DEF Coming
<1>5. QED
  BY <1>2, <1>3, <1>4

LEMMA NextTruth ==
  ASSUME CMemoryAssumption, Memories, BlocksKnown, MemInv, CSTypeOK, Next,
         timeouts' = 0, op' # NoOp, op'.name \in DOMAIN IdOf
  PROVE  Copied' /\ Going' /\ Coming'
<1>1. CSInv /\ Srv!TypeOK /\ Srv!Typed(values) /\ BlockTypes /\ timeouts \in Nat
  BY DEF MemInv, LineSound, Srv!IInv, CSInv, Typed, Srv!TypeOK, Srv!Typed
<1>2. ASSUME timeouts = 0, op' = op PROVE op \in Operations /\ Copied /\ Going /\ Coming
  BY <1>1, <1>2 DEF MemInv, Truth, BlockTypes
<1>3. ASSUME NEW o \in Operations, Begin(o) PROVE Copied' /\ Going' /\ Coming'
  <2>1. op' = o /\ ~Running /\ UNCHANGED csVars
    BY <1>3 DEF Begin
  <2>2. waiting = "none"
    BY <1>1, <2>1 DEF BlockTypes
  <2>3. UNCHANGED timeouts /\ OnWay' \subseteq OnWay /\ Came' \subseteq Came
    BY <1>1, <2>1, QuietMoves
  <2>4. OnWay' = {} /\ Came' = {}
    BY <1>1, <2>2, <2>3, IdleLine
  <2>5. Copied'
    BY <1>1, <1>3, <2>1, BeginCopies
  <2>6. QED
    BY <2>4, <2>5 DEF Going, Coming
<1>4. CASE NameUnknown \/ Complete
  <2>1. /\ op' = op /\ UNCHANGED csVars /\ waiting = "none" /\ Running
        /\ UNCHANGED <<block, access, moved, buffer, before>>
    BY <1>4 DEF NameUnknown, Complete
  <2>2. ~MoreBlocks(op)
    BY <1>4, <2>1 DEF NameUnknown, Complete
  <2>3. /\ UNCHANGED <<values, waiting, timeouts>> /\ OnWay' \subseteq OnWay /\ Came' \subseteq Came
    BY <1>1, <2>1, QuietMoves
  <2>4. op \in Operations /\ Copied /\ Going /\ Coming /\ InPlace
    BY <1>1, <1>2, <2>1, <2>3 DEF BlockTypes
  <2>5. Done = op.size
    BY <1>1, <2>2, <2>4, AllDone
  <2>6. /\ Done' = Done /\ Id' = Id /\ HoldsTo(Done)' = HoldsTo(Done)
        /\ (FilledTo(Done) => FilledTo(Done)')
    BY <2>1, <2>3 DEF Done, Covered, At, WholeBlocks, Id, FilledTo, Privileged, HoldsTo, Written, Overwritten
  <2>7. Copied'
    BY <2>1, <2>3, <2>4, <2>5, <2>6 DEF Copied
  <2>8. OnWay' = {} /\ Came' = {}
    BY <1>1, <2>1, <2>3, IdleLine
  <2>9. QED
    BY <2>7, <2>8 DEF Going, Coming
<1>5. CASE SendBlock
  <2> DEFINE q == BlockRequest(op, access')
  <2>1. /\ Send(q) /\ UNCHANGED <<op, block, moved, buffer, result, before>>
    BY <1>5 DEF SendBlock
  <2>2. q \in Requests /\ MadeBlock(op, moved, access', q)
    BY <1>1, <1>5, SentBlock
  <2> HIDE DEF q
  <2>3. waiting = "none" /\ waiting' # "none" /\ UNCHANGED timeouts
    BY <2>1, <2>2 DEF Send, MadeBlock
  <2>4. OnWay' = {q} /\ Came' = {} /\ values' = values
    BY <1>1, <2>1, <2>3, SendMoves
  <2>5. op \in Operations /\ Copied
    BY <1>2, <2>1, <2>3
  <2>6. /\ Done' = Done /\ Id' = Id /\ HoldsTo(Done)' = HoldsTo(Done)
        /\ (FilledTo(Done) => FilledTo(Done)')
    BY <2>1, <2>4 DEF Done, Covered, At, WholeBlocks, Id, FilledTo, Privileged, HoldsTo, Written, Overwritten
  <2>7. HoldsTo(Done)
    BY <2>3, <2>5 DEF Copied
  <2>8. Copied'
    BY <2>1, <2>4, <2>5, <2>6, <2>7 DEF Copied
  <2>9. MadeBlock(op', moved', access', q)
    BY <2>1, <2>2 
  <2>10. QED
    BY <2>2, <2>4, <2>6, <2>7, <2>8, <2>9 DEF Going, Coming
<1>6. CASE BlockDone \/ BlockFailed
  <2>1. Take /\ op' = op
    BY <1>6 DEF BlockDone, BlockFailed
  <2>2. timeouts = 0
    BY <2>1 DEF Take
  <2>3. Copied /\ Coming /\ op.name \in DOMAIN IdOf
    BY <1>2, <2>1, <2>2
  <2>4. Copied' /\ OnWay' = {} /\ Came' = {}
    BY <1>1, <1>6, <2>2, <2>3, DoneCopies, FailedCopies
  <2>5. QED
    BY <2>4 DEF Going, Coming
<1>7. CASE TimedOut
  <2>1. timeouts' = timeouts + 1
    BY <1>7 DEF TimedOut, TimeoutSilent, TimeoutEarly, GiveUp
  <2>2. QED
    BY <1>1, <2>1
<1>8. CASE Serve /\ UNCHANGED callVars
  <2>1. op' = op /\ timeouts = 0
    BY <1>8 DEF Serve, clientVars, callVars
  <2>2. op \in Operations /\ op.name \in DOMAIN IdOf /\ Copied /\ Going
    BY <1>2, <2>1
  <2>3. Copied' /\ OnWay' = {} /\ Coming'
    BY <1>1, <1>8, <2>1, <2>2, ServedCopies
  <2>4. QED
    BY <2>3 DEF Going
<1>9. CASE (PassOver \/ Return \/ Log \/ LoseRequest \/ LoseAnswer) /\ UNCHANGED callVars
  <2>1. /\ OnWay' \subseteq OnWay /\ Came' \subseteq Came
        /\ UNCHANGED <<values, waiting, timeouts>>
    BY <1>1, <1>9, QuietMoves
  <2>2. UNCHANGED <<op, block, access, moved, buffer, result, before>>
    BY <1>9 DEF callVars
  <2>3. Copied /\ Going /\ Coming
    BY <1>2, <2>1, <2>2
  <2>4. QED
    BY <2>1, <2>2, <2>3, QuietCopies
<1>10. QED
  BY <1>3, <1>4, <1>5, <1>6, <1>7, <1>8, <1>9 DEF Next, Elsewhere

LEMMA InitMemory == CMemoryAssumption /\ Init => MemInv
<1>1. Init => LineSound
  BY InitSound DEF Init
<1>2. Init => Truth
  BY DEF Init, CallInit, Truth
<1>3. QED
  BY <1>1, <1>2, InitTypes DEF MemInv

LEMMA NextMemory ==
  CMemoryAssumption /\ Memories /\ BlocksKnown => (MemInv /\ [Next]_vars => MemInv')
<1> SUFFICES ASSUME CMemoryAssumption, Memories, BlocksKnown, MemInv, [Next]_vars PROVE MemInv'
  OBVIOUS
<1>1. LineSound /\ BlockTypes /\ Truth /\ CSTypeOK
  BY SoundTyped DEF MemInv
<1>2. CASE Next
  <2>1. LineSound'
    BY <1>1, <1>2, StepOnLine, NextSound
  <2>2. BlockTypes'
    BY <1>1, <1>2, NextTypes
  <2>3. Truth'
    BY <1>1, <1>2, NextTruth DEF Truth
  <2>4. QED
    BY <2>1, <2>2, <2>3 DEF MemInv
<1>3. CASE UNCHANGED vars
  <2>1. UNCHANGED csVars /\ UNCHANGED <<op, block, access, moved, buffer, result, before>>
    BY <1>3 DEF vars, callVars
  <2>2. LineSound'
    BY <1>1, <2>1, NextSound
  <2>3. /\ OnWay' \subseteq OnWay /\ Came' \subseteq Came
        /\ UNCHANGED <<values, waiting, timeouts>>
    BY <1>1, <2>1, QuietMoves DEF LineSound
  <2>4. BlockTypes'
    <3>1. Length(op', block') = Length(op, block) /\ At(block') = At(block)
      BY <2>1
    <3>2. QED
      BY <1>1, <2>1, <2>3, <3>1 DEF BlockTypes, Running, InPlace
  <2>5. Truth'
    BY <1>1, <2>1, <2>3, QuietCopies DEF Truth
  <2>6. QED
    BY <2>2, <2>4, <2>5 DEF MemInv
<1>4. QED
  BY <1>2, <1>3

\* A block is of the memory, and that is not the key.
LEMMA StepSparing ==
  ASSUME CMemoryAssumption, Memories, BlocksKnown, BlockTypes, Next
  PROVE  [SparingStep]_csVars
<1>1. CASE SendBlock
  <2> DEFINE q == BlockRequest(op, access')
             d == BlockData(op, moved, access'.offset, access'.size)
  <2>1. /\ op \in Operations /\ op.name \in DOMAIN IdOf /\ Send(q)
    BY <1>1 DEF SendBlock, BlockTypes
  <2>2. MadeBlock(op, moved, access', q)
    BY <1>1, SentBlock
  <2>3. q.data = d
    BY <2>2 DEF MadeBlock
  <2>4. d[1] = IdOf[op.name]
    <3>1. /\ InPlace /\ block \in Nat /\ block <= WholeBlocks(op)
          /\ access' \in [offset : Cells, size : Cells] /\ access'.size = Length(op, block)
      BY <1>1, SentBlock DEF BlockTypes
    <3>2. moved \in Nat /\ moved + access'.size <= op.size
      BY <2>1, <3>1, NextBlock, ExtraAssumption DEF Cells
    <3>3. Found(d, op, moved, access'.offset, access'.size)
      BY <2>1, <3>1, <3>2, PayloadParts
    <3>4. QED
      BY <3>3 DEF Found
  <2>5. Props[IdOf[op.name]].kind = "memory" /\ Props[KeyId].kind = "key"
    BY <2>1, ConstantFacts DEF Memories
  <2> HIDE DEF q, d
  <2>6. Spares(q)
    BY <2>3, <2>4, <2>5 DEF Spares
  <2>7. QED
    BY <2>1, <2>6 DEF SparingStep
<1>2. ASSUME NEW o \in Operations, Begin(o) PROVE [SparingStep]_csVars
  BY <1>2 DEF Begin
<1>3. CASE NameUnknown \/ Complete
  BY <1>3 DEF NameUnknown, Complete
<1>4. CASE BlockDone \/ BlockFailed
  BY <1>4 DEF BlockDone, BlockFailed, SparingStep
<1>5. CASE TimedOut
  BY <1>5 DEF TimedOut, SparingStep
<1>6. CASE (PassOver \/ Elsewhere) /\ UNCHANGED callVars
  BY <1>6 DEF SparingStep
<1>7. QED
  BY <1>1, <1>2, <1>3, <1>4, <1>5, <1>6 DEF Next

LEMMA MemorySpares ==
  CMemoryAssumption /\ Memories /\ BlocksKnown =>
    (MemInv /\ KeySpared /\ [Next]_vars => KeySpared')
<1>1. UNCHANGED vars => UNCHANGED csVars
  BY DEF vars
<1>2. QED
  BY <1>1, StepSparing, NextSpared DEF MemInv

-----------------------------------------------------------------------------
(* The theorems *)

LEMMA MemoryTyped == CMemoryAssumption /\ MemInv => TypeOK
<1> SUFFICES ASSUME CMemoryAssumption, MemInv PROVE TypeOK
  OBVIOUS
<1>1. CSTypeOK /\ BlockTypes
  BY SoundTyped DEF MemInv
<1>2. ASSUME waiting # "none" PROVE Running /\ moved + access.size <= op.size
  BY <1>1, <1>2, NextBlock DEF BlockTypes
<1>3. QED
  BY <1>1, <1>2 DEF TypeOK, BlockTypes

LEMMA InvWritten == MemInv => PrefixWritten
<1> SUFFICES ASSUME MemInv, timeouts = 0, op # NoOp, op.do = "set", op.name \in DOMAIN IdOf
             PROVE  \E n \in {Acknowledged} \cup
                        (IF waiting = "none" THEN {} ELSE {Acknowledged + access.size}) :
                      /\ values[IdOf[op.name]] = Overwritten(before, op.offset, SubSeq(op.data, 1, n))
                      /\ result = "S_OK" => n = op.size /\ (n = 0 \/ op.offset + n <= Len(before))
  BY DEF PrefixWritten
<1>1. Copied /\ (waiting # "none" => result # "S_OK")
  BY DEF MemInv, Truth, BlockTypes, Running
<1>2. Acknowledged = Done
  BY DEF Acknowledged, Done, Covered, At
<1>3. QED
  BY <1>1, <1>2 DEF Copied, HoldsTo, Written, Id

LEMMA InvRead == (\A o \in Operations : o.do = "get" => ~Privileged(o)) /\ MemInv => PrefixRead
<1> SUFFICES ASSUME \A o \in Operations : o.do = "get" => ~Privileged(o), MemInv,
                    timeouts = 0, op # NoOp, op.do = "get", op.name \in DOMAIN IdOf
             PROVE  /\ \A k \in 1 .. op.size :
                         buffer[k] = IF k <= Acknowledged THEN before[op.offset + k] ELSE Other
                    /\ result = "S_OK" => Acknowledged = op.size
  BY DEF PrefixRead
<1>1. Copied /\ op \in Operations
  BY DEF MemInv, Truth, BlockTypes
<1>2. Acknowledged = Done
  BY DEF Acknowledged, Done, Covered, At
<1>3. QED
  BY <1>1, <1>2 DEF Copied, FilledTo

\* However long a range is and wherever it begins: what get() and set() keep has its type,
\* and no block reaches beyond the caller's buffer, although Size wraps on the way.
THEOREM MemoryTypeCorrect ==
  ASSUME CMemoryAssumption, Memories, BlocksKnown
  PROVE  Spec => []TypeOK
BY InitMemory, NextMemory, MemoryTyped, PTL DEF Spec

\* A set() writes its blocks in order and whole, for any number of them, any losses and
\* logs: what the property holds is what it held with a prefix of the range written over
\* it, and S_OK means that it is the whole range.
THEOREM PrefixAlwaysWritten ==
  ASSUME CMemoryAssumption, Memories, BlocksKnown
  PROVE  Spec => []PrefixWritten
BY InitMemory, NextMemory, InvWritten, PTL DEF Spec

\* A get() fills the caller's buffer from its beginning with what the property holds from
\* the offset on; where the property is protected the cells are still encrypted.
THEOREM PrefixAlwaysRead ==
  ASSUME CMemoryAssumption, Memories, BlocksKnown,
         \A o \in Operations : o.do = "get" => ~Privileged(o)
  PROVE  Spec => []PrefixRead
BY InitMemory, NextMemory, InvRead, PTL DEF Spec
=============================================================================
