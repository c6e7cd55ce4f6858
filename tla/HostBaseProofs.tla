---------------------------- MODULE HostBaseProofs ----------------------------
(***************************************************************************)
(* The framing layer is a channel that loses frames at worst, for every    *)
(* length of a header, a tag, a checksum and a buffer, any frames and any  *)
(* number of faults.                                                       *)
(***************************************************************************)
EXTENDS HostBase, FiniteSetTheorems, TLAPS

FrameLen(f) == HeadLen + BodyLen(f)

\* Byte b was put on the line before byte c.
Before(b, c) == b.frame < c.frame \/ (b.frame = c.frame /\ b.pos < c.pos)

\* A byte of one of the frames that were sent, and none after it.
OfSent(b) ==
  /\ b \in [frame : Nat \ {0}, pos : Nat \ {0}]
  /\ b.frame <= Len(sent) /\ b.pos <= FrameLen(sent[b.frame])

\* The bytes on the line are noise, or in the order they were sent, whatever
\* was lost between them.
InOrder ==
  /\ \A k \in 1 .. Len(wire) : wire[k] = Noise \/ OfSent(wire[k])
  /\ \A j, k \in 1 .. Len(wire) :
       j < k /\ wire[j] # Noise /\ wire[k] # Noise => Before(wire[j], wire[k])

Last == IF delivered = <<>> THEN 0 ELSE delivered[Len(delivered)]

\* Nothing on the line is of a frame that was returned, or sent before one.
Fresh ==
  /\ \A k \in 1 .. Len(wire) : wire[k] # Noise => wire[k].frame > Last
  /\ phase = "body" => head > Last

IInv == TypeOK /\ InOrder /\ Fresh

-----------------------------------------------------------------------------
(* Sequences *)

LEMMA JoinedLen ==
  ASSUME NEW S, NEW a \in Seq(S), NEW b \in Seq(S)
  PROVE  a \o b \in Seq(S) /\ Len(a \o b) = Len(a) + Len(b)
OBVIOUS

\* The elements of two sequences joined, by their place.
LEMMA Joined ==
  ASSUME NEW S, NEW a \in Seq(S), NEW b \in Seq(S), NEW m \in Nat, m = Len(a),
         NEW n \in Nat, n = Len(b)
  PROVE  /\ a \o b \in Seq(S) /\ Len(a \o b) = m + n
         /\ \A k \in Int : 1 <= k /\ k <= m => (a \o b)[k] = a[k]
         /\ \A k \in Int : m < k /\ k <= m + n => (a \o b)[k] = b[k - m]
OBVIOUS

\* t is s without its element i.
Without(t, s, i) ==
  /\ Len(t) = Len(s) - 1
  /\ \A k \in Int : 1 <= k /\ k < i => t[k] = s[k]
  /\ \A k \in Int : i <= k /\ k <= Len(s) - 1 => t[k] = s[k + 1]

LEMMA RemovedParts ==
  ASSUME NEW S, NEW s \in Seq(S), NEW n \in Nat, n = Len(s), NEW i \in Int, 1 <= i, i <= n,
         NEW a \in Seq(S), NEW b \in Seq(S), Len(a) = i - 1, Len(b) = n - i,
         \A k \in Int : 1 <= k /\ k < i => a[k] = s[k],
         \A k \in Int : 1 <= k /\ k <= n - i => b[k] = s[i + k]
  PROVE  a \o b \in Seq(S) /\ Without(a \o b, s, i)
<1>1. /\ a \o b \in Seq(S) /\ Len(a \o b) = n - 1
      /\ \A k \in Int : 1 <= k /\ k < i => (a \o b)[k] = a[k]
  <2>1. a \o b \in Seq(S) /\ Len(a \o b) = n - 1
    <3>1. a \o b \in Seq(S) /\ Len(a \o b) = Len(a) + Len(b)
      BY JoinedLen
    <3>2. QED
      BY <3>1
  <2>2. \A k \in Int : 1 <= k /\ k < i => (a \o b)[k] = a[k]
    OBVIOUS
  <2>3. QED
    BY <2>1, <2>2
<1>2. ASSUME NEW k \in Int, i <= k, k <= n - 1 PROVE (a \o b)[k] = s[k + 1]
  <2>1. k - (i - 1) \in Int /\ 1 <= k - (i - 1) /\ k - (i - 1) <= n - i
    BY <1>2
  <2>2. (a \o b)[k] = b[k - (i - 1)]
    BY <1>2, <2>1
  <2>3. b[k - (i - 1)] = s[i + (k - (i - 1))]
    BY <2>1
  <2>4. i + (k - (i - 1)) = k + 1
    BY <1>2
  <2>5. QED
    BY <2>2, <2>3, <2>4
<1>3. QED
  BY <1>1, <1>2 DEF Without

LEMMA Removed ==
  ASSUME NEW S, NEW s \in Seq(S), NEW i \in 1 .. Len(s)
  PROVE  LET t == SubSeq(s, 1, i - 1) \o SubSeq(s, i + 1, Len(s))
         IN  t \in Seq(S) /\ Without(t, s, i)
<1> DEFINE a == SubSeq(s, 1, i - 1)
           b == SubSeq(s, i + 1, Len(s))
           n == Len(s)
<1>1. n \in Nat /\ n = Len(s) /\ i \in Int /\ 1 <= i /\ i <= n
  OBVIOUS
<1>2. a \in Seq(S) /\ Len(a) = i - 1 /\ \A k \in Int : 1 <= k /\ k < i => a[k] = s[k]
  OBVIOUS
<1>3. b \in Seq(S) /\ Len(b) = n - i
      /\ \A k \in Int : 1 <= k /\ k <= n - i => b[k] = s[i + k]
  OBVIOUS
<1> HIDE DEF a, b, n
<1>4. a \o b \in Seq(S) /\ Without(a \o b, s, i)
  BY <1>1, <1>2, <1>3, RemovedParts
<1>5. QED
  BY <1>4 DEF a, b

\* t is s with e put in before its element i.
With(t, s, i, e) ==
  /\ Len(t) = Len(s) + 1 /\ t[i] = e
  /\ \A k \in Int : 1 <= k /\ k < i => t[k] = s[k]
  /\ \A k \in Int : i < k /\ k <= Len(s) + 1 => t[k] = s[k - 1]

LEMMA PutInParts ==
  ASSUME NEW S, NEW s \in Seq(S), NEW n \in Nat, n = Len(s), NEW i \in Int, 1 <= i, i <= n,
         NEW e \in S,
         NEW a \in Seq(S), NEW b \in Seq(S), Len(a) = i, Len(b) = n - i + 1, a[i] = e,
         \A k \in Int : 1 <= k /\ k < i => a[k] = s[k],
         \A k \in Int : 1 <= k /\ k <= n - i + 1 => b[k] = s[i + k - 1]
  PROVE  a \o b \in Seq(S) /\ With(a \o b, s, i, e)
<1>1. /\ a \o b \in Seq(S) /\ Len(a \o b) = n + 1
      /\ \A k \in Int : 1 <= k /\ k <= i => (a \o b)[k] = a[k]
  <2>1. i \in Nat /\ n - i + 1 \in Nat /\ i + (n - i + 1) = n + 1
    OBVIOUS
  <2>2. QED
    BY <2>1, Joined
<1>2. ASSUME NEW k \in Int, i < k, k <= n + 1 PROVE (a \o b)[k] = s[k - 1]
  <2>1. k - i \in Int /\ 1 <= k - i /\ k - i <= n - i + 1
    BY <1>2
  <2>2. (a \o b)[k] = b[k - i]
    BY <1>2, <2>1
  <2>3. b[k - i] = s[i + (k - i) - 1]
    BY <2>1
  <2>4. i + (k - i) - 1 = k - 1
    BY <1>2
  <2>5. QED
    BY <2>2, <2>3, <2>4
<1>3. QED
  BY <1>1, <1>2 DEF With

LEMMA PutIn ==
  ASSUME NEW S, NEW s \in Seq(S), NEW i \in 1 .. Len(s), NEW e \in S
  PROVE  LET t == SubSeq(s, 1, i - 1) \o <<e>> \o SubSeq(s, i, Len(s))
         IN  t \in Seq(S) /\ With(t, s, i, e)
<1> DEFINE a == SubSeq(s, 1, i - 1) \o <<e>>
           b == SubSeq(s, i, Len(s))
           n == Len(s)
<1>1. n \in Nat /\ n = Len(s) /\ i \in Int /\ 1 <= i /\ i <= n
  OBVIOUS
<1>2. /\ a \in Seq(S) /\ Len(a) = i /\ a[i] = e
      /\ \A k \in Int : 1 <= k /\ k < i => a[k] = s[k]
  <2>1. a \in Seq(S) /\ Len(a) = i
    OBVIOUS
  <2>2. a[i] = e
    OBVIOUS
  <2>3. \A k \in Int : 1 <= k /\ k < i => a[k] = s[k]
    OBVIOUS
  <2>4. QED
    BY <2>1, <2>2, <2>3
<1>3. b \in Seq(S) /\ Len(b) = n - i + 1
      /\ \A k \in Int : 1 <= k /\ k <= n - i + 1 => b[k] = s[i + k - 1]
  OBVIOUS
<1> HIDE DEF a, b, n
<1>4. a \o b \in Seq(S) /\ With(a \o b, s, i, e)
  BY <1>1, <1>2, <1>3, PutInParts
<1>5. QED
  BY <1>4 DEF a, b

-----------------------------------------------------------------------------
(* Frames as bytes *)

LEMMA BodyLenType ==
  ASSUME NEW f \in Frames
  PROVE  /\ BodyLen(f) \in Nat /\ FrameLen(f) \in Nat \ {0}
         /\ f.size = 0 => BodyLen(f) = 0
BY LengthAssumption, FramesAssumption DEF BodyLen, BehindHead, FrameLen

\* b is the bytes of frame n from place from on, len of them.
Stretch(b, n, from, len) ==
  /\ b \in Seq(Byte) /\ Len(b) = len
  /\ \A k \in 1 .. len : b[k] = [frame |-> n, pos |-> from + k - 1]

LEMMA BytesShape ==
  ASSUME NEW n \in Nat \ {0}, NEW from \in Nat \ {0}, NEW len \in Nat,
         NEW to, to = from + len - 1
  PROVE  Stretch(Bytes(n, from, to), n, from, len)
<1> DEFINE b == [k \in 1 .. len |-> [frame |-> n, pos |-> from + k - 1]]
<1>1. \A k \in 1 .. len : [frame |-> n, pos |-> from + k - 1] \in Byte
  BY DEF Byte
<1>2. to - from + 1 = len
  OBVIOUS
<1>3. Bytes(n, from, to) = b
  BY <1>2 DEF Bytes
<1>4. b \in [1 .. len -> Byte] /\ \A k \in 1 .. len : b[k] = [frame |-> n, pos |-> from + k - 1]
  BY <1>1
<1> HIDE DEF b
<1>5. b \in Seq(Byte) /\ Len(b) = len
  BY <1>4
<1>6. QED
  BY <1>3, <1>4, <1>5 DEF Stretch

\* The part of a frame that recv() reads is all of it only when its buffer holds it.
LEMMA WholeRead ==
  ASSUME NEW f \in Frames, ExtraSize(f) > 0, ReadLen(f) = BodyLen(f)
  PROVE  f.size <= Capacity
BY LengthAssumption, FramesAssumption DEF BodyLen, ReadLen, BehindHead, ExtraSize

LEMMA HeaderEnd ==
  ASSUME NEW n \in Nat \ {0}
  PROVE  /\ Len(HeaderBytes(n)) = HeadLen /\ HeaderBytes(n) \in Seq(Byte)
         /\ HeaderBytes(n)[1] = [frame |-> n, pos |-> 1]
         /\ HeaderBytes(n)[HeadLen] = [frame |-> n, pos |-> HeadLen]
<1>1. HeadLen \in Nat /\ HeadLen >= 1 /\ HeadLen = 1 + HeadLen - 1 /\ 1 \in Nat \ {0}
  BY LengthAssumption
<1>2. Stretch(HeaderBytes(n), n, 1, HeadLen)
  BY <1>1, BytesShape DEF HeaderBytes
<1>3. 1 + 1 - 1 = 1 /\ 1 \in 1 .. HeadLen /\ HeadLen \in 1 .. HeadLen
  BY <1>1
<1>4. QED
  BY <1>1, <1>2, <1>3 DEF Stretch

LEMMA BodyEnd ==
  ASSUME NEW n \in 1 .. Len(sent), sent \in Seq(Frames), BodyLen(sent[n]) > 0
  PROVE  /\ Len(BodyBytes(n)) = BodyLen(sent[n])
         /\ BodyBytes(n)[BodyLen(sent[n])] = [frame |-> n, pos |-> FrameLen(sent[n])]
<1>1. n \in Nat \ {0} /\ HeadLen + 1 \in Nat \ {0} /\ BodyLen(sent[n]) \in Nat
  BY BodyLenType, LengthAssumption
<1>2. /\ HeadLen + BodyLen(sent[n]) = (HeadLen + 1) + BodyLen(sent[n]) - 1
      /\ FrameLen(sent[n]) = (HeadLen + 1) + BodyLen(sent[n]) - 1
  BY <1>1, LengthAssumption DEF FrameLen
<1>3. Stretch(BodyBytes(n), n, HeadLen + 1, BodyLen(sent[n]))
  BY <1>1, <1>2, BytesShape DEF BodyBytes
<1>4. BodyLen(sent[n]) \in 1 .. BodyLen(sent[n])
  BY <1>1
<1>5. QED
  BY <1>2, <1>3, <1>4 DEF Stretch

-----------------------------------------------------------------------------
(* The invariant *)

LEMMA InitIInv == Init => IInv
BY LengthAssumption DEF Init, IInv, TypeOK, InOrder, Fresh, Last

\* The line keeps its order when bytes are taken out, or noise is put in: byte k
\* is noise, or the one that was at at[k].
LEMMA LineKept ==
  ASSUME InOrder, Fresh, sent' = sent, delivered' = delivered,
         wire \in Seq(Byte), wire' \in Seq(Byte),
         NEW at \in [1 .. Len(wire') -> Int],
         \A k \in 1 .. Len(wire') :
           wire'[k] # Noise => at[k] \in 1 .. Len(wire) /\ wire'[k] = wire[at[k]],
         \A j, k \in 1 .. Len(wire') :
           j < k /\ wire'[j] # Noise /\ wire'[k] # Noise => at[j] < at[k]
  PROVE  /\ InOrder'
         /\ \A k \in 1 .. Len(wire') : wire'[k] # Noise => wire'[k].frame > Last'
<1>1. \A k \in 1 .. Len(wire') : wire'[k] = Noise \/ OfSent(wire[k])'
  BY DEF InOrder, OfSent
<1>2. ASSUME NEW j \in 1 .. Len(wire'), NEW k \in 1 .. Len(wire'),
             j < k, wire'[j] # Noise, wire'[k] # Noise
      PROVE  Before(wire'[j], wire'[k])
  BY <1>2 DEF InOrder
<1>3. InOrder'
  BY <1>1, <1>2 DEF InOrder
<1>4. Last' = Last
  BY DEF Last
<1>5. QED
  BY <1>3, <1>4 DEF Fresh

\* What is left of the line behind its first byte.
LEMMA TailKept ==
  ASSUME TypeOK, InOrder, Fresh, wire # <<>>, wire' = Tail(wire), sent' = sent
  PROVE  /\ InOrder'
         /\ wire' \in Seq(Byte)
         /\ \A k \in 1 .. Len(wire') : wire'[k] # Noise => wire'[k].frame > Last
         /\ OfSent(wire[1]) =>
              \A k \in 1 .. Len(wire') : wire'[k] # Noise => Before(wire[1], wire'[k])
<1>1. /\ wire \in Seq(Byte) /\ wire' \in Seq(Byte)
      /\ Len(wire') = Len(wire) - 1 /\ \A k \in 1 .. Len(wire') : wire'[k] = wire[k + 1]
  BY DEF TypeOK
<1>2. \A k \in 1 .. Len(wire') : wire'[k] = Noise \/ OfSent(wire[k])'
  BY <1>1 DEF InOrder, OfSent
<1>3. InOrder'
  BY <1>1, <1>2 DEF InOrder
<1>4. OfSent(wire[1]) => wire[1] # Noise
  BY DEF OfSent, Noise
<1>5. QED
  BY <1>1, <1>3, <1>4 DEF InOrder, Fresh

-----------------------------------------------------------------------------
(* The steps *)

LEMMA SendStep ==
  ASSUME IInv, NEW f \in Frames, Send(f) PROVE IInv'
<1> DEFINE n == Len(sent) + 1
           new == Bytes(n, 1, HeadLen + BodyLen(f))
<1>1. /\ sent \in Seq(Frames) /\ sent' \in Seq(Frames) /\ Len(sent') = n /\ n \in Nat \ {0}
      /\ sent'[n] = f /\ \A k \in 1 .. Len(sent) : sent'[k] = sent[k]
  BY DEF IInv, TypeOK, Send
<1>2. FrameLen(f) = HeadLen + BodyLen(f) /\ FrameLen(f) \in Nat \ {0}
  BY BodyLenType DEF FrameLen
<1>3. /\ new \in Seq(Byte) /\ Len(new) = FrameLen(f)
      /\ \A k \in 1 .. FrameLen(f) : new[k] = [frame |-> n, pos |-> k]
  <2>1. 1 \in Nat \ {0} /\ FrameLen(f) = 1 + FrameLen(f) - 1
    BY <1>2
  <2>2. Stretch(Bytes(n, 1, FrameLen(f)), n, 1, FrameLen(f))
    BY <1>1, <1>2, <2>1, BytesShape
  <2>3. new = Bytes(n, 1, FrameLen(f))
    BY <1>2
  <2>4. \A k \in 1 .. FrameLen(f) : 1 + k - 1 = k
    BY <1>2
  <2> HIDE DEF new, n
  <2>5. QED
    BY <2>2, <2>3, <2>4 DEF Stretch
<1> HIDE DEF new
<1>4. wire \in Seq(Byte) /\ wire' = wire \o new
  BY DEF IInv, TypeOK, Send, new
<1>5. /\ wire' \in Seq(Byte) /\ Len(wire') = Len(wire) + FrameLen(f)
      /\ \A k \in Int : 1 <= k /\ k <= Len(wire) => wire'[k] = wire[k]
      /\ \A k \in Int : Len(wire) < k /\ k <= Len(wire) + FrameLen(f) =>
                         wire'[k] = [frame |-> n, pos |-> k - Len(wire)]
  <2>1. ASSUME NEW w \in Seq(Byte), NEW b \in Seq(Byte), NEW m \in Nat, m = Len(w),
               NEW l \in Nat, l = Len(b),
               \A k \in 1 .. l : b[k] = [frame |-> n, pos |-> k]
        PROVE  /\ w \o b \in Seq(Byte) /\ Len(w \o b) = m + l
               /\ \A k \in Int : 1 <= k /\ k <= m => (w \o b)[k] = w[k]
               /\ \A k \in Int : m < k /\ k <= m + l => (w \o b)[k] = [frame |-> n, pos |-> k - m]
    <3>1. /\ w \o b \in Seq(Byte) /\ Len(w \o b) = m + l
          /\ \A k \in Int : 1 <= k /\ k <= m => (w \o b)[k] = w[k]
      BY <2>1
    <3>2. ASSUME NEW k \in Int, m < k, k <= m + l PROVE (w \o b)[k] = [frame |-> n, pos |-> k - m]
      <4>1. k - m \in 1 .. l
        BY <3>2
      <4>2. (w \o b)[k] = b[k - m]
        BY <2>1, <3>2, <4>1
      <4>3. QED
        BY <2>1, <4>1, <4>2
    <3>3. QED
      BY <3>1, <3>2
  <2>2. Len(wire) \in Nat /\ FrameLen(f) \in Nat
    BY <1>2, <1>4
  <2> HIDE DEF n
  <2>3. QED
    BY <1>3, <1>4, <2>1, <2>2
<1>6. TypeOK'
  BY <1>1, <1>5 DEF IInv, TypeOK, Send
<1>7. ASSUME NEW k \in 1 .. Len(wire') PROVE wire'[k] = Noise \/ OfSent(wire[k])'
  <2>1. CASE k <= Len(wire)
    BY <1>1, <1>5, <2>1 DEF IInv, InOrder, OfSent
  <2>2. CASE k > Len(wire)
    <3> DEFINE p == k - Len(wire)
    <3>1. wire'[k] = [frame |-> n, pos |-> p] /\ p \in 1 .. FrameLen(f)
      BY <1>2, <1>4, <1>5, <2>2
    <3> HIDE DEF p, n
    <3>2. FrameLen(sent'[n]) = FrameLen(f)
      BY <1>1
    <3>3. QED
      BY <1>1, <1>2, <3>1, <3>2 DEF OfSent, FrameLen, BodyLen, BehindHead
  <2>3. QED
    BY <1>5, <2>1, <2>2
<1>8. ASSUME NEW j \in 1 .. Len(wire'), NEW k \in 1 .. Len(wire'),
             j < k, wire'[j] # Noise, wire'[k] # Noise
      PROVE  Before(wire'[j], wire'[k])
  <2>1. CASE k <= Len(wire)
    BY <1>5, <1>8, <2>1 DEF IInv, InOrder
  <2>2. CASE j <= Len(wire) /\ k > Len(wire)
    <3>1. OfSent(wire[j]) /\ wire'[j] = wire[j]
      BY <1>5, <1>8, <2>2 DEF IInv, InOrder
    <3>2. wire'[k] = [frame |-> n, pos |-> k - Len(wire)]
      BY <1>4, <1>5, <2>2
    <3>3. wire'[j].frame < n /\ wire'[j].frame \in Nat
      BY <1>1, <3>1 DEF OfSent
    <3>4. QED
      BY <3>2, <3>3 DEF Before
  <2>3. CASE j > Len(wire)
    <3>1. /\ wire'[j] = [frame |-> n, pos |-> j - Len(wire)]
          /\ wire'[k] = [frame |-> n, pos |-> k - Len(wire)]
      BY <1>4, <1>5, <1>8, <2>3
    <3>2. j - Len(wire) < k - Len(wire)
      BY <1>4, <1>8
    <3>3. QED
      BY <3>1, <3>2 DEF Before
  <2>4. QED
    BY <1>5, <2>1, <2>2, <2>3
<1>9. Fresh'
  <2>1. delivered' = delivered /\ phase' = phase /\ head' = head /\ Last' = Last
    BY DEF Send, Last
  <2>2. Last < n
    BY <1>1 DEF IInv, TypeOK, Last
  <2>3. ASSUME NEW k \in 1 .. Len(wire'), wire'[k] # Noise PROVE wire'[k].frame > Last
    <3>1. CASE k <= Len(wire)
      BY <1>4, <1>5, <2>3, <3>1 DEF IInv, Fresh
    <3>2. CASE k > Len(wire)
      <4>1. wire'[k] = [frame |-> n, pos |-> k - Len(wire)]
        BY <1>4, <1>5, <3>2
      <4>2. QED
        BY <2>2, <4>1
    <3>3. QED
      BY <1>4, <3>1, <3>2
  <2>4. QED
    BY <2>1, <2>3 DEF IInv, Fresh
<1>10. QED
  BY <1>6, <1>7, <1>8, <1>9 DEF IInv, InOrder

LEMMA SpoilStep ==
  ASSUME IInv, Spoil PROVE IInv'
<1>1. PICK i \in 1 .. Len(wire) : DropByte(i) \/ DamageByte(i) \/ InsertByte(i)
  BY DEF Spoil
<1>2. /\ wire \in Seq(Byte) /\ Len(wire) \in Nat /\ sent' = sent /\ delivered' = delivered
      /\ phase' = phase /\ head' = head /\ body' = body /\ window' = window
      /\ spoiled' = spoiled + 1
  BY DEF IInv, TypeOK, Spoil
<1>3. Noise \in Byte
  BY DEF Byte
<1>4. SUFFICES
        /\ wire' \in Seq(Byte) /\ dropped' \in Nat
        /\ \E at \in [1 .. Len(wire') -> Int] :
             /\ \A k \in 1 .. Len(wire') :
                  wire'[k] # Noise => at[k] \in 1 .. Len(wire) /\ wire'[k] = wire[at[k]]
             /\ \A j, k \in 1 .. Len(wire') :
                  j < k /\ wire'[j] # Noise /\ wire'[k] # Noise => at[j] < at[k]
  <2>1. wire' \in Seq(Byte) /\ dropped' \in Nat
    BY <1>4
  <2>2. TypeOK'
    BY <1>2, <2>1 DEF IInv, TypeOK
  <2>3. /\ InOrder'
        /\ \A k \in 1 .. Len(wire') : wire'[k] # Noise => wire'[k].frame > Last'
    BY <1>2, <1>4, LineKept DEF IInv
  <2>4. Last' = Last
    BY <1>2 DEF Last
  <2>5. QED
    BY <1>2, <2>2, <2>3, <2>4 DEF IInv, Fresh
<1>5. CASE DropByte(i)
  <2> DEFINE at == [k \in 1 .. Len(wire') |-> IF k < i THEN k ELSE k + 1]
  <2>1. /\ wire' \in Seq(Byte) /\ Len(wire') = Len(wire) - 1
        /\ \A k \in Int : 1 <= k /\ k < i => wire'[k] = wire[k]
        /\ \A k \in Int : i <= k /\ k <= Len(wire) - 1 => wire'[k] = wire[k + 1]
    <3>1. wire' \in Seq(Byte) /\ Without(wire', wire, i)
      BY <1>2, <1>5, Removed DEF DropByte
    <3>2. QED
      BY <3>1 DEF Without
  <2>2. at \in [1 .. Len(wire') -> Int]
    OBVIOUS
  <2>3. ASSUME NEW k \in 1 .. Len(wire')
        PROVE  at[k] \in 1 .. Len(wire) /\ wire'[k] = wire[at[k]]
    <3>1. CASE k < i
      BY <1>2, <2>1, <3>1
    <3>2. CASE k >= i
      BY <1>2, <2>1, <3>2
    <3>3. QED
      BY <3>1, <3>2
  <2>4. \A j, k \in 1 .. Len(wire') : j < k => at[j] < at[k]
    BY <1>2, <2>1
  <2>5. dropped' \in Nat
    BY <1>5 DEF DropByte, IInv, TypeOK
  <2>6. QED
    BY <2>1, <2>2, <2>3, <2>4, <2>5
<1>6. CASE DamageByte(i)
  <2> DEFINE at == [k \in 1 .. Len(wire') |-> k]
  <2>1. /\ wire' \in Seq(Byte) /\ Len(wire') = Len(wire)
        /\ \A k \in 1 .. Len(wire') : wire'[k] = IF k = i THEN Noise ELSE wire[k]
    BY <1>2, <1>3, <1>6 DEF DamageByte
  <2>2. at \in [1 .. Len(wire') -> Int]
    OBVIOUS
  <2>3. dropped' \in Nat
    BY <1>6 DEF DamageByte, IInv, TypeOK
  <2>4. QED
    BY <1>2, <2>1, <2>2, <2>3
<1>7. CASE InsertByte(i)
  <2> DEFINE at == [k \in 1 .. Len(wire') |-> IF k < i THEN k ELSE k - 1]
  <2>1. /\ wire' \in Seq(Byte) /\ Len(wire') = Len(wire) + 1 /\ wire'[i] = Noise
        /\ \A k \in Int : 1 <= k /\ k < i => wire'[k] = wire[k]
        /\ \A k \in Int : i < k /\ k <= Len(wire) + 1 => wire'[k] = wire[k - 1]
    <3>1. wire' \in Seq(Byte) /\ With(wire', wire, i, Noise)
      <4>1. wire' = SubSeq(wire, 1, i - 1) \o <<Noise>> \o SubSeq(wire, i, Len(wire))
        BY <1>7 DEF InsertByte
      <4>2. QED
        BY <1>2, <1>3, <4>1, PutIn
    <3>2. QED
      BY <3>1 DEF With
  <2>2. at \in [1 .. Len(wire') -> Int]
    BY <2>1
  <2>3. dropped' \in Nat
    BY <1>7 DEF InsertByte, IInv, TypeOK
  <2>4. ASSUME NEW k \in 1 .. Len(wire'), wire'[k] # Noise
        PROVE  at[k] \in 1 .. Len(wire) /\ wire'[k] = wire[at[k]]
    <3>1. CASE k < i
      BY <1>2, <2>1, <3>1
    <3>2. CASE k > i
      BY <1>2, <2>1, <3>2
    <3>3. QED
      BY <1>2, <2>1, <2>4, <3>1, <3>2
  <2>5. ASSUME NEW j \in 1 .. Len(wire'), NEW k \in 1 .. Len(wire'),
               j < k, wire'[j] # Noise, wire'[k] # Noise
        PROVE  at[j] < at[k]
    <3>1. j # i /\ k # i
      BY <2>1, <2>5
    <3>2. QED
      BY <1>2, <2>5, <3>1
  <2>6. QED
    BY <2>1, <2>2, <2>3, <2>4, <2>5
<1>8. QED
  BY <1>1, <1>5, <1>6, <1>7

\* sync() sees the byte it has just read at the end of its window.
LEMMA SlideEnd ==
  ASSUME NEW w \in Seq(Byte), Len(w) <= HeadLen, NEW b \in Byte
  PROVE  LET v == Slide(w, b)
         IN  v \in Seq(Byte) /\ Len(v) \in 1 .. HeadLen /\ v[Len(v)] = b
<1>1. HeadLen \in Nat /\ HeadLen >= 1 /\ Len(w) \in Nat
  BY LengthAssumption
<1>2. ASSUME NEW u \in Seq(Byte), Len(u) < HeadLen
      PROVE  LET v == Append(u, b)
             IN  v \in Seq(Byte) /\ Len(v) \in 1 .. HeadLen /\ v[Len(v)] = b
  BY <1>1, <1>2
<1>3. CASE Len(w) = HeadLen
  <2>1. Tail(w) \in Seq(Byte) /\ Len(Tail(w)) < HeadLen
    BY <1>1, <1>3
  <2>2. QED
    BY <1>2, <1>3, <2>1 DEF Slide
<1>4. CASE Len(w) # HeadLen
  <2>1. Len(w) < HeadLen
    BY <1>1, <1>4
  <2>2. QED
    BY <1>2, <1>4, <2>1 DEF Slide
<1>5. QED
  BY <1>3, <1>4

\* The byte that completes a header is the last one of it.
LEMMA HeaderFound ==
  ASSUME TypeOK, wire # <<>>, NEW w, w = Slide(window, wire[1]), Verifies(w)
  PROVE  /\ w[1].frame \in 1 .. Len(sent)
         /\ wire[1] = [frame |-> w[1].frame, pos |-> HeadLen]
<1>1. PICK m \in 1 .. Len(sent) : w = HeaderBytes(m)
  BY DEF Verifies
<1>2. wire[1] \in Byte /\ window \in Seq(Byte) /\ Len(window) <= HeadLen
  BY DEF TypeOK
<1>3. w[Len(w)] = wire[1]
  BY <1>2, SlideEnd
<1>4. m \in Nat \ {0}
  BY DEF TypeOK
<1>5. /\ Len(w) = HeadLen /\ w[1] = [frame |-> m, pos |-> 1]
      /\ w[HeadLen] = [frame |-> m, pos |-> HeadLen]
  BY <1>1, <1>4, HeaderEnd
<1>6. QED
  BY <1>3, <1>5

\* Behind the last byte of a frame there are only bytes of later frames.
LEMMA Behind ==
  ASSUME TypeOK, InOrder, Fresh, wire # <<>>, wire' = Tail(wire), sent' = sent,
         NEW n \in 1 .. Len(sent), wire[1] = [frame |-> n, pos |-> FrameLen(sent[n])]
  PROVE  \A k \in 1 .. Len(wire') : wire'[k] # Noise => wire'[k].frame > n
<1>1. sent \in Seq(Frames) /\ n \in Nat \ {0} /\ sent[n] \in Frames /\ Len(sent) \in Nat
  BY DEF TypeOK
<1>2. FrameLen(sent[n]) \in Nat \ {0}
  BY <1>1, BodyLenType
<1>3. OfSent(wire[1])
  BY <1>1, <1>2 DEF OfSent
<1>4. SUFFICES ASSUME NEW k \in 1 .. Len(wire'), wire'[k] # Noise PROVE wire'[k].frame > n
  OBVIOUS
<1>5. OfSent(wire'[k])
  BY <1>4, TailKept DEF InOrder, OfSent
<1>6. Before(wire[1], wire'[k])
  BY <1>3, <1>4, TailKept
<1>7. /\ wire'[k].frame \in Nat /\ wire'[k].pos \in Nat
      /\ wire'[k].pos <= FrameLen(sent[wire'[k].frame])
  BY <1>5 DEF OfSent
<1>8. QED
  BY <1>1, <1>2, <1>6, <1>7 DEF Before

\* A frame that is complete may be returned: nothing of it is left on the line.
LEMMA FinishStep ==
  ASSUME IInv, wire # <<>>, wire' = Tail(wire),
         UNCHANGED <<sent, spoiled, dropped>>,
         window' \in Seq(Byte), Len(window') <= HeadLen,
         NEW n \in 1 .. Len(sent), wire[1] = [frame |-> n, pos |-> FrameLen(sent[n])],
         Finish(n)
  PROVE  IInv'
<1>1. /\ InOrder' /\ wire' \in Seq(Byte)
      /\ \A k \in 1 .. Len(wire') : wire'[k] # Noise => wire'[k].frame > Last
  BY TailKept DEF IInv
<1>2. \A k \in 1 .. Len(wire') : wire'[k] # Noise => wire'[k].frame > n
  BY Behind DEF IInv
<1>3. delivered' \in Seq(1 .. Len(sent)) /\ Last' \in {n, Last}
  <2>1. delivered \in Seq(1 .. Len(sent))
    BY DEF IInv, TypeOK
  <2>2. CASE delivered' = delivered
    BY <2>1, <2>2 DEF Last
  <2>3. CASE delivered' = Append(delivered, n)
    <3>1. ASSUME NEW S, NEW s \in Seq(S), NEW e \in S
          PROVE  /\ Append(s, e) \in Seq(S) /\ Append(s, e) # <<>>
                 /\ Append(s, e)[Len(Append(s, e))] = e
      OBVIOUS
    <3>2. delivered' \in Seq(1 .. Len(sent)) /\ delivered' # <<>> /\ delivered'[Len(delivered')] = n
      BY <2>1, <2>3, <3>1
    <3>3. QED
      BY <3>2 DEF Last
  <2>4. QED
    BY <2>2, <2>3 DEF Finish
<1>4. TypeOK'
  <2>1. phase' = "sync" /\ head' = 0 /\ body' = <<>>
    BY DEF Finish
  <2>2. <<>> \in Seq(Byte) /\ 0 \in 0 .. Len(sent)
    BY DEF IInv, TypeOK
  <2>3. QED
    BY <1>1, <1>3, <2>1, <2>2 DEF IInv, TypeOK
<1>5. Fresh'
  BY <1>1, <1>2, <1>3 DEF Fresh, Finish
<1>6. QED
  BY <1>1, <1>4, <1>5 DEF IInv

LEMMA FrameAhead ==
  ASSUME IInv, wire # <<>>, NEW n \in 1 .. Len(sent), NEW p \in Nat, wire[1] = [frame |-> n, pos |-> p]
  PROVE  n > Last
<1>1. 1 \in 1 .. Len(wire) /\ n # 0
  BY DEF IInv, TypeOK
<1>2. wire[1] # Noise /\ wire[1].frame = n
  BY <1>1 DEF Noise
<1>3. QED
  BY <1>1, <1>2 DEF IInv, Fresh

\* What sync() has found when the window verifies.
LEMMA SyncFound ==
  ASSUME IInv, SyncByte, NEW w, w = Slide(window, wire[1]), Verifies(w)
  PROVE  /\ w[1].frame \in 1 .. Len(sent) /\ w[1].frame > Last
         /\ ExtraSize(sent[w[1].frame]) = 0 =>
              /\ sent[w[1].frame].size = 0
              /\ wire[1] = [frame |-> w[1].frame, pos |-> FrameLen(sent[w[1].frame])]
<1> DEFINE n == w[1].frame
<1>1. n \in 1 .. Len(sent) /\ wire[1] = [frame |-> n, pos |-> HeadLen]
  BY HeaderFound DEF IInv, SyncByte
<1> HIDE DEF n
<1>2. sent[n] \in Frames
  BY <1>1 DEF IInv, TypeOK
<1>3. n > Last
  BY <1>1, FrameAhead, LengthAssumption DEF SyncByte
<1>4. ASSUME ExtraSize(sent[n]) = 0
      PROVE  sent[n].size = 0 /\ FrameLen(sent[n]) = HeadLen
  <2>1. sent[n].size = 0
    BY <1>2, <1>4, LengthAssumption, FramesAssumption DEF ExtraSize
  <2>2. BodyLen(sent[n]) = 0
    BY <1>2, <2>1, BodyLenType
  <2>3. QED
    BY <2>1, <2>2, LengthAssumption DEF FrameLen
<1>5. QED
  BY <1>1, <1>3, <1>4 DEF n

LEMMA SyncByteStep ==
  ASSUME IInv, SyncByte PROVE IInv'
<1> DEFINE w == Slide(window, wire[1])
           n == w[1].frame
<1>1. wire # <<>> /\ wire' = Tail(wire) /\ UNCHANGED <<sent, spoiled, dropped>>
  BY DEF SyncByte
<1>2. /\ InOrder' /\ wire' \in Seq(Byte)
      /\ \A k \in 1 .. Len(wire') : wire'[k] # Noise => wire'[k].frame > Last
  BY <1>1, TailKept DEF IInv
<1>3. w \in Seq(Byte) /\ Len(w) <= HeadLen
  <2>1. window \in Seq(Byte) /\ Len(window) <= HeadLen /\ wire[1] \in Byte
    BY <1>1 DEF IInv, TypeOK
  <2>2. w \in Seq(Byte) /\ Len(w) \in 1 .. HeadLen
    BY <2>1, SlideEnd
  <2> HIDE DEF w
  <2>3. QED
    BY <2>2, LengthAssumption
<1>4. <<>> \in Seq(Byte) /\ Len(<<>>) <= HeadLen
  BY LengthAssumption
<1>5. \/ ~Verifies(w) /\ window' = w /\ UNCHANGED <<phase, head, body, delivered>>
      \/ Verifies(w) /\ ExtraSize(sent[n]) = 0 /\ window' = <<>> /\ Finish(n)
      \/ /\ Verifies(w) /\ window' = <<>> /\ phase' = "body" /\ head' = n /\ body' = <<>>
         /\ UNCHANGED delivered
  BY DEF SyncByte
<1>6. Verifies(w) =>
        /\ n \in 1 .. Len(sent) /\ n > Last
        /\ ExtraSize(sent[n]) = 0 => wire[1] = [frame |-> n, pos |-> FrameLen(sent[n])]
  BY SyncFound
<1> HIDE DEF w, n
<1>7. CASE window' = w /\ UNCHANGED <<phase, head, body, delivered>>
  <2>1. TypeOK'
    BY <1>1, <1>2, <1>3, <1>7 DEF IInv, TypeOK
  <2>2. Last' = Last
    BY <1>7 DEF Last
  <2>3. Fresh'
    BY <1>2, <1>7, <2>2 DEF IInv, Fresh
  <2>4. QED
    BY <1>2, <2>1, <2>3 DEF IInv
<1>8. CASE Verifies(w) /\ ExtraSize(sent[n]) = 0 /\ window' = <<>> /\ Finish(n)
  BY <1>1, <1>4, <1>6, <1>8, FinishStep
<1>9. CASE /\ Verifies(w) /\ window' = <<>> /\ phase' = "body" /\ head' = n /\ body' = <<>>
           /\ UNCHANGED delivered
  <2>1. n \in 0 .. Len(sent) /\ n # 0
    BY <1>6, <1>9 DEF IInv, TypeOK
  <2>2. TypeOK'
    BY <1>1, <1>2, <1>4, <1>9, <2>1 DEF IInv, TypeOK
  <2>3. Last' = Last
    BY <1>9 DEF Last
  <2>4. Fresh'
    BY <1>2, <1>6, <1>9, <2>3 DEF IInv, Fresh
  <2>5. QED
    BY <1>2, <2>2, <2>4 DEF IInv
<1>10. QED
  BY <1>5, <1>7, <1>8, <1>9

\* What recv() has read when the body is complete and its checksum is right.
LEMMA BodyFound ==
  ASSUME IInv, BodyByte, Len(Append(body, wire[1])) = ReadLen(sent[head]),
         Append(body, wire[1]) = BodyBytes(head)
  PROVE  /\ head \in 1 .. Len(sent) /\ head > Last
         /\ wire[1] = [frame |-> head, pos |-> FrameLen(sent[head])]
         /\ sent[head].size <= Capacity
<1> DEFINE b == Append(body, wire[1])
<1>1. /\ head \in 1 .. Len(sent) /\ head > Last /\ sent \in Seq(Frames)
      /\ sent[head] \in Frames /\ body \in Seq(Byte)
      /\ wire[1] \in Byte
  BY DEF IInv, TypeOK, Fresh, BodyByte
<1>2. Len(b) \in Nat \ {0} /\ b[Len(b)] = wire[1]
  BY <1>1
<1>3. b = BodyBytes(head) /\ Len(b) = ReadLen(sent[head])
  OBVIOUS
<1> HIDE DEF b
<1>4. sent[head].size > 0 /\ ExtraSize(sent[head]) > 0
  BY <1>1, <1>2, <1>3, LengthAssumption, FramesAssumption DEF ReadLen, BehindHead, ExtraSize
<1>5. BodyLen(sent[head]) > 0
  BY <1>1, <1>4, LengthAssumption, FramesAssumption DEF BodyLen, BehindHead
<1>6. /\ Len(BodyBytes(head)) = BodyLen(sent[head])
      /\ BodyBytes(head)[BodyLen(sent[head])] = [frame |-> head, pos |-> FrameLen(sent[head])]
  BY <1>1, <1>5, BodyEnd
<1>7. sent[head].size <= Capacity
  BY <1>1, <1>3, <1>4, <1>6, WholeRead
<1>8. QED
  BY <1>1, <1>2, <1>3, <1>6, <1>7

LEMMA BodyByteStep ==
  ASSUME IInv, BodyByte PROVE IInv'
<1> DEFINE b == Append(body, wire[1])
<1>1. wire # <<>> /\ wire' = Tail(wire) /\ UNCHANGED <<sent, window, spoiled, dropped>>
  BY DEF BodyByte
<1>2. /\ InOrder' /\ wire' \in Seq(Byte)
      /\ \A k \in 1 .. Len(wire') : wire'[k] # Noise => wire'[k].frame > Last
  BY <1>1, TailKept DEF IInv
<1>3. body \in Seq(Byte) /\ wire[1] \in Byte /\ b \in Seq(Byte) /\ <<>> \in Seq(Byte)
  BY <1>1 DEF IInv, TypeOK
<1>4. \/ body' = b /\ UNCHANGED <<phase, head, delivered>>
      \/ Len(b) = ReadLen(sent[head]) /\ b = BodyBytes(head) /\ Finish(head)
      \/ phase' = "sync" /\ head' = 0 /\ body' = <<>> /\ UNCHANGED delivered
  BY DEF BodyByte
<1>5. CASE Len(b) = ReadLen(sent[head]) /\ b = BodyBytes(head) /\ Finish(head)
  <2>1. /\ head \in 1 .. Len(sent)
        /\ wire[1] = [frame |-> head, pos |-> FrameLen(sent[head])]
    BY <1>5, BodyFound
  <2>2. window' \in Seq(Byte) /\ Len(window') <= HeadLen
    BY <1>1 DEF IInv, TypeOK
  <2>3. QED
    BY <1>1, <1>5, <2>1, <2>2, FinishStep
<1> HIDE DEF b
<1>6. CASE body' = b /\ UNCHANGED <<phase, head, delivered>>
  <2>1. TypeOK'
    BY <1>1, <1>2, <1>3, <1>6 DEF IInv, TypeOK
  <2>2. Last' = Last
    BY <1>6 DEF Last
  <2>3. QED
    BY <1>2, <1>6, <2>1, <2>2 DEF IInv, Fresh
<1>7. CASE phase' = "sync" /\ head' = 0 /\ body' = <<>> /\ UNCHANGED delivered
  <2>1. TypeOK'
    BY <1>1, <1>2, <1>3, <1>7 DEF IInv, TypeOK
  <2>2. Last' = Last
    BY <1>7 DEF Last
  <2>3. QED
    BY <1>2, <1>7, <2>1, <2>2 DEF IInv, Fresh
<1>8. QED
  BY <1>4, <1>5, <1>6, <1>7

LEMMA TimeoutStep ==
  ASSUME IInv, TimeoutEarly \/ TimeoutSilent PROVE IInv'
<1>1. /\ phase' = "sync" /\ head' = 0 /\ body' = <<>> /\ spoiled' \in Nat
      /\ UNCHANGED <<sent, wire, window, delivered, dropped>>
  BY DEF TimeoutEarly, TimeoutSilent, IInv, TypeOK
<1>2. TypeOK'
  BY <1>1 DEF IInv, TypeOK
<1>3. Last' = Last
  BY <1>1 DEF Last
<1>4. InOrder' /\ Fresh'
  BY <1>1, <1>3 DEF IInv, InOrder, Fresh, OfSent
<1>5. QED
  BY <1>2, <1>4 DEF IInv

LEMMA NextIInv == IInv /\ [Next]_vars => IInv'
<1> SUFFICES ASSUME IInv, [Next]_vars PROVE IInv'
  OBVIOUS
<1>1. ASSUME NEW f \in Frames, Send(f) PROVE IInv'
  BY <1>1, SendStep
<1>2. CASE SyncByte
  BY <1>2, SyncByteStep
<1>3. CASE BodyByte
  BY <1>3, BodyByteStep
<1>4. CASE TimeoutEarly \/ TimeoutSilent
  BY <1>4, TimeoutStep
<1>5. CASE Spoil
  BY <1>5, SpoilStep
<1>6. CASE UNCHANGED vars
  <2>1. Last' = Last
    BY <1>6 DEF vars, Last
  <2>2. QED
    BY <1>6, <2>1 DEF vars, IInv, TypeOK, InOrder, Fresh, OfSent
<1>7. QED
  BY <1>1, <1>2, <1>3, <1>4, <1>5, <1>6 DEF Next, Receive

-----------------------------------------------------------------------------
(* The theorems *)

\* The variables keep their types.
THEOREM LineTypeCorrect == Spec => []TypeOK
<1>1. IInv => TypeOK
  BY DEF IInv
<1>2. QED
  BY InitIInv, NextIInv, <1>1, PTL DEF Spec

LEMMA ChannelStep ==
  ASSUME IInv, [Next]_vars PROVE [Channel!Next]_(Channel!vars)
<1> USE DEF Channel!vars
<1>1. ASSUME NEW n \in 1 .. Len(sent), n > Last, sent[n].size <= Capacity,
             Finish(n), sent' = sent
      PROVE  [Channel!Next]_(Channel!vars)
  <2>1. n > Channel!LastDelivered
    BY <1>1 DEF Last, Channel!LastDelivered
  <2>2. CASE sent[n].to = Address
    <3>1. Wanted(sent[n]) /\ delivered' = Append(delivered, n)
      BY <1>1, <2>2 DEF Wanted, Finish
    <3>2. Channel!Deliver(n)
      BY <1>1, <2>1, <3>1 DEF Channel!Deliver
    <3>3. QED
      BY <3>2 DEF Channel!Next
  <2>3. CASE sent[n].to # Address
    BY <1>1, <2>3 DEF Finish
  <2>4. QED
    BY <2>2, <2>3
<1>2. ASSUME NEW f \in Frames, Send(f) PROVE [Channel!Next]_(Channel!vars)
  <2>1. Channel!Send(f)
    BY <1>2 DEF Send, Channel!Send
  <2>2. QED
    BY <2>1 DEF Channel!Next
<1>3. CASE SyncByte
  <2> DEFINE w == Slide(window, wire[1])
             n == w[1].frame
  <2>1. \/ UNCHANGED delivered
        \/ Verifies(w) /\ ExtraSize(sent[n]) = 0 /\ Finish(n)
    BY <1>3 DEF SyncByte
  <2>2. sent' = sent
    BY <1>3 DEF SyncByte
  <2>3. Verifies(w) => /\ n \in 1 .. Len(sent) /\ n > Last
                       /\ ExtraSize(sent[n]) = 0 => sent[n].size = 0
    BY <1>3, SyncFound
  <2> HIDE DEF w, n
  <2>4. CASE Verifies(w) /\ ExtraSize(sent[n]) = 0 /\ Finish(n)
    <3>1. sent[n].size <= Capacity
      BY <2>3, <2>4, LengthAssumption
    <3>2. QED
      BY <1>1, <2>2, <2>3, <2>4, <3>1
  <2>5. QED
    BY <2>1, <2>2, <2>4
<1>4. CASE BodyByte
  <2> DEFINE b == Append(body, wire[1])
  <2>1. \/ UNCHANGED delivered
        \/ Len(b) = ReadLen(sent[head]) /\ b = BodyBytes(head) /\ Finish(head)
    BY <1>4 DEF BodyByte
  <2>2. sent' = sent
    BY <1>4 DEF BodyByte
  <2>3. CASE Len(b) = ReadLen(sent[head]) /\ b = BodyBytes(head) /\ Finish(head)
    <3>1. head \in 1 .. Len(sent) /\ head > Last /\ sent[head].size <= Capacity
      BY <1>4, <2>3, BodyFound
    <3>2. QED
      BY <1>1, <2>2, <2>3, <3>1
  <2>4. QED
    BY <2>1, <2>2, <2>3
<1>5. CASE TimeoutEarly \/ TimeoutSilent \/ Spoil \/ UNCHANGED vars
  BY <1>5 DEF TimeoutEarly, TimeoutSilent, Spoil, vars
<1>6. QED
  BY <1>2, <1>3, <1>4, <1>5 DEF Next, Receive

\* recv() returns no frame twice, none out of order, none for another station and
\* none it had to cut, whatever the line does to the bytes.
THEOREM FramesSurvive == Spec => ImplementsChannel
<1>1. Init => Channel!Init
  BY DEF Init, Channel!Init
<1>2. QED
  BY InitIInv, NextIInv, ChannelStep, <1>1, PTL DEF Spec, ImplementsChannel, Channel!Spec

-----------------------------------------------------------------------------
(* What each fault costs *)

ByteOf(n, p) == [frame |-> n, pos |-> p]

\* The bytes sync() has yet to leave behind: those of its window, then those on the line.
Spot(k) == IF k <= Len(window) THEN window[k] ELSE wire[k - Len(window)]

\* Frame n lies behind the first j of these bytes, whole, and sync() has not yet seen
\* all of its header.
Ahead(n, j) ==
  /\ j + HeadLen > Len(window)
  /\ j + FrameLen(sent[n]) <= Len(window) + Len(wire)
  /\ \A p \in 1 .. FrameLen(sent[n]) : Spot(j + p) = ByteOf(n, p)

\* recv() is in the payload of frame n, and what it has read and has to read is as sent.
BeingRead(n) ==
  /\ phase = "body" /\ head = n
  /\ BodyLen(sent[n]) <= Len(body) + Len(wire)
  /\ \A p \in 1 .. Len(body) : body[p] = ByteOf(n, HeadLen + p)
  /\ \A p \in 1 .. BodyLen(sent[n]) - Len(body) : wire[p] = ByteOf(n, HeadLen + Len(body) + p)

Returned(n) == \E k \in 1 .. Len(delivered) : delivered[k] = n

\* A frame is lost because a fault has hit it or because recv() has read a byte of it as
\* one of an earlier frame.
NoneForgotten(hit, eaten) ==
  \A n \in 1 .. Len(sent) : Wanted(sent[n]) =>
    Returned(n) \/ n \in hit \/ n \in eaten \/ BeingRead(n) \/ \E j \in Nat : Ahead(n, j)

\* Each frame hit has cost a fault, and each frame eaten a byte that was dropped; debt is how
\* many bytes recv() may still take from later frames.
Counted(hit, eaten, open, debt) ==
  /\ IsFiniteSet(hit) /\ Cardinality(hit) <= spoiled
  /\ IsFiniteSet(eaten) /\ IsFiniteSet(open) /\ debt \in Nat
  /\ Cardinality(eaten) + Cardinality(open) + debt <= dropped

\* In ghost, the line, the bytes that were damaged are still what they were.
Undamaged(ghost) ==
  /\ ghost \in Seq(Byte) /\ Len(ghost) = Len(wire)
  /\ \A k \in 1 .. Len(ghost) : wire[k] = Noise \/ wire[k] = ghost[k]
  /\ \A k \in 1 .. Len(ghost) : ghost[k] = Noise \/ OfSent(ghost[k])
  /\ \A j, k \in 1 .. Len(ghost) :
       j < k /\ ghost[j] # Noise /\ ghost[k] # Noise => Before(ghost[j], ghost[k])

\* What is missing of a payload recv() has not begun is in open.
MissingKnown(open, ghost) ==
  \A n \in 1 .. Len(sent), k \in 1 .. Len(ghost) :
    ghost[k] = ByteOf(n, HeadLen) =>
      \A p \in HeadLen + 1 .. FrameLen(sent[n]) :
        ByteOf(n, p) \in open \/ \E q \in 1 .. Len(ghost) : ghost[q] = ByteOf(n, p)

\* ghost has nothing of a frame after head in front of place m.
NoLater(ghost, m) == m <= Len(ghost) => ghost[m] # Noise /\ ghost[m].frame > head

\* In a payload recv() reads the bytes up to the next frame, and as many more as were
\* dropped.
Covered(debt, ghost) ==
  \A m \in 1 .. Len(ghost) + 1 :
    NoLater(ghost, m) => ReadLen(sent[head]) - Len(body) <= (m - 1) + debt

Debts(debt, ghost) ==
  phase = "body" =>
    /\ window = <<>> /\ Len(body) < ReadLen(sent[head])
    /\ \A k \in 1 .. Len(ghost) : ghost[k] # Noise => Before(ByteOf(head, HeadLen), ghost[k])
    /\ Covered(debt, ghost)

Account(hit, eaten, open, debt, ghost) ==
  /\ Counted(hit, eaten, open, debt)
  /\ NoneForgotten(hit, eaten)
  /\ Undamaged(ghost)
  /\ MissingKnown(open, ghost)
  /\ Debts(debt, ghost)

LossInv == IInv /\ \E hit, eaten, open, debt, ghost : Account(hit, eaten, open, debt, ghost)

-----------------------------------------------------------------------------

LEMMA InitLoss == Init => LossInv
<1> SUFFICES ASSUME Init PROVE Account({}, {}, {}, 0, <<>>)
  BY InitIInv DEF LossInv
<1>1. Counted({}, {}, {}, 0)
  BY FS_EmptySet DEF Init, Counted
<1>2. NoneForgotten({}, {})
  BY DEF Init, NoneForgotten
<1>3. Undamaged(<<>>)
  BY DEF Init, Undamaged
<1>4. MissingKnown({}, <<>>) /\ Debts(0, <<>>)
  BY DEF Init, MissingKnown, Debts
<1>5. QED
  BY <1>1, <1>2, <1>3, <1>4 DEF Account

\* The lengths of what recv() reads of a frame.
LEMMA ReadLenType ==
  ASSUME NEW f \in Frames
  PROVE  /\ ReadLen(f) \in Nat /\ ReadLen(f) <= BodyLen(f)
         /\ ExtraSize(f) > 0 => ReadLen(f) > 0
         /\ Wanted(f) => ReadLen(f) = BodyLen(f)
BY LengthAssumption, FramesAssumption DEF BodyLen, ReadLen, BehindHead, ExtraSize, Wanted

LEMMA ByteOfNotNoise ==
  ASSUME NEW n, NEW p, n # 0
  PROVE  ByteOf(n, p) # Noise /\ ByteOf(n, p).frame = n /\ ByteOf(n, p).pos = p
BY DEF ByteOf, Noise

\* The end: nothing is ahead of a receiver that is in sync() on a silent line.
LEMMA LossesPaid == LossInv => LossBounded
<1> SUFFICES ASSUME LossInv, wire = <<>>, phase = "sync" PROVE Cardinality(Lost) <= spoiled + dropped
  BY DEF LossBounded
<1>1. PICK hit, eaten, open, debt, ghost : Account(hit, eaten, open, debt, ghost)
  BY DEF LossInv
<1>2. Counted(hit, eaten, open, debt) /\ NoneForgotten(hit, eaten)
  BY <1>1 DEF Account
<1>3. ASSUME NEW n \in Lost PROVE n \in hit \cup eaten
  <2>1. n \in 1 .. Len(sent) /\ Wanted(sent[n]) /\ ~Returned(n)
    BY <1>3 DEF Lost, Returned
  <2>2. ~BeingRead(n)
    BY DEF BeingRead
  <2>3. ASSUME NEW j \in Nat, Ahead(n, j) PROVE FALSE
    <3>1. sent[n] \in Frames /\ window \in Seq(Byte)
      BY <2>1 DEF LossInv, IInv, TypeOK
    <3>2. FrameLen(sent[n]) \in Nat /\ FrameLen(sent[n]) >= HeadLen
      BY <3>1, BodyLenType, LengthAssumption DEF FrameLen
    <3>3. j + HeadLen > Len(window) /\ j + FrameLen(sent[n]) <= Len(window) + 0
      BY <2>3 DEF Ahead
    <3>4. QED
      BY <3>1, <3>2, <3>3, LengthAssumption
  <2>4. QED
    BY <1>2, <2>1, <2>2, <2>3 DEF NoneForgotten
<1>4. IsFiniteSet(hit \cup eaten)
      /\ Cardinality(hit \cup eaten) <= Cardinality(hit) + Cardinality(eaten)
  <2>1. IsFiniteSet(hit) /\ IsFiniteSet(eaten)
    BY <1>2 DEF Counted
  <2>2. /\ IsFiniteSet(hit \cup eaten) /\ IsFiniteSet(hit \cap eaten)
        /\ Cardinality(hit \cup eaten)
             = Cardinality(hit) + Cardinality(eaten) - Cardinality(hit \cap eaten)
    BY <2>1, FS_Union, FS_Intersection
  <2>3. Cardinality(hit) \in Nat /\ Cardinality(eaten) \in Nat /\ Cardinality(hit \cap eaten) \in Nat
    BY <2>1, <2>2, FS_CardinalityType
  <2>4. QED
    BY <2>2, <2>3
<1>5. Cardinality(Lost) <= Cardinality(hit \cup eaten)
  <2>1. Lost \in SUBSET (hit \cup eaten)
    BY <1>3
  <2>2. QED
    BY <1>4, <2>1, FS_Subset
<1>6. /\ Cardinality(hit) \in Nat /\ Cardinality(eaten) \in Nat /\ Cardinality(open) \in Nat
      /\ Cardinality(Lost) \in Nat /\ Cardinality(hit \cup eaten) \in Nat
  <2>1. IsFiniteSet(hit) /\ IsFiniteSet(eaten) /\ IsFiniteSet(open)
    BY <1>2 DEF Counted
  <2>2. IsFiniteSet(Lost)
    BY <1>3, <1>4, FS_Subset
  <2>3. QED
    BY <1>4, <2>1, <2>2, FS_CardinalityType
<1>7. spoiled \in Nat /\ dropped \in Nat
  BY DEF LossInv, IInv, TypeOK
<1>8. Cardinality(hit) <= spoiled /\ Cardinality(eaten) <= dropped
  BY <1>2, <1>6, <1>7 DEF Counted
<1>9. QED
  BY <1>4, <1>5, <1>6, <1>7, <1>8

\* w is g with frame n, which is f, behind it.
Extended(w, g, f, n) ==
  /\ w \in Seq(Byte) /\ Len(w) = Len(g) + FrameLen(f)
  /\ \A k \in 1 .. Len(g) : w[k] = g[k]
  /\ \A p \in 1 .. FrameLen(f) : w[Len(g) + p] = ByteOf(n, p)

\* send() puts the bytes of a frame behind those of a line.
LEMMA FrameAppended ==
  ASSUME NEW g \in Seq(Byte), NEW f \in Frames, NEW n \in Nat \ {0}
  PROVE  Extended(g \o Bytes(n, 1, HeadLen + BodyLen(f)), g, f, n)
<1> DEFINE b == Bytes(n, 1, HeadLen + BodyLen(f))
<1>1. /\ FrameLen(f) = HeadLen + BodyLen(f) /\ FrameLen(f) \in Nat \ {0} /\ 1 \in Nat \ {0}
      /\ FrameLen(f) = 1 + FrameLen(f) - 1
  BY BodyLenType DEF FrameLen
<1>2. Stretch(b, n, 1, FrameLen(f))
  BY <1>1, BytesShape
<1>3. /\ b \in Seq(Byte) /\ Len(b) = FrameLen(f)
      /\ \A p \in 1 .. FrameLen(f) : b[p] = ByteOf(n, p)
  <2>1. \A p \in 1 .. FrameLen(f) : 1 + p - 1 = p
    BY <1>1
  <2> HIDE DEF b
  <2>2. QED
    BY <1>2, <2>1 DEF Stretch, ByteOf
<1> HIDE DEF b
<1>4. /\ g \o b \in Seq(Byte) /\ Len(g \o b) = Len(g) + FrameLen(f)
      /\ \A k \in Int : 1 <= k /\ k <= Len(g) => (g \o b)[k] = g[k]
      /\ \A k \in Int : Len(g) < k /\ k <= Len(g) + FrameLen(f) => (g \o b)[k] = b[k - Len(g)]
  <2>1. ASSUME NEW c \in Seq(Byte), NEW m \in Nat, m = Len(g), NEW l \in Nat, l = Len(c)
        PROVE  /\ g \o c \in Seq(Byte) /\ Len(g \o c) = m + l
               /\ \A k \in Int : 1 <= k /\ k <= m => (g \o c)[k] = g[k]
               /\ \A k \in Int : m < k /\ k <= m + l => (g \o c)[k] = c[k - m]
    BY <2>1
  <2>2. Len(g) \in Nat /\ FrameLen(f) \in Nat
    BY <1>1
  <2>3. QED
    BY <1>3, <2>1, <2>2
<1>5. ASSUME NEW p \in 1 .. FrameLen(f) PROVE (g \o b)[Len(g) + p] = ByteOf(n, p)
  <2>1. Len(g) + p \in Int /\ (Len(g) + p) - Len(g) = p
    BY <1>1
  <2>2. (g \o b)[Len(g) + p] = b[(Len(g) + p) - Len(g)]
    BY <1>1, <1>4, <2>1
  <2>3. QED
    BY <1>3, <2>1, <2>2
<1>6. QED
  BY <1>1, <1>4, <1>5 DEF b, Extended

\* A frame that is ahead, or being read, stays so when bytes are put behind the line.
LEMMA AheadBefore ==
  ASSUME TypeOK, wire' \in Seq(Byte), window' = window, Len(wire') >= Len(wire),
         \A k \in 1 .. Len(wire) : wire'[k] = wire[k],
         NEW n \in 1 .. Len(sent), sent'[n] = sent[n], NEW j \in Nat, Ahead(n, j)
  PROVE  Ahead(n, j)'
<1>1. window \in Seq(Byte) /\ wire \in Seq(Byte) /\ sent[n] \in Frames
  BY DEF TypeOK
<1>2. FrameLen(sent'[n]) = FrameLen(sent[n]) /\ FrameLen(sent[n]) \in Nat
  BY <1>1, BodyLenType
<1>3. FrameLen(sent[n])' = FrameLen(sent[n])
  BY DEF FrameLen, BodyLen
<1>4. ASSUME NEW p \in 1 .. FrameLen(sent[n]) PROVE Spot(j + p)' = ByteOf(n, p)
  <2>1. Spot(j + p) = ByteOf(n, p) /\ j + p <= Len(window) + Len(wire) /\ j + p \in Nat
    BY <1>1, <1>2, <1>4 DEF Ahead
  <2>2. CASE j + p <= Len(window)
    BY <2>1, <2>2 DEF Spot
  <2>3. CASE j + p > Len(window)
    <3> DEFINE k == (j + p) - Len(window)
    <3>1. k \in 1 .. Len(wire)
      BY <1>1, <2>1, <2>3
    <3>2. Spot(j + p) = wire[k] /\ Spot(j + p)' = wire'[k]
      BY <1>1, <2>1, <2>3 DEF Spot
    <3>3. QED
      BY <2>1, <3>1, <3>2
  <2>4. QED
    BY <1>1, <2>1, <2>2, <2>3
<1>5. QED
  BY <1>1, <1>2, <1>3, <1>4 DEF Ahead

\* The bytes of a new frame are behind all others of ghost.
LEMMA SendUndamaged ==
  ASSUME IInv, NEW f \in Frames, Send(f), NEW ghost, Undamaged(ghost),
         NEW n, n = Len(sent) + 1,
         NEW g, Extended(g, ghost, f, n), Extended(wire', wire, f, n)
  PROVE  Undamaged(g)'
<1> DEFINE L == Len(ghost)
<1>1. /\ sent \in Seq(Frames) /\ n \in Nat \ {0} /\ Len(sent') = n /\ sent'[n] = f
      /\ \A k \in 1 .. Len(sent) : sent'[k] = sent[k]
  BY DEF IInv, TypeOK, Send
<1>2. /\ FrameLen(f) \in Nat \ {0} /\ L \in Nat /\ Len(wire) = L /\ ghost \in Seq(Byte)
      /\ g \in Seq(Byte) /\ Len(g) = L + FrameLen(f)
      /\ \A k \in 1 .. L : g[k] = ghost[k]
      /\ \A p \in 1 .. FrameLen(f) : g[L + p] = ByteOf(n, p)
      /\ wire' \in Seq(Byte) /\ Len(wire') = L + FrameLen(f)
      /\ \A k \in 1 .. L : wire'[k] = wire[k]
      /\ \A p \in 1 .. FrameLen(f) : wire'[L + p] = ByteOf(n, p)
  <2>1. FrameLen(f) \in Nat \ {0} /\ L \in Nat /\ Len(wire) = L /\ ghost \in Seq(Byte)
    BY BodyLenType DEF Undamaged
  <2>2. QED
    BY <2>1 DEF Extended
<1>3. ASSUME NEW k \in 1 .. Len(g)
      PROVE  \/ k \in 1 .. L /\ g[k] = ghost[k] /\ wire'[k] = wire[k]
             \/ /\ k - L \in 1 .. FrameLen(f) /\ g[k] = ByteOf(n, k - L)
                /\ wire'[k] = ByteOf(n, k - L)
  <2>1. CASE k <= L
    BY <1>2, <2>1
  <2>2. CASE k > L
    <3>1. k - L \in 1 .. FrameLen(f) /\ L + (k - L) = k
      BY <1>2, <2>2
    <3>2. QED
      BY <1>2, <3>1
  <2>3. QED
    BY <1>2, <2>1, <2>2
<1> HIDE DEF L
<1>4. \A k \in 1 .. Len(g) : wire'[k] = Noise \/ wire'[k] = g[k]
  BY <1>2, <1>3 DEF Undamaged, L
<1>5. ASSUME NEW k \in 1 .. Len(g) PROVE g[k] = Noise \/ OfSent(g[k])'
  <2>1. CASE k \in 1 .. L /\ g[k] = ghost[k]
    BY <1>1, <2>1 DEF Undamaged, OfSent, L, FrameLen, BodyLen
  <2>2. CASE k - L \in 1 .. FrameLen(f) /\ g[k] = ByteOf(n, k - L)
    <3>1. g[k].frame = n /\ g[k].pos = k - L /\ g[k] \in [frame : Nat \ {0}, pos : Nat \ {0}]
      BY <1>1, <1>2, <2>2 DEF ByteOf
    <3>2. FrameLen(sent[n])' = FrameLen(f)
      BY <1>1 DEF FrameLen, BodyLen
    <3>3. QED
      BY <1>1, <1>2, <2>2, <3>1, <3>2 DEF OfSent, FrameLen, BodyLen
  <2>3. QED
    BY <1>3, <2>1, <2>2
<1>6. ASSUME NEW j \in 1 .. Len(g), NEW k \in 1 .. Len(g), j < k, g[j] # Noise, g[k] # Noise
      PROVE  Before(g[j], g[k])
  <2>1. CASE j \in 1 .. L /\ k \in 1 .. L /\ g[j] = ghost[j] /\ g[k] = ghost[k]
    BY <1>6, <2>1 DEF Undamaged, L
  <2>2. CASE j \in 1 .. L /\ g[j] = ghost[j] /\ g[k] = ByteOf(n, k - L)
    <3>1. OfSent(g[j])
      BY <1>6, <2>2 DEF Undamaged, L
    <3>2. g[j].frame < n
      BY <1>1, <3>1 DEF OfSent
    <3>3. QED
      BY <2>2, <3>2 DEF Before, ByteOf
  <2>3. CASE g[j] = ByteOf(n, j - L) /\ g[k] = ByteOf(n, k - L)
    <3>1. j - L < k - L
      BY <1>2, <1>6
    <3>2. QED
      BY <2>3, <3>1 DEF Before, ByteOf
  <2>4. k \in 1 .. L => j \in 1 .. L
    BY <1>2, <1>6
  <2>5. ~(k \in 1 .. L /\ j - L \in 1 .. FrameLen(f))
    BY <1>2, <1>6
  <2>6. QED
    BY <1>3, <2>1, <2>2, <2>3, <2>5
<1>7. g \in Seq(Byte) /\ Len(g) = Len(wire')
  BY <1>2
<1>8. \A k \in 1 .. Len(g) : g[k] = Noise \/ OfSent(g[k])'
  BY <1>5
<1>9. \A j, k \in 1 .. Len(g) : j < k /\ g[j] # Noise /\ g[k] # Noise => Before(g[j], g[k])
  BY <1>6
<1>10. QED
  BY <1>4, <1>7, <1>8, <1>9 DEF Undamaged

LEMMA SendLoss ==
  ASSUME IInv, NEW f \in Frames, Send(f),
         NEW hit, NEW eaten, NEW open, NEW debt, NEW ghost,
         Account(hit, eaten, open, debt, ghost)
  PROVE  \E g : Account(hit, eaten, open, debt, g)'
<1>1. PICK n : n = Len(sent) + 1
  OBVIOUS
<1>2. /\ sent \in Seq(Frames) /\ n \in Nat \ {0} /\ Len(sent') = n /\ sent'[n] = f
      /\ \A k \in 1 .. Len(sent) : sent'[k] = sent[k]
      /\ UNCHANGED <<window, phase, head, body, delivered, spoiled, dropped>>
  BY <1>1 DEF IInv, TypeOK, Send
<1>3. /\ wire \in Seq(Byte) /\ window \in Seq(Byte) /\ ghost \in Seq(Byte)
      /\ Len(ghost) = Len(wire) /\ FrameLen(f) \in Nat \ {0}
  BY BodyLenType DEF IInv, TypeOK, Account, Undamaged
<1>4. /\ Extended(wire', wire, f, n)
      /\ wire' \in Seq(Byte) /\ Len(wire') = Len(wire) + FrameLen(f)
      /\ \A k \in 1 .. Len(wire) : wire'[k] = wire[k]
      /\ \A p \in 1 .. FrameLen(f) : wire'[Len(wire) + p] = ByteOf(n, p)
  <2>1. wire' = wire \o Bytes(n, 1, HeadLen + BodyLen(f))
    BY <1>1 DEF Send
  <2>2. Extended(wire', wire, f, n)
    BY <1>2, <1>3, <2>1, FrameAppended
  <2>3. QED
    BY <2>2 DEF Extended
<1>5. PICK g \in Seq(Byte) :
        /\ Extended(g, ghost, f, n)
        /\ Len(g) = Len(ghost) + FrameLen(f)
        /\ \A k \in 1 .. Len(ghost) : g[k] = ghost[k]
        /\ \A p \in 1 .. FrameLen(f) : g[Len(ghost) + p] = ByteOf(n, p)
  <2>1. PICK g : g = ghost \o Bytes(n, 1, HeadLen + BodyLen(f))
    OBVIOUS
  <2>2. Extended(g, ghost, f, n)
    BY <1>2, <1>3, <2>1, FrameAppended
  <2>3. QED
    BY <2>2 DEF Extended
<1>6. Undamaged(g)'
  <2>1. Undamaged(ghost) /\ Extended(g, ghost, f, n) /\ Extended(wire', wire, f, n)
    BY <1>4, <1>5 DEF Account
  <2>2. QED
    BY <1>1, <2>1, SendUndamaged
<1>7. Counted(hit, eaten, open, debt)'
  BY <1>2 DEF Account, Counted
<1>8. NoneForgotten(hit, eaten)'
  <2> SUFFICES ASSUME NEW m \in 1 .. Len(sent'), Wanted(sent'[m])
               PROVE  \/ Returned(m)' \/ m \in hit \/ m \in eaten \/ BeingRead(m)'
                      \/ \E j \in Nat : Ahead(m, j)'
    BY DEF NoneForgotten, Wanted
  <2>1. CASE m \in 1 .. Len(sent)
    <3>1. sent'[m] = sent[m] /\ Wanted(sent[m])
      BY <1>2, <2>1
    <3>2. \/ Returned(m) \/ m \in hit \/ m \in eaten \/ BeingRead(m)
          \/ \E j \in Nat : Ahead(m, j)
      BY <2>1, <3>1 DEF Account, NoneForgotten
    <3>3. Returned(m) => Returned(m)'
      BY <1>2 DEF Returned
    <3>4. ASSUME BeingRead(m) PROVE BeingRead(m)'
      <4>1. BodyLen(sent[m])' = BodyLen(sent[m]) /\ BodyLen(sent[m]) \in Nat
        BY <1>2, <2>1, <3>1, BodyLenType DEF BodyLen
      <4>2. body \in Seq(Byte)
        BY DEF IInv, TypeOK
      <4>3. ASSUME NEW p \in 1 .. BodyLen(sent[m]) - Len(body)
            PROVE  wire'[p] = ByteOf(m, HeadLen + Len(body) + p)
        <5>1. p \in 1 .. Len(wire) /\ wire[p] = ByteOf(m, HeadLen + Len(body) + p)
          BY <1>3, <3>4, <4>1, <4>2 DEF BeingRead
        <5>2. QED
          BY <1>4, <5>1
      <4>4. BodyLen(sent[m]) <= Len(body) + Len(wire')
        BY <1>3, <1>4, <3>4, <4>1, <4>2 DEF BeingRead
      <4>5. QED
        BY <1>2, <3>4, <4>1, <4>3, <4>4 DEF BeingRead
    <3>5. ASSUME NEW j \in Nat, Ahead(m, j) PROVE Ahead(m, j)'
      BY <1>2, <1>3, <1>4, <2>1, <3>1, <3>5, AheadBefore DEF IInv
    <3>6. QED
      BY <3>2, <3>3, <3>4, <3>5
  <2>2. CASE m \notin 1 .. Len(sent)
    <3>1. m = n
      BY <1>1, <1>2, <2>2
    <3>2. PICK j : j = Len(window) + Len(wire)
      OBVIOUS
    <3>3. j \in Nat /\ FrameLen(sent[m])' = FrameLen(f)
      BY <1>2, <1>3, <3>1, <3>2 DEF FrameLen, BodyLen
    <3>4. ASSUME NEW p \in 1 .. FrameLen(f) PROVE Spot(j + p)' = ByteOf(m, p)
      <4>1. j + p > Len(window) /\ (j + p) - Len(window) = Len(wire) + p /\ ~(j + p <= Len(window))
        BY <1>3, <3>2
      <4>2. Spot(j + p)' = wire'[(j + p) - Len(window)]
        BY <1>2, <4>1 DEF Spot
      <4>3. QED
        BY <1>4, <3>1, <4>1, <4>2
    <3>5. j + HeadLen > Len(window') /\ j + FrameLen(f) <= Len(window') + Len(wire')
      BY <1>2, <1>3, <1>4, <3>2, LengthAssumption
    <3>6. Ahead(m, j)'
      BY <3>3, <3>4, <3>5 DEF Ahead
    <3>7. QED
      BY <3>3, <3>6
  <2>3. QED
    BY <2>1, <2>2
<1>9. MissingKnown(open, g)'
  <2> SUFFICES ASSUME NEW m \in 1 .. Len(sent'), NEW k \in 1 .. Len(g), g[k] = ByteOf(m, HeadLen),
                      NEW p \in HeadLen + 1 .. FrameLen(sent[m])'
               PROVE  ByteOf(m, p) \in open \/ \E q \in 1 .. Len(g) : g[q] = ByteOf(m, p)
    BY DEF MissingKnown
  <2>1. CASE m = n
    <3>1. FrameLen(sent[m])' = FrameLen(f)
      BY <1>2, <2>1 DEF FrameLen, BodyLen
    <3>2. p \in 1 .. FrameLen(f) /\ Len(ghost) + p \in 1 .. Len(g)
      BY <1>3, <1>5, <3>1, LengthAssumption
    <3>3. QED
      BY <1>5, <2>1, <3>2
  <2>2. CASE m # n
    <3>1. m \in 1 .. Len(sent) /\ sent'[m] = sent[m]
      BY <1>1, <1>2, <2>2
    <3>2. FrameLen(sent[m])' = FrameLen(sent[m])
      BY <3>1 DEF FrameLen, BodyLen
    <3>3. k \in 1 .. Len(ghost)
      <4>1. CASE k > Len(ghost)
        <5>1. k - Len(ghost) \in 1 .. FrameLen(f) /\ Len(ghost) + (k - Len(ghost)) = k
          BY <1>3, <1>5, <4>1
        <5>2. g[k] = ByteOf(n, k - Len(ghost))
          BY <1>5, <5>1
        <5>3. QED
          BY <2>2, <5>2 DEF ByteOf
      <4>2. QED
        BY <1>3, <4>1
    <3>4. ghost[k] = ByteOf(m, HeadLen)
      BY <1>5, <3>3
    <3>5. ByteOf(m, p) \in open \/ \E q \in 1 .. Len(ghost) : ghost[q] = ByteOf(m, p)
      BY <3>1, <3>2, <3>3, <3>4 DEF Account, MissingKnown
    <3>6. \A q \in 1 .. Len(ghost) : q \in 1 .. Len(g) /\ g[q] = ghost[q]
      BY <1>3, <1>5
    <3>7. QED
      BY <3>5, <3>6
  <2>3. QED
    BY <2>1, <2>2
<1>10. Debts(debt, g)'
  <2> SUFFICES ASSUME phase = "body"
               PROVE  /\ window = <<>> /\ Len(body) < ReadLen(sent[head])'
                      /\ \A k \in 1 .. Len(g) : g[k] # Noise => Before(ByteOf(head, HeadLen), g[k])
                      /\ \A m \in 1 .. Len(g) + 1 : NoLater(g, m) =>
                           ReadLen(sent[head])' - Len(body) <= (m - 1) + debt
    BY <1>2 DEF Debts, Covered, NoLater
  <2>1. /\ window = <<>> /\ Len(body) < ReadLen(sent[head])
        /\ \A k \in 1 .. Len(ghost) : ghost[k] # Noise => Before(ByteOf(head, HeadLen), ghost[k])
        /\ \A m \in 1 .. Len(ghost) + 1 : NoLater(ghost, m) =>
             ReadLen(sent[head]) - Len(body) <= (m - 1) + debt
    BY DEF Account, Debts, Covered
  <2>2. head \in 1 .. Len(sent) /\ sent'[head] = sent[head] /\ body \in Seq(Byte)
    BY <1>2 DEF IInv, TypeOK
  <2>3. ReadLen(sent[head])' = ReadLen(sent[head]) /\ ReadLen(sent[head]) \in Nat
    BY <1>2, <2>2, ReadLenType DEF ReadLen, ExtraSize
  <2>4. ASSUME NEW k \in 1 .. Len(g), g[k] # Noise PROVE Before(ByteOf(head, HeadLen), g[k])
    <3>1. CASE k <= Len(ghost)
      BY <1>3, <1>5, <2>1, <2>4, <3>1
    <3>2. CASE k > Len(ghost)
      <4>1. k - Len(ghost) \in 1 .. FrameLen(f) /\ Len(ghost) + (k - Len(ghost)) = k
        BY <1>3, <1>5, <3>2
      <4>2. g[k] = ByteOf(n, k - Len(ghost))
        BY <1>5, <4>1
      <4>3. head < n
        BY <1>1, <1>2, <2>2
      <4>4. QED
        BY <4>2, <4>3 DEF ByteOf, Before
    <3>3. QED
      BY <1>3, <3>1, <3>2
  <2>5. ASSUME NEW m \in 1 .. Len(g) + 1, NoLater(g, m)
        PROVE  ReadLen(sent[head]) - Len(body) <= (m - 1) + debt
    <3>1. CASE m <= Len(ghost)
      <4>1. NoLater(ghost, m)
        BY <1>3, <1>5, <2>5, <3>1 DEF NoLater
      <4>2. QED
        BY <1>3, <2>1, <3>1, <4>1
    <3>2. CASE m > Len(ghost)
      <4>1. NoLater(ghost, Len(ghost) + 1) /\ Len(ghost) + 1 \in 1 .. Len(ghost) + 1
        BY <1>3 DEF NoLater
      <4>2. ReadLen(sent[head]) - Len(body) <= ((Len(ghost) + 1) - 1) + debt
        BY <2>1, <4>1
      <4>3. debt \in Nat
        BY DEF Account, Counted
      <4>4. QED
        BY <1>3, <1>5, <2>2, <2>3, <3>2, <4>2, <4>3
    <3>3. QED
      BY <1>3, <1>5, <3>1, <3>2
  <2>6. QED
    BY <2>1, <2>3, <2>4, <2>5
<1>11. QED
  BY <1>6, <1>7, <1>8, <1>9, <1>10 DEF Account

LEMMA OneMoreHit ==
  ASSUME NEW hit, NEW n, IsFiniteSet(hit), Cardinality(hit) <= spoiled, spoiled \in Nat
  PROVE  IsFiniteSet(hit \cup {n}) /\ Cardinality(hit \cup {n}) <= spoiled + 1
<1>1. Cardinality(hit) \in Nat
  BY FS_CardinalityType
<1>2. /\ IsFiniteSet(hit \cup {n})
      /\ Cardinality(hit \cup {n}) = Cardinality(hit)
           \/ Cardinality(hit \cup {n}) = Cardinality(hit) + 1
  BY FS_AddElement
<1>3. QED
  BY <1>1, <1>2

\* A timeout costs the frame recv() is in, or nothing that was not lost before.
LEMMA TimeoutLoss ==
  ASSUME IInv, TimeoutEarly \/ TimeoutSilent,
         NEW hit, NEW eaten, NEW open, NEW debt, NEW ghost,
         Account(hit, eaten, open, debt, ghost)
  PROVE  \E h : Account(h, eaten, open, debt, ghost)'
<1>1. /\ phase = "body" /\ phase' = "sync"
      /\ UNCHANGED <<sent, wire, window, delivered, dropped>>
      /\ head \in 1 .. Len(sent) /\ spoiled \in Nat /\ body \in Seq(Byte)
  BY DEF TimeoutEarly, TimeoutSilent, IInv, TypeOK
<1>2. /\ Undamaged(ghost)' /\ MissingKnown(open, ghost)' /\ Debts(debt, ghost)'
  <2>1. Undamaged(ghost) /\ MissingKnown(open, ghost)
    BY DEF Account
  <2>2. Undamaged(ghost)'
    BY <1>1, <2>1 DEF Undamaged, OfSent, FrameLen, BodyLen
  <2>3. MissingKnown(open, ghost)'
    BY <1>1, <2>1 DEF MissingKnown, FrameLen, BodyLen
  <2>4. Debts(debt, ghost)'
    BY <1>1 DEF Debts
  <2>5. QED
    BY <2>2, <2>3, <2>4
<1>3. ASSUME NEW m \in 1 .. Len(sent), Wanted(sent[m])
      PROVE  \/ Returned(m)' \/ m \in hit \/ m \in eaten \/ BeingRead(m)
             \/ \E j \in Nat : Ahead(m, j)'
  <2>1. \/ Returned(m) \/ m \in hit \/ m \in eaten \/ BeingRead(m)
        \/ \E j \in Nat : Ahead(m, j)
    BY <1>3 DEF Account, NoneForgotten
  <2>2. Returned(m) => Returned(m)'
    BY <1>1 DEF Returned
  <2>3. \A j \in Nat : Ahead(m, j) => Ahead(m, j)'
    BY <1>1 DEF Ahead, Spot, FrameLen, BodyLen
  <2>4. QED
    BY <2>1, <2>2, <2>3
<1>4. Counted(hit, eaten, open, debt)
  BY DEF Account
<1>5. CASE TimeoutEarly
  <2> DEFINE h == hit \cup {head}
  <2>1. PICK g : g = h
    OBVIOUS
  <2>2. spoiled' = spoiled + 1
    BY <1>5 DEF TimeoutEarly
  <2>3. IsFiniteSet(g) /\ Cardinality(g) <= spoiled + 1
    BY <1>1, <1>4, <2>1, OneMoreHit DEF Counted
  <2>4. Counted(g, eaten, open, debt)'
    BY <1>1, <1>4, <2>2, <2>3 DEF Counted
  <2>5. NoneForgotten(g, eaten)'
    <3> SUFFICES ASSUME NEW m \in 1 .. Len(sent), Wanted(sent[m])
                 PROVE  \/ Returned(m)' \/ m \in g \/ m \in eaten
                        \/ \E j \in Nat : Ahead(m, j)'
      BY <1>1 DEF NoneForgotten
    <3>1. BeingRead(m) => m \in g
      BY <2>1 DEF BeingRead
    <3>2. m \in hit => m \in g
      BY <2>1
    <3>3. QED
      BY <1>3, <3>1, <3>2
  <2>6. QED
    BY <1>2, <2>4, <2>5 DEF Account
<1>6. CASE TimeoutSilent
  <2>1. wire = <<>> /\ spoiled' = spoiled
    BY <1>6 DEF TimeoutSilent
  <2>2. Counted(hit, eaten, open, debt)'
    BY <1>1, <1>4, <2>1 DEF Counted
  <2>3. NoneForgotten(hit, eaten)'
    <3> SUFFICES ASSUME NEW m \in 1 .. Len(sent), Wanted(sent[m])
                 PROVE  \/ Returned(m)' \/ m \in hit \/ m \in eaten
                        \/ \E j \in Nat : Ahead(m, j)'
      BY <1>1 DEF NoneForgotten
    <3>1. ASSUME BeingRead(m) PROVE FALSE
      <4>1. head = m /\ BodyLen(sent[m]) <= Len(body) + 0
        BY <2>1, <3>1 DEF BeingRead
      <4>2. Len(body) < ReadLen(sent[m])
        BY <1>1, <4>1 DEF Account, Debts
      <4>3. sent[m] \in Frames
        BY DEF IInv, TypeOK
      <4>4. /\ ReadLen(sent[m]) \in Nat /\ ReadLen(sent[m]) <= BodyLen(sent[m])
            /\ BodyLen(sent[m]) \in Nat /\ Len(body) \in Nat
        BY <1>1, <4>3, ReadLenType, BodyLenType
      <4>5. QED
        BY <4>1, <4>2, <4>4
    <3>2. QED
      BY <1>3, <3>1
  <2>4. QED
    BY <1>2, <2>2, <2>3 DEF Account
<1>7. QED
  BY <1>5, <1>6

\* t is s with a byte put in at place i (d = 1), changed there (0) or taken out (-1).
Moved(t, s, i, d) ==
  /\ Len(t) = Len(s) + d
  /\ \A k \in 1 .. Len(s) : k < i => t[k] = s[k]
  /\ \A k \in 1 .. Len(s) : k > i => t[k + d] = s[k]

\* A fault leaves alone what is ahead, but for the frame whose byte it hits.
LEMMA SpoilAhead ==
  ASSUME TypeOK, wire' \in Seq(Byte), UNCHANGED <<sent, window>>,
         NEW i \in 1 .. Len(wire), NEW d \in {-1, 0, 1}, Moved(wire', wire, i, d),
         NEW n \in 1 .. Len(sent), wire[i].frame # n, NEW j \in Nat, Ahead(n, j)
  PROVE  \E l \in Nat : Ahead(n, l)'
<1>1. window \in Seq(Byte) /\ wire \in Seq(Byte) /\ sent[n] \in Frames
  BY DEF TypeOK
<1>2. PICK L, W : L = FrameLen(sent[n]) /\ W = Len(window)
  OBVIOUS
<1>3. /\ L \in Nat \ {0} /\ L >= HeadLen /\ W \in Nat /\ HeadLen \in Nat \ {0}
      /\ FrameLen(sent[n])' = L /\ Len(window') = W
  BY <1>1, <1>2, BodyLenType, LengthAssumption DEF FrameLen, BodyLen
<1>4. /\ j + HeadLen > W /\ j + L <= W + Len(wire)
      /\ \A p \in 1 .. L : Spot(j + p) = ByteOf(n, p)
  BY <1>2 DEF Ahead
<1>5. \A p \in 1 .. L : j + p > W => (j + p) - W \in 1 .. Len(wire) /\ wire[(j + p) - W] = ByteOf(n, p)
  <2> SUFFICES ASSUME NEW p \in 1 .. L, j + p > W
               PROVE  (j + p) - W \in 1 .. Len(wire) /\ wire[(j + p) - W] = ByteOf(n, p)
    OBVIOUS
  <2>1. ~(j + p <= W) /\ (j + p) - W \in 1 .. Len(wire)
    BY <1>1, <1>3, <1>4
  <2>2. Spot(j + p) = wire[(j + p) - W]
    BY <1>2, <2>1 DEF Spot
  <2>3. QED
    BY <1>4, <2>1, <2>2
<1>6. \A p \in 1 .. L : j + p # W + i
  <2> SUFFICES ASSUME NEW p \in 1 .. L, j + p = W + i PROVE FALSE
    OBVIOUS
  <2>1. j + p > W /\ (j + p) - W = i
    BY <1>1, <1>3
  <2>2. wire[i] = ByteOf(n, p)
    BY <1>5, <2>1
  <2>3. QED
    BY <2>2 DEF ByteOf
<1>7. Len(wire') = Len(wire) + d /\ Len(wire) \in Nat /\ i \in Nat /\ i >= 1 /\ i <= Len(wire)
  BY <1>1 DEF Moved
<1>8. ASSUME NEW l \in Nat, l + HeadLen > W, l + L <= W + Len(wire'),
             \A p \in 1 .. L : l + p <= W => l = j,
             \A p \in 1 .. L : l + p > W => wire'[(l + p) - W] = ByteOf(n, p)
      PROVE  Ahead(n, l)'
  <2>1. ASSUME NEW p \in 1 .. L PROVE Spot(l + p)' = ByteOf(n, p)
    <3>1. CASE l + p <= W
      <4>1. Spot(j + p) = window[j + p] /\ l = j
        BY <1>2, <1>8, <3>1 DEF Spot
      <4>2. Spot(l + p)' = window[l + p]
        BY <1>2, <3>1 DEF Spot
      <4>3. QED
        BY <1>4, <4>1, <4>2
    <3>2. CASE ~(l + p <= W)
      <4>1. Spot(l + p)' = wire'[(l + p) - W]
        BY <1>2, <3>2 DEF Spot
      <4>2. l + p > W
        BY <1>3, <3>2
      <4>3. QED
        BY <1>8, <4>1, <4>2
    <3>3. QED
      BY <3>1, <3>2
  <2>2. QED
    BY <1>3, <1>8, <2>1 DEF Ahead
<1>9. CASE j + L < W + i
  <2>1. j + L <= W + Len(wire')
    BY <1>3, <1>7, <1>9
  <2>2. ASSUME NEW p \in 1 .. L, j + p > W PROVE wire'[(j + p) - W] = ByteOf(n, p)
    <3>1. (j + p) - W \in 1 .. Len(wire) /\ (j + p) - W < i
      BY <1>3, <1>5, <1>7, <1>9, <2>2
    <3>2. QED
      BY <1>5, <2>2, <3>1 DEF Moved
  <2>3. Ahead(n, j)'
    BY <1>4, <1>8, <2>1, <2>2
  <2>4. QED
    BY <2>3
<1>10. CASE j + L >= W + i
  <2>1. j + 1 > W + i
    <3>1. CASE j >= W + i
      BY <1>3, <1>7, <3>1
    <3>2. CASE j < W + i
      <4>1. (W + i) - j \in 1 .. L /\ j + ((W + i) - j) = W + i
        BY <1>3, <1>7, <1>10, <3>2
      <4>2. QED
        BY <1>6, <4>1
    <3>3. QED
      BY <1>3, <1>7, <3>1, <3>2
  <2>2. PICK l : l = j + d
    OBVIOUS
  <2>3. /\ l \in Nat /\ l >= W /\ l + HeadLen > W /\ l + L <= W + Len(wire')
    <3>1. l \in Int /\ l >= W
      BY <1>3, <1>7, <2>1, <2>2
    <3>2. l \in Nat /\ l + HeadLen > W
      BY <1>3, <3>1
    <3>3. l + L <= W + Len(wire')
      BY <1>3, <1>4, <1>7, <2>2
    <3>4. QED
      BY <3>1, <3>2, <3>3
  <2>4. ASSUME NEW p \in 1 .. L PROVE wire'[(l + p) - W] = ByteOf(n, p)
    <3>1. PICK k : k = (j + p) - W
      OBVIOUS
    <3>2. j + p > W /\ k > i /\ k + d = (l + p) - W
      <4>1. W \in Nat /\ i \in Nat /\ p \in Nat /\ p >= 1
        BY <1>3, <1>7
      <4>2. QED
        BY <2>1, <2>2, <3>1, <4>1
    <3>3. k \in 1 .. Len(wire) /\ wire[k] = ByteOf(n, p)
      BY <1>5, <3>1, <3>2
    <3>4. wire'[k + d] = wire[k]
      BY <3>2, <3>3 DEF Moved
    <3>5. QED
      BY <3>2, <3>3, <3>4
  <2>5. \A p \in 1 .. L : ~(l + p <= W)
    BY <1>3, <2>3
  <2>6. Ahead(n, l)'
    BY <1>8, <2>3, <2>4, <2>5
  <2>7. QED
    BY <2>3, <2>6
<1>11. QED
  BY <1>3, <1>7, <1>9, <1>10

LEMMA SpoilReading ==
  ASSUME IInv, wire' \in Seq(Byte), UNCHANGED <<sent, phase, head, body>>,
         NEW i \in 1 .. Len(wire), NEW d \in {-1, 0, 1}, Moved(wire', wire, i, d),
         NEW n \in 1 .. Len(sent), wire[i].frame # n, BeingRead(n)
  PROVE  BeingRead(n)'
<1>1. body \in Seq(Byte) /\ wire \in Seq(Byte) /\ sent[n] \in Frames
  BY DEF IInv, TypeOK
<1>2. PICK R : R = BodyLen(sent[n]) - Len(body)
  OBVIOUS
<1>3. R \in Int /\ BodyLen(sent[n]) \in Nat /\ BodyLen(sent[n])' = BodyLen(sent[n])
  BY <1>1, <1>2, BodyLenType DEF BodyLen
<1>4. R <= Len(wire) /\ \A p \in 1 .. R : wire[p] = ByteOf(n, HeadLen + Len(body) + p)
  BY <1>1, <1>2, <1>3 DEF BeingRead
<1>5. i > R
  <2>1. ASSUME i \in 1 .. R PROVE FALSE
    <3>1. wire[i] = ByteOf(n, HeadLen + Len(body) + i)
      BY <1>4, <2>1
    <3>2. QED
      BY <3>1 DEF ByteOf
  <2>2. QED
    BY <1>3, <2>1
<1>6. Len(wire') = Len(wire) + d /\ Len(wire) \in Nat
  BY <1>1 DEF Moved
<1>7. R <= Len(wire')
  BY <1>3, <1>5, <1>6
<1>8. \A p \in 1 .. R : wire'[p] = ByteOf(n, HeadLen + Len(body) + p)
  <2>1. \A p \in 1 .. R : p \in 1 .. Len(wire) /\ p < i
    BY <1>3, <1>4, <1>5, <1>6
  <2>2. QED
    BY <1>4, <2>1 DEF Moved
<1>9. BodyLen(sent[n]) <= Len(body) + Len(wire')
  BY <1>1, <1>2, <1>3, <1>6, <1>7
<1>10. QED
  BY <1>2, <1>3, <1>8, <1>9 DEF BeingRead

\* The bytes of g are those of ghost at the places at, which rise.
Places(at, g, ghost) ==
  /\ \A k \in 1 .. Len(g) : g[k] # Noise => at[k] \in 1 .. Len(ghost) /\ g[k] = ghost[at[k]]
  /\ \A j, k \in 1 .. Len(g) :
       j < k /\ g[j] # Noise /\ g[k] # Noise => at[j] < at[k]

LEMMA GhostKept ==
  ASSUME NEW ghost, Undamaged(ghost), UNCHANGED sent,
         NEW g \in Seq(Byte), Len(g) = Len(wire'),
         \A k \in 1 .. Len(g) : wire'[k] = Noise \/ wire'[k] = g[k],
         NEW at, Places(at, g, ghost)
  PROVE  Undamaged(g)'
<1>1. \A k \in 1 .. Len(g) : g[k] = Noise \/ OfSent(g[k])
  BY DEF Undamaged, Places
<1>2. \A k \in 1 .. Len(g) : OfSent(g[k]) => OfSent(g[k])'
  BY DEF OfSent, FrameLen, BodyLen
<1>3. \A j, k \in 1 .. Len(g) :
        j < k /\ g[j] # Noise /\ g[k] # Noise => Before(g[j], g[k])
  BY DEF Undamaged, Places
<1>4. QED
  BY <1>1, <1>2, <1>3 DEF Undamaged

\* A fault at place i costs at most the frame whose byte is there.
LEMMA OthersUnhit ==
  ASSUME IInv, Spoil, NEW i \in 1 .. Len(wire), NEW d \in {-1, 0, 1},
         wire' \in Seq(Byte), Moved(wire', wire, i, d),
         NEW hit, NEW eaten, NoneForgotten(hit, eaten),
         NEW h, h = hit \cup {wire[i].frame}
  PROVE  NoneForgotten(h, eaten)'
<1>1. UNCHANGED <<sent, window, phase, head, body, delivered>>
  BY DEF Spoil
<1>2. SUFFICES ASSUME NEW m \in 1 .. Len(sent), Wanted(sent[m])
               PROVE  \/ Returned(m)' \/ m \in h \/ m \in eaten \/ BeingRead(m)'
                      \/ \E j \in Nat : Ahead(m, j)'
  BY <1>1 DEF NoneForgotten
<1>3. \/ Returned(m) \/ m \in hit \/ m \in eaten \/ BeingRead(m)
      \/ \E j \in Nat : Ahead(m, j)
  BY <1>2 DEF NoneForgotten
<1>4. Returned(m) => Returned(m)'
  BY <1>1 DEF Returned
<1>5. CASE wire[i].frame = m
  BY <1>5
<1>6. CASE wire[i].frame # m
  <2>1. BeingRead(m) => BeingRead(m)'
    BY <1>1, <1>6, SpoilReading
  <2>2. (\E j \in Nat : Ahead(m, j)) => \E l \in Nat : Ahead(m, l)'
    BY <1>1, <1>6, SpoilAhead DEF IInv
  <2>3. m \in hit => m \in h
    OBVIOUS
  <2>4. QED
    BY <1>3, <1>4, <2>1, <2>2, <2>3
<1>7. QED
  BY <1>5, <1>6

\* g has the bytes of ghost but those that are lost, and no others.
Leaves(g, ghost, lost) ==
  /\ \A q \in 1 .. Len(ghost) :
       ghost[q] = Noise \/ ghost[q] \in lost \/ \E k \in 1 .. Len(g) : g[k] = ghost[q]
  /\ \A k \in 1 .. Len(g) : g[k] = Noise \/ \E q \in 1 .. Len(ghost) : ghost[q] = g[k]

\* What a fault leaves of ghost, g: the bytes it had, but for the one at place i, which may
\* have gone to open or into debt.
LEMMA GhostSpoiled ==
  ASSUME IInv, Spoil, NEW i \in 1 .. Len(wire),
         NEW hit, NEW eaten, NEW open, NEW debt, NEW ghost,
         Account(hit, eaten, open, debt, ghost),
         NEW h, NoneForgotten(h, eaten)', IsFiniteSet(h), Cardinality(h) <= spoiled + 1,
         NEW g, Undamaged(g)', NEW lost, lost \subseteq {ghost[i]},
         Leaves(g, ghost, lost),
         NEW o, NEW e, o \in SUBSET (open \cup {ghost[i]}), open \subseteq o, e \in Nat,
         lost \subseteq o \/ (phase = "body" /\ ghost[i].frame <= head),
         Cardinality(eaten) + Cardinality(o) + e <= dropped',
         phase = "body" => Covered(e, g)
  PROVE  Account(h, eaten, o, e, g)'
<1>1. /\ UNCHANGED <<sent, window, phase, head, body, delivered>> /\ spoiled' = spoiled + 1
      /\ sent \in Seq(Frames)
  BY DEF Spoil, IInv, TypeOK
<1>2. /\ Counted(hit, eaten, open, debt) /\ MissingKnown(open, ghost) /\ Debts(debt, ghost)
      /\ Undamaged(ghost)
  BY DEF Account
<1>3. Counted(h, eaten, o, e)'
  <2>1. IsFiniteSet(o)
    <3>1. IsFiniteSet(open \cup {ghost[i]})
      BY <1>2, FS_AddElement DEF Counted
    <3>2. QED
      BY <3>1, FS_Subset
  <2>2. QED
    BY <1>1, <1>2, <2>1 DEF Counted
<1>4. MissingKnown(o, g)'
  <2> SUFFICES ASSUME NEW n \in 1 .. Len(sent), NEW k \in 1 .. Len(g), g[k] = ByteOf(n, HeadLen),
                      NEW p \in HeadLen + 1 .. FrameLen(sent[n])
               PROVE  ByteOf(n, p) \in o \/ \E q \in 1 .. Len(g) : g[q] = ByteOf(n, p)
    BY <1>1 DEF MissingKnown, FrameLen, BodyLen
  <2>1. PICK q \in 1 .. Len(ghost) : ghost[q] = ByteOf(n, HeadLen)
    <3>1. g[k] # Noise
      BY ByteOfNotNoise
    <3>2. QED
      BY <3>1 DEF Leaves
  <2>2. ByteOf(n, p) \in open \/ \E r \in 1 .. Len(ghost) : ghost[r] = ByteOf(n, p)
    BY <1>2, <2>1 DEF MissingKnown
  <2>3. ASSUME NEW r \in 1 .. Len(ghost), ghost[r] = ByteOf(n, p), ByteOf(n, p) \in lost
        PROVE  ByteOf(n, p) \in o
    <3>1. CASE phase = "body" /\ ghost[i].frame <= head
      <4>1. ghost[i] = ByteOf(n, p)
        BY <2>3
      <4>2. n <= head
        BY <3>1, <4>1 DEF ByteOf
      <4>3. Before(ByteOf(head, HeadLen), ByteOf(n, HeadLen))
        <5>1. ghost[q] # Noise
          BY <2>1, ByteOfNotNoise
        <5>2. QED
          BY <1>2, <2>1, <3>1, <5>1 DEF Debts
      <4>4. head \in Nat /\ n \in Nat /\ HeadLen \in Nat
        BY <1>1, LengthAssumption DEF IInv, TypeOK
      <4>5. head < n \/ (head = n /\ HeadLen < HeadLen)
        BY <4>3 DEF Before, ByteOf
      <4>6. QED
        BY <4>2, <4>4, <4>5
    <3>2. QED
      BY <2>3, <3>1
  <2>4. ByteOf(n, p) # Noise
    BY ByteOfNotNoise
  <2>5. QED
    BY <2>2, <2>3, <2>4 DEF Leaves
<1>5. Debts(e, g)'
  <2> SUFFICES ASSUME phase = "body"
               PROVE  /\ window = <<>> /\ Len(body) < ReadLen(sent[head])
                      /\ \A k \in 1 .. Len(g) : g[k] # Noise => Before(ByteOf(head, HeadLen), g[k])
                      /\ Covered(e, g)
    BY <1>1 DEF Debts, Covered, NoLater, ReadLen, ExtraSize
  <2>1. /\ window = <<>> /\ Len(body) < ReadLen(sent[head])
        /\ \A k \in 1 .. Len(ghost) : ghost[k] # Noise => Before(ByteOf(head, HeadLen), ghost[k])
    BY <1>2 DEF Debts
  <2>2. \A k \in 1 .. Len(g) : g[k] # Noise => Before(ByteOf(head, HeadLen), g[k])
    BY <2>1 DEF Leaves
  <2>3. QED
    BY <2>1, <2>2
<1>6. QED
  BY <1>3, <1>4, <1>5 DEF Account

\* The counts of an account are numbers.
LEMMA CountTypes ==
  ASSUME TypeOK, NEW hit, NEW eaten, NEW open, NEW debt, Counted(hit, eaten, open, debt)
  PROVE  /\ Cardinality(hit) \in Nat /\ Cardinality(eaten) \in Nat /\ Cardinality(open) \in Nat
         /\ debt \in Nat /\ spoiled \in Nat /\ dropped \in Nat
         /\ Cardinality(hit) <= spoiled
         /\ Cardinality(eaten) + Cardinality(open) + debt <= dropped
BY FS_CardinalityType DEF Counted, TypeOK

\* A byte that is dropped costs its frame, and another one if recv() reads on for it.
LEMMA DropLoss ==
  ASSUME IInv, Spoil, NEW i \in 1 .. Len(wire), DropByte(i),
         NEW hit, NEW eaten, NEW open, NEW debt, NEW ghost,
         Account(hit, eaten, open, debt, ghost)
  PROVE  LossInv'
<1>1. /\ wire \in Seq(Byte) /\ ghost \in Seq(Byte) /\ Len(ghost) = Len(wire)
      /\ UNCHANGED <<sent, window, phase, head, body, delivered>>
      /\ spoiled' = spoiled + 1 /\ dropped' = dropped + 1
      /\ body \in Seq(Byte) /\ IInv'
  BY SpoilStep DEF IInv, TypeOK, Account, Undamaged, Spoil, DropByte
<1>2. wire' \in Seq(Byte) /\ Without(wire', wire, i)
  <2>1. wire' = SubSeq(wire, 1, i - 1) \o SubSeq(wire, i + 1, Len(wire))
    BY DEF DropByte
  <2>2. QED
    BY <1>1, <2>1, Removed
<1>3. PICK g \in Seq(Byte) : Without(g, ghost, i)
  <2>1. i \in 1 .. Len(ghost)
    BY <1>1
  <2>2. PICK g : g = SubSeq(ghost, 1, i - 1) \o SubSeq(ghost, i + 1, Len(ghost))
    OBVIOUS
  <2>3. g \in Seq(Byte) /\ Without(g, ghost, i)
    BY <1>1, <2>1, <2>2, Removed
  <2>4. QED
    BY <2>3
<1>4. /\ Len(wire') = Len(wire) - 1 /\ Len(g) = Len(wire) - 1 /\ Len(wire) \in Nat
      /\ \A k \in Int : 1 <= k /\ k < i => wire'[k] = wire[k] /\ g[k] = ghost[k]
      /\ \A k \in Int : i <= k /\ k <= Len(wire) - 1 => wire'[k] = wire[k + 1] /\ g[k] = ghost[k + 1]
  <2>1. /\ Len(wire') = Len(wire) - 1
        /\ \A k \in Int : 1 <= k /\ k < i => wire'[k] = wire[k]
        /\ \A k \in Int : i <= k /\ k <= Len(wire) - 1 => wire'[k] = wire[k + 1]
    BY <1>2 DEF Without
  <2>2. /\ Len(g) = Len(wire) - 1
        /\ \A k \in Int : 1 <= k /\ k < i => g[k] = ghost[k]
        /\ \A k \in Int : i <= k /\ k <= Len(wire) - 1 => g[k] = ghost[k + 1]
    BY <1>1, <1>3 DEF Without
  <2>3. Len(wire) \in Nat
    BY <1>1
  <2>4. QED
    BY <2>1, <2>2, <2>3
<1>5. PICK h : h = hit \cup {wire[i].frame}
  OBVIOUS
<1>6. NoneForgotten(h, eaten)'
  <2>1. Moved(wire', wire, i, -1)
    <3>1. ASSUME NEW k \in 1 .. Len(wire), k > i PROVE wire'[k + (-1)] = wire[k]
      <4>1. PICK l : l = k - 1
        OBVIOUS
      <4>2. l \in Int /\ i <= l /\ l <= Len(wire) - 1 /\ l + 1 = k /\ k + (-1) = l
        BY <1>4, <3>1, <4>1
      <4>3. wire'[l] = wire[l + 1]
        BY <1>4, <4>2
      <4>4. QED
        BY <4>2, <4>3
    <3>2. \A k \in 1 .. Len(wire) : k < i => wire'[k] = wire[k]
      BY <1>4
    <3>3. Len(wire') = Len(wire) + (-1)
      BY <1>4
    <3>4. QED
      BY <3>1, <3>2, <3>3 DEF Moved
  <2>2. -1 \in {-1, 0, 1} /\ NoneForgotten(hit, eaten)
    BY DEF Account
  <2>3. QED
    BY <1>2, <1>5, <2>1, <2>2, OthersUnhit
<1>7. Undamaged(g)'
  <2> DEFINE at == [k \in 1 .. Len(g) |-> IF k < i THEN k ELSE k + 1]
  <2>1. ASSUME NEW k \in 1 .. Len(g)
        PROVE  /\ at[k] \in 1 .. Len(ghost) /\ g[k] = ghost[at[k]] /\ wire'[k] = wire[at[k]]
    <3>1. CASE k < i
      BY <1>1, <1>4, <3>1
    <3>2. CASE k >= i
      BY <1>1, <1>4, <3>2
    <3>3. QED
      BY <3>1, <3>2
  <2>2. \A j, k \in 1 .. Len(g) : j < k => at[j] < at[k]
    BY <1>4
  <2>3. Undamaged(ghost)
    BY DEF Account
  <2> HIDE DEF at
  <2>4. \A k \in 1 .. Len(g) : wire'[k] = Noise \/ wire'[k] = g[k]
    BY <2>1, <2>3 DEF Undamaged
  <2>5. PICK a : a = at
    OBVIOUS
  <2>6. Places(a, g, ghost)
    BY <2>1, <2>2, <2>5 DEF Places
  <2>7. UNCHANGED sent /\ Len(g) = Len(wire')
    BY <1>1, <1>4
  <2>8. QED
    BY <2>3, <2>4, <2>6, <2>7, GhostKept
<1>8. \A q \in 1 .. Len(ghost) : ghost[q] \in {ghost[i]} \/ \E k \in 1 .. Len(g) : g[k] = ghost[q]
  <2> SUFFICES ASSUME NEW q \in 1 .. Len(ghost), q # i
               PROVE  \E k \in 1 .. Len(g) : g[k] = ghost[q]
    OBVIOUS
  <2>1. CASE q < i
    BY <1>1, <1>4, <2>1
  <2>2. CASE q > i
    <3>1. PICK l : l = q - 1
      OBVIOUS
    <3>2. l \in 1 .. Len(g) /\ i <= l /\ l <= Len(wire) - 1 /\ l + 1 = q
      BY <1>1, <1>4, <2>2, <3>1
    <3>3. QED
      BY <1>4, <3>2
  <2>3. QED
    BY <2>1, <2>2
<1>9. \A k \in 1 .. Len(g) : g[k] = Noise \/ \E q \in 1 .. Len(ghost) : ghost[q] = g[k]
  <2> SUFFICES ASSUME NEW k \in 1 .. Len(g) PROVE \E q \in 1 .. Len(ghost) : ghost[q] = g[k]
    OBVIOUS
  <2>1. CASE k < i
    BY <1>1, <1>4, <2>1
  <2>2. CASE k >= i
    BY <1>1, <1>4, <2>2
  <2>3. QED
    BY <2>1, <2>2
<1>10. ASSUME NEW lost, \A q \in 1 .. Len(ghost) :
                ghost[q] = Noise \/ ghost[q] \in lost \/ \E k \in 1 .. Len(g) : g[k] = ghost[q]
       PROVE  Leaves(g, ghost, lost)
  BY <1>9, <1>10 DEF Leaves
<1>11. /\ Cardinality(open) \in Nat /\ Cardinality(eaten) \in Nat /\ debt \in Nat
       /\ dropped \in Nat /\ Cardinality(eaten) + Cardinality(open) + debt <= dropped
       /\ IsFiniteSet(h) /\ Cardinality(h) <= spoiled + 1 /\ IsFiniteSet(open)
  <2>1. Counted(hit, eaten, open, debt)
    BY DEF Account
  <2>2. IsFiniteSet(hit) /\ Cardinality(hit) <= spoiled /\ spoiled \in Nat
    BY <2>1, CountTypes DEF IInv, Counted
  <2>3. IsFiniteSet(h) /\ Cardinality(h) <= spoiled + 1
    BY <1>5, <2>2, OneMoreHit
  <2>4. QED
    BY <2>1, <2>3, CountTypes DEF IInv, Counted
<1>12. ASSUME phase = "body"
       PROVE  /\ \A m \in 1 .. Len(ghost) + 1 : NoLater(ghost, m) =>
                   ReadLen(sent[head]) - Len(body) <= (m - 1) + debt
              /\ ReadLen(sent[head]) \in Nat /\ Len(body) \in Nat
  <2>1. head \in 1 .. Len(sent) /\ sent[head] \in Frames
    BY <1>12 DEF IInv, TypeOK
  <2>2. QED
    BY <1>1, <1>12, <2>1, ReadLenType DEF Account, Debts, Covered
<1>13. CASE ghost[i] # Noise /\ (phase = "body" => ghost[i].frame > head)
  <2>1. PICK o : o = open \cup {ghost[i]}
    OBVIOUS
  <2>2. Cardinality(o) \in Nat /\ Cardinality(o) <= Cardinality(open) + 1
    <3>1. /\ IsFiniteSet(o)
          /\ Cardinality(o) = Cardinality(open) \/ Cardinality(o) = Cardinality(open) + 1
      BY <1>11, <2>1, FS_AddElement
    <3>2. QED
      BY <1>11, <3>1
  <2>3. Cardinality(eaten) + Cardinality(o) + debt <= dropped'
    BY <1>1, <1>11, <2>2
  <2>4. ASSUME phase = "body", NEW m \in 1 .. Len(g) + 1, NoLater(g, m)
        PROVE  ReadLen(sent[head]) - Len(body) <= (m - 1) + debt
    <3>1. CASE m < i
      <4>1. NoLater(ghost, m) /\ m \in 1 .. Len(ghost) + 1
        BY <1>1, <1>4, <2>4, <3>1 DEF NoLater
      <4>2. QED
        BY <1>12, <2>4, <4>1
    <3>2. CASE m >= i
      <4>1. NoLater(ghost, i) /\ i \in 1 .. Len(ghost) + 1
        BY <1>1, <1>13, <2>4 DEF NoLater
      <4>2. ReadLen(sent[head]) - Len(body) <= (i - 1) + debt
        BY <1>12, <2>4, <4>1
      <4>3. QED
        BY <1>4, <1>11, <1>12, <2>4, <3>2, <4>2
    <3>3. QED
      BY <1>4, <3>1, <3>2
  <2>5. PICK lost : lost = {ghost[i]}
    OBVIOUS
  <2>6. /\ lost \subseteq {ghost[i]} /\ o \in SUBSET (open \cup {ghost[i]}) /\ open \subseteq o
        /\ lost \subseteq o
        /\ Leaves(g, ghost, lost)
    BY <1>8, <1>10, <2>1, <2>5
  <2>7. Account(h, eaten, o, debt, g)'
    <3>1. phase = "body" => Covered(debt, g)
      BY <2>4 DEF Covered
    <3>2. QED
      BY <1>6, <1>7, <1>11, <2>3, <2>6, <3>1, GhostSpoiled
  <2>8. QED
    BY <1>1, <2>7 DEF LossInv
<1>14. CASE ghost[i] = Noise \/ (phase = "body" /\ ~(ghost[i].frame > head))
  <2>1. PICK e : e = debt + 1
    OBVIOUS
  <2>2. e \in Nat /\ Cardinality(eaten) + Cardinality(open) + e <= dropped'
    BY <1>1, <1>11, <2>1
  <2>3. ASSUME phase = "body", NEW m \in 1 .. Len(g) + 1, NoLater(g, m)
        PROVE  ReadLen(sent[head]) - Len(body) <= (m - 1) + e
    <3>1. CASE m < i
      <4>1. NoLater(ghost, m) /\ m \in 1 .. Len(ghost) + 1
        BY <1>1, <1>4, <2>3, <3>1 DEF NoLater
      <4>2. ReadLen(sent[head]) - Len(body) <= (m - 1) + debt
        BY <1>12, <2>3, <4>1
      <4>3. QED
        BY <1>4, <1>11, <1>12, <2>1, <2>3, <4>2
    <3>2. CASE m >= i
      <4>1. m + 1 <= Len(ghost) => m <= Len(g) /\ g[m] = ghost[m + 1]
        BY <1>1, <1>4, <3>2
      <4>2. NoLater(ghost, m + 1) /\ m + 1 \in 1 .. Len(ghost) + 1
        BY <1>1, <1>4, <2>3, <4>1 DEF NoLater
      <4>3. ReadLen(sent[head]) - Len(body) <= ((m + 1) - 1) + debt
        BY <1>12, <2>3, <4>2
      <4>4. QED
        BY <1>4, <1>11, <1>12, <2>1, <2>3, <4>3
    <3>3. QED
      BY <1>4, <3>1, <3>2
  <2>4. ASSUME NEW lost, lost \subseteq {ghost[i]},
               lost = {} \/ (phase = "body" /\ ghost[i].frame <= head),
               Leaves(g, ghost, lost)
        PROVE  LossInv'
    <3>1. /\ open \in SUBSET (open \cup {ghost[i]}) /\ open \subseteq open
          /\ lost \subseteq open \/ (phase = "body" /\ ghost[i].frame <= head)
      BY <2>4
    <3>2. phase = "body" => Covered(e, g)
      BY <2>3 DEF Covered
    <3>3. Account(h, eaten, open, e, g)'
      BY <1>6, <1>7, <1>11, <2>2, <2>4, <3>1, <3>2, GhostSpoiled
    <3>4. QED
      BY <1>1, <3>3 DEF LossInv
  <2>5. CASE ghost[i] = Noise
    <3>1. PICK lost : lost = {}
      OBVIOUS
    <3>2. Leaves(g, ghost, lost)
      BY <1>8, <1>10, <2>5
    <3>3. QED
      BY <2>4, <3>1, <3>2
  <2>6. CASE phase = "body" /\ ~(ghost[i].frame > head) /\ ghost[i] # Noise
    <3>1. PICK lost : lost = {ghost[i]}
      OBVIOUS
    <3>2. head \in Nat /\ ghost[i].frame \in Nat
      <4>1. i \in 1 .. Len(ghost)
        BY <1>1
      <4>2. OfSent(ghost[i])
        BY <2>6, <4>1 DEF Account, Undamaged
      <4>3. QED
        BY <4>2 DEF IInv, TypeOK, OfSent
    <3>3. ghost[i].frame <= head
      BY <2>6, <3>2
    <3>4. Leaves(g, ghost, lost)
      BY <1>8, <1>10, <3>1
    <3>5. QED
      BY <2>4, <2>6, <3>1, <3>3, <3>4
  <2>7. QED
    BY <1>14, <2>5, <2>6
<1>15. QED
  BY <1>13, <1>14

\* The frame a fault hits is the only one more.
LEMMA HitCounted ==
  ASSUME IInv, NEW hit, NEW eaten, NEW open, NEW debt, Counted(hit, eaten, open, debt),
         NEW b, NEW h, h = hit \cup {b}
  PROVE  IsFiniteSet(h) /\ Cardinality(h) <= spoiled + 1
<1>1. IsFiniteSet(hit) /\ Cardinality(hit) <= spoiled /\ spoiled \in Nat
  BY DEF Counted, IInv, TypeOK
<1>2. QED
  BY <1>1, OneMoreHit

\* A byte that is damaged costs its frame.
LEMMA DamageLoss ==
  ASSUME IInv, Spoil, NEW i \in 1 .. Len(wire), DamageByte(i),
         NEW hit, NEW eaten, NEW open, NEW debt, NEW ghost,
         Account(hit, eaten, open, debt, ghost)
  PROVE  LossInv'
<1>1. /\ wire \in Seq(Byte) /\ Noise \in Byte
      /\ UNCHANGED <<sent, window, phase, head, body, delivered>>
      /\ dropped' = dropped /\ IInv'
      /\ wire' = [wire EXCEPT ![i] = Noise]
  BY SpoilStep DEF IInv, TypeOK, Spoil, DamageByte, Byte
<1>2. /\ wire' \in Seq(Byte) /\ Len(wire') = Len(wire)
      /\ \A k \in 1 .. Len(wire) : wire'[k] = IF k = i THEN Noise ELSE wire[k]
  BY <1>1
<1>3. /\ Counted(hit, eaten, open, debt) /\ NoneForgotten(hit, eaten) /\ Undamaged(ghost)
      /\ Debts(debt, ghost)
  BY DEF Account
<1>4. PICK h : h = hit \cup {wire[i].frame}
  OBVIOUS
<1>5. NoneForgotten(h, eaten)'
  <2>1. Moved(wire', wire, i, 0)
    BY <1>1, <1>2 DEF Moved
  <2>2. 0 \in {-1, 0, 1}
    OBVIOUS
  <2>3. QED
    BY <1>2, <1>3, <1>4, <2>1, <2>2, OthersUnhit
<1>6. Undamaged(ghost)'
  <2>1. ghost \in Seq(Byte) /\ Len(ghost) = Len(wire')
    BY <1>2, <1>3 DEF Undamaged
  <2>2. \A k \in 1 .. Len(ghost) : wire'[k] = Noise \/ wire'[k] = ghost[k]
    BY <1>2, <1>3, <2>1 DEF Undamaged
  <2>3. PICK a : a = [k \in 1 .. Len(ghost) |-> k]
    OBVIOUS
  <2>4. Places(a, ghost, ghost)
    BY <2>3 DEF Places
  <2>5. QED
    BY <1>1, <1>3, <2>1, <2>2, <2>4, GhostKept
<1>7. Leaves(ghost, ghost, {})
  BY DEF Leaves
<1>8. IsFiniteSet(h) /\ Cardinality(h) <= spoiled + 1
  BY <1>3, <1>4, HitCounted
<1>9. /\ {} \subseteq {ghost[i]} /\ open \in SUBSET (open \cup {ghost[i]}) /\ open \subseteq open
      /\ {} \subseteq open
      /\ debt \in Nat /\ Cardinality(eaten) + Cardinality(open) + debt <= dropped'
      /\ phase = "body" => Covered(debt, ghost)
  BY <1>1, <1>3 DEF Counted, Debts
<1>10. Account(h, eaten, open, debt, ghost)'
  BY <1>5, <1>6, <1>7, <1>8, <1>9, GhostSpoiled
<1>11. QED
  BY <1>1, <1>10 DEF LossInv

\* A byte that is put in costs the frame whose byte is there.
LEMMA InsertLoss ==
  ASSUME IInv, Spoil, NEW i \in 1 .. Len(wire), InsertByte(i),
         NEW hit, NEW eaten, NEW open, NEW debt, NEW ghost,
         Account(hit, eaten, open, debt, ghost)
  PROVE  LossInv'
<1>1. /\ wire \in Seq(Byte) /\ Noise \in Byte /\ ghost \in Seq(Byte) /\ Len(ghost) = Len(wire)
      /\ UNCHANGED <<sent, window, phase, head, body, delivered>>
      /\ dropped' = dropped /\ IInv' /\ body \in Seq(Byte)
  BY SpoilStep DEF IInv, TypeOK, Spoil, InsertByte, Byte, Account, Undamaged
<1>2. /\ Counted(hit, eaten, open, debt) /\ NoneForgotten(hit, eaten) /\ Undamaged(ghost)
      /\ Debts(debt, ghost)
  BY DEF Account
<1>3. wire' \in Seq(Byte) /\ With(wire', wire, i, Noise)
  <2>1. wire' = SubSeq(wire, 1, i - 1) \o <<Noise>> \o SubSeq(wire, i, Len(wire))
    BY DEF InsertByte
  <2>2. QED
    BY <1>1, <2>1, PutIn
<1>4. PICK g \in Seq(Byte) : With(g, ghost, i, Noise)
  <2>1. i \in 1 .. Len(ghost)
    BY <1>1
  <2>2. PICK g : g = SubSeq(ghost, 1, i - 1) \o <<Noise>> \o SubSeq(ghost, i, Len(ghost))
    OBVIOUS
  <2>3. g \in Seq(Byte) /\ With(g, ghost, i, Noise)
    BY <1>1, <2>1, <2>2, PutIn
  <2>4. QED
    BY <2>3
<1>5. /\ Len(wire') = Len(wire) + 1 /\ Len(g) = Len(wire) + 1 /\ Len(wire) \in Nat
      /\ wire'[i] = Noise /\ g[i] = Noise
      /\ \A k \in Int : 1 <= k /\ k < i => wire'[k] = wire[k] /\ g[k] = ghost[k]
      /\ \A k \in Int : i < k /\ k <= Len(wire) + 1 => wire'[k] = wire[k - 1] /\ g[k] = ghost[k - 1]
  <2>1. /\ Len(wire') = Len(wire) + 1 /\ wire'[i] = Noise
        /\ \A k \in Int : 1 <= k /\ k < i => wire'[k] = wire[k]
        /\ \A k \in Int : i < k /\ k <= Len(wire) + 1 => wire'[k] = wire[k - 1]
    BY <1>3 DEF With
  <2>2. /\ Len(g) = Len(wire) + 1 /\ g[i] = Noise
        /\ \A k \in Int : 1 <= k /\ k < i => g[k] = ghost[k]
        /\ \A k \in Int : i < k /\ k <= Len(wire) + 1 => g[k] = ghost[k - 1]
    BY <1>1, <1>4 DEF With
  <2>3. Len(wire) \in Nat
    BY <1>1
  <2>4. QED
    BY <2>1, <2>2, <2>3
<1>6. PICK h : h = hit \cup {wire[i].frame}
  OBVIOUS
<1>7. NoneForgotten(h, eaten)'
  <2>1. Moved(wire', wire, i, 1)
    <3>1. ASSUME NEW k \in 1 .. Len(wire), k > i PROVE wire'[k + 1] = wire[k]
      <4>1. PICK l : l = k + 1
        OBVIOUS
      <4>2. l \in Int /\ i < l /\ l <= Len(wire) + 1 /\ l - 1 = k
        BY <1>5, <3>1, <4>1
      <4>3. wire'[l] = wire[l - 1]
        BY <1>5, <4>2
      <4>4. QED
        BY <4>1, <4>2, <4>3
    <3>2. \A k \in 1 .. Len(wire) : k < i => wire'[k] = wire[k]
      BY <1>5
    <3>3. QED
      BY <1>5, <3>1, <3>2 DEF Moved
  <2>2. 1 \in {-1, 0, 1}
    OBVIOUS
  <2>3. QED
    BY <1>2, <1>3, <1>6, <2>1, <2>2, OthersUnhit
<1>8. ASSUME NEW k \in 1 .. Len(g)
      PROVE  \/ k = i
             \/ k < i /\ k \in 1 .. Len(ghost) /\ g[k] = ghost[k] /\ wire'[k] = wire[k]
             \/ k > i /\ k - 1 \in 1 .. Len(ghost) /\ g[k] = ghost[k - 1] /\ wire'[k] = wire[k - 1]
  <2>1. CASE k < i
    BY <1>1, <1>5, <2>1
  <2>2. CASE k > i
    BY <1>1, <1>5, <2>2
  <2>3. QED
    BY <2>1, <2>2
<1>9. Undamaged(g)'
  <2>1. ASSUME NEW k \in 1 .. Len(g) PROVE wire'[k] = Noise \/ wire'[k] = g[k]
    BY <1>2, <1>5, <1>8 DEF Undamaged
  <2>2. PICK a : a = [k \in 1 .. Len(g) |-> IF k < i THEN k ELSE k - 1]
    OBVIOUS
  <2>3. Places(a, g, ghost)
    <3>1. ASSUME NEW k \in 1 .. Len(g), g[k] # Noise
          PROVE  a[k] \in 1 .. Len(ghost) /\ g[k] = ghost[a[k]]
      BY <1>5, <1>8, <2>2, <3>1
    <3>2. ASSUME NEW j \in 1 .. Len(g), NEW k \in 1 .. Len(g), j < k, j # i, k # i
          PROVE  a[j] < a[k]
      BY <1>1, <2>2, <3>2
    <3>3. QED
      BY <1>5, <3>1, <3>2 DEF Places
  <2>4. UNCHANGED sent /\ Len(g) = Len(wire')
    BY <1>1, <1>5
  <2>5. QED
    BY <1>2, <2>1, <2>3, <2>4, GhostKept
<1>10. Leaves(g, ghost, {})
  <2>1. ASSUME NEW q \in 1 .. Len(ghost) PROVE \E k \in 1 .. Len(g) : g[k] = ghost[q]
    <3>1. CASE q < i
      BY <1>1, <1>5, <3>1
    <3>2. CASE q >= i
      <4>1. PICK l : l = q + 1
        OBVIOUS
      <4>2. l \in 1 .. Len(g) /\ i < l /\ l <= Len(wire) + 1 /\ l - 1 = q
        BY <1>1, <1>5, <3>2, <4>1
      <4>3. QED
        BY <1>5, <4>2
    <3>3. QED
      BY <3>1, <3>2
  <2>2. ASSUME NEW k \in 1 .. Len(g) PROVE g[k] = Noise \/ \E q \in 1 .. Len(ghost) : ghost[q] = g[k]
    BY <1>5, <1>8
  <2>3. QED
    BY <2>1, <2>2 DEF Leaves
<1>11. ASSUME phase = "body" PROVE Covered(debt, g)
  <2>1. head \in 1 .. Len(sent) /\ sent[head] \in Frames
    BY <1>11 DEF IInv, TypeOK
  <2>2. ReadLen(sent[head]) \in Nat /\ Len(body) \in Nat /\ debt \in Nat
    BY <1>1, <1>2, <2>1, ReadLenType DEF Counted
  <2>3. \A m \in 1 .. Len(ghost) + 1 : NoLater(ghost, m) =>
          ReadLen(sent[head]) - Len(body) <= (m - 1) + debt
    BY <1>2, <1>11 DEF Debts, Covered
  <2>4. ASSUME NEW m \in 1 .. Len(g) + 1, NoLater(g, m)
        PROVE  ReadLen(sent[head]) - Len(body) <= (m - 1) + debt
    <3>1. CASE m < i
      <4>1. NoLater(ghost, m) /\ m \in 1 .. Len(ghost) + 1
        BY <1>1, <1>5, <2>4, <3>1 DEF NoLater
      <4>2. QED
        BY <2>3, <4>1
    <3>2. CASE m > i
      <4>1. PICK l : l = m - 1
        OBVIOUS
      <4>2. l \in 1 .. Len(ghost) + 1 /\ m = l + 1 /\ Len(ghost) + 1 = Len(g) /\ i < m
        BY <1>1, <1>5, <3>2, <4>1
      <4>3. m <= Len(g) => g[m] = ghost[l]
        BY <1>5, <4>1, <4>2
      <4>4. NoLater(ghost, l)
        BY <1>5, <2>4, <4>2, <4>3 DEF NoLater
      <4>5. ReadLen(sent[head]) - Len(body) <= (l - 1) + debt
        BY <2>3, <4>2, <4>4
      <4>6. QED
        BY <2>2, <4>2, <4>5
    <3>3. CASE m = i
      BY <1>5, <2>4, <3>3 DEF NoLater
    <3>4. QED
      BY <1>5, <3>1, <3>2, <3>3
  <2>5. QED
    BY <2>4 DEF Covered
<1>12. IsFiniteSet(h) /\ Cardinality(h) <= spoiled + 1
  BY <1>2, <1>6, HitCounted
<1>13. /\ {} \subseteq {ghost[i]} /\ open \in SUBSET (open \cup {ghost[i]}) /\ open \subseteq open
       /\ {} \subseteq open
       /\ debt \in Nat /\ Cardinality(eaten) + Cardinality(open) + debt <= dropped'
  BY <1>1, <1>2 DEF Counted
<1>14. Account(h, eaten, open, debt, g)'
  BY <1>7, <1>9, <1>10, <1>11, <1>12, <1>13, GhostSpoiled
<1>15. QED
  BY <1>1, <1>14 DEF LossInv

\* A fault on the line.
LEMMA SpoilLoss == LossInv /\ Spoil => LossInv'
<1> SUFFICES ASSUME LossInv, Spoil PROVE LossInv'
  OBVIOUS
<1>1. PICK hit, eaten, open, debt, ghost : Account(hit, eaten, open, debt, ghost)
  BY DEF LossInv
<1>2. IInv
  BY DEF LossInv
<1>3. PICK i \in 1 .. Len(wire) : DropByte(i) \/ DamageByte(i) \/ InsertByte(i)
  BY DEF Spoil
<1>4. CASE DropByte(i)
  BY <1>1, <1>2, <1>4, DropLoss
<1>5. CASE DamageByte(i)
  BY <1>1, <1>2, <1>5, DamageLoss
<1>6. CASE InsertByte(i)
  BY <1>1, <1>2, <1>6, InsertLoss
<1>7. QED
  BY <1>3, <1>4, <1>5, <1>6

\* g is s without its first byte.
Rest(g, s) ==
  /\ g \in Seq(Byte) /\ Len(s) = Len(g) + 1
  /\ \A k \in 1 .. Len(g) : g[k] = s[k + 1]

LEMMA TailRest ==
  ASSUME NEW s \in Seq(Byte), s # <<>>
  PROVE  Rest(Tail(s), s)
BY DEF Rest

\* What reading a byte leaves of ghost.
LEMMA GhostRest ==
  ASSUME IInv, wire # <<>>, wire' = Tail(wire), UNCHANGED sent,
         NEW ghost, Undamaged(ghost), NEW g, g = Tail(ghost)
  PROVE  /\ Rest(wire', wire) /\ Rest(g, ghost) /\ Len(g) = Len(wire')
         /\ Undamaged(g)'
<1>1. wire \in Seq(Byte) /\ ghost \in Seq(Byte) /\ Len(ghost) = Len(wire) /\ ghost # <<>>
  BY DEF IInv, TypeOK, Undamaged
<1>2. Rest(wire', wire) /\ Rest(g, ghost)
  BY <1>1, TailRest
<1>3. /\ g \in Seq(Byte) /\ Len(g) = Len(wire') /\ Len(g) \in Nat
      /\ \A k \in 1 .. Len(g) :
           k + 1 \in 1 .. Len(ghost) /\ g[k] = ghost[k + 1] /\ wire'[k] = wire[k + 1]
  BY <1>1, <1>2 DEF Rest
<1>4. \A k \in 1 .. Len(g) : wire'[k] = Noise \/ wire'[k] = g[k]
  BY <1>3 DEF Undamaged
<1>5. PICK a : a = [k \in 1 .. Len(g) |-> k + 1]
  OBVIOUS
<1>6. Places(a, g, ghost)
  BY <1>3, <1>5 DEF Places
<1>7. QED
  BY <1>2, <1>3, <1>4, <1>6, GhostKept

\* The payload of a frame whose header has yet to come is behind its header.
LEMMA MissingRest ==
  ASSUME IInv, NEW ghost, Undamaged(ghost), NEW open, MissingKnown(open, ghost),
         NEW g, Rest(g, ghost)
  PROVE  MissingKnown(open, g)
<1> SUFFICES ASSUME NEW n \in 1 .. Len(sent), NEW k \in 1 .. Len(g), g[k] = ByteOf(n, HeadLen),
                    NEW p \in HeadLen + 1 .. FrameLen(sent[n])
             PROVE  ByteOf(n, p) \in open \/ \E q \in 1 .. Len(g) : g[q] = ByteOf(n, p)
  BY DEF MissingKnown
<1>1. /\ k + 1 \in 1 .. Len(ghost) /\ ghost[k + 1] = ByteOf(n, HeadLen)
      /\ Len(g) \in Nat /\ Len(ghost) = Len(g) + 1
  BY DEF Rest
<1>2. ByteOf(n, p) \in open \/ \E q \in 1 .. Len(ghost) : ghost[q] = ByteOf(n, p)
  BY <1>1 DEF MissingKnown
<1>3. ASSUME NEW q \in 1 .. Len(ghost), ghost[q] = ByteOf(n, p)
      PROVE  q - 1 \in 1 .. Len(g) /\ g[q - 1] = ghost[q]
  <2>1. ~Before(ByteOf(n, p), ByteOf(n, HeadLen))
    BY LengthAssumption DEF Before, ByteOf
  <2>2. ghost[q] # Noise /\ ghost[k + 1] # Noise
    BY <1>1, <1>3, ByteOfNotNoise
  <2>3. ~(q < k + 1)
    BY <1>1, <1>3, <2>1, <2>2 DEF Undamaged
  <2>4. q - 1 \in 1 .. Len(g) /\ (q - 1) + 1 = q
    BY <1>1, <2>3
  <2>5. QED
    BY <2>4 DEF Rest
<1>4. QED
  BY <1>2, <1>3

\* Another frame eaten is paid by the byte that was dropped before it.
LEMMA OneMoreEaten ==
  ASSUME IInv, NEW hit, NEW eaten, NEW open, NEW debt, Counted(hit, eaten, open, debt), debt > 0,
         NEW n, NEW e, e = eaten \cup {n}, NEW d, d = debt - 1, UNCHANGED <<spoiled, dropped>>
  PROVE  Counted(hit, e, open, d)'
<1>1. /\ IsFiniteSet(eaten) /\ Cardinality(eaten) \in Nat /\ Cardinality(open) \in Nat
      /\ debt \in Nat /\ dropped \in Nat
      /\ Cardinality(eaten) + Cardinality(open) + debt <= dropped
  BY CountTypes DEF IInv, Counted
<1>2. /\ IsFiniteSet(e)
      /\ Cardinality(e) = Cardinality(eaten) \/ Cardinality(e) = Cardinality(eaten) + 1
  BY <1>1, FS_AddElement
<1>3. d \in Nat /\ Cardinality(e) + Cardinality(open) + d <= dropped
  BY <1>1, <1>2
<1>4. QED
  BY <1>2, <1>3 DEF Counted

\* A byte of a payload is of the frame recv() is in, or one that was dropped lets it be
\* of a later frame, which is then eaten.
LEMMA BodyAhead ==
  ASSUME IInv, BodyByte, window = <<>>, NEW ghost, Undamaged(ghost),
         \A k \in 1 .. Len(ghost) : ghost[k] # Noise => Before(ByteOf(head, HeadLen), ghost[k]),
         NEW n \in 1 .. Len(sent), NEW j \in Nat, Ahead(n, j)
  PROVE  \/ ghost[1] # Noise /\ ghost[1].frame > head /\ ghost[1].frame = n
         \/ \E l \in Nat : Ahead(n, l)'
<1>1. /\ wire \in Seq(Byte) /\ wire # <<>> /\ Rest(wire', wire) /\ sent[n] \in Frames
      /\ UNCHANGED <<sent, window>> /\ head \in 1 .. Len(sent) /\ Len(sent) \in Nat
  BY TailRest DEF IInv, TypeOK, BodyByte
<1>2. PICK L : L = FrameLen(sent[n])
  OBVIOUS
<1>3. L \in Nat /\ L >= 1 /\ FrameLen(sent[n])' = L /\ HeadLen \in Nat \ {0} /\ L >= HeadLen
  BY <1>1, <1>2, BodyLenType, LengthAssumption DEF FrameLen, BodyLen
<1>4. j + L <= Len(wire) /\ \A p \in 1 .. L : wire[j + p] = ByteOf(n, p)
  <2>1. j + L <= 0 + Len(wire) /\ \A p \in 1 .. L : Spot(j + p) = ByteOf(n, p)
    BY <1>2 DEF Ahead
  <2>2. ASSUME NEW p \in 1 .. L PROVE Spot(j + p) = wire[j + p]
    <3>1. ~(j + p <= 0) /\ (j + p) - 0 = j + p
      BY <1>3
    <3>2. Len(window) = 0
      OBVIOUS
    <3>3. QED
      BY <3>1, <3>2 DEF Spot
  <2>3. j + L <= Len(wire)
    BY <1>1, <1>3, <2>1
  <2>4. \A p \in 1 .. L : wire[j + p] = ByteOf(n, p)
    BY <2>1, <2>2
  <2>5. QED
    BY <2>3, <2>4
<1>5. CASE j = 0
  <2>1. wire[1] = ByteOf(n, 1)
    BY <1>3, <1>4, <1>5
  <2>2. ghost[1] = ByteOf(n, 1) /\ 1 \in 1 .. Len(ghost) /\ ghost[1] # Noise
    BY <1>1, <2>1, ByteOfNotNoise DEF Undamaged
  <2>3. Before(ByteOf(head, HeadLen), ByteOf(n, 1))
    BY <2>2
  <2>4. head < n
    BY <1>1, <1>3, <2>3 DEF Before, ByteOf
  <2>5. QED
    BY <2>2, <2>4 DEF ByteOf
<1>6. CASE j > 0
  <2>1. PICK l : l = j - 1
    OBVIOUS
  <2>2. l \in Nat /\ l + 1 = j
    BY <1>6, <2>1
  <2>3. Len(window') = 0 /\ l + HeadLen > 0 /\ l + L <= 0 + Len(wire')
    BY <1>1, <1>3, <1>4, <2>2 DEF Rest
  <2>4. ASSUME NEW p \in 1 .. L PROVE Spot(l + p)' = ByteOf(n, p)
    <3>1. ~(l + p <= 0) /\ (l + p) - 0 = l + p /\ l + p \in 1 .. Len(wire') /\ (l + p) + 1 = j + p
      BY <1>1, <1>3, <1>4, <2>2 DEF Rest
    <3>2. Spot(l + p)' = wire'[l + p]
      BY <2>3, <3>1 DEF Spot
    <3>3. wire'[l + p] = wire[j + p]
      BY <1>1, <3>1 DEF Rest
    <3>4. QED
      BY <1>4, <3>2, <3>3
  <2>5. Ahead(n, l)'
    BY <1>3, <2>3, <2>4 DEF Ahead
  <2>6. QED
    BY <2>2, <2>5
<1>7. QED
  BY <1>5, <1>6

\* recv() takes nothing back.
LEMMA ReturnedStays ==
  ASSUME TypeOK, NEW x \in 1 .. Len(sent),
         delivered' = delivered \/ delivered' = Append(delivered, x),
         NEW n, Returned(n)
  PROVE  Returned(n)'
<1>1. PICK k \in 1 .. Len(delivered) : delivered[k] = n
  BY DEF Returned
<1>2. delivered \in Seq(1 .. Len(sent))
  BY DEF TypeOK
<1>3. ASSUME NEW S, NEW s \in Seq(S), NEW e \in S
      PROVE  \A i \in 1 .. Len(s) : i \in 1 .. Len(Append(s, e)) /\ Append(s, e)[i] = s[i]
  OBVIOUS
<1>4. k \in 1 .. Len(delivered') /\ delivered'[k] = delivered[k]
  <2>1. CASE delivered' = delivered
    BY <2>1
  <2>2. CASE delivered' = Append(delivered, x)
    BY <1>2, <1>3, <2>2
  <2>3. QED
    BY <2>1, <2>2
<1>5. QED
  BY <1>1, <1>4 DEF Returned

\* The frame recv() is in stays so until it is returned.
LEMMA BodyReading ==
  ASSUME IInv, BodyByte, Len(body) < ReadLen(sent[head]),
         NEW n \in 1 .. Len(sent), Wanted(sent[n]), BeingRead(n)
  PROVE  Returned(n)' \/ BeingRead(n)'
<1>1. /\ wire \in Seq(Byte) /\ wire # <<>> /\ Rest(wire', wire) /\ sent[n] \in Frames /\ head = n
      /\ UNCHANGED sent /\ body \in Seq(Byte) /\ wire[1] \in Byte /\ delivered \in Seq(1 .. Len(sent))
  BY TailRest DEF IInv, TypeOK, BodyByte, BeingRead
<1>2. PICK R, c : R = BodyLen(sent[n]) /\ c = Len(body)
  OBVIOUS
<1>3. PICK b : b = Append(body, wire[1])
  OBVIOUS
<1>4. /\ R \in Nat /\ R = ReadLen(sent[n]) /\ c \in Nat /\ c < R /\ BodyLen(sent[n])' = R
      /\ HeadLen \in Nat
  BY <1>1, <1>2, BodyLenType, ReadLenType, LengthAssumption DEF BodyLen
<1>5. /\ R <= c + Len(wire)
      /\ \A p \in 1 .. c : body[p] = ByteOf(n, HeadLen + p)
      /\ \A p \in 1 .. R - c : wire[p] = ByteOf(n, HeadLen + c + p)
  BY <1>2 DEF BeingRead
<1>6. /\ b \in Seq(Byte) /\ Len(b) = c + 1 /\ b[c + 1] = wire[1]
      /\ \A p \in 1 .. c : b[p] = body[p]
  BY <1>1, <1>2, <1>3
<1>7. \A p \in 1 .. c + 1 : b[p] = ByteOf(n, HeadLen + p)
  <2>1. 1 \in 1 .. R - c
    BY <1>4
  <2>2. b[c + 1] = ByteOf(n, HeadLen + c + 1) /\ HeadLen + c + 1 = HeadLen + (c + 1)
    BY <1>4, <1>5, <1>6, <2>1
  <2>3. ASSUME NEW p \in 1 .. c + 1 PROVE b[p] = ByteOf(n, HeadLen + p)
    <3>1. CASE p = c + 1
      BY <2>2, <3>1
    <3>2. CASE p # c + 1
      <4>1. p \in 1 .. c
        BY <1>4, <3>2
      <4>2. QED
        BY <1>5, <1>6, <4>1
    <3>3. QED
      BY <3>1, <3>2
  <2>4. QED
    BY <2>3
<1>8. CASE c + 1 < R
  <2>1. body' = b /\ phase' = "body" /\ head' = n
    BY <1>1, <1>3, <1>4, <1>6, <1>8 DEF BodyByte
  <2>2. R <= (c + 1) + Len(wire')
    BY <1>1, <1>4, <1>5 DEF Rest
  <2>3. ASSUME NEW p \in 1 .. R - (c + 1) PROVE wire'[p] = ByteOf(n, HeadLen + (c + 1) + p)
    <3>1. /\ p \in 1 .. Len(wire') /\ p + 1 \in 1 .. R - c
          /\ HeadLen + c + (p + 1) = HeadLen + (c + 1) + p
      BY <1>1, <1>4, <1>5 DEF Rest
    <3>2. wire'[p] = wire[p + 1]
      BY <1>1, <3>1 DEF Rest
    <3>3. QED
      BY <1>5, <3>1, <3>2
  <2>4. QED
    BY <1>4, <1>6, <1>7, <2>1, <2>2, <2>3 DEF BeingRead
<1>9. CASE c + 1 = R
  <2>1. b = BodyBytes(n)
    <3>1. /\ n \in Nat \ {0} /\ HeadLen + 1 \in Nat \ {0}
          /\ HeadLen + R = (HeadLen + 1) + R - 1
      BY <1>4 DEF IInv, TypeOK
    <3>2. Stretch(BodyBytes(n), n, HeadLen + 1, R)
      BY <1>2, <1>4, <3>1, BytesShape DEF BodyBytes
    <3>3. \A p \in 1 .. R : (HeadLen + 1) + p - 1 = HeadLen + p
      BY <1>4
    <3>4. /\ BodyBytes(n) \in Seq(Byte) /\ Len(BodyBytes(n)) = R
          /\ \A p \in 1 .. R : BodyBytes(n)[p] = ByteOf(n, HeadLen + p)
      BY <3>2, <3>3 DEF Stretch, ByteOf
    <3>5. ASSUME NEW s \in Seq(Byte), NEW t \in Seq(Byte), Len(s) = Len(t),
                 \A p \in 1 .. Len(s) : s[p] = t[p]
          PROVE  s = t
      BY <3>5
    <3>6. QED
      BY <1>6, <1>7, <1>9, <3>4, <3>5
  <2>2. Finish(n)
    BY <1>1, <1>3, <1>4, <1>6, <1>9, <2>1 DEF BodyByte
  <2>3. delivered' = Append(delivered, n)
    BY <2>2 DEF Finish, Wanted
  <2>4. Len(delivered) + 1 \in 1 .. Len(delivered') /\ delivered'[Len(delivered) + 1] = n
    BY <1>1, <2>3
  <2>5. QED
    BY <2>4 DEF Returned
<1>10. QED
  BY <1>4, <1>8, <1>9

\* The payload is still covered when a byte of it has been read, at the cost of one of the
\* bytes dropped when it was of a later frame.
LEMMA CoverRest ==
  ASSUME IInv, BodyByte, NEW ghost, Undamaged(ghost), NEW g, Rest(g, ghost),
         NEW debt \in Nat, Covered(debt, ghost), Len(body') = Len(body) + 1, head' = head,
         NEW d, d = debt \/ (d = debt - 1 /\ ghost[1] # Noise /\ ghost[1].frame > head)
  PROVE  Covered(d, g)'
<1>1. /\ UNCHANGED sent /\ head \in 1 .. Len(sent) /\ sent[head] \in Frames
      /\ Len(body) \in Nat /\ Len(g) \in Nat /\ Len(ghost) = Len(g) + 1
  BY DEF IInv, TypeOK, BodyByte, Rest
<1>2. PICK R, c : R = ReadLen(sent[head]) /\ c = Len(body)
  OBVIOUS
<1>3. R \in Nat /\ c \in Nat /\ ReadLen(sent[head])' = R /\ Len(body') = c + 1
  BY <1>1, <1>2, ReadLenType DEF ReadLen, ExtraSize
<1>4. \A m \in 1 .. Len(ghost) + 1 : NoLater(ghost, m) => R - c <= (m - 1) + debt
  BY <1>2 DEF Covered
<1>5. ASSUME NEW m \in 1 .. Len(g) + 1, NoLater(g, m)' PROVE R - (c + 1) <= (m - 1) + d
  <2>1. CASE d = debt
    <3>1. PICK l : l = m + 1
      OBVIOUS
    <3>2. l \in 1 .. Len(ghost) + 1 /\ l - 1 = m /\ (l <= Len(ghost) => m <= Len(g))
      BY <1>1, <3>1
    <3>3. l <= Len(ghost) => ghost[l] = g[m]
      BY <1>1, <3>1, <3>2 DEF Rest
    <3>4. NoLater(ghost, l)
      BY <1>5, <3>2, <3>3 DEF NoLater
    <3>5. R - c <= (l - 1) + debt
      BY <1>4, <3>2, <3>4
    <3>6. QED
      BY <1>1, <1>3, <2>1, <3>2, <3>5
  <2>2. CASE d = debt - 1 /\ ghost[1] # Noise /\ ghost[1].frame > head
    <3>1. NoLater(ghost, 1) /\ 1 \in 1 .. Len(ghost) + 1
      BY <1>1, <2>2 DEF NoLater
    <3>2. R - c <= (1 - 1) + debt
      BY <1>4, <3>1
    <3>3. QED
      BY <1>1, <1>3, <2>2, <3>2
  <2>3. QED
    BY <2>1, <2>2
<1>6. QED
  BY <1>3, <1>5 DEF Covered

LEMMA BodyLoss == LossInv /\ BodyByte => LossInv'
<1> SUFFICES ASSUME LossInv, BodyByte PROVE LossInv'
  OBVIOUS
<1>1. PICK hit, eaten, open, debt, ghost : Account(hit, eaten, open, debt, ghost)
  BY DEF LossInv
<1>2. /\ Counted(hit, eaten, open, debt) /\ NoneForgotten(hit, eaten) /\ Undamaged(ghost)
      /\ MissingKnown(open, ghost) /\ IInv
  BY <1>1 DEF Account, LossInv
<1>3. IInv'
  BY <1>2, BodyByteStep
<1>4. /\ phase = "body" /\ wire # <<>> /\ wire' = Tail(wire)
      /\ UNCHANGED <<sent, window, spoiled, dropped>>
      /\ debt \in Nat /\ body \in Seq(Byte) /\ wire[1] \in Byte /\ delivered \in Seq(1 .. Len(sent))
  BY <1>2 DEF BodyByte, Counted, IInv, TypeOK
<1>5. /\ window = <<>> /\ Len(body) < ReadLen(sent[head]) /\ Covered(debt, ghost)
      /\ \A k \in 1 .. Len(ghost) : ghost[k] # Noise => Before(ByteOf(head, HeadLen), ghost[k])
  BY <1>1, <1>4 DEF Account, Debts
<1>6. PICK g : g = Tail(ghost)
  OBVIOUS
<1>7. Rest(wire', wire) /\ Rest(g, ghost) /\ Len(g) = Len(wire') /\ Undamaged(g)'
  BY <1>2, <1>4, <1>6, GhostRest
<1>8. MissingKnown(open, g)'
  <2>1. MissingKnown(open, g)
    BY <1>2, <1>7, MissingRest
  <2>2. QED
    BY <1>4, <2>1 DEF MissingKnown, FrameLen, BodyLen
<1>9. PICK late : late = (ghost[1] # Noise /\ ghost[1].frame > head)
  OBVIOUS
<1>10. PICK f, d : IF late THEN f = eaten \cup {ghost[1].frame} /\ d = debt - 1
                           ELSE f = eaten /\ d = debt
  OBVIOUS
<1>11. late => debt > 0
  <2> SUFFICES ASSUME late PROVE debt > 0
    OBVIOUS
  <2>1. NoLater(ghost, 1) /\ 1 \in 1 .. Len(ghost) + 1
    <3>1. ghost[1] # Noise /\ ghost[1].frame > head
      BY <1>9
    <3>2. Len(ghost) \in Nat
      BY <1>2 DEF Undamaged
    <3>3. QED
      BY <3>1, <3>2 DEF NoLater
  <2>2. ReadLen(sent[head]) - Len(body) <= (1 - 1) + debt
    BY <1>5, <2>1 DEF Covered
  <2>3. head \in 1 .. Len(sent) /\ sent[head] \in Frames
    BY <1>2, <1>4 DEF IInv, TypeOK
  <2>4. ReadLen(sent[head]) \in Nat /\ Len(body) \in Nat
    BY <1>4, <2>3, ReadLenType
  <2>5. QED
    BY <1>4, <1>5, <2>2, <2>4
<1>12. Counted(hit, f, open, d)'
  <2>1. CASE late
    BY <1>2, <1>4, <1>10, <1>11, <2>1, OneMoreEaten
  <2>2. CASE ~late
    BY <1>2, <1>4, <1>10, <2>2 DEF Counted
  <2>3. QED
    BY <2>1, <2>2
<1>13. NoneForgotten(hit, f)'
  <2> SUFFICES ASSUME NEW m \in 1 .. Len(sent), Wanted(sent[m])
               PROVE  \/ Returned(m)' \/ m \in hit \/ m \in f \/ BeingRead(m)'
                      \/ \E j \in Nat : Ahead(m, j)'
    BY <1>4 DEF NoneForgotten
  <2>1. \/ Returned(m) \/ m \in hit \/ m \in eaten \/ BeingRead(m)
        \/ \E j \in Nat : Ahead(m, j)
    BY <1>2 DEF NoneForgotten
  <2>2. Returned(m) => Returned(m)'
    <3>1. delivered' = delivered \/ \E x \in 1 .. Len(sent) : delivered' = Append(delivered, x)
      <4>1. head \in 1 .. Len(sent)
        BY <1>2, <1>4 DEF IInv, TypeOK
      <4>2. QED
        BY <4>1 DEF BodyByte, Finish
    <3>2. QED
      BY <1>2, <1>4, <3>1, ReturnedStays DEF IInv
  <2>3. m \in eaten => m \in f
    BY <1>10
  <2>4. BeingRead(m) => Returned(m)' \/ BeingRead(m)'
    BY <1>2, <1>5, BodyReading
  <2>5. ASSUME NEW j \in Nat, Ahead(m, j) PROVE m \in f \/ \E l \in Nat : Ahead(m, l)'
    <3>1. \/ ghost[1] # Noise /\ ghost[1].frame > head /\ ghost[1].frame = m
          \/ \E l \in Nat : Ahead(m, l)'
      BY <1>2, <1>5, <2>5, BodyAhead
    <3>2. QED
      BY <1>9, <1>10, <3>1
  <2>6. QED
    BY <2>1, <2>2, <2>3, <2>4, <2>5
<1>14. Debts(d, g)'
  <2> SUFFICES ASSUME phase' = "body"
               PROVE  /\ window' = <<>> /\ Len(body') < ReadLen(sent[head])'
                      /\ \A k \in 1 .. Len(g) : g[k] # Noise => Before(ByteOf(head', HeadLen), g[k])
                      /\ Covered(d, g)'
    BY DEF Debts
  <2>1. Len(Append(body, wire[1])) < ReadLen(sent[head]) /\ body' = Append(body, wire[1])
        /\ head' = head
    BY DEF BodyByte, Finish
  <2>2. Len(body') = Len(body) + 1
    BY <1>4, <2>1
  <2>3. ReadLen(sent[head])' = ReadLen(sent[head])
    BY <1>4, <2>1 DEF ReadLen, ExtraSize
  <2>4. Covered(d, g)'
    BY <1>2, <1>4, <1>5, <1>7, <1>9, <1>10, <2>1, <2>2, CoverRest
  <2>5. ASSUME NEW k \in 1 .. Len(g), g[k] # Noise PROVE Before(ByteOf(head, HeadLen), g[k])
    <3>1. g[k] = ghost[k + 1] /\ k + 1 \in 1 .. Len(ghost)
      BY <1>7 DEF Rest
    <3>2. QED
      BY <1>5, <2>5, <3>1
  <2>6. QED
    BY <1>4, <1>5, <2>1, <2>3, <2>4, <2>5
<1>15. Account(hit, f, open, d, g)'
  BY <1>7, <1>8, <1>12, <1>13, <1>14 DEF Account
<1>16. QED
  BY <1>3, <1>15 DEF LossInv

\* The window after a byte is the end of what it was with that byte behind it.
SlidBy(w, s) ==
  /\ w \in Seq(Byte) /\ Len(w) <= HeadLen /\ Len(w) + s = Len(window) + 1
  /\ s = 1 => Len(window) = HeadLen
  /\ \A k \in 1 .. Len(w) : w[k] = Spot(k + s)

LEMMA SlideSpot ==
  ASSUME TypeOK, wire # <<>>, NEW w, w = Slide(window, wire[1])
  PROVE  \E s \in {0, 1} : SlidBy(w, s)
<1>1. /\ window \in Seq(Byte) /\ wire[1] \in Byte /\ HeadLen \in Nat \ {0}
      /\ Len(window) \in Nat /\ Len(window) <= HeadLen
  BY LengthAssumption DEF TypeOK
<1>2. ASSUME NEW u \in Seq(Byte), NEW m \in Nat, m = Len(u), NEW b \in Byte
      PROVE  /\ Append(u, b) \in Seq(Byte) /\ Len(Append(u, b)) = m + 1
             /\ Append(u, b)[m + 1] = b
             /\ \A k \in 1 .. m : Append(u, b)[k] = u[k]
  BY <1>2
<1>3. CASE Len(window) = HeadLen
  <2>1. w = Append(Tail(window), wire[1])
    BY <1>3 DEF Slide
  <2>2. /\ Tail(window) \in Seq(Byte) /\ Len(Tail(window)) = HeadLen - 1
        /\ HeadLen - 1 \in Nat
        /\ \A k \in 1 .. HeadLen - 1 : Tail(window)[k] = window[k + 1]
    BY <1>1, <1>3
  <2>3. PICK m : m = HeadLen - 1
    OBVIOUS
  <2>4. /\ w \in Seq(Byte) /\ Len(w) = m + 1 /\ w[m + 1] = wire[1]
        /\ \A k \in 1 .. m : w[k] = Tail(window)[k]
    BY <1>1, <1>2, <2>1, <2>2, <2>3
  <2>5. ASSUME NEW k \in 1 .. Len(w) PROVE w[k] = Spot(k + 1)
    <3>1. CASE k = HeadLen
      <4>1. ~(k + 1 <= Len(window)) /\ (k + 1) - Len(window) = 1
        BY <1>1, <1>3, <3>1
      <4>2. Spot(k + 1) = wire[1]
        BY <4>1 DEF Spot
      <4>3. w[k] = wire[1]
        BY <1>1, <2>3, <2>4, <3>1
      <4>4. QED
        BY <4>2, <4>3
    <3>2. CASE k # HeadLen
      <4>1. k \in 1 .. m /\ k + 1 <= Len(window)
        BY <1>1, <1>3, <2>3, <2>4, <3>2
      <4>2. w[k] = window[k + 1]
        BY <2>2, <2>3, <2>4, <4>1
      <4>3. QED
        BY <4>1, <4>2 DEF Spot
    <3>3. QED
      BY <3>1, <3>2
  <2>6. Len(w) <= HeadLen /\ Len(w) + 1 = Len(window) + 1
    BY <1>1, <1>3, <2>3, <2>4
  <2>7. QED
    BY <1>3, <2>4, <2>5, <2>6 DEF SlidBy
<1>4. CASE Len(window) # HeadLen
  <2>1. w = Append(window, wire[1])
    BY <1>4 DEF Slide
  <2>2. PICK m : m = Len(window)
    OBVIOUS
  <2>3. m \in Nat
    BY <1>1, <2>2
  <2>4. /\ w \in Seq(Byte) /\ Len(w) = m + 1 /\ w[m + 1] = wire[1]
        /\ \A k \in 1 .. m : w[k] = window[k]
    BY <1>1, <1>2, <2>1, <2>2, <2>3
  <2>5. ASSUME NEW k \in 1 .. Len(w) PROVE w[k] = Spot(k + 0)
    <3>1. CASE k = m + 1
      <4>1. ~(k + 0 <= Len(window)) /\ (k + 0) - Len(window) = 1
        BY <2>2, <2>3, <3>1
      <4>2. QED
        BY <2>4, <3>1, <4>1 DEF Spot
    <3>2. CASE k # m + 1
      <4>1. k \in 1 .. m /\ k + 0 <= Len(window) /\ k + 0 = k
        BY <2>2, <2>3, <2>4, <3>2
      <4>2. QED
        BY <2>4, <4>1 DEF Spot
    <3>3. QED
      BY <3>1, <3>2
  <2>6. Len(w) <= HeadLen /\ Len(w) + 0 = Len(window) + 1
    BY <1>1, <1>4, <2>2, <2>3, <2>4
  <2>7. QED
    BY <2>4, <2>5, <2>6 DEF SlidBy
<1>5. QED
  BY <1>3, <1>4

\* A window with all of a header verifies.
LEMMA HeaderWhole ==
  ASSUME TypeOK, NEW n \in 1 .. Len(sent), NEW w \in Seq(Byte), Len(w) = HeadLen,
         \A p \in 1 .. HeadLen : w[p] = ByteOf(n, p)
  PROVE  w = HeaderBytes(n) /\ Verifies(w)
<1>1. /\ n \in Nat \ {0} /\ 1 \in Nat \ {0} /\ HeadLen \in Nat /\ HeadLen = 1 + HeadLen - 1
  BY LengthAssumption DEF TypeOK
<1>2. Stretch(HeaderBytes(n), n, 1, HeadLen)
  BY <1>1, BytesShape DEF HeaderBytes
<1>3. \A p \in 1 .. HeadLen : 1 + p - 1 = p
  BY <1>1
<1>4. /\ HeaderBytes(n) \in Seq(Byte) /\ Len(HeaderBytes(n)) = HeadLen
      /\ \A p \in 1 .. HeadLen : HeaderBytes(n)[p] = ByteOf(n, p)
  BY <1>2, <1>3 DEF Stretch, ByteOf
<1>5. ASSUME NEW s \in Seq(Byte), NEW t \in Seq(Byte), Len(s) = Len(t),
             \A p \in 1 .. Len(s) : s[p] = t[p]
      PROVE  s = t
  BY <1>5
<1>6. w = HeaderBytes(n)
  BY <1>4, <1>5
<1>7. QED
  BY <1>6 DEF Verifies

\* sync() passes no header: when it has not found one, what was ahead still is.
LEMMA SyncAhead ==
  ASSUME IInv, SyncByte, NEW w, w = Slide(window, wire[1]), ~Verifies(w), window' = w,
         NEW n \in 1 .. Len(sent), NEW j \in Nat, Ahead(n, j)
  PROVE  \E l \in Nat : Ahead(n, l)'
<1>1. /\ wire \in Seq(Byte) /\ wire # <<>> /\ Rest(wire', wire) /\ sent[n] \in Frames
      /\ UNCHANGED sent /\ window \in Seq(Byte) /\ Len(window) <= HeadLen
  BY TailRest DEF IInv, TypeOK, SyncByte
<1>2. PICK s \in {0, 1} : SlidBy(w, s)
  BY SlideSpot DEF IInv, SyncByte
<1>3. PICK L, W, V : L = FrameLen(sent[n]) /\ W = Len(window) /\ V = Len(w)
  OBVIOUS
<1>4. /\ L \in Nat /\ L >= HeadLen /\ FrameLen(sent[n])' = L /\ HeadLen \in Nat \ {0}
      /\ W \in Nat /\ W <= HeadLen /\ Len(window') = V /\ V \in Nat
      /\ V + s = W + 1 /\ V <= HeadLen /\ (s = 1 => W = HeadLen)
      /\ \A k \in 1 .. V : w[k] = Spot(k + s)
      /\ Len(wire) = Len(wire') + 1 /\ Len(wire') \in Nat
  <2>1. L \in Nat /\ L >= HeadLen /\ FrameLen(sent[n])' = L /\ HeadLen \in Nat \ {0}
    BY <1>1, <1>3, BodyLenType, LengthAssumption DEF FrameLen, BodyLen
  <2>2. W \in Nat /\ W <= HeadLen
    BY <1>1, <1>3
  <2>3. /\ Len(window') = V /\ V \in Nat /\ V + s = W + 1 /\ V <= HeadLen /\ (s = 1 => W = HeadLen)
        /\ \A k \in 1 .. V : w[k] = Spot(k + s)
    BY <1>2, <1>3 DEF SlidBy
  <2>4. Len(wire) = Len(wire') + 1 /\ Len(wire') \in Nat
    BY <1>1 DEF Rest
  <2>5. QED
    BY <2>1, <2>2, <2>3, <2>4
<1>5. /\ j + HeadLen > W /\ j + L <= W + Len(wire)
      /\ \A p \in 1 .. L : Spot(j + p) = ByteOf(n, p)
  BY <1>3 DEF Ahead
<1>6. ASSUME NEW k \in Nat, 1 <= k, k <= V + Len(wire') PROVE Spot(k)' = Spot(k + s)
  <2>1. CASE k <= V
    <3>1. Spot(k)' = window'[k] /\ k \in 1 .. V
      BY <1>4, <1>6, <2>1 DEF Spot
    <3>2. QED
      BY <1>4, <3>1
  <2>2. CASE k > V
    <3>1. PICK i : i = k - V
      OBVIOUS
    <3>2. /\ i \in 1 .. Len(wire') /\ ~(k <= V) /\ ~(k + s <= W) /\ (k + s) - W = i + 1
      BY <1>4, <1>6, <2>2, <3>1
    <3>3. Spot(k)' = wire'[i]
      BY <1>4, <3>1, <3>2 DEF Spot
    <3>4. Spot(k + s) = wire[i + 1]
      BY <1>3, <3>2 DEF Spot
    <3>5. QED
      BY <1>1, <3>2, <3>3, <3>4 DEF Rest
  <2>3. QED
    BY <1>4, <1>6, <2>1, <2>2
<1>7. j >= s /\ (j - s) + HeadLen > V
  <2>1. j >= s
    BY <1>4, <1>5
  <2>2. ASSUME ~((j - s) + HeadLen > V) PROVE FALSE
    <3>1. j = s /\ V = HeadLen
      BY <1>4, <1>5, <2>2
    <3>2. ASSUME NEW p \in 1 .. HeadLen PROVE w[p] = ByteOf(n, p)
      <4>1. p \in 1 .. V /\ p \in 1 .. L /\ p + s = j + p
        BY <1>4, <3>1
      <4>2. QED
        BY <1>4, <1>5, <4>1
    <3>3. w \in Seq(Byte) /\ Len(w) = HeadLen
      BY <1>2, <1>3, <3>1 DEF SlidBy
    <3>4. QED
      BY <3>2, <3>3, HeaderWhole DEF IInv
  <2>3. QED
    BY <2>1, <2>2
<1>8. PICK l : l = j - s
  OBVIOUS
<1>9. l \in Nat /\ l + HeadLen > V /\ l + L <= V + Len(wire') /\ l + s = j
  BY <1>4, <1>5, <1>7, <1>8
<1>10. ASSUME NEW p \in 1 .. L PROVE Spot(l + p)' = ByteOf(n, p)
  <2>1. l + p \in Nat /\ 1 <= l + p /\ l + p <= V + Len(wire') /\ (l + p) + s = j + p
    BY <1>4, <1>9
  <2>2. Spot(l + p)' = Spot((l + p) + s)
    BY <1>6, <2>1
  <2>3. QED
    BY <1>5, <2>1, <2>2
<1>11. Ahead(n, l)'
  BY <1>4, <1>9, <1>10 DEF Ahead
<1>12. QED
  BY <1>9, <1>11

\* When sync() returns a header, the frames behind it are still ahead.
LEMMA FoundOthers ==
  ASSUME IInv, SyncByte, NEW n \in 1 .. Len(sent), wire[1] = ByteOf(n, HeadLen), window' = <<>>,
         NEW m \in 1 .. Len(sent), m # n, NEW j \in Nat, Ahead(m, j)
  PROVE  \E l \in Nat : Ahead(m, l)'
<1>1. /\ wire \in Seq(Byte) /\ wire # <<>> /\ Rest(wire', wire) /\ sent[m] \in Frames
      /\ UNCHANGED sent /\ window \in Seq(Byte) /\ Len(wire) = Len(wire') + 1
      /\ Len(wire') \in Nat
  BY TailRest DEF IInv, TypeOK, SyncByte, Rest
<1>2. PICK L, W : L = FrameLen(sent[m]) /\ W = Len(window)
  OBVIOUS
<1>3. /\ L \in Nat /\ L >= HeadLen /\ FrameLen(sent[m])' = L /\ HeadLen \in Nat \ {0}
      /\ W \in Nat /\ Len(window') = 0
  BY <1>1, <1>2, BodyLenType, LengthAssumption DEF FrameLen, BodyLen
<1>4. /\ j + HeadLen > W /\ j + L <= W + Len(wire)
      /\ \A p \in 1 .. L : Spot(j + p) = ByteOf(m, p)
  BY <1>2 DEF Ahead
<1>5. \A p \in 1 .. L : j + p # W + 1
  <2> SUFFICES ASSUME NEW p \in 1 .. L, j + p = W + 1 PROVE FALSE
    OBVIOUS
  <2>1. ~(j + p <= W) /\ (j + p) - W = 1
    BY <1>3
  <2>2. Spot(j + p) = wire[1]
    BY <1>2, <2>1 DEF Spot
  <2>3. ByteOf(m, p) = ByteOf(n, HeadLen)
    BY <1>4, <2>2
  <2>4. QED
    BY <2>3 DEF ByteOf
<1>6. j >= W + 1
  <2>1. ASSUME j < W + 1 PROVE FALSE
    <3>1. (W + 1) - j \in 1 .. L /\ j + ((W + 1) - j) = W + 1
      BY <1>3, <1>4, <2>1
    <3>2. QED
      BY <1>5, <3>1
  <2>2. QED
    BY <1>3, <2>1
<1>7. PICK l : l = j - (W + 1)
  OBVIOUS
<1>8. l \in Nat /\ l + HeadLen > 0 /\ l + L <= 0 + Len(wire')
  BY <1>1, <1>3, <1>4, <1>6, <1>7
<1>9. ASSUME NEW p \in 1 .. L PROVE Spot(l + p)' = ByteOf(m, p)
  <2>1. PICK i : i = l + p
    OBVIOUS
  <2>2. i \in 1 .. Len(wire') /\ ~(i <= 0) /\ i - 0 = i /\ ~(j + p <= W) /\ (j + p) - W = i + 1
    BY <1>1, <1>3, <1>6, <1>7, <1>8, <2>1
  <2>3. Spot(l + p)' = wire'[i]
    BY <1>3, <2>1, <2>2 DEF Spot
  <2>4. Spot(j + p) = wire[i + 1]
    BY <1>2, <2>2 DEF Spot
  <2>5. QED
    BY <1>1, <1>4, <2>2, <2>3, <2>4 DEF Rest
<1>10. Ahead(m, l)'
  BY <1>3, <1>8, <1>9 DEF Ahead
<1>11. QED
  BY <1>8, <1>10

\* ... and the frame of the header has its payload next on the line.
LEMMA FoundPayload ==
  ASSUME IInv, SyncByte, NEW n \in 1 .. Len(sent), wire[1] = ByteOf(n, HeadLen),
         NEW j \in Nat, Ahead(n, j)
  PROVE  /\ BodyLen(sent[n]) <= Len(wire')
         /\ \A p \in 1 .. BodyLen(sent[n]) : wire'[p] = ByteOf(n, HeadLen + p)
<1>1. /\ wire \in Seq(Byte) /\ wire # <<>> /\ Rest(wire', wire) /\ sent[n] \in Frames
      /\ window \in Seq(Byte) /\ Len(wire) = Len(wire') + 1 /\ Len(wire') \in Nat
  BY TailRest DEF IInv, TypeOK, SyncByte, Rest
<1>2. PICK R, W : R = BodyLen(sent[n]) /\ W = Len(window)
  OBVIOUS
<1>3. /\ R \in Nat /\ FrameLen(sent[n]) = HeadLen + R /\ HeadLen \in Nat \ {0} /\ W \in Nat
  BY <1>1, <1>2, BodyLenType, LengthAssumption DEF FrameLen
<1>4. /\ j + HeadLen > W /\ j + (HeadLen + R) <= W + Len(wire)
      /\ \A p \in 1 .. HeadLen + R : Spot(j + p) = ByteOf(n, p)
  BY <1>2, <1>3 DEF Ahead
<1>5. \A p \in 1 .. HeadLen + R : j + p > W =>
        (j + p) - W \in 1 .. Len(wire) /\ wire[(j + p) - W] = ByteOf(n, p)
  <2> SUFFICES ASSUME NEW p \in 1 .. HeadLen + R, j + p > W
               PROVE  (j + p) - W \in 1 .. Len(wire) /\ wire[(j + p) - W] = ByteOf(n, p)
    OBVIOUS
  <2>1. ~(j + p <= W) /\ (j + p) - W \in 1 .. Len(wire)
    BY <1>1, <1>3, <1>4
  <2>2. Spot(j + p) = wire[(j + p) - W]
    BY <1>2, <2>1 DEF Spot
  <2>3. QED
    BY <1>4, <2>1, <2>2
<1>6. j + HeadLen = W + 1
  <2>1. PICK i : i = (j + HeadLen) - W
    OBVIOUS
  <2>2. i \in 1 .. Len(wire) /\ wire[i] = ByteOf(n, HeadLen)
    <3>1. HeadLen \in 1 .. HeadLen + R
      BY <1>3
    <3>2. QED
      BY <1>4, <1>5, <2>1, <3>1
  <2>3. ASSUME i > 1 PROVE FALSE
    <3>1. 1 \in 1 .. Len(wire) /\ wire[1] # Noise /\ wire[i] # Noise
      BY <1>1, <2>2, ByteOfNotNoise
    <3>2. Before(ByteOf(n, HeadLen), ByteOf(n, HeadLen))
      BY <2>2, <2>3, <3>1 DEF IInv, InOrder
    <3>3. QED
      BY <1>3, <3>2 DEF Before, ByteOf
  <2>4. QED
    BY <1>1, <1>3, <2>1, <2>2, <2>3
<1>7. R <= Len(wire')
  BY <1>1, <1>3, <1>4, <1>6
<1>8. ASSUME NEW p \in 1 .. R PROVE wire'[p] = ByteOf(n, HeadLen + p)
  <2>1. PICK q : q = HeadLen + p
    OBVIOUS
  <2>2. q \in 1 .. HeadLen + R /\ j + q > W /\ (j + q) - W = p + 1 /\ p \in 1 .. Len(wire')
    BY <1>1, <1>3, <1>6, <1>7, <2>1
  <2>3. wire[p + 1] = ByteOf(n, q)
    BY <1>5, <2>2
  <2>4. QED
    BY <1>1, <2>1, <2>2, <2>3 DEF Rest
<1>9. QED
  BY <1>2, <1>7, <1>8

\* The bytes of a payload are in ghost, before any of a later frame, or missing.
LEMMA PayloadSplit ==
  ASSUME IInv, NEW ghost, Undamaged(ghost), NEW g, Rest(g, ghost),
         NEW open, MissingKnown(open, ghost),
         NEW n \in 1 .. Len(sent), ghost[1] = ByteOf(n, HeadLen),
         NEW m \in 1 .. Len(g) + 1, m <= Len(g) => g[m] # Noise /\ g[m].frame > n,
         NEW p \in HeadLen + 1 .. FrameLen(sent[n])
  PROVE  ByteOf(n, p) \in open \/ \E q \in 1 .. m - 1 : g[q] = ByteOf(n, p)
<1>1. /\ Len(g) \in Nat /\ Len(ghost) = Len(g) + 1 /\ HeadLen \in Nat /\ n \in Nat \ {0}
      /\ m \in Nat
  BY LengthAssumption DEF Rest, IInv, TypeOK
<1>2. ByteOf(n, p) \in open \/ \E q \in 1 .. Len(ghost) : ghost[q] = ByteOf(n, p)
  BY <1>1 DEF MissingKnown
<1>3. ASSUME NEW q \in 1 .. Len(ghost), ghost[q] = ByteOf(n, p)
      PROVE  \E k \in 1 .. m - 1 : g[k] = ByteOf(n, p)
  <2>1. q # 1
    BY <1>1, <1>3 DEF ByteOf
  <2>2. PICK k : k = q - 1
    OBVIOUS
  <2>3. k \in 1 .. Len(g) /\ k + 1 = q
    BY <1>1, <2>1, <2>2
  <2>4. g[k] = ByteOf(n, p)
    BY <1>3, <2>3 DEF Rest
  <2>5. ASSUME k >= m PROVE FALSE
    <3>1. m <= Len(g) /\ m \in 1 .. Len(g) /\ m + 1 \in 1 .. Len(ghost) /\ g[m] = ghost[m + 1]
      BY <1>1, <2>3, <2>5 DEF Rest
    <3>2. g[m] # Noise /\ g[m].frame > n
      BY <3>1
    <3>3. CASE k = m
      BY <1>1, <2>4, <3>2, <3>3 DEF ByteOf
    <3>4. CASE k # m
      <4>1. m + 1 < q
        BY <1>1, <2>3, <2>5, <3>4
      <4>2. ghost[q] # Noise /\ ghost[m + 1] # Noise
        BY <1>1, <1>3, <3>1, <3>2, ByteOfNotNoise
      <4>3. Before(g[m], ByteOf(n, p))
        BY <1>3, <3>1, <4>1, <4>2 DEF Undamaged
      <4>4. g[m].frame \in Nat
        BY <3>1, <3>2 DEF Undamaged, OfSent
      <4>5. QED
        BY <1>1, <3>2, <4>3, <4>4 DEF Before, ByteOf
    <3>5. QED
      BY <3>3, <3>4
  <2>6. k \in 1 .. m - 1
    BY <1>1, <2>3, <2>5
  <2>7. QED
    BY <2>4, <2>6
<1>4. QED
  BY <1>2, <1>3

\* A payload is no longer than its bytes that are there and those that are missing.
LEMMA PayloadCounted ==
  ASSUME IInv, NEW n \in 1 .. Len(sent), NEW g, NEW m \in Nat \ {0}, NEW O, IsFiniteSet(O),
         \A p \in HeadLen + 1 .. FrameLen(sent[n]) :
           ByteOf(n, p) \in O \/ \E q \in 1 .. m - 1 : g[q] = ByteOf(n, p)
  PROVE  BodyLen(sent[n]) <= (m - 1) + Cardinality(O)
<1>1. PICK P, Q : /\ P = {p \in HeadLen + 1 .. FrameLen(sent[n]) : ByteOf(n, p) \in O}
                  /\ Q = {p \in HeadLen + 1 .. FrameLen(sent[n]) :
                            \E q \in 1 .. m - 1 : g[q] = ByteOf(n, p)}
  OBVIOUS
<1>2. /\ BodyLen(sent[n]) \in Nat /\ FrameLen(sent[n]) = HeadLen + BodyLen(sent[n])
      /\ HeadLen \in Nat
  <2>1. sent[n] \in Frames
    BY DEF IInv, TypeOK
  <2>2. QED
    BY <2>1, BodyLenType, LengthAssumption DEF FrameLen
<1>3. IsFiniteSet(P) /\ Cardinality(P) <= Cardinality(O)
  <2>1. PICK f : f = [p \in P |-> ByteOf(n, p)]
    OBVIOUS
  <2>2. f \in [P -> O]
    BY <1>1, <2>1
  <2>3. \A a, b \in P : f[a] = f[b] => a = b
    BY <2>1 DEF ByteOf
  <2>4. f \in Injection(P, O)
    BY <2>2, <2>3 DEF Injection, IsInjective
  <2>5. QED
    BY <2>4, FS_Injection
<1>4. IsFiniteSet(Q) /\ Cardinality(Q) <= m - 1
  <2>1. PICK f : f = [p \in Q |-> CHOOSE q \in 1 .. m - 1 : g[q] = ByteOf(n, p)]
    OBVIOUS
  <2>2. \A p \in Q : f[p] \in 1 .. m - 1 /\ g[f[p]] = ByteOf(n, p)
    BY <1>1, <2>1
  <2>3. f \in [Q -> 1 .. m - 1]
    BY <2>1, <2>2
  <2>4. \A a, b \in Q : f[a] = f[b] => a = b
    <3> SUFFICES ASSUME NEW a \in Q, NEW b \in Q, f[a] = f[b] PROVE a = b
      OBVIOUS
    <3>1. ByteOf(n, a) = ByteOf(n, b)
      BY <2>2
    <3>2. QED
      BY <3>1 DEF ByteOf
  <2>5. f \in Injection(Q, 1 .. m - 1)
    BY <2>3, <2>4 DEF Injection, IsInjective
  <2>6. IsFiniteSet(1 .. m - 1) /\ Cardinality(1 .. m - 1) = m - 1
    <3>1. m - 1 \in Nat
      OBVIOUS
    <3>2. /\ IsFiniteSet(1 .. m - 1)
          /\ Cardinality(1 .. m - 1) = IF 1 > m - 1 THEN 0 ELSE ((m - 1) - 1) + 1
      BY <3>1, FS_Interval
    <3>3. QED
      BY <3>1, <3>2
  <2>7. QED
    BY <2>5, <2>6, FS_Injection
<1>5. Cardinality(HeadLen + 1 .. FrameLen(sent[n])) = BodyLen(sent[n])
  <2>1. HeadLen + 1 \in Int /\ FrameLen(sent[n]) \in Int
    BY <1>2
  <2>2. Cardinality(HeadLen + 1 .. FrameLen(sent[n]))
          = IF HeadLen + 1 > FrameLen(sent[n]) THEN 0
            ELSE (FrameLen(sent[n]) - (HeadLen + 1)) + 1
    BY <2>1, FS_Interval
  <2>3. QED
    BY <1>2, <2>2
<1>6. P \cup Q = HeadLen + 1 .. FrameLen(sent[n])
  BY <1>1
<1>7. /\ IsFiniteSet(P \cap Q)
      /\ Cardinality(P \cup Q) = Cardinality(P) + Cardinality(Q) - Cardinality(P \cap Q)
  BY <1>3, <1>4, FS_Union, FS_Intersection
<1>8. /\ Cardinality(P) \in Nat /\ Cardinality(Q) \in Nat /\ Cardinality(P \cap Q) \in Nat
      /\ Cardinality(O) \in Nat
  BY <1>3, <1>4, <1>7, FS_CardinalityType
<1>9. Cardinality(P \cup Q) = BodyLen(sent[n])
  BY <1>5, <1>6
<1>10. BodyLen(sent[n]) <= Cardinality(P) + Cardinality(Q)
  BY <1>2, <1>7, <1>8, <1>9
<1>11. QED
  BY <1>2, <1>3, <1>4, <1>8, <1>10

\* A byte that completes no header costs nothing.
LEMMA SearchLoss ==
  ASSUME IInv, SyncByte, NEW w, w = Slide(window, wire[1]), ~Verifies(w),
         NEW hit, NEW eaten, NEW open, NEW debt, NEW ghost,
         Account(hit, eaten, open, debt, ghost)
  PROVE  LossInv'
<1>1. /\ phase = "sync" /\ phase' = "sync" /\ wire # <<>> /\ wire' = Tail(wire) /\ window' = w
      /\ UNCHANGED <<sent, head, body, delivered, spoiled, dropped>>
  BY DEF SyncByte
<1>2. /\ Counted(hit, eaten, open, debt) /\ NoneForgotten(hit, eaten) /\ Undamaged(ghost)
      /\ MissingKnown(open, ghost) /\ IInv'
  BY SyncByteStep DEF Account
<1>3. PICK g : g = Tail(ghost)
  OBVIOUS
<1>4. Rest(g, ghost) /\ Undamaged(g)'
  BY <1>1, <1>2, <1>3, GhostRest
<1>5. MissingKnown(open, g)'
  <2>1. MissingKnown(open, g)
    BY <1>2, <1>4, MissingRest
  <2>2. QED
    BY <1>1, <2>1 DEF MissingKnown, FrameLen, BodyLen
<1>6. Counted(hit, eaten, open, debt)' /\ Debts(debt, g)'
  BY <1>1, <1>2 DEF Counted, Debts
<1>7. NoneForgotten(hit, eaten)'
  <2> SUFFICES ASSUME NEW m \in 1 .. Len(sent), Wanted(sent[m])
               PROVE  \/ Returned(m)' \/ m \in hit \/ m \in eaten
                      \/ \E j \in Nat : Ahead(m, j)'
    BY <1>1 DEF NoneForgotten
  <2>1. \/ Returned(m) \/ m \in hit \/ m \in eaten \/ BeingRead(m)
        \/ \E j \in Nat : Ahead(m, j)
    BY <1>2 DEF NoneForgotten
  <2>2. ~BeingRead(m)
    BY <1>1 DEF BeingRead
  <2>3. Returned(m) => Returned(m)'
    BY <1>1 DEF Returned
  <2>4. (\E j \in Nat : Ahead(m, j)) => \E l \in Nat : Ahead(m, l)'
    BY <1>1, SyncAhead
  <2>5. QED
    BY <2>1, <2>2, <2>3, <2>4
<1>8. Account(hit, eaten, open, debt, g)'
  BY <1>4, <1>5, <1>6, <1>7 DEF Account
<1>9. QED
  BY <1>2, <1>8 DEF LossInv

\* A header costs nothing either: its frame is returned, or recv() reads its payload.
LEMMA FoundKept ==
  ASSUME IInv, SyncByte, phase = "sync", window' = <<>>,
         NEW n \in 1 .. Len(sent), wire[1] = ByteOf(n, HeadLen),
         \/ ExtraSize(sent[n]) = 0 /\ Finish(n)
         \/ phase' = "body" /\ head' = n /\ body' = <<>> /\ UNCHANGED delivered,
         NEW hit, NEW eaten, NoneForgotten(hit, eaten)
  PROVE  NoneForgotten(hit, eaten)'
<1>1. /\ UNCHANGED sent /\ delivered \in Seq(1 .. Len(sent)) /\ sent[n] \in Frames
      /\ wire' \in Seq(Byte)
  BY SyncByteStep DEF SyncByte, IInv, TypeOK
<1>2. SUFFICES ASSUME NEW m \in 1 .. Len(sent), Wanted(sent[m])
               PROVE  \/ Returned(m)' \/ m \in hit \/ m \in eaten \/ BeingRead(m)'
                      \/ \E j \in Nat : Ahead(m, j)'
  BY <1>1 DEF NoneForgotten
<1>3. \/ Returned(m) \/ m \in hit \/ m \in eaten \/ BeingRead(m)
      \/ \E j \in Nat : Ahead(m, j)
  BY <1>2 DEF NoneForgotten
<1>4. ~BeingRead(m)
  BY DEF BeingRead
<1>5. Returned(m) => Returned(m)'
  <2>1. delivered' = delivered \/ delivered' = Append(delivered, n)
    BY DEF Finish
  <2>2. QED
    BY <2>1, ReturnedStays DEF IInv
<1>6. ASSUME NEW j \in Nat, Ahead(m, j), m # n PROVE \E l \in Nat : Ahead(m, l)'
  BY <1>6, FoundOthers
<1>7. ASSUME NEW j \in Nat, Ahead(m, j), m = n PROVE Returned(m)' \/ BeingRead(m)'
  <2>1. CASE ExtraSize(sent[n]) = 0 /\ Finish(n)
    <3>1. delivered' = Append(delivered, n)
      BY <1>2, <1>7, <2>1 DEF Finish, Wanted
    <3>2. Len(delivered) + 1 \in 1 .. Len(delivered') /\ delivered'[Len(delivered) + 1] = n
      BY <1>1, <3>1
    <3>3. QED
      BY <1>7, <3>2 DEF Returned
  <2>2. CASE phase' = "body" /\ head' = n /\ body' = <<>> /\ UNCHANGED delivered
    <3>1. /\ BodyLen(sent[n]) <= Len(wire')
          /\ \A p \in 1 .. BodyLen(sent[n]) : wire'[p] = ByteOf(n, HeadLen + p)
      BY <1>7, FoundPayload
    <3>2. BodyLen(sent[n])' = BodyLen(sent[n]) /\ BodyLen(sent[n]) \in Nat /\ HeadLen \in Nat
      BY <1>1, BodyLenType, LengthAssumption DEF BodyLen
    <3>3. Len(body') = 0
      BY <2>2
    <3>4. \A p \in 1 .. BodyLen(sent[n]) - Len(body') :
            wire'[p] = ByteOf(n, HeadLen + Len(body') + p)
      <4>1. BodyLen(sent[n]) - 0 = BodyLen(sent[n]) /\ HeadLen + 0 = HeadLen
        BY <3>2
      <4>2. QED
        BY <3>1, <3>3, <4>1
    <3>5. BodyLen(sent[n]) <= Len(body') + Len(wire')
      BY <1>1, <3>1, <3>2, <3>3
    <3>6. \A p \in 1 .. Len(body') : body'[p] = ByteOf(n, HeadLen + p)
      BY <3>3
    <3>7. QED
      BY <1>7, <2>2, <3>2, <3>4, <3>5, <3>6 DEF BeingRead
  <2>3. QED
    BY <2>1, <2>2
<1>8. QED
  BY <1>3, <1>4, <1>5, <1>6, <1>7

\* What is missing of a payload goes from open into debt.
LEMMA MissingSplit ==
  ASSUME IInv, NEW hit, NEW eaten, NEW open, NEW debt, Counted(hit, eaten, open, debt),
         UNCHANGED <<spoiled, dropped>>,
         NEW O \in SUBSET open, NEW o, o = open \ O, NEW d, d = Cardinality(O)
  PROVE  Counted(hit, eaten, o, d)' /\ IsFiniteSet(O)
<1>1. IsFiniteSet(open) /\ IsFiniteSet(eaten) /\ IsFiniteSet(hit)
  BY DEF Counted
<1>2. open \cap O = O
  OBVIOUS
<1>3. IsFiniteSet(O) /\ IsFiniteSet(o) /\ Cardinality(o) = Cardinality(open) - Cardinality(O)
  <2>1. IsFiniteSet(O)
    BY <1>1, <1>2, FS_Subset
  <2>2. /\ IsFiniteSet(open \ O)
        /\ Cardinality(open \ O) = Cardinality(open) - Cardinality(open \cap O)
    BY <1>1, FS_Difference
  <2>3. QED
    BY <1>2, <2>1, <2>2
<1>4. /\ Cardinality(O) \in Nat /\ Cardinality(o) \in Nat /\ Cardinality(open) \in Nat
      /\ Cardinality(eaten) \in Nat /\ debt \in Nat /\ dropped \in Nat
      /\ Cardinality(eaten) + Cardinality(open) + debt <= dropped
  BY <1>1, <1>3, FS_CardinalityType, CountTypes DEF IInv
<1>5. Cardinality(eaten) + Cardinality(o) + d <= dropped
  BY <1>3, <1>4
<1>6. QED
  BY <1>1, <1>3, <1>4, <1>5 DEF Counted

\* What recv() may take from later frames when it begins a payload is what is missing of it.
LEMMA FoundDebts ==
  ASSUME IInv, SyncByte, window' = <<>>,
         NEW n \in 1 .. Len(sent), wire[1] = ByteOf(n, HeadLen), ExtraSize(sent[n]) > 0,
         phase' = "body", head' = n, body' = <<>>,
         NEW ghost, Undamaged(ghost), NEW g, Rest(g, ghost),
         NEW open, MissingKnown(open, ghost),
         NEW O, O = {b \in open : b.frame = n}, IsFiniteSet(O), NEW d, d = Cardinality(O)
  PROVE  /\ Debts(d, g)'
         /\ \A k \in 1 .. Len(g) : g[k] # Noise => Before(ByteOf(n, HeadLen), g[k])
<1>1. /\ UNCHANGED sent /\ sent[n] \in Frames /\ Len(g) \in Nat /\ Len(ghost) = Len(g) + 1
      /\ n \in Nat \ {0}
  BY DEF SyncByte, IInv, TypeOK, Rest
<1>2. ghost[1] = ByteOf(n, HeadLen) /\ ghost[1] # Noise /\ 1 \in 1 .. Len(ghost)
  <2>1. 1 \in 1 .. Len(ghost)
    BY <1>1
  <2>2. wire[1] # Noise
    BY <1>1, ByteOfNotNoise
  <2>3. QED
    BY <2>1, <2>2 DEF Undamaged
<1>3. ASSUME NEW k \in 1 .. Len(g), g[k] # Noise PROVE Before(ByteOf(n, HeadLen), g[k])
  <2>1. k + 1 \in 1 .. Len(ghost) /\ 1 < k + 1 /\ ghost[k + 1] = g[k]
    BY <1>1 DEF Rest
  <2>2. QED
    BY <1>2, <1>3, <2>1 DEF Undamaged
<1>4. /\ ReadLen(sent[n])' = ReadLen(sent[n]) /\ ReadLen(sent[n]) \in Nat
      /\ ReadLen(sent[n]) <= BodyLen(sent[n]) /\ 0 < ReadLen(sent[n])
      /\ BodyLen(sent[n]) \in Nat /\ Len(body') = 0 /\ d \in Nat
  BY <1>1, ReadLenType, BodyLenType, FS_CardinalityType DEF ReadLen, ExtraSize
<1>5. ASSUME NEW m \in 1 .. Len(g) + 1, NoLater(g, m)'
      PROVE  ReadLen(sent[n]) - 0 <= (m - 1) + d
  <2>1. m <= Len(g) => g[m] # Noise /\ g[m].frame > n
    BY <1>5 DEF NoLater
  <2>2. ASSUME NEW p \in HeadLen + 1 .. FrameLen(sent[n])
        PROVE  ByteOf(n, p) \in O \/ \E q \in 1 .. m - 1 : g[q] = ByteOf(n, p)
    <3>1. ByteOf(n, p) \in open \/ \E q \in 1 .. m - 1 : g[q] = ByteOf(n, p)
      BY <1>2, <2>1, PayloadSplit
    <3>2. ByteOf(n, p).frame = n
      BY DEF ByteOf
    <3>3. QED
      BY <3>1, <3>2
  <2>3. m \in Nat \ {0}
    BY <1>1
  <2>4. BodyLen(sent[n]) <= (m - 1) + Cardinality(O)
    BY <2>2, <2>3, PayloadCounted
  <2>5. QED
    BY <1>4, <2>3, <2>4
<1>6. Covered(d, g)'
  BY <1>4, <1>5 DEF Covered
<1>7. Debts(d, g)'
  BY <1>3, <1>4, <1>6 DEF Debts
<1>8. QED
  BY <1>3, <1>7

\* A byte that completes a header.
LEMMA FoundLoss ==
  ASSUME IInv, SyncByte, NEW w, w = Slide(window, wire[1]), Verifies(w),
         NEW hit, NEW eaten, NEW open, NEW debt, NEW ghost,
         Account(hit, eaten, open, debt, ghost)
  PROVE  LossInv'
<1>1. PICK n \in 1 .. Len(sent) : n = w[1].frame /\ wire[1] = ByteOf(n, HeadLen)
  BY HeaderFound DEF ByteOf, IInv, SyncByte
<1>2. /\ phase = "sync" /\ wire # <<>> /\ wire' = Tail(wire) /\ window' = <<>>
      /\ UNCHANGED <<sent, spoiled, dropped>>
      /\ \/ ExtraSize(sent[n]) = 0 /\ Finish(n)
         \/ /\ ExtraSize(sent[n]) > 0
            /\ phase' = "body" /\ head' = n /\ body' = <<>> /\ UNCHANGED delivered
  BY <1>1 DEF SyncByte
<1>3. /\ Counted(hit, eaten, open, debt) /\ NoneForgotten(hit, eaten) /\ Undamaged(ghost)
      /\ MissingKnown(open, ghost) /\ IInv'
  BY SyncByteStep DEF Account
<1>4. PICK g : g = Tail(ghost)
  OBVIOUS
<1>5. Rest(g, ghost) /\ Undamaged(g)'
  BY <1>2, <1>3, <1>4, GhostRest
<1>6. MissingKnown(open, g)
  BY <1>3, <1>5, MissingRest
<1>7. NoneForgotten(hit, eaten)'
  BY <1>1, <1>2, <1>3, FoundKept
<1>8. CASE ExtraSize(sent[n]) = 0 /\ Finish(n)
  <2>1. MissingKnown(open, g)'
    BY <1>2, <1>6 DEF MissingKnown, FrameLen, BodyLen
  <2>2. Counted(hit, eaten, open, debt)' /\ Debts(debt, g)'
    BY <1>2, <1>3, <1>8 DEF Counted, Debts, Finish
  <2>3. Account(hit, eaten, open, debt, g)'
    BY <1>5, <1>7, <2>1, <2>2 DEF Account
  <2>4. QED
    BY <1>3, <2>3 DEF LossInv
<1>9. CASE /\ ExtraSize(sent[n]) > 0
           /\ phase' = "body" /\ head' = n /\ body' = <<>> /\ UNCHANGED delivered
  <2>1. PICK O : O = {b \in open : b.frame = n}
    OBVIOUS
  <2>2. PICK o, d : o = open \ O /\ d = Cardinality(O)
    OBVIOUS
  <2>3. Counted(hit, eaten, o, d)' /\ IsFiniteSet(O)
    <3>1. UNCHANGED <<spoiled, dropped>> /\ Counted(hit, eaten, open, debt)
      BY <1>2, <1>3
    <3>2. O \in SUBSET open
      BY <2>1
    <3>3. QED
      BY <2>2, <3>1, <3>2, MissingSplit
  <2>4. /\ Debts(d, g)'
        /\ \A k \in 1 .. Len(g) : g[k] # Noise => Before(ByteOf(n, HeadLen), g[k])
    BY <1>1, <1>2, <1>3, <1>5, <1>9, <2>1, <2>2, <2>3, FoundDebts
  <2>5. MissingKnown(o, g)'
    <3> SUFFICES ASSUME NEW m \in 1 .. Len(sent), NEW k \in 1 .. Len(g), g[k] = ByteOf(m, HeadLen),
                        NEW p \in HeadLen + 1 .. FrameLen(sent[m])
                 PROVE  ByteOf(m, p) \in o \/ \E q \in 1 .. Len(g) : g[q] = ByteOf(m, p)
      BY <1>2 DEF MissingKnown, FrameLen, BodyLen
    <3>1. ByteOf(m, p) \in open \/ \E q \in 1 .. Len(g) : g[q] = ByteOf(m, p)
      BY <1>6 DEF MissingKnown
    <3>2. Before(ByteOf(n, HeadLen), ByteOf(m, HeadLen))
      <4>1. m # 0
        BY DEF IInv, TypeOK
      <4>2. g[k] # Noise
        BY <4>1, ByteOfNotNoise
      <4>3. QED
        BY <2>4, <4>2
    <3>3. m # n
      <4>1. HeadLen \in Nat /\ n \in Nat
        BY LengthAssumption DEF IInv, TypeOK
      <4>2. QED
        BY <3>2, <4>1 DEF Before, ByteOf
    <3>4. ByteOf(m, p) \notin O
      BY <2>1, <3>3 DEF ByteOf
    <3>5. QED
      BY <2>2, <3>1, <3>4
  <2>6. Account(hit, eaten, o, d, g)'
    BY <1>5, <1>7, <2>3, <2>4, <2>5 DEF Account
  <2>7. QED
    BY <1>3, <2>6 DEF LossInv
<1>10. QED
  BY <1>2, <1>8, <1>9

LEMMA SyncLoss == LossInv /\ SyncByte => LossInv'
<1> SUFFICES ASSUME LossInv, SyncByte PROVE LossInv'
  OBVIOUS
<1>1. PICK hit, eaten, open, debt, ghost : Account(hit, eaten, open, debt, ghost)
  BY DEF LossInv
<1>2. IInv
  BY DEF LossInv
<1>3. PICK w : w = Slide(window, wire[1])
  OBVIOUS
<1>4. CASE Verifies(w)
  BY <1>1, <1>2, <1>3, <1>4, FoundLoss
<1>5. CASE ~Verifies(w)
  BY <1>1, <1>2, <1>3, <1>5, SearchLoss
<1>6. QED
  BY <1>4, <1>5

LEMMA NextLoss == LossInv /\ [Next]_vars => LossInv'
<1> SUFFICES ASSUME LossInv, [Next]_vars PROVE LossInv'
  OBVIOUS
<1>1. PICK hit, eaten, open, debt, ghost : Account(hit, eaten, open, debt, ghost)
  BY DEF LossInv
<1>2. IInv /\ IInv'
  BY NextIInv DEF LossInv
<1>3. ASSUME NEW f \in Frames, Send(f) PROVE LossInv'
  BY <1>1, <1>2, <1>3, SendLoss DEF LossInv
<1>4. CASE SyncByte
  BY <1>4, SyncLoss
<1>5. CASE BodyByte
  BY <1>5, BodyLoss
<1>6. CASE TimeoutEarly \/ TimeoutSilent
  BY <1>1, <1>2, <1>6, TimeoutLoss DEF LossInv
<1>7. CASE Spoil
  BY <1>7, SpoilLoss
<1>8. CASE UNCHANGED vars
  <2>1. Account(hit, eaten, open, debt, ghost)'
    <3>1. /\ Counted(hit, eaten, open, debt)' /\ NoneForgotten(hit, eaten)'
      BY <1>1, <1>8 DEF vars, Account, Counted, NoneForgotten, Returned, BeingRead, Ahead, Spot,
                        FrameLen, BodyLen
    <3>2. Undamaged(ghost)' /\ MissingKnown(open, ghost)' /\ Debts(debt, ghost)'
      BY <1>1, <1>8 DEF vars, Account, Undamaged, OfSent, MissingKnown, Debts, Covered, NoLater,
                        FrameLen, BodyLen, ReadLen, ExtraSize
    <3>3. QED
      BY <3>1, <3>2 DEF Account
  <2>2. QED
    BY <1>2, <2>1 DEF LossInv
<1>9. QED
  BY <1>3, <1>4, <1>5, <1>6, <1>7, <1>8 DEF Next, Receive

\* A fault costs at most the frame it hits, and a byte that is dropped at most one frame
\* more, whatever the frames, the faults and the places they hit: once the line is silent
\* and recv() is back in sync(), every other frame for this station has been returned.
THEOREM LossesAlwaysBounded == Spec => []LossBounded
BY InitLoss, NextLoss, LossesPaid, PTL DEF Spec
=============================================================================
