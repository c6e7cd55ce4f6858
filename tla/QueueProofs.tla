------------------------------ MODULE QueueProofs ------------------------------
(***************************************************************************)
(* The ring buffer in its two uses, for every capacity and every set of    *)
(* items.  First what the index arithmetic does to the sequence of items   *)
(* the ring holds; then the two threads of SpscQueue: the tests stay true, *)
(* the slots stay apart, and the ring implements the bounded FIFO; then    *)
(* the window of sync(), and the two uses side by side, QueueUses.         *)
(***************************************************************************)
EXTENDS QueueUses, TLAPS

-----------------------------------------------------------------------------
(* The ring *)

\* The successor on the ring, without the modulus.
LEMMA AfterWraps ==
  ASSUME NEW i \in Index
  PROVE  After(i) = IF i = Capacity THEN 0 ELSE i + 1
BY CapacityAssumption DEF After, Index

\* The slot operator[] reads, without the modulus.
LEMMA SlotWraps ==
  ASSUME NEW d \in Index, NEW k \in Index
  PROVE  Slot(k, d) = IF k + d <= Capacity THEN k + d ELSE k + d - (Capacity + 1)
BY CapacityAssumption DEF Index, Slot

\* size() stays within the capacity, and empty() and full() are its two ends.
LEMMA SizeBounds ==
  ASSUME NEW r \in Ring
  PROVE  /\ Size(r) \in 0 .. Capacity
         /\ IsEmpty(r) <=> Size(r) = 0
         /\ IsFull(r) <=> Size(r) = Capacity
<1>1. After(r.empty) = IF r.empty = Capacity THEN 0 ELSE r.empty + 1
  BY AfterWraps DEF Ring
<1>2. QED
  BY <1>1, CapacityAssumption DEF Ring, Index, Size, IsEmpty, IsFull

\* The items of a ring, each in the slot the modulus gives it.
LEMMA ContentsType ==
  ASSUME NEW r \in Ring
  PROVE  /\ Contents(r) \in Seq(Item) /\ Len(Contents(r)) = Size(r)
         /\ \A i \in 1 .. Size(r) :
              /\ Slot(i - 1, r.data) \in Index \ {r.empty}
              /\ Contents(r)[i] = r.buf[Slot(i - 1, r.data)]
<1>1. Size(r) \in 0 .. Capacity /\ r.data \in Index /\ r.empty \in Index
  BY SizeBounds DEF Ring
<1>2. ASSUME NEW i \in 1 .. Size(r)
      PROVE  Slot(i - 1, r.data) \in Index \ {r.empty}
  <2>1. i - 1 \in Index
    BY <1>1, CapacityAssumption DEF Index
  <2>2. Slot(i - 1, r.data) = IF i - 1 + r.data <= Capacity
                              THEN i - 1 + r.data
                              ELSE i - 1 + r.data - (Capacity + 1)
    BY <1>1, <2>1, SlotWraps
  <2>3. QED
    BY <1>1, <2>2, CapacityAssumption DEF Index, Size
<1>3. ASSUME NEW i \in 1 .. Size(r)
      PROVE  At(r, i - 1) = r.buf[Slot(i - 1, r.data)] /\ At(r, i - 1) \in Item
  BY <1>2 DEF At, Ring
<1>4. QED
  BY <1>1, <1>2, <1>3, CapacityAssumption DEF Contents

\* Writing the slot _empty points to does not touch an item the ring holds.
LEMMA StoreKeepsContents ==
  ASSUME NEW r \in Ring, NEW x \in Item, NEW s \in Ring,
         s.empty = r.empty, s.data = r.data, s.buf = [r.buf EXCEPT ![r.empty] = x]
  PROVE  Contents(s) = Contents(r)
<1>1. Size(s) = Size(r)
  BY DEF Size
<1>2. ASSUME NEW i \in 1 .. Size(r)
      PROVE  At(s, i - 1) = At(r, i - 1)
  <2>1. Slot(i - 1, r.data) \in Index \ {r.empty}
    BY ContentsType
  <2>2. QED
    BY <2>1 DEF At, Ring
<1>3. QED
  BY <1>1, <1>2 DEF Contents

\* Advancing _empty on a ring with room appends the item in the slot it leaves.
LEMMA PublishAppends ==
  ASSUME NEW r \in Ring, ~IsFull(r), NEW s \in Ring,
         s.empty = After(r.empty), s.data = r.data, s.buf = r.buf
  PROVE  Contents(s) = Append(Contents(r), r.buf[r.empty])
<1>1. /\ r.empty \in Index /\ r.data \in Index
      /\ After(r.empty) = IF r.empty = Capacity THEN 0 ELSE r.empty + 1
      /\ After(r.empty) # r.data
  BY AfterWraps DEF Ring, IsFull
<1>2. Size(s) = Size(r) + 1 /\ Size(r) \in Index
  BY <1>1, CapacityAssumption DEF Size, Index
<1>3. Slot(Size(r), r.data) = r.empty
  <2>1. Slot(Size(r), r.data) = IF Size(r) + r.data <= Capacity
                                THEN Size(r) + r.data
                                ELSE Size(r) + r.data - (Capacity + 1)
    BY <1>1, <1>2, SlotWraps
  <2>2. QED
    BY <1>1, <2>1, CapacityAssumption DEF Index, Size
<1>4. DEFINE appended == Append(Contents(r), r.buf[r.empty])
<1>5. /\ Contents(r) \in Seq(Item) /\ Len(Contents(r)) = Size(r)
      /\ Contents(s) \in Seq(Item) /\ Len(Contents(s)) = Size(s)
      /\ r.buf[r.empty] \in Item
  BY <1>1, ContentsType DEF Ring
<1>6. appended \in Seq(Item) /\ Len(appended) = Len(Contents(s))
  BY <1>2, <1>5
<1>7. ASSUME NEW i \in 1 .. Len(Contents(s))
      PROVE  Contents(s)[i] = appended[i]
  <2>1. Contents(s)[i] = r.buf[Slot(i - 1, r.data)]
    BY <1>5, ContentsType
  <2>2. CASE i = Size(r) + 1
    BY <1>2, <1>3, <1>5, <2>1, <2>2 DEF Index
  <2>3. CASE i \in 1 .. Size(r)
    <3>1. Contents(r)[i] = r.buf[Slot(i - 1, r.data)]
      BY <2>3, ContentsType
    <3>2. appended[i] = Contents(r)[i]
      BY <1>2, <1>5, <2>3 DEF Index
    <3>3. QED
      BY <2>1, <3>1, <3>2
  <2>4. QED
    BY <1>2, <1>5, <2>2, <2>3 DEF Index
<1>8. QED
  BY <1>5, <1>6, <1>7

\* Advancing _data on a ring with items removes the oldest of them.
LEMMA ReleaseRemovesHead ==
  ASSUME NEW r \in Ring, ~IsEmpty(r), NEW s \in Ring,
         s.data = After(r.data), s.empty = r.empty, s.buf = r.buf
  PROVE  /\ Contents(r) # << >> /\ Head(Contents(r)) = r.buf[r.data]
         /\ Contents(s) = Tail(Contents(r))
<1>1. /\ r.empty \in Index /\ r.data \in Index /\ r.empty # r.data
      /\ After(r.data) = IF r.data = Capacity THEN 0 ELSE r.data + 1
  BY AfterWraps DEF Ring, IsEmpty
<1>2. Size(s) = Size(r) - 1 /\ Size(r) \in Index \ {0}
  BY <1>1, CapacityAssumption DEF Size, Index
<1>3. /\ Contents(r) \in Seq(Item) /\ Len(Contents(r)) = Size(r)
      /\ Contents(s) \in Seq(Item) /\ Len(Contents(s)) = Size(s)
  BY ContentsType
<1>4. Slot(0, r.data) = r.data
  <2>1. 0 \in Index /\ 0 + r.data = r.data /\ r.data <= Capacity
    BY <1>1, CapacityAssumption DEF Index
  <2>2. QED
    BY <1>1, <2>1, SlotWraps
<1>5. Contents(r) # << >> /\ Head(Contents(r)) = r.buf[r.data]
  <2>1. Contents(r)[1] = r.buf[Slot(1 - 1, r.data)]
    BY <1>2, ContentsType DEF Index
  <2>2. QED
    BY <1>2, <1>3, <1>4, <2>1 DEF Index
<1>6. ASSUME NEW i \in 1 .. Size(s)
      PROVE  Contents(s)[i] = Contents(r)[i + 1]
  <2>1. /\ i - 1 \in Index /\ i \in Index /\ s.data \in Index
        /\ i + 1 \in 1 .. Size(r) /\ (i + 1) - 1 = i
    BY <1>2, CapacityAssumption DEF Index, Ring
  <2>2. /\ Contents(s)[i] = r.buf[Slot(i - 1, s.data)]
        /\ Contents(r)[i + 1] = r.buf[Slot(i, r.data)]
    BY <2>1, ContentsType
  <2>3. /\ Slot(i - 1, s.data) = IF i - 1 + s.data <= Capacity
                                 THEN i - 1 + s.data
                                 ELSE i - 1 + s.data - (Capacity + 1)
        /\ Slot(i, r.data) = IF i + r.data <= Capacity
                             THEN i + r.data ELSE i + r.data - (Capacity + 1)
    BY <1>1, <2>1, SlotWraps
  <2>4. Slot(i - 1, s.data) = Slot(i, r.data)
    BY <1>1, <2>1, <2>3, CapacityAssumption DEF Index
  <2>5. QED
    BY <2>2, <2>4
<1>7. Contents(s) = Tail(Contents(r))
  <2>1. /\ Tail(Contents(r)) \in Seq(Item) /\ Len(Tail(Contents(r))) = Len(Contents(s))
        /\ \A i \in 1 .. Len(Contents(s)) : Tail(Contents(r))[i] = Contents(r)[i + 1]
    BY <1>2, <1>3, <1>5
  <2>2. QED
    BY <1>3, <1>6, <2>1
<1>8. QED
  BY <1>5, <1>7

-----------------------------------------------------------------------------
(* Two threads *)

IInv == TypeOK /\ TestsStayTrue

LEMMA InitIInv == Init => IInv
BY DEF Init, IInv, TypeOK, TestsStayTrue

\* What each step does to the ring, as a record and as a sequence of items.
LEMMA RingSteps ==
  ASSUME IInv
  PROVE  /\ PushStore => ring' \in Ring /\ ring'.empty = ring.empty /\ ring'.data = ring.data
                         /\ ring'.buf = [ring.buf EXCEPT ![ring.empty] = arg]
                         /\ Contents(ring') = Contents(ring)
         /\ PushPublish => ring' \in Ring /\ ring'.empty = After(ring.empty)
                           /\ ring'.data = ring.data /\ ring'.buf = ring.buf
                           /\ Contents(ring') = Append(Contents(ring), arg)
         /\ PopRelease => ring' \in Ring /\ ring'.empty = ring.empty
                          /\ ring'.data = After(ring.data) /\ ring'.buf = ring.buf
                          /\ Contents(ring) # << >> /\ Head(Contents(ring)) = local
                          /\ Contents(ring') = Tail(Contents(ring))
<1>1. ring \in Ring /\ arg \in Item
  BY DEF IInv, TypeOK
<1>2. After(ring.empty) \in Index /\ After(ring.data) \in Index
  BY <1>1, AfterWraps, CapacityAssumption DEF Ring, Index
<1>3. ASSUME PushStore
      PROVE  ring' \in Ring /\ ring'.empty = ring.empty /\ ring'.data = ring.data
             /\ ring'.buf = [ring.buf EXCEPT ![ring.empty] = arg]
  BY <1>1, <1>3 DEF PushStore, Ring
<1>4. ASSUME PushPublish
      PROVE  ring' \in Ring /\ ring'.empty = After(ring.empty)
             /\ ring'.data = ring.data /\ ring'.buf = ring.buf
  BY <1>1, <1>2, <1>4 DEF PushPublish, Ring
<1>5. ASSUME PopRelease
      PROVE  ring' \in Ring /\ ring'.empty = ring.empty
             /\ ring'.data = After(ring.data) /\ ring'.buf = ring.buf
  BY <1>1, <1>2, <1>5 DEF PopRelease, Ring
<1>6. PushStore => Contents(ring') = Contents(ring)
  BY <1>1, <1>3, StoreKeepsContents
<1>7. PushPublish => Contents(ring') = Append(Contents(ring), arg)
  <2>1. PushPublish => ~IsFull(ring) /\ ring.buf[ring.empty] = arg
    BY DEF PushPublish, IInv, TestsStayTrue
  <2>2. QED
    BY <1>1, <1>4, <2>1, PublishAppends
<1>8. PopRelease => Contents(ring) # << >> /\ Head(Contents(ring)) = local
                    /\ Contents(ring') = Tail(Contents(ring))
  <2>1. PopRelease => ~IsEmpty(ring) /\ local = ring.buf[ring.data]
    BY DEF PopRelease, IInv, TestsStayTrue
  <2>2. QED
    BY <1>1, <1>5, <2>1, ReleaseRemovesHead
<1>9. QED
  BY <1>3, <1>4, <1>5, <1>6, <1>7, <1>8

LEMMA NextIInv == IInv /\ [Next]_vars => IInv'
<1> SUFFICES ASSUME IInv, [Next]_vars PROVE IInv'
  OBVIOUS
<1> USE DEF IInv
<1>1. ASSUME NEW i \in Item, PushTest(i) PROVE IInv'
  BY <1>1 DEF TypeOK, TestsStayTrue, PushTest, consumerVars
<1>2. CASE PushRefused
  BY <1>2 DEF TypeOK, TestsStayTrue, PushRefused, consumerVars
<1>3. CASE PushStore
  <2>1. /\ ring' \in Ring /\ ring'.empty = ring.empty /\ ring'.data = ring.data
        /\ ring'.buf = [ring.buf EXCEPT ![ring.empty] = arg]
    BY <1>3, RingSteps
  <2>2. TypeOK'
    BY <1>3, <2>1 DEF TypeOK, PushStore, consumerVars
  <2>3. /\ ring'.buf[ring'.empty] = arg
        /\ ~IsEmpty(ring) => ring'.buf[ring'.data] = ring.buf[ring.data]
    BY <2>1 DEF TypeOK, Ring, IsEmpty
  <2>4. TestsStayTrue'
    BY <1>3, <2>1, <2>3 DEF TestsStayTrue, PushStore, consumerVars, IsFull, IsEmpty
  <2>5. QED
    BY <2>2, <2>4
<1>4. CASE PushPublish
  <2>1. /\ ring' \in Ring /\ ring'.empty = After(ring.empty)
        /\ ring'.data = ring.data /\ ring'.buf = ring.buf
    BY <1>4, RingSteps
  <2>2. TypeOK'
    BY <1>4, <2>1 DEF TypeOK, PushPublish, consumerVars
  <2>3. ~IsEmpty(ring')
    BY <1>4, <2>1 DEF TestsStayTrue, PushPublish, IsEmpty, IsFull
  <2>4. TestsStayTrue'
    BY <1>4, <2>1, <2>3 DEF TestsStayTrue, PushPublish, consumerVars
  <2>5. QED
    BY <2>2, <2>4
<1>5. CASE PopTest
  BY <1>5 DEF TypeOK, TestsStayTrue, PopTest, producerVars
<1>6. CASE PopRefused
  BY <1>6 DEF TypeOK, TestsStayTrue, PopRefused, producerVars
<1>7. CASE PopLoad
  <2>1. ring.buf[ring.data] \in Item
    BY DEF TypeOK, Ring
  <2>2. QED
    BY <1>7, <2>1 DEF TypeOK, TestsStayTrue, PopLoad, producerVars
<1>8. CASE PopRelease
  <2>1. /\ ring' \in Ring /\ ring'.empty = ring.empty
        /\ ring'.data = After(ring.data) /\ ring'.buf = ring.buf
    BY <1>8, RingSteps
  <2>2. TypeOK'
    BY <1>8, <2>1 DEF TypeOK, PopRelease, producerVars
  <2>3. ~IsFull(ring')
    <3>1. /\ ring.empty \in Index /\ ring.data \in Index /\ ring.empty # ring.data
      BY <1>8 DEF TypeOK, Ring, TestsStayTrue, PopRelease, IsEmpty
    <3>2. After(ring.empty) # After(ring.data)
      BY <3>1, AfterWraps, CapacityAssumption DEF Index
    <3>3. QED
      BY <2>1, <3>2 DEF IsFull
  <2>4. TestsStayTrue'
    BY <1>8, <2>1, <2>3 DEF TestsStayTrue, PopRelease, producerVars
  <2>5. QED
    BY <2>2, <2>4
<1>9. CASE UNCHANGED vars
  BY <1>9 DEF vars, TypeOK, TestsStayTrue
<1>10. QED
  BY <1>1, <1>2, <1>3, <1>4, <1>5, <1>6, <1>7, <1>8, <1>9 DEF Next, Produce, Consume

\* The fields of the queue and the locals of both threads keep their types, and
\* no test of push() or pop() is undone by the other thread before it is used.
THEOREM TestsStayTrueAlways == Spec => [](TypeOK /\ TestsStayTrue)
BY InitIInv, NextIInv, PTL DEF Spec, IInv

\* The indices of the ring stay within the buffer, in any interleaving of the two threads.
THEOREM QueueTypeCorrect == Spec => []TypeOK
BY InitIInv, NextIInv, PTL DEF Spec, IInv

\* push() never stores to the slot pop() is reading, in any interleaving of the
\* producer thread (tx) and the consumer thread (rx).
THEOREM SlotsApart == Spec => []NoSlotRace
<1>1. IInv => NoSlotRace
  BY DEF IInv, TypeOK, TestsStayTrue, NoSlotRace, IsEmpty
<1>2. QED
  BY <1>1, InitIInv, NextIInv, PTL DEF Spec

-----------------------------------------------------------------------------

LEMMA InitFifo == Init => Fifo!Init
<1> SUFFICES ASSUME Init PROVE Fifo!Init
  OBVIOUS
<1>1. ring \in Ring /\ ring.empty = 0 /\ ring.data = 0
  BY DEF Init
<1>2. Size(ring) = 0
  BY <1>1, SizeBounds DEF IsEmpty
<1>3. Contents(ring) = << >>
  BY <1>1, <1>2, ContentsType
<1>4. QED
  BY <1>3 DEF Init, Fifo!Init

LEMMA NextFifo == IInv /\ [Next]_vars => [Fifo!Next]_Fifo!vars
<1> SUFFICES ASSUME IInv, [Next]_vars PROVE [Fifo!Next]_Fifo!vars
  OBVIOUS
<1>0. /\ Contents(ring) \in Seq(Item) /\ Len(Contents(ring)) = Size(ring)
      /\ Size(ring) \in 0 .. Capacity
      /\ IsEmpty(ring) <=> Size(ring) = 0
      /\ IsFull(ring) <=> Size(ring) = Capacity
  BY ContentsType, SizeBounds DEF IInv, TypeOK
<1>1. ASSUME NEW i \in Item, PushTest(i) PROVE UNCHANGED Fifo!vars
  BY <1>1 DEF PushTest, consumerVars, Fifo!vars
<1>2. CASE PushRefused
  <2>1. Fifo!Refuse
    BY <1>0, <1>2 DEF PushRefused, consumerVars, Fifo!Refuse
  <2>2. QED
    BY <2>1 DEF Fifo!Next
<1>3. CASE PushStore
  BY <1>3, RingSteps DEF PushStore, consumerVars, Fifo!vars
<1>4. CASE PushPublish
  <2>1. Len(Contents(ring)) < Capacity
    BY <1>0, <1>4, CapacityAssumption DEF IInv, TestsStayTrue, PushPublish
  <2>2. Fifo!Enqueue(arg) /\ arg \in Item
    BY <1>4, <2>1, RingSteps DEF PushPublish, consumerVars, Fifo!Enqueue, IInv, TypeOK
  <2>3. QED
    BY <2>2 DEF Fifo!Next
<1>5. CASE PopTest
  BY <1>5 DEF PopTest, producerVars, Fifo!vars
<1>6. CASE PopRefused
  <2>1. Contents(ring) = << >>
    BY <1>0, <1>6 DEF PopRefused
  <2>2. Fifo!Miss
    BY <1>6, <2>1 DEF PopRefused, producerVars, Fifo!Miss
  <2>3. QED
    BY <2>2 DEF Fifo!Next
<1>7. CASE PopLoad
  BY <1>7 DEF PopLoad, producerVars, Fifo!vars
<1>8. CASE PopRelease
  <2>1. Fifo!Dequeue
    BY <1>8, RingSteps DEF PopRelease, producerVars, Fifo!Dequeue
  <2>2. QED
    BY <2>1 DEF Fifo!Next
<1>9. CASE UNCHANGED vars
  BY <1>9 DEF vars, Fifo!vars
<1>10. QED
  BY <1>1, <1>2, <1>3, <1>4, <1>5, <1>6, <1>7, <1>8, <1>9 DEF Next, Produce, Consume

\* For every capacity and every set of bytes, the unlocked ring shared by one
\* pushing and one popping thread is a bounded FIFO: nothing is lost after an
\* accepted push, nothing is delivered twice, out of order or altered.
THEOREM RingImplementsFifo == Spec => ImplementsFifo
BY InitIInv, NextIInv, InitFifo, NextFifo, PTL DEF Spec, ImplementsFifo, Fifo!Spec

-----------------------------------------------------------------------------
(* The window of sync() *)

\* pop(), push() and reset() as records, their indices on the ring.
LEMMA PopRing ==
  ASSUME NEW r \in Ring, IsFull(r)
  PROVE  /\ Pop(r) \in Ring /\ Pop(r).empty = r.empty /\ Pop(r).data = After(r.data)
         /\ Pop(r).buf = r.buf
         /\ ~IsEmpty(r) /\ ~IsFull(Pop(r))
<1>1. /\ r.empty \in Index /\ r.data \in Index
      /\ After(r.empty) = IF r.empty = Capacity THEN 0 ELSE r.empty + 1
      /\ After(r.data) = IF r.data = Capacity THEN 0 ELSE r.data + 1
      /\ After(r.empty) = r.data
  BY AfterWraps DEF Ring, IsFull
<1>2. After(r.data) \in Index /\ r.data # r.empty /\ After(r.data) # r.data
  BY <1>1, CapacityAssumption DEF Index
<1>3. Pop(r) \in Ring /\ Pop(r).empty = r.empty /\ Pop(r).data = After(r.data)
      /\ Pop(r).buf = r.buf
  BY <1>2 DEF Pop, IsEmpty, Ring
<1>4. QED
  BY <1>1, <1>2, <1>3 DEF IsEmpty, IsFull

LEMMA PushRing ==
  ASSUME NEW r \in Ring, ~IsFull(r), NEW x \in Item
  PROVE  /\ Push(r, x) \in Ring
         /\ Contents(Push(r, x)) = Append(Contents(r), x)
<1> DEFINE stored == [r EXCEPT !.buf = [r.buf EXCEPT ![r.empty] = x]]
<1>1. After(r.empty) \in Index
  BY AfterWraps, CapacityAssumption DEF Ring, Index
<1>2. /\ stored \in Ring /\ stored.empty = r.empty /\ stored.data = r.data
      /\ stored.buf = [r.buf EXCEPT ![r.empty] = x] /\ stored.buf[r.empty] = x
  BY DEF Ring
<1>3. /\ Push(r, x) \in Ring /\ Push(r, x).empty = After(r.empty)
      /\ Push(r, x).data = r.data /\ Push(r, x).buf = stored.buf
  BY <1>1, <1>2 DEF Push, Ring
<1>4. Contents(stored) = Contents(r)
  BY <1>2, StoreKeepsContents
<1>5. ~IsFull(stored)
  BY <1>2 DEF IsFull
<1>6. QED
  <2> HIDE DEF stored
  <2>1. Contents(Push(r, x)) = Append(Contents(stored), stored.buf[stored.empty])
    BY <1>2, <1>3, <1>5, PublishAppends
  <2>2. QED
    BY <2>1, <1>2, <1>3, <1>4

\* push() of the window: it slides over the bytes.
LEMMA PushOverSlides ==
  ASSUME NEW r \in Ring, NEW x \in Item
  PROVE  /\ PushOver(r, x) \in Ring
         /\ Contents(PushOver(r, x)) =
              Append(IF Len(Contents(r)) = Capacity THEN Tail(Contents(r)) ELSE Contents(r), x)
<1>1. IsFull(r) <=> Len(Contents(r)) = Capacity
  BY SizeBounds, ContentsType
<1>2. CASE IsFull(r)
  <2>1. Contents(Pop(r)) = Tail(Contents(r))
    BY <1>2, PopRing, ReleaseRemovesHead
  <2>2. Pop(r) \in Ring /\ ~IsFull(Pop(r))
    BY <1>2, PopRing
  <2>3. /\ Push(Pop(r), x) \in Ring
        /\ Contents(Push(Pop(r), x)) = Append(Contents(Pop(r)), x)
    BY <2>2, PushRing
  <2>4. QED
    BY <1>1, <1>2, <2>1, <2>3 DEF PushOver
<1>3. CASE ~IsFull(r)
  BY <1>1, <1>3, PushRing DEF PushOver
<1>4. QED
  BY <1>2, <1>3

\* reset() leaves a ring that holds nothing.
LEMMA ResetEmpties ==
  ASSUME NEW r \in Ring
  PROVE  Reset(r) \in Ring /\ Contents(Reset(r)) = << >>
<1>1. 0 \in Index
  BY CapacityAssumption DEF Index
<1>2. /\ Reset(r) \in Ring
      /\ Reset(r).empty = 0 /\ Reset(r).data = 0
  BY <1>1 DEF Reset, Ring
<1>3. Size(Reset(r)) = 0
  BY <1>2 DEF Size
<1>4. QED
  BY <1>2, <1>3, ContentsType

\* A fresh ring holds nothing.
LEMMA FreshEmpty == ASSUME NEW r \in Ring, r.empty = 0, r.data = 0 PROVE Contents(r) = << >>
<1>1. Size(r) = 0
  BY DEF Size
<1>2. QED
  BY <1>1, ContentsType

\* Every step of the window keeps its types.
LEMMA NextWindowTypeOK == WindowTypeOK /\ [WindowNext]_windowVars => WindowTypeOK'
<1> SUFFICES ASSUME WindowTypeOK, [WindowNext]_windowVars PROVE WindowTypeOK'
  OBVIOUS
<1>1. ASSUME NEW b \in Item, See(b) PROVE WindowTypeOK'
  BY <1>1, PushOverSlides DEF WindowTypeOK, See
<1>2. CASE Get
  BY <1>2, ResetEmpties DEF WindowTypeOK, Get
<1>3. CASE UNCHANGED windowVars
  BY <1>3 DEF WindowTypeOK, windowVars
<1>4. QED
  BY <1>1, <1>2, <1>3 DEF WindowNext

\* Each step on the ring is a step of the window.
LEMMA NextWindow == WindowTypeOK /\ [WindowNext]_windowVars => [Window!Next]_(Window!vars)
<1> SUFFICES ASSUME WindowTypeOK, [WindowNext]_windowVars PROVE [Window!Next]_(Window!vars)
  OBVIOUS
<1>1. ASSUME NEW b \in Item, See(b) PROVE Window!See(b)
  <2>1. buf_head \in Ring /\ buf_head' = PushOver(buf_head, b) /\ byte' = b
    BY <1>1 DEF WindowTypeOK, See
  <2>2. Contents(buf_head') =
          Append(IF Len(Contents(buf_head)) = Capacity THEN Tail(Contents(buf_head)) ELSE Contents(buf_head), b)
    BY <2>1, PushOverSlides
  <2>3. QED
    BY <2>1, <2>2 DEF Window!See
<1>2. CASE Get
  <2>1. Reset(buf_head) \in Ring /\ Contents(Reset(buf_head)) = << >>
    BY ResetEmpties DEF WindowTypeOK
  <2>2. Contents(buf_head') = << >>
    BY <1>2, <2>1 DEF Get
  <2>3. Len(Contents(buf_head)) = Capacity
    BY <1>2, ContentsType DEF Get, WindowTypeOK
  <2>4. QED
    BY <1>2, <2>2, <2>3 DEF Get, Window!Clear, Window!Next
<1>3. CASE UNCHANGED windowVars
  BY <1>3 DEF windowVars, Window!vars
<1>4. QED
  BY <1>1, <1>2, <1>3 DEF WindowNext, Window!Next

\* The ring buffer under Sync<T> is the window sync() reads, whatever its size.
THEOREM RingImplementsWindow == WindowSpec => ImplementsWindow
<1>1. WindowInit => WindowTypeOK /\ Window!Init
  BY FreshEmpty DEF WindowInit, WindowTypeOK, Window!Init
<1>2. QED
  BY <1>1, NextWindowTypeOK, NextWindow, PTL DEF WindowSpec, ImplementsWindow, Window!Spec

\* The ring of sync() keeps its indices within the buffer, and its bytes are bytes.
THEOREM WindowTypeCorrect == WindowSpec => []WindowTypeOK
<1>1. WindowInit => WindowTypeOK
  BY DEF WindowInit, WindowTypeOK
<1>2. QED
  BY <1>1, NextWindowTypeOK, PTL DEF WindowSpec

-----------------------------------------------------------------------------
(* Both *)

\* Whichever way a queue is used, it is one of the two above, whose theorems hold of it.
LEMMA UsesAreBoth == UsesSpec => Spec /\ WindowSpec
<1>1. UsesInit => Init /\ WindowInit
  BY DEF UsesInit
<1>2. [UsesNext]_usesVars => [Next]_vars /\ [WindowNext]_windowVars
  BY DEF UsesNext, ThreadsRun, SyncRuns, usesVars
<1>3. QED
  BY <1>1, <1>2, PTL DEF UsesSpec, Spec, WindowSpec

\* FixedQueue in both its uses: the threads are never in one slot and what they have
\* tested stays true, the queue between them is a FIFO, and that of sync() is the window
\* of the last bytes.
THEOREM QueueServesBoth ==
  UsesSpec => [](TestsStayTrue /\ NoSlotRace) /\ ImplementsFifo /\ ImplementsWindow
BY UsesAreBoth, TestsStayTrueAlways, SlotsApart, RingImplementsFifo, RingImplementsWindow, PTL
=============================================================================
