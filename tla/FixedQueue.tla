------------------------------ MODULE FixedQueue ------------------------------
(***************************************************************************)
(* The ring buffer FixedQueue<_size, action> of include/FixedQueue.hpp as  *)
(* functions of its three fields: buf (_buf), empty (_empty, the next slot *)
(* to write) and data (_data, the oldest item).  The ring has one slot     *)
(* more than its capacity, which is how it tells full from empty.          *)
(***************************************************************************)
EXTENDS Integers, Sequences

CONSTANTS Capacity,  \* the template parameter _size
          Item       \* the bytes the queue holds

ASSUME CapacityAssumption == Capacity \in Nat \ {0}

Index == 0 .. Capacity

Ring == [buf : [Index -> Item], empty : Index, data : Index]

\* Mutants of After: an index that never wraps, and one that forgets the extra slot.
AfterNoWrap(i) == i + 1
AfterSize(i) == (i + 1) % Capacity

\* The index after i on the ring.
After(i) == (i + 1) % (Capacity + 1)

IsEmpty(r) == r.empty = r.data

\* Mutant of IsFull: a ring that never reports full.
NeverFull(r) == After(r.empty) = Capacity + 1

IsFull(r) == After(r.empty) = r.data

\* size()
Size(r) == IF r.data <= r.empty
           THEN r.empty - r.data
           ELSE (Capacity + 1) - (r.data - r.empty)

\* The slot of the item at distance idx from the oldest one, which is at d.
Slot(idx, d) == (idx + d) % (Capacity + 1)

\* operator[]
At(r, idx) == r.buf[Slot(idx, r.data)]

Reset(r) == [buf |-> r.buf, empty |-> 0, data |-> 0]

\* pop(): the ring after the oldest item was given up; an empty ring is left alone.
Pop(r) == IF IsEmpty(r) THEN r ELSE [r EXCEPT !.data = After(@)]

\* push() of the NoPop queue: a full ring drops the item.
Push(r, item) ==
  IF IsFull(r) THEN r
  ELSE [r EXCEPT !.buf[r.empty] = item, !.empty = After(@)]

\* Mutant of PushOver: a full ring drops the new item.
PushUnder(r, item) == Push(r, item)

\* push() of the PopOnPush queue: a full ring gives up its oldest item first.
PushOver(r, item) == Push(IF IsFull(r) THEN Pop(r) ELSE r, item)

\* The items the ring holds, oldest first.
Contents(r) == [i \in 1 .. Size(r) |-> At(r, i - 1)]
=============================================================================
