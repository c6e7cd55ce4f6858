----------------------------- MODULE BoundedFifo -----------------------------
(***************************************************************************)
(* What a FixedQueue<_size> in its NoPop mode promises to the thread that  *)
(* pushes and to the thread that pops: a first-in first-out queue of at    *)
(* most Capacity items, whose push answers false exactly when the queue is *)
(* full and whose pop answers false exactly when it is empty.              *)
(***************************************************************************)
EXTENDS Integers, Sequences

CONSTANTS Capacity, Item, None

VARIABLES fifo,      \* the items pushed and not yet popped, oldest first
          accepted,  \* what the last push returned
          popped     \* the item the last pop returned, None if it was refused

vars == <<fifo, accepted, popped>>

Init == fifo = <<>> /\ accepted = TRUE /\ popped = None

Enqueue(i) ==
  /\ Len(fifo) < Capacity
  /\ fifo' = Append(fifo, i)
  /\ accepted' = TRUE
  /\ UNCHANGED popped

Refuse ==
  /\ Len(fifo) = Capacity
  /\ accepted' = FALSE
  /\ UNCHANGED <<fifo, popped>>

Dequeue ==
  /\ fifo # <<>>
  /\ popped' = Head(fifo)
  /\ fifo' = Tail(fifo)
  /\ UNCHANGED accepted

Miss ==
  /\ fifo = <<>>
  /\ popped' = None
  /\ UNCHANGED <<fifo, accepted>>

Next == (\E i \in Item : Enqueue(i)) \/ Refuse \/ Dequeue \/ Miss

Spec == Init /\ [][Next]_vars
=============================================================================
