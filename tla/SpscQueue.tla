------------------------------ MODULE SpscQueue ------------------------------
(***************************************************************************)
(* A NoPop FixedQueue between two threads, the way the client and the      *)
(* server threads of the test harness are connected: one thread calls      *)
(* push() (from tx) and one calls pop() (from rx).  Nothing locks the      *)
(* queue; push() and pop() are split at their accesses to the fields the   *)
(* other thread writes, in the program order of the code.                  *)
(***************************************************************************)
EXTENDS FixedQueue

CONSTANT None
ASSUME NoneAssumption == None \notin Item

VARIABLES ring,      \* _buf, _empty and _data, shared
          pushing,   \* the step push() is at
          arg,       \* the item push() was called with
          accepted,  \* what the last push() returned
          popping,   \* the step pop() is at
          local,     \* *item, the caller's variable pop() fills
          popped     \* what the last pop() delivered, None if it returned false

vars == <<ring, pushing, arg, accepted, popping, local, popped>>
producerVars == <<pushing, arg, accepted>>
consumerVars == <<popping, local, popped>>

TypeOK ==
  /\ ring \in Ring
  /\ pushing \in {"idle", "store", "publish"}
  /\ arg \in Item /\ local \in Item
  /\ accepted \in BOOLEAN
  /\ popping \in {"idle", "load", "release"}
  /\ popped \in Item \cup {None}

\* _buf and the locals start with whatever the memory held.
Init ==
  /\ ring \in {r \in Ring : r.empty = 0 /\ r.data = 0}
  /\ pushing = "idle" /\ arg \in Item /\ accepted = TRUE
  /\ popping = "idle" /\ local \in Item /\ popped = None

-----------------------------------------------------------------------------
(* push() *)

\* Mutant of PushTest: push() that does not test for room.
PushTestUnguarded(i) ==
  /\ pushing = "idle"
  /\ pushing' = "store" /\ arg' = i
  /\ UNCHANGED <<ring, accepted, consumerVars>>

\* !full(): the producer reads _data.
PushTest(i) ==
  /\ pushing = "idle"
  /\ ~IsFull(ring)
  /\ pushing' = "store" /\ arg' = i
  /\ UNCHANGED <<ring, accepted, consumerVars>>

\* full(): push() returns false and the byte is lost.
PushRefused ==
  /\ pushing = "idle"
  /\ IsFull(ring)
  /\ accepted' = FALSE
  /\ UNCHANGED <<ring, pushing, arg, consumerVars>>

\* _buf[_empty] = item
PushStore ==
  /\ pushing = "store"
  /\ ring' = [ring EXCEPT !.buf[ring.empty] = arg]
  /\ pushing' = "publish"
  /\ UNCHANGED <<arg, accepted, consumerVars>>

\* _empty = (_empty + 1) % (_size + 1); return true
PushPublish ==
  /\ pushing = "publish"
  /\ ring' = [ring EXCEPT !.empty = After(@)]
  /\ pushing' = "idle" /\ accepted' = TRUE
  /\ UNCHANGED <<arg, consumerVars>>

-----------------------------------------------------------------------------
(* pop() *)

\* !empty(): the consumer reads _empty.
PopTest ==
  /\ popping = "idle"
  /\ ~IsEmpty(ring)
  /\ popping' = "load"
  /\ UNCHANGED <<ring, local, popped, producerVars>>

\* empty(): pop() returns false, rx() yields and calls it again.
PopRefused ==
  /\ popping = "idle"
  /\ IsEmpty(ring)
  /\ popped' = None
  /\ UNCHANGED <<ring, popping, local, producerVars>>

\* *item = _buf[_data]
PopLoad ==
  /\ popping = "load"
  /\ local' = ring.buf[ring.data]
  /\ popping' = "release"
  /\ UNCHANGED <<ring, popped, producerVars>>

\* Mutant of PopRelease: pop() that hands out the item and keeps it.
PopKeeps ==
  /\ popping = "release"
  /\ popping' = "idle" /\ popped' = local
  /\ UNCHANGED <<ring, local, producerVars>>

\* _data = (_data + 1) % (_size + 1); return true
PopRelease ==
  /\ popping = "release"
  /\ ring' = [ring EXCEPT !.data = After(@)]
  /\ popping' = "idle" /\ popped' = local
  /\ UNCHANGED <<local, producerVars>>

-----------------------------------------------------------------------------

Produce == (\E i \in Item : PushTest(i)) \/ PushRefused \/ PushStore \/ PushPublish
Consume == PopTest \/ PopRefused \/ PopLoad \/ PopRelease

Next == Produce \/ Consume

Spec == Init /\ [][Next]_vars

\* rx() calls pop() until it delivers, and the thread it runs on is scheduled.
FairSpec == Spec /\ WF_vars(Consume)

-----------------------------------------------------------------------------
(***************************************************************************)
(* Properties                                                              *)
(***************************************************************************)

\* The slot push() stores to is never the slot pop() loads from, although the
\* two threads are between their test and their index update at the same time.
NoSlotRace ==
  pushing \in {"store", "publish"} /\ popping \in {"load", "release"}
    => ring.empty # ring.data

\* What each thread found by its test still holds when it acts on it, although
\* the other thread ran in between: push() keeps the room it saw and the item it
\* stored, pop() keeps the item it saw, and what it copied out is still the
\* oldest item when it gives the slot back.
TestsStayTrue ==
  /\ pushing \in {"store", "publish"} => ~IsFull(ring)
  /\ pushing = "publish" => ring.buf[ring.empty] = arg
  /\ popping \in {"load", "release"} => ~IsEmpty(ring)
  /\ popping = "release" => local = ring.buf[ring.data]

\* The ring implements the bounded FIFO: items come out once, in push order,
\* intact, and each refusal is answered in a state in which it is true.
Fifo == INSTANCE BoundedFifo WITH fifo <- Contents(ring)
ImplementsFifo == Fifo!Spec

\* A full queue gets room again, so a sender that retried would get through.
FullDrains == IsFull(ring) ~> ~IsFull(ring)
=============================================================================
