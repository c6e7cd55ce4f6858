------------------------------ MODULE QueueUses ------------------------------
(***************************************************************************)
(* The two uses of FixedQueue.  One is that of SpscQueue, a NoPop queue    *)
(* between two threads.  The other is the window of sync(): Sync<T> of     *)
(* include/HostBase.hpp is a PopOnPush FixedQueue of the size of a header. *)
(* Capacity is that size and Item the bytes.  One thread uses the window,  *)
(* so its operations are not split.                                        *)
(***************************************************************************)
EXTENDS SpscQueue

VARIABLES buf_head,   \* _buf_head, a ring
          byte        \* the local variable of sync() that rx() fills

windowVars == <<buf_head, byte>>

WindowInit == buf_head \in {r \in Ring : r.empty = 0 /\ r.data = 0} /\ byte \in Item

\* rx(byte) and _buf_head.push(byte) in sync().
See(b) == byte' = b /\ buf_head' = PushOver(buf_head, b)

\* get(): verify() has found a whole header in the window.
Get == Size(buf_head) = Capacity /\ buf_head' = Reset(buf_head) /\ UNCHANGED byte

WindowNext == (\E b \in Item : See(b)) \/ Get

WindowSpec == WindowInit /\ [][WindowNext]_windowVars

WindowTypeOK == buf_head \in Ring /\ byte \in Item

\* The ring is the window of the last bytes: however often its indices have gone
\* round, a full ring drops the oldest byte and no other, operator[] reads the
\* bytes in the order they came, and reset() leaves none behind.
Window == INSTANCE SlidingWindow WITH Width <- Capacity, Byte <- Item,
                                 latest <- byte, window <- Contents(buf_head)
ImplementsWindow == Window!Spec

-----------------------------------------------------------------------------
(* The two uses side by side.  They are different objects and share nothing: *)
(* in a behaviour one of them is in use.                                     *)

VARIABLE use

usesVars == <<use, vars, windowVars>>

\* What the object holds that is not in use.
SomeItem == CHOOSE i \in Item : TRUE
Unused == [buf |-> [i \in Index |-> SomeItem], empty |-> 0, data |-> 0]

UsesInit ==
  /\ Init /\ WindowInit
  /\ \/ use = "threads" /\ buf_head = Unused /\ byte = SomeItem
     \/ use = "sync" /\ ring = Unused /\ arg = SomeItem /\ local = SomeItem

ThreadsRun == use = "threads" /\ UNCHANGED <<use, windowVars>>
SyncRuns == use = "sync" /\ UNCHANGED <<use, vars>>

UsesNext == (ThreadsRun /\ Next) \/ (SyncRuns /\ WindowNext)

UsesSpec == UsesInit /\ [][UsesNext]_usesVars /\ WF_usesVars(ThreadsRun /\ Consume)
=============================================================================
