---------------------------- MODULE SlidingWindow ----------------------------
(***************************************************************************)
(* The last bytes seen: what sync() needs of its queue.  HostBase uses the *)
(* window in this form; QueueUses shows that the ring buffer provides it.  *)
(***************************************************************************)
EXTENDS Integers, Sequences

CONSTANTS Width, Byte

VARIABLES latest,   \* the byte that came last
          window

vars == <<latest, window>>

Init == latest \in Byte /\ window = <<>>

See(b) ==
  /\ latest' = b
  /\ window' = Append(IF Len(window) = Width THEN Tail(window) ELSE window, b)

Clear == Len(window) = Width /\ window' = <<>> /\ UNCHANGED latest

Next == (\E b \in Byte : See(b)) \/ Clear

Spec == Init /\ [][Next]_vars
=============================================================================
