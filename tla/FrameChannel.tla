----------------------------- MODULE FrameChannel -----------------------------
(***************************************************************************)
(* What the framing layer promises to the code above it: a channel that    *)
(* may lose frames but neither invents, repeats, reorders nor misroutes    *)
(* them.  Frames are known by their position in the sequence sent.         *)
(***************************************************************************)
EXTENDS Integers, Sequences

CONSTANTS Frames,     \* the frames the peer may send
          Wanted(_)   \* the frames this station accepts

VARIABLES sent, delivered

vars == <<sent, delivered>>

LastDelivered == IF delivered = <<>> THEN 0 ELSE delivered[Len(delivered)]

Init == sent = <<>> /\ delivered = <<>>

Send(f) == sent' = Append(sent, f) /\ UNCHANGED delivered

Deliver(n) ==
  /\ n > LastDelivered
  /\ Wanted(sent[n])
  /\ delivered' = Append(delivered, n)
  /\ UNCHANGED sent

Next == (\E f \in Frames : Send(f)) \/ (\E n \in 1 .. Len(sent) : Deliver(n))

Spec == Init /\ [][Next]_vars
=============================================================================
