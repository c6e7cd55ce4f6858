------------------------------- MODULE HostBase -------------------------------
(***************************************************************************)
(* The framing layer of src/HostBase.cpp: a peer sends frames byte by byte *)
(* over a line that loses, damages and inserts bytes, and sync() and       *)
(* recv() find the frames again.                                           *)
(*                                                                         *)
(* A byte on the line is known by the frame it was sent in and its place   *)
(* there; Noise is a byte that belongs to no frame.  The checksum is ideal:*)
(* it is right exactly when all the bytes it covers are in place.          *)
(***************************************************************************)
EXTENDS Integers, Sequences, FiniteSets

CONSTANTS
  Address,    \* the address of this station
  Frames,     \* frames the peer sends: [to, size, enc]
  HeadLen,    \* bytes of a Header and its checksum (7 in the code)
  TagLen,     \* bytes of the message authentication code (16)
  SumLen,     \* bytes of a checksum (2)
  Capacity,   \* extra.capacity(), the most payload a frame may carry (1030)
  MaxSent,    \* bound: frames the peer sends
  MaxFaults   \* bound: bytes the line spoils and timeouts inside a frame

ASSUME LengthAssumption ==
  /\ HeadLen \in Nat \ {0} /\ TagLen \in Nat /\ SumLen \in Nat /\ Capacity \in Nat \ {0}
  /\ MaxSent \in Nat /\ MaxFaults \in Nat

\* send() marks a frame encrypted only when it has a payload to encrypt.
ASSUME FramesAssumption ==
  \A f \in Frames : f.size \in Nat /\ f.enc \in BOOLEAN /\ (f.enc => f.size > 0)

VARIABLES
  sent,       \* the frames sent so far
  wire,       \* the bytes on the line, oldest first
  window,     \* _buf_head, the last bytes sync() has seen
  phase,      \* "sync" in sync(), "body" while recv() reads a payload
  head,       \* the frame whose header sync() returned, 0 in phase "sync"
  body,       \* the bytes of the payload read so far
  delivered,  \* the frames recv() has returned
  spoiled,    \* faults so far
  dropped     \* those of them that removed a byte

vars == <<sent, wire, window, phase, head, body, delivered, spoiled, dropped>>

-----------------------------------------------------------------------------
(* Frames as bytes *)

Noise == [frame |-> 0, pos |-> 0]

Bytes(n, from, to) == [k \in 1 .. to - from + 1 |-> [frame |-> n, pos |-> from + k - 1]]

\* What send() puts behind the header: tag, payload and checksum, or nothing.
BehindHead(size, enc) == IF size = 0 THEN 0 ELSE (IF enc THEN TagLen ELSE 0) + size + SumLen

BodyLen(f) == BehindHead(f.size, f.enc)

HeaderBytes(n) == Bytes(n, 1, HeadLen)
BodyBytes(n) == Bytes(n, HeadLen + 1, HeadLen + BodyLen(sent[n]))

\* extra.size() = std::min(head.size, extra.capacity())
ExtraSize(f) == IF f.size < Capacity THEN f.size ELSE Capacity

\* The bytes recv() reads behind the header.
ReadLen(f) == BehindHead(ExtraSize(f), f.enc)

\* Mutants of Slide: the window grows, or starts over when it is full.
SlideGrows(w, b) == Append(w, b)
SlideFlush(w, b) == IF Len(w) = HeadLen THEN <<b>> ELSE Append(w, b)

\* push() on the PopOnPush window.
Slide(w, b) == Append(IF Len(w) = HeadLen THEN Tail(w) ELSE w, b)

\* verify(): the window holds a whole header and its checksum.
Verifies(w) == \E n \in 1 .. Len(sent) : w = HeaderBytes(n)

-----------------------------------------------------------------------------

Init ==
  /\ sent = <<>> /\ wire = <<>> /\ window = <<>>
  /\ phase = "sync" /\ head = 0 /\ body = <<>>
  /\ delivered = <<>> /\ spoiled = 0 /\ dropped = 0

\* send(): header, checksum and the body go out through tx().
Send(f) ==
  /\ Len(sent) < MaxSent
  /\ sent' = Append(sent, f)
  /\ wire' = wire \o Bytes(Len(sent) + 1, 1, HeadLen + BodyLen(f))
  /\ UNCHANGED <<window, phase, head, body, delivered, spoiled, dropped>>

\* Mutant of Finish: the address is not compared.
FinishAny(n) ==
  /\ delivered' = Append(delivered, n)
  /\ phase' = "sync" /\ head' = 0 /\ body' = <<>>

\* The end of recv(): a frame for another station is dropped as a whole.
Finish(n) ==
  /\ delivered' = IF sent[n].to = Address THEN Append(delivered, n) ELSE delivered
  /\ phase' = "sync" /\ head' = 0 /\ body' = <<>>

\* One turn of the loop of sync(), and get() when the header is complete.
SyncByte ==
  /\ phase = "sync" /\ wire # <<>>
  /\ wire' = Tail(wire)
  /\ LET w == Slide(window, wire[1])
         n == w[1].frame
     IN \/ /\ ~Verifies(w)
           /\ window' = w
           /\ UNCHANGED <<phase, head, body, delivered>>
        \/ /\ Verifies(w)
           /\ ExtraSize(sent[n]) = 0
           /\ window' = <<>>
           /\ Finish(n)
        \/ /\ Verifies(w)
           /\ ExtraSize(sent[n]) > 0
           /\ window' = <<>>
           /\ phase' = "body" /\ head' = n /\ body' = <<>>
           /\ UNCHANGED delivered
  /\ UNCHANGED <<sent, spoiled, dropped>>

\* One byte of the tag, the payload or the checksum; the last one decides.
BodyByte ==
  /\ phase = "body" /\ wire # <<>>
  /\ wire' = Tail(wire)
  /\ LET b == Append(body, wire[1])
     IN \/ /\ Len(b) < ReadLen(sent[head])
           /\ body' = b
           /\ UNCHANGED <<phase, head, delivered>>
        \/ /\ Len(b) = ReadLen(sent[head]) /\ b = BodyBytes(head)
           /\ Finish(head)
        \/ /\ Len(b) = ReadLen(sent[head]) /\ b # BodyBytes(head)  \* goto Start
           /\ phase' = "sync" /\ head' = 0 /\ body' = <<>>
           /\ UNCHANGED delivered
  /\ UNCHANGED <<sent, window, spoiled, dropped>>

\* rx() times out although bytes are still to come: recv() returns false and
\* the next call starts over in sync().
TimeoutEarly ==
  /\ phase = "body" /\ wire # <<>>
  /\ spoiled < MaxFaults
  /\ phase' = "sync" /\ head' = 0 /\ body' = <<>>
  /\ spoiled' = spoiled + 1
  /\ UNCHANGED <<sent, wire, window, delivered, dropped>>

\* Mutant of TimeoutSilent: recv() asks for the byte again.
TimeoutIgnored ==
  /\ phase = "body" /\ wire = <<>>
  /\ UNCHANGED vars

\* rx() times out on a line that has gone silent.  In sync() this changes
\* nothing: the window is kept for the next call.
TimeoutSilent ==
  /\ phase = "body" /\ wire = <<>>
  /\ phase' = "sync" /\ head' = 0 /\ body' = <<>>
  /\ UNCHANGED <<sent, wire, window, delivered, spoiled, dropped>>

-----------------------------------------------------------------------------
(* The line *)

DropByte(i) ==
  /\ wire' = SubSeq(wire, 1, i - 1) \o SubSeq(wire, i + 1, Len(wire))
  /\ dropped' = dropped + 1

DamageByte(i) == wire' = [wire EXCEPT ![i] = Noise] /\ UNCHANGED dropped

InsertByte(i) ==
  /\ wire' = SubSeq(wire, 1, i - 1) \o <<Noise>> \o SubSeq(wire, i, Len(wire))
  /\ UNCHANGED dropped

Spoil ==
  /\ spoiled < MaxFaults
  /\ \E i \in 1 .. Len(wire) : DropByte(i) \/ DamageByte(i) \/ InsertByte(i)
  /\ spoiled' = spoiled + 1
  /\ UNCHANGED <<sent, window, phase, head, body, delivered>>

-----------------------------------------------------------------------------

Receive == SyncByte \/ BodyByte

Next == (\E f \in Frames : Send(f)) \/ Receive \/ TimeoutEarly \/ TimeoutSilent \/ Spoil

Spec == Init /\ [][Next]_vars

\* poll() is called in a loop, and rx() ends with a byte or a timeout.
FairSpec == Spec /\ WF_vars(Receive) /\ WF_vars(TimeoutSilent)

-----------------------------------------------------------------------------
(***************************************************************************)
(* Properties                                                              *)
(***************************************************************************)

Byte == {Noise} \cup [frame : Nat \ {0}, pos : Nat \ {0}]

TypeOK ==
  /\ sent \in Seq(Frames)
  /\ wire \in Seq(Byte)
  /\ window \in Seq(Byte) /\ Len(window) <= HeadLen
  /\ phase \in {"sync", "body"}
  /\ head \in 0 .. Len(sent)
  /\ phase = "body" <=> head # 0
  /\ body \in Seq(Byte)
  /\ delivered \in Seq(1 .. Len(sent))
  /\ spoiled \in Nat /\ dropped \in Nat

\* Frames recv() can return: addressed to this station and within its buffer.
Wanted(f) == f.to = Address /\ f.size <= Capacity

\* The receiver is a channel that loses frames at worst: recv() returns no frame
\* twice, none out of order, none for another station and none it had to cut.
Channel == INSTANCE FrameChannel
ImplementsChannel == Channel!Spec

\* Frames that are gone for good once the line is silent and recv() is in sync().
Lost ==
  {n \in 1 .. Len(sent) : Wanted(sent[n])} \ {delivered[i] : i \in 1 .. Len(delivered)}

\* Resynchronisation: a spoiled byte or a timeout costs at most the frame it hits,
\* a dropped byte at most the next frame too, whose first byte recv() reads in its
\* place; stale bytes left in the window or on the line cost no further frame.
LossBounded ==
  wire = <<>> /\ phase = "sync" => Cardinality(Lost) <= spoiled + dropped

\* recv() never stays in a payload that does not arrive: the receiver reads the
\* line empty and is back in sync(), where the next header is found.
ReturnsToSync == wire # <<>> \/ phase = "body" ~> wire = <<>> /\ phase = "sync"
=============================================================================
