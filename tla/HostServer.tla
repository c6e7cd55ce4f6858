------------------------------ MODULE HostServer ------------------------------
(***************************************************************************)
(* poll() of src/HostServer.cpp: a request comes in, is decrypted, checked *)
(* and served, an answer goes out and the nonce is renewed.                *)
(*                                                                         *)
(* poll() runs in one thread and touches nothing the client can see before *)
(* the answer is sent, so a turn of it is one step.  Framing is the matter *)
(* of module HostBase: here a request is a payload recv() has returned.    *)
(***************************************************************************)
EXTENDS Property

CONSTANTS
  KeyId, NonceId,   \* the properties that hold secret.key and secret.nonce
  InitValues,       \* the values of the properties at the start
  Requests,         \* frames that come in: [cmd, data, seal], NoSeal when plain
  Nonces            \* what update_nonce() may choose from

ServerConstants ==
  /\ KeyId \in Ids /\ Props[KeyId].kind = "key"
  /\ NonceId \in Ids /\ Props[NonceId].kind = "value" /\ Props[NonceId].access = "READ"
  /\ InitValues \in [Ids -> Seq(Cells)]
  /\ \A id \in Ids : Len(InitValues[id]) <= MaxCell
  /\ Len(InitValues[KeyId]) = 1 /\ Len(InitValues[NonceId]) = 1
  /\ \A id \in Ids : Props[id].kind = "range" => Len(InitValues[id]) = 2
  /\ MaxCell >= 4
  /\ \A q \in Requests :
       /\ q = [cmd |-> q.cmd, data |-> q.data, seal |-> q.seal]
       /\ q.cmd \in Command /\ q.seal \in Seal
       /\ q.data \in Seq(Cells) /\ Len(q.data) <= Capacity
  /\ Nonces \subseteq Cells

ASSUME ServerAssumption == ServerConstants

VARIABLES
  values,    \* the values of the properties, key and nonce among them
  request,   \* the request poll() served last
  reply,     \* the frame it sent in answer
  renewed    \* whether it called update_nonce()

vars == <<values, request, reply, renewed>>

-----------------------------------------------------------------------------

Secret(vals) == [key |-> vals[KeyId][1], nonce |-> vals[NonceId][1]]

\* The buffer recv() fills; an empty payload is not encrypted, whatever the mark.
Received(q) ==
  [cells |-> q.data, data |-> 0, seal |-> IF q.data = <<>> THEN NoSeal ELSE q.seal]

Encrypted(q) == Received(q).seal # NoSeal

Legible(vals, q) == Encrypted(q) => Opens(Received(q), Secret(vals))

\* The buffer poll() reads the request from.
Opened(vals, q) == IF Encrypted(q) THEN Decrypt(Received(q), Secret(vals)) ELSE Received(q)

\* send(): what has not been read is cut off, the rest encrypted if asked for.
Sent(cmd, err, x, encrypt, secret) ==
  LET y == Truncate(x)
      z == IF encrypt THEN Encrypt(y, secret) ELSE y
  IN [cmd |-> cmd, err |-> err, data |-> z.cells, seal |-> z.seal]

\* What serving a request comes to; "served" when poll() reaches its end.
Outcome(err, x, vals, served) == [err |-> err, extra |-> x, values |-> vals, served |-> served]

\* _acquire_and_verify()
Verify(vals, q) ==
  LET x == Opened(vals, q)
      id == Got(x, 1)[1]
  IN IF ~CanGet(x, 1) THEN "E_INVALID_ARG"
     ELSE IF id \notin Ids THEN "E_ID_NOT_EXIST"
     ELSE IF q.cmd = "SET_PROPERTY" THEN CheckWrite(Props[id].access, Encrypted(q))
     ELSE CheckRead(Props[id].access, Encrypted(q))

Rejected(vals, q) == Outcome("E_INVALID_ARG", Opened(vals, q), vals, FALSE)

Refused(vals, q) ==
  LET x == Opened(vals, q)
  IN Outcome(Verify(vals, q), IF CanGet(x, 1) THEN Skip(x, 1) ELSE x, vals, FALSE)

Echoed(vals, q) == Outcome("S_OK", ReadAll(Opened(vals, q)), vals, TRUE)

\* The method of the property the request names, on what follows the id.
Method(vals, q) ==
  LET x == Opened(vals, q)
      id == Got(x, 1)[1]
      rest == Skip(x, 1)
  IN CASE q.cmd = "GET_PROPERTY" -> Get(Props[id], vals[id], rest, Encrypted(q))
       [] q.cmd = "SET_PROPERTY" -> Set(Props[id], vals[id], rest)
       [] q.cmd = "GET_SIZE" -> GetSize(Props[id], vals[id])
       [] q.cmd = "GET_ACCESS" -> GetAccess(Props[id], vals[id])

Performed(vals, q) ==
  LET r == Method(vals, q)
      id == Got(Opened(vals, q), 1)[1]
  IN Outcome(r.err, r.extra, [vals EXCEPT ![id] = r.value], TRUE)

Unknown(vals, q) == Outcome("E_NO_IMPLEMENT", Opened(vals, q), vals, TRUE)

\* The switch of poll().
Serve(vals, q) ==
  CASE ~Legible(vals, q) -> Rejected(vals, q)
    [] Legible(vals, q) /\ q.cmd = "ECHO" -> Echoed(vals, q)
    [] Legible(vals, q) /\ q.cmd \in PropertyCommand /\ Verify(vals, q) # "S_OK" ->
         Refused(vals, q)
    [] Legible(vals, q) /\ q.cmd \in PropertyCommand /\ Verify(vals, q) = "S_OK" ->
         Performed(vals, q)
    [] Legible(vals, q) /\ q.cmd \in {"LOG", "other"} -> Unknown(vals, q)

\* The answer goes out under the key and nonce in force once the request is served.
Answered(vals, q) ==
  LET o == Serve(vals, q)
  IN Sent(q.cmd, o.err, o.extra, Encrypted(q) /\ Legible(vals, q), Secret(o.values))

-----------------------------------------------------------------------------

NoRequest == [cmd |-> "none", data |-> <<>>, seal |-> NoSeal]
NoReply == [cmd |-> "none", err |-> "S_OK", data |-> <<>>, seal |-> NoSeal]

Init ==
  /\ values = InitValues
  /\ request = NoRequest /\ reply = NoReply /\ renewed = FALSE

\* update_nonce(), at the end of poll() and for encrypted requests only.
Renew(o, q) ==
  \/ /\ o.served /\ Encrypted(q)
     /\ renewed' = TRUE
     /\ \E n \in Nonces : values' = [o.values EXCEPT ![NonceId] = <<n>>]
  \/ /\ ~(o.served /\ Encrypted(q))
     /\ renewed' = FALSE
     /\ values' = o.values

Poll(q) ==
  /\ request = NoRequest
  /\ request' = q
  /\ reply' = Answered(values, q)
  /\ Renew(Serve(values, q), q)

\* poll() has returned; nothing of the request is left, recv() resets the buffer.
Return ==
  /\ request # NoRequest
  /\ request' = NoRequest /\ reply' = NoReply /\ renewed' = FALSE
  /\ UNCHANGED values

Next == (\E q \in Requests : Poll(q)) \/ Return

Spec == Init /\ [][Next]_vars

-----------------------------------------------------------------------------
(***************************************************************************)
(* Properties                                                              *)
(***************************************************************************)

Frame == [cmd : Command, err : ErrorCode, data : Seq(Cells), seal : Seal]

\* The properties keep their lengths, and every frame sent fits a buffer: no
\* write() runs over the end of a property, no answer over the end of the buffer.
TypeOK ==
  /\ values \in [Ids -> Seq(Cells)]
  /\ \A id \in Ids : Len(values[id]) = Len(InitValues[id])
  /\ request \in Requests \cup {NoRequest}
  /\ reply \in Frame \cup {NoReply} /\ Len(reply.data) <= Capacity
  /\ renewed \in BOOLEAN

\* The client knows the key and the nonce the request was encrypted under.
Genuine(q) == q.data # <<>> /\ q.seal = Secret(values)

\* A request changes no property but the one it names, and that one only as the
\* table in Types.hpp grants: a SET_PROPERTY that is acknowledged, from a client
\* with the right key and the present nonce where the property is protected.
AccessRespected ==
  [][\A id \in Ids : values'[id] # values[id] =>
       \/ id = NonceId /\ renewed'
       \/ /\ request'.cmd = "SET_PROPERTY" /\ reply'.err = "S_OK"
          /\ request'.data[1] = id
          /\ MayWrite(Props[id].access, Genuine(request'))]_vars

Plain(q) == q.seal = NoSeal \/ q.data = <<>>

\* The properties as they are, but for cell c in those a plain client may not read.
Masked(c) ==
  [id \in Ids |-> IF MayRead(Props[id].access, FALSE) THEN values[id]
                  ELSE [k \in 1 .. Len(values[id]) |-> c]]

\* What a plain client is told does not depend on what it may not read: were those
\* properties any different, it would have got the same answer.  This covers the
\* leftovers of the request that error answers carry.
PlainAnswersIndependent ==
  [][request' # NoRequest /\ Plain(request') =>
       \A c \in Cells : reply' = Answered(Masked(c), request')]_vars

\* A client can open the answer to its request: it is encrypted under what the
\* request was encrypted under, although the request may have changed the key
\* and the nonce is about to change.
ReplyOpens == reply.seal # NoSeal => reply.seal = request.seal

\* How many cells of a request name the place it reads or writes.
PlaceLen(kind) == CASE kind = "memory" -> 3 [] kind = "range" -> 2 [] OTHER -> 1

\* A block that was written reads back: once a SET_PROPERTY is acknowledged, a
\* GET_PROPERTY of the same place returns what it carried, and the bytes of the
\* property outside that place are as before.
WriteReadsBack ==
  [][request'.cmd = "SET_PROPERTY" /\ reply'.err = "S_OK" =>
       LET q == request'
           id == q.data[1]
           place == SubSeq(q.data, 1, PlaceLen(Props[id].kind))
           size == IF Props[id].kind = "memory" THEN q.data[3] ELSE Len(values[id])
           back == Serve(values', [cmd |-> "GET_PROPERTY", data |-> place,
                                   seal |-> Secret(values')])
       IN /\ Props[id].kind # "key" =>
               /\ back.err = "S_OK"
               /\ back.extra.cells = SubSeq(q.data, Len(place) + 1, Len(place) + size)
          /\ Props[id].kind = "memory" =>
               \A k \in 1 .. Len(values[id]) \ (q.data[2] + 1 .. q.data[2] + size) :
                 values'[id][k] = values[id][k]]_vars

\* Every stored range lies within the absolute one and is not empty.
RangesWithinAbsolute ==
  \A id \in Ids : Props[id].kind = "range" =>
    /\ Props[id].absolute[1] <= values[id][1]
    /\ values[id][1] <= values[id][2]
    /\ values[id][2] <= Props[id].absolute[2]

\* The comment on update_nonce() (HostBase.hpp:73): it is called when an encrypted
\* packet has been answered.
EncryptedAnswerRenews == Encrypted(request) => renewed
=============================================================================
