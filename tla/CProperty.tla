------------------------------ MODULE CProperty ------------------------------
(***************************************************************************)
(* The properties as the client sees them: get() and set() of              *)
(* include/CProperty.hpp and include/CRange.hpp, one request each, over    *)
(* the client and server of HostCS.                                        *)
(*                                                                         *)
(* The application calls one at a time.  It keeps the nonce it has read    *)
(* and the key it has set in client.secret; in the code these are the      *)
(* variables the calls fill or are given.                                  *)
(***************************************************************************)
EXTENDS HostCS

CONSTANTS
  CProps,      \* the client's properties: [kind, name, access, size], size in cells
  IdOf,        \* the ids the holder knows, by name
  Operations,  \* the calls: [do, prop, arg], see below
  InitSecret,  \* the key and nonce the client starts with
  Ciphertext   \* a value read from cells that are still encrypted

\* do is "get" or "set"; arg is the value to set, for a range to get <<0>> (Range)
\* or <<1>> (Absolute), and otherwise empty.
ASSUME CPropertyAssumption ==
  /\ CProps \subseteq [kind : {"value", "range"}, name : Cells, access : Access, size : Nat]
  /\ IdOf \in [DOMAIN IdOf -> Cells]
  /\ Operations \subseteq [do : {"get", "set"}, prop : CProps, arg : Seq(Cells)]
  /\ InitSecret \in [key : Cells, nonce : Cells]

VARIABLES
  secret,   \* client.secret
  op,       \* the call that runs or ran last
  result    \* what it returned: [err, value], E_PENDING before

callVars == <<secret, op, result>>
vars == <<csVars, callVars>>

-----------------------------------------------------------------------------

Privileged(o) ==
  o.prop.access \in (IF o.do = "get" THEN {"READ_WRITE_PROTECT", "READ_PROTECT"}
                                     ELSE {"READ_WRITE_PROTECT", "WRITE_PROTECT"})

\* Mutant of Payload: which of the two ranges is asked for is left at 0.
PayloadCurrent(o) ==
  <<IdOf[o.prop.name]>> \o (IF o.prop.kind = "range" THEN <<0>> ELSE <<>>)
    \o (IF o.do = "set" THEN o.arg ELSE <<>>)

\* What a call puts into client.extra: the id, which range, the value.
Payload(o) ==
  <<IdOf[o.prop.name]>>
    \o (IF o.prop.kind = "range" THEN IF o.do = "get" THEN o.arg ELSE <<0>> ELSE <<>>)
    \o (IF o.do = "set" THEN o.arg ELSE <<>>)

\* A range's get() and set() do not look whether their request fits into the buffer, and
\* need not: it is an id, a byte and two numbers, in 1024 bytes.
ASSUME RangesFit ==
  \A o \in Operations :
    o.prop.kind = "range" /\ o.prop.name \in DOMAIN IdOf => CanAdd(Empty, Payload(o))

\* The errors get() and set() return without a request.
LocalError(o) ==
  IF o.do = "set" /\ o.prop.access \in {"READ", "READ_PROTECT"} THEN "E_READ_ONLY"
  ELSE IF o.prop.name \notin DOMAIN IdOf THEN "E_ID_NOT_EXIST"
  ELSE IF o.prop.kind = "value" /\ ~CanAdd(Empty, Payload(o)) THEN "E_OUT_OF_BUFFER"
  ELSE "S_OK"

\* send(): the request as it goes out.
RequestOf(o) ==
  LET x == Added(Empty, Payload(o))
      y == IF Privileged(o) THEN Encrypt(x, secret) ELSE x
  IN [cmd |-> IF o.do = "get" THEN "GET_PROPERTY" ELSE "SET_PROPERTY",
      data |-> y.cells, seal |-> y.seal]

\* Mutant of Taken: the length of the answer is not tested.
TakenUnchecked(o, f) ==
  IF f.err # "S_OK" \/ o.do = "set" THEN [err |-> f.err, value |-> <<>>]
  ELSE [err |-> "S_OK", value |-> f.data]

\* What a call makes of the answer: extra.get(value) reads the cells as they are.
Taken(o, f) ==
  LET x == [cells |-> f.data, data |-> 0, seal |-> f.seal]
  IN IF f.err # "S_OK" \/ o.do = "set" THEN [err |-> f.err, value |-> <<>>]
     ELSE IF ~CanGet(x, o.prop.size) THEN [err |-> "E_FAIL", value |-> <<>>]
     ELSE [err |-> "S_OK", value |-> IF f.seal = NoSeal THEN Got(x, o.prop.size) ELSE Ciphertext]

\* What the application keeps of a call that went well.
Kept(o, r) ==
  LET id == IdOf[o.prop.name]
  IN CASE r.err = "S_OK" /\ o.do = "get" /\ id = NonceId /\ r.value # Ciphertext ->
            [key |-> secret.key, nonce |-> r.value[1]]
       [] r.err = "S_OK" /\ o.do = "set" /\ id = KeyId ->
            [key |-> o.arg[1], nonce |-> secret.nonce]
       [] OTHER -> secret

-----------------------------------------------------------------------------

NoOp == [do |-> "none"]
Pending == [err |-> "E_PENDING", value |-> <<>>]

CallInit == secret = InitSecret /\ op = NoOp /\ result = Pending

Init == CSInit /\ CallInit

\* A call that ends before a request is sent.
CallRefused(o) ==
  /\ waiting = "none" /\ LocalError(o) # "S_OK"
  /\ op' = o /\ result' = [err |-> LocalError(o), value |-> <<>>]
  /\ UNCHANGED <<csVars, secret>>

Call(o) ==
  /\ LocalError(o) = "S_OK"
  /\ Send(RequestOf(o))
  /\ op' = o /\ result' = Pending
  /\ UNCHANGED secret

Answered ==
  /\ Take
  /\ result' = Taken(op, Head(toClient).frame)
  /\ secret' = Kept(op, result')
  /\ UNCHANGED op

TimedOut ==
  /\ TimeoutSilent \/ TimeoutEarly
  /\ result' = [err |-> "E_TIMEOUT", value |-> <<>>]
  /\ UNCHANGED <<secret, op>>

Next ==
  \/ \E o \in Operations : CallRefused(o) \/ Call(o)
  \/ Answered \/ TimedOut
  \/ (PassOver \/ Elsewhere) /\ UNCHANGED callVars

Spec == Init /\ [][Next]_vars

ServerStep == (Serve \/ Return) /\ UNCHANGED callVars
ClientStep == (PassOver /\ UNCHANGED callVars) \/ Answered \/ (TimeoutSilent /\ TimedOut)

\* poll() is called in a loop, and rx() of the client ends with a byte or, on a
\* silent line, a timeout.
FairSpec == Spec /\ WF_vars(ServerStep) /\ WF_vars(ClientStep)

-----------------------------------------------------------------------------
(***************************************************************************)
(* Properties                                                              *)
(***************************************************************************)

\* A get() that succeeds delivers a whole T.
TypeOK ==
  /\ CSTypeOK
  /\ secret \in [key : Cells, nonce : Cells]
  /\ op \in Operations \cup {NoOp}
  /\ waiting # "none" => op # NoOp /\ result = Pending
  /\ result.value \in Seq(Cells) \cup {Ciphertext}
  /\ op # NoOp /\ op.do = "get" /\ result.err = "S_OK" /\ result.value # Ciphertext
       => Len(result.value) = op.prop.size

\* What the property of a call holds on the server.
Held(o) ==
  LET id == IdOf[o.prop.name]
  IN IF o.do = "get" /\ o.prop.kind = "range" /\ o.arg = <<1>> THEN Props[id].absolute
     ELSE values[id]

Succeeded == waiting = "none" /\ op # NoOp /\ result.err = "S_OK"

\* As long as no call has timed out, S_OK is the truth: get() returned what the
\* server holds, set() left there what it was given, whatever the line lost and
\* the server logged.
SuccessTruthful ==
  Succeeded /\ timeouts = 0 => Held(op) = IF op.do = "get" THEN result.value ELSE op.arg

\* ErrorCode::S_OK: executed successfully (Types.hpp).
SuccessMeansDone == Succeeded /\ op.do = "set" => Held(op) = op.arg

\* As long as no call has timed out, client and server agree on the key between
\* calls, although one changes it before and the other after the answer.
KeysAgree == waiting = "none" /\ timeouts = 0 => secret.key = values[KeyId][1]

-----------------------------------------------------------------------------
(* What the theorems assume of the application *)

\* The requests of its calls are among those the server's theorems are about.
RequestsKnown ==
  \A o \in Operations : LocalError(o) = "S_OK" =>
    \A seal \in Seal : [cmd |-> IF o.do = "get" THEN "GET_PROPERTY" ELSE "SET_PROPERTY",
                        data |-> Payload(o), seal |-> seal] \in Requests

\* A property of the client that a request is sent for is declared with the type the
\* server's property has, and the two start with the same key.
Matched ==
  /\ InitSecret.key = InitValues[KeyId][1]
  /\ \A o \in Operations : LocalError(o) = "S_OK" =>
       LET id == IdOf[o.prop.name]
       IN /\ id \in Ids /\ o.prop.size = Len(InitValues[id])
          /\ Props[id].kind \in (IF o.prop.kind = "range" THEN {"range"} ELSE {"value", "key"})
          /\ o.do = "set" => Len(o.arg) = o.prop.size
          /\ o.do = "get" /\ o.prop.kind = "range" => o.arg \in {<<0>>, <<1>>}
=============================================================================
