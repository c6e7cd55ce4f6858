----------------------------- MODULE ClientProofs -----------------------------
(***************************************************************************)
(* What a client is told: by one call of get() or set() at a time, for any *)
(* properties, calls, losses and logs; by a set() of a server's address,   *)
(* for any number of servers on the line; and by all its objects together, *)
(* which takes what CMemoryProofs and CPropertyHolderProofs say of theirs. *)
(***************************************************************************)
EXTENDS Client, HostCSProofs

-----------------------------------------------------------------------------
(* The requests *)

\* What a call puts behind the id.
Behind(o) ==
  (IF o.prop.kind = "range" THEN IF o.do = "get" THEN o.arg ELSE <<0>> ELSE <<>>)
    \o (IF o.do = "set" THEN o.arg ELSE <<>>)

LEMMA PayloadType ==
  ASSUME NEW o \in Operations, LocalError(o) = "S_OK"
  PROVE  /\ o.prop.name \in DOMAIN IdOf /\ IdOf[o.prop.name] \in Cells
         /\ o.do \in {"get", "set"} /\ o.arg \in Seq(Cells) /\ o.prop.kind \in {"value", "range"}
         /\ Behind(o) \in Seq(Cells)
         /\ Payload(o) = <<IdOf[o.prop.name]>> \o Behind(o)
         /\ Payload(o) \in Seq(Cells) /\ Payload(o) # << >>
         /\ Payload(o)[1] = IdOf[o.prop.name]
<1>1. o.prop.name \in DOMAIN IdOf
  BY DEF LocalError
<1>2. /\ o.do \in {"get", "set"} /\ o.arg \in Seq(Cells) /\ o.prop \in CProps
      /\ IdOf[o.prop.name] \in Cells
  BY <1>1, CPropertyAssumption
<1>3. o.prop.kind \in {"value", "range"}
  BY <1>2, CPropertyAssumption
<1>4. << >> \in Seq(Cells) /\ <<0>> \in Seq(Cells) /\ <<IdOf[o.prop.name]>> \in Seq(Cells)
  BY <1>2, ExtraAssumption DEF Cells
<1>5. Behind(o) \in Seq(Cells)
  <2>1. \A s, t \in Seq(Cells) : s \o t \in Seq(Cells)
    OBVIOUS
  <2>2. /\ (IF o.prop.kind = "range" THEN IF o.do = "get" THEN o.arg ELSE <<0>> ELSE <<>>) \in Seq(Cells)
        /\ (IF o.do = "set" THEN o.arg ELSE <<>>) \in Seq(Cells)
    BY <1>2, <1>4
  <2>3. QED
    BY <2>1, <2>2 DEF Behind
<1>6. Payload(o) = <<IdOf[o.prop.name]>> \o Behind(o)
  <2>1. \A r, s, t \in Seq(Cells) : (r \o s) \o t = r \o (s \o t)
    OBVIOUS
  <2>2. /\ (IF o.prop.kind = "range" THEN IF o.do = "get" THEN o.arg ELSE <<0>> ELSE <<>>) \in Seq(Cells)
        /\ (IF o.do = "set" THEN o.arg ELSE <<>>) \in Seq(Cells)
    BY <1>2, <1>4
  <2>3. QED
    BY <1>4, <2>1, <2>2 DEF Behind, Payload
<1>7. ASSUME NEW c \in Cells, NEW s \in Seq(Cells)
      PROVE  <<c>> \o s \in Seq(Cells) /\ <<c>> \o s # << >> /\ (<<c>> \o s)[1] = c
  OBVIOUS
<1>8. QED
  BY <1>1, <1>2, <1>3, <1>5, <1>6, <1>7

\* send() puts the payload on the line, encrypted where the property asks for it.
LEMMA RequestMade ==
  ASSUME RequestsKnown, NEW o \in Operations, LocalError(o) = "S_OK",
         secret \in [key : Cells, nonce : Cells]
  PROVE  /\ RequestOf(o) \in Requests
         /\ RequestOf(o).cmd = IF o.do = "get" THEN "GET_PROPERTY" ELSE "SET_PROPERTY"
         /\ RequestOf(o).data = Payload(o)
         /\ ~Privileged(o) => RequestOf(o).seal = NoSeal
<1> DEFINE x == Added(Empty, Payload(o))
           y == IF Privileged(o) THEN Encrypt(x, secret) ELSE x
<1>1. x = [cells |-> Payload(o), data |-> Len(Payload(o)), seal |-> NoSeal]
  BY PayloadType, FirstAdded
<1> HIDE DEF x
<1>2. y.cells = Payload(o) /\ y.seal \in Seal /\ (~Privileged(o) => y.seal = NoSeal)
  BY <1>1 DEF Encrypt, Seal
<1>3. RequestOf(o) = [cmd |-> IF o.do = "get" THEN "GET_PROPERTY" ELSE "SET_PROPERTY",
                      data |-> y.cells, seal |-> y.seal]
  BY DEF RequestOf, x
<1> HIDE DEF y
<1>4. QED
  BY <1>2, <1>3 DEF RequestsKnown

-----------------------------------------------------------------------------
(* Types *)

\* The cells of an answer, as get() takes them.
LEMMA TakenFacts ==
  ASSUME NEW o \in Operations, NEW f \in Srv!Frame
  PROVE  LET r == Taken(o, f)
         IN /\ r.err = "S_OK" => f.err = "S_OK"
            /\ o.do = "set" => r.err = f.err
            /\ r.value \in Seq(Cells) \cup {Ciphertext}
            /\ r.err = "S_OK" /\ o.do = "get" =>
                 /\ o.prop.size <= Len(f.data)
                 /\ f.seal = NoSeal => r.value = SubSeq(f.data, 1, o.prop.size)
                 /\ f.seal # NoSeal => r.value = Ciphertext
                 /\ Len(SubSeq(f.data, 1, o.prop.size)) = o.prop.size
                 /\ SubSeq(f.data, 1, o.prop.size) \in Seq(Cells)
<1> DEFINE x == [cells |-> f.data, data |-> 0, seal |-> f.seal]
           n == o.prop.size
<1>1. o.prop.size \in Nat /\ f.data \in Seq(Cells) /\ o.do \in {"get", "set"}
  BY CPropertyAssumption, FrameFacts
<1>2. x.cells = f.data /\ x.data = 0
  OBVIOUS
<1>3. Remain(x) = Len(f.data) - 0 /\ Got(x, n) = SubSeq(f.data, 0 + 1, 0 + n)
  BY <1>2 DEF Remain, Got
<1>4. (CanGet(x, n) <=> n <= Len(f.data)) /\ Got(x, n) = SubSeq(f.data, 1, n)
  BY <1>1, <1>3 DEF CanGet
<1>5. n <= Len(f.data) => Len(SubSeq(f.data, 1, n)) = n /\ SubSeq(f.data, 1, n) \in Seq(Cells)
  BY <1>1
<1>6. CASE f.err # "S_OK" \/ o.do = "set"
  <2>1. Taken(o, f) = [err |-> f.err, value |-> <<>>]
    BY <1>6 DEF Taken
  <2>2. << >> \in Seq(Cells)
    OBVIOUS
  <2>3. QED
    BY <1>1, <1>6, <2>1, <2>2
<1>7. CASE ~(f.err # "S_OK" \/ o.do = "set") /\ ~CanGet(x, n)
  <2>1. Taken(o, f) = [err |-> "E_FAIL", value |-> <<>>]
    BY <1>7 DEF Taken
  <2>2. << >> \in Seq(Cells)
    OBVIOUS
  <2>3. QED
    BY <1>1, <1>7, <2>1, <2>2
<1>8. CASE ~(f.err # "S_OK" \/ o.do = "set") /\ CanGet(x, n)
  <2>1. Taken(o, f) = [err |-> "S_OK", value |-> IF f.seal = NoSeal THEN Got(x, n) ELSE Ciphertext]
    BY <1>8 DEF Taken
  <2>2. n <= Len(f.data)
    BY <1>4, <1>8
  <2> HIDE DEF x, n
  <2>3. QED
    BY <1>4, <1>5, <1>8, <2>1, <2>2 DEF n
<1>9. QED
  BY <1>6, <1>7, <1>8

\* What the client keeps of an answer is a key and a nonce.
LEMMA KeptType ==
  ASSUME Matched, NEW o \in Operations, LocalError(o) = "S_OK", NEW f \in Srv!Frame,
         secret \in [key : Cells, nonce : Cells]
  PROVE  /\ Kept(o, Taken(o, f)) \in [key : Cells, nonce : Cells]
         /\ Kept(o, Taken(o, f)).key =
              IF Taken(o, f).err = "S_OK" /\ o.do = "set" /\ IdOf[o.prop.name] = KeyId
              THEN o.arg[1] ELSE secret.key
<1> DEFINE r == Taken(o, f)
           id == IdOf[o.prop.name]
<1>1. CASE r.err = "S_OK" /\ o.do = "get" /\ id = NonceId /\ r.value # Ciphertext
  <2>1. Kept(o, r) = [key |-> secret.key, nonce |-> r.value[1]]
    BY <1>1 DEF Kept
  <2>2. o.prop.size = 1
    BY <1>1, ConstantFacts DEF Matched
  <2>3. r.value \in Seq(Cells) /\ Len(r.value) = 1
    BY <1>1, <2>2, TakenFacts
  <2> HIDE DEF r
  <2>4. r.value[1] \in Cells
    BY <2>3
  <2>5. QED
    BY <1>1, <2>1, <2>4 DEF r
<1>2. CASE r.err = "S_OK" /\ o.do = "set" /\ id = KeyId
  <2>1. Kept(o, r) = [key |-> o.arg[1], nonce |-> secret.nonce]
    BY <1>2 DEF Kept
  <2>2. Len(o.arg) = 1
    BY <1>2, ConstantFacts DEF Matched
  <2>3. o.arg \in Seq(Cells)
    BY PayloadType
  <2>4. o.arg[1] \in Cells
    BY <2>2, <2>3
  <2>5. QED
    BY <1>2, <2>1, <2>4
<1>3. CASE ~(r.err = "S_OK" /\ o.do = "get" /\ id = NonceId /\ r.value # Ciphertext)
           /\ ~(r.err = "S_OK" /\ o.do = "set" /\ id = KeyId)
  <2>1. Kept(o, r) = secret
    BY <1>3 DEF Kept
  <2>2. QED
    BY <1>3, <2>1
<1>4. QED
  BY <1>1, <1>2, <1>3

CallTypes ==
  /\ secret \in [key : Cells, nonce : Cells]
  /\ op \in Operations \cup {NoOp}
  /\ waiting # "none" => op \in Operations /\ LocalError(op) = "S_OK" /\ result = Pending
  /\ result.value \in Seq(Cells) \cup {Ciphertext}
  /\ op # NoOp /\ op.do = "get" /\ result.err = "S_OK" /\ result.value # Ciphertext
       => Len(result.value) = op.prop.size

\* The steps of the client are steps of a client of HostCS.
LEMMA StepIsCS ==
  RequestsKnown /\ CallTypes /\ [Next]_vars => [CSNext]_csVars
<1> SUFFICES ASSUME RequestsKnown, CallTypes, [Next]_vars PROVE [CSNext]_csVars
  OBVIOUS
<1>1. ASSUME NEW o \in Operations, Call(o) PROVE CSNext
  <2>1. RequestOf(o) \in Requests /\ Send(RequestOf(o))
    BY <1>1, RequestMade DEF Call, CallTypes
  <2>2. QED
    BY <2>1 DEF CSNext
<1>2. ASSUME NEW o \in Operations, CallRefused(o) PROVE UNCHANGED csVars
  BY <1>2 DEF CallRefused
<1>3. CASE Answered \/ TimedOut \/ (PassOver \/ Elsewhere)
  BY <1>3 DEF Answered, TimedOut, CSNext
<1>4. QED
  BY <1>1, <1>2, <1>3 DEF Next, vars

LEMMA NextCallTypes ==
  Matched /\ CallTypes /\ CSTypeOK /\ [Next]_vars => CallTypes'
<1> SUFFICES ASSUME Matched, CallTypes, CSTypeOK, [Next]_vars PROVE CallTypes'
  OBVIOUS
<1>0. << >> \in Seq(Cells) /\ Pending.value = << >> /\ Pending.err # "S_OK"
  BY DEF Pending
<1>1. ASSUME NEW o \in Operations, Call(o) PROVE CallTypes'
  BY <1>0, <1>1 DEF Call, CallTypes
<1>2. ASSUME NEW o \in Operations, CallRefused(o) PROVE CallTypes'
  <2>1. /\ waiting' = "none" /\ op' = o /\ secret' = secret
        /\ result' = [err |-> LocalError(o), value |-> <<>>] /\ LocalError(o) # "S_OK"
    BY <1>2 DEF CallRefused, csVars, clientVars
  <2>2. QED
    BY <1>0, <2>1 DEF CallTypes
<1>3. CASE Answered
  <2> DEFINE f == Head(toClient).frame
  <2>1. /\ toClient # << >> /\ waiting # "none" /\ waiting' = "none" /\ op' = op
        /\ result' = Taken(op, f) /\ secret' = Kept(op, Taken(op, f))
    BY <1>3 DEF Answered, Take
  <2>2. op \in Operations /\ LocalError(op) = "S_OK" /\ f \in Srv!Frame
    BY <2>1, HeadIsFrame DEF CallTypes
  <2> HIDE DEF f
  <2>3. secret' \in [key : Cells, nonce : Cells]
    BY <2>1, <2>2, KeptType DEF CallTypes
  <2>4. /\ result'.value \in Seq(Cells) \cup {Ciphertext}
        /\ op.do = "get" /\ result'.err = "S_OK" /\ result'.value # Ciphertext
             => Len(result'.value) = op.prop.size
    BY <2>1, <2>2, TakenFacts
  <2>5. QED
    BY <2>1, <2>2, <2>3, <2>4 DEF CallTypes
<1>4. CASE TimedOut
  <2>1. /\ waiting' = "none" /\ UNCHANGED <<op, secret>>
        /\ result' = [err |-> "E_TIMEOUT", value |-> <<>>]
    BY <1>4 DEF TimedOut, TimeoutSilent, TimeoutEarly, GiveUp
  <2>2. QED
    BY <1>0, <2>1 DEF CallTypes
<1>5. CASE (PassOver \/ Elsewhere) /\ UNCHANGED callVars
  <2>1. UNCHANGED <<waiting, secret, op, result>>
    BY <1>5 DEF callVars, PassOver, Elsewhere, Serve, Return, Log, LoseRequest, LoseAnswer, clientVars
  <2>2. QED
    BY <2>1 DEF CallTypes
<1>6. CASE UNCHANGED vars
  BY <1>6 DEF vars, csVars, clientVars, callVars, CallTypes
<1>7. QED
  BY <1>1, <1>2, <1>3, <1>4, <1>5, <1>6 DEF Next

-----------------------------------------------------------------------------
(* What a call leaves on the server, and what it returns *)

\* The request of a call: what it names, and that it is plain unless the property is
\* protected.
Made(o, q) ==
  /\ q.cmd = IF o.do = "get" THEN "GET_PROPERTY" ELSE "SET_PROPERTY"
  /\ q.data = Payload(o)
  /\ ~Privileged(o) => q.seal = NoSeal

\* Held, for any values.
HeldIn(vals, o) ==
  LET id == IdOf[o.prop.name]
  IN IF o.do = "get" /\ o.prop.kind = "range" /\ o.arg = <<1>> THEN Props[id].absolute
     ELSE vals[id]

\* What S_OK says of a call: of a get() of a property that is not protected, or a set().
RightIn(vals, o, r) ==
  r.err = "S_OK" /\ (o.do = "get" => ~Privileged(o)) =>
    HeldIn(vals, o) = IF o.do = "get" THEN r.value ELSE o.arg

\* The key the client holds after a call.
KeyAfter(o, r, key) ==
  IF r.err = "S_OK" /\ o.do = "set" /\ IdOf[o.prop.name] = KeyId THEN o.arg[1] ELSE key

\* The payload, cell by cell.
LEMMA PayloadCells ==
  ASSUME NEW o \in Operations, LocalError(o) = "S_OK"
  PROVE  /\ o.do = "get" /\ o.prop.kind = "range" => Payload(o) = <<IdOf[o.prop.name]>> \o o.arg
         /\ o.do = "set" /\ o.prop.kind = "value" => Payload(o) = <<IdOf[o.prop.name]>> \o o.arg
         /\ o.do = "set" /\ o.prop.kind = "range" => Payload(o) = <<IdOf[o.prop.name], 0>> \o o.arg
<1>1. /\ o.arg \in Seq(Cells) /\ o.prop.kind \in {"value", "range"} /\ o.do \in {"get", "set"}
      /\ Payload(o) = <<IdOf[o.prop.name]>> \o Behind(o) /\ IdOf[o.prop.name] \in Cells
  BY PayloadType
<1>2. << >> \o o.arg = o.arg /\ o.arg \o << >> = o.arg
  BY <1>1
<1>3. ASSUME NEW c \in Cells, NEW s \in Seq(Cells), 0 \in Cells
      PROVE  <<c>> \o (<<0>> \o s) = <<c, 0>> \o s
  BY <1>3
<1>4. 0 \in Cells
  BY ExtraAssumption DEF Cells
<1>5. CASE o.do = "get" /\ o.prop.kind = "range"
  <2>1. Behind(o) = o.arg
    BY <1>2, <1>5 DEF Behind
  <2>2. QED
    BY <1>1, <1>5, <2>1
<1>6. CASE o.do = "set" /\ o.prop.kind = "value"
  <2>1. Behind(o) = o.arg
    BY <1>2, <1>6 DEF Behind
  <2>2. QED
    BY <1>1, <1>6, <2>1
<1>7. CASE o.do = "set" /\ o.prop.kind = "range"
  <2>1. Behind(o) = <<0>> \o o.arg
    BY <1>7 DEF Behind
  <2>2. QED
    BY <1>1, <1>3, <1>4, <1>7, <2>1
<1>8. QED
  BY <1>5, <1>6, <1>7

\* The request of a call, as the server sees it.
LEMMA MadeFacts ==
  ASSUME Matched, NEW o \in Operations, LocalError(o) = "S_OK", Srv!TypeOK,
         NEW q \in Requests, Made(o, q), Srv!Poll(q)
  PROVE  LET id == IdOf[o.prop.name]
         IN /\ id \in Ids /\ q.data[1] = id /\ id \in Srv!Ids
            /\ values \in [Ids -> Seq(Cells)] /\ Len(values[id]) = o.prop.size
            /\ o.prop.size \in Nat /\ values[id] \in Seq(Cells)
            /\ values' \in [Ids -> Seq(Cells)]
            /\ ~Privileged(o) => Srv!Plain(q)
<1> DEFINE id == IdOf[o.prop.name]
<1>1. id \in Ids /\ o.prop.size = Len(InitValues[id])
  BY DEF Matched
<1>2. q.data[1] = id
  BY PayloadType DEF Made
<1>3. Srv!Typed(values) /\ Srv!Typed(values')
  BY PollTypes
<1>4. values \in [Ids -> Seq(Cells)] /\ Len(values[id]) = o.prop.size /\ values' \in [Ids -> Seq(Cells)]
  BY <1>1, <1>3, ConstantFacts DEF Srv!Typed
<1>5. values[id] \in Seq(Cells)
  BY <1>1, <1>4
<1>6. ~Privileged(o) => Srv!Plain(q)
  BY DEF Made, Srv!Plain
<1>7. QED
  BY <1>1, <1>2, <1>4, <1>5, <1>6, ConstantFacts

\* get(): it changes no property but the nonce, and S_OK comes with what the property
\* holds.
LEMMA GetServed ==
  ASSUME Matched, NEW o \in Operations, LocalError(o) = "S_OK", Srv!TypeOK,
         NEW q \in Requests, Made(o, q), Srv!Poll(q),
         o.do = "get", ~Privileged(o), reply'.err = "S_OK"
  PROVE  /\ values' = values
         /\ reply'.seal = NoSeal /\ SubSeq(reply'.data, 1, o.prop.size) = HeldIn(values, o)
<1> DEFINE id == IdOf[o.prop.name]
           f == Srv!Answered(values, q)
<1>1. Srv!Request(q) /\ Srv!Typed(values) /\ Srv!Typed(values') /\ reply' = f /\ f \in Srv!Frame
  BY PollTypes
<1>2. /\ id \in Ids /\ q.data[1] = id /\ id \in Srv!Ids
      /\ values \in [Ids -> Seq(Cells)] /\ Len(values[id]) = o.prop.size
      /\ o.prop.size \in Nat /\ values[id] \in Seq(Cells)
      /\ values' \in [Ids -> Seq(Cells)]
      /\ Srv!Plain(q)
  BY MadeFacts
<1>3. q.cmd = "GET_PROPERTY" /\ f.err = "S_OK" /\ q.cmd # "SET_PROPERTY"
  BY <1>1 DEF Made
<1> HIDE DEF id, f
<1>4. reply'.seal = NoSeal
  BY <1>1, <1>2, ServerAssumptions, Srv!PlainTold DEF f
<1>5. values' = values
  <2>1. values' = Srv!Serve(values, q).values
    BY <1>1, <1>2, ServerAssumptions, Srv!PollKeeps
  <2>2. \A j \in Srv!Ids : Srv!Serve(values, q).values[j] = values[j]
    BY <1>1, <1>3, ServerAssumptions, Srv!FailedChangesNothing
  <2>3. \A j \in Ids : values'[j] = values[j]
    BY <2>1, <2>2, ConstantFacts
  <2>4. QED
    BY <1>2, <2>3
<1>6. CASE o.prop.kind = "range"
  <2>1. Props[q.data[1]].kind = "range"
    BY <1>2, <1>6 DEF Matched, id
  <2>2. \/ q.data[2] = 0 /\ f.data = values[id]
        \/ q.data[2] = 1 /\ f.data = Props[id].absolute
    BY <1>1, <1>2, <1>3, <2>1, ServerAssumptions, Srv!RangeTold DEF f
  <2>3. o.arg \in {<<0>>, <<1>>} /\ q.data = <<id>> \o o.arg
    BY <1>6, PayloadCells DEF Matched, Made, id
  <2>4. q.data[2] = o.arg[1]
    <3>1. ASSUME NEW c, NEW d PROVE (<<c>> \o <<d>>)[2] = d
      OBVIOUS
    <3>2. QED
      BY <2>3, <3>1
  <2>5. CASE o.arg = <<0>>
    <3>1. f.data = values[id]
      BY <2>2, <2>4, <2>5
    <3>2. HeldIn(values, o) = values[id]
      <4>1. <<0>>[1] = 0 /\ <<1>>[1] = 1
        OBVIOUS
      <4>2. o.arg # <<1>>
        BY <2>5, <4>1
      <4>3. QED
        BY <4>2 DEF HeldIn, id
    <3>3. ASSUME NEW s \in Seq(Cells) PROVE SubSeq(s, 1, Len(s)) = s
      OBVIOUS
    <3>4. QED
      BY <1>1, <1>2, <1>4, <1>5, <3>1, <3>2, <3>3
  <2>6. CASE o.arg = <<1>>
    <3>1. f.data = Props[id].absolute
      BY <2>2, <2>4, <2>6
    <3>2. HeldIn(values, o) = Props[id].absolute
      BY <1>6, <2>6 DEF HeldIn, id
    <3>3. Props[id].absolute \in [1 .. 2 -> Cells]
      BY <1>2, PropsAssumption
    <3>4. o.prop.size = 2
      <4>1. Len(InitValues[id]) = 2
        BY <1>2, <2>1, ServerAssumptions DEF Srv!ServerConstants
      <4>2. QED
        BY <4>1 DEF Matched, id
    <3>5. f.data \in Seq(Cells)
      BY <1>1, FrameFacts
    <3>6. ASSUME NEW s \in [1 .. 2 -> Cells] PROVE SubSeq(s, 1, 2) = s
      <4>1. [k \in 1 .. 2 |-> s[k]] \in Seq(Cells) /\ Len([k \in 1 .. 2 |-> s[k]]) = 2
        BY <3>6
      <4>2. s = [k \in 1 .. 2 |-> s[k]]
        BY <3>6
      <4>3. s \in Seq(Cells) /\ Len(s) = 2
        BY <4>1, <4>2
      <4>4. ASSUME NEW r \in Seq(Cells), Len(r) = 2 PROVE SubSeq(r, 1, 2) = r
        BY <4>4
      <4>5. QED
        BY <4>3, <4>4
    <3>7. QED
      BY <1>1, <1>4, <1>5, <3>1, <3>2, <3>3, <3>4, <3>5, <3>6
  <2>7. QED
    BY <2>3, <2>5, <2>6
<1>7. CASE o.prop.kind # "range"
  <2>1. Props[q.data[1]].kind # "key"
    BY <1>1, <1>3, ServerAssumptions, Srv!KeyNotTold DEF f
  <2>2. Props[q.data[1]].kind = "value"
    BY <1>2, <1>7, <2>1 DEF Matched, id
  <2>3. f.data = values[id]
    BY <1>1, <1>2, <1>3, <2>2, ServerAssumptions, Srv!ValueTold DEF f
  <2>4. HeldIn(values, o) = values[id]
    BY <1>7 DEF HeldIn, id
  <2>5. ASSUME NEW s \in Seq(Cells) PROVE SubSeq(s, 1, Len(s)) = s
    OBVIOUS
  <2>6. QED
    BY <1>1, <1>2, <1>4, <1>5, <2>3, <2>4, <2>5
<1>8. QED
  BY <1>6, <1>7

\* set(): S_OK says that the property holds what was sent, and no other has changed but
\* the nonce.
LEMMA SetServed ==
  ASSUME Matched, NEW o \in Operations, LocalError(o) = "S_OK", Srv!TypeOK,
         NEW q \in Requests, Made(o, q), Srv!Poll(q),
         o.do = "set", reply'.err = "S_OK"
  PROVE  LET id == IdOf[o.prop.name]
         IN values'[id] = o.arg /\ (id # KeyId => values'[KeyId] = values[KeyId])
<1> DEFINE id == IdOf[o.prop.name]
           f == Srv!Answered(values, q)
<1>1. Srv!Request(q) /\ Srv!Typed(values) /\ Srv!Typed(values') /\ reply' = f /\ f \in Srv!Frame
  BY PollTypes
<1>2. /\ id \in Ids /\ q.data[1] = id /\ id \in Srv!Ids
      /\ values \in [Ids -> Seq(Cells)] /\ Len(values[id]) = o.prop.size
      /\ o.prop.size \in Nat /\ values[id] \in Seq(Cells)
  BY MadeFacts
<1>3. q.cmd = "SET_PROPERTY" /\ f.err = "S_OK" /\ q.data = Payload(o)
  BY <1>1 DEF Made
<1>4. /\ o.arg \in Seq(Cells) /\ Len(o.arg) = o.prop.size /\ id \in Cells
      /\ o.prop.kind \in {"value", "range"}
  BY PayloadType DEF Matched
<1> HIDE DEF id, f
<1>5. id # NonceId
  BY <1>1, <1>2, <1>3, ServerAssumptions, Srv!NonceNotSet DEF f
<1>6. \A j \in Ids : j # NonceId => values'[j] = Srv!Serve(values, q).values[j]
  BY <1>1, ConstantFacts, ServerAssumptions, Srv!PollKeeps
<1>7. Srv!Serve(values, q).values = [values EXCEPT ![id] = o.arg]
  <2>1. CASE o.prop.kind = "range"
    <3>1. Props[q.data[1]].kind = "range"
      BY <1>2, <2>1 DEF Matched, id
    <3>2. Srv!Serve(values, q).values = [values EXCEPT ![id] = SubSeq(q.data, 3, 4)]
      BY <1>1, <1>2, <1>3, <3>1, ServerAssumptions, Srv!RangeSet DEF f
    <3>3. Len(o.arg) = 2
      <4>1. Len(InitValues[id]) = 2
        BY <1>2, <3>1, ServerAssumptions DEF Srv!ServerConstants
      <4>2. QED
        BY <1>4, <4>1 DEF Matched, id
    <3>4. q.data = <<id, 0>> \o o.arg
      BY <1>3, <2>1, PayloadCells DEF id
    <3>5. ASSUME NEW c \in Cells, NEW s \in Seq(Cells), Len(s) = 2, 0 \in Cells
          PROVE  SubSeq(<<c, 0>> \o s, 3, 4) = s
      <4>1. <<c, 0>> \in Seq(Cells) /\ Len(<<c, 0>>) = 2
        BY <3>5
      <4>2. ASSUME NEW r \in Seq(Cells), NEW t \in Seq(Cells), Len(r) = 2, Len(t) = 2
            PROVE  SubSeq(r \o t, 3, 4) = t
        <5>1. SubSeq(r \o t, Len(r) + 1, Len(r) + Len(t)) = t
          BY BehindPart
        <5>2. Len(r) + 1 = 3 /\ Len(r) + Len(t) = 4
          BY <4>2
        <5>3. QED
          BY <5>1, <5>2, Zenon
      <4>3. QED
        BY <3>5, <4>1, <4>2
    <3>6. 0 \in Cells
      BY ExtraAssumption DEF Cells
    <3>7. SubSeq(q.data, 3, 4) = o.arg
      BY <1>4, <3>3, <3>4, <3>5, <3>6
    <3>8. QED
      BY <3>2, <3>7
  <2>2. CASE o.prop.kind = "value"
    <3>1. Props[q.data[1]].kind \in {"value", "key"}
      BY <1>2, <2>2 DEF Matched, id
    <3>2. Srv!Serve(values, q).values = [values EXCEPT ![id] = SubSeq(q.data, 2, 1 + Len(values[id]))]
      BY <1>1, <1>2, <1>3, <3>1, ServerAssumptions, Srv!ValueSet DEF f
    <3>3. q.data = <<id>> \o o.arg
      BY <1>3, <2>2, PayloadCells DEF id
    <3>4. ASSUME NEW c \in Cells, NEW s \in Seq(Cells)
          PROVE  SubSeq(<<c>> \o s, 2, 1 + Len(s)) = s
      OBVIOUS
    <3>5. SubSeq(q.data, 2, 1 + Len(values[id])) = o.arg
      BY <1>2, <1>4, <3>3, <3>4
    <3>6. QED
      BY <3>2, <3>5
  <2>3. QED
    BY <1>4, <2>1, <2>2
<1>8. QED
  BY <1>2, <1>5, <1>6, <1>7, ConstantFacts DEF id

LEMMA ServedRight ==
  ASSUME Matched, NEW o \in Operations, LocalError(o) = "S_OK", Srv!TypeOK,
         NEW q \in Requests, Made(o, q), Srv!Poll(q)
  PROVE  /\ reply' \in Srv!Frame
         /\ RightIn(values', o, Taken(o, reply'))
         /\ KeyAfter(o, Taken(o, reply'), values[KeyId][1]) = values'[KeyId][1]
<1> DEFINE id == IdOf[o.prop.name]
           f == reply'
<1>1. Srv!Request(q) /\ Srv!Typed(values) /\ f = Srv!Answered(values, q) /\ f \in Srv!Frame
  BY PollTypes
<1>2. o.do \in {"get", "set"}
  BY PayloadType
<1> HIDE DEF f, id
<1>3. Taken(o, f).err = "S_OK" => f.err = "S_OK"
  BY <1>1, TakenFacts
<1>4. o.do = "get" \/ f.err # "S_OK" => values'[KeyId] = values[KeyId]
  <2>1. SUFFICES ASSUME o.do = "get" \/ f.err # "S_OK" PROVE values'[KeyId] = values[KeyId]
    OBVIOUS
  <2>2. Srv!Answered(values, q).err # "S_OK" \/ q.cmd # "SET_PROPERTY"
    BY <1>1, <2>1 DEF Made
  <2>3. \A j \in Srv!Ids : Srv!Serve(values, q).values[j] = values[j]
    BY <1>1, <2>2, ServerAssumptions, Srv!FailedChangesNothing
  <2>4. \A j \in Srv!Ids : j # NonceId => values'[j] = Srv!Serve(values, q).values[j]
    BY <1>1, ServerAssumptions, Srv!PollKeeps
  <2>5. QED
    BY <2>3, <2>4, ConstantFacts
<1>5. CASE Taken(o, f).err # "S_OK"
  <2>1. o.do = "get" \/ f.err # "S_OK"
    BY <1>1, <1>2, <1>5, TakenFacts
  <2>2. QED
    BY <1>1, <1>4, <1>5, <2>1 DEF RightIn, KeyAfter, f
<1>6. CASE Taken(o, f).err = "S_OK" /\ o.do = "get"
  <2>1. KeyAfter(o, Taken(o, f), values[KeyId][1]) = values'[KeyId][1]
    BY <1>4, <1>6 DEF KeyAfter
  <2>2. ASSUME ~Privileged(o) PROVE HeldIn(values', o) = Taken(o, f).value
    <3>1. /\ values' = values /\ f.seal = NoSeal
          /\ SubSeq(f.data, 1, o.prop.size) = HeldIn(values, o)
      BY <1>3, <1>6, <2>2, GetServed DEF f
    <3>2. Taken(o, f).value = SubSeq(f.data, 1, o.prop.size)
      BY <1>1, <1>6, <3>1, TakenFacts
    <3>3. HeldIn(values', o) = HeldIn(values, o)
      BY <3>1
    <3>4. QED
      BY <3>1, <3>2, <3>3
  <2>3. QED
    BY <1>1, <1>6, <2>1, <2>2 DEF RightIn, f
<1>7. CASE Taken(o, f).err = "S_OK" /\ o.do = "set"
  <2>1. values'[id] = o.arg /\ (id # KeyId => values'[KeyId] = values[KeyId])
    BY <1>3, <1>7, SetServed DEF f, id
  <2>2. HeldIn(values', o) = o.arg
    BY <1>7, <2>1 DEF HeldIn, id
  <2>3. KeyAfter(o, Taken(o, f), values[KeyId][1]) = values'[KeyId][1]
    BY <1>7, <2>1 DEF KeyAfter, id
  <2>4. QED
    BY <1>1, <1>7, <2>2, <2>3 DEF RightIn, f
<1>8. QED
  BY <1>2, <1>5, <1>6, <1>7
-----------------------------------------------------------------------------
(* The invariant *)

\* While no call has timed out: between calls the client has the server's key and was
\* told the truth; a request on its way is that of the call that waits, made with that
\* key; and the answer that comes back is true now and will be when it is taken, for
\* nothing changes on the server until the next request.
Idle ==
  waiting = "none" => secret.key = values[KeyId][1] /\ RightIn(values, op, result)
Going ==
  \A q \in OnWay : q \in Requests /\ Made(op, q) /\ secret.key = values[KeyId][1]
Coming ==
  \A f \in Came : /\ f \in Srv!Frame /\ RightIn(values, op, Taken(op, f))
                  /\ KeyAfter(op, Taken(op, f), secret.key) = values[KeyId][1]

Truth == timeouts = 0 => Idle /\ Going /\ Coming

CallInv == LineSound /\ CallTypes /\ Truth

LEMMA InitCall == Matched /\ Init => CallInv
<1> SUFFICES ASSUME Matched, Init PROVE CallInv
  OBVIOUS
<1>1. LineSound
  BY InitSound DEF Init
<1>2. CallTypes
  <2>1. << >> \in Seq(Cells) /\ Pending.value = << >> /\ Pending.err = "E_PENDING"
    BY DEF Pending
  <2>2. QED
    BY <2>1, CPropertyAssumption DEF Init, CSInit, CallInit, CallTypes
<1>3. Truth
  <2>1. /\ values = InitValues /\ waiting = "none" /\ timeouts = 0
        /\ secret.key = InitValues[KeyId][1] /\ result.err # "S_OK"
    BY DEF Init, CSInit, CallInit, Server!Init, Pending, Matched
  <2>2. OnWay = {} /\ Came = {}
    BY <1>1, <2>1, IdleLine DEF LineSound
  <2>3. QED
    BY <2>1, <2>2 DEF Truth, Idle, Going, Coming, RightIn
<1>4. QED
  BY <1>1, <1>2, <1>3 DEF CallInv

LEMMA NextTruth ==
  ASSUME RequestsKnown, Matched, CallInv, CSTypeOK, Next, timeouts' = 0
  PROVE  Idle' /\ Going' /\ Coming'
<1>1. CSInv /\ Srv!TypeOK /\ CallTypes /\ timeouts \in Nat
  BY DEF CallInv, LineSound, Srv!IInv, CSInv, Typed
<1>2. ASSUME timeouts = 0 PROVE Idle /\ Going /\ Coming
  BY <1>2 DEF CallInv, Truth
<1>3. ASSUME NEW o \in Operations, CallRefused(o) PROVE Idle' /\ Going' /\ Coming'
  <2>1. /\ waiting = "none" /\ UNCHANGED <<csVars, secret>> /\ op' = o
        /\ result'.err # "S_OK"
    BY <1>3 DEF CallRefused
  <2>2. UNCHANGED <<waiting, values, timeouts>> /\ OnWay' \subseteq OnWay /\ Came' \subseteq Came
    BY <1>1, <2>1, QuietMoves
  <2>3. timeouts = 0
    BY <2>2
  <2>4. OnWay' = {} /\ Came' = {}
    BY <1>1, <2>1, <2>2, <2>3, IdleLine
  <2>5. Idle'
    BY <1>2, <2>1, <2>2, <2>3 DEF Idle, RightIn
  <2>6. QED
    BY <2>4, <2>5 DEF Going, Coming
<1>4. ASSUME NEW o \in Operations, Call(o) PROVE Idle' /\ Going' /\ Coming'
  <2> DEFINE q == RequestOf(o)
  <2>1. /\ LocalError(o) = "S_OK" /\ Send(q) /\ op' = o /\ secret' = secret
    BY <1>4 DEF Call
  <2>2. /\ q \in Requests /\ Made(o, q)
    BY <1>1, <2>1, RequestMade DEF CallTypes, Made
  <2> HIDE DEF q
  <2>3. waiting = "none" /\ waiting' = q.cmd /\ timeouts = 0
    BY <2>1 DEF Send
  <2>4. OnWay' = {q} /\ Came' = {} /\ values' = values
    BY <1>1, <2>1, <2>3, SendMoves
  <2>5. waiting' # "none"
    BY <2>2, <2>3 DEF Made
  <2>6. secret.key = values[KeyId][1]
    BY <1>2, <2>3 DEF Idle
  <2>7. QED
    BY <2>1, <2>2, <2>4, <2>5, <2>6 DEF Idle, Going, Coming
<1>5. CASE Answered
  <2> DEFINE f == Head(toClient).frame
  <2>1. /\ Take /\ op' = op /\ result' = Taken(op, f) /\ secret' = Kept(op, Taken(op, f))
    BY <1>5 DEF Answered
  <2>2. timeouts = 0
    BY <2>1 DEF Take
  <2>3. /\ f \in Came /\ waiting # "none" /\ waiting' = "none"
        /\ OnWay' = {} /\ Came' = {} /\ values' = values
    BY <1>1, <2>1, <2>2, TakeMoves
  <2> HIDE DEF f
  <2>4. /\ f \in Srv!Frame /\ RightIn(values, op, Taken(op, f))
        /\ KeyAfter(op, Taken(op, f), secret.key) = values[KeyId][1]
    BY <1>2, <2>2, <2>3 DEF Coming
  <2>5. secret'.key = KeyAfter(op, Taken(op, f), secret.key)
    BY <1>1, <2>1, <2>3, <2>4, KeptType DEF CallTypes, KeyAfter
  <2>6. Idle'
    BY <2>1, <2>3, <2>4, <2>5 DEF Idle
  <2>7. QED
    BY <2>3, <2>6 DEF Going, Coming
<1>6. CASE TimedOut
  <2>1. timeouts' = timeouts + 1
    BY <1>6 DEF TimedOut, TimeoutSilent, TimeoutEarly, GiveUp
  <2>2. QED
    BY <1>1, <2>1
<1>7. CASE Serve /\ UNCHANGED callVars
  <2>1. UNCHANGED <<timeouts, waiting, op, secret>>
    BY <1>7 DEF Serve, clientVars, callVars
  <2>2. timeouts = 0
    BY <2>1
  <2>3. PICK q \in OnWay :
          /\ Srv!Poll(q) /\ OnWay' = {} /\ Came' = {reply'} /\ waiting # "none"
    BY <1>1, <1>7, <2>2, ServeMoves
  <2>4. q \in Requests /\ Made(op, q) /\ secret.key = values[KeyId][1]
    BY <1>2, <2>2, <2>3 DEF Going
  <2>5. /\ reply' \in Srv!Frame
        /\ RightIn(values', op, Taken(op, reply'))
        /\ KeyAfter(op, Taken(op, reply'), values[KeyId][1]) = values'[KeyId][1]
    BY <1>1, <2>3, <2>4, ServedRight DEF CallTypes
  <2>6. Coming'
    BY <2>1, <2>3, <2>4, <2>5 DEF Coming
  <2>7. QED
    BY <2>1, <2>3, <2>6 DEF Idle, Going
<1>8. CASE (PassOver \/ Return \/ Log \/ LoseRequest \/ LoseAnswer) /\ UNCHANGED callVars
  <2>1. /\ OnWay' \subseteq OnWay /\ Came' \subseteq Came
        /\ UNCHANGED <<values, waiting, timeouts>>
    BY <1>1, <1>8, QuietMoves
  <2>2. UNCHANGED <<op, secret, result>>
    BY <1>8 DEF callVars
  <2>3. QED
    BY <1>2, <2>1, <2>2 DEF Idle, Going, Coming
<1>9. QED
  BY <1>3, <1>4, <1>5, <1>6, <1>7, <1>8 DEF Next, Elsewhere

LEMMA StillTruth ==
  ASSUME CallInv, UNCHANGED vars
  PROVE  Truth'
<1>1. UNCHANGED csVars /\ UNCHANGED <<op, secret, result>>
  BY DEF vars, callVars
<1>2. /\ OnWay' \subseteq OnWay /\ Came' \subseteq Came
      /\ UNCHANGED <<values, waiting, timeouts>>
  BY <1>1, QuietMoves DEF CallInv, LineSound
<1>3. QED
  BY <1>1, <1>2 DEF CallInv, Truth, Idle, Going, Coming

LEMMA NextCall == RequestsKnown /\ Matched /\ CallInv /\ [Next]_vars => CallInv'
<1> SUFFICES ASSUME RequestsKnown, Matched, CallInv, [Next]_vars PROVE CallInv'
  OBVIOUS
<1>1. CSTypeOK /\ [CSNext]_csVars
  BY SoundTyped, StepIsCS DEF CallInv
<1>2. LineSound'
  BY <1>1, NextSound DEF CallInv
<1>3. CallTypes'
  BY <1>1, NextCallTypes DEF CallInv
<1>4. Truth'
  <2>1. CASE Next
    BY <1>1, <2>1, NextTruth DEF Truth
  <2>2. CASE UNCHANGED vars
    BY <2>2, StillTruth
  <2>3. QED
    BY <2>1, <2>2
<1>5. QED
  BY <1>2, <1>3, <1>4 DEF CallInv

-----------------------------------------------------------------------------

LEMMA CallsTyped == CallInv => TypeOK
<1>1. CallInv => CSTypeOK
  BY SoundTyped DEF CallInv
<1>2. CallInv => (waiting # "none" => op # NoOp)
  <2>1. \A o \in Operations : o.do # "none"
    BY CPropertyAssumption
  <2>2. QED
    BY <2>1 DEF CallInv, CallTypes, NoOp
<1>3. QED
  BY <1>1, <1>2 DEF TypeOK, CallInv, CallTypes

\* The calls and the line keep their types: a get() that succeeds delivers a whole T,
\* and no call returns while it is pending.
THEOREM CallsTypeCorrect ==
  ASSUME RequestsKnown, Matched
  PROVE  Spec => []TypeOK
BY CallsTyped, InitCall, NextCall, PTL DEF Spec

LEMMA InvKeys == CallInv => KeysAgree
BY DEF CallInv, Truth, Idle, KeysAgree

LEMMA InvTruthful ==
  (\A o \in Operations : o.do = "get" => ~Privileged(o)) /\ CallInv => SuccessTruthful
<1> SUFFICES ASSUME \A o \in Operations : o.do = "get" => ~Privileged(o),
                    CallInv, Succeeded, timeouts = 0
             PROVE  Held(op) = IF op.do = "get" THEN result.value ELSE op.arg
  BY DEF SuccessTruthful
<1>1. op \in Operations /\ RightIn(values, op, result) /\ result.err = "S_OK"
  BY DEF CallInv, Truth, Idle, CallTypes, Succeeded
<1>2. Held(op) = HeldIn(values, op)
  BY DEF Held, HeldIn
<1>3. QED
  BY <1>1, <1>2 DEF RightIn

\* Without a timeout the client has the server's key whenever no call is under way,
\* although the server changes it before and the client after the answer.
THEOREM KeysAlwaysAgree ==
  ASSUME RequestsKnown, Matched
  PROVE  Spec => []KeysAgree
BY InvKeys, InitCall, NextCall, PTL DEF Spec

\* Without a timeout S_OK is the truth, whatever the line lost and the server logged: a
\* get() of a property that is not protected returned what the server holds, a set()
\* left there what it was given.
THEOREM SuccessAlwaysTruthful ==
  ASSUME RequestsKnown, Matched, \A o \in Operations : o.do = "get" => ~Privileged(o)
  PROVE  Spec => []SuccessTruthful
BY InvTruthful, InitCall, NextCall, PTL DEF Spec

-----------------------------------------------------------------------------
(* The address of a server *)

\* What an answer says of the line: it comes from the address its call has set, and if
\* that is the last call, a server is there that nothing more is on its way to.
Stays(n) == n = Len(sets) => \E s \in Station : address[s] = sets[n] /\ requests[s] = << >>

LineInv ==
  /\ Line!TypeOK
  /\ \A s \in Station : \A k \in 1 .. Len(requests[s]) : requests[s][k].call <= Len(sets)
  /\ \A s \in Station : \A j, k \in 1 .. Len(requests[s]) :
       j < k => requests[s][j].call < requests[s][k].call
  /\ \A k \in 1 .. Len(answers) :
       /\ answers[k].call <= Len(sets) /\ answers[k].address = sets[answers[k].call]
       /\ Stays(answers[k].call)
  /\ taken # 0 => sets[taken] = client /\ Stays(taken)

\* Every frame is of a call.
LEMMA FrameCalls ==
  ASSUME NEW q \in Seq(Line!Frame)
  PROVE  /\ Len(q) \in Nat
         /\ \A k \in 1 .. Len(q) : q[k] \in Line!Frame /\ q[k].call \in Int /\ q[k].call >= 1
<1>1. Len(q) \in Nat /\ \A k \in 1 .. Len(q) : q[k] \in Line!Frame
  OBVIOUS
<1>2. \A f \in Line!Frame : f.call \in Int /\ f.call >= 1
  BY DEF Line!Frame
<1>3. QED
  BY <1>1, <1>2

LEMMA InitLineInv == Line!AddressChangeAssumption => (Line!Init => LineInv)
<1> SUFFICES ASSUME Line!AddressChangeAssumption, Line!Init PROVE LineInv
  OBVIOUS
<1>1. << >> \in Seq(Line!Frame) /\ << >> \in Seq(Address) /\ Len(<< >>) = 0
  OBVIOUS
<1>2. /\ address \in [Station -> Address] /\ client \in Address
      /\ requests = [s \in Station |-> << >>] /\ answers = << >> /\ sets = << >>
      /\ asked = FALSE /\ taken = 0
  BY DEF Line!AddressChangeAssumption, Line!Init
<1>3. requests \in [Station -> Seq(Line!Frame)]
  BY <1>1, <1>2
<1>4. taken \in 0 .. Len(sets)
  BY <1>1, <1>2
<1>5. Line!TypeOK
  BY <1>1, <1>2, <1>3, <1>4 DEF Line!TypeOK
<1>6. QED
  BY <1>1, <1>2, <1>5 DEF LineInv

\* A call of set(): the answers that are still on their way are those of earlier calls.
LEMMA CallKeepsLine ==
  ASSUME Line!AddressChangeAssumption, LineInv, NEW new \in Address, Line!Call(new)
  PROVE  LineInv'
<1> DEFINE r == [address |-> client, call |-> Len(sets) + 1]
<1>0. Line!TypeOK
  BY DEF LineInv
<1>1. /\ sets \in Seq(Address) /\ Len(sets) \in Nat /\ Len(sets) < MaxSets /\ MaxSets \in Nat
      /\ sets' = Append(sets, new) /\ client \in Address
  BY <1>0 DEF Line!TypeOK, Line!Call, Line!AddressChangeAssumption
<1>2. /\ sets' \in Seq(Address) /\ Len(sets') = Len(sets) + 1
      /\ \A k \in 1 .. Len(sets) : sets'[k] = sets[k]
  BY <1>1
<1>3. r \in Line!Frame /\ r.call = Len(sets) + 1
  BY <1>1 DEF Line!Frame
<1>4. /\ asked' = TRUE /\ taken' = 0 /\ UNCHANGED <<address, client, answers>>
      /\ requests' = [s \in Station |-> Append(requests[s], r)]
  BY DEF Line!Call
<1>5. ASSUME NEW s \in Station
      PROVE  /\ requests[s] \in Seq(Line!Frame) /\ requests'[s] = Append(requests[s], r)
             /\ requests'[s] \in Seq(Line!Frame) /\ Len(requests'[s]) = Len(requests[s]) + 1
             /\ \A k \in 1 .. Len(requests'[s]) :
                  \/ k \in 1 .. Len(requests[s]) /\ requests'[s][k] = requests[s][k]
                  \/ k = Len(requests[s]) + 1 /\ requests'[s][k] = r
  <2>1. requests[s] \in Seq(Line!Frame) /\ requests'[s] = Append(requests[s], r)
    BY <1>0, <1>4 DEF Line!TypeOK
  <2> HIDE DEF r
  <2>2. QED
    BY <1>3, <2>1
<1> HIDE DEF r
<1>6. Line!TypeOK'
  <2>1. requests' \in [Station -> Seq(Line!Frame)]
    BY <1>4, <1>5
  <2>2. QED
    BY <1>0, <1>2, <1>4, <2>1 DEF Line!TypeOK
<1>7. \A s \in Station : \A k \in 1 .. Len(requests'[s]) : requests'[s][k].call <= Len(sets')
  <2>1. ASSUME NEW s \in Station, NEW k \in 1 .. Len(requests'[s])
        PROVE  requests'[s][k].call <= Len(sets')
    <3>1. CASE k \in 1 .. Len(requests[s]) /\ requests'[s][k] = requests[s][k]
      <4>1. requests[s][k].call \in Int /\ requests[s][k].call <= Len(sets)
        BY <1>5, <3>1, FrameCalls DEF LineInv
      <4>2. QED
        BY <1>1, <1>2, <3>1, <4>1
    <3>2. CASE requests'[s][k] = r
      BY <1>1, <1>2, <1>3, <3>2
    <3>3. QED
      BY <1>5, <3>1, <3>2
  <2>2. QED
    BY <2>1
<1>8. ASSUME NEW s \in Station, NEW j \in 1 .. Len(requests'[s]), NEW k \in 1 .. Len(requests'[s]), j < k
      PROVE  requests'[s][j].call < requests'[s][k].call
  <2>1. j \in 1 .. Len(requests[s]) /\ requests'[s][j] = requests[s][j]
    BY <1>5, <1>8
  <2>2. requests[s][j] \in Line!Frame /\ requests[s][j].call <= Len(sets) /\ requests[s][j].call \in Int
    BY <1>5, <2>1, FrameCalls DEF LineInv
  <2>3. CASE k \in 1 .. Len(requests[s]) /\ requests'[s][k] = requests[s][k]
    BY <1>8, <2>1, <2>3 DEF LineInv
  <2>4. CASE requests'[s][k] = r
    BY <1>1, <1>3, <2>1, <2>2, <2>4
  <2>5. QED
    BY <1>5, <2>3, <2>4
<1>9. ASSUME NEW k \in 1 .. Len(answers')
      PROVE  /\ answers'[k].call <= Len(sets') /\ answers'[k].address = sets'[answers'[k].call]
             /\ Stays(answers[k].call)'
  <2>1. /\ answers'[k] = answers[k] /\ k \in 1 .. Len(answers) /\ answers[k].call \in Int
        /\ answers[k].call >= 1
    <3>1. answers \in Seq(Line!Frame) /\ answers' = answers
      BY <1>0, <1>4 DEF Line!TypeOK
    <3>2. QED
      BY <3>1, FrameCalls
  <2>2. answers[k].call <= Len(sets) /\ answers[k].address = sets[answers[k].call]
    BY <2>1 DEF LineInv
  <2>3. QED
    BY <1>1, <1>2, <1>4, <2>1, <2>2 DEF Stays
<1>10. QED
  BY <1>4, <1>6, <1>7, <1>8, <1>9 DEF LineInv

\* The oldest request on its way to a server is read or lost: the rest are younger, and
\* none is left behind the last one.
LEMMA RequestGone ==
  ASSUME LineInv, NEW s \in Station, requests[s] # << >>,
         requests' = [requests EXCEPT ![s] = Tail(@)], sets' = sets
  PROVE  /\ requests' \in [Station -> Seq(Line!Frame)]
         /\ \A u \in Station : \A k \in 1 .. Len(requests'[u]) : requests'[u][k].call <= Len(sets')
         /\ \A u \in Station : \A j, k \in 1 .. Len(requests'[u]) :
              j < k => requests'[u][j].call < requests'[u][k].call
         /\ \A u \in Station : requests[u] = << >> => requests'[u] = << >>
         /\ Head(requests[s]) = requests[s][1] /\ requests[s][1] \in Line!Frame
         /\ requests[s][1].call \in Int /\ requests[s][1].call >= 1
         /\ requests[s][1].call <= Len(sets)
         /\ requests[s][1].call = Len(sets) => requests'[s] = << >>
<1>1. /\ requests \in [Station -> Seq(Line!Frame)] /\ requests[s] \in Seq(Line!Frame)
      /\ sets \in Seq(Address) /\ Len(sets) \in Nat
  BY DEF LineInv, Line!TypeOK
<1>2. /\ Tail(requests[s]) \in Seq(Line!Frame) /\ requests'[s] = Tail(requests[s])
      /\ Head(requests[s]) = requests[s][1] /\ 1 \in 1 .. Len(requests[s])
      /\ Len(requests[s]) \in Nat /\ Len(requests'[s]) = Len(requests[s]) - 1
      /\ \A k \in 1 .. Len(requests'[s]) :
           requests'[s][k] = requests[s][k + 1] /\ k + 1 \in 1 .. Len(requests[s])
  BY <1>1
<1>3. \A u \in Station : u # s => requests'[u] = requests[u]
  BY <1>1
<1>4. requests' \in [Station -> Seq(Line!Frame)]
  BY <1>1, <1>2
<1>5. \A u \in Station : \A k \in 1 .. Len(requests'[u]) : requests'[u][k].call <= Len(sets')
  BY <1>2, <1>3 DEF LineInv
<1>6. \A u \in Station : \A j, k \in 1 .. Len(requests'[u]) :
        j < k => requests'[u][j].call < requests'[u][k].call
  BY <1>2, <1>3 DEF LineInv
<1>7. /\ requests[s][1] \in Line!Frame /\ requests[s][1].call \in Int /\ requests[s][1].call >= 1
      /\ requests[s][1].call <= Len(sets)
  BY <1>1, <1>2, FrameCalls DEF LineInv
<1>8. ASSUME requests[s][1].call = Len(sets) PROVE requests'[s] = << >>
  <2>1. ASSUME 1 \in 1 .. Len(requests'[s]) PROVE FALSE
    <3>1. 2 \in 1 .. Len(requests[s])
      BY <1>2, <2>1
    <3>2. requests[s][1].call < requests[s][2].call /\ requests[s][2].call <= Len(sets)
          /\ requests[s][2].call \in Int
      BY <1>1, <1>2, <3>1, FrameCalls DEF LineInv
    <3>3. QED
      BY <1>1, <1>8, <3>2
  <2>2. QED
    BY <1>2, <2>1
<1>9. QED
  BY <1>2, <1>3, <1>4, <1>5, <1>6, <1>7, <1>8

\* The oldest answer is taken or lost.
LEMMA AnswerGone ==
  ASSUME LineInv, answers # << >>, answers' = Tail(answers), sets' = sets
  PROVE  /\ answers' \in Seq(Line!Frame)
         /\ \A k \in 1 .. Len(answers') :
              /\ answers'[k].call <= Len(sets') /\ answers'[k].address = sets'[answers'[k].call]
              /\ Stays(answers'[k].call)
         /\ Head(answers) \in Line!Frame /\ Stays(Head(answers).call)
         /\ Head(answers).call \in 1 .. Len(sets)
         /\ Head(answers).address = sets[Head(answers).call]
<1>1. answers \in Seq(Line!Frame) /\ sets \in Seq(Address)
  BY DEF LineInv, Line!TypeOK
<1>2. /\ Tail(answers) \in Seq(Line!Frame) /\ Head(answers) = answers[1]
      /\ 1 \in 1 .. Len(answers)
      /\ \A k \in 1 .. Len(answers') : answers'[k] = answers[k + 1] /\ k + 1 \in 1 .. Len(answers)
  BY <1>1
<1>3. \A k \in 1 .. Len(answers') :
        /\ answers'[k].call <= Len(sets') /\ answers'[k].address = sets'[answers'[k].call]
        /\ Stays(answers'[k].call)
  BY <1>2 DEF LineInv
<1>4. /\ answers[1] \in Line!Frame /\ answers[1].call \in Int /\ answers[1].call >= 1
      /\ answers[1].call <= Len(sets) /\ Len(sets) \in Nat
      /\ answers[1].address = sets[answers[1].call] /\ Stays(answers[1].call)
  BY <1>1, <1>2, FrameCalls DEF LineInv
<1>5. QED
  BY <1>2, <1>3, <1>4

\* What a server says stays true while nothing reaches it and none of its requests is new.
LEMMA StaysStays ==
  ASSUME NEW n, Stays(n), sets' = sets,
         \A s \in Station : requests[s] = << >> => requests'[s] = << >> /\ address'[s] = address[s]
  PROVE  Stays(n)'
BY DEF Stays

LEMMA ServeKeepsLine ==
  ASSUME LineInv, NEW s \in Station, Line!Serve(s)
  PROVE  LineInv'
<1> DEFINE r == Head(requests[s])
<1>0. /\ Line!TypeOK /\ address \in [Station -> Address] /\ sets \in Seq(Address)
      /\ answers \in Seq(Line!Frame) /\ Len(sets) \in Nat
  BY DEF LineInv, Line!TypeOK
<1>1. /\ requests[s] # << >> /\ requests' = [requests EXCEPT ![s] = Tail(@)]
      /\ UNCHANGED <<client, sets, asked, taken>>
      /\ \/ r.address # address[s] /\ UNCHANGED <<address, answers>>
         \/ /\ address' = [address EXCEPT ![s] = sets[r.call]]
            /\ answers' = Append(answers, [address |-> sets[r.call], call |-> r.call])
  BY DEF Line!Serve, Line!AnswerAddress
<1>2. /\ requests' \in [Station -> Seq(Line!Frame)]
      /\ \A u \in Station : \A k \in 1 .. Len(requests'[u]) : requests'[u][k].call <= Len(sets')
      /\ \A u \in Station : \A j, k \in 1 .. Len(requests'[u]) :
           j < k => requests'[u][j].call < requests'[u][k].call
      /\ \A u \in Station : requests[u] = << >> => requests'[u] = << >>
      /\ r \in Line!Frame /\ r.call \in 1 .. Len(sets)
      /\ r.call = Len(sets) => requests'[s] = << >>
  <2>1. requests[s] # << >> /\ requests' = [requests EXCEPT ![s] = Tail(@)] /\ sets' = sets
    BY <1>1
  <2>2. /\ requests' \in [Station -> Seq(Line!Frame)]
        /\ \A u \in Station : \A k \in 1 .. Len(requests'[u]) : requests'[u][k].call <= Len(sets')
        /\ \A u \in Station : \A j, k \in 1 .. Len(requests'[u]) :
             j < k => requests'[u][j].call < requests'[u][k].call
        /\ \A u \in Station : requests[u] = << >> => requests'[u] = << >>
        /\ r = requests[s][1] /\ requests[s][1] \in Line!Frame
        /\ requests[s][1].call \in Int /\ requests[s][1].call >= 1
        /\ requests[s][1].call <= Len(sets)
        /\ requests[s][1].call = Len(sets) => requests'[s] = << >>
    BY <2>1, RequestGone
  <2> HIDE DEF r
  <2>3. r \in Line!Frame /\ r.call \in 1 .. Len(sets) /\ (r.call = Len(sets) => requests'[s] = << >>)
    BY <1>0, <2>2
  <2>4. QED
    BY <2>2, <2>3
<1> HIDE DEF r
<1>3. sets[r.call] \in Address
  BY <1>0, <1>2
<1>4. address' \in [Station -> Address]
      /\ \A u \in Station : requests[u] = << >> => address'[u] = address[u]
  BY <1>0, <1>1, <1>3
<1>5. \A n : Stays(n) => Stays(n)'
  BY <1>1, <1>2, <1>4, StaysStays
<1>6. CASE UNCHANGED answers
  <2>1. Line!TypeOK'
    BY <1>0, <1>1, <1>2, <1>4, <1>6 DEF Line!TypeOK
  <2>2. QED
    BY <1>1, <1>2, <1>5, <1>6, <2>1 DEF LineInv
<1>7. CASE /\ address' = [address EXCEPT ![s] = sets[r.call]]
           /\ answers' = Append(answers, [address |-> sets[r.call], call |-> r.call])
  <2> DEFINE a == [address |-> sets[r.call], call |-> r.call]
  <2>1. a \in Line!Frame /\ a.call = r.call /\ a.address = sets[r.call]
    BY <1>2, <1>3 DEF Line!Frame
  <2> HIDE DEF a
  <2>2. answers' = Append(answers, a)
    BY <1>7 DEF a
  <2>3. /\ answers' \in Seq(Line!Frame)
        /\ \A k \in 1 .. Len(answers') :
             \/ k \in 1 .. Len(answers) /\ answers'[k] = answers[k]
             \/ answers'[k] = a
    BY <1>0, <2>1, <2>2
  <2>4. Line!TypeOK'
    BY <1>0, <1>1, <1>2, <1>4, <2>3 DEF Line!TypeOK
  <2>5. ASSUME r.call = Len(sets) PROVE address'[s] = sets[r.call] /\ requests'[s] = << >>
    BY <1>0, <1>2, <1>7, <2>5
  <2>6. \A k \in 1 .. Len(answers') :
          /\ answers'[k].call <= Len(sets') /\ answers'[k].address = sets'[answers'[k].call]
          /\ Stays(answers[k].call)'
    <3>1. ASSUME NEW k \in 1 .. Len(answers), answers'[k] = answers[k]
          PROVE  /\ answers'[k].call <= Len(sets') /\ answers'[k].address = sets'[answers'[k].call]
                 /\ Stays(answers[k].call)'
      <4>1. /\ answers[k].call <= Len(sets) /\ answers[k].address = sets[answers[k].call]
            /\ Stays(answers[k].call)
        BY DEF LineInv
      <4>2. QED
        BY <1>1, <1>2, <1>4, <3>1, <4>1 DEF Stays
    <3>2. ASSUME NEW k \in 1 .. Len(answers'), answers'[k] = a
          PROVE  /\ answers'[k].call <= Len(sets') /\ answers'[k].address = sets'[answers'[k].call]
                 /\ Stays(answers[k].call)'
      <4>1. answers'[k].call = r.call /\ answers'[k].address = sets[r.call]
        BY <2>1, <3>2
      <4>2. answers'[k].call <= Len(sets') /\ answers'[k].address = sets'[answers'[k].call]
        BY <1>0, <1>1, <1>2, <4>1
      <4>3. QED
        BY <1>1, <2>5, <4>1, <4>2 DEF Stays
    <3>3. QED
      BY <2>3, <3>1, <3>2
  <2>7. QED
    <3>1. taken' # 0 => sets'[taken'] = client' /\ Stays(taken)'
      BY <1>1, <1>2, <1>4 DEF LineInv, Stays
    <3>2. QED
      BY <1>2, <2>4, <2>6, <3>1 DEF LineInv
<1>8. QED
  BY <1>1, <1>6, <1>7

LEMMA NextLineInv ==
  Line!AddressChangeAssumption => (LineInv /\ [Line!Next]_(Line!vars) => LineInv')
<1> SUFFICES ASSUME Line!AddressChangeAssumption, LineInv, [Line!Next]_(Line!vars) PROVE LineInv'
  OBVIOUS
<1>0. Line!TypeOK
  BY DEF LineInv
<1>1. ASSUME NEW a \in Address, Line!Call(a) PROVE LineInv'
  BY <1>1, CallKeepsLine
<1>2. ASSUME NEW a \in Address, Line!Turn(a) PROVE LineInv'
  <2>1. Line!TypeOK'
    BY <1>0, <1>2 DEF Line!Turn, Line!TypeOK
  <2>2. UNCHANGED <<address, requests, answers, sets>> /\ taken' = 0
    BY <1>2 DEF Line!Turn
  <2>3. \A k \in 1 .. Len(answers') :
          /\ answers'[k].call <= Len(sets') /\ answers'[k].address = sets'[answers'[k].call]
          /\ Stays(answers[k].call)'
    BY <2>2 DEF LineInv, Stays
  <2>4. QED
    BY <2>1, <2>2, <2>3 DEF LineInv
<1>3. ASSUME NEW s \in Station, Line!Serve(s) PROVE LineInv'
  BY <1>3, ServeKeepsLine
<1>4. ASSUME NEW s \in Station, Line!LoseRequest(s) PROVE LineInv'
  <2>1. /\ requests[s] # << >> /\ requests' = [requests EXCEPT ![s] = Tail(@)]
        /\ UNCHANGED <<address, client, answers, sets, asked, taken>>
    BY <1>4 DEF Line!LoseRequest
  <2>2. /\ requests' \in [Station -> Seq(Line!Frame)]
        /\ \A u \in Station : \A k \in 1 .. Len(requests'[u]) : requests'[u][k].call <= Len(sets')
        /\ \A u \in Station : \A j, k \in 1 .. Len(requests'[u]) :
             j < k => requests'[u][j].call < requests'[u][k].call
        /\ \A u \in Station : requests[u] = << >> => requests'[u] = << >>
    BY <2>1, RequestGone
  <2>3. \A n : Stays(n) => Stays(n)'
    BY <2>1, <2>2, StaysStays
  <2>4. QED
    BY <1>0, <2>1, <2>2, <2>3 DEF LineInv, Line!TypeOK
<1>5. CASE Line!Take
  <2>1. /\ answers # << >> /\ answers' = Tail(answers)
        /\ UNCHANGED <<address, client, requests, sets>>
        /\ \/ Head(answers).address = client /\ asked' = FALSE /\ taken' = Head(answers).call
           \/ UNCHANGED <<asked, taken>>
    BY <1>5 DEF Line!Take
  <2>2. /\ answers' \in Seq(Line!Frame)
        /\ \A k \in 1 .. Len(answers') :
             /\ answers'[k].call <= Len(sets') /\ answers'[k].address = sets'[answers'[k].call]
             /\ Stays(answers'[k].call)
        /\ Stays(Head(answers).call) /\ Head(answers).call \in 1 .. Len(sets)
        /\ Head(answers).address = sets[Head(answers).call]
    BY <2>1, AnswerGone
  <2>3. \A n : Stays(n) => Stays(n)'
    BY <2>1, StaysStays
  <2>4. Line!TypeOK'
    <3>1. taken' \in 0 .. Len(sets')
      BY <1>0, <2>1, <2>2 DEF Line!TypeOK
    <3>2. asked' \in BOOLEAN /\ (asked' => taken' = 0)
      <4>1. asked \in BOOLEAN /\ (asked => taken = 0)
        BY <1>0 DEF Line!TypeOK
      <4>2. CASE asked' = FALSE
        BY <4>2
      <4>3. CASE UNCHANGED <<asked, taken>>
        <5>1. asked' = asked /\ taken' = taken
          BY <4>3
        <5>2. QED
          BY <4>1, <5>1, Zenon
      <4>4. QED
        BY <2>1, <4>2, <4>3
    <3>3. QED
      BY <1>0, <2>1, <2>2, <3>1, <3>2 DEF Line!TypeOK
  <2>5. taken' # 0 => sets'[taken'] = client' /\ Stays(taken)'
    <3>1. CASE UNCHANGED taken
      BY <2>1, <3>1 DEF LineInv, Stays
    <3>2. CASE Head(answers).address = client /\ taken' = Head(answers).call
      BY <2>1, <2>2, <3>2 DEF Stays
    <3>3. QED
      BY <2>1, <3>1, <3>2
  <2>6. QED
    BY <2>1, <2>2, <2>3, <2>4, <2>5 DEF LineInv, Stays
<1>6. CASE Line!TimedOut
  BY <1>0, <1>6 DEF Line!TimedOut, LineInv, Line!TypeOK, Stays
<1>7. CASE Line!LoseAnswer
  <2>1. /\ answers # << >> /\ answers' = Tail(answers)
        /\ UNCHANGED <<address, client, requests, sets, asked, taken>>
    BY <1>7 DEF Line!LoseAnswer
  <2>2. /\ answers' \in Seq(Line!Frame)
        /\ \A k \in 1 .. Len(answers') :
             /\ answers'[k].call <= Len(sets') /\ answers'[k].address = sets'[answers'[k].call]
             /\ Stays(answers'[k].call)
    BY <2>1, AnswerGone
  <2>3. \A n : Stays(n) => Stays(n)'
    BY <2>1, StaysStays
  <2>4. QED
    BY <1>0, <2>1, <2>2, <2>3 DEF LineInv, Line!TypeOK
<1>8. CASE UNCHANGED Line!vars
  BY <1>0, <1>8 DEF Line!vars, LineInv, Line!TypeOK, Stays
<1>9. QED
  BY <1>1, <1>2, <1>3, <1>4, <1>5, <1>6, <1>7, <1>8 DEF Line!Next

LEMMA LineInvConfirms == LineInv => Line!ConfirmedStays
<1>1. ASSUME LineInv, taken # 0, taken = Len(sets)
      PROVE  \E s \in Station : address[s] = client
  BY <1>1 DEF LineInv, Stays
<1>2. QED
  BY <1>1 DEF LineInv, Line!ConfirmedStays

-----------------------------------------------------------------------------
(* The objects together *)

\* In each step the object in use takes one of its own, and the others take none.
LEMMA StepOfUser ==
  [ClientNext]_clientRunVars =>
    /\ user' = user
    /\ IF user = "property" THEN [Next]_vars ELSE UNCHANGED propertyVars
    /\ IF user = "memory" THEN [Memory!Next]_(Memory!vars) ELSE UNCHANGED memoryVars
    /\ IF user = "holder" THEN [Holder!Next]_(Holder!vars) ELSE UNCHANGED holderVars
    /\ IF user = "address" THEN [Line!Next]_(Line!vars) ELSE UNCHANGED addressVars
    /\ user \notin {"property", "memory", "holder"} => UNCHANGED csVars
<1> SUFFICES ASSUME [ClientNext]_clientRunVars
             PROVE  /\ user' = user
                    /\ IF user = "property" THEN [Next]_vars ELSE UNCHANGED propertyVars
                    /\ IF user = "memory" THEN [Memory!Next]_(Memory!vars) ELSE UNCHANGED memoryVars
                    /\ IF user = "holder" THEN [Holder!Next]_(Holder!vars) ELSE UNCHANGED holderVars
                    /\ IF user = "address" THEN [Line!Next]_(Line!vars) ELSE UNCHANGED addressVars
                    /\ user \notin {"property", "memory", "holder"} => UNCHANGED csVars
  OBVIOUS
<1>1. CASE UsesProperty /\ Next
  BY <1>1 DEF UsesProperty
<1>2. CASE UsesMemory /\ Memory!Next
  BY <1>2 DEF UsesMemory
<1>3. CASE UsesHolder /\ Holder!Next
  BY <1>3 DEF UsesHolder
<1>4. CASE UsesAddress /\ Line!Next
  BY <1>4 DEF UsesAddress
<1>5. CASE UNCHANGED clientRunVars
  <2>1. /\ UNCHANGED csVars /\ user' = user /\ UNCHANGED propertyVars /\ UNCHANGED memoryVars
        /\ UNCHANGED holderVars /\ UNCHANGED addressVars
    BY <1>5 DEF clientRunVars
  <2>2. UNCHANGED vars
    BY <2>1 DEF vars, callVars, propertyVars
  <2>3. UNCHANGED Memory!csVars
    BY <2>1 DEF csVars, serverVars, clientVars, boundVars, Memory!csVars, Memory!serverVars,
      Memory!clientVars, Memory!boundVars
  <2>4. UNCHANGED Memory!vars
    BY <2>1, <2>3 DEF Memory!vars, Memory!callVars, memoryVars
  <2>5. UNCHANGED Holder!csVars
    BY <2>1 DEF csVars, serverVars, clientVars, boundVars, Holder!csVars, Holder!serverVars,
      Holder!clientVars, Holder!boundVars
  <2>6. UNCHANGED Holder!vars
    BY <2>1, <2>5 DEF Holder!vars, Holder!holderVars, holderVars
  <2>7. UNCHANGED Line!vars
    BY <2>1 DEF Line!vars, addressVars
  <2>8. QED
    BY <2>1, <2>2, <2>4, <2>6, <2>7
<1>6. QED
  BY <1>1, <1>2, <1>3, <1>4, <1>5 DEF ClientNext

\* The modules of the objects assume of the constants what this one assumes.
LEMMA MemoryAssumptions ==
  Memory!ExtraAssumption /\ Memory!PropsAssumption /\ Memory!CSAssumption
<1>1. Memory!ExtraAssumption
  BY ExtraAssumption DEF Cells, Memory!Cells
<1>2. Memory!PropsAssumption
  BY PropsAssumption DEF Cells, Memory!Cells, Ids, Memory!Ids, Kind, Memory!Kind, Access, Memory!Access
<1>3. Memory!Server!ServerConstants
  BY CSAssumption DEF Server!ServerConstants, Memory!Server!ServerConstants, Server!Cells,
    Memory!Server!Cells, Server!Ids, Memory!Server!Ids, Server!Command, Memory!Server!Command,
    Server!PropertyCommand, Memory!Server!PropertyCommand, Server!Seal, Memory!Server!Seal
<1>4. Memory!Server!Frame = Server!Frame
  BY DEF Server!Frame, Memory!Server!Frame, Server!Command, Memory!Server!Command,
    Server!PropertyCommand, Memory!Server!PropertyCommand, Server!ErrorCode,
    Memory!Server!ErrorCode, Server!Cells, Memory!Server!Cells, Server!Seal, Memory!Server!Seal
<1>5. QED
  BY <1>1, <1>2, <1>3, <1>4, CSAssumption, ClientAssumption

LEMMA MemoryStarts == CSInit => Memory!CSInit
<1>1. Server!NoRequest = Memory!Server!NoRequest /\ Server!NoReply = Memory!Server!NoReply
  BY DEF Server!NoRequest, Memory!Server!NoRequest, Server!NoReply, Memory!Server!NoReply
<1>2. Server!Init => Memory!Server!Init
  BY <1>1 DEF Server!Init, Memory!Server!Init
<1>3. QED
  BY <1>2 DEF CSInit, Memory!CSInit

MemoryPart == IF user = "memory" THEN Memory!MemInv ELSE Memory!CallInit

LEMMA InitMemoryPart == ClientInit => MemoryPart
<1>1. ClientInit => Memory!Init
  BY MemoryStarts DEF ClientInit, Memory!Init
<1>2. Memory!CMemoryAssumption /\ Memory!Init => Memory!MemInv
  BY MemoryAssumptions, Memory!InitMemory
<1>3. QED
  BY <1>1, <1>2, ClientAssumption DEF ClientInit, MemoryPart

LEMMA NextMemoryPart == MemoryPart /\ [ClientNext]_clientRunVars => MemoryPart'
<1>1. Memory!MemInv /\ [Memory!Next]_(Memory!vars) => Memory!MemInv'
  BY MemoryAssumptions, ClientAssumption, Memory!NextMemory
<1>2. Memory!CallInit /\ UNCHANGED memoryVars => Memory!CallInit'
  BY DEF Memory!CallInit, memoryVars
<1>3. QED
  BY <1>1, <1>2, StepOfUser DEF MemoryPart

LEMMA HolderAssumptions ==
  Holder!ExtraAssumption /\ Holder!PropsAssumption /\ Holder!CSAssumption
<1>1. Holder!ExtraAssumption
  BY ExtraAssumption DEF Cells, Holder!Cells
<1>2. Holder!PropsAssumption
  BY PropsAssumption DEF Cells, Holder!Cells, Ids, Holder!Ids, Kind, Holder!Kind, Access, Holder!Access
<1>3. Holder!Server!ServerConstants
  BY CSAssumption DEF Server!ServerConstants, Holder!Server!ServerConstants, Server!Cells,
    Holder!Server!Cells, Server!Ids, Holder!Server!Ids, Server!Command, Holder!Server!Command,
    Server!PropertyCommand, Holder!Server!PropertyCommand, Server!Seal, Holder!Server!Seal
<1>4. Holder!Server!Frame = Server!Frame
  BY DEF Server!Frame, Holder!Server!Frame, Server!Command, Holder!Server!Command,
    Server!PropertyCommand, Holder!Server!PropertyCommand, Server!ErrorCode,
    Holder!Server!ErrorCode, Server!Cells, Holder!Server!Cells, Server!Seal, Holder!Server!Seal
<1>5. QED
  BY <1>1, <1>2, <1>3, <1>4, CSAssumption, ClientAssumption

LEMMA HolderStarts == CSInit => Holder!CSInit
<1>1. Server!NoRequest = Holder!Server!NoRequest /\ Server!NoReply = Holder!Server!NoReply
  BY DEF Server!NoRequest, Holder!Server!NoRequest, Server!NoReply, Holder!Server!NoReply
<1>2. Server!Init => Holder!Server!Init
  BY <1>1 DEF Server!Init, Holder!Server!Init
<1>3. QED
  BY <1>2 DEF CSInit, Holder!CSInit

HolderPart == IF user = "holder" THEN Holder!HolderInv ELSE Holder!HolderInit

LEMMA InitHolderPart == ClientInit => HolderPart
<1>1. ClientInit => Holder!Init
  BY HolderStarts DEF ClientInit, Holder!Init
<1>2. Holder!CPropertyHolderAssumption /\ Holder!Init => Holder!HolderInv
  BY HolderAssumptions, Holder!InitHolder
<1>3. QED
  BY <1>1, <1>2, ClientAssumption DEF ClientInit, HolderPart

LEMMA NextHolderPart == HolderPart /\ [ClientNext]_clientRunVars => HolderPart'
<1>1. Holder!HolderInv /\ [Holder!Next]_(Holder!vars) => Holder!HolderInv'
  BY HolderAssumptions, ClientAssumption, Holder!NextHolder
<1>2. Holder!HolderInit /\ UNCHANGED holderVars => Holder!HolderInit'
  BY DEF Holder!HolderInit, holderVars
<1>3. QED
  BY <1>1, <1>2, StepOfUser DEF HolderPart

PropertyPart == IF user = "property" THEN CallInv ELSE CallInit

LEMMA InitPropertyPart == ClientInit => PropertyPart
BY InitCall, ClientAssumption DEF ClientInit, Init, PropertyPart

LEMMA NextPropertyPart == PropertyPart /\ [ClientNext]_clientRunVars => PropertyPart'
<1>1. CallInv /\ [Next]_vars => CallInv'
  BY ClientAssumption, NextCall
<1>2. CallInit /\ UNCHANGED propertyVars => CallInit'
  BY DEF CallInit, propertyVars
<1>3. QED
  BY <1>1, <1>2, StepOfUser DEF PropertyPart

LEMMA InitAddressPart == ClientInit => LineInv
BY InitLineInv, ClientAssumption DEF ClientInit

LEMMA NextAddressPart == LineInv /\ [ClientNext]_clientRunVars => LineInv'
<1>1. LineInv /\ [Line!Next]_(Line!vars) => LineInv'
  BY ClientAssumption, NextLineInv
<1>2. UNCHANGED addressVars => UNCHANGED Line!vars
  BY DEF Line!vars, addressVars
<1>3. QED
  BY <1>1, <1>2, StepOfUser

\* What holds of the line when no client uses it, and in every case.
LinePart == user \notin {"property", "memory", "holder"} => CSInit

LEMMA NextLinePart == LinePart /\ [ClientNext]_clientRunVars => LinePart'
<1>1. CSInit /\ UNCHANGED csVars => CSInit'
  <2>1. UNCHANGED csVars => UNCHANGED serverVars
    BY DEF csVars
  <2>2. Server!Init /\ UNCHANGED serverVars => Server!Init'
    BY DEF Server!Init, serverVars
  <2>3. QED
    BY <2>1, <2>2 DEF CSInit, csVars, clientVars, boundVars
<1>2. QED
  BY <1>1, StepOfUser DEF LinePart

\* A memory and the holder do not set the key.
SparedPart ==
  /\ user = "memory" => Memory!KeySpared
  /\ user = "holder" => Holder!KeySpared

LEMMA InitSparedPart == ClientInit => SparedPart
<1>1. Memory!CSInit => Memory!KeySpared
  BY MemoryAssumptions, Memory!InitSpared
<1>2. Holder!CSInit => Holder!KeySpared
  BY HolderAssumptions, Holder!InitSpared
<1>3. QED
  BY <1>1, <1>2, MemoryStarts, HolderStarts DEF ClientInit, SparedPart

LEMMA NextSparedPart ==
  MemoryPart /\ HolderPart /\ SparedPart /\ [ClientNext]_clientRunVars => SparedPart'
<1>1. Memory!MemInv /\ Memory!KeySpared /\ [Memory!Next]_(Memory!vars) => Memory!KeySpared'
  BY MemoryAssumptions, ClientAssumption, Memory!MemorySpares
<1>2. Holder!HolderInv /\ Holder!KeySpared /\ [Holder!Next]_(Holder!vars) => Holder!KeySpared'
  BY HolderAssumptions, Holder!HolderSpares
<1>3. QED
  BY <1>1, <1>2, StepOfUser DEF MemoryPart, HolderPart, SparedPart

\* The invariant of the whole: that of the object in use, and the others as they began.
ClientInv == PropertyPart /\ MemoryPart /\ HolderPart /\ SparedPart /\ LineInv /\ LinePart

LEMMA InitClient == ClientInit => ClientInv
BY InitPropertyPart, InitMemoryPart, InitHolderPart, InitSparedPart, InitAddressPart
   DEF ClientInv, LinePart, ClientInit

LEMMA NextClient == ClientInv /\ [ClientNext]_clientRunVars => ClientInv'
BY NextPropertyPart, NextMemoryPart, NextHolderPart, NextSparedPart, NextAddressPart,
   NextLinePart
   DEF ClientInv

\* CSInv is about the line and not about its bounds.
LEMMA SameLine == (Memory!CSInv <=> CSInv) /\ (Holder!CSInv <=> CSInv)
<1>1. Memory!CSInv <=> CSInv
  BY DEF Memory!CSInv, CSInv, Memory!Typed, Typed, Memory!LogsApart, LogsApart, Memory!Ordered,
    Ordered, Memory!SkewBounded, SkewBounded, Memory!IsSeq, IsSeq, Memory!Younger, Younger,
    Memory!Rising, Rising, Memory!Before, Before
<1>2. Holder!CSInv <=> CSInv
  BY DEF Holder!CSInv, CSInv, Holder!Typed, Typed, Holder!LogsApart, LogsApart, Holder!Ordered,
    Ordered, Holder!SkewBounded, SkewBounded, Holder!IsSeq, IsSeq, Holder!Younger, Younger,
    Holder!Rising, Rising, Holder!Before, Before
<1>3. QED
  BY <1>1, <1>2

LEMMA LineAlways == ClientInv => CSInv
<1>1. CASE user = "property"
  BY <1>1 DEF ClientInv, PropertyPart, CallInv, LineSound
<1>2. CASE user = "memory"
  BY <1>2, SameLine DEF ClientInv, MemoryPart, Memory!MemInv, Memory!LineSound
<1>3. CASE user = "holder"
  BY <1>3, SameLine DEF ClientInv, HolderPart, Holder!HolderInv, Holder!LineSound
<1>4. CASE user \notin {"property", "memory", "holder"}
  BY <1>4, InitCSInv DEF ClientInv, LinePart
<1>5. QED
  BY <1>1, <1>2, <1>3, <1>4

-----------------------------------------------------------------------------
(* The theorems about them *)

\* Whatever the application uses: the objects keep their types, no block reaches beyond the
\* caller's buffer, no id beyond the server's, and no get() delivers a part of a value.
THEOREM TypesAlwaysOK == ClientSpec => []TypesOK
<1>1. ClientInv => TypesOK
  <2> SUFFICES ASSUME ClientInv PROVE TypesOK
    OBVIOUS
  <2>1. user = "property" => TypeOK
    BY CallsTyped DEF ClientInv, PropertyPart
  <2>2. user = "memory" => Memory!TypeOK
    <3>1. Memory!CMemoryAssumption /\ Memory!MemInv => Memory!TypeOK
      BY MemoryAssumptions, Memory!MemoryTyped
    <3>2. QED
      BY <3>1, ClientAssumption DEF ClientInv, MemoryPart
  <2>3. user = "holder" => Holder!TypeOK
    <3>1. Holder!HolderInv => Holder!TypeOK
      BY HolderAssumptions, Holder!HolderTyped
    <3>2. QED
      BY <3>1 DEF ClientInv, HolderPart
  <2>4. Line!TypeOK
    BY DEF ClientInv, LineInv
  <2>5. QED
    BY <2>1, <2>2, <2>3, <2>4 DEF TypesOK
<1>2. QED
  BY <1>1, InitClient, NextClient, PTL DEF ClientSpec

\* An answer is never older than there have been timeouts, whatever the application uses.
THEOREM AnswersNeverLate == ClientSpec => []SkewBounded
<1>1. ClientInv => SkewBounded
  BY LineAlways DEF CSInv
<1>2. QED
  BY <1>1, InitClient, NextClient, PTL DEF ClientSpec

\* Whatever the application uses: without a timeout client and server have the same key
\* between calls. Only a property sets it; neither a memory nor the holder does.
THEOREM ClientKeysAgree == ClientSpec => []KeysAgree
<1>1. ClientInv => KeysAgree
  <2> SUFFICES ASSUME ClientInv PROVE KeysAgree
    OBVIOUS
  <2>1. CASE user = "property"
    BY <2>1, InvKeys DEF ClientInv, PropertyPart
  <2>2. CASE user # "property"
    <3>1. secret = InitSecret /\ InitSecret.key = InitValues[KeyId][1]
      BY <2>2, ClientAssumption DEF ClientInv, PropertyPart, CallInit, Matched
    <3>2. values[KeyId] = InitValues[KeyId]
      BY <2>2 DEF ClientInv, SparedPart, LinePart, Memory!KeySpared, Holder!KeySpared,
        CSInit, Server!Init
    <3>3. QED
      BY <3>1, <3>2 DEF KeysAgree
  <2>3. QED
    BY <2>1, <2>2
<1>2. QED
  BY <1>1, InitClient, NextClient, PTL DEF ClientSpec

\* Whatever else the application uses: without a timeout S_OK of a property that is not got
\* under protection is the truth.
THEOREM ClientSuccessTruthful ==
  ASSUME \A o \in Operations : o.do = "get" => ~Privileged(o)
  PROVE  ClientSpec => []SuccessTruthful
<1>1. ClientInv => SuccessTruthful
  <2>1. CallInit => SuccessTruthful
    BY DEF CallInit, SuccessTruthful, Succeeded
  <2>2. QED
    BY <2>1, InvTruthful DEF ClientInv, PropertyPart
<1>2. QED
  BY <1>1, InitClient, NextClient, PTL DEF ClientSpec

\* A transfer of a memory leaves a prefix of its blocks on the server, in order and whole;
\* S_OK means all of them.
THEOREM PrefixesWritten == ClientSpec => []PrefixWritten
<1>1. ClientInv => PrefixWritten
  <2>1. Memory!MemInv => Memory!PrefixWritten
    BY MemoryAssumptions, Memory!InvWritten
  <2>2. Memory!CallInit => Memory!PrefixWritten
    BY DEF Memory!CallInit, Memory!PrefixWritten
  <2>3. QED
    BY <2>1, <2>2 DEF ClientInv, MemoryPart, PrefixWritten
<1>2. QED
  BY <1>1, InitClient, NextClient, PTL DEF ClientSpec

\* A get() of a memory that is not protected fills a prefix of the caller's buffer with what
\* the server holds; S_OK means that it is full.
THEOREM PrefixesRead ==
  ASSUME \A o \in MemOperations : o.do = "get" => ~Memory!Privileged(o)
  PROVE  ClientSpec => []PrefixRead
<1>1. ClientInv => PrefixRead
  <2>1. Memory!MemInv => Memory!PrefixRead
    BY MemoryAssumptions, Memory!InvRead
  <2>2. Memory!CallInit => Memory!PrefixRead
    BY DEF Memory!CallInit, Memory!PrefixRead
  <2>3. QED
    BY <2>1, <2>2 DEF ClientInv, MemoryPart, PrefixRead
<1>2. QED
  BY <1>1, InitClient, NextClient, PTL DEF ClientSpec

\* refresh() binds a name to the id the server has for it, as long as no call times out.
THEOREM NamesBoundRight == ClientSpec => []BindsRight
<1>1. ClientInv => BindsRight
  <2>1. Holder!HolderInv => Holder!BindsRight
    BY HolderAssumptions, Holder!InvBinds
  <2>2. Holder!HolderInit => Holder!BindsRight
    BY DEF Holder!HolderInit, Holder!BindsRight
  <2>3. QED
    BY <2>1, <2>2 DEF ClientInv, HolderPart, BindsRight
<1>2. QED
  BY <1>1, InitClient, NextClient, PTL DEF ClientSpec

\* A refresh() that no timeout disturbs finds every name a plain client may read.
THEOREM PlainNamesFound == ClientSpec => []FindsPlainNames
<1>1. ClientInv => FindsPlainNames
  <2>1. Holder!HolderInv => Holder!FindsPlainNames
    BY HolderAssumptions, Holder!InvFinds
  <2>2. QED
    BY <2>1 DEF ClientInv, HolderPart, FindsPlainNames
<1>2. QED
  BY <1>1, InitClient, NextClient, PTL DEF ClientSpec

\* However many servers are on the line: a set() of an address that changes it never gets
\* its own answer.
THEOREM OwnAnswersUnseen == ClientSpec => []OwnAnswerUnseen
<1>1. LineInv => OwnAnswerUnseen
  BY DEF LineInv, Line!OwnAnswerUnseen, OwnAnswerUnseen
<1>2. ClientInv => OwnAnswerUnseen
  BY <1>1 DEF ClientInv
<1>3. QED
  BY <1>2, InitClient, NextClient, PTL DEF ClientSpec

\* S_OK for the last set() of an address means that a server has it and keeps it, whatever
\* requests of earlier calls are still on their way.
THEOREM ConfirmedAlwaysStays == ClientSpec => []ConfirmedStays
<1>1. ClientInv => ConfirmedStays
  BY LineInvConfirms DEF ClientInv, ConfirmedStays
<1>2. QED
  BY <1>1, InitClient, NextClient, PTL DEF ClientSpec

LEMMA ClientTakesOnce ==
  ClientInv /\ [ClientNext]_clientRunVars =>
    (waiting # "none" /\ waiting' = "none" /\ timeouts' = timeouts => took' > took)
<1> SUFFICES ASSUME ClientInv, [ClientNext]_clientRunVars,
                    waiting # "none", waiting' = "none", timeouts' = timeouts
             PROVE  took' > took
  OBVIOUS
<1>1. CASE user = "property"
  <2>1. CSInv /\ CallTypes /\ [Next]_vars
    BY <1>1, LineAlways, StepOfUser DEF ClientInv, PropertyPart, CallInv
  <2>2. [CSStep]_csVars
    BY <2>1, StepIsCS, NextIsStep, ClientAssumption
  <2>3. QED
    BY <2>1, <2>2, StepTakesOnce
<1>2. CASE user = "memory"
  <2>1. Memory!CSInv /\ Memory!BlockTypes /\ [Memory!Next]_(Memory!vars)
    BY <1>2, StepOfUser DEF ClientInv, MemoryPart, Memory!MemInv, Memory!LineSound
  <2>2. [Memory!CSNext]_(Memory!csVars)
    <3>1. CASE Memory!Next
      BY <2>1, <3>1, MemoryAssumptions, ClientAssumption, Memory!StepOnLine
    <3>2. CASE UNCHANGED Memory!vars
      BY <3>2 DEF Memory!vars
    <3>3. QED
      BY <2>1, <3>1, <3>2
  <2>3. [Memory!CSStep]_(Memory!csVars)
    BY <2>2, MemoryAssumptions, Memory!NextIsStep
  <2>4. QED
    BY <2>1, <2>3, MemoryAssumptions, Memory!StepTakesOnce
<1>3. CASE user = "holder"
  <2>1. Holder!CSInv /\ Holder!HolderTypes /\ [Holder!Next]_(Holder!vars)
    BY <1>3, StepOfUser DEF ClientInv, HolderPart, Holder!HolderInv, Holder!LineSound
  <2>2. [Holder!CSNext]_(Holder!csVars)
    <3>1. CASE Holder!Next
      BY <2>1, <3>1, HolderAssumptions, ClientAssumption, Holder!StepOnLine
    <3>2. CASE UNCHANGED Holder!vars
      BY <3>2 DEF Holder!vars
    <3>3. QED
      BY <2>1, <3>1, <3>2
  <2>3. [Holder!CSStep]_(Holder!csVars)
    BY <2>2, HolderAssumptions, Holder!NextIsStep
  <2>4. QED
    BY <2>1, <2>3, HolderAssumptions, Holder!StepTakesOnce
<1>4. CASE user \notin {"property", "memory", "holder"}
  BY <1>4, StepOfUser DEF csVars, clientVars
<1>5. QED
  BY <1>1, <1>2, <1>3, <1>4

\* Whatever the application uses, each answer is handed out once, in the order of the
\* requests.
THEOREM AnswersHandedOutOnce == ClientSpec => AnswersOnce
BY InitClient, NextClient, ClientTakesOnce, PTL DEF ClientSpec, AnswersOnce
=============================================================================
