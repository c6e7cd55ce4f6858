------------------------ MODULE CPropertyHolderProofs ------------------------
(***************************************************************************)
(* What refresh() of the client's holder finds, for any number of          *)
(* properties and names, any losses, timeouts and logs.                    *)
(***************************************************************************)
EXTENDS CPropertyHolder, HostCSProofs, FiniteSetTheorems

-----------------------------------------------------------------------------
(* The invariant *)

\* What a client is asked for and told of the size, whenever it comes.
SizeAsked == \A q \in OnWay : q.cmd = "GET_SIZE" => q = Request("GET_SIZE", <<0>>, NoSeal)
SizeTold == \A f \in Came : f.cmd = "GET_SIZE" => f.err = "S_OK" /\ f.data = <<N>>

Naming == phase \in {"plain", "sealed"}

HolderTypes ==
  /\ map \in [Names -> Ids]
  /\ phase \in {"idle", "size", "plain", "sealed"}
  /\ size \in 0 .. N /\ i \in 0 .. size /\ found \in 0 .. i
  /\ result \in ErrorCode \cup {"E_TIMEOUT", "E_FAIL"}
  /\ phase = "idle" => waiting = "none"
  /\ phase = "size" => waiting = "GET_SIZE" /\ i = 0
  /\ Naming => size = N /\ waiting \in {"none", "GET_PROPERTY"}
  /\ phase = "sealed" \/ (phase = "plain" /\ waiting # "none") => i < size

Readable(j) == MayRead(Props[j].access, FALSE)

\* The names of the first k ids that a plain client may read are bound to them.
Listed(k) ==
  \A id \in 0 .. k - 1 : Props[id].name \in Names /\ Readable(id) => map[Props[id].name] = id

\* The names that are bound to one of the first ids.
BoundBelow(k) == {n \in Names : Bound(n) /\ map[n] < k}

\* While no call has timed out: what is bound is right, no name that can be read is left
\* out, and refresh() has not counted more names than are bound.
Found ==
  /\ \A n \in Names : map[n] # 0 => Bound(n)
  /\ Naming => Listed(i) /\ found <= Cardinality(BoundBelow(i))
  /\ phase = "sealed" => ~Readable(i)
  /\ Done => Listed(N) /\ (result = "S_OK" => \A n \in Names : Bound(n))

\* The request on its way is for the name that is next, ...
Going ==
  \A q \in OnWay :
    /\ q \in Requests
    /\ phase = "plain" => q = Request("GET_PROPERTY", <<0, i>>, NoSeal)
    /\ phase = "sealed" => q = Request("GET_PROPERTY", <<0, i>>, Secret)

\* ... and the answer that comes back tells it, unless it is refused.
Coming ==
  \A f \in Came :
    Naming =>
      /\ f.err = "S_OK" => f.data = <<Props[i].name>>
      /\ phase = "plain" => f.seal = NoSeal /\ (Readable(i) => f.err = "S_OK")

Truth == timeouts = 0 => Found /\ Going /\ Coming

HolderInv == LineSound /\ SizeAsked /\ SizeTold /\ HolderTypes /\ Truth

-----------------------------------------------------------------------------
(* What the server answers *)

LEMMA FirstId == 0 \in Ids /\ N \in Nat /\ N >= 1 /\ \A j \in Nat : j < N => j \in Ids
<1>1. N \in Nat
  BY PropsAssumption, ExtraAssumption DEF Cells
<1>2. KeyId \in 0 .. N - 1
  BY ConstantFacts DEF Ids
<1>3. QED
  BY <1>1, <1>2 DEF Ids

LEMMA CmdServed ==
  ASSUME NEW q, Srv!Poll(q)
  PROVE  reply'.cmd = q.cmd
BY DEF Srv!Poll, Srv!Answered, Srv!Sent

\* There are N properties.
LEMMA SizeServed ==
  ASSUME CPropertyHolderAssumption, Srv!TypeOK, NEW q \in Requests, Srv!Poll(q),
         q = Request("GET_SIZE", << 0 >>, NoSeal)
  PROVE  reply'.err = "S_OK" /\ reply'.data = <<N>>
<1>1. Srv!Request(q) /\ Srv!Typed(values) /\ reply' = Srv!Answered(values, q)
  BY PollTypes
<1>2. q.cmd = "GET_SIZE" /\ q.data = <<0>> /\ Srv!Plain(q)
  BY DEF Request, Srv!Plain
<1>3. 0 \in Srv!Ids /\ Props[0].kind = "symbols"
  BY FirstId, ConstantFacts DEF CPropertyHolderAssumption
<1>4. QED
  BY <1>1, <1>2, <1>3, ServerAssumptions, Srv!SizeGiven

\* A name is told as it is, and to a plain client if it may read the property.
LEMMA NameServed ==
  ASSUME CPropertyHolderAssumption, Srv!TypeOK, NEW q \in Requests, Srv!Poll(q),
         NEW j \in Ids, NEW s, q = Request("GET_PROPERTY", <<0, j>>, s)
  PROVE  /\ reply'.err = "S_OK" => reply'.data = <<Props[j].name>>
         /\ s = NoSeal => reply'.seal = NoSeal /\ (Readable(j) => reply'.err = "S_OK")
<1>1. Srv!Request(q) /\ Srv!Typed(values) /\ reply' = Srv!Answered(values, q)
  BY PollTypes
<1>2. q.cmd = "GET_PROPERTY" /\ q.data = <<0, j>> /\ q.seal = s
  BY DEF Request
<1>3. q.data[1] = 0 /\ q.data[2] = j
  BY <1>2
<1>4. 0 \in Srv!Ids /\ j \in Srv!Ids /\ Props[0].kind = "symbols"
  BY FirstId, ConstantFacts DEF CPropertyHolderAssumption
<1>5. reply'.err = "S_OK" => reply'.data = <<Props[j].name>>
  <2>1. Props[q.data[1]].kind = "symbols"
    BY <1>3, <1>4
  <2>2. QED
    BY <1>1, <1>2, <1>3, <2>1, ServerAssumptions, Srv!NameTold
<1>6. ASSUME s = NoSeal PROVE reply'.seal = NoSeal
  <2>1. Srv!Plain(q)
    BY <1>2, <1>6 DEF Srv!Plain
  <2>2. QED
    BY <1>1, <2>1, ServerAssumptions, Srv!PlainTold
<1>7. ASSUME s = NoSeal, Readable(j) PROVE reply'.err = "S_OK"
  <2>1. Srv!Plain(q)
    BY <1>2, <1>7 DEF Srv!Plain
  <2>2. Srv!MayRead(Props[j].access, FALSE)
    BY <1>7 DEF Readable, MayRead, Srv!MayRead
  <2>3. QED
    BY <1>1, <1>2, <1>4, <2>1, <2>2, ServerAssumptions, Srv!NameGiven
<1>8. QED
  BY <1>5, <1>6, <1>7

-----------------------------------------------------------------------------
(* A name is bound *)

Known(b) == \E n \in Names : b = <<n>>

LEMMA NextNameFacts ==
  ASSUME NEW b, NextName(b)
  PROVE  /\ phase' = "plain" /\ i' = i + 1 /\ size' = size /\ result' = result
         /\ ~Known(b) => map' = map /\ found' = found
         /\ \A n \in Names : b = <<n>> => map' = [map EXCEPT ![n] = i] /\ found' = found + 1
<1>1. /\ phase' = "plain" /\ i' = i + 1 /\ size' = size /\ result' = result
      /\ map' = IF Known(b) THEN [map EXCEPT ![b[1]] = i] ELSE map
      /\ found' = IF Known(b) THEN found + 1 ELSE found
  BY DEF NextName, Known
<1>2. ASSUME NEW n \in Names, b = <<n>> PROVE Known(b) /\ b[1] = n
  BY <1>2 DEF Known
<1>3. QED
  BY <1>1, <1>2

LEMMA NextNameTypes ==
  ASSUME HolderTypes, i < size, NEW b, NextName(b)
  PROVE  /\ map' \in [Names -> Ids] /\ i' \in 0 .. size' /\ found' \in 0 .. i' /\ size' = size
<1>1. /\ map \in [Names -> Ids] /\ size \in 0 .. N /\ i \in 0 .. size /\ found \in 0 .. i
      /\ N \in Nat
  BY FirstId DEF HolderTypes
<1>2. i \in Ids /\ i + 1 \in 0 .. size
  BY <1>1, FirstId
<1>3. CASE ~Known(b)
  BY <1>1, <1>2, <1>3, NextNameFacts
<1>4. ASSUME NEW n \in Names, b = <<n>>
      PROVE  map' \in [Names -> Ids] /\ i' \in 0 .. size' /\ found' \in 0 .. i' /\ size' = size
  <2>1. map' = [map EXCEPT ![n] = i] /\ found' = found + 1 /\ i' = i + 1 /\ size' = size
    BY <1>4, NextNameFacts
  <2>2. QED
    BY <1>1, <1>2, <2>1
<1>5. QED
  BY <1>3, <1>4 DEF Known

LEMMA NamesFinite == CPropertyHolderAssumption => IsFiniteSet(Names)
<1>1. MaxCell \in Int /\ 0 \in Int
  BY ExtraAssumption
<1>2. IsFiniteSet(0 .. MaxCell)
  BY <1>1, FS_Interval
<1>3. QED
  BY <1>2, FS_Subset DEF CPropertyHolderAssumption, Cells

\* The name of id i is bound to it, or another is none of the client's: what was right
\* stays right, a name of a smaller id keeps it, and the name is one that was not counted.
LEMMA NameBound ==
  ASSUME CPropertyHolderAssumption, HolderTypes, i < size,
         \A n \in Names : map[n] # 0 => Bound(n),
         Listed(i), found <= Cardinality(BoundBelow(i)),
         NEW b, NextName(b), b = <<Props[i].name>> \/ (~Known(b) /\ ~Readable(i))
  PROVE  /\ \A n \in Names : map'[n] # 0 => Bound(n)'
         /\ Listed(i)' /\ found' <= Cardinality(BoundBelow(i)')
<1>1. /\ map \in [Names -> Ids] /\ size \in 0 .. N /\ i \in 0 .. size /\ found \in 0 .. i
      /\ N \in Nat /\ i \in Nat /\ i \in Ids /\ found \in Nat
  BY FirstId DEF HolderTypes
<1>2. \A j, k \in Ids : Props[j].name = Props[k].name => j = k
  BY DEF CPropertyHolderAssumption
<1>3. \A id \in 0 .. i - 1 : id \in Ids /\ id # i /\ id \in Nat
  BY <1>1, FirstId
<1>4. \A id \in 0 .. (i + 1) - 1 : id \in 0 .. i - 1 \/ id = i
  BY <1>1
<1>5. i' = i + 1
  BY NextNameFacts
<1>6. IsFiniteSet(BoundBelow(i)) /\ IsFiniteSet(BoundBelow(i)')
  BY NamesFinite, FS_Subset DEF BoundBelow
<1>7. \A n \in Names : map[n] \in Ids /\ map[n] \in Nat
  BY <1>1, FirstId DEF Ids
<1>8. CASE ~Known(b)
  <2>1. map' = map /\ found' = found
    BY <1>8, NextNameFacts
  <2>2. \A n \in Names : Bound(n)' <=> Bound(n)
    BY <2>1 DEF Bound
  <2>3. Props[i].name \in Names => ~Readable(i)
    BY <1>8 DEF Known
  <2>4. Listed(i)'
    BY <1>3, <1>4, <1>5, <2>1, <2>3 DEF Listed, Readable
  <2>5. BoundBelow(i) \subseteq BoundBelow(i)'
    BY <1>1, <1>5, <1>7, <2>1, <2>2 DEF BoundBelow
  <2>6. Cardinality(BoundBelow(i)) <= Cardinality(BoundBelow(i)')
        /\ Cardinality(BoundBelow(i)) \in Nat /\ Cardinality(BoundBelow(i)') \in Nat
    BY <1>6, <2>5, FS_Subset, FS_CardinalityType
  <2>7. QED
    BY <1>1, <2>1, <2>2, <2>4, <2>6
<1>9. CASE Known(b)
  <2>1. PICK n \in Names : b = <<n>>
    BY <1>9 DEF Known
  <2>2. n = Props[i].name
    BY <1>9, <2>1
  <2>3. map' = [map EXCEPT ![n] = i] /\ found' = found + 1
    BY <2>1, NextNameFacts
  <2>4. \A m \in Names : map'[m] = IF m = n THEN i ELSE map[m]
    BY <1>1, <2>3
  <2>5. Bound(n)' /\ \A m \in Names \ {n} : Bound(m)' <=> Bound(m)
    BY <2>2, <2>4 DEF Bound
  <2>6. \A m \in Names : map'[m] # 0 => Bound(m)'
    BY <2>4, <2>5
  <2>7. Listed(i)'
    <3>1. \A id \in 0 .. i - 1 : Props[id].name # n
      BY <1>1, <1>2, <1>3, <2>2
    <3>2. QED
      BY <1>3, <1>4, <1>5, <2>2, <2>4, <3>1 DEF Listed, Readable
  <2>8. n \notin BoundBelow(i)
    <3>1. ASSUME Props[map[n]].name = n, map[n] < i PROVE FALSE
      BY <1>1, <1>2, <1>7, <2>2, <3>1
    <3>2. QED
      BY <3>1 DEF BoundBelow, Bound
  <2>9. BoundBelow(i) \cup {n} \subseteq BoundBelow(i)'
    <3>1. n \in BoundBelow(i)'
      <4>1. map'[n] = i /\ i < i'
        BY <1>1, <1>5, <2>2, <2>4
      <4>2. QED
        BY <2>5, <4>1 DEF BoundBelow
    <3>2. ASSUME NEW m \in BoundBelow(i) PROVE m \in BoundBelow(i)'
      <4>1. m \in Names /\ m # n /\ Bound(m) /\ map[m] < i /\ map[m] \in Nat
        BY <1>7, <2>8, <3>2 DEF BoundBelow
      <4>2. map'[m] = map[m] /\ map[m] < i' /\ Bound(m)'
        BY <1>1, <1>5, <2>4, <2>5, <4>1
      <4>3. QED
        BY <4>1, <4>2 DEF BoundBelow
    <3>3. QED
      BY <3>1, <3>2
  <2>10. Cardinality(BoundBelow(i) \cup {n}) = Cardinality(BoundBelow(i)) + 1
         /\ IsFiniteSet(BoundBelow(i) \cup {n})
    BY <1>6, <2>8, FS_AddElement
  <2>11. Cardinality(BoundBelow(i) \cup {n}) <= Cardinality(BoundBelow(i)')
         /\ Cardinality(BoundBelow(i)) \in Nat /\ Cardinality(BoundBelow(i)') \in Nat
    BY <1>6, <2>9, FS_Subset, FS_CardinalityType
  <2>12. QED
    BY <1>1, <2>3, <2>6, <2>7, <2>10, <2>11
<1>10. QED
  BY <1>8, <1>9

-----------------------------------------------------------------------------
(* The steps *)

\* To the line, the steps of refresh() are requests, answers and timeouts like any other.
LEMMA AskedKnown ==
  ASSUME RequestsKnown, HolderTypes
  PROVE  /\ Request("GET_SIZE", <<0>>, NoSeal) \in Requests
         /\ i < size => \A seal \in {NoSeal, Secret} :
              Request("GET_PROPERTY", <<0, i>>, seal) \in Requests
<1>1. i < size => i \in Ids
  BY FirstId DEF HolderTypes
<1>2. QED
  BY <1>1 DEF RequestsKnown

LEMMA StepOnLine ==
  ASSUME RequestsKnown, HolderTypes, Next
  PROVE  [CSNext]_csVars
<1>1. CASE Refresh
  BY <1>1, AskedKnown DEF Refresh, CSNext
<1>2. CASE AskPlain
  BY <1>2, AskedKnown DEF AskPlain, CSNext
<1>3. CASE AskSealed
  <2>1. i < size
    BY <1>3 DEF AskSealed, HolderTypes
  <2>2. QED
    BY <1>3, <2>1, AskedKnown DEF AskSealed, CSNext
<1>4. CASE SizeAnswered \/ PlainAnswered \/ SealedAnswered
  BY <1>4 DEF SizeAnswered, PlainAnswered, SealedAnswered, CSNext
<1>5. CASE TimedOut
  BY <1>5 DEF TimedOut, CSNext
<1>6. CASE Finished
  BY <1>6 DEF Finished
<1>7. CASE (PassOver \/ Elsewhere) /\ UNCHANGED holderVars
  BY <1>7 DEF CSNext
<1>8. QED
  BY <1>1, <1>2, <1>3, <1>4, <1>5, <1>6, <1>7 DEF Next

\* refresh() sets nothing.
LEMMA StepSparing ==
  ASSUME Next
  PROVE  [SparingStep]_csVars
<1>1. \A d, s : Spares(Request("GET_SIZE", d, s)) /\ Spares(Request("GET_PROPERTY", d, s))
  BY DEF Spares, Request
<1>2. CASE Refresh \/ AskPlain \/ AskSealed
  BY <1>1, <1>2 DEF Refresh, AskPlain, AskSealed, SparingStep
<1>3. CASE SizeAnswered \/ PlainAnswered \/ SealedAnswered
  BY <1>3 DEF SizeAnswered, PlainAnswered, SealedAnswered, SparingStep
<1>4. CASE TimedOut
  BY <1>4 DEF TimedOut, SparingStep
<1>5. CASE Finished
  BY <1>5 DEF Finished
<1>6. CASE (PassOver \/ Elsewhere) /\ UNCHANGED holderVars
  BY <1>6 DEF SparingStep
<1>7. QED
  BY <1>2, <1>3, <1>4, <1>5, <1>6 DEF Next

LEMMA HolderSpares == HolderInv /\ KeySpared /\ [Next]_vars => KeySpared'
<1>1. UNCHANGED vars => UNCHANGED csVars
  BY DEF vars
<1>2. QED
  BY <1>1, StepSparing, NextSpared DEF HolderInv

\* Requests for the size ask for that of property 0, and are answered with it.
LEMMA NextSize ==
  ASSUME CPropertyHolderAssumption, CSInv, Srv!TypeOK, OnWay \subseteq Requests,
         SizeAsked, SizeTold, Next
  PROVE  SizeAsked' /\ SizeTold'
<1>1. ASSUME OnWay' \subseteq OnWay, Came' \subseteq Came PROVE SizeAsked' /\ SizeTold'
  BY <1>1 DEF SizeAsked, SizeTold
<1>2. ASSUME NEW q, Send(q), q.cmd = "GET_SIZE" => q = Request("GET_SIZE", << 0 >>, NoSeal)
      PROVE  SizeAsked' /\ SizeTold'
  BY <1>2, AnySend DEF SizeAsked, SizeTold
<1>3. CASE Refresh
  BY <1>2, <1>3 DEF Refresh
<1>4. CASE AskPlain \/ AskSealed
  <2>1. \A s : Request("GET_PROPERTY", <<0, i>>, s).cmd # "GET_SIZE"
    BY DEF Request
  <2>2. QED
    BY <1>2, <1>4, <2>1 DEF AskPlain, AskSealed
<1>5. CASE SizeAnswered \/ PlainAnswered \/ SealedAnswered
  BY <1>1, <1>5, AnyTake DEF SizeAnswered, PlainAnswered, SealedAnswered
<1>6. CASE TimedOut
  <2>1. UNCHANGED <<toServer, toClient>>
    BY <1>6 DEF TimedOut, TimeoutSilent, TimeoutEarly, GiveUp
  <2>2. QED
    BY <1>1, <2>1 DEF OnWay, Came
<1>7. CASE Finished
  BY <1>1, <1>7, QuietMoves DEF Finished
<1>8. CASE Serve
  <2>1. PICK q \in OnWay : Srv!Poll(q) /\ OnWay' \subseteq OnWay /\ Came' \subseteq Came \cup {reply'}
    BY <1>8, AnyServe
  <2>2. q \in Requests /\ (q.cmd = "GET_SIZE" => q = Request("GET_SIZE", <<0>>, NoSeal))
    BY DEF SizeAsked
  <2>3. reply'.cmd = "GET_SIZE" => reply'.err = "S_OK" /\ reply'.data = <<N>>
    BY <2>1, <2>2, CmdServed, SizeServed
  <2>4. QED
    BY <2>1, <2>3 DEF SizeAsked, SizeTold
<1>9. CASE PassOver \/ Return \/ Log \/ LoseRequest \/ LoseAnswer
  BY <1>1, <1>9, QuietMoves
<1>10. QED
  BY <1>3, <1>4, <1>5, <1>6, <1>7, <1>8, <1>9 DEF Next, Elsewhere

LEMMA InitHolderTypes == CPropertyHolderAssumption /\ Init => HolderTypes
<1> SUFFICES ASSUME CPropertyHolderAssumption, Init PROVE HolderTypes
  OBVIOUS
<1>1. /\ map = [n \in Names |-> 0] /\ phase = "idle" /\ size = 0 /\ i = 0 /\ found = 0
      /\ result = "S_OK" /\ waiting = "none"
  BY DEF Init, HolderInit, CSInit
<1>2. map \in [Names -> Ids]
  BY <1>1, FirstId
<1>3. 0 \in 0 .. N /\ 0 \in 0 .. 0 /\ "S_OK" \in ErrorCode
  BY FirstId DEF ErrorCode
<1>4. QED
  BY <1>1, <1>2, <1>3 DEF HolderTypes, Naming

LEMMA NextHolderTypes ==
  ASSUME CPropertyHolderAssumption, CSTypeOK, CSInv, SizeTold, HolderTypes, Next
  PROVE  HolderTypes'
<1>0. /\ map \in [Names -> Ids] /\ N \in Nat /\ 0 \in Ids
      /\ size \in 0 .. N /\ i \in 0 .. size /\ found \in 0 .. i
      /\ size \in Nat /\ i \in Nat /\ found \in Nat
      /\ phase \in {"idle", "size", "plain", "sealed"}
      /\ result \in ErrorCode \cup {"E_TIMEOUT", "E_FAIL"}
  BY FirstId DEF HolderTypes
<1>1. CASE Refresh
  <2>1. /\ phase' = "size" /\ i' = 0 /\ found' = 0 /\ UNCHANGED <<map, size, result>>
        /\ waiting' = "GET_SIZE"
    BY <1>1 DEF Refresh, Send, Request
  <2>2. 0 \in 0 .. size /\ 0 \in 0 .. 0
    BY <1>0
  <2>3. QED
    BY <1>0, <2>1, <2>2 DEF HolderTypes, Naming
<1>2. ASSUME NEW err, err \in ErrorCode \cup {"E_TIMEOUT", "E_FAIL"}, Abort(err), waiting' = "none"
      PROVE  HolderTypes'
  BY <1>0, <1>2 DEF Abort, HolderTypes, Naming
<1>3. ASSUME NEW b, NextName(b), Naming, i < size, waiting' = "none" PROVE HolderTypes'
  <2>1. phase' = "plain" /\ size' = size /\ result' = result /\ size = N
    BY <1>3, NextNameFacts DEF HolderTypes
  <2>2. map' \in [Names -> Ids] /\ i' \in 0 .. size' /\ found' \in 0 .. i'
    BY <1>3, NextNameTypes
  <2>3. QED
    BY <1>0, <1>3, <2>1, <2>2 DEF HolderTypes, Naming
<1>4. ASSUME Retry, Naming, i < size, waiting' = "none" PROVE HolderTypes'
  BY <1>0, <1>4 DEF Retry, HolderTypes, Naming
<1>5. CASE SizeAnswered
  <2> DEFINE f == Head(toClient).frame
  <2>1. /\ phase = "size" /\ Take
        /\ \/ f.err # "S_OK" /\ Abort(f.err)
           \/ Abort("E_FAIL")
           \/ /\ f.err = "S_OK" /\ size' = f.data[1] /\ phase' = "plain"
              /\ UNCHANGED <<map, i, found, result>>
    BY <1>5 DEF SizeAnswered
  <2>2. f \in Came /\ f.cmd = waiting /\ waiting' = "none" /\ f \in Srv!Frame
    BY <2>1, AnyTake, HeadIsFrame DEF Take
  <2> HIDE DEF f
  <2>3. waiting = "GET_SIZE" /\ i = 0
    BY <2>1 DEF HolderTypes
  <2>4. f.data = <<N>> /\ f.err \in ErrorCode
    BY <2>2, <2>3 DEF SizeTold, Srv!Frame, Srv!ErrorCode, ErrorCode
  <2>5. CASE Abort(f.err) \/ Abort("E_FAIL")
    BY <1>2, <2>2, <2>4, <2>5
  <2>6. CASE size' = f.data[1] /\ phase' = "plain" /\ UNCHANGED <<map, i, found, result>>
    <3>1. size' = N /\ i' = 0 /\ found' = 0 /\ 0 \in 0 .. N /\ N \in 0 .. N /\ 0 \in 0 .. 0
      BY <1>0, <2>3, <2>4, <2>6
    <3>2. QED
      BY <1>0, <2>2, <2>6, <3>1 DEF HolderTypes, Naming
  <2>7. QED
    BY <2>1, <2>5, <2>6
<1>6. CASE AskPlain \/ AskSealed
  <2>1. /\ UNCHANGED <<map, phase, size, i, found, result>>
        /\ phase \in {"plain", "sealed"} /\ i < size /\ waiting' = "GET_PROPERTY"
    BY <1>6 DEF AskPlain, AskSealed, holderVars, HolderTypes, Send, Request
  <2>2. QED
    BY <1>0, <2>1 DEF HolderTypes, Naming
<1>7. CASE PlainAnswered \/ SealedAnswered
  <2>1. /\ Naming /\ Take
        /\ Retry \/ \E b : NextName(b)
    BY <1>7 DEF PlainAnswered, SealedAnswered, Naming
  <2>2. waiting # "none" /\ waiting' = "none"
    BY <2>1 DEF Take
  <2>3. i < size
    BY <2>1, <2>2 DEF HolderTypes, Naming
  <2>4. QED
    BY <1>3, <1>4, <2>1, <2>2, <2>3
<1>8. CASE TimedOut
  <2>1. /\ waiting # "none" /\ waiting' = "none"
        /\ \/ Abort("E_TIMEOUT")
           \/ phase = "plain" /\ Retry
           \/ phase = "sealed" /\ NextName(<< >>)
    BY <1>8 DEF TimedOut, TimeoutSilent, TimeoutEarly, GiveUp
  <2>2. phase \in {"plain", "sealed"} => i < size /\ Naming
    BY <2>1 DEF HolderTypes, Naming
  <2>3. QED
    BY <1>2, <1>3, <1>4, <2>1, <2>2
<1>9. CASE Finished
  <2>1. /\ phase' = "idle" /\ UNCHANGED <<map, size, i, found>> /\ waiting' = "none"
        /\ result' \in {"S_OK", "E_FAIL"}
    BY <1>9 DEF Finished, csVars, clientVars
  <2>2. "S_OK" \in ErrorCode
    BY DEF ErrorCode
  <2>3. QED
    BY <1>0, <2>1, <2>2 DEF HolderTypes, Naming
<1>10. CASE (PassOver \/ Elsewhere) /\ UNCHANGED holderVars
  <2>1. UNCHANGED <<waiting, map, phase, size, i, found, result>>
    BY <1>10 DEF holderVars, PassOver, Elsewhere, Serve, Return, Log, LoseRequest, LoseAnswer, clientVars
  <2>2. QED
    BY <2>1 DEF HolderTypes, Naming
<1>11. QED
  BY <1>1, <1>5, <1>6, <1>7, <1>8, <1>9, <1>10 DEF Next

-----------------------------------------------------------------------------
(* What refresh() finds *)

\* When as many names were counted as there are, all of them are bound.
LEMMA AllBound ==
  ASSUME CPropertyHolderAssumption, NEW k, found = Cardinality(Names),
         found <= Cardinality(BoundBelow(k))
  PROVE  \A n \in Names : Bound(n)
<1>1. IsFiniteSet(Names) /\ BoundBelow(k) \subseteq Names
  BY NamesFinite DEF BoundBelow
<1>2. /\ Cardinality(BoundBelow(k)) <= Cardinality(Names)
      /\ Cardinality(BoundBelow(k)) \in Nat /\ Cardinality(Names) \in Nat
      /\ Cardinality(Names) = Cardinality(BoundBelow(k)) => Names = BoundBelow(k)
  BY <1>1, FS_Subset, FS_CardinalityType
<1>3. Names = BoundBelow(k)
  BY <1>2
<1>4. QED
  BY <1>3 DEF BoundBelow

\* Nothing is found by a step that leaves the holder and the client alone.
LEMMA QuietFinds ==
  ASSUME Found, Going, Coming, UNCHANGED holderVars, UNCHANGED calls,
         OnWay' \subseteq OnWay, Came' \subseteq Came
  PROVE  Found' /\ Going' /\ Coming'
<1>1. UNCHANGED <<map, phase, i, found, result, calls>>
  BY DEF holderVars
<1>2. Found'
  BY <1>1 DEF Found, Naming, Listed, BoundBelow, Bound, Readable, Done
<1>3. Going' /\ Coming'
  BY <1>1 DEF Going, Coming, Naming, Readable, Request
<1>4. QED
  BY <1>2, <1>3

LEMMA NextTruth ==
  ASSUME CPropertyHolderAssumption, RequestsKnown, HolderInv, CSTypeOK, Next, timeouts' = 0
  PROVE  Found' /\ Going' /\ Coming'
<1>1. CSInv /\ Srv!TypeOK /\ HolderTypes /\ SizeTold /\ timeouts \in Nat
  BY DEF HolderInv, LineSound, Srv!IInv, CSInv, Typed
<1>2. ASSUME timeouts = 0 PROVE Found /\ Going /\ Coming
  BY <1>2 DEF HolderInv, Truth
<1>3. /\ N \in Nat /\ size \in 0 .. N /\ i \in 0 .. size /\ found \in 0 .. i
      /\ size \in Nat /\ i \in Nat /\ found \in Nat
  BY <1>1, FirstId DEF HolderTypes
<1>4. CASE Refresh
  <2> DEFINE q == Request("GET_SIZE", <<0>>, NoSeal)
  <2>1. Send(q) /\ phase' = "size" /\ map' = map
    BY <1>4 DEF Refresh
  <2>2. q \in Requests
    BY <1>1, AskedKnown
  <2> HIDE DEF q
  <2>3. timeouts = 0
    BY <2>1 DEF Send
  <2>4. OnWay' = {q} /\ Came' = {}
    BY <1>1, <2>1, <2>3, SendMoves
  <2>5. Found'
    BY <1>2, <2>1, <2>3 DEF Found, Naming, Bound, Done
  <2>6. QED
    BY <2>1, <2>2, <2>4, <2>5 DEF Going, Coming
<1>5. CASE SizeAnswered
  <2> DEFINE f == Head(toClient).frame
  <2>1. /\ phase = "size" /\ Take
        /\ \/ f.err # "S_OK"
           \/ f.data = << >>
           \/ /\ phase' = "plain" /\ UNCHANGED <<map, i, found, result>>
    BY <1>5 DEF SizeAnswered
  <2>2. timeouts = 0
    BY <2>1 DEF Take
  <2>3. f \in Came /\ OnWay' = {} /\ Came' = {}
    BY <1>1, <2>1, <2>2, TakeMoves
  <2>4. f.cmd = "GET_SIZE" /\ i = 0
    BY <1>1, <2>1 DEF HolderTypes, Take
  <2> HIDE DEF f
  <2>5. f.err = "S_OK" /\ f.data = <<N>> /\ f.data # << >>
    BY <1>1, <2>3, <2>4 DEF SizeTold
  <2>6. phase' = "plain" /\ i' = 0 /\ found' = 0 /\ map' = map
    BY <1>3, <2>1, <2>4, <2>5
  <2>7. Listed(i)'
    BY <2>6 DEF Listed
  <2>8. found' <= Cardinality(BoundBelow(i)')
    <3>1. IsFiniteSet(BoundBelow(i)')
      BY NamesFinite, FS_Subset DEF BoundBelow
    <3>2. Cardinality(BoundBelow(i)') \in Nat
      BY <3>1, FS_CardinalityType
    <3>3. QED
      BY <2>6, <3>2
  <2>9. Found'
    <3>1. \A n \in Names : map'[n] # 0 => Bound(n)'
      BY <1>2, <2>2, <2>6 DEF Found, Bound
    <3>2. QED
      BY <2>6, <2>7, <2>8, <3>1 DEF Found, Naming, Done
  <2>10. QED
    BY <2>3, <2>9 DEF Going, Coming
<1>6. ASSUME NEW s, NEW p,
             \/ p = "plain" /\ s = NoSeal /\ AskPlain
             \/ p = "sealed" /\ s = Secret /\ AskSealed
      PROVE  Found' /\ Going' /\ Coming'
  <2> DEFINE q == Request("GET_PROPERTY", <<0, i>>, s)
  <2>1. /\ Send(q) /\ phase = p /\ UNCHANGED holderVars
        /\ p = "plain" => s = NoSeal /\ i < size
        /\ p = "sealed" => s = Secret
    BY <1>6 DEF AskPlain, AskSealed
  <2>2. p \in {"plain", "sealed"} /\ i < size /\ s \in {NoSeal, Secret}
    BY <1>1, <1>6, <2>1 DEF HolderTypes
  <2>3. q \in Requests
    BY <1>1, <2>2, AskedKnown
  <2>4. UNCHANGED <<map, phase, i, found, result>>
    BY <2>1 DEF holderVars
  <2>5. p = "plain" => q = Request("GET_PROPERTY", <<0, i>>, NoSeal)
    BY <2>1
  <2>6. p = "sealed" => q = Request("GET_PROPERTY", <<0, i>>, Secret)
    BY <2>1
  <2> HIDE DEF q
  <2>7. timeouts = 0
    BY <2>1 DEF Send
  <2>8. OnWay' = {q} /\ Came' = {}
    BY <1>1, <2>1, <2>7, SendMoves
  <2>9. Found'
    <3>1. phase' # "idle"
      BY <2>1, <2>2, <2>4
    <3>2. QED
      BY <1>2, <2>4, <2>7, <3>1 DEF Found, Naming, Listed, BoundBelow, Bound, Readable, Done
  <2>10. Going'
    BY <2>1, <2>3, <2>4, <2>5, <2>6, <2>8 DEF Going
  <2>11. QED
    BY <2>8, <2>9, <2>10 DEF Coming
<1>7. ASSUME NEW b, NextName(b), Naming, i < size, timeouts = 0, OnWay' = {}, Came' = {},
             b = <<Props[i].name>> \/ (~Known(b) /\ ~Readable(i))
      PROVE  Found' /\ Going' /\ Coming'
  <2>1. /\ \A n \in Names : map[n] # 0 => Bound(n)
        /\ Listed(i) /\ found <= Cardinality(BoundBelow(i))
    BY <1>2, <1>7 DEF Found
  <2>2. /\ \A n \in Names : map'[n] # 0 => Bound(n)'
        /\ Listed(i)' /\ found' <= Cardinality(BoundBelow(i)')
    BY <1>1, <1>7, <2>1, NameBound
  <2>3. phase' = "plain"
    BY <1>7, NextNameFacts
  <2>4. Found'
    BY <2>2, <2>3 DEF Found, Naming, Done
  <2>5. QED
    BY <1>7, <2>4 DEF Going, Coming
<1>8. CASE PlainAnswered
  <2> DEFINE f == Head(toClient).frame
  <2>1. /\ phase = "plain" /\ Take
        /\ \/ f.err = "S_OK" /\ NextName(Legible(f))
           \/ f.err # "S_OK" /\ Retry
    BY <1>8 DEF PlainAnswered
  <2>2. timeouts = 0 /\ waiting # "none"
    BY <2>1 DEF Take
  <2>3. f \in Came /\ OnWay' = {} /\ Came' = {}
    BY <1>1, <2>1, <2>2, TakeMoves
  <2> HIDE DEF f
  <2>4. Naming /\ i < size
    BY <1>1, <2>1, <2>2 DEF HolderTypes, Naming
  <2>5. /\ f.err = "S_OK" => f.data = <<Props[i].name>>
        /\ f.seal = NoSeal /\ (Readable(i) => f.err = "S_OK")
    BY <1>2, <2>1, <2>2, <2>3, <2>4 DEF Coming
  <2>6. CASE f.err = "S_OK" /\ NextName(Legible(f))
    <3>1. Legible(f) = <<Props[i].name>>
      BY <2>5, <2>6 DEF Legible
    <3>2. QED
      BY <1>7, <2>2, <2>3, <2>4, <2>6, <3>1
  <2>7. CASE f.err # "S_OK" /\ Retry
    <3>1. phase' = "sealed" /\ UNCHANGED <<map, i, found, result>>
      BY <2>7 DEF Retry
    <3>2. ~Readable(i)
      BY <2>5, <2>7
    <3>3. Found'
      BY <1>2, <2>2, <2>4, <3>1, <3>2
      DEF Found, Naming, Listed, BoundBelow, Bound, Readable, Done
    <3>4. QED
      BY <2>3, <3>3 DEF Going, Coming
  <2>8. QED
    BY <2>1, <2>6, <2>7
<1>9. CASE SealedAnswered
  <2> DEFINE f == Head(toClient).frame
             opens == Opens([cells |-> f.data, data |-> 0, seal |-> f.seal], Secret)
             b == IF f.err = "S_OK" /\ opens THEN f.data ELSE <<>>
  <2>1. phase = "sealed" /\ Take /\ NextName(b)
    BY <1>9 DEF SealedAnswered
  <2>2. timeouts = 0 /\ waiting # "none"
    BY <2>1 DEF Take
  <2>3. f \in Came /\ OnWay' = {} /\ Came' = {}
    BY <1>1, <2>1, <2>2, TakeMoves
  <2> HIDE DEF f, opens
  <2>4. Naming /\ i < size
    BY <1>1, <2>1, <2>2 DEF HolderTypes, Naming
  <2>5. /\ f.err = "S_OK" => f.data = <<Props[i].name>>
        /\ ~Readable(i)
    BY <1>2, <2>1, <2>2, <2>3, <2>4 DEF Coming, Found
  <2>6. b = <<Props[i].name>> \/ ~Known(b)
    <3>1. \A n : << >> # <<n>>
      OBVIOUS
    <3>2. QED
      BY <2>5, <3>1 DEF Known
  <2> HIDE DEF b
  <2>7. QED
    BY <1>7, <2>1, <2>2, <2>3, <2>4, <2>5, <2>6
<1>10. CASE TimedOut
  <2>1. timeouts' = timeouts + 1
    BY <1>10 DEF TimedOut, TimeoutSilent, TimeoutEarly, GiveUp
  <2>2. QED
    BY <1>1, <2>1
<1>11. CASE Finished
  <2>1. /\ phase = "plain" /\ waiting = "none" /\ i >= size /\ phase' = "idle"
        /\ result' = IF found = Cardinality(Names) THEN "S_OK" ELSE "E_FAIL"
        /\ UNCHANGED csVars /\ UNCHANGED <<map, i, found>>
    BY <1>11 DEF Finished
  <2>2. /\ OnWay' \subseteq OnWay /\ Came' \subseteq Came /\ timeouts = 0
    BY <1>1, <2>1, QuietMoves
  <2>3. OnWay' = {} /\ Came' = {}
    BY <1>1, <2>1, <2>2, IdleLine
  <2>4. i = N
    BY <1>1, <1>3, <2>1 DEF HolderTypes, Naming
  <2>5. /\ \A n \in Names : map[n] # 0 => Bound(n)
        /\ Listed(N) /\ found <= Cardinality(BoundBelow(i))
    BY <1>2, <2>1, <2>2, <2>4 DEF Found, Naming
  <2>6. result' = "S_OK" => \A n \in Names : Bound(n)
    BY <2>1, <2>5, AllBound
  <2>7. Found'
    BY <2>1, <2>5, <2>6 DEF Found, Naming, Listed, Bound, Readable, Done
  <2>8. QED
    BY <2>3, <2>7 DEF Going, Coming
<1>12. CASE Serve /\ UNCHANGED holderVars
  <2>1. UNCHANGED <<map, phase, i, found, result, timeouts, calls>>
    BY <1>12 DEF Serve, clientVars, holderVars
  <2>2. Found /\ Going
    BY <1>2, <2>1
  <2>3. PICK q \in OnWay :
          /\ Srv!Poll(q) /\ OnWay' = {} /\ Came' = {reply'} /\ waiting # "none"
    BY <1>1, <1>12, <2>1, ServeMoves
  <2>4. /\ q \in Requests
        /\ phase = "plain" => q = Request("GET_PROPERTY", <<0, i>>, NoSeal)
        /\ phase = "sealed" => q = Request("GET_PROPERTY", <<0, i>>, Secret)
    BY <2>2, <2>3 DEF Going
  <2>5. ASSUME Naming
        PROVE  /\ reply'.err = "S_OK" => reply'.data = <<Props[i].name>>
               /\ phase = "plain" => reply'.seal = NoSeal /\ (Readable(i) => reply'.err = "S_OK")
    <3>1. i \in Ids
      BY <1>1, <1>3, <2>3, <2>5, FirstId DEF HolderTypes, Naming
    <3>2. QED
      BY <1>1, <2>3, <2>4, <2>5, <3>1, NameServed DEF Naming
  <2>6. Coming'
    BY <2>1, <2>3, <2>5 DEF Coming, Naming, Readable
  <2>7. Found'
    BY <2>1, <2>2 DEF Found, Naming, Listed, BoundBelow, Bound, Readable, Done
  <2>8. QED
    BY <2>3, <2>6, <2>7 DEF Going
<1>13. CASE (PassOver \/ Return \/ Log \/ LoseRequest \/ LoseAnswer) /\ UNCHANGED holderVars
  <2>1. OnWay' \subseteq OnWay /\ Came' \subseteq Came /\ UNCHANGED timeouts
    BY <1>1, <1>13, QuietMoves
  <2>2. UNCHANGED calls
    BY <1>13 DEF PassOver, Return, Log, LoseRequest, LoseAnswer, clientVars
  <2>3. QED
    BY <1>2, <1>13, <2>1, <2>2, QuietFinds
<1>14. QED
  BY <1>4, <1>5, <1>6, <1>8, <1>9, <1>10, <1>11, <1>12, <1>13 DEF Next, Elsewhere

LEMMA InitHolder == CPropertyHolderAssumption /\ Init => HolderInv
<1> SUFFICES ASSUME CPropertyHolderAssumption, Init PROVE HolderInv
  OBVIOUS
<1>1. LineSound
  BY InitSound DEF Init
<1>2. /\ waiting = "none" /\ timeouts = 0 /\ calls = 0 /\ phase = "idle"
      /\ map = [n \in Names |-> 0]
  BY DEF Init, CSInit, HolderInit
<1>3. OnWay = {} /\ Came = {}
  BY <1>1, <1>2, IdleLine DEF LineSound
<1>4. Truth
  BY <1>2, <1>3 DEF Truth, Found, Going, Coming, Naming, Done
<1>5. QED
  BY <1>1, <1>3, <1>4, InitHolderTypes DEF HolderInv, SizeAsked, SizeTold

LEMMA NextHolder ==
  CPropertyHolderAssumption /\ RequestsKnown => (HolderInv /\ [Next]_vars => HolderInv')
<1> SUFFICES ASSUME CPropertyHolderAssumption, RequestsKnown, HolderInv, [Next]_vars PROVE HolderInv'
  OBVIOUS
<1>1. /\ LineSound /\ HolderTypes /\ Truth /\ CSTypeOK /\ SizeAsked /\ SizeTold
      /\ CSInv /\ Srv!TypeOK /\ OnWay \subseteq Requests
  BY SoundTyped, WayKnown DEF HolderInv, LineSound, Srv!IInv
<1>2. CASE Next
  <2>1. LineSound'
    BY <1>1, <1>2, StepOnLine, NextSound
  <2>2. SizeAsked' /\ SizeTold'
    BY <1>1, <1>2, NextSize
  <2>3. HolderTypes'
    BY <1>1, <1>2, NextHolderTypes
  <2>4. Truth'
    BY <1>1, <1>2, NextTruth DEF Truth
  <2>5. QED
    BY <2>1, <2>2, <2>3, <2>4 DEF HolderInv
<1>3. CASE UNCHANGED vars
  <2>1. UNCHANGED csVars /\ UNCHANGED holderVars
    BY <1>3 DEF vars
  <2>2. LineSound'
    BY <1>1, <2>1, NextSound
  <2>3. OnWay' \subseteq OnWay /\ Came' \subseteq Came /\ UNCHANGED <<waiting, timeouts>>
    BY <1>1, <2>1, QuietMoves
  <2>4. SizeAsked' /\ SizeTold'
    BY <1>1, <2>3 DEF SizeAsked, SizeTold
  <2>5. HolderTypes'
    BY <1>1, <2>1, <2>3 DEF HolderTypes, holderVars, Naming
  <2>6. UNCHANGED calls
    BY <2>1 DEF csVars, clientVars
  <2>7. Truth'
    BY <1>1, <2>1, <2>3, <2>6, QuietFinds DEF Truth
  <2>8. QED
    BY <2>2, <2>4, <2>5, <2>7 DEF HolderInv
<1>4. QED
  BY <1>2, <1>3

-----------------------------------------------------------------------------
(* The theorems *)

LEMMA HolderTyped == HolderInv => TypeOK
BY SoundTyped DEF HolderInv, HolderTypes, TypeOK

LEMMA InvBinds == HolderInv => BindsRight
BY DEF HolderInv, Truth, Found, BindsRight

LEMMA InvFinds == HolderInv => FindsPlainNames
BY DEF HolderInv, Truth, Found, FindsPlainNames, Listed, Readable, Ids

\* However many timeouts there are and whatever answers come late: refresh() asks for no id
\* the server does not have and stores none.
THEOREM HolderTypeCorrect ==
  ASSUME CPropertyHolderAssumption, RequestsKnown
  PROVE  Spec => []TypeOK
BY InitHolder, NextHolder, HolderTyped, PTL DEF Spec

\* For any properties and names: while no call has timed out, a name is bound to the
\* property that has it, whatever is lost or logged.
THEOREM BindsAlwaysRight ==
  ASSUME CPropertyHolderAssumption, RequestsKnown
  PROVE  Spec => []BindsRight
BY InitHolder, NextHolder, InvBinds, PTL DEF Spec

\* A refresh() that no timeout disturbs has found every name a plain client may read, and
\* has returned S_OK only if it found all it looked for.
THEOREM PlainNamesAlwaysFound ==
  ASSUME CPropertyHolderAssumption, RequestsKnown
  PROVE  Spec => []FindsPlainNames
BY InitHolder, NextHolder, InvFinds, PTL DEF Spec
=============================================================================
