----------------------------- MODULE HostCSProofs -----------------------------
(***************************************************************************)
(* Whose answer a client gets, for any number of calls, timeouts, losses   *)
(* and logs.                                                               *)
(***************************************************************************)
EXTENDS HostCS, TLAPS

IsSeq(s) == \E S : s \in Seq(S)

\* What is on the line is younger than the last answer taken, in order, and what
\* goes to the client is older than what still goes to the server.
Younger(s) == \A i \in 1 .. Len(s) : s[i].of # 0 => took < s[i].of /\ s[i].of <= calls
Rising(s) ==
  \A i, j \in 1 .. Len(s) : i < j /\ s[i].of # 0 /\ s[j].of # 0 => s[i].of < s[j].of
Before(s, t) ==
  \A i \in 1 .. Len(s), j \in 1 .. Len(t) : s[i].of # 0 => s[i].of < t[j].of

Typed ==
  /\ calls \in Nat /\ took \in Nat /\ timeouts \in Nat
  /\ IsSeq(toServer) /\ IsSeq(toClient)
  /\ \A i \in 1 .. Len(toServer) : toServer[i].of \in Nat \ {0}
  /\ \A i \in 1 .. Len(toClient) : toClient[i].of \in Nat

\* Only logs belong to no request, and recv_response() never waits for one.
LogsApart ==
  /\ \A i \in 1 .. Len(toClient) : toClient[i].of = 0 => toClient[i].frame.cmd = "LOG"
  /\ waiting # "LOG"

Ordered ==
  /\ Younger(toServer) /\ Younger(toClient)
  /\ Rising(toServer) /\ Rising(toClient)
  /\ Before(toClient, toServer)

CSInv == Typed /\ LogsApart /\ Ordered /\ SkewBounded

\* The steps of any client that asks for no logs.
CSStep ==
  \/ \E q : q.cmd \notin {"LOG", "none"} /\ Send(q)
  \/ PassOver \/ Take \/ TimeoutSilent \/ TimeoutEarly
  \/ Elsewhere

-----------------------------------------------------------------------------

LEMMA TailFacts ==
  ASSUME NEW s, IsSeq(s), s # << >>
  PROVE  /\ IsSeq(Tail(s)) /\ Len(s) \in Nat /\ Len(Tail(s)) = Len(s) - 1 /\ Len(s) > 0
         /\ Head(s) = s[1]
         /\ \A i \in 1 .. Len(Tail(s)) : Tail(s)[i] = s[i + 1] /\ i + 1 \in 1 .. Len(s)
<1>1. PICK S : s \in Seq(S)
  BY DEF IsSeq
<1>2. Tail(s) \in Seq(S)
  BY <1>1
<1>3. QED
  BY <1>1, <1>2 DEF IsSeq

LEMMA AppendFacts ==
  ASSUME NEW s, IsSeq(s), NEW e
  PROVE  /\ IsSeq(Append(s, e)) /\ Len(s) \in Nat /\ Len(Append(s, e)) = Len(s) + 1
         /\ \A i \in 1 .. Len(Append(s, e)) :
              \/ i \in 1 .. Len(s) /\ Append(s, e)[i] = s[i]
              \/ i = Len(s) + 1 /\ Append(s, e)[i] = e
<1>1. PICK S : s \in Seq(S)
  BY DEF IsSeq
<1>2. s \in Seq(S \cup {e})
  BY <1>1
<1>3. Append(s, e) \in Seq(S \cup {e})
  BY <1>2
<1>4. QED
  BY <1>2, <1>3 DEF IsSeq

LEMMA HeadOfSeq ==
  ASSUME NEW S, NEW s \in Seq(S), s # << >>
  PROVE  Head(s) \in S /\ Tail(s) \in Seq(S)
OBVIOUS

LEMMA InitCSInv == CSInit => CSInv
<1> SUFFICES ASSUME CSInit PROVE CSInv
  OBVIOUS
<1>1. << >> \in Seq({}) /\ Len(<< >>) = 0
  OBVIOUS
<1>2. IsSeq(<< >>)
  BY <1>1 DEF IsSeq
<1>3. QED
  BY <1>1, <1>2 DEF CSInit, CSInv, Typed, LogsApart, Ordered, Younger, Rising, Before,
                    SkewBounded

\* The oldest frame leaves a channel: it is lost, passed over or taken.
LEMMA SendKeeps ==
  ASSUME CSInv, NEW q, q.cmd \notin {"LOG", "none"}, Send(q)
  PROVE  CSInv'
<1> DEFINE e == [of |-> calls + 1, frame |-> q]
<1>1. /\ calls \in Nat /\ calls' = calls + 1 /\ waiting' = q.cmd /\ waiting = "none"
      /\ toServer' = Append(toServer, e) /\ e.of = calls + 1
      /\ UNCHANGED <<toClient, took, timeouts>>
  BY DEF Send, CSInv, Typed
<1>2. /\ IsSeq(toServer') /\ Len(toServer) \in Nat /\ Len(toServer') = Len(toServer) + 1
      /\ \A i \in 1 .. Len(toServer') :
           \/ i \in 1 .. Len(toServer) /\ toServer'[i] = toServer[i]
           \/ i = Len(toServer) + 1 /\ toServer'[i] = e
  <2> HIDE DEF e
  <2>1. QED
    BY <1>1, AppendFacts DEF CSInv, Typed
<1> HIDE DEF e
<1>3. Typed'
  BY <1>1, <1>2 DEF CSInv, Typed
<1>4. LogsApart'
  BY <1>1 DEF CSInv, LogsApart
<1>5. Younger(toServer)' /\ Younger(toClient)'
  <2>1. \A i \in 1 .. Len(toServer) : toServer[i].of \in Nat /\ took < toServer[i].of /\ toServer[i].of <= calls
    BY DEF CSInv, Ordered, Younger, Typed
  <2>2. \A i \in 1 .. Len(toClient) :
          toClient[i].of # 0 => toClient[i].of \in Nat /\ took < toClient[i].of /\ toClient[i].of <= calls
    BY DEF CSInv, Ordered, Younger, Typed
  <2>3. took <= calls /\ took \in Nat
    BY DEF CSInv, SkewBounded, Typed
  <2>4. QED
    BY <1>1, <1>2, <2>1, <2>2, <2>3 DEF Younger
<1>6. Rising(toServer)' /\ Rising(toClient)'
  <2>1. \A i \in 1 .. Len(toServer) : toServer[i].of \in Nat /\ toServer[i].of <= calls
    BY DEF CSInv, Ordered, Younger, Typed
  <2>2. Rising(toServer) /\ Rising(toClient)
    BY DEF CSInv, Ordered
  <2>3. QED
    BY <1>1, <1>2, <2>1, <2>2 DEF Rising
<1>7. Before(toClient, toServer)'
  BY <1>1, <1>2 DEF CSInv, Ordered, Younger, Before, Typed
<1>8. SkewBounded'
  BY <1>1 DEF CSInv, SkewBounded, Typed
<1>9. QED
  BY <1>3, <1>4, <1>5, <1>6, <1>7, <1>8 DEF CSInv, Ordered

\* A frame to the client is lost or passed over.
LEMMA DropAnswerKeeps ==
  ASSUME CSInv, toClient # << >>, toClient' = Tail(toClient),
         UNCHANGED <<toServer, calls, took, timeouts, waiting>>
  PROVE  CSInv'
<1>1. /\ IsSeq(toClient') /\ Len(toClient) \in Nat /\ Len(toClient') = Len(toClient) - 1
      /\ \A i \in 1 .. Len(toClient') : toClient'[i] = toClient[i + 1] /\ i + 1 \in 1 .. Len(toClient)
  BY TailFacts DEF CSInv, Typed
<1>2. Typed' /\ LogsApart'
  BY <1>1 DEF CSInv, Typed, LogsApart
<1>3. Younger(toServer)' /\ Younger(toClient)' /\ Rising(toServer)' /\ Before(toClient, toServer)'
  BY <1>1 DEF CSInv, Ordered, Younger, Rising, Before
<1>4. Rising(toClient)'
  BY <1>1 DEF CSInv, Ordered, Rising
<1>5. QED
  BY <1>2, <1>3, <1>4 DEF CSInv, Ordered, SkewBounded

\* A frame to the server is lost.
LEMMA DropRequestKeeps ==
  ASSUME CSInv, toServer # << >>, toServer' = Tail(toServer),
         UNCHANGED <<toClient, calls, took, timeouts, waiting>>
  PROVE  CSInv'
<1>1. /\ IsSeq(toServer') /\ Len(toServer) \in Nat /\ Len(toServer') = Len(toServer) - 1
      /\ \A i \in 1 .. Len(toServer') : toServer'[i] = toServer[i + 1] /\ i + 1 \in 1 .. Len(toServer)
  BY TailFacts DEF CSInv, Typed
<1>2. Typed' /\ LogsApart'
  BY <1>1 DEF CSInv, Typed, LogsApart
<1>3. Younger(toServer)' /\ Younger(toClient)' /\ Rising(toClient)' /\ Before(toClient, toServer)'
  BY <1>1 DEF CSInv, Ordered, Younger, Rising, Before
<1>4. Rising(toServer)'
  BY <1>1 DEF CSInv, Ordered, Rising
<1>5. QED
  BY <1>2, <1>3, <1>4 DEF CSInv, Ordered, SkewBounded

\* A frame for the client comes behind all others: a log, or the answer to the
\* oldest request on the line.
LEMMA AddAnswerKeeps ==
  ASSUME CSInv, NEW e, e.of \in Nat, e.of = 0 => e.frame.cmd = "LOG",
         toClient' = Append(toClient, e), IsSeq(toServer'),
         UNCHANGED <<calls, took, timeouts, waiting>>,
         \/ e.of = 0 /\ toServer' = toServer
         \/ toServer # << >> /\ e.of = toServer[1].of /\ toServer' = Tail(toServer)
  PROVE  CSInv'
<1>1. /\ IsSeq(toClient') /\ Len(toClient) \in Nat /\ Len(toClient') = Len(toClient) + 1
      /\ \A i \in 1 .. Len(toClient') :
           \/ i \in 1 .. Len(toClient) /\ toClient'[i] = toClient[i]
           \/ i = Len(toClient) + 1 /\ toClient'[i] = e
  BY AppendFacts DEF CSInv, Typed
<1>2. CASE e.of = 0 /\ toServer' = toServer
  BY <1>1, <1>2 DEF CSInv, Typed, LogsApart, Ordered, Younger, Rising, Before, SkewBounded
<1>3. CASE toServer # << >> /\ e.of = toServer[1].of /\ toServer' = Tail(toServer)
  <2>1. /\ Len(toServer) \in Nat /\ Len(toServer') = Len(toServer) - 1 /\ 1 \in 1 .. Len(toServer)
        /\ \A i \in 1 .. Len(toServer') :
             toServer'[i] = toServer[i + 1] /\ i + 1 \in 1 .. Len(toServer)
    BY <1>3, TailFacts DEF CSInv, Typed
  <2>2. e.of # 0 /\ took < e.of /\ e.of <= calls
    BY <1>3, <2>1 DEF CSInv, Typed, Ordered, Younger
  <2>3. Typed' /\ LogsApart'
    BY <1>1, <2>1, <2>2 DEF CSInv, Typed, LogsApart
  <2>4. Younger(toServer)' /\ Younger(toClient)'
    BY <1>1, <2>1, <2>2 DEF CSInv, Ordered, Younger
  <2>5. Rising(toServer)'
    BY <2>1 DEF CSInv, Ordered, Rising
  <2>6. Rising(toClient)'
    <3>1. \A i \in 1 .. Len(toClient) : toClient[i].of # 0 => toClient[i].of < e.of
      BY <1>3, <2>1 DEF CSInv, Ordered, Before
    <3>2. Rising(toClient)
      BY DEF CSInv, Ordered
    <3>3. ASSUME NEW i \in 1 .. Len(toClient'), NEW j \in 1 .. Len(toClient'), i < j,
                 toClient'[i].of # 0, toClient'[j].of # 0
          PROVE  toClient'[i].of < toClient'[j].of
      <4>1. i \in 1 .. Len(toClient) /\ toClient'[i] = toClient[i]
        BY <1>1, <3>3
      <4>2. CASE j \in 1 .. Len(toClient) /\ toClient'[j] = toClient[j]
        BY <3>2, <3>3, <4>1, <4>2 DEF Rising
      <4>3. CASE toClient'[j] = e
        BY <3>1, <3>3, <4>1, <4>3
      <4>4. QED
        BY <1>1, <4>2, <4>3
    <3>4. QED
      BY <3>3 DEF Rising
  <2>7. \A j \in 1 .. Len(toServer') : e.of < toServer'[j].of
    <3>1. Rising(toServer) /\ \A i \in 1 .. Len(toServer) : toServer[i].of # 0
      BY DEF CSInv, Ordered, Typed
    <3>2. ASSUME NEW j \in 1 .. Len(toServer') PROVE e.of < toServer'[j].of
      <4>1. toServer'[j] = toServer[j + 1] /\ j + 1 \in 1 .. Len(toServer) /\ 1 < j + 1
        BY <2>1
      <4>2. toServer[1].of < toServer[j + 1].of
        BY <2>1, <3>1, <4>1 DEF Rising
      <4>3. QED
        BY <1>3, <4>1, <4>2
    <3>3. QED
      BY <3>2
  <2>8. Before(toClient, toServer)'
    BY <1>1, <2>1, <2>7 DEF CSInv, Ordered, Before
  <2>9. QED
    BY <2>3, <2>4, <2>5, <2>6, <2>8 DEF CSInv, Ordered, SkewBounded
<1>4. QED
  BY <1>2, <1>3

\* An answer is taken: it is younger than the last one, and older than the rest.
LEMMA TakeKeeps ==
  ASSUME CSInv, Take
  PROVE  CSInv' /\ took' > took
<1>1. /\ toClient # << >> /\ Head(toClient).frame.cmd = waiting /\ waiting # "none"
      /\ toClient' = Tail(toClient) /\ waiting' = "none" /\ took' = Head(toClient).of
      /\ UNCHANGED <<toServer, calls, timeouts>>
  BY DEF Take
<1>2. /\ IsSeq(toClient') /\ Len(toClient) \in Nat /\ Len(toClient') = Len(toClient) - 1
      /\ 1 \in 1 .. Len(toClient) /\ Head(toClient) = toClient[1]
      /\ \A i \in 1 .. Len(toClient') : toClient'[i] = toClient[i + 1] /\ i + 1 \in 1 .. Len(toClient)
  BY <1>1, TailFacts DEF CSInv, Typed
<1>3. took' = toClient[1].of /\ took' \in Nat \ {0} /\ took < took' /\ took' <= calls
  BY <1>1, <1>2 DEF CSInv, Typed, LogsApart, Ordered, Younger
<1>4. Typed' /\ LogsApart'
  BY <1>1, <1>2, <1>3 DEF CSInv, Typed, LogsApart
<1>5. Younger(toServer)'
  BY <1>1, <1>2, <1>3 DEF CSInv, Ordered, Younger, Before
<1>6. Younger(toClient)' /\ Rising(toClient)'
  BY <1>1, <1>2, <1>3 DEF CSInv, Ordered, Younger, Rising
<1>7. Rising(toServer)' /\ Before(toClient, toServer)'
  BY <1>1, <1>2 DEF CSInv, Ordered, Rising, Before
<1>8. SkewBounded'
  BY <1>1, <1>3 DEF CSInv, SkewBounded, Typed
<1>9. QED
  BY <1>3, <1>4, <1>5, <1>6, <1>7, <1>8 DEF CSInv, Ordered

LEMMA NextCSInv == CSInv /\ [CSStep]_csVars => CSInv'
<1> SUFFICES ASSUME CSInv, [CSStep]_csVars PROVE CSInv'
  OBVIOUS
<1>1. ASSUME NEW q, q.cmd \notin {"LOG", "none"}, Send(q) PROVE CSInv'
  BY <1>1, SendKeeps
<1>2. CASE PassOver \/ LoseAnswer
  BY <1>2, DropAnswerKeeps DEF PassOver, LoseAnswer, clientVars
<1>3. CASE Take
  BY <1>3, TakeKeeps
<1>4. CASE TimeoutSilent \/ TimeoutEarly
  BY <1>4 DEF TimeoutSilent, TimeoutEarly, GiveUp, CSInv, Typed, LogsApart, Ordered,
              Younger, Rising, Before, SkewBounded
<1>5. CASE Serve
  <2> DEFINE e == [of |-> Head(toServer).of, frame |-> reply']
  <2>1. /\ toServer # << >> /\ toServer' = Tail(toServer) /\ e.of = Head(toServer).of
        /\ toClient' = Append(toClient, e)
        /\ UNCHANGED <<calls, took, timeouts, waiting>>
    BY <1>5 DEF Serve, clientVars
  <2>2. /\ IsSeq(toServer') /\ Head(toServer) = toServer[1] /\ 1 \in 1 .. Len(toServer)
    BY <2>1, TailFacts DEF CSInv, Typed
  <2>3. e.of \in Nat \ {0}
    BY <2>1, <2>2 DEF CSInv, Typed
  <2> HIDE DEF e
  <2>4. QED
    BY <2>1, <2>2, <2>3, AddAnswerKeeps
<1>6. CASE Log
  <2> DEFINE e == [of |-> 0, frame |-> LogFrame]
  <2>1. /\ toClient' = Append(toClient, e) /\ e.of = 0 /\ e.frame.cmd = "LOG"
        /\ UNCHANGED <<toServer, calls, took, timeouts, waiting>>
    BY <1>6, CSAssumption DEF Log, clientVars
  <2>2. IsSeq(toServer') /\ toServer' = toServer
    BY <2>1 DEF CSInv, Typed
  <2> HIDE DEF e
  <2>3. QED
    BY <2>1, <2>2, AddAnswerKeeps
<1>7. CASE LoseRequest
  BY <1>7, DropRequestKeeps DEF LoseRequest, clientVars
<1>8. CASE Return \/ UNCHANGED csVars
  BY <1>8 DEF Return, csVars, clientVars, CSInv, Typed, LogsApart, Ordered, Younger, Rising,
              Before, SkewBounded
<1>9. QED
  BY <1>1, <1>2, <1>3, <1>4, <1>5, <1>6, <1>7, <1>8 DEF CSStep, Elsewhere

\* An answer handed out is younger than the one before.
LEMMA StepTakesOnce ==
  CSInv /\ [CSStep]_csVars =>
    (waiting # "none" /\ waiting' = "none" /\ timeouts' = timeouts => took' > took)
<1> SUFFICES ASSUME CSInv, [CSStep]_csVars,
                    waiting # "none", waiting' = "none", timeouts' = timeouts
             PROVE  took' > took
  OBVIOUS
<1>1. timeouts' # timeouts + 1
  BY DEF CSInv, Typed
<1>2. Take
  BY <1>1 DEF CSStep, Elsewhere, Send, PassOver, TimeoutSilent, TimeoutEarly, GiveUp, Serve,
              Return, Log, LoseRequest, LoseAnswer, csVars, clientVars
<1>3. QED
  BY <1>2, TakeKeeps

-----------------------------------------------------------------------------

LEMMA NextIsStep == [CSNext]_csVars => [CSStep]_csVars
<1>1. \A q \in Requests : q.cmd \notin {"LOG", "none"}
  BY CSAssumption DEF Server!ServerConstants, Server!Command, Server!PropertyCommand
<1>2. QED
  BY <1>1 DEF CSNext, CSStep

\* recv_response() returns no answer that is older than there have been timeouts.
THEOREM SkewAlwaysBounded == CSSpec => []SkewBounded
BY InitCSInv, NextCSInv, NextIsStep, PTL DEF CSSpec, CSInv

\* recv_response() returns each answer once, in the order of the requests.
THEOREM AnswersAlwaysOnce == CSSpec => AnswersOnce
BY InitCSInv, NextCSInv, NextIsStep, StepTakesOnce, PTL DEF CSSpec, AnswersOnce

-----------------------------------------------------------------------------

\* The requests on the line are requests.
Asked == toServer \in Seq([of : Nat, frame : Requests]) /\ calls \in Nat

LEMMA NextAsked == Asked /\ [CSNext]_csVars => Asked' /\ [Server!Next]_(Server!vars)
<1> SUFFICES ASSUME Asked, [CSNext]_csVars PROVE Asked' /\ [Server!Next]_(Server!vars)
  OBVIOUS
<1>1. ASSUME NEW q \in Requests, Send(q) PROVE Asked' /\ UNCHANGED serverVars
  <2>1. [of |-> calls + 1, frame |-> q] \in [of : Nat, frame : Requests]
    BY DEF Asked
  <2>2. QED
    BY <1>1, <2>1 DEF Asked, Send
<1>2. CASE PassOver \/ Take \/ TimeoutSilent \/ TimeoutEarly \/ Log \/ LoseAnswer
  <2>1. UNCHANGED <<toServer, calls>> /\ UNCHANGED serverVars
    BY <1>2 DEF PassOver, Take, TimeoutSilent, TimeoutEarly, GiveUp, Log, LoseAnswer, clientVars
  <2>2. QED
    BY <2>1 DEF Asked, serverVars, Server!vars
<1>3. CASE Serve
  <2>1. /\ toServer # << >> /\ toServer' = Tail(toServer) /\ UNCHANGED calls
        /\ Server!Poll(Head(toServer).frame)
    BY <1>3 DEF Serve, clientVars
  <2>2. Head(toServer) \in [of : Nat, frame : Requests] /\ Tail(toServer) \in Seq([of : Nat, frame : Requests])
    BY <2>1, HeadOfSeq DEF Asked
  <2>3. QED
    BY <2>1, <2>2 DEF Asked, Server!Next
<1>4. CASE Return
  BY <1>4 DEF Return, Asked, clientVars, Server!Next
<1>5. CASE LoseRequest
  BY <1>5 DEF LoseRequest, Asked, clientVars, serverVars, Server!vars
<1>6. CASE UNCHANGED csVars
  BY <1>6 DEF Asked, csVars, clientVars, serverVars, Server!vars
<1>7. QED
  BY <1>1, <1>2, <1>3, <1>4, <1>5, <1>6 DEF CSNext, Elsewhere, serverVars, Server!vars

\* Whatever clients, timeouts and the line do, the server's part is HostServer.
THEOREM ServerAlwaysImplemented == CSSpec => ServerImplemented
<1>1. CSInit => Asked /\ Server!Init
  <2>1. << >> \in Seq([of : Nat, frame : Requests])
    OBVIOUS
  <2>2. QED
    BY <2>1 DEF CSInit, Asked
<1>2. QED
  BY <1>1, NextAsked, PTL DEF CSSpec, ServerImplemented, Server!Spec

-----------------------------------------------------------------------------

Srv == INSTANCE HostServerProofs

-----------------------------------------------------------------------------
(* What HostServerProofs shows of the server holds of the one on the line. *)

LEMMA ServerAssumptions ==
  Srv!ExtraAssumption /\ Srv!PropsAssumption /\ Srv!ServerAssumption /\ Srv!ServerConstants
<1>1. Srv!ExtraAssumption
  BY ExtraAssumption DEF Cells, Srv!Cells
<1>2. Srv!PropsAssumption
  BY PropsAssumption DEF Cells, Srv!Cells, Ids, Srv!Ids, Kind, Srv!Kind, Access, Srv!Access
<1>3. Srv!ServerConstants
  BY CSAssumption DEF Server!ServerConstants, Srv!ServerConstants, Server!Cells, Srv!Cells,
    Server!Ids, Srv!Ids, Server!Command, Srv!Command, Server!PropertyCommand, Srv!PropertyCommand,
    Server!Seal, Srv!Seal
<1>4. QED
  BY <1>1, <1>2, <1>3

\* The buffer, ...
LEMMA SameBuffer ==
  /\ Server!Empty = Srv!Empty
  /\ \A x, n : Server!Got(x, n) = Srv!Got(x, n) /\ Server!Skip(x, n) = Srv!Skip(x, n)
  /\ \A x, n : Server!CanGet(x, n) <=> Srv!CanGet(x, n)
  /\ \A x : Server!Remain(x) = Srv!Remain(x) /\ Server!Spare(x) = Srv!Spare(x)
  /\ \A x, s : Server!CanAdd(x, s) <=> Srv!CanAdd(x, s)
  /\ \A x, s : Server!Added(x, s) = Srv!Added(x, s)
  /\ \A x : Server!Truncate(x) = Srv!Truncate(x) /\ Server!ReadAll(x) = Srv!ReadAll(x)
  /\ \A x, seal : Server!Encrypt(x, seal) = Srv!Encrypt(x, seal)
  /\ \A x, seal : Server!Opens(x, seal) <=> Srv!Opens(x, seal)
  /\ \A x, seal : Server!Decrypt(x, seal) = Srv!Decrypt(x, seal)
BY DEF Server!Empty, Srv!Empty, Server!Got, Srv!Got, Server!Skip, Srv!Skip,
  Server!CanGet, Srv!CanGet, Server!Remain, Srv!Remain, Server!Spare, Srv!Spare,
  Server!CanAdd, Srv!CanAdd, Server!Added, Srv!Added, Server!Truncate, Srv!Truncate,
  Server!ReadAll, Srv!ReadAll, Server!Encrypt, Srv!Encrypt, Server!Opens, Srv!Opens,
  Server!Decrypt, Srv!Decrypt

\* ... the methods of the properties ...
LEMMA SameMethods ==
  /\ Server!Ids = Srv!Ids /\ Server!Cells = Srv!Cells
  /\ \A err, x, v : Server!Gives(err, x, v) = Srv!Gives(err, x, v)
  /\ \A s, v : Server!Answer(s, v) = Srv!Answer(s, v)
  /\ \A access, privileged :
       /\ Server!CheckRead(access, privileged) = Srv!CheckRead(access, privileged)
       /\ Server!CheckWrite(access, privileged) = Srv!CheckWrite(access, privileged)
  /\ \A access : Server!AccessCode(access) = Srv!AccessCode(access)
  /\ \A a, b : Server!Below(a, b) <=> Srv!Below(a, b)
BY SameBuffer DEF Server!Ids, Srv!Ids, Server!Cells, Srv!Cells, Server!Gives, Srv!Gives, Server!Answer, Srv!Answer,
  Server!CheckRead, Srv!CheckRead, Server!CheckWrite, Srv!CheckWrite,
  Server!AccessCode, Srv!AccessCode, Server!Below, Srv!Below

LEMMA SameProperties ==
  /\ \A p, v, x, privileged : Server!Get(p, v, x, privileged) = Srv!Get(p, v, x, privileged)
  /\ \A p, v, x : Server!Set(p, v, x) = Srv!Set(p, v, x)
  /\ \A p, v : Server!GetSize(p, v) = Srv!GetSize(p, v) /\ Server!GetAccess(p, v) = Srv!GetAccess(p, v)
<1>1. \A v, x : Server!GetValue(v, x) = Srv!GetValue(v, x) /\ Server!SetValue(v, x) = Srv!SetValue(v, x)
  BY SameBuffer, SameMethods DEF Server!GetValue, Srv!GetValue, Server!SetValue, Srv!SetValue
<1>2. \A v, x : Server!GetMemory(v, x) = Srv!GetMemory(v, x)
  BY SameBuffer, SameMethods DEF Server!GetMemory, Srv!GetMemory, Server!Offset, Srv!Offset, Server!Size, Srv!Size
<1>3. \A v, x : Server!SetMemory(v, x) = Srv!SetMemory(v, x)
  BY SameBuffer, SameMethods DEF Server!SetMemory, Srv!SetMemory, Server!Offset, Srv!Offset, Server!Size, Srv!Size,
    Server!Overwritten, Srv!Overwritten
<1>4. \A absolute, v, x : Server!GetRange(absolute, v, x) = Srv!GetRange(absolute, v, x)
  BY SameBuffer, SameMethods DEF Server!GetRange, Srv!GetRange
<1>5. \A absolute, v, x : Server!SetCurrent(absolute, v, x) = Srv!SetCurrent(absolute, v, x)
  BY SameBuffer, SameMethods DEF Server!SetCurrent, Srv!SetCurrent
<1>6. \A x, v : Server!NotImplemented(x, v) = Srv!NotImplemented(x, v)
  BY SameMethods DEF Server!NotImplemented, Srv!NotImplemented
<1>7. \A absolute, v, x : Server!SetRange(absolute, v, x) = Srv!SetRange(absolute, v, x)
  BY SameBuffer, SameMethods, <1>5, <1>6 DEF Server!SetRange, Srv!SetRange
<1>8. \A v, x, privileged : Server!GetSymbol(v, x, privileged) = Srv!GetSymbol(v, x, privileged)
  BY SameBuffer, SameMethods DEF Server!GetSymbol, Srv!GetSymbol
<1>9. \A p, v, x, privileged : Server!Get(p, v, x, privileged) = Srv!Get(p, v, x, privileged)
  BY <1>1, <1>2, <1>4, <1>6, <1>8 DEF Server!Get, Srv!Get
<1>10. \A p, v, x : Server!Set(p, v, x) = Srv!Set(p, v, x)
  BY <1>1, <1>3, <1>6, <1>7 DEF Server!Set, Srv!Set
<1>11. \A p, v : Server!GetSize(p, v) = Srv!GetSize(p, v) /\ Server!GetAccess(p, v) = Srv!GetAccess(p, v)
  BY SameMethods DEF Server!GetSize, Srv!GetSize, Server!GetAccess, Srv!GetAccess
<1>12. QED
  BY <1>9, <1>10, <1>11

\* ... and poll() are the same.
LEMMA SamePoll == \A q : Server!Poll(q) <=> Srv!Poll(q)
<1>1. \A vals : Server!Secret(vals) = Srv!Secret(vals)
  BY DEF Server!Secret, Srv!Secret
<1>2. \A q : Server!Received(q) = Srv!Received(q)
  BY DEF Server!Received, Srv!Received
<1>3. \A q : Server!Encrypted(q) <=> Srv!Encrypted(q)
  BY <1>2 DEF Server!Encrypted, Srv!Encrypted
<1>4. \A vals, q : Server!Opened(vals, q) = Srv!Opened(vals, q)
  BY <1>1, <1>2, <1>3, SameBuffer DEF Server!Opened, Srv!Opened
<1>5. \A vals, q : Server!Legible(vals, q) <=> Srv!Legible(vals, q)
  BY <1>1, <1>2, <1>3, SameBuffer DEF Server!Legible, Srv!Legible
<1>6. \A err, x, vals, served : Server!Outcome(err, x, vals, served) = Srv!Outcome(err, x, vals, served)
  BY DEF Server!Outcome, Srv!Outcome
<1>7. \A vals, q : Server!Verify(vals, q) = Srv!Verify(vals, q)
  BY <1>3, <1>4, SameBuffer, SameMethods DEF Server!Verify, Srv!Verify
<1>8. \A vals, q : Server!Method(vals, q) = Srv!Method(vals, q)
  BY <1>3, <1>4, SameBuffer, SameProperties DEF Server!Method, Srv!Method
<1>9. \A vals, q : Server!Performed(vals, q) = Srv!Performed(vals, q)
  BY <1>4, <1>6, <1>8, SameBuffer DEF Server!Performed, Srv!Performed
<1>10. \A vals, q : Server!Refused(vals, q) = Srv!Refused(vals, q)
  BY <1>4, <1>6, <1>7, SameBuffer DEF Server!Refused, Srv!Refused
<1>11. \A vals, q : /\ Server!Rejected(vals, q) = Srv!Rejected(vals, q)
                    /\ Server!Echoed(vals, q) = Srv!Echoed(vals, q)
                    /\ Server!Unknown(vals, q) = Srv!Unknown(vals, q)
  BY <1>4, <1>6, SameBuffer DEF Server!Rejected, Srv!Rejected, Server!Echoed, Srv!Echoed,
    Server!Unknown, Srv!Unknown
<1>12. Server!PropertyCommand = Srv!PropertyCommand
  BY DEF Server!PropertyCommand, Srv!PropertyCommand
<1>13. \A vals, q : Server!Serve(vals, q) = Srv!Serve(vals, q)
  BY <1>5, <1>7, <1>9, <1>10, <1>11, <1>12 DEF Server!Serve, Srv!Serve
<1>14. \A cmd, err, x, encrypt, secret :
         Server!Sent(cmd, err, x, encrypt, secret) = Srv!Sent(cmd, err, x, encrypt, secret)
  BY SameBuffer DEF Server!Sent, Srv!Sent
<1>15. \A vals, q : Server!Answered(vals, q) = Srv!Answered(vals, q)
  BY <1>1, <1>3, <1>5, <1>13, <1>14 DEF Server!Answered, Srv!Answered
<1>16. \A o, q : Server!Renew(o, q) <=> Srv!Renew(o, q)
  BY <1>3 DEF Server!Renew, Srv!Renew
<1>17. Server!NoRequest = Srv!NoRequest
  BY DEF Server!NoRequest, Srv!NoRequest
<1>18. QED
  BY <1>13, <1>15, <1>16, <1>17 DEF Server!Poll, Srv!Poll

-----------------------------------------------------------------------------
(* One request at a time: while no call has timed out, the line carries at most the *)
(* request of the call that waits, or the answer to it, and logs.                   *)

OnWay == {toServer[k].frame : k \in 1 .. Len(toServer)}
Came == {toClient[k].frame : k \in {j \in 1 .. Len(toClient) : toClient[j].of # 0}}

\* Between calls the line is empty but for logs.
LEMMA IdleLine ==
  ASSUME CSInv, timeouts = 0, waiting = "none"
  PROVE  OnWay = {} /\ Came = {}
<1>1. calls <= took
  BY DEF CSInv, SkewBounded, Typed
<1>2. \A k \in 1 .. Len(toServer) : FALSE
  BY <1>1 DEF CSInv, Ordered, Younger, Typed
<1>3. \A k \in 1 .. Len(toClient) : toClient[k].of = 0
  BY <1>1 DEF CSInv, Ordered, Younger, Typed
<1>4. QED
  BY <1>2, <1>3 DEF OnWay, Came

\* The server finds the one request, and nothing has come back yet.
LEMMA OneRequest ==
  ASSUME CSInv, timeouts = 0, toServer # << >>
  PROVE  /\ waiting # "none" /\ Head(toServer).frame \in OnWay
         /\ Len(toServer) = 1 /\ Came = {}
<1>1. /\ Head(toServer) = toServer[1] /\ 1 \in 1 .. Len(toServer) /\ Len(toServer) \in Nat
  BY TailFacts DEF CSInv, Typed
<1>2. Head(toServer).frame \in OnWay
  BY <1>1 DEF OnWay
<1>3. waiting # "none"
  BY <1>2, IdleLine
<1>4. calls <= took + 1
  BY <1>3 DEF CSInv, SkewBounded, Typed
<1>5. \A k \in 1 .. Len(toServer) : toServer[k].of = took + 1
  BY <1>4 DEF CSInv, Ordered, Younger, Typed
<1>6. ASSUME 2 \in 1 .. Len(toServer) PROVE FALSE
  <2>1. toServer[1].of < toServer[2].of
    BY <1>1, <1>6 DEF CSInv, Ordered, Rising, Typed
  <2>2. QED
    BY <1>1, <1>5, <1>6, <2>1 DEF CSInv, Typed
<1>7. \A k \in 1 .. Len(toClient) : toClient[k].of = 0
  <2>1. \A k \in 1 .. Len(toClient) : toClient[k].of # 0 => took < toClient[k].of /\ toClient[k].of < took + 1
    BY <1>1, <1>5 DEF CSInv, Ordered, Younger, Before
  <2>2. QED
    BY <2>1 DEF CSInv, Typed
<1>8. Len(toServer) = 1
  <2>1. ASSUME NEW n \in Nat, 1 \in 1 .. n, ~(2 \in 1 .. n) PROVE n = 1
    BY <2>1
  <2>2. QED
    BY <1>1, <1>6, <2>1
<1>9. Came = {}
  BY <1>7 DEF Came
<1>10. QED
  BY <1>2, <1>3, <1>8, <1>9

\* A new request is the only one.
LEMMA SendMoves ==
  ASSUME CSInv, timeouts = 0, NEW q, Send(q)
  PROVE  OnWay' = {q} /\ Came' = {} /\ timeouts' = 0 /\ values' = values
<1>1. /\ waiting = "none" /\ toServer' = Append(toServer, [of |-> calls + 1, frame |-> q])
      /\ UNCHANGED <<toClient, timeouts, values>>
  BY DEF Send, serverVars
<1>2. OnWay = {} /\ Came = {}
  BY <1>1, IdleLine
<1>3. toServer = << >>
  <2>1. Len(toServer) \in Nat /\ IsSeq(toServer)
    BY AppendFacts DEF CSInv, Typed
  <2>2. ~(1 \in 1 .. Len(toServer))
    BY <1>2 DEF OnWay
  <2>3. QED
    BY <2>1, <2>2 DEF IsSeq
<1>4. toServer' = <<[of |-> calls + 1, frame |-> q]>>
  BY <1>1, <1>3
<1>5. OnWay' = {q}
  <2>1. Len(toServer') = 1 /\ toServer'[1].frame = q
    BY <1>4
  <2>2. QED
    BY <2>1 DEF OnWay
<1>6. Came' = Came
  BY <1>1 DEF Came
<1>7. QED
  BY <1>1, <1>2, <1>5, <1>6

\* The server answers the one request.
LEMMA ServeMoves ==
  ASSUME CSInv, timeouts = 0, Serve
  PROVE  \E q \in OnWay :
           /\ Srv!Poll(q) /\ OnWay' = {} /\ Came' = {reply'}
           /\ waiting # "none" /\ UNCHANGED clientVars
<1> DEFINE q == Head(toServer).frame
           e == [of |-> Head(toServer).of, frame |-> reply']
<1>1. /\ toServer # << >> /\ Server!Poll(q) /\ toServer' = Tail(toServer)
      /\ toClient' = Append(toClient, e) /\ UNCHANGED clientVars
  BY DEF Serve
<1>2. waiting # "none" /\ q \in OnWay /\ Len(toServer) = 1 /\ Came = {}
  BY <1>1, OneRequest
<1>3. Srv!Poll(q)
  BY <1>1, SamePoll
<1>4. /\ Len(toServer') = 0 /\ Head(toServer).of # 0
  BY <1>1, <1>2, TailFacts DEF CSInv, Typed
<1>5. OnWay' = {}
  BY <1>4 DEF OnWay
<1>6. e.of # 0 /\ e.frame = reply'
  BY <1>4
<1> HIDE DEF q, e
<1>7. /\ Len(toClient) \in Nat /\ Len(toClient') = Len(toClient) + 1
      /\ \A k \in 1 .. Len(toClient') :
           \/ k \in 1 .. Len(toClient) /\ toClient'[k] = toClient[k]
           \/ k = Len(toClient) + 1 /\ toClient'[k] = e
  BY <1>1, AppendFacts DEF CSInv, Typed
<1>8. \A k \in 1 .. Len(toClient) : toClient[k].of = 0
  BY <1>2 DEF Came
<1>9. Came' = {reply'}
  <2>1. Len(toClient) + 1 \in 1 .. Len(toClient') /\ toClient'[Len(toClient) + 1] = e
    BY <1>7
  <2>2. \A k \in 1 .. Len(toClient') : toClient'[k].of # 0 => toClient'[k] = e
    BY <1>7, <1>8
  <2>3. QED
    BY <1>6, <2>1, <2>2 DEF Came
<1>10. QED
  BY <1>1, <1>2, <1>3, <1>5, <1>9

\* The answer that is taken is the one that came, and the line is empty again.
LEMMA TakeMoves ==
  ASSUME CSInv, timeouts = 0, Take
  PROVE  /\ Head(toClient).frame \in Came /\ waiting # "none" /\ waiting' = "none"
         /\ OnWay' = {} /\ Came' = {} /\ timeouts' = 0 /\ values' = values
<1>1. /\ toClient # << >> /\ Head(toClient).frame.cmd = waiting /\ waiting # "none"
      /\ waiting' = "none" /\ UNCHANGED <<timeouts, values>>
  BY DEF Take, serverVars
<1>2. Head(toClient) = toClient[1] /\ 1 \in 1 .. Len(toClient)
  BY <1>1, TailFacts DEF CSInv, Typed
<1>3. toClient[1].of # 0
  BY <1>1, <1>2 DEF CSInv, LogsApart
<1>4. Head(toClient).frame \in Came
  BY <1>2, <1>3 DEF Came
<1>5. CSInv'
  BY TakeKeeps
<1>6. OnWay' = {} /\ Came' = {}
  <2>1. timeouts' = 0 /\ waiting' = "none"
    BY <1>1
  <2>2. /\ calls' \in Nat /\ took' \in Nat /\ calls' <= took'
        /\ Younger(toServer)' /\ Younger(toClient)'
        /\ \A k \in 1 .. Len(toServer') : toServer'[k].of \in Nat \ {0}
        /\ \A k \in 1 .. Len(toClient') : toClient'[k].of \in Nat
    <3>1. Typed' /\ Ordered' /\ SkewBounded'
      BY <1>5 DEF CSInv
    <3>2. calls' \in Nat /\ took' \in Nat
      BY <3>1 DEF Typed
    <3>3. calls' <= took'
      <4>1. ASSUME NEW a \in Nat, NEW b \in Nat, a - 0 <= b + 0 PROVE a <= b
        BY <4>1
      <4>2. calls' - timeouts' <= took' + (IF waiting' = "none" THEN 0 ELSE 1)
        BY <3>1 DEF SkewBounded
      <4>3. calls' - 0 <= took' + 0
        BY <2>1, <4>2, Zenon
      <4>4. QED
        BY <3>2, <4>1, <4>3
    <3>4. QED
      BY <3>1, <3>2, <3>3 DEF Typed, Ordered
  <2>3. \A k \in 1 .. Len(toServer') : FALSE
    BY <2>2 DEF Younger
  <2>4. \A k \in 1 .. Len(toClient') : toClient'[k].of = 0
    BY <2>2 DEF Younger
  <2>5. QED
    BY <2>3, <2>4 DEF OnWay, Came
<1>7. QED
  BY <1>1, <1>4, <1>6

\* Logs, losses and frames passed over bring nothing new.
LEMMA QuietMoves ==
  ASSUME CSInv, PassOver \/ Return \/ Log \/ LoseRequest \/ LoseAnswer \/ UNCHANGED csVars
  PROVE  /\ OnWay' \subseteq OnWay /\ Came' \subseteq Came
         /\ UNCHANGED <<values, waiting, timeouts>>
<1>1. UNCHANGED <<values, waiting, timeouts>>
  BY DEF PassOver, Return, Server!Return, Log, LoseRequest, LoseAnswer, csVars, serverVars, clientVars
<1>2. CASE PassOver \/ LoseAnswer
  <2>1. toClient # << >> /\ toClient' = Tail(toClient) /\ UNCHANGED toServer
    BY <1>2 DEF PassOver, LoseAnswer
  <2>2. \A k \in 1 .. Len(toClient') : toClient'[k] = toClient[k + 1] /\ k + 1 \in 1 .. Len(toClient)
    BY <2>1, TailFacts DEF CSInv, Typed
  <2>3. QED
    BY <1>1, <2>1, <2>2 DEF OnWay, Came
<1>3. CASE LoseRequest
  <2>1. toServer # << >> /\ toServer' = Tail(toServer) /\ UNCHANGED toClient
    BY <1>3 DEF LoseRequest
  <2>2. \A k \in 1 .. Len(toServer') : toServer'[k] = toServer[k + 1] /\ k + 1 \in 1 .. Len(toServer)
    BY <2>1, TailFacts DEF CSInv, Typed
  <2>3. QED
    BY <1>1, <2>1, <2>2 DEF OnWay, Came
<1>4. CASE Log
  <2> DEFINE e == [of |-> 0, frame |-> LogFrame]
  <2>1. toClient' = Append(toClient, e) /\ e.of = 0 /\ UNCHANGED toServer
    BY <1>4 DEF Log
  <2> HIDE DEF e
  <2>2. \A k \in 1 .. Len(toClient') :
          \/ k \in 1 .. Len(toClient) /\ toClient'[k] = toClient[k]
          \/ toClient'[k] = e
    BY <2>1, AppendFacts DEF CSInv, Typed
  <2>3. QED
    BY <1>1, <2>1, <2>2 DEF OnWay, Came
<1>5. CASE Return \/ UNCHANGED csVars
  BY <1>1, <1>5 DEF Return, csVars, OnWay, Came
<1>6. QED
  BY <1>2, <1>3, <1>4, <1>5

-----------------------------------------------------------------------------
(* The line, however many calls have timed out *)

LEMMA AnySend ==
  ASSUME CSInv, NEW q, Send(q)
  PROVE  OnWay' \subseteq OnWay \cup {q} /\ Came' \subseteq Came /\ values' = values
<1> DEFINE e == [of |-> calls + 1, frame |-> q]
<1>1. toServer' = Append(toServer, e) /\ toClient' = toClient /\ values' = values /\ e.frame = q
  BY DEF Send, serverVars
<1> HIDE DEF e
<1>2. \A k \in 1 .. Len(toServer') :
        \/ k \in 1 .. Len(toServer) /\ toServer'[k] = toServer[k]
        \/ toServer'[k] = e
  BY <1>1, AppendFacts DEF CSInv, Typed
<1>3. QED
  BY <1>1, <1>2 DEF OnWay, Came

LEMMA AnyServe ==
  ASSUME CSInv, Serve
  PROVE  \E q \in OnWay :
           Srv!Poll(q) /\ OnWay' \subseteq OnWay /\ Came' \subseteq Came \cup {reply'}
<1> DEFINE q == Head(toServer).frame
           e == [of |-> Head(toServer).of, frame |-> reply']
<1>1. /\ toServer # << >> /\ Server!Poll(q) /\ toServer' = Tail(toServer)
      /\ toClient' = Append(toClient, e) /\ e.frame = reply'
  BY DEF Serve
<1>2. /\ Head(toServer) = toServer[1] /\ 1 \in 1 .. Len(toServer)
      /\ \A k \in 1 .. Len(toServer') : toServer'[k] = toServer[k + 1] /\ k + 1 \in 1 .. Len(toServer)
  BY <1>1, TailFacts DEF CSInv, Typed
<1>3. q \in OnWay /\ OnWay' \subseteq OnWay
  BY <1>2 DEF OnWay
<1>4. Srv!Poll(q)
  BY <1>1, SamePoll
<1> HIDE DEF q, e
<1>5. \A k \in 1 .. Len(toClient') :
        \/ k \in 1 .. Len(toClient) /\ toClient'[k] = toClient[k]
        \/ toClient'[k] = e
  BY <1>1, AppendFacts DEF CSInv, Typed
<1>6. Came' \subseteq Came \cup {reply'}
  BY <1>1, <1>5 DEF Came
<1>7. QED
  BY <1>3, <1>4, <1>6

LEMMA AnyTake ==
  ASSUME CSInv, Take
  PROVE  /\ OnWay' \subseteq OnWay /\ Came' \subseteq Came
         /\ Head(toClient).frame \in Came /\ Head(toClient).frame.cmd = waiting
         /\ waiting' = "none" /\ values' = values
<1>1. /\ toClient # << >> /\ Head(toClient).frame.cmd = waiting /\ waiting' = "none"
      /\ toClient' = Tail(toClient) /\ UNCHANGED <<toServer, values>>
  BY DEF Take, serverVars
<1>2. /\ Head(toClient) = toClient[1] /\ 1 \in 1 .. Len(toClient)
      /\ \A k \in 1 .. Len(toClient') : toClient'[k] = toClient[k + 1] /\ k + 1 \in 1 .. Len(toClient)
  BY <1>1, TailFacts DEF CSInv, Typed
<1>3. toClient[1].of # 0
  BY <1>1, <1>2 DEF CSInv, LogsApart
<1>4. QED
  BY <1>1, <1>2, <1>3 DEF OnWay, Came

-----------------------------------------------------------------------------
(* Types *)

\* The server's types, and what it puts on the line.
LEMMA SameTypes ==
  /\ Server!TypeOK <=> Srv!TypeOK
  /\ Server!Frame = Srv!Frame
  /\ Server!Init <=> Srv!Init
  /\ [Server!Next]_(Server!vars) <=> [Srv!Next]_(Srv!vars)
<1>1. Server!Frame = Srv!Frame
  BY DEF Server!Frame, Srv!Frame, Server!Command, Srv!Command, Server!PropertyCommand,
    Srv!PropertyCommand, Server!ErrorCode, Srv!ErrorCode, Server!Cells, Srv!Cells, Server!Seal, Srv!Seal
<1>2. Server!NoRequest = Srv!NoRequest /\ Server!NoReply = Srv!NoReply
  BY DEF Server!NoRequest, Srv!NoRequest, Server!NoReply, Srv!NoReply
<1>3. Server!TypeOK <=> Srv!TypeOK
  BY <1>1, <1>2 DEF Server!TypeOK, Srv!TypeOK, Server!Ids, Srv!Ids, Server!Cells, Srv!Cells
<1>4. Server!Init <=> Srv!Init
  BY <1>2 DEF Server!Init, Srv!Init
<1>5. Server!Return <=> Srv!Return
  BY <1>2 DEF Server!Return, Srv!Return
<1>6. Server!Next <=> Srv!Next
  BY <1>5, SamePoll DEF Server!Next, Srv!Next
<1>7. [Server!Next]_(Server!vars) <=> [Srv!Next]_(Srv!vars)
  BY <1>6 DEF Server!vars, Srv!vars
<1>8. QED
  BY <1>1, <1>3, <1>4, <1>7

LEMMA ServerTypes == CSSpec => []Srv!TypeOK
<1>1. CSSpec => Server!Spec
  BY ServerAlwaysImplemented DEF ServerImplemented
<1>2. Srv!Spec => []Srv!TypeOK
  BY ServerAssumptions, Srv!TypeCorrect
<1>3. QED
  BY <1>1, <1>2, SameTypes, PTL DEF Server!Spec, Srv!Spec

\* Of a request that has come in, and of the answer to it.
LEMMA PollTypes ==
  ASSUME Srv!TypeOK, NEW q \in Requests, Srv!Poll(q)
  PROVE  /\ Srv!Request(q) /\ Srv!Typed(values) /\ Srv!Typed(values')
         /\ reply' = Srv!Answered(values, q) /\ reply' \in Srv!Frame
<1>1. Srv!Request(q) /\ Srv!Typed(values) /\ Srv!Typed(values')
  BY ServerAssumptions, Srv!PollValues
<1>2. reply' = Srv!Answered(values, q)
  BY DEF Srv!Poll
<1>3. QED
  BY <1>1, <1>2, ServerAssumptions, Srv!AnsweredFrame

LineTypes ==
  /\ toServer \in Seq([of : 1 .. calls, frame : Requests])
  /\ toClient \in Seq([of : 0 .. calls, frame : Srv!Frame])
  /\ waiting \in Command \cup {"none"}
  /\ calls \in Nat /\ losses \in Nat /\ early \in Nat /\ logs \in Nat

LEMMA WiderSeq == ASSUME NEW S, NEW T, S \subseteq T PROVE Seq(S) \subseteq Seq(T)
OBVIOUS

LEMMA NextLineTypes ==
  Srv!TypeOK /\ LineTypes /\ [CSNext]_csVars => LineTypes'
<1> SUFFICES ASSUME Srv!TypeOK, LineTypes, [CSNext]_csVars PROVE LineTypes'
  OBVIOUS
<1> DEFINE Up(n) == [of : 1 .. n, frame : Requests]
           Down(n) == [of : 0 .. n, frame : Srv!Frame]
<1>0. toServer \in Seq(Up(calls)) /\ toClient \in Seq(Down(calls)) /\ calls \in Nat
  BY DEF LineTypes
<1>1. ASSUME NEW q \in Requests, Send(q) PROVE LineTypes'
  <2>1. /\ waiting' = q.cmd /\ calls' = calls + 1
        /\ toServer' = Append(toServer, [of |-> calls + 1, frame |-> q])
        /\ UNCHANGED <<toClient, losses, early, logs>>
    BY <1>1 DEF Send, boundVars
  <2>2. Up(calls) \subseteq Up(calls') /\ Down(calls) \subseteq Down(calls')
    BY <1>0, <2>1
  <2>3. [of |-> calls + 1, frame |-> q] \in Up(calls')
    BY <1>0, <2>1
  <2> HIDE DEF Up, Down
  <2>4. toServer \in Seq(Up(calls')) /\ toClient \in Seq(Down(calls'))
    BY <1>0, <2>2, WiderSeq
  <2>5. toServer' \in Seq(Up(calls')) /\ toClient' \in Seq(Down(calls'))
    BY <2>1, <2>3, <2>4
  <2>6. waiting' \in Command \cup {"none"} /\ calls' \in Nat
    BY <1>0, <2>1, CSAssumption DEF Server!ServerConstants, Server!Command, Server!PropertyCommand,
      Command, PropertyCommand
  <2>7. QED
    BY <2>1, <2>5, <2>6 DEF LineTypes, Up, Down
<1>2. CASE PassOver \/ Take \/ LoseAnswer
  <2>1. /\ toClient # << >> /\ toClient' = Tail(toClient) /\ (waiting' = waiting \/ waiting' = "none")
        /\ UNCHANGED <<toServer, calls, early, logs>> /\ (losses' = losses \/ losses' = losses + 1)
    BY <1>2 DEF PassOver, Take, LoseAnswer, clientVars, boundVars
  <2> HIDE DEF Down
  <2>2. toClient' \in Seq(Down(calls))
    BY <1>0, <2>1, HeadOfSeq
  <2>3. QED
    BY <1>0, <2>1, <2>2 DEF LineTypes, Down
<1>3. CASE TimeoutSilent \/ TimeoutEarly
  <2>1. /\ waiting' = "none" /\ UNCHANGED <<toServer, toClient, calls, losses, logs>>
        /\ early' = early \/ early' = early + 1
    BY <1>3 DEF TimeoutSilent, TimeoutEarly, GiveUp
  <2>2. QED
    BY <1>0, <2>1 DEF LineTypes
<1>4. CASE Serve
  <2>1. /\ toServer # << >> /\ Server!Poll(Head(toServer).frame) /\ toServer' = Tail(toServer)
        /\ toClient' = Append(toClient, [of |-> Head(toServer).of, frame |-> reply'])
        /\ UNCHANGED <<waiting, calls, losses, early, logs>>
    BY <1>4 DEF Serve, clientVars, boundVars
  <2>2. Head(toServer) \in Up(calls) /\ toServer' \in Seq(Up(calls))
    <3> HIDE DEF Up
    <3>1. QED
      BY <1>0, <2>1, HeadOfSeq
  <2>3. Head(toServer).of \in 0 .. calls /\ Head(toServer).frame \in Requests
    BY <1>0, <2>2
  <2>4. reply' \in Srv!Frame
    BY <2>1, <2>3, SamePoll, PollTypes
  <2>5. [of |-> Head(toServer).of, frame |-> reply'] \in Down(calls)
    BY <2>3, <2>4
  <2> HIDE DEF Down
  <2>6. toClient' \in Seq(Down(calls))
    BY <1>0, <2>1, <2>5
  <2>7. QED
    BY <1>0, <2>1, <2>2, <2>6 DEF LineTypes, Down
<1>5. CASE Log
  <2>1. /\ toClient' = Append(toClient, [of |-> 0, frame |-> LogFrame]) /\ logs' = logs + 1
        /\ UNCHANGED <<toServer, waiting, calls, losses, early>>
    BY <1>5 DEF Log, clientVars
  <2>2. LogFrame \in Srv!Frame
    BY CSAssumption, SameTypes
  <2>3. [of |-> 0, frame |-> LogFrame] \in Down(calls)
    BY <1>0, <2>2
  <2> HIDE DEF Down
  <2>4. toClient' \in Seq(Down(calls))
    BY <1>0, <2>1, <2>3
  <2>5. QED
    BY <1>0, <2>1, <2>4 DEF LineTypes, Down
<1>6. CASE LoseRequest
  <2>1. /\ toServer # << >> /\ toServer' = Tail(toServer) /\ losses' = losses + 1
        /\ UNCHANGED <<toClient, waiting, calls, early, logs>>
    BY <1>6 DEF LoseRequest, clientVars
  <2> HIDE DEF Up
  <2>2. toServer' \in Seq(Up(calls))
    BY <1>0, <2>1, HeadOfSeq
  <2>3. QED
    BY <1>0, <2>1, <2>2 DEF LineTypes, Up
<1>7. CASE Return \/ UNCHANGED csVars
  BY <1>7 DEF Return, csVars, clientVars, boundVars, LineTypes
<1>8. QED
  BY <1>1, <1>2, <1>3, <1>4, <1>5, <1>6, <1>7 DEF CSNext, Elsewhere

-----------------------------------------------------------------------------
(* All that holds of the line, whoever the client is *)

LineSound == CSInv /\ Srv!IInv /\ LineTypes

LEMMA InitSound == CSInit => LineSound
<1> SUFFICES ASSUME CSInit PROVE LineSound
  OBVIOUS
<1>1. CSInv
  BY InitCSInv
<1>2. Srv!IInv
  <2>1. Srv!Init
    BY SameTypes DEF CSInit
  <2>2. QED
    BY <2>1, ServerAssumptions, Srv!InitIInv
<1>3. LineTypes
  <2>1. /\ << >> \in Seq([of : 1 .. calls, frame : Requests])
        /\ << >> \in Seq([of : 0 .. calls, frame : Srv!Frame])
    OBVIOUS
  <2>2. QED
    BY <2>1 DEF CSInit, LineTypes
<1>4. QED
  BY <1>1, <1>2, <1>3 DEF LineSound

LEMMA NextSound == LineSound /\ [CSNext]_csVars => LineSound'
<1> SUFFICES ASSUME LineSound, [CSNext]_csVars PROVE LineSound'
  OBVIOUS
<1>1. CSInv'
  BY NextIsStep, NextCSInv DEF LineSound
<1>2. Srv!IInv'
  <2>1. Asked
    <3> DEFINE D == [of : 1 .. calls, frame : Requests]
               E == [of : Nat, frame : Requests]
    <3>1. toServer \in Seq(D) /\ D \subseteq E /\ calls \in Nat
      BY DEF LineSound, LineTypes
    <3> HIDE DEF D, E
    <3>2. toServer \in Seq(E)
      BY <3>1, WiderSeq
    <3>3. QED
      BY <3>1, <3>2 DEF Asked, E
  <2>2. [Srv!Next]_(Srv!vars)
    BY <2>1, NextAsked, SameTypes
  <2>3. QED
    BY <2>2, ServerAssumptions, Srv!NextIInv DEF LineSound
<1>3. LineTypes'
  BY NextLineTypes DEF LineSound, Srv!IInv
<1>4. QED
  BY <1>1, <1>2, <1>3 DEF LineSound

LEMMA SoundTyped == LineSound => CSTypeOK
<1>1. CSInv => took \in 0 .. calls /\ timeouts \in Nat
  BY DEF CSInv, Typed, SkewBounded
<1>2. QED
  BY <1>1, SameTypes DEF CSTypeOK, LineTypes, LineSound, Srv!IInv

\* The line carries requests and frames of the server, numbered as they were sent.
THEOREM LineTypeCorrect == CSSpec => []CSTypeOK
BY InitSound, NextSound, SoundTyped, PTL DEF CSSpec

-----------------------------------------------------------------------------
(* What the modules of a client need of the constants, the buffer and the answers *)

LEMMA ConstantFacts ==
  /\ KeyId \in Ids /\ NonceId \in Ids /\ KeyId # NonceId
  /\ Props[KeyId].kind = "key" /\ Props[NonceId].kind = "value"
  /\ Len(InitValues[KeyId]) = 1 /\ Len(InitValues[NonceId]) = 1
  /\ InitValues \in [Ids -> Seq(Cells)]
  /\ Ids = Srv!Ids /\ Cells = Srv!Cells
<1>1. Ids = Server!Ids /\ Ids = Srv!Ids /\ Cells = Srv!Cells /\ Cells = Server!Cells
  BY DEF Ids, Server!Ids, Srv!Ids, Cells, Srv!Cells, Server!Cells
<1>2. /\ KeyId \in Ids /\ NonceId \in Ids
      /\ Props[KeyId].kind = "key" /\ Props[NonceId].kind = "value"
      /\ Len(InitValues[KeyId]) = 1 /\ Len(InitValues[NonceId]) = 1
      /\ InitValues \in [Ids -> Seq(Cells)]
  BY <1>1, CSAssumption DEF Server!ServerConstants
<1>3. QED
  BY <1>1, <1>2

LEMMA FrameFacts ==
  ASSUME NEW f \in Srv!Frame
  PROVE  f.data \in Seq(Cells) /\ f.err # "E_PENDING"
BY ConstantFacts DEF Srv!Frame, Srv!ErrorCode

\* The answer that is taken is a frame of the server.
LEMMA HeadIsFrame == ASSUME CSTypeOK, toClient # << >> PROVE Head(toClient).frame \in Srv!Frame
<1> DEFINE D == [of : 0 .. calls, frame : Srv!Frame]
<1>1. toClient \in Seq(D)
  BY SameTypes DEF CSTypeOK
<1> HIDE DEF D
<1>2. Head(toClient) \in D
  BY <1>1, HeadOfSeq
<1>3. QED
  BY <1>2 DEF D

\* add() to the buffer as the client's constructor leaves it.
LEMMA FirstAdded ==
  ASSUME NEW s \in Seq(Cells)
  PROVE  Added(Empty, s) = [cells |-> s, data |-> Len(s), seal |-> NoSeal]
<1>1. SubSeq(<< >>, 1, 0) = << >> /\ SubSeq(<< >>, 0 + Len(s) + 1, 0) = << >>
  OBVIOUS
<1>2. << >> \o s \o << >> = s
  OBVIOUS
<1>3. QED
  BY <1>1, <1>2 DEF Added, Empty

\* The second of two sequences put together.
LEMMA BehindPart ==
  ASSUME NEW r \in Seq(Cells), NEW s \in Seq(Cells)
  PROVE  SubSeq(r \o s, Len(r) + 1, Len(r) + Len(s)) = s
OBVIOUS

-----------------------------------------------------------------------------
(* The server's key stays while no request sets it *)

Spares(q) == q.cmd = "SET_PROPERTY" => q.data[1] # KeyId

\* No request on its way sets the key, and none has.
KeySpared == values[KeyId] = InitValues[KeyId] /\ \A q \in OnWay : Spares(q)

\* The steps of a client that never sets it.
SparingStep ==
  \/ \E q : Spares(q) /\ Send(q)
  \/ PassOver \/ Take \/ TimeoutSilent \/ TimeoutEarly
  \/ Elsewhere

LEMMA WayKnown == LineSound => OnWay \subseteq Requests
<1> SUFFICES ASSUME LineSound, NEW k \in 1 .. Len(toServer) PROVE toServer[k].frame \in Requests
  BY DEF OnWay
<1> DEFINE D == [of : 1 .. calls, frame : Requests]
<1>1. toServer \in Seq(D)
  BY DEF LineSound, LineTypes
<1> HIDE DEF D
<1>2. toServer[k] \in D
  BY <1>1
<1>3. QED
  BY <1>2 DEF D

LEMMA InitSpared == CSInit => KeySpared
<1> SUFFICES ASSUME CSInit PROVE KeySpared
  OBVIOUS
<1>1. values = InitValues /\ toServer = << >>
  BY DEF CSInit, Server!Init
<1>2. OnWay = {}
  BY <1>1 DEF OnWay
<1>3. QED
  BY <1>1, <1>2 DEF KeySpared

\* The key changes when it is set and at no other time; a new nonce is another property.
LEMMA NextSpared == LineSound /\ KeySpared /\ [SparingStep]_csVars => KeySpared'
<1> SUFFICES ASSUME LineSound, KeySpared, [SparingStep]_csVars PROVE KeySpared'
  OBVIOUS
<1>0. CSInv /\ Srv!TypeOK /\ OnWay \subseteq Requests
  BY WayKnown DEF LineSound, Srv!IInv
<1>1. ASSUME UNCHANGED values, OnWay' \subseteq OnWay PROVE KeySpared'
  BY <1>1 DEF KeySpared, Spares
<1>2. ASSUME NEW q, Spares(q), Send(q) PROVE KeySpared'
  BY <1>0, <1>2, AnySend DEF KeySpared, Spares
<1>3. CASE Take
  BY <1>0, <1>1, <1>3, AnyTake
<1>4. CASE TimeoutSilent \/ TimeoutEarly
  <2>1. UNCHANGED values /\ UNCHANGED toServer
    BY <1>4 DEF TimeoutSilent, TimeoutEarly, GiveUp, serverVars
  <2>2. QED
    BY <1>1, <2>1 DEF OnWay
<1>5. CASE Serve
  <2>1. PICK q \in OnWay : Srv!Poll(q) /\ OnWay' \subseteq OnWay
    BY <1>0, <1>5, AnyServe
  <2>2. /\ Srv!Lawful(Srv!Serve(values, q), values, q)
        /\ \A id \in Srv!Ids : values'[id] # Srv!Serve(values, q).values[id] => id = NonceId
    BY <1>0, <2>1, ServerAssumptions, Srv!PollValues
  <2>3. KeyId \in Srv!Ids /\ KeyId # NonceId
    BY ConstantFacts
  <2>4. Spares(q)
    BY <2>1 DEF KeySpared
  <2>5. Srv!Serve(values, q).values[KeyId] = values[KeyId]
    BY <2>2, <2>3, <2>4 DEF Srv!Lawful, Spares
  <2>6. values'[KeyId] = values[KeyId]
    BY <2>2, <2>3, <2>5
  <2>7. QED
    BY <2>1, <2>6 DEF KeySpared, Spares
<1>6. CASE PassOver \/ Return \/ Log \/ LoseRequest \/ LoseAnswer \/ UNCHANGED csVars
  BY <1>0, <1>1, <1>6, QuietMoves
<1>7. QED
  BY <1>2, <1>3, <1>4, <1>5, <1>6 DEF SparingStep, Elsewhere
=============================================================================
