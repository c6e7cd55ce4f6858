-------------------------------- MODULE HostCS --------------------------------
(***************************************************************************)
(* A client and a server on a line: send() and recv_response() of          *)
(* src/HostClient.cpp against poll() of src/HostServer.cpp.                *)
(*                                                                         *)
(* The line is what FrameChannel promises: frames arrive in order, once,   *)
(* or not at all.  A frame that is lost may be lost as the oldest one on   *)
(* the line, since nobody sees it before.  rx() of the client times out,   *)
(* also while the answer is on its way.                                    *)
(*                                                                         *)
(* Modules of what a client does EXTEND this one; their steps are the      *)
(* actions below together with their own variables.                        *)
(***************************************************************************)
EXTENDS Property

CONSTANTS
  KeyId, NonceId, InitValues, Requests, Nonces,   \* of HostServer
  LogFrame,     \* a frame of HostServer::log()
  MaxCalls,     \* bound: requests the client sends
  MaxLosses,    \* bound: frames the line loses
  MaxEarly,     \* bound: timeouts while an answer may still come
  MaxLogs       \* bound: logs the server sends

VARIABLES
  values, request, reply, renewed,   \* of HostServer
  toServer, toClient,  \* frames on the line: [of, frame], of the request they belong to
  waiting,             \* the command recv_response() waits for, "none" outside it
  calls,               \* requests sent so far; the number of the last one
  took,                \* the number of the request the last answer taken belongs to
  timeouts,            \* calls that ended with a timeout
  losses, early, logs  \* how much of the bounds is spent

Server == INSTANCE HostServer

serverVars == <<values, request, reply, renewed>>
clientVars == <<waiting, calls, took, timeouts>>
boundVars == <<losses, early, logs>>
csVars == <<serverVars, toServer, toClient, clientVars, boundVars>>

ASSUME CSAssumption ==
  /\ Server!ServerConstants
  /\ LogFrame \in Server!Frame /\ LogFrame.cmd = "LOG" /\ Len(LogFrame.data) <= Capacity
  /\ \A q \in Requests : q.cmd # "LOG"
  /\ MaxCalls \in Nat /\ MaxLosses \in Nat /\ MaxEarly \in Nat /\ MaxLogs \in Nat

CSInit ==
  /\ Server!Init
  /\ toServer = <<>> /\ toClient = <<>>
  /\ waiting = "none" /\ calls = 0 /\ took = 0 /\ timeouts = 0
  /\ losses = 0 /\ early = 0 /\ logs = 0

-----------------------------------------------------------------------------
(* The client *)

\* send() of the client; the call goes on in recv_response().
Send(q) ==
  /\ waiting = "none" /\ calls < MaxCalls
  /\ calls' = calls + 1
  /\ waiting' = q.cmd
  /\ toServer' = Append(toServer, [of |-> calls + 1, frame |-> q])
  /\ UNCHANGED <<serverVars, toClient, took, timeouts, boundVars>>

\* recv_response(): a frame with another command is dropped, a log put out.
PassOver ==
  /\ waiting # "none" /\ toClient # <<>>
  /\ Head(toClient).frame.cmd # waiting
  /\ toClient' = Tail(toClient)
  /\ UNCHANGED <<serverVars, toServer, clientVars, boundVars>>

\* Mutant of Take: the command is not compared.
TakeAny ==
  /\ waiting # "none" /\ toClient # <<>>
  /\ toClient' = Tail(toClient)
  /\ waiting' = "none"
  /\ took' = Head(toClient).of
  /\ UNCHANGED <<serverVars, toServer, calls, timeouts, boundVars>>

\* recv_response(): the first frame with the command asked for is the answer.
Take ==
  /\ waiting # "none" /\ toClient # <<>>
  /\ Head(toClient).frame.cmd = waiting
  /\ toClient' = Tail(toClient)
  /\ waiting' = "none"
  /\ took' = Head(toClient).of
  /\ UNCHANGED <<serverVars, toServer, calls, timeouts, boundVars>>

\* recv() returned false.
GiveUp ==
  /\ waiting # "none"
  /\ waiting' = "none" /\ timeouts' = timeouts + 1
  /\ UNCHANGED <<serverVars, toServer, toClient, calls, took, losses, logs>>

Silent == toServer = <<>> /\ toClient = <<>>

\* Mutant of TimeoutSilent: recv_response() asks for another frame.
TimeoutIgnored == Silent /\ waiting # "none" /\ UNCHANGED csVars

TimeoutSilent == Silent /\ GiveUp /\ UNCHANGED early
TimeoutEarly == ~Silent /\ early < MaxEarly /\ GiveUp /\ early' = early + 1

-----------------------------------------------------------------------------
(* The server *)

\* Mutant of Serve: the header stays in the window and is found again.
ServeAgain ==
  /\ toServer # <<>>
  /\ Server!Poll(Head(toServer).frame)
  /\ toClient' = Append(toClient, [of |-> Head(toServer).of, frame |-> reply'])
  /\ UNCHANGED <<toServer, clientVars, boundVars>>

\* A turn of poll().
Serve ==
  /\ toServer # <<>>
  /\ Server!Poll(Head(toServer).frame)
  /\ toServer' = Tail(toServer)
  /\ toClient' = Append(toClient, [of |-> Head(toServer).of, frame |-> reply'])
  /\ UNCHANGED <<clientVars, boundVars>>

Return ==
  /\ Server!Return
  /\ UNCHANGED <<toServer, toClient, clientVars, boundVars>>

\* log(): the application may call it at any time.
Log ==
  /\ logs < MaxLogs
  /\ logs' = logs + 1
  /\ toClient' = Append(toClient, [of |-> 0, frame |-> LogFrame])
  /\ UNCHANGED <<serverVars, toServer, clientVars, losses, early>>

-----------------------------------------------------------------------------
(* The line *)

LoseRequest ==
  /\ toServer # <<>> /\ losses < MaxLosses
  /\ toServer' = Tail(toServer)
  /\ losses' = losses + 1
  /\ UNCHANGED <<serverVars, toClient, clientVars, early, logs>>

LoseAnswer ==
  /\ toClient # <<>> /\ losses < MaxLosses
  /\ toClient' = Tail(toClient)
  /\ losses' = losses + 1
  /\ UNCHANGED <<serverVars, toServer, clientVars, early, logs>>

-----------------------------------------------------------------------------

\* Everything but the client's own decisions.
Elsewhere == Serve \/ Return \/ Log \/ LoseRequest \/ LoseAnswer

CSNext ==
  \/ \E q \in Requests : Send(q)
  \/ PassOver \/ Take \/ TimeoutSilent \/ TimeoutEarly
  \/ Elsewhere

CSSpec == CSInit /\ [][CSNext]_csVars

-----------------------------------------------------------------------------
(***************************************************************************)
(* Properties                                                              *)
(***************************************************************************)

CSTypeOK ==
  /\ Server!TypeOK
  /\ toServer \in Seq([of : 1 .. calls, frame : Requests])
  /\ toClient \in Seq([of : 0 .. calls, frame : Server!Frame])
  /\ waiting \in Command \cup {"none"}
  /\ calls \in Nat /\ took \in 0 .. calls /\ timeouts \in Nat
  /\ losses \in Nat /\ early \in Nat /\ logs \in Nat

\* recv_response() knows an answer only by its command.  A late answer is taken for
\* that of a later call, and the calls after it are answered late too; but an
\* answer is never older than there have been timeouts, so that without a timeout
\* every call gets its own.
SkewBounded ==
  /\ took <= calls
  /\ calls - timeouts <= took + (IF waiting = "none" THEN 0 ELSE 1)

\* Each answer is handed out once and in the order of the requests, also when
\* frames are lost, calls have timed out and logs come in between.
AnswersOnce ==
  [][waiting # "none" /\ waiting' = "none" /\ timeouts' = timeouts => took' > took]_csVars

\* A call returns, with an answer or a timeout, once the server's logs have an end.
CallReturns == waiting # "none" ~> waiting = "none"

\* Seen from the server, what clients, line and timeouts do are requests like any
\* other: all that HostServer promises holds here.
ServerImplemented == Server!Spec
=============================================================================
