---------------------------- MODULE AddressChange ----------------------------
(***************************************************************************)
(* A server whose address is a property of its own, PropertyAddress of     *)
(* HostBase.hpp, on a line with other servers.  The property refers to the *)
(* variable that HostBase::send() puts into the header of the answer and   *)
(* that HostBase::recv() compares with the address of a request.  A client *)
(* calls set() of the property, from whatever address the application      *)
(* gives it; requests and answers may be late or lost.                     *)
(***************************************************************************)
EXTENDS Integers, Sequences

CONSTANTS
  Station, Address,
  Start,      \* the addresses the servers have in the beginning
  MaxCalls    \* bound: calls of set()

AddressChangeAssumption == Start \in [Station -> Address] /\ MaxCalls \in Nat

VARIABLES
  address,      \* of each server
  client,       \* the address the client uses
  requests,     \* requests[s]: what server s has not read yet
  answers,      \* what the client has not read yet
  calls,        \* the values that set() was called with, in order
  waiting,      \* whether the last call still waits for its answer
  taken         \* the call whose answer the last call returned S_OK for, 0 if it did not

vars == <<address, client, requests, answers, calls, waiting, taken>>

Frame == [address : Address, call : 1 .. MaxCalls]

\* A call that still waits has returned nothing; every frame is of a call that was made.
TypeOK ==
  /\ address \in [Station -> Address] /\ client \in Address
  /\ requests \in [Station -> Seq(Frame)] /\ answers \in Seq(Frame)
  /\ calls \in Seq(Address) /\ waiting \in BOOLEAN /\ taken \in 0 .. Len(calls)
  /\ waiting => taken = 0

Init ==
  /\ address = Start
  /\ client \in Address
  /\ requests = [s \in Station |-> <<>>] /\ answers = <<>>
  /\ calls = <<>> /\ waiting = FALSE /\ taken = 0

\* Every server on the line sees the request.
Call(new) ==
  /\ ~waiting /\ Len(calls) < MaxCalls
  /\ calls' = Append(calls, new) /\ waiting' = TRUE /\ taken' = 0
  /\ requests' = [s \in Station |->
                    Append(requests[s], [address |-> client, call |-> Len(calls) + 1])]
  /\ UNCHANGED <<address, client, answers>>

\* Mutant of AnswerAddress: the answer is sent from the address that was asked.
AnswerAddressOld(request) == request.address

\* The header is made after the property has been set.
AnswerAddress(request) == calls[request.call]

\* A request for another address is dropped.
Serve(s) ==
  /\ requests[s] # <<>>
  /\ requests' = [requests EXCEPT ![s] = Tail(@)]
  /\ LET r == Head(requests[s])
     IN IF r.address # address[s] THEN UNCHANGED <<address, answers>>
        ELSE /\ address' = [address EXCEPT ![s] = calls[r.call]]
             /\ answers' = Append(answers, [address |-> AnswerAddress(r), call |-> r.call])
  /\ UNCHANGED <<client, calls, waiting, taken>>

\* Mutant of Take: the address of the answer is not looked at.
TakeAny ==
  /\ waiting /\ answers # <<>>
  /\ answers' = Tail(answers) /\ waiting' = FALSE /\ taken' = Head(answers).call
  /\ UNCHANGED <<address, client, requests, calls>>

\* Mutant of Take: the loop of recv_response() goes on after the answer.
TakeGoesOn ==
  /\ waiting /\ answers # <<>>
  /\ answers' = Tail(answers)
  /\ taken' = IF Head(answers).address = client THEN Head(answers).call ELSE taken
  /\ UNCHANGED <<address, client, requests, calls, waiting>>

\* recv_response(), to which all answers look alike, and which drops those from others.
Take ==
  /\ waiting /\ answers # <<>>
  /\ answers' = Tail(answers)
  /\ IF Head(answers).address = client
     THEN waiting' = FALSE /\ taken' = Head(answers).call
     ELSE UNCHANGED <<waiting, taken>>
  /\ UNCHANGED <<address, client, requests, calls>>

TimedOut ==
  /\ waiting /\ answers = <<>>
  /\ waiting' = FALSE
  /\ UNCHANGED <<address, client, requests, answers, calls, taken>>

LoseRequest(s) ==
  /\ requests[s] # <<>> /\ requests' = [requests EXCEPT ![s] = Tail(@)]
  /\ UNCHANGED <<address, client, answers, calls, waiting, taken>>

LoseAnswer ==
  /\ answers # <<>> /\ answers' = Tail(answers)
  /\ UNCHANGED <<address, client, requests, calls, waiting, taken>>

\* The application turns to another address.
Turn(a) ==
  /\ ~waiting /\ a # client
  /\ client' = a /\ taken' = 0
  /\ UNCHANGED <<address, requests, answers, calls, waiting>>

Next ==
  \/ \E a \in Address : Call(a) \/ Turn(a)
  \/ \E s \in Station : Serve(s) \/ LoseRequest(s)
  \/ Take \/ TimedOut \/ LoseAnswer

Spec == Init /\ [][Next]_vars

-----------------------------------------------------------------------------
(***************************************************************************)
(* Properties                                                              *)
(***************************************************************************)

\* A call that changes the address of a server is never told so: its own answer comes
\* from the new address and is dropped.  S_OK is then the late answer to another call.
OwnAnswerUnseen ==
  taken # 0 /\ taken = Len(calls) => calls[taken] = client

\* When the application turns to the new address and sets it once more, S_OK in answer
\* to that call means that a server is there and stays there, whatever requests that
\* timed out are still on their way to it.
ConfirmedStays ==
  taken # 0 /\ taken = Len(calls) => \E s \in Station : address[s] = client
=============================================================================
