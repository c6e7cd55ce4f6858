--------------------------- MODULE CPropertyHolder ---------------------------
(***************************************************************************)
(* refresh() of include/CPropertyHolder.hpp: the client asks the server's  *)
(* property 0, the symbols, how many properties there are and then for one *)
(* name after the other, and keeps the ids of the names it knows.  A name  *)
(* that is refused is asked for a second time, encrypted.                  *)
(*                                                                         *)
(* A name is one cell, as in Property; anything else that comes back, a    *)
(* ciphertext for instance, is none of the names in the map.               *)
(***************************************************************************)
EXTENDS HostCS, FiniteSets

CONSTANTS
  Names,    \* the names in the client's map
  Secret    \* client.secret

CPropertyHolderAssumption ==
  /\ Names \subseteq Cells
  /\ Props[0].kind = "symbols"
  /\ \A i, j \in Ids : Props[i].name = Props[j].name => i = j
  /\ Secret \in [key : Cells, nonce : Cells]

VARIABLES
  map,      \* the id of each name; 0 at the start
  phase,    \* what refresh() asks for: "idle", "size", "plain" or "sealed" names
  size,     \* the answer of get_size()
  i,        \* the id whose name is next
  found,    \* how many names refresh() has bound
  result    \* what it returned

holderVars == <<map, phase, size, i, found, result>>
vars == <<csVars, holderVars>>

-----------------------------------------------------------------------------

HolderInit ==
  /\ map = [n \in Names |-> 0]
  /\ phase = "idle" /\ size = 0 /\ i = 0 /\ found = 0 /\ result = "S_OK"

Init == CSInit /\ HolderInit

Request(cmd, cells, seal) == [cmd |-> cmd, data |-> cells, seal |-> seal]

\* refresh() begins with get_size(); the bound MaxCalls leaves room for the names.
Refresh ==
  /\ phase = "idle" /\ calls + 1 + 2 * N <= MaxCalls
  /\ Send(Request("GET_SIZE", <<0>>, NoSeal))
  /\ phase' = "size" /\ i' = 0 /\ found' = 0
  /\ UNCHANGED <<map, size, result>>

\* get_size() failed.
Abort(err) ==
  /\ phase' = "idle" /\ result' = err
  /\ UNCHANGED <<map, size, i, found>>

SizeAnswered ==
  /\ phase = "size" /\ Take
  /\ LET f == Head(toClient).frame
     IN \/ /\ f.err # "S_OK" /\ Abort(f.err)
        \/ /\ f.err = "S_OK" /\ f.data = <<>> /\ Abort("E_FAIL")
        \/ /\ f.err = "S_OK" /\ f.data # <<>>
           /\ size' = f.data[1] /\ phase' = "plain"
           /\ UNCHANGED <<map, i, found, result>>

\* Mutant of AskPlain: the loop runs once too often.
AskOneMore ==
  /\ phase = "plain" /\ i <= size
  /\ Send(Request("GET_PROPERTY", <<0, i>>, NoSeal))
  /\ UNCHANGED holderVars

\* get_name(client, i, false)
AskPlain ==
  /\ phase = "plain" /\ i < size
  /\ Send(Request("GET_PROPERTY", <<0, i>>, NoSeal))
  /\ UNCHANGED holderVars

\* get_name(client, i, true)
AskSealed ==
  /\ phase = "sealed"
  /\ Send(Request("GET_PROPERTY", <<0, i>>, Secret))
  /\ UNCHANGED holderVars

\* Mutants of NextName: the id has already gone up when it is stored; it goes up
\* only when the name is known.
NextNameLate(bound) ==
  LET known == \E n \in Names : bound = <<n>>
  IN /\ phase' = "plain" /\ i' = i + 1
     /\ map' = IF known THEN [map EXCEPT ![bound[1]] = i'] ELSE map
     /\ found' = IF known THEN found + 1 ELSE found
     /\ UNCHANGED <<size, result>>

NextNameKnown(bound) ==
  LET known == \E n \in Names : bound = <<n>>
  IN /\ phase' = "plain" /\ i' = IF known THEN i + 1 ELSE i
     /\ map' = IF known THEN [map EXCEPT ![bound[1]] = i] ELSE map
     /\ found' = IF known THEN found + 1 ELSE found
     /\ UNCHANGED <<size, result>>

\* The loop goes on to the next id; bound is the name read, or anything else.
NextName(bound) ==
  LET known == \E n \in Names : bound = <<n>>
  IN /\ phase' = "plain" /\ i' = i + 1
     /\ map' = IF known THEN [map EXCEPT ![bound[1]] = i] ELSE map
     /\ found' = IF known THEN found + 1 ELSE found
     /\ UNCHANGED <<size, result>>

Retry == phase' = "sealed" /\ UNCHANGED <<map, size, i, found, result>>

\* A name that is still encrypted is not in the map.
Legible(f) == IF f.seal = NoSeal THEN f.data ELSE <<>>

PlainAnswered ==
  /\ phase = "plain" /\ Take
  /\ LET f == Head(toClient).frame
     IN IF f.err = "S_OK" THEN NextName(Legible(f)) ELSE Retry

\* Mutant of SealedAnswered: the answer is not decrypted.
SealedUndecrypted ==
  /\ phase = "sealed" /\ Take
  /\ LET f == Head(toClient).frame
     IN NextName(IF f.err = "S_OK" THEN Legible(f) ELSE <<>>)

\* decrypt() fails for a plain buffer too.
SealedAnswered ==
  /\ phase = "sealed" /\ Take
  /\ LET f == Head(toClient).frame
         opens == Opens([cells |-> f.data, data |-> 0, seal |-> f.seal], Secret)
     IN NextName(IF f.err = "S_OK" /\ opens THEN f.data ELSE <<>>)

TimedOut ==
  /\ TimeoutSilent \/ TimeoutEarly
  /\ \/ phase = "size" /\ Abort("E_TIMEOUT")
     \/ phase = "plain" /\ Retry
     \/ phase = "sealed" /\ NextName(<<>>)

Finished ==
  /\ phase = "plain" /\ waiting = "none" /\ i >= size
  /\ phase' = "idle"
  /\ result' = IF found = Cardinality(Names) THEN "S_OK" ELSE "E_FAIL"
  /\ UNCHANGED <<csVars, map, size, i, found>>

Next ==
  \/ Refresh \/ SizeAnswered \/ AskPlain \/ PlainAnswered \/ AskSealed \/ SealedAnswered
  \/ TimedOut \/ Finished
  \/ (PassOver \/ Elsewhere) /\ UNCHANGED holderVars

Spec == Init /\ [][Next]_vars

ServerStep == (Serve \/ Return) /\ UNCHANGED holderVars
ClientStep ==
  \/ SizeAnswered \/ AskPlain \/ PlainAnswered \/ AskSealed \/ SealedAnswered \/ Finished
  \/ PassOver /\ UNCHANGED holderVars
  \/ TimeoutSilent /\ TimedOut

\* poll() is called in a loop; refresh() runs on, and rx() of the client ends with a
\* byte or, on a silent line, a timeout.
FairSpec == Spec /\ WF_vars(ServerStep) /\ WF_vars(ClientStep)

-----------------------------------------------------------------------------
(***************************************************************************)
(* Properties                                                              *)
(***************************************************************************)

\* refresh() asks for no id the server does not have.
TypeOK ==
  /\ CSTypeOK
  /\ map \in [Names -> Ids]
  /\ phase \in {"idle", "size", "plain", "sealed"}
  /\ size \in 0 .. N /\ i \in 0 .. size /\ found \in 0 .. i
  /\ result \in ErrorCode \cup {"E_TIMEOUT", "E_FAIL"}

Bound(n) == Props[map[n]].name = n

\* The ids are those of the server: as long as no request has timed out, a name is
\* bound to the property that has it, whatever frames come in between.
BindsRight == timeouts = 0 => \A n \in Names : map[n] # 0 => Bound(n)

Done == phase = "idle" /\ calls > 0

\* A refresh() that no timeout disturbs finds every name a plain client may read,
\* and returns S_OK only when it has found all it looks for.
FindsPlainNames ==
  Done /\ timeouts = 0 =>
    /\ \A id \in Ids : Props[id].name \in Names /\ MayRead(Props[id].access, FALSE) =>
         map[Props[id].name] = id
    /\ result = "S_OK" => \A n \in Names : Bound(n)

\* With the right key and nonce it finds the protected names as well: what is
\* refused is asked for again, encrypted (CPropertyHolder.hpp:71).
FindsAllNames ==
  Done /\ timeouts = 0 => \A id \in Ids : Props[id].name \in Names => Bound(Props[id].name)

\* refresh() returns, also when any of its requests time out.
RefreshEnds == phase # "idle" ~> phase = "idle"

-----------------------------------------------------------------------------
(* What the theorems assume of the application *)

\* The requests refresh() makes are among those the server's theorems are about.
RequestsKnown ==
  /\ Request("GET_SIZE", <<0>>, NoSeal) \in Requests
  /\ \A id \in Ids, seal \in {NoSeal, Secret} :
       Request("GET_PROPERTY", <<0, id>>, seal) \in Requests
=============================================================================
