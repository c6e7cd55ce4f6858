------------------------------- MODULE CMemory -------------------------------
(***************************************************************************)
(* A memory property as the client sees it: get() and set() of             *)
(* include/CMemory.hpp, which split a range into blocks and send one       *)
(* request for each, over the client and server of HostCS.                 *)
(*                                                                         *)
(* The loop over the whole blocks and the remainder behind it are one      *)
(* series of blocks here, numbered from 0.  Offsets and block lengths are  *)
(* numbers of one cell and wrap behind MaxCell, as the code's Size does    *)
(* behind 65535; the length asked for, a size_t, may be larger.            *)
(***************************************************************************)
EXTENDS HostCS

CONSTANTS
  IdOf,        \* the ids the holder knows, by name
  Operations,  \* the calls: [do, name, access, offset, size, data]
  BlockMax,    \* MEMORY_ACCESS_SIZE_MAX
  Secret,      \* client.secret
  Other        \* a cell of the caller's buffer not written yet, or still encrypted

\* A block fits the client's buffer behind the id, the offset and the length.
CMemoryAssumption ==
  /\ IdOf \in [DOMAIN IdOf -> Ids]
  /\ \A o \in Operations :
       /\ o.do \in {"get", "set"} /\ o.access \in Access
       /\ o.offset \in Cells /\ o.size \in Nat
       /\ o.do = "set" => o.data \in [1 .. o.size -> Cells]
  /\ BlockMax \in Cells \ {0} /\ BlockMax + 3 <= Capacity
  /\ Secret \in [key : Cells, nonce : Cells]
  /\ Other \notin Cells

VARIABLES
  op,       \* the call that runs or ran last
  block,    \* how many of its blocks have been acknowledged
  access,   \* the MemoryAccess of the block: [offset, size]
  moved,    \* _offset: where in the caller's buffer the block begins
  buffer,   \* the caller's buffer of a get()
  result,   \* the error code, "E_PENDING" while the call runs
  before    \* history: what the server's memory held when the call began

callVars == <<op, block, access, moved, buffer, result, before>>
vars == <<csVars, callVars>>

-----------------------------------------------------------------------------

Wrap(n) == n % (MaxCell + 1)

WholeBlocks(o) == o.size \div BlockMax

\* Mutants of MoreBlocks: there is no remainder; the loop runs until _offset has
\* come to the end, where the remainder does not take it.
MoreWholeBlocks(o) == block < WholeBlocks(o)
MoreUntilMoved(o) == moved # o.size

\* Another whole block, or a remainder, which is sent once.
MoreBlocks(o) == block < WholeBlocks(o) \/ (block = WholeBlocks(o) /\ moved # o.size)

\* The length of the block that is next.
BlockSize(o) == IF block < WholeBlocks(o) THEN BlockMax ELSE Wrap(o.size - moved)

Privileged(o) ==
  o.access \in (IF o.do = "get" THEN {"READ_WRITE_PROTECT", "READ_PROTECT"}
                                ELSE {"READ_WRITE_PROTECT", "WRITE_PROTECT"})

\* The request for a block, as send() puts it on the line.
BlockRequest(o, a) ==
  LET x == Added(Empty, <<IdOf[o.name], a.offset, a.size>>
                          \o (IF o.do = "set" THEN SubSeq(o.data, moved + 1, moved + a.size)
                                              ELSE <<>>))
      y == IF Privileged(o) THEN Encrypt(x, Secret) ELSE x
  IN [cmd |-> IF o.do = "get" THEN "GET_PROPERTY" ELSE "SET_PROPERTY",
      data |-> y.cells, seal |-> y.seal]

\* The answer to a block: extra.get(data, access.size) of get_block().
BlockError(o, f) ==
  IF f.err # "S_OK" THEN f.err
  ELSE IF o.do = "get" /\ Len(f.data) < access.size THEN "E_FAIL"
  ELSE "S_OK"

Filled(o, f) ==
  [k \in 1 .. o.size |->
     IF k - moved \notin 1 .. access.size THEN buffer[k]
     ELSE IF f.seal = NoSeal THEN f.data[k - moved] ELSE Other]

-----------------------------------------------------------------------------

NoOp == [do |-> "none"]
Running == result = "E_PENDING"

CallInit ==
  /\ op = NoOp /\ result = "S_OK"
  /\ block = 0 /\ moved = 0 /\ access = [offset |-> 0, size |-> BlockMax]
  /\ buffer = <<>> /\ before = <<>>

Init == CSInit /\ CallInit

\* get() or set() is called; the bound MaxCalls leaves room for all its requests.
Begin(o) ==
  /\ ~Running /\ calls + WholeBlocks(o) + 1 <= MaxCalls
  /\ op' = o
  /\ block' = 0 /\ moved' = 0 /\ access' = [offset |-> o.offset, size |-> BlockMax]
  /\ buffer' = IF o.do = "get" THEN [k \in 1 .. o.size |-> Other] ELSE <<>>
  /\ result' = IF o.do = "set" /\ o.access \in {"READ", "READ_PROTECT"} THEN "E_READ_ONLY"
               ELSE "E_PENDING"
  /\ before' = IF o.name \in DOMAIN IdOf THEN values[IdOf[o.name]] ELSE <<>>
  /\ UNCHANGED csVars

\* set_block() and get_block() look the name up first.
NameUnknown ==
  /\ Running /\ waiting = "none" /\ MoreBlocks(op) /\ op.name \notin DOMAIN IdOf
  /\ result' = "E_ID_NOT_EXIST"
  /\ UNCHANGED <<csVars, op, block, access, moved, buffer, before>>

SendBlock ==
  /\ Running /\ MoreBlocks(op) /\ op.name \in DOMAIN IdOf
  /\ access' = [offset |-> access.offset, size |-> BlockSize(op)]
  /\ Send(BlockRequest(op, access'))
  /\ UNCHANGED <<op, block, moved, buffer, result, before>>

\* Mutant of BlockDone: the block after the next begins at the same offset.
BlockDoneInPlace ==
  /\ Take
  /\ BlockError(op, Head(toClient).frame) = "S_OK"
  /\ block' = block + 1
  /\ moved' = IF block < WholeBlocks(op) THEN Wrap(moved + access.size) ELSE moved
  /\ buffer' = IF op.do = "get" THEN Filled(op, Head(toClient).frame) ELSE buffer
  /\ UNCHANGED <<op, access, result, before>>

\* The block is acknowledged; _offset stays behind a remainder.
BlockDone ==
  /\ Take
  /\ BlockError(op, Head(toClient).frame) = "S_OK"
  /\ block' = block + 1
  /\ access' = [offset |-> Wrap(access.offset + access.size), size |-> access.size]
  /\ moved' = IF block < WholeBlocks(op) THEN Wrap(moved + access.size) ELSE moved
  /\ buffer' = IF op.do = "get" THEN Filled(op, Head(toClient).frame) ELSE buffer
  /\ UNCHANGED <<op, result, before>>

\* Mutant of BlockFailed: the error of a block does not end the call.
BlockErrorIgnored ==
  /\ Take
  /\ BlockError(op, Head(toClient).frame) # "S_OK"
  /\ block' = block + 1
  /\ UNCHANGED <<op, access, moved, buffer, result, before>>

BlockFailed ==
  /\ Take
  /\ BlockError(op, Head(toClient).frame) # "S_OK"
  /\ result' = BlockError(op, Head(toClient).frame)
  /\ UNCHANGED <<op, block, access, moved, buffer, before>>

TimedOut ==
  /\ TimeoutSilent \/ TimeoutEarly
  /\ result' = "E_TIMEOUT"
  /\ UNCHANGED <<op, block, access, moved, buffer, before>>

Complete ==
  /\ Running /\ waiting = "none" /\ ~MoreBlocks(op)
  /\ result' = "S_OK"
  /\ UNCHANGED <<csVars, op, block, access, moved, buffer, before>>

Next ==
  \/ \E o \in Operations : Begin(o)
  \/ NameUnknown \/ SendBlock \/ BlockDone \/ BlockFailed \/ TimedOut \/ Complete
  \/ (PassOver \/ Elsewhere) /\ UNCHANGED callVars

Spec == Init /\ [][Next]_vars

ServerStep == (Serve \/ Return) /\ UNCHANGED callVars
ClientStep ==
  \/ NameUnknown \/ SendBlock \/ BlockDone \/ BlockFailed \/ Complete
  \/ PassOver /\ UNCHANGED callVars
  \/ TimeoutSilent /\ TimedOut

\* poll() is called in a loop; the client's loop runs on, and rx() ends with a byte
\* or, on a silent line, a timeout.
FairSpec == Spec /\ WF_vars(ServerStep) /\ WF_vars(ClientStep)

-----------------------------------------------------------------------------
(***************************************************************************)
(* Properties                                                              *)
(***************************************************************************)

\* No block reaches beyond the caller's buffer.
TypeOK ==
  /\ CSTypeOK
  /\ op \in Operations \cup {NoOp}
  /\ result \in ErrorCode \cup {"E_PENDING", "E_TIMEOUT", "E_FAIL"}
  /\ access \in [offset : Cells, size : Cells] /\ moved \in Cells
  /\ waiting # "none" => Running /\ moved + access.size <= op.size
  /\ op # NoOp /\ op.do = "get" => buffer \in [1 .. op.size -> Cells \cup {Other}]

\* The bytes the acknowledged blocks cover.
Acknowledged ==
  IF block <= WholeBlocks(op) THEN block * BlockMax ELSE op.size

\* A set() that takes several requests writes its blocks in order and whole: as
\* long as no call has timed out, the property holds what it held before with the
\* acknowledged blocks written over it, and while an answer is awaited perhaps the
\* block in question too.  So a set() that fails leaves a prefix, and S_OK means
\* that the whole range is there, also at offsets and lengths where Size wraps; an
\* empty range is never sent, and may begin anywhere.
PrefixWritten ==
  timeouts = 0 /\ op # NoOp /\ op.do = "set" /\ op.name \in DOMAIN IdOf =>
    \E n \in {Acknowledged} \cup
               (IF waiting = "none" THEN {} ELSE {Acknowledged + access.size}) :
      /\ values[IdOf[op.name]] = Overwritten(before, op.offset, SubSeq(op.data, 1, n))
      /\ result = "S_OK" => n = op.size /\ (n = 0 \/ op.offset + n <= Len(before))

\* A get() fills the caller's buffer from its beginning with what the property
\* holds from the offset on, and to its end when it returns S_OK.
PrefixRead ==
  timeouts = 0 /\ op # NoOp /\ op.do = "get" /\ op.name \in DOMAIN IdOf =>
    /\ \A k \in 1 .. op.size :
         buffer[k] = IF k <= Acknowledged THEN before[op.offset + k] ELSE Other
    /\ result = "S_OK" => Acknowledged = op.size

\* Every call returns, however many blocks it takes and wherever it fails.
CallEnds == Running ~> ~Running

-----------------------------------------------------------------------------
(* What the theorems assume of the application *)

\* Its calls are of properties that are memories on the server, ...
Memories ==
  \A o \in Operations : o.name \in DOMAIN IdOf => Props[IdOf[o.name]].kind = "memory"

\* ... and the requests for their blocks are among those the server's theorems are about.
BlockPayload(o, m, n) ==
  <<IdOf[o.name], Wrap(o.offset + m), n>>
    \o (IF o.do = "set" THEN SubSeq(o.data, m + 1, m + n) ELSE <<>>)

BlocksKnown ==
  \A o \in Operations : o.name \in DOMAIN IdOf =>
    \A m \in Cells, n \in 0 .. BlockMax, seal \in {NoSeal, Secret} : m + n <= o.size =>
      [cmd |-> IF o.do = "get" THEN "GET_PROPERTY" ELSE "SET_PROPERTY",
       data |-> BlockPayload(o, m, n), seal |-> seal] \in Requests
=============================================================================
