------------------------------- MODULE Client -------------------------------
(***************************************************************************)
(* The client's objects over one HostClient and one server: the            *)
(* properties of CProperty, the memory of CMemory, the holder of           *)
(* CPropertyHolder, and a server's address.  In a behaviour the            *)
(* application uses one of them, each with bounds of its own; the line and *)
(* the server are the same for all but the address, which has a line with  *)
(* several servers.                                                        *)
(*                                                                         *)
(* CMemory and CPropertyHolder are instantiated together with what is      *)
(* proved about them, so that ClientProofs can cite it.                    *)
(***************************************************************************)
EXTENDS CProperty

CONSTANTS
  Users,                           \* what the application may use
  MemOperations, BlockMax, Other,  \* of CMemory
  MemCalls, MemEarly, MemLosses, MemLogs,              \* its bounds
  Names,                           \* of CPropertyHolder
  HolderCalls, HolderEarly, HolderLosses, HolderLogs,  \* its bounds
  Station, Address, Start,         \* of AddressChange
  MaxSets                          \* its bound

VARIABLES
  user,     \* what the application uses
  memOp, block, access, moved, buffer, memResult, before,   \* of CMemory
  map, phase, size, at, found, holderResult,                \* of CPropertyHolder
  address, client, requests, answers, sets, asked, taken    \* of AddressChange

Memory ==
  INSTANCE CMemoryProofs WITH
    op <- memOp, result <- memResult, Operations <- MemOperations,
    MaxCalls <- MemCalls, MaxEarly <- MemEarly, MaxLosses <- MemLosses, MaxLogs <- MemLogs,
    Secret <- InitSecret

Holder ==
  INSTANCE CPropertyHolderProofs WITH
    i <- at, result <- holderResult,
    MaxCalls <- HolderCalls, MaxEarly <- HolderEarly, MaxLosses <- HolderLosses,
    MaxLogs <- HolderLogs, Secret <- InitSecret

Line ==
  INSTANCE AddressChange WITH MaxCalls <- MaxSets, calls <- sets, waiting <- asked

\* The calls of each object meet what the theorems about it assume of the application.
ASSUME ClientAssumption ==
  /\ Users \subseteq {"property", "memory", "holder", "address"}
  /\ MemCalls \in Nat /\ MemEarly \in Nat /\ MemLosses \in Nat /\ MemLogs \in Nat
  /\ HolderCalls \in Nat /\ HolderEarly \in Nat /\ HolderLosses \in Nat /\ HolderLogs \in Nat
  /\ RequestsKnown /\ Matched
  /\ Memory!CMemoryAssumption /\ Memory!Memories /\ Memory!BlocksKnown
  /\ Holder!CPropertyHolderAssumption /\ Holder!RequestsKnown
  /\ Line!AddressChangeAssumption

-----------------------------------------------------------------------------

propertyVars == <<secret, op, result>>
memoryVars == <<memOp, block, access, moved, buffer, memResult, before>>
holderVars == <<map, phase, size, at, found, holderResult>>
addressVars == <<address, client, requests, answers, sets, asked, taken>>

clientRunVars == <<csVars, user, propertyVars, memoryVars, holderVars, addressVars>>

ClientInit ==
  /\ user \in Users
  /\ CSInit /\ CallInit /\ Memory!CallInit /\ Holder!HolderInit /\ Line!Init
  /\ user # "address" => client = CHOOSE a \in Address : TRUE

UsesProperty == user = "property" /\ UNCHANGED <<user, memoryVars, holderVars, addressVars>>
UsesMemory == user = "memory" /\ UNCHANGED <<user, propertyVars, holderVars, addressVars>>
UsesHolder == user = "holder" /\ UNCHANGED <<user, propertyVars, memoryVars, addressVars>>
UsesAddress == user = "address" /\ UNCHANGED <<user, csVars, propertyVars, memoryVars, holderVars>>

ClientNext ==
  \/ UsesProperty /\ Next
  \/ UsesMemory /\ Memory!Next
  \/ UsesHolder /\ Holder!Next
  \/ UsesAddress /\ Line!Next

ClientSpec == ClientInit /\ [][ClientNext]_clientRunVars

ServerTurn ==
  (Serve \/ Return) /\ UNCHANGED <<user, propertyVars, memoryVars, holderVars, addressVars>>

ClientTurn ==
  \/ UsesProperty /\ ClientStep
  \/ UsesMemory /\ Memory!ClientStep
  \/ UsesHolder /\ Holder!ClientStep

\* As in the modules: poll() is called in a loop, and the client runs on.
ClientFairSpec ==
  ClientSpec /\ WF_clientRunVars(ServerTurn) /\ WF_clientRunVars(ClientTurn)

-----------------------------------------------------------------------------
(* Properties; those of CProperty and HostCS are checked as they are. *)

\* No call, whatever it is of, leaves its types: no block reaches beyond the caller's
\* buffer, no id beyond the server's, and no set() of an address counts one twice.
TypesOK ==
  /\ user = "property" => TypeOK
  /\ user = "memory" => Memory!TypeOK
  /\ user = "holder" => Holder!TypeOK
  /\ user = "address" => Line!TypeOK

\* set() of a memory writes a prefix of its blocks, and all of them for S_OK.
PrefixWritten == Memory!PrefixWritten

\* get() of a memory fills a prefix of the caller's buffer, and all of it for S_OK.
PrefixRead == Memory!PrefixRead

\* refresh() binds a name to the id the server has for it.
BindsRight == Holder!BindsRight

\* A refresh() that nothing disturbs finds the names that are not protected.
FindsPlainNames == user = "holder" => Holder!FindsPlainNames

\* What CPropertyHolder.hpp:71 says: a name that is refused is got once more, encrypted.
\* A refresh() that nothing disturbs would find the protected names too.
FindsAllNames == user = "holder" => Holder!FindsAllNames

\* S_OK for a set() of an address that changes it is the answer to an earlier call.
OwnAnswerUnseen == Line!OwnAnswerUnseen

\* S_OK for a set() of the address that is used means that a server is there.
ConfirmedStays == Line!ConfirmedStays

\* A call of several requests returns, wherever it fails.
CallsEnd == Memory!CallEnds /\ Holder!RefreshEnds
=============================================================================
