------------------------------ MODULE LazyTable ------------------------------
(***************************************************************************)
(* A table that is filled when it is first used, without a guard: the      *)
(* S-box of libs/uAES/src/uaes.c, EnsureSboxInitialized(), and the table   *)
(* of libs/libcrc/src/crcccitt.c, init_crcccitt_tab().  The server and the *)
(* client of one process share it.  Each thread that finds the mark unset  *)
(* fills the table itself and sets the mark last; the mark, entry 0 here,  *)
(* is s_sbox[0] or crc_tabccitt_init.  The values all threads write are    *)
(* the same (SboxTable), so an entry is either empty or right.             *)
(*                                                                         *)
(* A store is seen by its own thread at once and by the others later, in   *)
(* the order the thread made them, as on the processors the host runs on.  *)
(***************************************************************************)
EXTENDS Integers

CONSTANTS
  Thread,
  LastEntry   \* the entries are 0 .. LastEntry

LastEntryAssumption == LastEntry \in Nat

Entry == 0 .. LastEntry

VARIABLES
  at,       \* "idle", "fill": in the loop, "ready": behind EnsureSboxInitialized()
  stored,   \* stored[t]: how many entries thread t has written
  visible   \* visible[t]: how many of them the other threads see

tableVars == <<at, stored, visible>>

TableTypeOK ==
  /\ at \in [Thread -> {"idle", "fill", "ready"}]
  /\ stored \in [Thread -> 0 .. LastEntry + 1]
  /\ visible \in [Thread -> 0 .. LastEntry + 1]

TableInit ==
  /\ at = [t \in Thread |-> "idle"]
  /\ stored = [t \in Thread |-> 0]
  /\ visible = [t \in Thread |-> 0]

\* Mutant of Place: entry 0 is written before the loop.
PlaceZeroFirst(e) == e + 1

\* The loop writes the other entries, and entry 0 is written behind it.
Place(e) == IF e = 0 THEN LastEntry + 1 ELSE e

\* Entry e holds its value when thread t reads it.
Has(t, e) == stored[t] >= Place(e) \/ \E u \in Thread : visible[u] >= Place(e)

\* The first step of a function that uses the table.
See(t) ==
  /\ at[t] = "idle"
  /\ at' = [at EXCEPT ![t] = IF Has(t, 0) THEN "ready" ELSE "fill"]
  /\ UNCHANGED <<stored, visible>>

\* Mutant of Write: the loop makes one turn more.
WriteOneMore(t) ==
  /\ at[t] = "fill"
  /\ stored' = [stored EXCEPT ![t] = @ + 1]
  /\ at' = [at EXCEPT ![t] = IF stored[t] = LastEntry + 1 THEN "ready" ELSE @]
  /\ UNCHANGED visible

\* Mutant of Write: p gets around to its start unnoticed.
WriteAround(t) ==
  /\ at[t] = "fill"
  /\ stored' = [stored EXCEPT ![t] = (@ + 1) % (LastEntry + 1)]
  /\ UNCHANGED <<at, visible>>

Write(t) ==
  /\ at[t] = "fill"
  /\ stored' = [stored EXCEPT ![t] = @ + 1]
  /\ at' = [at EXCEPT ![t] = IF stored[t] = LastEntry THEN "ready" ELSE @]
  /\ UNCHANGED visible

\* The processor lets the others see one more store.
Drain(t) ==
  /\ visible[t] < stored[t]
  /\ visible' = [visible EXCEPT ![t] = @ + 1]
  /\ UNCHANGED <<at, stored>>

\* The function that used the table returns.
Return(t) ==
  /\ at[t] = "ready"
  /\ at' = [at EXCEPT ![t] = "idle"]
  /\ UNCHANGED <<stored, visible>>

TableNext == \E t \in Thread : See(t) \/ Write(t) \/ Drain(t) \/ Return(t)

TableSpec == TableInit /\ [][TableNext]_tableVars

-----------------------------------------------------------------------------
(***************************************************************************)
(* Properties                                                              *)
(***************************************************************************)

\* A thread that is behind EnsureSboxInitialized(), whoever filled the table and how far
\* the others are, reads no entry that is empty.
ReadsRight == \A t \in Thread : at[t] = "ready" => \A e \in Entry : Has(t, e)

\* No thread writes beyond the table, and none fills it twice.
FilledOnce ==
  \A t \in Thread :
    /\ at[t] = "fill" => stored[t] <= LastEntry
    /\ at[t] # "fill" => stored[t] \in {0, LastEntry + 1}

\* What the threads need of the table: what they read is there, and is written once.
TableRight == TableTypeOK /\ ReadsRight /\ FilledOnce
=============================================================================
