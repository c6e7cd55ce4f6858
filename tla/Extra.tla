-------------------------------- MODULE Extra --------------------------------
(***************************************************************************)
(* The payload buffer of include/Extra.hpp.  A buffer is a record          *)
(*   cells  what is in it, up to its tail                                  *)
(*   data   the cursor: how many of the cells have been read or written    *)
(*   seal   NoSeal, or the key and nonce the cells are encrypted under,    *)
(*          which stands for the flag encrypted() and the tag              *)
(*                                                                         *)
(* Sizes are scaled: one cell is an id, an offset, a length, an access     *)
(* level, a number, or a byte of a memory property.  Cells behind the tail *)
(* are never read and are left out.                                        *)
(***************************************************************************)
EXTENDS Integers, Sequences

CONSTANTS
  MaxCell,    \* the largest number a cell may hold
  Capacity,   \* extra.capacity()
  NoSeal      \* no encryption

\* A buffer holds at least a RangeVal, so that add() of one fits after reset().
Cells == 0 .. MaxCell

ASSUME ExtraAssumption ==
  /\ MaxCell \in Nat
  /\ Capacity \in Nat /\ Capacity >= 2
  /\ NoSeal \notin [key : Cells, nonce : Cells]

Seal == [key : Cells, nonce : Cells] \cup {NoSeal}

Buffer == [cells : Seq(Cells), data : Nat, seal : Seal]

Empty == [cells |-> <<>>, data |-> 0, seal |-> NoSeal]

Remain(x) == Len(x.cells) - x.data
Spare(x) == Capacity - Len(x.cells)

\* get(): the next n cells, and the buffer once they are read.
CanGet(x, n) == n <= Remain(x)
Got(x, n) == SubSeq(x.cells, x.data + 1, x.data + n)
Skip(x, n) == [cells |-> x.cells, data |-> x.data + n, seal |-> x.seal]

\* add() at the cursor; what lies behind it is overwritten, never moved.
CanAdd(x, s) == Len(s) <= Spare(x)
Added(x, s) ==
  [cells |-> SubSeq(x.cells, 1, x.data) \o s
               \o SubSeq(x.cells, x.data + Len(s) + 1, Len(x.cells)),
   data |-> x.data + Len(s), seal |-> x.seal]

\* truncate(): what has not been read is dropped.
Truncate(x) == [cells |-> SubSeq(x.cells, 1, x.data), data |-> x.data, seal |-> x.seal]

ReadAll(x) == [cells |-> x.cells, data |-> Len(x.cells), seal |-> x.seal]

\* encrypt(): neither an empty nor an encrypted buffer is encrypted.
Encrypt(x, seal) ==
  IF x.cells = <<>> \/ x.seal # NoSeal THEN x
  ELSE [cells |-> x.cells, data |-> x.data, seal |-> seal]

\* decrypt(): the tag is right exactly for the key and nonce it was made with.
Opens(x, seal) == x.seal # NoSeal /\ x.cells # <<>> /\ x.seal = seal
Decrypt(x, seal) ==
  IF Opens(x, seal) THEN [cells |-> x.cells, data |-> x.data, seal |-> NoSeal] ELSE Empty
=============================================================================
