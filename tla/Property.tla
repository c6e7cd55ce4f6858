------------------------------- MODULE Property -------------------------------
(***************************************************************************)
(* The properties a server offers: what get(), set(), get_size() and       *)
(* get_access() of each kind do to the buffer and to the property's value. *)
(*                                                                         *)
(*   "symbols"  PropertySymbols of include/HostServer.hpp                  *)
(*   "value"    Property<T> of include/Property.hpp                        *)
(*   "key"      PropertyKey of include/HostBase.hpp                        *)
(*   "memory"   Memory<T> of include/Memory.hpp                            *)
(*   "range"    Range<T> of include/Range.hpp                              *)
(*                                                                         *)
(* A value is a sequence of cells of constant length: one cell for "value" *)
(* and "key", <<min, max>> for "range", the bytes for "memory".            *)
(***************************************************************************)
EXTENDS Types, Extra

CONSTANTS
  N,       \* how many properties there are
  Props,   \* Props[id]: its kind, access, name and absolute range <<min, max>>
  NaN      \* the cell that is not a number, outside Cells when T is an integer

Ids == 0 .. N - 1

Kind == {"symbols", "value", "key", "memory", "range"}

ASSUME PropsAssumption ==
  /\ N \in Cells    \* the table of names is no longer than UINT16_MAX, HostServer.hpp:56
  /\ Props \in [Ids -> [kind : Kind, access : Access, name : Cells, absolute : [1 .. 2 -> Cells]]]
  /\ \A id \in Ids : /\ Props[id].kind = "symbols" => Props[id].access = "READ"
                     /\ Props[id].kind = "key" => Props[id].access = "READ_WRITE_PROTECT"
  /\ NaN \in Int

\* What the methods return: an error code, the buffer and the property's value.
Result == [err : ErrorCode, extra : Buffer, value : Seq(Cells)]

Gives(err, x, v) == [err |-> err, extra |-> x, value |-> v]

\* extra.reset() followed by extra.add(s), whose result set() and get_size() ignore.
Answer(s, v) == Gives("S_OK", Added(Empty, s), v)

\* The methods of PropertyBase that no subclass overrides.
NotImplemented(x, v) == Gives("E_NO_IMPLEMENT", x, v)

-----------------------------------------------------------------------------
(* Property<T> *)

GetValue(v, x) ==
  IF CanAdd(Empty, v) THEN Answer(v, v) ELSE Gives("E_OUT_OF_BUFFER", Empty, v)

\* Mutant of SetValue: the buffer is not reset.
SetValueKeepsBuffer(v, x) ==
  IF ~CanGet(x, Len(v)) THEN Gives("E_INVALID_ARG", x, v)
  ELSE Gives("S_OK", Skip(x, Len(v)), Got(x, Len(v)))

SetValue(v, x) ==
  IF ~CanGet(x, Len(v)) THEN Gives("E_INVALID_ARG", x, v)
  ELSE Gives("S_OK", Empty, Got(x, Len(v)))

-----------------------------------------------------------------------------
(* Memory<T> *)

Offset(x) == Got(x, 2)[1]
Size(x) == Got(x, 2)[2]

GetMemory(v, x) ==
  IF ~CanGet(x, 2) THEN Gives("E_INVALID_ARG", x, v)
  ELSE IF Len(v) < Offset(x) + Size(x) THEN Gives("E_OUT_OF_INDEX", Skip(x, 2), v)
  ELSE IF Size(x) > Spare(Empty) THEN Gives("E_OUT_OF_BUFFER", Empty, v)
  ELSE Answer(SubSeq(v, Offset(x) + 1, Offset(x) + Size(x)), v)

\* The cells v with s written over those from the offset on.
Overwritten(v, offset, s) ==
  [k \in 1 .. Len(v) |-> IF k - offset \in 1 .. Len(s) THEN s[k - offset] ELSE v[k]]

\* Mutants of SetMemory: the offset is not added, the bound is not tested.
SetMemoryAtBase(v, x) ==
  IF ~CanGet(x, 2) THEN Gives("E_INVALID_ARG", x, v)
  ELSE IF Size(x) # Remain(Skip(x, 2)) THEN Gives("E_INVALID_ARG", Skip(x, 2), v)
  ELSE IF Len(v) < Offset(x) + Size(x) THEN Gives("E_OUT_OF_INDEX", Skip(x, 2), v)
  ELSE Gives("S_OK", Empty, Overwritten(v, 0, Got(Skip(x, 2), Size(x))))

SetMemoryUnbounded(v, x) ==
  IF ~CanGet(x, 2) THEN Gives("E_INVALID_ARG", x, v)
  ELSE IF Size(x) # Remain(Skip(x, 2)) THEN Gives("E_INVALID_ARG", Skip(x, 2), v)
  ELSE Gives("S_OK", Empty, SubSeq(v, 1, Offset(x)) \o Got(Skip(x, 2), Size(x)))

SetMemory(v, x) ==
  IF ~CanGet(x, 2) THEN Gives("E_INVALID_ARG", x, v)
  ELSE IF Size(x) # Remain(Skip(x, 2)) THEN Gives("E_INVALID_ARG", Skip(x, 2), v)
  ELSE IF Len(v) < Offset(x) + Size(x) THEN Gives("E_OUT_OF_INDEX", Skip(x, 2), v)
  ELSE Gives("S_OK", Empty, Overwritten(v, Offset(x), Got(Skip(x, 2), Size(x))))

-----------------------------------------------------------------------------
(* Range<T>: the access byte, 0 for Range and 1 for Absolute, comes first *)

\* a < b on the numbers of the code: false when one of them is NaN.
Below(a, b) == a # NaN /\ b # NaN /\ a < b

GetRange(absolute, v, x) ==
  IF ~CanGet(x, 1) THEN Gives("E_INVALID_ARG", x, v)
  ELSE IF Got(x, 1)[1] = 0 THEN Answer(v, v)
  ELSE IF Got(x, 1)[1] = 1 THEN Answer(absolute, v)
  ELSE Gives("E_NO_IMPLEMENT", Empty, v)

\* Mutant of SetCurrent: the limits are tested against each other only.
SetCurrentUnlimited(absolute, v, x) ==
  IF ~CanGet(x, 2) THEN Gives("E_INVALID_ARG", x, v)
  ELSE IF Below(Got(x, 2)[2], Got(x, 2)[1]) THEN Gives("E_INVALID_ARG", Skip(x, 2), v)
  ELSE Gives("S_OK", Empty, Got(x, 2))

\* case RangeAccess::Range of set().
SetCurrent(absolute, v, x) ==
  IF ~CanGet(x, 2) THEN Gives("E_INVALID_ARG", x, v)
  ELSE LET range == Got(x, 2)
       IN IF Below(range[2], range[1]) THEN Gives("E_INVALID_ARG", Skip(x, 2), v)
          ELSE IF Below(range[1], absolute[1]) THEN Gives("E_OVER_LOW_LIMIT", Skip(x, 2), v)
          ELSE IF Below(absolute[2], range[2]) THEN Gives("E_OVER_HIGH_LIMIT", Skip(x, 2), v)
          ELSE Gives("S_OK", Empty, range)

SetRange(absolute, v, x) ==
  IF ~CanGet(x, 1) THEN Gives("E_INVALID_ARG", x, v)
  ELSE IF Got(x, 1)[1] = 0 THEN SetCurrent(absolute, v, Skip(x, 1))
  ELSE IF Got(x, 1)[1] = 1 THEN Gives("E_READ_ONLY", Skip(x, 1), v)
  ELSE NotImplemented(Skip(x, 1), v)

-----------------------------------------------------------------------------
(* PropertySymbols: the names of the properties *)

GetSymbol(v, x, privileged) ==
  IF ~CanGet(x, 1) THEN Gives("E_INVALID_ARG", x, v)
  ELSE LET id == Got(x, 1)[1]
       IN IF id \notin Ids THEN Gives("E_OUT_OF_INDEX", Skip(x, 1), v)
          ELSE LET err == CheckRead(Props[id].access, privileged)
               IN IF err # "S_OK" THEN Gives(err, Skip(x, 1), v)
                  ELSE Answer(<<Props[id].name>>, v)

-----------------------------------------------------------------------------
(* The virtual methods, by kind *)

Get(p, v, x, privileged) ==
  CASE p.kind = "symbols" -> GetSymbol(v, x, privileged)
    [] p.kind = "value" -> GetValue(v, x)
    [] p.kind = "key" -> NotImplemented(x, v)
    [] p.kind = "memory" -> GetMemory(v, x)
    [] p.kind = "range" -> GetRange(p.absolute, v, x)

Set(p, v, x) ==
  CASE p.kind = "symbols" -> NotImplemented(x, v)
    [] p.kind \in {"value", "key"} -> SetValue(v, x)
    [] p.kind = "memory" -> SetMemory(v, x)
    [] p.kind = "range" -> SetRange(p.absolute, v, x)

\* Names in the symbol table, or cells of the value.
GetSize(p, v) ==
  Answer(<<IF p.kind = "symbols" THEN N ELSE Len(v)>>, v)

GetAccess(p, v) == Answer(<<AccessCode(p.access)>>, v)
=============================================================================
