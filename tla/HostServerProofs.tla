--------------------------- MODULE HostServerProofs ---------------------------
(***************************************************************************)
(* The server, for every table of properties, every set of requests and    *)
(* every buffer size: types, permissions, answers that can be opened, and  *)
(* ranges that keep within their limits.  First what the operations of the *)
(* payload buffer and the methods of the properties preserve.              *)
(***************************************************************************)
EXTENDS HostServer, TLAPS

-----------------------------------------------------------------------------
(* The buffer *)

\* A buffer whose cursor is within its tail and whose tail is within its capacity.
Sound(x) == x \in Buffer /\ x.data <= Len(x.cells) /\ Len(x.cells) <= Capacity

\* reset() and a plain buffer that was just filled.
LEMMA EmptySound == Sound(Empty) /\ Empty.seal = NoSeal /\ Empty.cells = << >>
BY ExtraAssumption DEF Sound, Empty, Buffer, Seal

\* The n cells behind the first d.
LEMMA BlockOf ==
  ASSUME NEW s \in Seq(Cells), NEW d \in Nat, NEW n \in Nat, d + n <= Len(s)
  PROVE  /\ SubSeq(s, d + 1, d + n) \in Seq(Cells) /\ Len(SubSeq(s, d + 1, d + n)) = n
         /\ \A k \in 1 .. n : SubSeq(s, d + 1, d + n)[k] = s[d + k]
<1>1. SubSeq(s, d + 1, d + n) \in Seq(Cells) /\ Len(SubSeq(s, d + 1, d + n)) = n
  OBVIOUS
<1>2. ASSUME NEW k \in 1 .. n PROVE SubSeq(s, d + 1, d + n)[k] = s[d + k]
  <2>1. d + 1 \in Int /\ d + n \in Int /\ (d + 1) + (k - 1) = d + k
    OBVIOUS
  <2>2. QED
    BY <2>1
<1>3. QED
  BY <1>1, <1>2

\* get() reads n cells and leaves the cursor within the tail.
LEMMA GetSound ==
  ASSUME NEW x, Sound(x), NEW n \in Nat, CanGet(x, n)
  PROVE  /\ Got(x, n) \in Seq(Cells) /\ Len(Got(x, n)) = n
         /\ \A k \in 1 .. n : Got(x, n)[k] = x.cells[x.data + k] /\ Got(x, n)[k] \in Cells
         /\ Sound(Skip(x, n)) /\ Skip(x, n).seal = x.seal
         /\ Remain(Skip(x, n)) = Remain(x) - n /\ Remain(x) \in Nat
<1>1. /\ x.cells \in Seq(Cells) /\ x.data \in Nat /\ x.seal \in Seal
      /\ x.data + n <= Len(x.cells) /\ Len(x.cells) \in Nat /\ Len(x.cells) <= Capacity
  BY DEF Sound, Buffer, CanGet, Remain
<1>2. /\ Got(x, n) \in Seq(Cells) /\ Len(Got(x, n)) = n
      /\ \A k \in 1 .. n : Got(x, n)[k] = x.cells[x.data + k] /\ Got(x, n)[k] \in Cells
  <2>1. /\ Got(x, n) \in Seq(Cells) /\ Len(Got(x, n)) = n
        /\ \A k \in 1 .. n : Got(x, n)[k] = x.cells[x.data + k]
    BY <1>1, BlockOf DEF Got
  <2>2. QED
    BY <2>1
<1>3. Sound(Skip(x, n)) /\ Skip(x, n).seal = x.seal
  BY <1>1 DEF Skip, Sound, Buffer
<1>4. Remain(Skip(x, n)) = Remain(x) - n /\ Remain(x) \in Nat
  BY <1>1 DEF Remain, Skip
<1>5. QED
  BY <1>2, <1>3, <1>4

\* add() to a buffer that was reset.
LEMMA AddedToEmpty ==
  ASSUME NEW s \in Seq(Cells), Len(s) <= Capacity
  PROVE  /\ Sound(Added(Empty, s)) /\ Added(Empty, s).seal = NoSeal
         /\ Added(Empty, s).cells = s
<1>1. SubSeq(<< >>, 1, 0) = << >> /\ SubSeq(<< >>, 0 + Len(s) + 1, 0) = << >>
  OBVIOUS
<1>2. << >> \o s \o << >> = s
  OBVIOUS
<1>3. Added(Empty, s) = [cells |-> s, data |-> Len(s), seal |-> NoSeal]
  BY <1>1, <1>2 DEF Added, Empty
<1>4. QED
  BY <1>3, ExtraAssumption DEF Sound, Buffer, Seal

\* truncate() keeps what has been read.
LEMMA TruncateSound ==
  ASSUME NEW x, Sound(x)
  PROVE  /\ Sound(Truncate(x)) /\ Truncate(x).seal = x.seal
         /\ Len(Truncate(x).cells) = x.data
<1>1. x.cells \in Seq(Cells) /\ x.data \in Nat /\ x.seal \in Seal /\ x.data <= Len(x.cells)
      /\ Len(x.cells) <= Capacity
  BY DEF Sound, Buffer
<1>2. SubSeq(x.cells, 1, x.data) \in Seq(Cells) /\ Len(SubSeq(x.cells, 1, x.data)) = x.data
  BY <1>1
<1>3. QED
  BY <1>1, <1>2, ExtraAssumption DEF Truncate, Sound, Buffer

LEMMA ReadAllSound ==
  ASSUME NEW x, Sound(x)
  PROVE  Sound(ReadAll(x)) /\ ReadAll(x).seal = x.seal
BY DEF ReadAll, Sound, Buffer

\* encrypt() marks a buffer unless it is empty.
LEMMA EncryptSound ==
  ASSUME NEW x, Sound(x), x.seal = NoSeal, NEW seal \in Seal
  PROVE  /\ Sound(Encrypt(x, seal)) /\ Encrypt(x, seal).cells = x.cells
         /\ Encrypt(x, seal).seal \in Seal
         /\ Encrypt(x, seal).seal # NoSeal => x.cells # << >> /\ Encrypt(x, seal).seal = seal
BY DEF Encrypt, Sound, Buffer

-----------------------------------------------------------------------------
(* The methods *)

\* A method returns a plain, sound buffer and a value of the same length; a method
\* that fails changes nothing.
WellDone(r, v) ==
  /\ r.err \in ErrorCode
  /\ Sound(r.extra) /\ r.extra.seal = NoSeal
  /\ r.value \in Seq(Cells) /\ Len(r.value) = Len(v)
  /\ r.err # "S_OK" => r.value = v

LEMMA AnswerWellDone ==
  ASSUME NEW s \in Seq(Cells), Len(s) <= Capacity, NEW v \in Seq(Cells)
  PROVE  WellDone(Answer(s, v), v) /\ Answer(s, v).value = v /\ Answer(s, v).err = "S_OK"
BY AddedToEmpty DEF WellDone, Answer, Gives, ErrorCode

\* What a method does when it stops with an error, or accepts a new value.
LEMMA GivesWellDone ==
  ASSUME NEW err \in ErrorCode, NEW x, Sound(x), x.seal = NoSeal,
         NEW v \in Seq(Cells), NEW w \in Seq(Cells), Len(w) = Len(v),
         err = "S_OK" \/ w = v
  PROVE  /\ WellDone(Gives(err, x, w), v)
         /\ Gives(err, x, w).err = err /\ Gives(err, x, w).extra = x
         /\ Gives(err, x, w).value = w
BY DEF WellDone, Gives

\* Property<T>: set() that succeeds leaves nothing in the buffer.
LEMMA ValueWellDone ==
  ASSUME NEW v \in Seq(Cells), NEW x, Sound(x), x.seal = NoSeal
  PROVE  /\ WellDone(GetValue(v, x), v) /\ GetValue(v, x).value = v
         /\ WellDone(SetValue(v, x), v)
         /\ SetValue(v, x).err = "S_OK" => SetValue(v, x).extra = Empty
<1>1. Len(v) \in Nat /\ Spare(Empty) = Capacity
  BY ExtraAssumption DEF Spare, Empty
<1>2. /\ "S_OK" \in ErrorCode /\ "E_INVALID_ARG" \in ErrorCode
      /\ "E_OUT_OF_BUFFER" \in ErrorCode /\ "S_OK" # "E_INVALID_ARG"
  BY DEF ErrorCode
<1>3. WellDone(GetValue(v, x), v) /\ GetValue(v, x).value = v
  <2>1. ASSUME CanAdd(Empty, v)
        PROVE  WellDone(Answer(v, v), v) /\ Answer(v, v).value = v
    BY <1>1, <2>1, AnswerWellDone DEF CanAdd
  <2>2. WellDone(Gives("E_OUT_OF_BUFFER", Empty, v), v)
        /\ Gives("E_OUT_OF_BUFFER", Empty, v).value = v
    BY <1>2, EmptySound, GivesWellDone
  <2>3. QED
    BY <2>1, <2>2 DEF GetValue
<1>4. WellDone(SetValue(v, x), v) /\ (SetValue(v, x).err = "S_OK" => SetValue(v, x).extra = Empty)
  <2>1. ASSUME CanGet(x, Len(v))
        PROVE  /\ WellDone(Gives("S_OK", Empty, Got(x, Len(v))), v)
               /\ Gives("S_OK", Empty, Got(x, Len(v))).extra = Empty
    BY <1>1, <1>2, <2>1, GetSound, EmptySound, GivesWellDone
  <2>2. WellDone(Gives("E_INVALID_ARG", x, v), v) /\ Gives("E_INVALID_ARG", x, v).err = "E_INVALID_ARG"
    BY <1>2, GivesWellDone
  <2>3. QED
    BY <1>2, <2>1, <2>2 DEF SetValue
<1>5. QED
  BY <1>3, <1>4

\* Memory<T>: no read and no write runs over the end of the value, and an answer
\* is never longer than a buffer.
LEMMA MemoryWellDone ==
  ASSUME NEW v \in Seq(Cells), NEW x, Sound(x), x.seal = NoSeal
  PROVE  /\ WellDone(GetMemory(v, x), v) /\ GetMemory(v, x).value = v
         /\ WellDone(SetMemory(v, x), v)
<1>1. /\ "S_OK" \in ErrorCode /\ "E_INVALID_ARG" \in ErrorCode
      /\ "E_OUT_OF_INDEX" \in ErrorCode /\ "E_OUT_OF_BUFFER" \in ErrorCode
  BY DEF ErrorCode
<1>2. Len(v) \in Nat /\ Spare(Empty) = Capacity
  BY ExtraAssumption DEF Spare, Empty
<1>3. ASSUME CanGet(x, 2)
      PROVE  /\ Offset(x) \in Nat /\ Size(x) \in Nat
             /\ Sound(Skip(x, 2)) /\ Skip(x, 2).seal = NoSeal
             /\ Remain(Skip(x, 2)) \in Nat
  <2>1. Got(x, 2)[1] \in Cells /\ Got(x, 2)[2] \in Cells
    BY <1>3, GetSound
  <2>2. Offset(x) \in Nat /\ Size(x) \in Nat
    BY <2>1, ExtraAssumption DEF Offset, Size, Cells
  <2>3. Sound(Skip(x, 2)) /\ Skip(x, 2).seal = NoSeal
    BY <1>3, GetSound
  <2>4. Remain(Skip(x, 2)) \in Nat
    BY <2>3 DEF Sound, Buffer, Remain
  <2>5. QED
    BY <2>2, <2>3, <2>4
<1>4. WellDone(Gives("E_INVALID_ARG", x, v), v) /\ Gives("E_INVALID_ARG", x, v).value = v
  BY <1>1, GivesWellDone
<1>5. ASSUME CanGet(x, 2)
      PROVE  /\ WellDone(Gives("E_OUT_OF_INDEX", Skip(x, 2), v), v)
             /\ Gives("E_OUT_OF_INDEX", Skip(x, 2), v).value = v
             /\ WellDone(Gives("E_INVALID_ARG", Skip(x, 2), v), v)
  BY <1>1, <1>3, <1>5, GivesWellDone
<1>6. WellDone(GetMemory(v, x), v) /\ GetMemory(v, x).value = v
  <2>1. ASSUME CanGet(x, 2), ~(Len(v) < Offset(x) + Size(x)), ~(Size(x) > Spare(Empty))
        PROVE  LET s == SubSeq(v, Offset(x) + 1, Offset(x) + Size(x))
               IN  WellDone(Answer(s, v), v) /\ Answer(s, v).value = v
    <3>1. SubSeq(v, Offset(x) + 1, Offset(x) + Size(x)) \in Seq(Cells)
          /\ Len(SubSeq(v, Offset(x) + 1, Offset(x) + Size(x))) = Size(x)
      BY <1>2, <1>3, <2>1
    <3>2. Size(x) <= Capacity
      BY <1>2, <1>3, <2>1, ExtraAssumption
    <3>3. QED
      BY <3>1, <3>2, AnswerWellDone
  <2>2. WellDone(Gives("E_OUT_OF_BUFFER", Empty, v), v)
        /\ Gives("E_OUT_OF_BUFFER", Empty, v).value = v
    BY <1>1, EmptySound, GivesWellDone
  <2>3. QED
    BY <1>4, <1>5, <2>1, <2>2 DEF GetMemory
<1>7. WellDone(SetMemory(v, x), v)
  <2>1. ASSUME CanGet(x, 2), Size(x) = Remain(Skip(x, 2))
        PROVE  WellDone(Gives("S_OK", Empty,
                              Overwritten(v, Offset(x), Got(Skip(x, 2), Size(x)))), v)
    <3>1. CanGet(Skip(x, 2), Size(x))
      BY <1>3, <2>1 DEF CanGet
    <3>2. \A k \in 1 .. Size(x) : Got(Skip(x, 2), Size(x))[k] \in Cells
      BY <1>3, <2>1, <3>1, GetSound
    <3>3. Len(Got(Skip(x, 2), Size(x))) = Size(x)
      BY <1>3, <2>1, <3>1, GetSound
    <3>4. Overwritten(v, Offset(x), Got(Skip(x, 2), Size(x))) \in Seq(Cells)
          /\ Len(Overwritten(v, Offset(x), Got(Skip(x, 2), Size(x)))) = Len(v)
      BY <1>2, <1>3, <2>1, <3>2, <3>3 DEF Overwritten
    <3>5. QED
      BY <1>1, <3>4, EmptySound, GivesWellDone
  <2>2. QED
    BY <1>4, <1>5, <2>1 DEF SetMemory
<1>8. QED
  BY <1>6, <1>7

\* Range<T>
LEMMA RangeWellDone ==
  ASSUME NEW absolute \in [1 .. 2 -> Cells], NEW v \in Seq(Cells), Len(v) = 2,
         NEW x, Sound(x), x.seal = NoSeal
  PROVE  /\ WellDone(GetRange(absolute, v, x), v) /\ GetRange(absolute, v, x).value = v
         /\ WellDone(SetRange(absolute, v, x), v)
<1>1. /\ "S_OK" \in ErrorCode /\ "E_INVALID_ARG" \in ErrorCode
      /\ "E_OVER_LOW_LIMIT" \in ErrorCode /\ "E_OVER_HIGH_LIMIT" \in ErrorCode
      /\ "E_READ_ONLY" \in ErrorCode /\ "E_NO_IMPLEMENT" \in ErrorCode
  BY DEF ErrorCode
<1>2. 2 <= Capacity
  BY ExtraAssumption
<1>3. absolute \in Seq(Cells) /\ Len(absolute) = 2
  <2>1. /\ [k \in 1 .. 2 |-> absolute[k]] \in Seq(Cells)
        /\ Len([k \in 1 .. 2 |-> absolute[k]]) = 2
    OBVIOUS
  <2>2. absolute = [k \in 1 .. 2 |-> absolute[k]]
    OBVIOUS
  <2>3. QED
    BY <2>1, <2>2
<1>4. WellDone(Gives("E_INVALID_ARG", x, v), v) /\ Gives("E_INVALID_ARG", x, v).value = v
  BY <1>1, GivesWellDone
<1>5. WellDone(GetRange(absolute, v, x), v) /\ GetRange(absolute, v, x).value = v
  <2>1. WellDone(Answer(v, v), v) /\ Answer(v, v).value = v
    BY <1>2, AnswerWellDone
  <2>2. WellDone(Answer(absolute, v), v) /\ Answer(absolute, v).value = v
    BY <1>2, <1>3, AnswerWellDone
  <2>3. WellDone(Gives("E_NO_IMPLEMENT", Empty, v), v)
        /\ Gives("E_NO_IMPLEMENT", Empty, v).value = v
    BY <1>1, EmptySound, GivesWellDone
  <2>4. QED
    BY <1>4, <2>1, <2>2, <2>3 DEF GetRange
<1>6. ASSUME NEW y, Sound(y), y.seal = NoSeal
      PROVE  WellDone(SetCurrent(absolute, v, y), v)
  <2>1. WellDone(Gives("E_INVALID_ARG", y, v), v)
    BY <1>1, <1>6, GivesWellDone
  <2>2. ASSUME CanGet(y, 2)
        PROVE  /\ WellDone(Gives("E_INVALID_ARG", Skip(y, 2), v), v)
               /\ WellDone(Gives("E_OVER_LOW_LIMIT", Skip(y, 2), v), v)
               /\ WellDone(Gives("E_OVER_HIGH_LIMIT", Skip(y, 2), v), v)
               /\ WellDone(Gives("S_OK", Empty, Got(y, 2)), v)
    <3>1. /\ Sound(Skip(y, 2)) /\ Skip(y, 2).seal = NoSeal
          /\ Got(y, 2) \in Seq(Cells) /\ Len(Got(y, 2)) = 2
      BY <1>6, <2>2, GetSound
    <3>2. QED
      BY <1>1, <3>1, EmptySound, GivesWellDone
  <2>3. QED
    BY <2>1, <2>2 DEF SetCurrent
<1>7. WellDone(SetRange(absolute, v, x), v)
  <2>1. ASSUME CanGet(x, 1)
        PROVE  Sound(Skip(x, 1)) /\ Skip(x, 1).seal = NoSeal
    BY <2>1, GetSound
  <2>2. ASSUME CanGet(x, 1)
        PROVE  /\ WellDone(SetCurrent(absolute, v, Skip(x, 1)), v)
               /\ WellDone(Gives("E_READ_ONLY", Skip(x, 1), v), v)
               /\ WellDone(NotImplemented(Skip(x, 1), v), v)
    BY <1>1, <1>6, <2>1, <2>2, GivesWellDone DEF NotImplemented
  <2>3. QED
    BY <1>4, <2>2 DEF SetRange
<1>8. QED
  BY <1>5, <1>7

\* PropertySymbols
LEMMA SymbolWellDone ==
  ASSUME NEW v \in Seq(Cells), NEW x, Sound(x), x.seal = NoSeal, NEW privileged \in BOOLEAN
  PROVE  WellDone(GetSymbol(v, x, privileged), v) /\ GetSymbol(v, x, privileged).value = v
<1>1. /\ "S_OK" \in ErrorCode /\ "E_INVALID_ARG" \in ErrorCode
      /\ "E_OUT_OF_INDEX" \in ErrorCode
      /\ \A access : CheckRead(access, privileged) \in ErrorCode
  BY DEF ErrorCode, CheckRead
<1>2. WellDone(Gives("E_INVALID_ARG", x, v), v) /\ Gives("E_INVALID_ARG", x, v).value = v
  BY <1>1, GivesWellDone
<1>3. ASSUME CanGet(x, 1), NEW err \in ErrorCode
      PROVE  WellDone(Gives(err, Skip(x, 1), v), v) /\ Gives(err, Skip(x, 1), v).value = v
  <2>1. Sound(Skip(x, 1)) /\ Skip(x, 1).seal = NoSeal
    BY <1>3, GetSound
  <2>2. QED
    BY <2>1, GivesWellDone
<1>4. ASSUME NEW id \in Ids
      PROVE  WellDone(Answer(<<Props[id].name>>, v), v) /\ Answer(<<Props[id].name>>, v).value = v
  <2>1. <<Props[id].name>> \in Seq(Cells) /\ Len(<<Props[id].name>>) = 1
    BY PropsAssumption
  <2>2. 1 <= Capacity
    BY ExtraAssumption
  <2>3. QED
    BY <2>1, <2>2, AnswerWellDone
<1>5. QED
  BY <1>1, <1>2, <1>3, <1>4 DEF GetSymbol

-----------------------------------------------------------------------------
(* The virtual methods *)

\* get() changes no value, whatever the property.
LEMMA GetWellDone ==
  ASSUME NEW id \in Ids, NEW v \in Seq(Cells), Props[id].kind = "range" => Len(v) = 2,
         NEW x, Sound(x), x.seal = NoSeal, NEW privileged \in BOOLEAN
  PROVE  /\ WellDone(Get(Props[id], v, x, privileged), v)
         /\ Get(Props[id], v, x, privileged).value = v
<1>1. Props[id].kind \in Kind /\ Props[id].absolute \in [1 .. 2 -> Cells]
  BY PropsAssumption
<1>2. WellDone(NotImplemented(x, v), v) /\ NotImplemented(x, v).value = v
  BY GivesWellDone DEF NotImplemented, ErrorCode
<1>3. CASE Props[id].kind = "symbols"
  BY <1>3, SymbolWellDone DEF Get
<1>4. CASE Props[id].kind = "value"
  BY <1>4, ValueWellDone DEF Get
<1>5. CASE Props[id].kind = "key"
  BY <1>2, <1>5 DEF Get
<1>6. CASE Props[id].kind = "memory"
  BY <1>6, MemoryWellDone DEF Get
<1>7. CASE Props[id].kind = "range"
  BY <1>1, <1>7, RangeWellDone DEF Get
<1>8. QED
  BY <1>1, <1>3, <1>4, <1>5, <1>6, <1>7 DEF Kind

\* set() keeps the length of the value; a key that was set leaves nothing in the
\* buffer.
LEMMA SetWellDone ==
  ASSUME NEW id \in Ids, NEW v \in Seq(Cells), Props[id].kind = "range" => Len(v) = 2,
         NEW x, Sound(x), x.seal = NoSeal
  PROVE  /\ WellDone(Set(Props[id], v, x), v)
         /\ Props[id].kind = "key" /\ Set(Props[id], v, x).err = "S_OK"
              => Set(Props[id], v, x).extra = Empty
<1>1. Props[id].kind \in Kind /\ Props[id].absolute \in [1 .. 2 -> Cells]
  BY PropsAssumption
<1>2. WellDone(NotImplemented(x, v), v)
  BY GivesWellDone DEF NotImplemented, ErrorCode
<1>3. CASE Props[id].kind = "symbols"
  BY <1>2, <1>3 DEF Set
<1>4. CASE Props[id].kind \in {"value", "key"}
  BY <1>4, ValueWellDone DEF Set
<1>5. CASE Props[id].kind = "memory"
  BY <1>5, MemoryWellDone DEF Set
<1>6. CASE Props[id].kind = "range"
  BY <1>1, <1>6, RangeWellDone DEF Set
<1>7. QED
  BY <1>1, <1>3, <1>4, <1>5, <1>6 DEF Kind

\* get_size() and get_access() answer with one cell.
LEMMA SizeAccessWellDone ==
  ASSUME NEW id \in Ids, NEW v \in Seq(Cells), Len(v) <= MaxCell, MaxCell >= 4
  PROVE  /\ WellDone(GetSize(Props[id], v), v) /\ GetSize(Props[id], v).value = v
         /\ WellDone(GetAccess(Props[id], v), v) /\ GetAccess(Props[id], v).value = v
<1>1. ASSUME NEW c \in Cells
      PROVE  WellDone(Answer(<<c>>, v), v) /\ Answer(<<c>>, v).value = v
  <2>1. <<c>> \in Seq(Cells) /\ Len(<<c>>) = 1 /\ 1 <= Capacity
    BY ExtraAssumption
  <2>2. QED
    BY <2>1, AnswerWellDone
<1>2. (IF Props[id].kind = "symbols" THEN N ELSE Len(v)) \in Cells
  BY PropsAssumption, ExtraAssumption DEF Cells
<1>3. AccessCode(Props[id].access) \in Cells
  <2>1. Props[id].access \in Access
    BY PropsAssumption
  <2>2. AccessCode(Props[id].access) \in 0 .. 4
    BY <2>1 DEF Access, AccessCode
  <2>3. QED
    BY <2>2, ExtraAssumption DEF Cells
<1>4. QED
  BY <1>1, <1>2, <1>3 DEF GetSize, GetAccess

-----------------------------------------------------------------------------
(* The limits of a range *)

Within(absolute, v) == absolute[1] <= v[1] /\ v[1] <= v[2] /\ v[2] <= absolute[2]

\* set() of a range of numbers that can all be compared keeps within the limits.
LEMMA SetKeepsWithin ==
  ASSUME NaN \notin Cells, NEW id \in Ids, Props[id].kind = "range",
         NEW v \in Seq(Cells), Len(v) = 2, Within(Props[id].absolute, v),
         NEW x, Sound(x)
  PROVE  Within(Props[id].absolute, Set(Props[id], v, x).value)
<1> DEFINE absolute == Props[id].absolute
<1>1. absolute \in [1 .. 2 -> Cells] /\ absolute[1] \in Cells /\ absolute[2] \in Cells
  BY PropsAssumption
<1>2. \A c, d \in Cells : c \in Int /\ (Below(c, d) <=> c < d)
  BY ExtraAssumption DEF Below, Cells
<1>3. \A err, y, w : Gives(err, y, w).value = w
  BY DEF Gives
<1>4. ASSUME NEW y, Sound(y), CanGet(y, 2),
             ~Below(Got(y, 2)[2], Got(y, 2)[1]), ~Below(Got(y, 2)[1], absolute[1]),
             ~Below(absolute[2], Got(y, 2)[2])
      PROVE  Within(absolute, Got(y, 2))
  <2>1. Got(y, 2)[1] \in Cells /\ Got(y, 2)[2] \in Cells
    BY <1>4, GetSound
  <2>2. QED
    BY <1>1, <1>2, <1>4, <2>1 DEF Within
<1>5. ASSUME NEW y, Sound(y)
      PROVE  Within(absolute, SetCurrent(absolute, v, y).value)
  BY <1>3, <1>4, <1>5 DEF SetCurrent
<1>6. CanGet(x, 1) => Sound(Skip(x, 1))
  BY GetSound
<1>7. Within(absolute, SetRange(absolute, v, x).value)
  BY <1>3, <1>5, <1>6 DEF SetRange, NotImplemented
<1>8. Set(Props[id], v, x) = SetRange(absolute, v, x)
  BY DEF Set
<1>9. QED
  BY <1>7, <1>8

-----------------------------------------------------------------------------
(* What every step needs *)

USE DEF ServerConstants

\* The part of TypeOK about the values, which every step needs.
Typed(vals) ==
  /\ vals \in [Ids -> Seq(Cells)]
  /\ \A id \in Ids : Len(vals[id]) = Len(InitValues[id])

Request(q) ==
  /\ q.cmd \in Command /\ q.seal \in Seal
  /\ q.data \in Seq(Cells) /\ Len(q.data) <= Capacity

\* The key and the nonce of typed values.
LEMMA SecretType ==
  ASSUME NEW vals, Typed(vals)
  PROVE  Secret(vals) \in Seal /\ Secret(vals) # NoSeal
<1>1. vals[KeyId][1] \in Cells /\ vals[NonceId][1] \in Cells
  BY ServerAssumption DEF Typed
<1>2. QED
  BY <1>1, ExtraAssumption DEF Secret, Seal

\* What poll() reads a request from is a plain buffer; a request that could not
\* be opened leaves it empty.
LEMMA OpenedSound ==
  ASSUME NEW vals, NEW q, Request(q)
  PROVE  /\ Sound(Opened(vals, q)) /\ Opened(vals, q).seal = NoSeal
         /\ Opened(vals, q).data = 0
         /\ Legible(vals, q) => Opened(vals, q).cells = q.data
         /\ ~Legible(vals, q) => Opened(vals, q) = Empty
<1>1. /\ Sound(Received(q)) /\ Received(q).data = 0 /\ Received(q).cells = q.data
  BY ExtraAssumption DEF Request, Received, Sound, Buffer, Seal
<1>2. CASE ~Encrypted(q)
  BY <1>1, <1>2 DEF Encrypted, Opened, Legible
<1>3. CASE Encrypted(q) /\ Opens(Received(q), Secret(vals))
  BY <1>1, <1>3 DEF Opened, Decrypt, Legible, Sound, Buffer, Seal
<1>4. CASE Encrypted(q) /\ ~Opens(Received(q), Secret(vals))
  BY <1>4, EmptySound DEF Opened, Decrypt, Legible, Empty
<1>5. QED
  BY <1>2, <1>3, <1>4

\* A request that passes _acquire_and_verify() names a property.
LEMMA VerifiedNames ==
  ASSUME NEW vals, NEW q, Request(q), Verify(vals, q) = "S_OK"
  PROVE  /\ Got(Opened(vals, q), 1)[1] \in Ids
         /\ CanGet(Opened(vals, q), 1)
         /\ Sound(Skip(Opened(vals, q), 1)) /\ Skip(Opened(vals, q), 1).seal = NoSeal
<1>1. CanGet(Opened(vals, q), 1) /\ Got(Opened(vals, q), 1)[1] \in Ids
  BY DEF Verify
<1>2. QED
  BY <1>1, OpenedSound, GetSound

LEMMA VerifyType == ASSUME NEW vals, NEW q PROVE Verify(vals, q) \in ErrorCode
BY DEF Verify, CheckRead, CheckWrite, ErrorCode

\* The method of the property changes at most that property's value, and only
\* when the request is a SET_PROPERTY that succeeds.
LEMMA MethodWellDone ==
  ASSUME NEW vals, Typed(vals), NEW q, Request(q), Verify(vals, q) = "S_OK",
         q.cmd \in PropertyCommand,
         NEW id \in Ids, id = Got(Opened(vals, q), 1)[1]
  PROVE  /\ WellDone(Method(vals, q), vals[id])
         /\ Method(vals, q).value # vals[id] =>
              q.cmd = "SET_PROPERTY" /\ Method(vals, q).err = "S_OK"
         /\ Props[id].kind = "key" /\ Method(vals, q).value # vals[id]
              => Method(vals, q).extra = Empty
<1> DEFINE rest == Skip(Opened(vals, q), 1)
<1>1. /\ vals[id] \in Seq(Cells) /\ Len(vals[id]) <= MaxCell /\ MaxCell >= 4
      /\ Props[id].kind = "range" => Len(vals[id]) = 2
  BY ServerAssumption DEF Typed
<1>2. Sound(rest) /\ rest.seal = NoSeal /\ Encrypted(q) \in BOOLEAN
  BY VerifiedNames DEF Encrypted
<1>3. CASE q.cmd = "GET_PROPERTY"
  <2>1. Method(vals, q) = Get(Props[id], vals[id], rest, Encrypted(q))
    BY <1>3 DEF Method
  <2>2. QED
    BY <1>1, <1>2, <2>1, GetWellDone
<1>4. CASE q.cmd = "SET_PROPERTY"
  <2>1. Method(vals, q) = Set(Props[id], vals[id], rest)
    BY <1>4 DEF Method
  <2>2. QED
    BY <1>1, <1>2, <1>4, <2>1, SetWellDone DEF WellDone
<1>5. CASE q.cmd = "GET_SIZE"
  <2>1. Method(vals, q) = GetSize(Props[id], vals[id])
    BY <1>5 DEF Method
  <2>2. QED
    BY <1>1, <2>1, SizeAccessWellDone
<1>6. CASE q.cmd = "GET_ACCESS"
  <2>1. Method(vals, q) = GetAccess(Props[id], vals[id])
    BY <1>6 DEF Method
  <2>2. QED
    BY <1>1, <2>1, SizeAccessWellDone
<1>7. QED
  BY <1>3, <1>4, <1>5, <1>6 DEF PropertyCommand

-----------------------------------------------------------------------------
(* The switch of poll() *)

\* How an outcome may differ from what was: a legible SET_PROPERTY that succeeds
\* changes the property it names, as far as it may be written; the nonce stays, and
\* when the key changes nothing is left to send.
Lawful(o, vals, q) ==
  /\ o.err \in ErrorCode /\ Sound(o.extra) /\ o.extra.seal = NoSeal
  /\ Typed(o.values)
  /\ \A id \in Ids : o.values[id] # vals[id] =>
       /\ q.cmd = "SET_PROPERTY" /\ Legible(vals, q) /\ o.err = "S_OK"
       /\ q.data # << >> /\ q.data[1] = id
       /\ MayWrite(Props[id].access, Encrypted(q))
  /\ o.values[NonceId] = vals[NonceId]
  /\ o.values[KeyId] # vals[KeyId] => o.extra = Empty

\* An outcome that leaves the values alone.
LEMMA OutcomeLawful ==
  ASSUME NEW vals, Typed(vals), NEW q, NEW err \in ErrorCode, NEW x, Sound(x),
         x.seal = NoSeal, NEW served \in BOOLEAN
  PROVE  Lawful(Outcome(err, x, vals, served), vals, q)
BY DEF Lawful, Outcome

LEMMA RefusedLawful ==
  ASSUME NEW vals, Typed(vals), NEW q, Request(q)
  PROVE  Lawful(Refused(vals, q), vals, q)
<1> DEFINE x == Opened(vals, q)
<1>1. Sound(x) /\ x.seal = NoSeal
  BY OpenedSound
<1>2. CanGet(x, 1) => Sound(Skip(x, 1)) /\ Skip(x, 1).seal = NoSeal
  BY <1>1, GetSound
<1>3. Verify(vals, q) \in ErrorCode
  BY VerifyType
<1>4. QED
  BY <1>1, <1>2, <1>3, OutcomeLawful DEF Refused

LEMMA PerformedLawful ==
  ASSUME NEW vals, Typed(vals), NEW q, Request(q), Legible(vals, q),
         q.cmd \in PropertyCommand, Verify(vals, q) = "S_OK"
  PROVE  Lawful(Performed(vals, q), vals, q)
<1> DEFINE r == Method(vals, q)
           id == Got(Opened(vals, q), 1)[1]
<1>1. id \in Ids /\ CanGet(Opened(vals, q), 1)
  BY VerifiedNames
<1>2. q.data # << >> /\ q.data[1] = id
  <2>1. Opened(vals, q).cells = q.data /\ Opened(vals, q).data = 0 /\ Sound(Opened(vals, q))
    BY OpenedSound
  <2>2. Got(Opened(vals, q), 1)[1] = q.data[1] /\ Len(q.data) >= 1
    BY <1>1, <2>1, GetSound DEF CanGet, Remain, Request
  <2>3. QED
    BY <2>2 DEF Request
<1>3. /\ WellDone(r, vals[id])
      /\ r.value # vals[id] => q.cmd = "SET_PROPERTY" /\ r.err = "S_OK"
      /\ Props[id].kind = "key" /\ r.value # vals[id] => r.extra = Empty
  <2> HIDE DEF r
  <2>1. QED
    BY <1>1, MethodWellDone DEF r
<1> HIDE DEF r, id
<1>4. /\ Performed(vals, q).err = r.err /\ Performed(vals, q).extra = r.extra
      /\ Performed(vals, q).values = [vals EXCEPT ![id] = r.value]
  BY DEF Performed, Outcome, r, id
<1>5. q.cmd = "SET_PROPERTY" => MayWrite(Props[id].access, Encrypted(q))
  <2>1. q.cmd = "SET_PROPERTY" => CheckWrite(Props[id].access, Encrypted(q)) = "S_OK"
    BY <1>1 DEF Verify, id
  <2>2. Props[id].access \in Access
    BY <1>1, PropsAssumption
  <2>3. QED
    BY <2>1, <2>2 DEF CheckWrite, MayWrite, Access
<1>6. q.cmd = "SET_PROPERTY" => id # NonceId
  <2>1. ~MayWrite("READ", Encrypted(q))
    BY DEF MayWrite
  <2>2. QED
    BY <1>5, <2>1, ServerAssumption
<1>7. Typed([vals EXCEPT ![id] = r.value])
  BY <1>1, <1>3 DEF Typed, WellDone
<1>8. \A i \in Ids : [vals EXCEPT ![id] = r.value][i] # vals[i] => i = id /\ r.value # vals[id]
  BY <1>1 DEF Typed
<1>9. [vals EXCEPT ![id] = r.value][NonceId] = vals[NonceId]
  BY <1>3, <1>6, <1>8, ServerAssumption
<1>10. [vals EXCEPT ![id] = r.value][KeyId] # vals[KeyId] => r.extra = Empty
  BY <1>3, <1>8, ServerAssumption
<1>11. QED
  BY <1>2, <1>3, <1>4, <1>5, <1>7, <1>8, <1>9, <1>10 DEF Lawful, WellDone

\* Whatever the request, what poll() makes of it is lawful.
LEMMA ServeLawful ==
  ASSUME NEW vals, Typed(vals), NEW q, Request(q)
  PROVE  Lawful(Serve(vals, q), vals, q)
<1> DEFINE x == Opened(vals, q)
<1>1. Sound(x) /\ x.seal = NoSeal /\ Sound(ReadAll(x)) /\ ReadAll(x).seal = NoSeal
  BY OpenedSound, ReadAllSound
<1>2. "S_OK" \in ErrorCode /\ "E_INVALID_ARG" \in ErrorCode /\ "E_NO_IMPLEMENT" \in ErrorCode
  BY DEF ErrorCode
<1>3. CASE ~Legible(vals, q)
  BY <1>1, <1>2, <1>3, OutcomeLawful DEF Serve, Rejected
<1>4. CASE Legible(vals, q) /\ q.cmd = "ECHO"
  <2>1. Serve(vals, q) = Echoed(vals, q)
    BY <1>4 DEF Serve, PropertyCommand
  <2>2. QED
    BY <1>1, <1>2, <2>1, OutcomeLawful DEF Echoed
<1>5. CASE Legible(vals, q) /\ q.cmd \in PropertyCommand /\ Verify(vals, q) # "S_OK"
  <2>1. Serve(vals, q) = Refused(vals, q)
    BY <1>5 DEF Serve, PropertyCommand
  <2>2. QED
    BY <2>1, RefusedLawful
<1>6. CASE Legible(vals, q) /\ q.cmd \in PropertyCommand /\ Verify(vals, q) = "S_OK"
  <2>1. Serve(vals, q) = Performed(vals, q)
    BY <1>6 DEF Serve, PropertyCommand
  <2>2. QED
    BY <1>6, <2>1, PerformedLawful
<1>7. CASE Legible(vals, q) /\ q.cmd \in {"LOG", "other"}
  <2>1. Serve(vals, q) = Unknown(vals, q)
    BY <1>7 DEF Serve, PropertyCommand
  <2>2. QED
    BY <1>1, <1>2, <2>1, OutcomeLawful DEF Unknown
<1>8. QED
  BY <1>3, <1>4, <1>5, <1>6, <1>7 DEF Request, Command

-----------------------------------------------------------------------------
(* The answer *)

\* The answer is a frame that fits a buffer; if it is encrypted, it is under the key
\* and nonce the request was opened with.
LEMMA AnsweredFrame ==
  ASSUME NEW vals, Typed(vals), NEW q, Request(q)
  PROVE  /\ Answered(vals, q) \in Frame /\ Len(Answered(vals, q).data) <= Capacity
         /\ Answered(vals, q).err = Serve(vals, q).err
         /\ Answered(vals, q).seal # NoSeal => Answered(vals, q).seal = q.seal
<1> DEFINE o == Serve(vals, q)
           y == Truncate(o.extra)
           encrypt == Encrypted(q) /\ Legible(vals, q)
           z == IF encrypt THEN Encrypt(y, Secret(o.values)) ELSE y
<1>1. Lawful(o, vals, q)
  BY ServeLawful
<1>2. Sound(y) /\ y.seal = NoSeal /\ Len(y.cells) = o.extra.data
  BY <1>1, TruncateSound DEF Lawful
<1>3. Secret(o.values) \in Seal
  BY <1>1, SecretType DEF Lawful
<1>4. /\ Sound(z) /\ z.seal \in Seal
      /\ z.seal # NoSeal => encrypt /\ y.cells # << >> /\ z.seal = Secret(o.values)
  BY <1>2, <1>3, EncryptSound DEF Sound, Buffer
<1>5. ASSUME y.cells # << >> PROVE Secret(o.values) = Secret(vals)
  <2>1. o.extra # Empty
    BY <1>2, <1>5 DEF Empty, Sound, Buffer
  <2>2. o.values[KeyId] = vals[KeyId] /\ o.values[NonceId] = vals[NonceId]
    BY <1>1, <2>1 DEF Lawful
  <2>3. QED
    BY <2>2 DEF Secret
<1>6. encrypt => q.seal = Secret(vals)
  BY DEF Encrypted, Legible, Opens, Received
<1>7. Answered(vals, q) = [cmd |-> q.cmd, err |-> o.err, data |-> z.cells, seal |-> z.seal]
  BY DEF Answered, Sent
<1>8. o.err \in ErrorCode /\ q.cmd \in Command /\ z.cells \in Seq(Cells) /\ Len(z.cells) <= Capacity
  BY <1>1, <1>4 DEF Lawful, Request, Sound, Buffer
<1> HIDE DEF o, y, z, encrypt
<1>9. QED
  BY <1>4, <1>5, <1>6, <1>7, <1>8 DEF Frame, o

-----------------------------------------------------------------------------
(* The steps *)

IInv == TypeOK /\ ReplyOpens

LEMMA InitIInv == Init => IInv
<1> SUFFICES ASSUME Init PROVE IInv
  OBVIOUS
<1>1. /\ values \in [Ids -> Seq(Cells)]
      /\ \A id \in Ids : Len(values[id]) = Len(InitValues[id])
  BY ServerAssumption DEF Init
<1>2. Len(reply.data) <= Capacity /\ reply.seal = NoSeal
  BY ExtraAssumption DEF Init, NoReply
<1>3. QED
  BY <1>1, <1>2 DEF Init, IInv, TypeOK, ReplyOpens

\* A turn of poll(): the values are those of the outcome, but for the nonce.
LEMMA PollTyped ==
  ASSUME Typed(values), NEW q, Request(q), Poll(q)
  PROVE  /\ Lawful(Serve(values, q), values, q)
         /\ Typed(values') /\ renewed' \in BOOLEAN
         /\ \A id \in Ids : values'[id] # Serve(values, q).values[id] =>
              id = NonceId /\ renewed'
<1> DEFINE o == Serve(values, q)
<1>1. Lawful(o, values, q)
  BY ServeLawful
<1>2. Typed(o.values)
  BY <1>1 DEF Lawful
<1> HIDE DEF o
<1>3. Renew(o, q)
  BY DEF Poll, o
<1>4. CASE /\ renewed' = TRUE
           /\ \E n \in Nonces : values' = [o.values EXCEPT ![NonceId] = <<n>>]
  <2>1. PICK n \in Nonces : values' = [o.values EXCEPT ![NonceId] = <<n>>]
    BY <1>4
  <2>2. <<n>> \in Seq(Cells) /\ Len(<<n>>) = 1
    BY ServerAssumption
  <2>3. Typed(values')
    BY <1>2, <2>1, <2>2, ServerAssumption DEF Typed
  <2>4. \A id \in Ids : values'[id] # o.values[id] => id = NonceId
    BY <1>2, <2>1 DEF Typed
  <2>5. QED
    BY <1>1, <1>4, <2>3, <2>4 DEF o
<1>5. CASE renewed' = FALSE /\ values' = o.values
  BY <1>1, <1>2, <1>5 DEF o
<1>6. QED
  BY <1>3, <1>4, <1>5 DEF Renew

LEMMA PollValues ==
  ASSUME TypeOK, NEW q \in Requests, Poll(q)
  PROVE  /\ Request(q) /\ Typed(values) /\ Lawful(Serve(values, q), values, q)
         /\ Typed(values') /\ renewed' \in BOOLEAN
         /\ \A id \in Ids : values'[id] # Serve(values, q).values[id] =>
              id = NonceId /\ renewed'
<1>1. Request(q)
  BY ServerAssumption DEF Request
<1>2. Typed(values)
  BY DEF TypeOK, Typed
<1>3. QED
  BY <1>1, <1>2, PollTyped

LEMMA NextIInv == IInv /\ [Next]_vars => IInv'
<1> SUFFICES ASSUME IInv, [Next]_vars PROVE IInv'
  OBVIOUS
<1> USE DEF IInv
<1>1. ASSUME NEW q \in Requests, Poll(q) PROVE IInv'
  <2>1. Request(q) /\ Typed(values) /\ Typed(values') /\ renewed' \in BOOLEAN
    BY <1>1, PollValues
  <2>2. request' = q /\ reply' = Answered(values, q)
    BY <1>1 DEF Poll
  <2>3. TypeOK'
    BY <2>1, <2>2, AnsweredFrame DEF TypeOK, Typed
  <2>4. ReplyOpens'
    BY <2>1, <2>2, AnsweredFrame DEF ReplyOpens
  <2>5. QED
    BY <2>3, <2>4
<1>2. CASE Return
  <2>1. Len(NoReply.data) <= Capacity /\ NoReply.seal = NoSeal
    BY ExtraAssumption DEF NoReply
  <2>2. QED
    BY <1>2, <2>1 DEF Return, TypeOK, ReplyOpens
<1>3. CASE UNCHANGED vars
  BY <1>3 DEF vars, TypeOK, ReplyOpens
<1>4. QED
  BY <1>1, <1>2, <1>3 DEF Next

\* The properties keep their lengths and no answer is longer than a buffer.
THEOREM TypeCorrect == Spec => []TypeOK
BY InitIInv, NextIInv, PTL DEF Spec, IInv

\* The client that encrypted a request can open the answer, also when the request
\* changed the key.
THEOREM RepliesOpen == Spec => []ReplyOpens
BY InitIInv, NextIInv, PTL DEF Spec, IInv

\* Every change of a property is one the access table grants.
Granted ==
  \A id \in Ids : values'[id] # values[id] =>
    \/ id = NonceId /\ renewed'
    \/ /\ request'.cmd = "SET_PROPERTY" /\ reply'.err = "S_OK"
       /\ request'.data[1] = id
       /\ MayWrite(Props[id].access, Genuine(request'))

LEMMA NextGranted == TypeOK /\ [Next]_vars => [Granted]_vars
<1> SUFFICES ASSUME TypeOK, Next PROVE Granted
  OBVIOUS
<1>1. ASSUME NEW q \in Requests, Poll(q) PROVE Granted
  <2> DEFINE o == Serve(values, q)
  <2>1. /\ Request(q) /\ Typed(values) /\ Lawful(o, values, q)
        /\ \A id \in Ids : values'[id] # o.values[id] => id = NonceId /\ renewed'
    BY <1>1, PollValues
  <2>2. request' = q /\ reply'.err = o.err
    BY <1>1, <2>1, AnsweredFrame DEF Poll
  <2>3. Legible(values, q) /\ Encrypted(q) => Genuine(q)
    BY DEF Legible, Encrypted, Opens, Received, Genuine
  <2> HIDE DEF o
  <2>4. ASSUME NEW id \in Ids, values'[id] # values[id], ~(id = NonceId /\ renewed')
        PROVE  /\ q.cmd = "SET_PROPERTY" /\ o.err = "S_OK" /\ q.data[1] = id
               /\ MayWrite(Props[id].access, Genuine(q))
    <3>1. o.values[id] # values[id]
      BY <2>1, <2>4
    <3>2. /\ q.cmd = "SET_PROPERTY" /\ o.err = "S_OK" /\ q.data[1] = id
          /\ Legible(values, q) /\ MayWrite(Props[id].access, Encrypted(q))
      BY <2>1, <3>1 DEF Lawful
    <3>3. QED
      BY <2>3, <3>2 DEF MayWrite
  <2>5. QED
    BY <2>2, <2>4 DEF Granted
<1>2. CASE Return
  BY <1>2 DEF Return, Granted
<1>3. QED
  BY <1>1, <1>2 DEF Next

\* The table of Types.hpp holds of the server: no request and no sequence of requests
\* changes a property its sender may not write.
THEOREM AccessAlwaysRespected == Spec => AccessRespected
<1>1. Spec => [][Granted]_vars
  BY InitIInv, NextIInv, NextGranted, PTL DEF Spec, IInv
<1>2. QED
  BY <1>1 DEF Granted, AccessRespected

-----------------------------------------------------------------------------
(* Ranges *)

\* A property that a request changes takes the value set() gives it.
LEMMA ServedValue ==
  ASSUME NEW vals, Typed(vals), NEW q, Request(q), NEW id \in Ids,
         Serve(vals, q).values[id] # vals[id]
  PROVE  /\ Sound(Skip(Opened(vals, q), 1))
         /\ Serve(vals, q).values[id] = Set(Props[id], vals[id], Skip(Opened(vals, q), 1)).value
<1>1. q.cmd = "SET_PROPERTY" /\ Legible(vals, q)
  BY ServeLawful DEF Lawful
<1>2. Verify(vals, q) = "S_OK"
  BY <1>1 DEF Serve, Refused, Outcome, PropertyCommand
<1>3. Serve(vals, q) = Performed(vals, q)
  BY <1>1, <1>2 DEF Serve, PropertyCommand
<1>4. Method(vals, q) = Set(Props[Got(Opened(vals, q), 1)[1]],
                            vals[Got(Opened(vals, q), 1)[1]], Skip(Opened(vals, q), 1))
  BY <1>1 DEF Method
<1>5. Got(Opened(vals, q), 1)[1] \in Ids /\ Sound(Skip(Opened(vals, q), 1))
  BY <1>2, VerifiedNames
<1>6. Serve(vals, q).values =
        [vals EXCEPT ![Got(Opened(vals, q), 1)[1]] = Method(vals, q).value]
  BY <1>3 DEF Performed, Outcome
<1>7. id = Got(Opened(vals, q), 1)[1]
  BY <1>5, <1>6 DEF Typed
<1>8. QED
  BY <1>4, <1>5, <1>6, <1>7 DEF Typed

LEMMA NextRanges ==
  ASSUME NaN \notin Cells
  PROVE  TypeOK /\ RangesWithinAbsolute /\ [Next]_vars => RangesWithinAbsolute'
<1> SUFFICES ASSUME TypeOK, RangesWithinAbsolute, [Next]_vars,
                    NEW id \in Ids, Props[id].kind = "range"
             PROVE  Within(Props[id].absolute, values'[id])
  BY DEF RangesWithinAbsolute, Within
<1>1. Within(Props[id].absolute, values[id])
  BY DEF RangesWithinAbsolute, Within
<1>2. values[id] \in Seq(Cells) /\ Len(values[id]) = 2
  BY ServerAssumption DEF TypeOK
<1>3. ASSUME NEW q \in Requests, Poll(q) PROVE Within(Props[id].absolute, values'[id])
  <2>1. Request(q) /\ Typed(values)
    BY <1>3, PollValues
  <2>2. values'[id] = Serve(values, q).values[id]
    BY <1>3, PollValues, ServerAssumption
  <2>3. CASE Serve(values, q).values[id] = values[id]
    BY <1>1, <2>2, <2>3
  <2>4. CASE Serve(values, q).values[id] # values[id]
    BY <1>1, <1>2, <2>1, <2>2, <2>4, ServedValue, SetKeepsWithin
  <2>5. QED
    BY <2>3, <2>4
<1>4. CASE UNCHANGED values
  BY <1>1, <1>4
<1>5. QED
  BY <1>3, <1>4 DEF Next, Return, vars

\* Where the numbers of a range can be compared, the range stays within its limits:
\* the NaN of a floating-point range is the only way out.
THEOREM RangesAlwaysWithin ==
  ASSUME NaN \notin Cells,
         \A id \in Ids : Props[id].kind = "range" => Within(Props[id].absolute, InitValues[id])
  PROVE  Spec => []RangesWithinAbsolute
<1>1. Init => RangesWithinAbsolute
  BY DEF Init, RangesWithinAbsolute, Within
<1>2. QED
  BY <1>1, InitIInv, NextIInv, NextRanges, PTL DEF Spec, IInv

-----------------------------------------------------------------------------
(* What a plain client is told *)

\* Two tables of values that agree wherever a plain client may read.
Alike(vals, others) == \A id \in Ids : MayRead(Props[id].access, FALSE) => vals[id] = others[id]

LEMMA PlainAlike ==
  ASSUME NEW vals, NEW others, Alike(vals, others), NEW q, Request(q), Plain(q)
  PROVE  Answered(vals, q) = Answered(others, q)
<1>1. Encrypted(q) = FALSE
  BY DEF Plain, Encrypted, Received
<1>2. /\ Legible(vals, q) /\ Legible(others, q)
      /\ Opened(vals, q) = Received(q) /\ Opened(others, q) = Received(q)
  BY <1>1 DEF Legible, Opened
<1>3. Verify(vals, q) = Verify(others, q)
  BY <1>2 DEF Verify
<1>4. ASSUME q.cmd \in PropertyCommand, Verify(vals, q) = "S_OK"
      PROVE  Method(vals, q) = Method(others, q)
  <2> DEFINE id == Got(Received(q), 1)[1]
  <2>1. id \in Ids /\ CanGet(Received(q), 1)
    BY <1>2, <1>4, VerifiedNames
  <2> HIDE DEF id
  <2>2. Props[id].access \in Access
    BY <2>1, PropsAssumption
  <2>3. CASE q.cmd = "SET_PROPERTY"
    <3>1. CheckWrite(Props[id].access, FALSE) = "S_OK"
      BY <1>1, <1>2, <1>4, <2>1, <2>3 DEF Verify, id
    <3>2. vals[id] = others[id]
      BY <2>1, <2>2, <3>1 DEF CheckWrite, MayRead, Access, Alike
    <3>3. QED
      BY <1>2, <3>2 DEF Method, id
  <2>4. CASE q.cmd # "SET_PROPERTY"
    <3>1. CheckRead(Props[id].access, FALSE) = "S_OK"
      BY <1>1, <1>2, <1>4, <2>1, <2>4 DEF Verify, id
    <3>2. vals[id] = others[id]
      BY <2>1, <2>2, <3>1 DEF CheckRead, MayRead, Access, Alike
    <3>3. QED
      BY <1>2, <3>2 DEF Method, id
  <2>5. QED
    BY <2>3, <2>4
<1>5. /\ Serve(vals, q).err = Serve(others, q).err
      /\ Serve(vals, q).extra = Serve(others, q).extra
  <2>1. CASE q.cmd = "ECHO"
    BY <1>2, <2>1 DEF Serve, Echoed, Outcome, PropertyCommand
  <2>2. CASE q.cmd \in PropertyCommand /\ Verify(vals, q) # "S_OK"
    BY <1>2, <1>3, <2>2 DEF Serve, Refused, Outcome, PropertyCommand
  <2>3. CASE q.cmd \in PropertyCommand /\ Verify(vals, q) = "S_OK"
    <3>1. Serve(vals, q) = Performed(vals, q) /\ Serve(others, q) = Performed(others, q)
      BY <1>2, <1>3, <2>3 DEF Serve, PropertyCommand
    <3>2. Method(vals, q) = Method(others, q)
      BY <1>4, <2>3
    <3>3. QED
      BY <3>1, <3>2 DEF Performed, Outcome
  <2>4. CASE q.cmd \in {"LOG", "other"}
    BY <1>2, <2>4 DEF Serve, Unknown, Outcome, PropertyCommand
  <2>5. QED
    BY <2>1, <2>2, <2>3, <2>4 DEF Request, Command
<1>6. QED
  BY <1>1, <1>5 DEF Answered, Sent

\* One step of PlainAnswersIndependent.
Independent ==
  request' # NoRequest /\ Plain(request') =>
    \A c \in Cells : reply' = Answered(Masked(c), request')

LEMMA NextIndependent == TypeOK /\ [Next]_vars => [Independent]_vars
<1> SUFFICES ASSUME TypeOK, Next PROVE Independent
  OBVIOUS
<1>1. ASSUME NEW q \in Requests, Poll(q), Plain(q), NEW c \in Cells
      PROVE  Answered(values, q) = Answered(Masked(c), q)
  <2>1. Alike(values, Masked(c))
    BY DEF Alike, Masked
  <2>2. Request(q)
    BY <1>1, PollValues
  <2>3. QED
    BY <1>1, <2>1, <2>2, PlainAlike
<1>2. ASSUME NEW q \in Requests, Poll(q) PROVE Independent
  BY <1>1, <1>2 DEF Poll, Independent
<1>3. CASE Return
  BY <1>3 DEF Return, Independent
<1>4. QED
  BY <1>2, <1>3 DEF Next

\* No plain request, whatever came before it, is answered with anything that depends
\* on a property a plain client may not read.
THEOREM PlainAnswersAlwaysIndependent == Spec => PlainAnswersIndependent
<1>1. Spec => [][Independent]_vars
  BY InitIInv, NextIInv, NextIndependent, PTL DEF Spec, IInv
<1>2. QED
  BY <1>1 DEF Independent, PlainAnswersIndependent
-----------------------------------------------------------------------------
(* What a client is told: the answers to its requests and what they leave behind *)

\* A request for a property that is answered with S_OK names one; what follows the id
\* is what the method of the property gets to read.
Rest(q) == [cells |-> q.data, data |-> 1, seal |-> NoSeal]

MethodServed(vals, q, id) ==
  /\ q.data # << >> /\ id = q.data[1] /\ id \in Ids
  /\ Method(vals, q).err = "S_OK"
  /\ Serve(vals, q).extra = Method(vals, q).extra
  /\ Serve(vals, q).values = [vals EXCEPT ![id] = Method(vals, q).value]
  /\ Got(Opened(vals, q), 1)[1] = id /\ Skip(Opened(vals, q), 1) = Rest(q)
  /\ Sound(Rest(q)) /\ Rest(q).seal = NoSeal

LEMMA ServedMethod ==
  ASSUME NEW vals, Typed(vals), NEW q, Request(q), q.cmd \in PropertyCommand,
         Answered(vals, q).err = "S_OK"
  PROVE  MethodServed(vals, q, q.data[1])
<1> DEFINE x == Opened(vals, q)
<1>1. Serve(vals, q).err = "S_OK"
  BY AnsweredFrame
<1>2. Legible(vals, q)
  BY <1>1 DEF Serve, Rejected, Outcome
<1>3. Verify(vals, q) = "S_OK"
  BY <1>1, <1>2 DEF Serve, Refused, Outcome, PropertyCommand
<1>4. Serve(vals, q) = Performed(vals, q)
  BY <1>2, <1>3 DEF Serve, PropertyCommand
<1>5. /\ Got(x, 1)[1] \in Ids /\ CanGet(x, 1) /\ Sound(Skip(x, 1)) /\ Skip(x, 1).seal = NoSeal
      /\ Sound(x) /\ x.seal = NoSeal /\ x.data = 0 /\ x.cells = q.data
  BY <1>2, <1>3, VerifiedNames, OpenedSound
<1> HIDE DEF x
<1>6. Got(x, 1)[1] = q.data[1] /\ q.data # << >>
  <2>1. Got(x, 1)[1] = x.cells[x.data + 1]
    BY <1>5, GetSound
  <2>2. Len(q.data) >= 1
    BY <1>5 DEF CanGet, Remain, Request
  <2>3. QED
    BY <1>5, <2>1, <2>2
<1>7. Skip(x, 1) = Rest(q)
  BY <1>5 DEF Skip, Rest
<1>8. /\ Method(vals, q).err = "S_OK" /\ Serve(vals, q).extra = Method(vals, q).extra
      /\ Serve(vals, q).values = [vals EXCEPT ![Got(x, 1)[1]] = Method(vals, q).value]
  BY <1>1, <1>4 DEF Performed, Outcome, x
<1>9. QED
  BY <1>5, <1>6, <1>7, <1>8 DEF MethodServed, x

\* What a method put into the buffer is what the client gets.
LEMMA AnswerTold ==
  ASSUME NEW vals, NEW q, NEW s \in Seq(Cells), Len(s) <= Capacity,
         Serve(vals, q).extra = Added(Empty, s)
  PROVE  Answered(vals, q).data = s
<1>1. Added(Empty, s) = [cells |-> s, data |-> Len(s), seal |-> NoSeal]
  <2>1. SubSeq(<< >>, 1, 0) = << >> /\ SubSeq(<< >>, 0 + Len(s) + 1, 0) = << >>
    OBVIOUS
  <2>2. << >> \o s \o << >> = s
    OBVIOUS
  <2>3. QED
    BY <2>1, <2>2 DEF Added, Empty
<1>2. SubSeq(s, 1, Len(s)) = s
  OBVIOUS
<1>3. Truncate(Serve(vals, q).extra).cells = s
  BY <1>1, <1>2 DEF Truncate
<1>4. \A y, seal : Encrypt(y, seal).cells = y.cells
  BY DEF Encrypt
<1>5. QED
  BY <1>3, <1>4 DEF Answered, Sent

\* A plain request is answered plainly.
LEMMA PlainTold ==
  ASSUME NEW vals, Typed(vals), NEW q, Request(q), Plain(q)
  PROVE  Answered(vals, q).seal = NoSeal /\ Encrypted(q) = FALSE
<1>1. Encrypted(q) = FALSE
  BY DEF Plain, Encrypted, Received
<1>2. Truncate(Serve(vals, q).extra).seal = NoSeal
  BY ServeLawful DEF Lawful, Truncate
<1>3. QED
  BY <1>1, <1>2 DEF Answered, Sent

\* GET_PROPERTY of a value or a range.
LEMMA ValueTold ==
  ASSUME NEW vals, Typed(vals), NEW q, Request(q), q.cmd = "GET_PROPERTY",
         Answered(vals, q).err = "S_OK", Props[q.data[1]].kind = "value"
  PROVE  q.data[1] \in Ids /\ Answered(vals, q).data = vals[q.data[1]]
<1> DEFINE id == q.data[1]
<1>1. q.cmd \in PropertyCommand
  BY DEF PropertyCommand
<1>2. MethodServed(vals, q, id)
  BY <1>1, ServedMethod
<1> HIDE DEF id
<1>3. Method(vals, q) = GetValue(vals[id], Rest(q))
  <2>1. Props[id].kind = "value"
    BY DEF id
  <2>2. QED
    BY <1>2, <2>1 DEF Method, Get, MethodServed
<1>4. vals[id] \in Seq(Cells) /\ Spare(Empty) = Capacity
  BY <1>2, ExtraAssumption DEF Typed, Spare, Empty, MethodServed
<1>5. Method(vals, q).extra = Added(Empty, vals[id]) /\ Len(vals[id]) <= Capacity
  BY <1>2, <1>3, <1>4 DEF GetValue, Gives, Answer, CanAdd, MethodServed
<1>6. QED
  BY <1>2, <1>4, <1>5, AnswerTold DEF id, MethodServed

LEMMA RangeTold ==
  ASSUME NEW vals, Typed(vals), NEW q, Request(q), q.cmd = "GET_PROPERTY",
         Answered(vals, q).err = "S_OK", Props[q.data[1]].kind = "range"
  PROVE  /\ q.data[1] \in Ids
         /\ \/ q.data[2] = 0 /\ Answered(vals, q).data = vals[q.data[1]]
            \/ q.data[2] = 1 /\ Answered(vals, q).data = Props[q.data[1]].absolute
<1> DEFINE id == q.data[1]
<1>1. q.cmd \in PropertyCommand
  BY DEF PropertyCommand
<1>2. MethodServed(vals, q, id)
  BY <1>1, ServedMethod
<1> HIDE DEF id
<1>3. Props[id].kind = "range"
  BY DEF id
<1>4. Method(vals, q) = GetRange(Props[id].absolute, vals[id], Rest(q))
  BY <1>2, <1>3 DEF Method, Get, MethodServed
<1>5. /\ vals[id] \in Seq(Cells) /\ Len(vals[id]) = 2
      /\ Props[id].absolute \in [1 .. 2 -> Cells] /\ 2 <= Capacity
  BY <1>2, <1>3, ServerAssumption, PropsAssumption, ExtraAssumption DEF Typed, MethodServed
<1>6. Props[id].absolute \in Seq(Cells) /\ Len(Props[id].absolute) = 2
  <2> DEFINE absolute == Props[id].absolute
  <2> HIDE DEF absolute
  <2>1. absolute \in [1 .. 2 -> Cells]
    BY <1>5 DEF absolute
  <2>2. /\ [k \in 1 .. 2 |-> absolute[k]] \in Seq(Cells)
        /\ Len([k \in 1 .. 2 |-> absolute[k]]) = 2
    BY <2>1
  <2>3. absolute = [k \in 1 .. 2 |-> absolute[k]]
    BY <2>1
  <2>4. QED
    BY <2>2, <2>3 DEF absolute
<1>7. CanGet(Rest(q), 1) => Got(Rest(q), 1)[1] = q.data[2]
  <2>1. Rest(q).cells = q.data /\ Rest(q).data = 1
    BY DEF Rest
  <2>2. CanGet(Rest(q), 1) => Got(Rest(q), 1)[1] = Rest(q).cells[Rest(q).data + 1]
    BY <1>2, GetSound DEF MethodServed
  <2>3. QED
    BY <2>1, <2>2
<1>8. \/ q.data[2] = 0 /\ Method(vals, q).extra = Added(Empty, vals[id])
      \/ q.data[2] = 1 /\ Method(vals, q).extra = Added(Empty, Props[id].absolute)
  <2>1. Method(vals, q).err = "S_OK"
    BY <1>2 DEF MethodServed
  <2>2. \A err, y, w : Gives(err, y, w).err = err /\ Gives(err, y, w).extra = y
    BY DEF Gives
  <2>3. CanGet(Rest(q), 1) /\ (Got(Rest(q), 1)[1] = 0 \/ Got(Rest(q), 1)[1] = 1)
    BY <1>4, <2>1, <2>2 DEF GetRange
  <2>4. CASE Got(Rest(q), 1)[1] = 0
    BY <1>4, <1>7, <2>2, <2>3, <2>4 DEF GetRange, Answer
  <2>5. CASE Got(Rest(q), 1)[1] = 1
    BY <1>4, <1>7, <2>2, <2>3, <2>5 DEF GetRange, Answer
  <2>6. QED
    BY <2>3, <2>4, <2>5
<1>9. QED
  <2>1. id \in Ids /\ Serve(vals, q).extra = Method(vals, q).extra
    BY <1>2 DEF MethodServed
  <2>2. CASE q.data[2] = 0 /\ Method(vals, q).extra = Added(Empty, vals[id])
    <3>1. Answered(vals, q).data = vals[id]
      BY <1>5, <2>1, <2>2, AnswerTold
    <3>2. QED
      BY <2>1, <2>2, <3>1 DEF id
  <2>3. CASE q.data[2] = 1 /\ Method(vals, q).extra = Added(Empty, Props[id].absolute)
    <3>1. Answered(vals, q).data = Props[id].absolute
      BY <1>5, <1>6, <2>1, <2>3, AnswerTold
    <3>2. QED
      BY <2>1, <2>3, <3>1 DEF id
  <2>4. QED
    BY <1>8, <2>2, <2>3

\* SET_PROPERTY of a value, a key or a range: what the property holds afterwards.
LEMMA ValueSet ==
  ASSUME NEW vals, Typed(vals), NEW q, Request(q), q.cmd = "SET_PROPERTY",
         Answered(vals, q).err = "S_OK", Props[q.data[1]].kind \in {"value", "key"}
  PROVE  /\ q.data[1] \in Ids /\ 1 + Len(vals[q.data[1]]) <= Len(q.data)
         /\ Serve(vals, q).values =
              [vals EXCEPT ![q.data[1]] = SubSeq(q.data, 2, 1 + Len(vals[q.data[1]]))]
<1> DEFINE id == q.data[1]
<1>1. q.cmd \in PropertyCommand
  BY DEF PropertyCommand
<1>2. MethodServed(vals, q, id)
  BY <1>1, ServedMethod
<1> HIDE DEF id
<1>3. Method(vals, q) = SetValue(vals[id], Rest(q))
  <2>1. Props[id].kind \in {"value", "key"}
    BY DEF id
  <2>2. QED
    BY <1>2, <2>1 DEF Method, Set, MethodServed
<1>4. CanGet(Rest(q), Len(vals[id])) /\ Method(vals, q).value = Got(Rest(q), Len(vals[id]))
  BY <1>2, <1>3 DEF SetValue, Gives, MethodServed
<1>5. vals[id] \in Seq(Cells) /\ q.data \in Seq(Cells)
  BY <1>2 DEF Typed, Request, MethodServed
<1>6. 1 + Len(vals[id]) <= Len(q.data) /\ Got(Rest(q), Len(vals[id])) = SubSeq(q.data, 2, 1 + Len(vals[id]))
  BY <1>4, <1>5 DEF CanGet, Remain, Got, Rest
<1>7. QED
  BY <1>2, <1>4, <1>6 DEF id, MethodServed

LEMMA RangeSet ==
  ASSUME NEW vals, Typed(vals), NEW q, Request(q), q.cmd = "SET_PROPERTY",
         Answered(vals, q).err = "S_OK", Props[q.data[1]].kind = "range"
  PROVE  /\ q.data[1] \in Ids /\ 4 <= Len(q.data) /\ q.data[2] = 0
         /\ Serve(vals, q).values = [vals EXCEPT ![q.data[1]] = SubSeq(q.data, 3, 4)]
<1> DEFINE id == q.data[1]
<1>1. q.cmd \in PropertyCommand
  BY DEF PropertyCommand
<1>2. MethodServed(vals, q, id)
  BY <1>1, ServedMethod
<1> HIDE DEF id
<1>3. Method(vals, q) = SetRange(Props[id].absolute, vals[id], Rest(q))
  <2>1. Props[id].kind = "range"
    BY DEF id
  <2>2. QED
    BY <1>2, <2>1 DEF Method, Set, MethodServed
<1>4. /\ CanGet(Rest(q), 1) /\ Got(Rest(q), 1)[1] = 0
      /\ Method(vals, q) = SetCurrent(Props[id].absolute, vals[id], Skip(Rest(q), 1))
  BY <1>2, <1>3 DEF SetRange, Gives, NotImplemented, MethodServed
<1>5. CanGet(Skip(Rest(q), 1), 2) /\ Method(vals, q).value = Got(Skip(Rest(q), 1), 2)
  BY <1>2, <1>4 DEF SetCurrent, Gives, MethodServed
<1>6. Rest(q).cells = q.data /\ Rest(q).data = 1 /\ q.data \in Seq(Cells)
  BY DEF Rest, Request
<1>7. Skip(Rest(q), 1).cells = q.data /\ Skip(Rest(q), 1).data = 2
  BY <1>6 DEF Skip
<1>8. 4 <= Len(q.data) /\ Got(Skip(Rest(q), 1), 2) = SubSeq(q.data, 3, 4)
  <2>1. 2 <= Len(q.data) - 2 /\ Len(q.data) \in Nat
    BY <1>5, <1>6, <1>7 DEF CanGet, Remain
  <2>2. Got(Skip(Rest(q), 1), 2) = SubSeq(q.data, 2 + 1, 2 + 2)
    BY <1>7 DEF Got
  <2>3. QED
    BY <2>1, <2>2
<1>9. q.data[2] = 0
  <2>1. Got(Rest(q), 1)[1] = Rest(q).cells[Rest(q).data + 1]
    BY <1>2, <1>4, GetSound DEF MethodServed
  <2>2. QED
    BY <1>4, <1>6, <2>1
<1>10. QED
  BY <1>2, <1>5, <1>8, <1>9 DEF id, MethodServed

\* Where a memory is read or written: the two cells behind the id.
LEMMA PlaceRead ==
  ASSUME NEW q, Request(q), Sound(Rest(q)), CanGet(Rest(q), 2)
  PROVE  /\ 3 <= Len(q.data) /\ Len(q.data) \in Nat
         /\ Offset(Rest(q)) = q.data[2] /\ Size(Rest(q)) = q.data[3]
         /\ q.data[2] \in Nat /\ q.data[3] \in Nat
         /\ Skip(Rest(q), 2) = [cells |-> q.data, data |-> 3, seal |-> NoSeal]
<1>1. Rest(q).cells = q.data /\ Rest(q).data = 1 /\ Rest(q).seal = NoSeal /\ q.data \in Seq(Cells)
  BY DEF Rest, Request
<1>2. 3 <= Len(q.data) /\ Len(q.data) \in Nat
  BY <1>1 DEF CanGet, Remain
<1>3. \A k \in 1 .. 2 : Got(Rest(q), 2)[k] = Rest(q).cells[Rest(q).data + k] /\ Got(Rest(q), 2)[k] \in Cells
  BY GetSound
<1>4. /\ Got(Rest(q), 2)[1] = q.data[2] /\ Got(Rest(q), 2)[2] = q.data[3]
      /\ q.data[2] \in Cells /\ q.data[3] \in Cells
  BY <1>1, <1>3
<1>5. Skip(Rest(q), 2) = [cells |-> q.data, data |-> 3, seal |-> NoSeal]
  BY <1>1 DEF Skip
<1>6. QED
  BY <1>2, <1>4, <1>5, ExtraAssumption DEF Offset, Size, Cells

\* GET_PROPERTY of a memory: a block within the property.
LEMMA MemoryTold ==
  ASSUME NEW vals, Typed(vals), NEW q, Request(q), q.cmd = "GET_PROPERTY",
         Answered(vals, q).err = "S_OK", Props[q.data[1]].kind = "memory"
  PROVE  /\ q.data[1] \in Ids /\ q.data[2] \in Nat /\ q.data[3] \in Nat
         /\ q.data[2] + q.data[3] <= Len(vals[q.data[1]])
         /\ Answered(vals, q).data = SubSeq(vals[q.data[1]], q.data[2] + 1, q.data[2] + q.data[3])
<1> DEFINE id == q.data[1]
           x == Rest(q)
           s == SubSeq(vals[id], Offset(x) + 1, Offset(x) + Size(x))
<1>1. q.cmd \in PropertyCommand
  BY DEF PropertyCommand
<1>2. MethodServed(vals, q, id)
  BY <1>1, ServedMethod
<1> HIDE DEF id, x
<1>3. Method(vals, q) = GetMemory(vals[id], x)
  <2>1. Props[id].kind = "memory"
    BY DEF id
  <2>2. QED
    BY <1>2, <2>1 DEF Method, Get, MethodServed, x
<1>4. /\ Sound(x) /\ id \in Ids /\ vals[id] \in Seq(Cells) /\ Spare(Empty) = Capacity
      /\ Method(vals, q).err = "S_OK" /\ Serve(vals, q).extra = Method(vals, q).extra
  BY <1>2, ExtraAssumption DEF MethodServed, Typed, Spare, Empty, x
<1>5. \A err, y, w : Gives(err, y, w).err = err /\ Gives(err, y, w).extra = y
  BY DEF Gives
<1>6. /\ CanGet(x, 2) /\ ~(Len(vals[id]) < Offset(x) + Size(x)) /\ ~(Size(x) > Capacity)
      /\ Method(vals, q).extra = Added(Empty, s)
  BY <1>3, <1>4, <1>5 DEF GetMemory, Answer
<1>7. /\ Offset(x) = q.data[2] /\ Size(x) = q.data[3]
      /\ q.data[2] \in Nat /\ q.data[3] \in Nat
  BY <1>4, <1>6, PlaceRead DEF x
<1>8. s \in Seq(Cells) /\ Len(s) <= Capacity
  <2>1. Offset(x) \in Nat /\ Size(x) \in Nat /\ Len(vals[id]) \in Nat
    BY <1>4, <1>7
  <2>2. Offset(x) + Size(x) <= Len(vals[id]) /\ Size(x) <= Capacity
    BY <1>6, <2>1, ExtraAssumption
  <2>3. QED
    BY <1>4, <2>1, <2>2, BlockOf
<1>9. Answered(vals, q).data = s
  <2> HIDE DEF s
  <2>1. QED
    BY <1>4, <1>6, <1>8, AnswerTold
<1>10. QED
  BY <1>4, <1>6, <1>7, <1>9 DEF id

\* SET_PROPERTY of a memory: the whole block, within the property.
LEMMA MemorySet ==
  ASSUME NEW vals, Typed(vals), NEW q, Request(q), q.cmd = "SET_PROPERTY",
         Answered(vals, q).err = "S_OK", Props[q.data[1]].kind = "memory"
  PROVE  /\ q.data[1] \in Ids /\ q.data[2] \in Nat /\ q.data[3] \in Nat
         /\ Len(q.data) = 3 + q.data[3] /\ q.data[2] + q.data[3] <= Len(vals[q.data[1]])
         /\ Serve(vals, q).values =
              [vals EXCEPT ![q.data[1]] =
                 Overwritten(vals[q.data[1]], q.data[2], SubSeq(q.data, 4, 3 + q.data[3]))]
<1> DEFINE id == q.data[1]
           x == Rest(q)
<1>1. q.cmd \in PropertyCommand
  BY DEF PropertyCommand
<1>2. MethodServed(vals, q, id)
  BY <1>1, ServedMethod
<1> HIDE DEF id, x
<1>3. Method(vals, q) = SetMemory(vals[id], x)
  <2>1. Props[id].kind = "memory"
    BY DEF id
  <2>2. QED
    BY <1>2, <2>1 DEF Method, Set, MethodServed, x
<1>4. /\ Sound(x) /\ id \in Ids /\ vals[id] \in Seq(Cells)
      /\ Method(vals, q).err = "S_OK"
      /\ Serve(vals, q).values = [vals EXCEPT ![id] = Method(vals, q).value]
  BY <1>2 DEF MethodServed, Typed, x
<1>5. \A err, y, w : Gives(err, y, w).err = err /\ Gives(err, y, w).value = w
  BY DEF Gives
<1>6. /\ CanGet(x, 2) /\ ~(Len(vals[id]) < Offset(x) + Size(x)) /\ Size(x) = Remain(Skip(x, 2))
      /\ Method(vals, q).value = Overwritten(vals[id], Offset(x), Got(Skip(x, 2), Size(x)))
  BY <1>3, <1>4, <1>5 DEF SetMemory
<1>7. /\ Offset(x) = q.data[2] /\ Size(x) = q.data[3] /\ Len(q.data) \in Nat
      /\ q.data[2] \in Nat /\ q.data[3] \in Nat
      /\ Skip(x, 2) = [cells |-> q.data, data |-> 3, seal |-> NoSeal]
  BY <1>4, <1>6, PlaceRead DEF x
<1>8. Remain(Skip(x, 2)) = Len(q.data) - 3
      /\ Got(Skip(x, 2), Size(x)) = SubSeq(q.data, 3 + 1, 3 + Size(x))
  <2>1. Skip(x, 2).cells = q.data /\ Skip(x, 2).data = 3
    BY <1>7
  <2>2. QED
    BY <2>1 DEF Remain, Got
<1>9. Len(q.data) = 3 + q.data[3] /\ q.data[2] + q.data[3] <= Len(vals[id])
  <2>1. q.data[3] = Len(q.data) - 3
    BY <1>6, <1>7, <1>8
  <2>2. ~(Len(vals[id]) < q.data[2] + q.data[3]) /\ Len(vals[id]) \in Nat
    BY <1>4, <1>6, <1>7
  <2>3. QED
    BY <1>7, <2>1, <2>2
<1>10. Method(vals, q).value = Overwritten(vals[id], q.data[2], SubSeq(q.data, 4, 3 + q.data[3]))
  <2>1. SubSeq(q.data, 3 + 1, 3 + Size(x)) = SubSeq(q.data, 4, 3 + q.data[3])
    BY <1>7
  <2>2. Method(vals, q).value = Overwritten(vals[id], q.data[2], Got(Skip(x, 2), Size(x)))
    BY <1>6, <1>7
  <2>3. QED
    BY <1>8, <2>1, <2>2
<1>11. QED
  BY <1>4, <1>7, <1>9, <1>10 DEF id

\* The names of the properties, as far as they are told at all.
LEMMA NameTold ==
  ASSUME NEW vals, Typed(vals), NEW q, Request(q), q.cmd = "GET_PROPERTY",
         Answered(vals, q).err = "S_OK", Props[q.data[1]].kind = "symbols"
  PROVE  q.data[2] \in Ids /\ Answered(vals, q).data = <<Props[q.data[2]].name>>
<1> DEFINE id == q.data[1]
           x == Rest(q)
<1>1. q.cmd \in PropertyCommand
  BY DEF PropertyCommand
<1>2. MethodServed(vals, q, id)
  BY <1>1, ServedMethod
<1> HIDE DEF id, x
<1>3. Method(vals, q) = GetSymbol(vals[id], x, Encrypted(q))
  <2>1. Props[id].kind = "symbols"
    BY DEF id
  <2>2. QED
    BY <1>2, <2>1 DEF Method, Get, MethodServed, x
<1>4. /\ Sound(x) /\ Method(vals, q).err = "S_OK" /\ Serve(vals, q).extra = Method(vals, q).extra
  BY <1>2 DEF MethodServed, x
<1>5. \A err, y, w : Gives(err, y, w).err = err /\ Gives(err, y, w).extra = y
  BY DEF Gives
<1>6. /\ CanGet(x, 1) /\ Got(x, 1)[1] \in Ids
      /\ Method(vals, q).extra = Added(Empty, <<Props[Got(x, 1)[1]].name>>)
  BY <1>3, <1>4, <1>5 DEF GetSymbol, Answer
<1>7. Got(x, 1)[1] = q.data[2]
  <2>1. Got(x, 1)[1] = x.cells[x.data + 1] /\ x.cells = q.data /\ x.data = 1
    BY <1>4, <1>6, GetSound DEF x, Rest
  <2>2. QED
    BY <2>1
<1>8. <<Props[q.data[2]].name>> \in Seq(Cells) /\ Len(<<Props[q.data[2]].name>>) <= Capacity
  BY <1>6, <1>7, PropsAssumption, ExtraAssumption
<1>9. QED
  BY <1>4, <1>6, <1>7, <1>8, AnswerTold

\* A plain request for a property that is not protected gets to its method.
LEMMA PlainServed ==
  ASSUME NEW vals, Typed(vals), NEW q, Request(q), Plain(q),
         q.cmd \in {"GET_PROPERTY", "GET_SIZE"}, q.data # << >>, q.data[1] \in Ids,
         Props[q.data[1]].access = "READ"
  PROVE  /\ Answered(vals, q).err = Method(vals, q).err
         /\ Serve(vals, q).extra = Method(vals, q).extra
         /\ Got(Opened(vals, q), 1)[1] = q.data[1] /\ Skip(Opened(vals, q), 1) = Rest(q)
         /\ Encrypted(q) = FALSE
<1> DEFINE x == Opened(vals, q)
<1>1. Encrypted(q) = FALSE
  BY PlainTold
<1>2. Legible(vals, q)
  BY <1>1 DEF Legible
<1>3. Sound(x) /\ x.seal = NoSeal /\ x.data = 0 /\ x.cells = q.data
  BY <1>2, OpenedSound
<1> HIDE DEF x
<1>4. CanGet(x, 1)
  BY <1>3 DEF CanGet, Remain, Request
<1>5. Got(x, 1)[1] = q.data[1]
  <2>1. Got(x, 1)[1] = x.cells[x.data + 1]
    BY <1>3, <1>4, GetSound
  <2>2. QED
    BY <1>3, <2>1
<1>6. Skip(x, 1) = Rest(q)
  BY <1>3 DEF Skip, Rest
<1>7. Verify(vals, q) = "S_OK"
  BY <1>1, <1>4, <1>5 DEF Verify, x, CheckRead
<1>8. Serve(vals, q) = Performed(vals, q)
  BY <1>2, <1>7 DEF Serve, PropertyCommand
<1>9. Serve(vals, q).err = Method(vals, q).err /\ Serve(vals, q).extra = Method(vals, q).extra
  BY <1>8 DEF Performed, Outcome
<1>10. QED
  BY <1>1, <1>5, <1>6, <1>9, AnsweredFrame DEF x

\* A plain client is told the name of every property it may read, ...
LEMMA NameGiven ==
  ASSUME NEW vals, Typed(vals), NEW q, Request(q), Plain(q), q.cmd = "GET_PROPERTY",
         NEW id \in Ids, Props[id].kind = "symbols",
         NEW j \in Ids, MayRead(Props[j].access, FALSE), q.data = <<id, j>>
  PROVE  Answered(vals, q).err = "S_OK"
<1>1. q.data # << >> /\ q.data[1] = id /\ q.data[2] = j /\ Len(q.data) = 2
  OBVIOUS
<1>2. Props[id].access = "READ"
  BY PropsAssumption
<1>3. /\ Answered(vals, q).err = Method(vals, q).err
      /\ Got(Opened(vals, q), 1)[1] = id /\ Skip(Opened(vals, q), 1) = Rest(q)
      /\ Encrypted(q) = FALSE
  BY <1>1, <1>2, PlainServed
<1>4. Method(vals, q) = GetSymbol(vals[id], Rest(q), FALSE)
  BY <1>3 DEF Method, Get
<1>5. Rest(q).cells = q.data /\ Rest(q).data = 1 /\ CanGet(Rest(q), 1)
  BY <1>1 DEF Rest, CanGet, Remain
<1>6. Got(Rest(q), 1)[1] = j
  <2>1. Got(Rest(q), 1) = SubSeq(<<id, j>>, 2, 2)
    BY <1>5 DEF Got
  <2>2. SubSeq(<<id, j>>, 2, 2)[1] = j
    OBVIOUS
  <2>3. QED
    BY <2>1, <2>2
<1>7. CheckRead(Props[j].access, FALSE) = "S_OK"
  <2>1. Props[j].access \in Access
    BY PropsAssumption
  <2>2. QED
    BY <2>1 DEF CheckRead, MayRead, Access
<1>8. \A err, y, w : Gives(err, y, w).err = err
  BY DEF Gives
<1>9. QED
  <2>1. GetSymbol(vals[id], Rest(q), FALSE) = Answer(<<Props[j].name>>, vals[id])
    BY <1>5, <1>6, <1>7 DEF GetSymbol
  <2>2. QED
    <3>1. Answer(<<Props[j].name>>, vals[id]).err = "S_OK"
      BY <1>8 DEF Answer
    <3>2. QED
      BY <1>3, <1>4, <2>1, <3>1

\* ... and how many there are.
LEMMA SizeGiven ==
  ASSUME NEW vals, Typed(vals), NEW q, Request(q), Plain(q), q.cmd = "GET_SIZE",
         NEW id \in Ids, Props[id].kind = "symbols", q.data = <<id>>
  PROVE  Answered(vals, q).err = "S_OK" /\ Answered(vals, q).data = <<N>>
<1>1. q.data # << >> /\ q.data[1] = id
  OBVIOUS
<1>2. Props[id].access = "READ"
  BY PropsAssumption
<1>3. /\ Answered(vals, q).err = Method(vals, q).err
      /\ Serve(vals, q).extra = Method(vals, q).extra
      /\ Got(Opened(vals, q), 1)[1] = id
  BY <1>1, <1>2, PlainServed
<1>4. Method(vals, q) = Answer(<<N>>, vals[id])
  BY <1>3 DEF Method, GetSize
<1>5. Method(vals, q).err = "S_OK" /\ Method(vals, q).extra = Added(Empty, <<N>>)
  BY <1>4 DEF Answer, Gives
<1>6. <<N>> \in Seq(Cells) /\ Len(<<N>>) <= Capacity
  BY PropsAssumption, ExtraAssumption
<1>7. QED
  BY <1>3, <1>5, <1>6, AnswerTold

\* A request that is not acknowledged leaves the properties as they were.
LEMMA FailedChangesNothing ==
  ASSUME NEW vals, Typed(vals), NEW q, Request(q),
         Answered(vals, q).err # "S_OK" \/ q.cmd # "SET_PROPERTY"
  PROVE  \A id \in Ids : Serve(vals, q).values[id] = vals[id]
BY ServeLawful, AnsweredFrame DEF Lawful

\* A key is told to nobody, and the nonce is set by nobody.
LEMMA KeyNotTold ==
  ASSUME NEW vals, Typed(vals), NEW q, Request(q), q.cmd = "GET_PROPERTY",
         Answered(vals, q).err = "S_OK"
  PROVE  Props[q.data[1]].kind # "key"
<1> DEFINE id == q.data[1]
<1>1. q.cmd \in PropertyCommand
  BY DEF PropertyCommand
<1>2. MethodServed(vals, q, id)
  BY <1>1, ServedMethod
<1> HIDE DEF id
<1>3. Method(vals, q).err = "S_OK" /\ Method(vals, q) = Get(Props[id], vals[id], Rest(q), Encrypted(q))
  BY <1>2 DEF MethodServed, Method
<1>5. ASSUME Props[id].kind = "key" PROVE Method(vals, q).err = "E_NO_IMPLEMENT"
  BY <1>3, <1>5 DEF Get, NotImplemented, Gives
<1>6. QED
  BY <1>3, <1>5 DEF id

LEMMA NonceNotSet ==
  ASSUME NEW vals, Typed(vals), NEW q, Request(q), q.cmd = "SET_PROPERTY",
         Answered(vals, q).err = "S_OK"
  PROVE  q.data[1] # NonceId
<1>1. q.cmd \in PropertyCommand
  BY DEF PropertyCommand
<1>2. MethodServed(vals, q, q.data[1])
  BY <1>1, ServedMethod
<1>3. Serve(vals, q).err = "S_OK"
  BY AnsweredFrame
<1>4. Legible(vals, q)
  BY <1>3 DEF Serve, Rejected, Outcome
<1>5. Verify(vals, q) = "S_OK"
  BY <1>1, <1>3, <1>4 DEF Serve, Refused, Outcome, PropertyCommand
<1>6. CheckWrite(Props[q.data[1]].access, Encrypted(q)) = "S_OK"
  BY <1>2, <1>5 DEF Verify, MethodServed
<1>7. CheckWrite("READ", Encrypted(q)) # "S_OK"
  BY DEF CheckWrite
<1>8. QED
  BY <1>6, <1>7, ServerAssumption

\* After a plain request the values are those it left; after any other the nonce may
\* differ.
LEMMA PollKeeps ==
  ASSUME Typed(values), NEW q, Request(q), Poll(q)
  PROVE  /\ \A id \in Ids : id # NonceId => values'[id] = Serve(values, q).values[id]
         /\ Plain(q) => values' = Serve(values, q).values
<1>1. \A id \in Ids : values'[id] # Serve(values, q).values[id] => id = NonceId
  BY PollTyped
<1>2. Plain(q) => Encrypted(q) = FALSE
  BY PlainTold
<1>3. Plain(q) => values' = Serve(values, q).values
  BY <1>2 DEF Poll, Renew
<1>4. QED
  BY <1>1, <1>3

-----------------------------------------------------------------------------
(* What was written reads back *)

\* The request that reads a place, from a client with the key and the nonce.
ReadOf(vals, place) == [cmd |-> "GET_PROPERTY", data |-> place, seal |-> Secret(vals)]

\* Such a request gets to get(), whatever the access of the property.
LEMMA SecretServed ==
  ASSUME NEW vals, Typed(vals), NEW place \in Seq(Cells), place # << >>,
         Len(place) <= Capacity, place[1] \in Ids
  PROVE  LET r == ReadOf(vals, place)
             m == Get(Props[place[1]], vals[place[1]], Rest(r), TRUE)
         IN  /\ Request(r) /\ Sound(Rest(r))
             /\ Serve(vals, r).err = m.err /\ Serve(vals, r).extra = m.extra
<1> DEFINE r == ReadOf(vals, place)
           x == Opened(vals, r)
           id == place[1]
<1>1. r.cmd = "GET_PROPERTY" /\ r.data = place /\ r.seal = Secret(vals) /\ Secret(vals) # NoSeal
  BY SecretType DEF ReadOf
<1>2. Request(r)
  BY <1>1, SecretType DEF Request, Command, PropertyCommand
<1>3. Received(r) = [cells |-> place, data |-> 0, seal |-> Secret(vals)]
  BY <1>1 DEF Received
<1>4. Encrypted(r) = TRUE /\ Legible(vals, r)
  BY <1>1, <1>3 DEF Encrypted, Legible, Opens
<1> HIDE DEF r
<1>5. Sound(x) /\ x.seal = NoSeal /\ x.data = 0 /\ x.cells = place
  BY <1>1, <1>2, <1>4, OpenedSound
<1> HIDE DEF x
<1>6. CanGet(x, 1)
  BY <1>5 DEF CanGet, Remain
<1>7. Got(x, 1)[1] = id
  <2>1. Got(x, 1)[1] = x.cells[x.data + 1]
    BY <1>5, <1>6, GetSound
  <2>2. QED
    BY <1>5, <2>1
<1>8. Skip(x, 1) = Rest(r) /\ Sound(Rest(r))
  <2>1. Skip(x, 1) = Rest(r)
    BY <1>1, <1>5 DEF Skip, Rest
  <2>2. Sound(Skip(x, 1))
    BY <1>5, <1>6, GetSound
  <2>3. QED
    BY <2>1, <2>2
<1>9. Verify(vals, r) = "S_OK"
  BY <1>1, <1>4, <1>6, <1>7 DEF Verify, x, CheckRead
<1>10. Serve(vals, r) = Performed(vals, r)
  BY <1>1, <1>4, <1>9 DEF Serve, PropertyCommand
<1>11. Method(vals, r) = Get(Props[id], vals[id], Rest(r), TRUE)
  BY <1>1, <1>4, <1>7, <1>8 DEF Method, x
<1>12. /\ Serve(vals, r).err = Method(vals, r).err
       /\ Serve(vals, r).extra = Method(vals, r).extra
  BY <1>10 DEF Performed, Outcome
<1>13. QED
  BY <1>2, <1>8, <1>11, <1>12 DEF r

\* The request that reads place is answered with S_OK and these cells.
ReadsAs(vals, place, cells) ==
  /\ Serve(vals, ReadOf(vals, place)).err = "S_OK"
  /\ Serve(vals, ReadOf(vals, place)).extra.cells = cells

LEMMA AnswerGiven ==
  ASSUME NEW s \in Seq(Cells), Len(s) <= Capacity, NEW v
  PROVE  Answer(s, v).err = "S_OK" /\ Answer(s, v).extra.cells = s
<1>1. Added(Empty, s).cells = s
  BY AddedToEmpty
<1>2. QED
  BY <1>1 DEF Answer, Gives

\* A value, a range and a block of a memory that fits a buffer read as what the property holds.
LEMMA ValueReads ==
  ASSUME NEW vals, Typed(vals), NEW id \in Ids, Props[id].kind = "value",
         Len(vals[id]) <= Capacity
  PROVE  ReadsAs(vals, <<id>>, vals[id])
<1> DEFINE x == Rest(ReadOf(vals, <<id>>))
<1>1. id \in Cells /\ vals[id] \in Seq(Cells) /\ Spare(Empty) = Capacity
  BY PropsAssumption, ExtraAssumption DEF Ids, Cells, Typed, Spare, Empty
<1>2. <<id>> \in Seq(Cells) /\ <<id>> # << >> /\ Len(<<id>>) <= Capacity /\ <<id>>[1] = id
  BY <1>1, ExtraAssumption
<1>3. /\ Serve(vals, ReadOf(vals, <<id>>)).err = Get(Props[id], vals[id], x, TRUE).err
      /\ Serve(vals, ReadOf(vals, <<id>>)).extra = Get(Props[id], vals[id], x, TRUE).extra
  BY <1>2, SecretServed
<1>4. Get(Props[id], vals[id], x, TRUE) = Answer(vals[id], vals[id])
  BY <1>1 DEF Get, GetValue, CanAdd
<1>5. Answer(vals[id], vals[id]).err = "S_OK" /\ Answer(vals[id], vals[id]).extra.cells = vals[id]
  BY <1>1, AnswerGiven
<1>6. QED
  BY <1>3, <1>4, <1>5 DEF ReadsAs

LEMMA RangeReads ==
  ASSUME NEW vals, Typed(vals), NEW id \in Ids, Props[id].kind = "range"
  PROVE  ReadsAs(vals, <<id, 0>>, vals[id])
<1> DEFINE x == Rest(ReadOf(vals, <<id, 0>>))
<1>1. id \in Cells /\ 0 \in Cells /\ vals[id] \in Seq(Cells) /\ Len(vals[id]) <= Capacity
  <2>1. id \in Cells /\ 0 \in Cells
    BY PropsAssumption, ExtraAssumption DEF Ids, Cells
  <2>2. vals[id] \in Seq(Cells) /\ Len(vals[id]) = 2
    BY ServerAssumption DEF Typed
  <2>3. QED
    BY <2>1, <2>2, ExtraAssumption
<1>2. /\ <<id, 0>> \in Seq(Cells) /\ <<id, 0>> # << >> /\ Len(<<id, 0>>) <= Capacity
      /\ <<id, 0>>[1] = id
  BY <1>1, ExtraAssumption
<1>3. /\ Serve(vals, ReadOf(vals, <<id, 0>>)).err = Get(Props[id], vals[id], x, TRUE).err
      /\ Serve(vals, ReadOf(vals, <<id, 0>>)).extra = Get(Props[id], vals[id], x, TRUE).extra
      /\ Sound(x)
  BY <1>2, SecretServed
<1>4. x.cells = <<id, 0>> /\ x.data = 1
  BY DEF Rest, ReadOf
<1> HIDE DEF x
<1>5. CanGet(x, 1)
  BY <1>4 DEF CanGet, Remain
<1>6. Got(x, 1)[1] = 0
  <2>1. Got(x, 1)[1] = x.cells[x.data + 1]
    BY <1>3, <1>5, GetSound
  <2>2. QED
    BY <1>4, <2>1
<1>7. Get(Props[id], vals[id], x, TRUE) = Answer(vals[id], vals[id])
  BY <1>5, <1>6 DEF Get, GetRange
<1>8. Answer(vals[id], vals[id]).err = "S_OK" /\ Answer(vals[id], vals[id]).extra.cells = vals[id]
  BY <1>1, AnswerGiven
<1>9. QED
  BY <1>3, <1>7, <1>8 DEF ReadsAs

LEMMA MemoryReads ==
  ASSUME NEW vals, Typed(vals), NEW id \in Ids, Props[id].kind = "memory",
         NEW offset \in Cells, NEW size \in Cells, offset + size <= Len(vals[id]),
         3 + size <= Capacity
  PROVE  ReadsAs(vals, <<id, offset, size>>, SubSeq(vals[id], offset + 1, offset + size))
<1> DEFINE place == <<id, offset, size>>
           x == Rest(ReadOf(vals, place))
           s == SubSeq(vals[id], offset + 1, offset + size)
<1>1. id \in Cells /\ vals[id] \in Seq(Cells) /\ Spare(Empty) = Capacity
  BY PropsAssumption, ExtraAssumption DEF Ids, Cells, Typed, Spare, Empty
<1>2. offset \in Nat /\ size \in Nat /\ Len(vals[id]) \in Nat /\ Capacity \in Nat
  BY <1>1, ExtraAssumption DEF Cells
<1>3. place \in Seq(Cells) /\ place # << >> /\ Len(place) <= Capacity /\ place[1] = id
  BY <1>1, <1>2
<1>4. /\ Serve(vals, ReadOf(vals, place)).err = Get(Props[id], vals[id], x, TRUE).err
      /\ Serve(vals, ReadOf(vals, place)).extra = Get(Props[id], vals[id], x, TRUE).extra
      /\ Sound(x) /\ Request(ReadOf(vals, place))
  BY <1>3, SecretServed
<1>5. x.cells = place /\ x.data = 1 /\ ReadOf(vals, place).data = place
  BY DEF Rest, ReadOf
<1>6. CanGet(x, 2)
  <2>1. Len(place) = 3
    OBVIOUS
  <2>2. QED
    <3> HIDE DEF x, place
    <3>1. QED
      BY <1>5, <2>1 DEF CanGet, Remain
<1>7. Offset(x) = offset /\ Size(x) = size
  BY <1>4, <1>5, <1>6, PlaceRead
<1>8. s \in Seq(Cells) /\ Len(s) <= Capacity
  <2>1. s \in Seq(Cells) /\ Len(s) = size
    BY <1>1, <1>2, BlockOf
  <2>2. size <= Capacity
    BY <1>2
  <2>3. QED
    BY <2>1, <2>2
<1>9. Get(Props[id], vals[id], x, TRUE) = Answer(s, vals[id])
  <2>1. ~(Len(vals[id]) < offset + size) /\ ~(size > Capacity)
    BY <1>2
  <2>2. GetMemory(vals[id], x) = Answer(s, vals[id])
    BY <1>1, <1>6, <1>7, <2>1 DEF GetMemory
  <2>3. QED
    BY <2>2 DEF Get
<1> HIDE DEF s, x, place
<1>10. Answer(s, vals[id]).err = "S_OK" /\ Answer(s, vals[id]).extra.cells = s
  BY <1>8, AnswerGiven
<1>11. ReadsAs(vals, place, s)
  BY <1>4, <1>9, <1>10 DEF ReadsAs
<1>12. QED
  BY <1>11 DEF place, s

\* The symbol table cannot be written.
LEMMA SymbolsNotSet ==
  ASSUME NEW vals, Typed(vals), NEW q, Request(q), q.cmd = "SET_PROPERTY",
         Answered(vals, q).err = "S_OK"
  PROVE  Props[q.data[1]].kind # "symbols"
<1> DEFINE id == q.data[1]
<1>1. q.cmd \in PropertyCommand
  BY DEF PropertyCommand
<1>2. MethodServed(vals, q, id)
  BY <1>1, ServedMethod
<1> HIDE DEF id
<1>3. Method(vals, q).err = "S_OK" /\ Method(vals, q) = Set(Props[id], vals[id], Rest(q))
  BY <1>2 DEF MethodServed, Method
<1>4. ASSUME Props[id].kind = "symbols" PROVE Method(vals, q).err = "E_NO_IMPLEMENT"
  BY <1>3, <1>4 DEF Set, NotImplemented, Gives
<1>5. QED
  BY <1>3, <1>4 DEF id

\* The place a request names, how many cells it carries for it, and that new, the
\* values afterwards, reads there as what the request carried.
PlaceOf(q) == SubSeq(q.data, 1, PlaceLen(Props[q.data[1]].kind))
SizeOf(vals, q) ==
  IF Props[q.data[1]].kind = "memory" THEN q.data[3] ELSE Len(vals[q.data[1]])

Reads(vals, new, q) ==
  Props[q.data[1]].kind # "key" =>
    ReadsAs(new, PlaceOf(q), SubSeq(q.data, Len(PlaceOf(q)) + 1, Len(PlaceOf(q)) + SizeOf(vals, q)))

Keeps(vals, new, q) ==
  Props[q.data[1]].kind = "memory" =>
    \A k \in 1 .. Len(vals[q.data[1]]) \ (q.data[2] + 1 .. q.data[2] + SizeOf(vals, q)) :
      new[q.data[1]][k] = vals[q.data[1]][k]

\* new is what the SET_PROPERTY q made of vals, but for the nonce.
Written(vals, new, q) ==
  /\ Typed(vals) /\ Typed(new) /\ Request(q) /\ q.cmd = "SET_PROPERTY"
  /\ Answered(vals, q).err = "S_OK"
  /\ \A id \in Ids : id # NonceId => new[id] = Serve(vals, q).values[id]

\* The first cells of a sequence, one by one.
LEMMA FirstCells ==
  ASSUME NEW s \in Seq(Cells)
  PROVE  /\ 1 <= Len(s) => SubSeq(s, 1, 1) = <<s[1]>>
         /\ 2 <= Len(s) => SubSeq(s, 1, 2) = <<s[1], s[2]>>
         /\ 3 <= Len(s) => SubSeq(s, 1, 3) = <<s[1], s[2], s[3]>>
<1>1. ASSUME NEW t \in Seq(Cells), Len(t) = 1 PROVE t = <<t[1]>>
  BY <1>1
<1>2. ASSUME NEW t \in Seq(Cells), Len(t) = 2 PROVE t = <<t[1], t[2]>>
  BY <1>2
<1>3. ASSUME NEW t \in Seq(Cells), Len(t) = 3 PROVE t = <<t[1], t[2], t[3]>>
  BY <1>3
<1>4. ASSUME NEW n \in 1 .. 3, n <= Len(s)
      PROVE  /\ SubSeq(s, 1, n) \in Seq(Cells) /\ Len(SubSeq(s, 1, n)) = n
             /\ \A k \in 1 .. n : SubSeq(s, 1, n)[k] = s[k]
  BY <1>4
<1>5. ASSUME 1 <= Len(s) PROVE SubSeq(s, 1, 1) = <<s[1]>>
  <2> DEFINE t == SubSeq(s, 1, 1)
  <2>1. t \in Seq(Cells) /\ Len(t) = 1 /\ \A k \in 1 .. 1 : t[k] = s[k]
    BY <1>4, <1>5
  <2> HIDE DEF t
  <2>2. t[1] = s[1]
    BY <2>1
  <2>3. QED
    BY <1>1, <2>1, <2>2 DEF t
<1>6. ASSUME 2 <= Len(s) PROVE SubSeq(s, 1, 2) = <<s[1], s[2]>>
  <2> DEFINE t == SubSeq(s, 1, 2)
  <2>1. t \in Seq(Cells) /\ Len(t) = 2 /\ \A k \in 1 .. 2 : t[k] = s[k]
    BY <1>4, <1>6
  <2> HIDE DEF t
  <2>2. t[1] = s[1] /\ t[2] = s[2]
    BY <2>1
  <2>3. QED
    BY <1>2, <2>1, <2>2 DEF t
<1>7. ASSUME 3 <= Len(s) PROVE SubSeq(s, 1, 3) = <<s[1], s[2], s[3]>>
  <2> DEFINE t == SubSeq(s, 1, 3)
  <2>1. t \in Seq(Cells) /\ Len(t) = 3 /\ \A k \in 1 .. 3 : t[k] = s[k]
    BY <1>4, <1>7
  <2> HIDE DEF t
  <2>2. t[1] = s[1] /\ t[2] = s[2] /\ t[3] = s[3]
    BY <2>1
  <2>3. QED
    BY <1>3, <2>1, <2>2 DEF t
<1>8. QED
  BY <1>5, <1>6, <1>7

LEMMA ValueReadsBack ==
  ASSUME NEW vals, NEW new, NEW q, Written(vals, new, q), Props[q.data[1]].kind = "value"
  PROVE  Reads(vals, new, q) /\ Keeps(vals, new, q)
<1> DEFINE id == q.data[1]
           size == Len(vals[id])
<1>1. /\ id \in Ids /\ 1 + size <= Len(q.data) /\ id # NonceId
      /\ Serve(vals, q).values = [vals EXCEPT ![id] = SubSeq(q.data, 2, 1 + size)]
  BY ValueSet, NonceNotSet DEF Written
<1>2. vals[id] \in Seq(Cells) /\ q.data \in Seq(Cells) /\ Len(q.data) <= Capacity
      /\ Len(new[id]) = size
  BY <1>1 DEF Written, Typed, Request
<1>3. new[id] = SubSeq(q.data, 2, 1 + size)
  BY <1>1 DEF Written, Typed
<1>4. size \in Nat /\ size <= Capacity /\ 1 <= Len(q.data)
  <2>1. size \in Nat /\ Len(q.data) \in Nat /\ Capacity \in Nat
    BY <1>2, ExtraAssumption
  <2>2. QED
    BY <1>1, <1>2, <2>1
<1>5. PlaceOf(q) = <<id>> /\ Len(PlaceOf(q)) = 1
  BY <1>2, <1>4, FirstCells DEF PlaceOf, PlaceLen
<1>6. Props[id].kind = "value"
  OBVIOUS
<1> HIDE DEF id
<1>7. ReadsAs(new, <<id>>, new[id])
  BY <1>1, <1>2, <1>4, <1>6, ValueReads DEF Written
<1>8. SizeOf(vals, q) = size
  BY DEF SizeOf, id
<1>9. Reads(vals, new, q)
  <2>1. SubSeq(q.data, Len(PlaceOf(q)) + 1, Len(PlaceOf(q)) + SizeOf(vals, q)) = new[id]
    BY <1>3, <1>4, <1>5, <1>8
  <2>2. QED
    BY <1>5, <1>7, <2>1 DEF Reads
<1>10. QED
  BY <1>9 DEF Keeps

LEMMA RangeReadsBack ==
  ASSUME NEW vals, NEW new, NEW q, Written(vals, new, q), Props[q.data[1]].kind = "range"
  PROVE  Reads(vals, new, q) /\ Keeps(vals, new, q)
<1> DEFINE id == q.data[1]
<1>1. /\ id \in Ids /\ 4 <= Len(q.data) /\ q.data[2] = 0 /\ id # NonceId
      /\ Serve(vals, q).values = [vals EXCEPT ![id] = SubSeq(q.data, 3, 4)]
  BY RangeSet, NonceNotSet DEF Written
<1>2. q.data \in Seq(Cells) /\ Len(vals[id]) = 2
  BY <1>1, ServerAssumption DEF Written, Typed, Request
<1>3. new[id] = SubSeq(q.data, 3, 4)
  BY <1>1 DEF Written, Typed
<1>4. PlaceOf(q) = <<id, 0>> /\ Len(PlaceOf(q)) = 2
  <2>1. PlaceOf(q) = SubSeq(q.data, 1, 2)
    BY DEF PlaceOf, PlaceLen
  <2>2. 2 <= Len(q.data)
    BY <1>1, <1>2
  <2>3. QED
    BY <1>1, <1>2, <2>1, <2>2, FirstCells
<1>5. Props[id].kind = "range"
  OBVIOUS
<1> HIDE DEF id
<1>6. ReadsAs(new, <<id, 0>>, new[id])
  BY <1>1, <1>5, RangeReads DEF Written
<1>7. SizeOf(vals, q) = 2
  BY <1>2, <1>5 DEF SizeOf, id
<1>8. Reads(vals, new, q)
  <2>1. SubSeq(q.data, Len(PlaceOf(q)) + 1, Len(PlaceOf(q)) + SizeOf(vals, q)) = new[id]
    BY <1>3, <1>4, <1>7
  <2>2. QED
    BY <1>4, <1>6, <2>1 DEF Reads
<1>9. QED
  BY <1>8 DEF Keeps

\* What lies outside the block that is written stays, what lies inside is the block.
BlockAt(w, v, offset, s) ==
  /\ SubSeq(w, offset + 1, offset + Len(s)) = s
  /\ \A k \in 1 .. Len(v) \ (offset + 1 .. offset + Len(s)) : w[k] = v[k]

LEMMA OverwrittenReads ==
  ASSUME NEW v \in Seq(Cells), NEW s \in Seq(Cells), NEW offset \in Nat,
         offset + Len(s) <= Len(v)
  PROVE  BlockAt(Overwritten(v, offset, s), v, offset, s)
<1> DEFINE w == Overwritten(v, offset, s)
           b == SubSeq(w, offset + 1, offset + Len(s))
<1>1. \A k \in 1 .. Len(v) : w[k] = IF k - offset \in 1 .. Len(s) THEN s[k - offset] ELSE v[k]
  BY DEF Overwritten
<1>2. w \in Seq(Cells) /\ Len(w) = Len(v)
  <2>1. \A k \in 1 .. Len(v) : v[k] \in Cells
    OBVIOUS
  <2>2. \A k \in 1 .. Len(s) : s[k] \in Cells
    OBVIOUS
  <2>3. QED
    BY <2>1, <2>2 DEF Overwritten
<1> HIDE DEF w
<1>3. b \in Seq(Cells) /\ Len(b) = Len(s) /\ \A k \in 1 .. Len(s) : b[k] = w[offset + k]
  <2>1. Len(s) \in Nat /\ offset + Len(s) <= Len(w)
    BY <1>2
  <2>2. QED
    BY <1>2, <2>1, BlockOf
<1> HIDE DEF b
<1>4. ASSUME NEW k \in 1 .. Len(s) PROVE b[k] = s[k]
  <2>1. offset + k \in 1 .. Len(v) /\ (offset + k) - offset = k
    BY <1>4
  <2>2. QED
    BY <1>1, <1>3, <2>1
<1>5. b = s
  <2>1. ASSUME NEW t \in Seq(Cells), NEW u \in Seq(Cells), Len(t) = Len(u),
               \A k \in 1 .. Len(u) : t[k] = u[k]
        PROVE  t = u
    BY <2>1
  <2>2. QED
    BY <1>3, <1>4, <2>1
<1>6. ASSUME NEW k \in 1 .. Len(v), k \notin offset + 1 .. offset + Len(s)
      PROVE  w[k] = v[k]
  <2>1. k - offset \notin 1 .. Len(s)
    BY <1>6
  <2>2. QED
    BY <1>1, <2>1
<1>7. QED
  BY <1>5, <1>6 DEF b, w, BlockAt

LEMMA MemoryReadsBack ==
  ASSUME NEW vals, NEW new, NEW q, Written(vals, new, q), Props[q.data[1]].kind = "memory"
  PROVE  Reads(vals, new, q) /\ Keeps(vals, new, q)
<1> DEFINE id == q.data[1]
           offset == q.data[2]
           size == q.data[3]
           s == SubSeq(q.data, 4, 3 + size)
<1>1. /\ id \in Ids /\ offset \in Nat /\ size \in Nat /\ id # NonceId
      /\ Len(q.data) = 3 + size /\ offset + size <= Len(vals[id])
      /\ Serve(vals, q).values = [vals EXCEPT ![id] = Overwritten(vals[id], offset, s)]
  BY MemorySet, NonceNotSet DEF Written
<1>2. vals[id] \in Seq(Cells) /\ q.data \in Seq(Cells) /\ Len(q.data) <= Capacity
      /\ Len(new[id]) = Len(vals[id])
  BY <1>1 DEF Written, Typed, Request
<1>3. new[id] = Overwritten(vals[id], offset, s)
  BY <1>1 DEF Written, Typed
<1>4. offset \in Cells /\ size \in Cells
  <2>1. \A k \in 1 .. Len(q.data) : q.data[k] \in Cells
    BY <1>2
  <2>2. 2 \in 1 .. Len(q.data) /\ 3 \in 1 .. Len(q.data)
    BY <1>1
  <2>3. QED
    BY <2>1, <2>2
<1>5. PlaceOf(q) = <<id, offset, size>> /\ Len(PlaceOf(q)) = 3
  <2>1. PlaceOf(q) = SubSeq(q.data, 1, 3)
    BY DEF PlaceOf, PlaceLen
  <2>2. 3 <= Len(q.data)
    BY <1>1
  <2>3. QED
    BY <1>2, <2>1, <2>2, FirstCells
<1>6. s \in Seq(Cells) /\ Len(s) = size
  <2>1. ASSUME NEW u \in Seq(Cells), NEW n \in Nat, Len(u) = 3 + n
        PROVE  SubSeq(u, 4, 3 + n) \in Seq(Cells) /\ Len(SubSeq(u, 4, 3 + n)) = n
    BY <2>1
  <2>2. QED
    BY <1>1, <1>2, <2>1
<1>7. SizeOf(vals, q) = size /\ Props[id].kind = "memory"
  BY DEF SizeOf
<1> HIDE DEF id, offset, size, s
<1>8. /\ SubSeq(new[id], offset + 1, offset + size) = s
      /\ \A k \in 1 .. Len(vals[id]) \ (offset + 1 .. offset + size) : new[id][k] = vals[id][k]
  <2>1. offset + Len(s) <= Len(vals[id])
    BY <1>1, <1>6
  <2>2. BlockAt(new[id], vals[id], offset, s)
    BY <1>1, <1>2, <1>3, <1>6, <2>1, OverwrittenReads
  <2>3. QED
    BY <1>6, <2>2 DEF BlockAt
<1>9. ReadsAs(new, <<id, offset, size>>, SubSeq(new[id], offset + 1, offset + size))
  <2>1. offset + size <= Len(new[id]) /\ 3 + size <= Capacity
    BY <1>1, <1>2
  <2>2. QED
    BY <1>1, <1>4, <1>7, <2>1, MemoryReads DEF Written
<1>10. Reads(vals, new, q)
  <2>1. SubSeq(q.data, Len(PlaceOf(q)) + 1, Len(PlaceOf(q)) + SizeOf(vals, q)) = s
    <3>1. Len(PlaceOf(q)) + 1 = 4 /\ Len(PlaceOf(q)) + SizeOf(vals, q) = 3 + size
      BY <1>5, <1>7
    <3>2. QED
      BY <3>1 DEF s
  <2>2. QED
    BY <1>5, <1>8, <1>9, <2>1 DEF Reads
<1>11. Keeps(vals, new, q)
  BY <1>7, <1>8 DEF Keeps, id, offset
<1>12. QED
  BY <1>10, <1>11

\* Whatever the kind of the property.
LEMMA WrittenReads ==
  ASSUME NEW vals, NEW new, NEW q, Written(vals, new, q)
  PROVE  Reads(vals, new, q) /\ Keeps(vals, new, q)
<1>1. q.cmd \in PropertyCommand /\ Typed(vals) /\ Request(q) /\ Answered(vals, q).err = "S_OK"
      /\ q.cmd = "SET_PROPERTY"
  BY DEF Written, PropertyCommand
<1>2. q.data[1] \in Ids
  BY <1>1, ServedMethod DEF MethodServed
<1>3. Props[q.data[1]].kind \in Kind /\ Props[q.data[1]].kind # "symbols"
  BY <1>1, <1>2, SymbolsNotSet, PropsAssumption
<1>4. CASE Props[q.data[1]].kind = "key"
  BY <1>4 DEF Reads, Keeps
<1>5. QED
  BY <1>3, <1>4, ValueReadsBack, RangeReadsBack, MemoryReadsBack DEF Kind

\* One step of WriteReadsBack.
ReadsBack ==
  request'.cmd = "SET_PROPERTY" /\ reply'.err = "S_OK" =>
    /\ Reads(values, values', request')
    /\ Keeps(values, values', request')

LEMMA NextReadsBack == TypeOK /\ [Next]_vars => [ReadsBack]_vars
<1> SUFFICES ASSUME TypeOK, Next PROVE ReadsBack
  OBVIOUS
<1>1. ASSUME NEW q \in Requests, Poll(q) PROVE ReadsBack
  <2>1. request' = q /\ reply' = Answered(values, q)
    BY <1>1 DEF Poll
  <2>2. /\ Request(q) /\ Typed(values) /\ Typed(values')
        /\ \A id \in Ids : id # NonceId => values'[id] = Serve(values, q).values[id]
    BY <1>1, PollValues
  <2>3. ASSUME q.cmd = "SET_PROPERTY", Answered(values, q).err = "S_OK"
        PROVE  Written(values, values', q)
    BY <2>2, <2>3 DEF Written
  <2>4. QED
    BY <2>1, <2>3, WrittenReads DEF ReadsBack
<1>2. CASE Return
  BY <1>2 DEF Return, ReadsBack, NoRequest
<1>3. QED
  BY <1>1, <1>2 DEF Next

\* Whatever was written before it and by whom: a block whose SET_PROPERTY is
\* acknowledged reads back, and nothing else of the property has changed.
THEOREM WritesAlwaysReadBack == Spec => WriteReadsBack
<1>1. Spec => [][ReadsBack]_vars
  BY InitIInv, NextIInv, NextReadsBack, PTL DEF Spec, IInv
<1>2. QED
  BY <1>1 DEF ReadsBack, Reads, Keeps, ReadsAs, ReadOf, PlaceOf, SizeOf, WriteReadsBack
=============================================================================
