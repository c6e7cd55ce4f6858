----------------------------- MODULE LibraryProofs -----------------------------
(***************************************************************************)
(* Five algorithms of the libraries.                                       *)
(*                                                                         *)
(* The key schedule on the way (RoundKeys), for every length of the key,   *)
(* every set of words and every sequence of words that are asked for; the  *)
(* unguarded initialization of a table (LazyTable), for any threads and    *)
(* any length of the table; the sort and the search of frozen::map         *)
(* (FrozenMap), for any names and any length of the map; the mode CCM      *)
(* (Ccm), for any lengths of block, nonce, tag, additional data and        *)
(* message, however both are cut into calls; and the cipher a byte at a    *)
(* time (Aes8), for every key and every block: it is AES (Aes), round by   *)
(* round, and decrypts what it has encrypted.                              *)
(***************************************************************************)
EXTENDS RoundKeys, LazyTable, FrozenMap, Ccm, Sequences, FiniteSets, WellFoundedInduction,
        FiniteSetTheorems, FunctionTheorems, TLAPS

-----------------------------------------------------------------------------
(* The key schedule *)

\* What is asked for and where the buffer is bound the turns that are still to come,
\* and the words of the buffer are those of the schedule.
IInv == TypeOK /\ BufferJoins /\ Approaches /\ AnswerRight

\* The invariant of the key schedule holds at the start.
LEMMA InitIInv == Init => IInv
BY NkAssumption, ScheduleAssumption
   DEF Init, IInv, TypeOK, BufferJoins, Approaches, AnswerRight, Ahead, Step, Iteration

\* A step of the expansion replaces a word by the one Nk behind it, and the same step
\* replaces that by the one Nk before it, when the word before it is there.
LEMMA ExpandedWord ==
  ASSUME NEW b \in [Step -> Word], NEW s \in Step, NEW n \in Iteration, n < Last,
         IF s > 0 THEN b[s - 1] = schedule[n + 1][s - 1] ELSE b[Nk - 1] = schedule[n][Nk - 1]
  PROVE  /\ Expanded(b, s, n) \in [Step -> Word]
         /\ \A k \in Step \ {s} : Expanded(b, s, n)[k] = b[k]
         /\ b[s] = schedule[n][s] => Expanded(b, s, n)[s] = schedule[n + 1][s]
         /\ b[s] = schedule[n + 1][s] => Expanded(b, s, n)[s] = schedule[n][s]
<1> DEFINE before == IF s > 0 THEN b[s - 1] ELSE b[Nk - 1]
           t == T(s, n, before)
<1>1. before \in Word /\ before = IF s > 0 THEN schedule[n + 1][s - 1] ELSE schedule[n][Nk - 1]
  BY NkAssumption DEF Step
<1>2. t \in Word
  BY <1>1, TAssumption
<1>3. n + 1 \in 1 .. Last /\ n + 1 \in Iteration /\ (n + 1) - 1 = n
  BY NkAssumption DEF Iteration
<1>4. schedule[n + 1][s] = X(schedule[n][s], t)
  BY <1>1, <1>3, ScheduleAssumption
<1>5. schedule[n][s] \in Word /\ schedule[n + 1][s] \in Word
  BY <1>3, ScheduleAssumption
<1>6. X(schedule[n + 1][s], t) = schedule[n][s]
  BY <1>2, <1>4, <1>5, XAssumption
<1>7. X(b[s], t) \in Word
  BY <1>2, XAssumption
<1>8. Expanded(b, s, n) = [b EXCEPT ![s] = X(b[s], t)]
  BY DEF Expanded
<1>9. QED
  BY <1>4, <1>6, <1>7, <1>8

\* The words of the buffer, with those that are ahead of iter_num named apart.
LEMMA Joins ==
  ASSUME IInv
  PROVE  \A k \in Step : /\ k < Ahead => buf[k] = schedule[iter_num + 1][k]
                         /\ ~(k < Ahead) => buf[k] = schedule[iter_num][k]
BY DEF IInv, BufferJoins

\* GetRoundKey() is called: the words asked for are a step or many away.
LEMMA AskStep ==
  ASSUME IInv, NEW n \in Iteration, NEW k \in Step, Ask(n, k)
  PROVE  IInv'
<1>1. \A j \in Step : buf[j] = schedule[iter_num][j]
  BY Joins, NkAssumption DEF Ask, Ahead, Step
<1>2. iter_num \in Iteration /\ buf \in [Step -> Word] /\ answer \in Word
  BY DEF IInv, TypeOK
<1>3. TypeOK'
  BY <1>2, NkAssumption DEF Ask, Seek, TypeOK, Iteration, Step
<1>4. Approaches'
  BY <1>2, NkAssumption DEF Ask, Seek, Approaches, Iteration
<1>5. AnswerRight'
  BY <1>1, <1>2, NkAssumption DEF Ask, Seek, AnswerRight, Iteration
<1>6. BufferJoins'
  <2>1. buf' = buf /\ i' = 0
    BY DEF Ask
  <2>2. CASE iter_num > n
    <3>1. pc' = "back" /\ iter_num' = iter_num - 1 /\ iter_num' + 1 = iter_num
      BY <1>2, <2>2, NkAssumption DEF Ask, Seek, Iteration
    <3>2. Ahead' = Nk
      BY <2>1, <3>1, NkAssumption DEF Ahead
    <3>3. ASSUME NEW j \in Step PROVE j < Ahead' /\ buf'[j] = schedule[iter_num' + 1][j]
      BY <1>1, <2>1, <3>1, <3>2, NkAssumption DEF Step
    <3>4. QED
      BY <3>3 DEF BufferJoins
  <2>3. CASE ~(iter_num > n)
    <3>1. pc' \in {"forth", "idle"} /\ iter_num' = iter_num
      BY <1>2, <2>3 DEF Ask, Seek, Iteration
    <3>2. Ahead' = 0
      BY <2>1, <3>1 DEF Ahead
    <3>3. QED
      BY <1>1, <2>1, <3>1, <3>2, NkAssumption DEF BufferJoins, Step
  <2>4. QED
    BY <2>2, <2>3
<1>7. QED
  BY <1>3, <1>4, <1>5, <1>6 DEF IInv

\* A turn of the loop that expands.
LEMMA ForthStep ==
  ASSUME IInv, Forth
  PROVE  IInv'
<1>1. /\ iter_num \in Iteration /\ buf \in [Step -> Word] /\ answer \in Word /\ i \in Step
      /\ asked \in Iteration \X Step /\ pc = "forth" /\ Ahead = i
  BY DEF IInv, TypeOK, Forth, Ahead
<1>2. iter_num < asked[1] /\ iter_num < Last /\ iter_num + 1 \in Iteration
  BY <1>1, NkAssumption DEF IInv, Approaches, Iteration
<1>3. /\ IF i > 0 THEN buf[i - 1] = schedule[iter_num + 1][i - 1]
         ELSE buf[Nk - 1] = schedule[iter_num][Nk - 1]
      /\ buf[i] = schedule[iter_num][i]
  BY <1>1, Joins, NkAssumption DEF Step
<1>4. /\ buf' \in [Step -> Word] /\ buf'[i] = schedule[iter_num + 1][i]
      /\ \A k \in Step \ {i} : buf'[k] = buf[k]
  BY <1>1, <1>2, <1>3, ExpandedWord DEF Forth
<1>5. /\ \A k \in Step : k < i + 1 => buf'[k] = schedule[iter_num + 1][k]
      /\ \A k \in Step : ~(k < i + 1) => buf'[k] = schedule[iter_num][k]
  BY <1>1, <1>4, Joins DEF Step
<1>6. CASE i < Nk - 1
  <2>1. i' = i + 1 /\ i' \in Step /\ UNCHANGED <<iter_num, pc, answer, asked>>
    BY <1>1, <1>6, NkAssumption DEF Forth, Step
  <2>2. Ahead' = i + 1
    BY <1>1, <2>1 DEF Ahead
  <2>3. TypeOK' /\ Approaches' /\ AnswerRight'
    BY <1>1, <1>2, <1>4, <2>1 DEF IInv, TypeOK, Approaches, AnswerRight
  <2>4. BufferJoins'
    BY <1>5, <2>1, <2>2 DEF BufferJoins
  <2>5. QED
    BY <2>3, <2>4 DEF IInv
<1>7. CASE ~(i < Nk - 1)
  <2>1. i' = 0 /\ iter_num' = iter_num + 1 /\ asked' = asked
        /\ pc' = (IF iter_num' < asked[1] THEN "forth" ELSE "idle")
        /\ answer' = (IF iter_num' = asked[1] THEN buf'[asked[2]] ELSE answer)
    BY <1>1, <1>2, <1>7, NkAssumption DEF Forth, Seek, Iteration
  <2>2. i = Nk - 1 /\ \A k \in Step : buf'[k] = schedule[iter_num'][k]
    BY <1>1, <1>5, <1>7, <2>1, NkAssumption DEF Step
  <2>3. TypeOK'
    BY <1>1, <1>2, <1>4, <2>1, NkAssumption DEF TypeOK, Step
  <2>4. Approaches' /\ AnswerRight'
    <3>1. asked[1] \in Iteration /\ asked[2] \in Step /\ iter_num' \in Iteration
      BY <1>1, <1>2, <2>1
    <3>2. Approaches'
      <4>1. iter_num \in Int /\ iter_num' \in Int /\ asked[1] \in Int
        BY <1>1, <3>1, NkAssumption DEF Iteration
      <4>2. ~(iter_num' < asked[1]) => iter_num' = asked[1]
        BY <1>2, <2>1, <4>1
      <4>3. pc' = "idle" => iter_num' = asked[1]
        BY <2>1, <4>2
      <4>4. pc' = "forth" => iter_num' < asked[1]
        BY <2>1
      <4>5. pc' # "back"
        BY <2>1
      <4>6. QED
        BY <2>1, <4>3, <4>4, <4>5 DEF Approaches
    <3>3. AnswerRight'
      <4>1. SUFFICES ASSUME pc' = "idle" PROVE answer' = schedule[asked[1]][asked[2]]
        BY <2>1 DEF AnswerRight
      <4>2. iter_num' = asked[1]
        BY <1>1, <1>2, <2>1, <3>1, <4>1 DEF Iteration
      <4>3. QED
        BY <2>1, <2>2, <3>1, <4>2
    <3>4. QED
      BY <3>2, <3>3
  <2>5. BufferJoins'
    BY <2>1, <2>2, NkAssumption DEF BufferJoins, Ahead, Step
  <2>6. QED
    BY <2>3, <2>4, <2>5 DEF IInv
<1>8. QED
  BY <1>6, <1>7

\* A turn of the loop that goes back, from the last word of the buffer to the first.
LEMMA BackStepKeeps ==
  ASSUME IInv, Back
  PROVE  IInv'
<1> DEFINE s == Nk - i - 1
<1>1. /\ iter_num \in Iteration /\ buf \in [Step -> Word] /\ answer \in Word /\ i \in Step
      /\ asked \in Iteration \X Step /\ pc = "back" /\ Ahead = Nk - i
  BY DEF IInv, TypeOK, Back, Ahead
<1>2. iter_num >= asked[1] /\ iter_num < Last /\ s \in Step /\ Nk - i = s + 1
  BY <1>1, NkAssumption DEF IInv, Approaches, Iteration, Step
<1>3. /\ IF s > 0 THEN buf[s - 1] = schedule[iter_num + 1][s - 1]
         ELSE buf[Nk - 1] = schedule[iter_num][Nk - 1]
      /\ buf[s] = schedule[iter_num + 1][s]
  BY <1>1, <1>2, Joins, NkAssumption DEF Step
<1>4. /\ buf' \in [Step -> Word] /\ buf'[s] = schedule[iter_num][s]
      /\ \A k \in Step \ {s} : buf'[k] = buf[k]
  BY <1>1, <1>2, <1>3, ExpandedWord DEF Back, BackStep
<1>5. /\ \A k \in Step : k < s => buf'[k] = schedule[iter_num + 1][k]
      /\ \A k \in Step : ~(k < s) => buf'[k] = schedule[iter_num][k]
  <2>1. /\ \A k \in Step : k < s + 1 => buf[k] = schedule[iter_num + 1][k]
        /\ \A k \in Step : ~(k < s + 1) => buf[k] = schedule[iter_num][k]
    BY <1>1, <1>2, Joins
  <2>2. \A k \in Step : k \in Int /\ s \in Int
    BY <1>2 DEF Step
  <2> HIDE DEF s
  <2>3. QED
    BY <1>2, <1>4, <2>1, <2>2
<1>6. CASE i < Nk - 1
  <2>1. i' = i + 1 /\ i' \in Step /\ UNCHANGED <<iter_num, pc, answer, asked>>
    BY <1>1, <1>6, NkAssumption DEF Back, Step
  <2>2. Ahead' = s
    BY <1>1, <1>2, <2>1, NkAssumption DEF Ahead, Step
  <2>3. TypeOK' /\ Approaches' /\ AnswerRight'
    BY <1>1, <1>2, <1>4, <2>1 DEF IInv, TypeOK, Approaches, AnswerRight
  <2>4. BufferJoins'
    BY <1>5, <2>1, <2>2 DEF BufferJoins
  <2>5. QED
    BY <2>3, <2>4 DEF IInv
<1>7. CASE ~(i < Nk - 1)
  <2>1. i' = 0 /\ asked' = asked
        /\ pc' = (IF iter_num > asked[1] THEN "back" ELSE "idle")
        /\ iter_num' = (IF iter_num > asked[1] THEN iter_num - 1 ELSE iter_num)
        /\ answer' = (IF iter_num = asked[1] THEN buf'[asked[2]] ELSE answer)
    BY <1>1, <1>2, <1>7, NkAssumption DEF Back, Seek, Iteration
  <2>2. s = 0 /\ \A k \in Step : buf'[k] = schedule[iter_num][k]
    <3>1. s = 0
      BY <1>1, <1>7, NkAssumption DEF Step
    <3>2. \A k \in Step : ~(k < s)
      BY <3>1 DEF Step
    <3> HIDE DEF s
    <3>3. QED
      BY <1>5, <3>1, <3>2
  <2>3. TypeOK'
    BY <1>1, <1>2, <1>4, <2>1, NkAssumption DEF TypeOK, Step, Iteration
  <2>4. Approaches' /\ AnswerRight'
    BY <1>1, <1>2, <2>1, <2>2, NkAssumption DEF Approaches, AnswerRight, Iteration
  <2>5. BufferJoins'
    <3>1. CASE iter_num > asked[1]
      <4>1. Ahead' = Nk /\ iter_num' + 1 = iter_num
        BY <1>1, <2>1, <3>1, NkAssumption DEF Ahead, Iteration
      <4>2. ASSUME NEW j \in Step PROVE j < Ahead' /\ buf'[j] = schedule[iter_num' + 1][j]
        BY <1>1, <2>2, <4>1, NkAssumption DEF Step
      <4>3. QED
        BY <4>2 DEF BufferJoins
    <3>2. CASE ~(iter_num > asked[1])
      BY <2>1, <2>2, <3>2, NkAssumption DEF BufferJoins, Ahead, Step
    <3>3. QED
      BY <3>1, <3>2
  <2>6. QED
    BY <2>3, <2>4, <2>5 DEF IInv
<1>8. QED
  BY <1>6, <1>7

\* Every step keeps the invariant of the key schedule.
LEMMA NextIInv == IInv /\ [Next]_vars => IInv'
<1> SUFFICES ASSUME IInv, [Next]_vars PROVE IInv'
  OBVIOUS
<1>1. ASSUME NEW n \in Iteration, NEW k \in Step, Ask(n, k) PROVE IInv'
  BY <1>1, AskStep
<1>2. CASE Forth
  BY <1>2, ForthStep
<1>3. CASE Back
  BY <1>3, BackStepKeeps
<1>4. CASE UNCHANGED vars
  BY <1>4 DEF vars, IInv, TypeOK, BufferJoins, Approaches, AnswerRight, Ahead
<1>5. QED
  BY <1>1, <1>2, <1>3, <1>4 DEF Next

\* For every key length, every schedule and every order of requests, forth and back,
\* GetRoundKey() returns the word that was asked for, and never moves the buffer beyond
\* the schedule.
THEOREM ScheduleRecovered == Spec => [](AnswerRight /\ BufferJoins /\ Approaches)
<1>1. IInv => AnswerRight /\ BufferJoins /\ Approaches
  BY DEF IInv
<1>2. QED
  BY InitIInv, NextIInv, <1>1, PTL DEF Spec

\* The buffer and the loop variables keep their types.
THEOREM RoundKeysTypeCorrect == Spec => []TypeOK
<1>1. IInv => TypeOK
  BY DEF IInv
<1>2. QED
  BY InitIInv, NextIInv, <1>1, PTL DEF Spec

-----------------------------------------------------------------------------
(* The table *)

\* What the others see of a thread it has written, and a thread gets behind
\* the initialization only when it sees entry 0, the last one written.
TableInv ==
  /\ TableTypeOK /\ FilledOnce
  /\ \A t \in Thread : visible[t] <= stored[t]
  /\ \A t \in Thread : at[t] = "ready" => Has(t, 0)

\* What has been written is not taken back: who sees an entry goes on seeing it.
LEMMA SeenStays ==
  ASSUME LastEntryAssumption, TableTypeOK, NEW t \in Thread, NEW e \in Entry, Has(t, e),
         \A u \in Thread : stored'[u] >= stored[u] /\ visible'[u] >= visible[u], TableTypeOK'
  PROVE  Has(t, e)'
BY DEF LastEntryAssumption, Has, Place, TableTypeOK, Entry

\* Entry 0 is the last one: who sees it sees them all.
LEMMA ZeroIsLast ==
  ASSUME LastEntryAssumption, TableTypeOK, NEW t \in Thread, NEW e \in Entry, Has(t, 0)
  PROVE  Has(t, e)
BY DEF LastEntryAssumption, Has, Place, TableTypeOK, Entry

\* The invariant of the table holds at the start.
LEMMA InitTableInv == LastEntryAssumption => (TableInit => TableInv)
BY DEF LastEntryAssumption, TableInit, TableInv, TableTypeOK, FilledOnce

\* Every step keeps the invariant of the table.
LEMMA NextTableInv == LastEntryAssumption => (TableInv /\ [TableNext]_tableVars => TableInv')
<1> SUFFICES ASSUME LastEntryAssumption, TableInv, [TableNext]_tableVars PROVE TableInv'
  OBVIOUS
<1> USE DEF LastEntryAssumption
<1>0. 0 \in Entry
  BY DEF Entry
<1>1. ASSUME NEW t \in Thread, See(t) PROVE TableInv'
  <2>1. TableTypeOK' /\ \A u \in Thread : visible'[u] <= stored'[u]
    BY <1>1 DEF TableInv, TableTypeOK, See
  <2>2. stored' = stored /\ visible' = visible
    BY <1>1 DEF See
  <2>3. ~Has(t, 0) => stored[t] # LastEntry + 1
    BY DEF Has, Place, TableInv, TableTypeOK
  <2>4. FilledOnce'
    BY <1>1, <2>2, <2>3 DEF TableInv, TableTypeOK, FilledOnce, See
  <2>5. \A u \in Thread : at'[u] = "ready" => Has(u, 0)
    BY <1>1 DEF TableInv, TableTypeOK, See
  <2>6. \A u \in Thread : Has(u, 0)' <=> Has(u, 0)
    BY <2>2 DEF Has
  <2>7. QED
    BY <2>1, <2>4, <2>5, <2>6 DEF TableInv
<1>2. ASSUME NEW t \in Thread, Write(t) PROVE TableInv'
  <2>1. stored[t] \in 0 .. LastEntry
    BY <1>2 DEF TableInv, TableTypeOK, FilledOnce, Write
  <2>2. TableTypeOK'
    BY <1>2, <2>1 DEF TableInv, TableTypeOK, Write
  <2>3. /\ \A u \in Thread : stored'[u] >= stored[u] /\ visible'[u] >= visible[u]
        /\ \A u \in Thread : visible'[u] <= stored'[u]
    BY <1>2, <2>1 DEF TableInv, TableTypeOK, Write
  <2>4. FilledOnce'
    BY <1>2, <2>1 DEF TableInv, TableTypeOK, FilledOnce, Write
  <2>5. ASSUME NEW u \in Thread, at'[u] = "ready" PROVE Has(u, 0)'
    <3>1. CASE at[u] = "ready"
      BY <1>0, <2>2, <2>3, <3>1, SeenStays DEF TableInv
    <3>2. CASE at[u] # "ready"
      <4>1. u = t /\ stored'[u] = LastEntry + 1
        BY <1>2, <2>5, <3>2 DEF TableInv, TableTypeOK, Write
      <4>2. QED
        BY <4>1 DEF Has, Place
    <3>3. QED
      BY <3>1, <3>2
  <2>6. QED
    BY <2>2, <2>3, <2>4, <2>5 DEF TableInv
<1>3. ASSUME NEW t \in Thread, Drain(t) PROVE TableInv'
  <2>1. TableTypeOK' /\ \A u \in Thread : visible'[u] <= stored'[u]
    BY <1>3 DEF TableInv, TableTypeOK, Drain
  <2>2. \A u \in Thread : stored'[u] >= stored[u] /\ visible'[u] >= visible[u]
    BY <1>3 DEF TableInv, TableTypeOK, Drain
  <2>3. FilledOnce'
    BY <1>3 DEF TableInv, FilledOnce, Drain
  <2>4. ASSUME NEW u \in Thread, at'[u] = "ready" PROVE Has(u, 0)'
    BY <1>0, <1>3, <2>1, <2>2, <2>4, SeenStays DEF TableInv, Drain
  <2>5. QED
    BY <2>1, <2>3, <2>4 DEF TableInv
<1>4. ASSUME NEW t \in Thread, Return(t) PROVE TableInv'
  BY <1>4 DEF TableInv, TableTypeOK, FilledOnce, Return, Has
<1>5. CASE UNCHANGED tableVars
  BY <1>5 DEF tableVars, TableInv, TableTypeOK, FilledOnce, Has
<1>6. QED
  BY <1>1, <1>2, <1>3, <1>4, <1>5 DEF TableNext

\* However many threads use the table for the first time at once, none of them uses an entry
\* of the table that has not been written.
THEOREM NoEmptyEntryRead ==
  ASSUME LastEntryAssumption
  PROVE  TableSpec => []ReadsRight
<1>1. TableInv => ReadsRight
  BY ZeroIsLast DEF TableInv, ReadsRight
<1>2. QED
  BY InitTableInv, NextTableInv, <1>1, PTL DEF TableSpec

\* A thread fills the table at most once and never writes beyond it.
THEOREM TableFilledOnce ==
  ASSUME LastEntryAssumption
  PROVE  TableSpec => [](TableTypeOK /\ FilledOnce)
<1>1. TableInv => TableTypeOK /\ FilledOnce
  BY DEF TableInv
<1>2. QED
  BY InitTableInv, NextTableInv, <1>1, PTL DEF TableSpec

\* However many threads use the table for the first time at once, on each of them it is
\* whole when it is read and written once.
THEOREM TableAlwaysRight ==
  ASSUME LastEntryAssumption
  PROVE  TableSpec => []TableRight
<1>1. TableTypeOK /\ FilledOnce /\ ReadsRight => TableRight
  BY DEF TableRight
<1>2. QED
  BY <1>1, NoEmptyEntryRead, TableFilledOnce, PTL

-----------------------------------------------------------------------------
(* frozen::map: the order of the names *)

\* What an induction over numbers comes down to: a set of them has a smallest.
LEMMA Smallest ==
  ASSUME NEW S \in SUBSET Nat, S # {}
  PROVE  \E x \in S : \A y \in S : x <= y
<1> DEFINE RR == {ss \in Nat \X Nat : ss[1] < ss[2]}
<1>1. IsWellFoundedOn(RR, Nat)
  BY NatLessThanWellFounded DEF OpToRel
<1>2. PICK x \in S : \A y \in S : ~ (<<y, x>> \in RR)
  <2> HIDE DEF RR
  <2>1. QED
    BY <1>1, WFMin, Zenon
<1>3. \A y \in S : <<y, x>> \in RR <=> y < x
  OBVIOUS
<1>4. \A y \in S : x \in Nat /\ y \in Nat /\ ~(y < x)
  <2> HIDE DEF RR
  <2>1. QED
    BY <1>2, <1>3
<1>5. QED
  BY <1>4

\* A string as it is compared: it ends with something that is less than every character.
At(s, h) == IF h <= Len(s) THEN s[h] ELSE -1

\* Where a byte may be in a string.
Spot == Nat \ {0}

\* At() is a number, and -1 only behind the string.
LEMMA AtType ==
  \A s \in Seq(Nat), h \in Spot :
    At(s, h) \in Int /\ At(s, h) >= -1 /\ (At(s, h) = -1 <=> h > Len(s))
BY DEF At, Spot

\* s and t are the same in front of place h.
Alike(s, t, h) == \A j \in Spot : j < h => At(s, j) = At(t, j)

\* operator< by the first place where the strings differ, for strings of any length.
LEMMA LessMeans ==
  ASSUME NEW s \in Seq(Nat), NEW t \in Seq(Nat)
  PROVE  Less(s, t) <=> \E h \in Spot : At(s, h) < At(t, h) /\ Alike(s, t, h)
<1> DEFINE differ == {h \in 1 .. Len(s) : h <= Len(t) /\ s[h] # t[h]}
<1>1. CASE differ = {}
  <2>1. Less(s, t) <=> Len(s) < Len(t)
    BY <1>1 DEF Less
  <2>2. ASSUME NEW j \in Spot, j <= Len(s), j <= Len(t)
        PROVE  s[j] = t[j]
    <3>1. j \in 1 .. Len(s) /\ j \notin differ
      BY <1>1, <2>2 DEF Spot
    <3>2. QED
      BY <2>2, <3>1
  <2>3. ASSUME Len(s) < Len(t) PROVE \E h \in Spot : At(s, h) < At(t, h) /\ Alike(s, t, h)
    <3>1. Len(s) + 1 \in Spot /\ Alike(s, t, Len(s) + 1)
      BY <2>2, <2>3 DEF Alike, At, Spot
    <3>2. At(s, Len(s) + 1) < At(t, Len(s) + 1)
      BY <2>3 DEF At
    <3>3. QED
      BY <3>1, <3>2
  <2>4. ASSUME NEW h \in Spot, At(s, h) < At(t, h) PROVE Len(s) < Len(t)
    BY <2>2, <2>4, AtType DEF At, Spot
  <2>5. QED
    BY <2>1, <2>3, <2>4
<1>2. CASE differ # {}
  <2>1. differ \in SUBSET Nat
    OBVIOUS
  <2>2. PICK x \in differ : \A y \in differ : x <= y
    BY <1>2, <2>1, Smallest
  <2> DEFINE m == CHOOSE z \in differ : \A y \in differ : z <= y
  <2>3. m \in differ /\ \A y \in differ : m <= y
    BY <2>2
  <2>4. Less(s, t) <=> s[m] < t[m]
    BY <1>2 DEF Less
  <2> HIDE DEF m
  <2>5. m \in Spot /\ m <= Len(s) /\ m <= Len(t) /\ At(s, m) = s[m] /\ At(t, m) = t[m] /\ s[m] # t[m]
    BY <2>3 DEF At, Spot
  <2>6. Alike(s, t, m)
    BY <2>3, <2>5 DEF Alike, At, Spot
  <2>7. ASSUME NEW h \in Spot, At(s, h) < At(t, h), Alike(s, t, h) PROVE h = m
    <3>1. ~(m < h)
      BY <2>5, <2>7 DEF Alike
    <3>2. ~(h < m)
      BY <2>5, <2>6, <2>7, AtType DEF Alike
    <3>3. QED
      BY <2>5, <3>1, <3>2 DEF Spot
  <2>8. QED
    BY <2>4, <2>5, <2>6, <2>7
<1>3. QED
  BY <1>1, <1>2

\* Of two strings that differ at all there is a first place where they do.
LEMMA FirstDifference ==
  ASSUME NEW s \in Seq(Nat), NEW t \in Seq(Nat), NEW h \in Spot, At(s, h) # At(t, h)
  PROVE  \E j \in Spot : j <= h /\ At(s, j) # At(t, j) /\ Alike(s, t, j)
<1> DEFINE differ == {j \in Spot : At(s, j) # At(t, j)}
<1>1. differ \in SUBSET Nat /\ differ # {} /\ h \in differ
  BY DEF Spot
<1>2. PICK j \in differ : \A k \in differ : j <= k
  <2> HIDE DEF differ
  <2>1. QED
    BY <1>1, Smallest
<1>3. j <= h
  BY <1>1, <1>2
<1>4. Alike(s, t, j)
  BY <1>2 DEF Alike, Spot
<1>5. QED
  BY <1>2, <1>3, <1>4

\* Of two strings at most one is less than the other.
LEMMA LessAsymmetric ==
  ASSUME NEW s \in Seq(Nat), NEW t \in Seq(Nat), Less(s, t)
  PROVE  ~Less(t, s)
<1>1. PICK h \in Spot : At(s, h) < At(t, h) /\ Alike(s, t, h)
  BY LessMeans
<1>2. ASSUME NEW j \in Spot, At(t, j) < At(s, j), Alike(t, s, j) PROVE FALSE
  <2>1. ~(h < j) /\ ~(j < h)
    BY <1>1, <1>2, AtType DEF Alike
  <2>2. h = j
    BY <2>1 DEF Spot
  <2>3. QED
    BY <1>1, <1>2, <2>2, AtType
<1>3. QED
  BY <1>2, LessMeans

\* What is neither behind s nor before t is not between them when s is not behind t.
LEMMA LessBetween ==
  ASSUME NEW s \in Seq(Nat), NEW t \in Seq(Nat), NEW u \in Seq(Nat), Less(s, t)
  PROVE  Less(s, u) \/ Less(u, t)
<1>1. PICK h \in Spot : At(s, h) < At(t, h) /\ Alike(s, t, h)
  BY LessMeans
<1>2. CASE At(u, h) = At(s, h) /\ Alike(u, s, h)
  <2>1. Alike(u, t, h)
    BY <1>1, <1>2 DEF Alike
  <2>2. QED
    BY <1>1, <1>2, <2>1, LessMeans
<1>3. CASE ~(At(u, h) = At(s, h) /\ Alike(u, s, h))
  <2>1. PICK k \in Spot : k <= h /\ At(s, k) # At(u, k)
    BY <1>3 DEF Alike, Spot
  <2>2. PICK j \in Spot : j <= k /\ At(s, j) # At(u, j) /\ Alike(s, u, j)
    BY <2>1, FirstDifference
  <2>3. j <= h /\ At(s, j) \in Int /\ At(u, j) \in Int /\ At(t, j) \in Int
    BY <2>1, <2>2, AtType DEF Spot
  <2>4. CASE At(s, j) < At(u, j)
    BY <2>2, <2>4, LessMeans
  <2>5. CASE At(u, j) < At(s, j)
    <3>1. At(s, j) <= At(t, j) /\ Alike(s, t, j)
      <4>1. j < h \/ j = h
        BY <2>3 DEF Spot
      <4>2. At(s, j) <= At(t, j)
        BY <1>1, <2>3, <4>1 DEF Alike
      <4>3. Alike(s, t, j)
        BY <1>1, <2>3 DEF Alike, Spot
      <4>4. QED
        BY <4>2, <4>3
    <3>2. At(u, j) < At(t, j) /\ Alike(u, t, j)
      BY <2>2, <2>3, <2>5, <3>1 DEF Alike
    <3>3. QED
      BY <3>2, LessMeans
  <2>6. QED
    BY <2>2, <2>3, <2>4, <2>5
<1>4. QED
  BY <1>2, <1>3

\* Of two strings that are not equal one is less than the other.
LEMMA LessTotal ==
  ASSUME NEW s \in Seq(Nat), NEW t \in Seq(Nat), s # t
  PROVE  Less(s, t) \/ Less(t, s)
<1>1. \E h \in Spot : At(s, h) # At(t, h)
  <2> SUFFICES ASSUME \A h \in Spot : At(s, h) = At(t, h) PROVE s = t
    OBVIOUS
  <2>1. Len(s) \in Nat /\ Len(t) \in Nat /\ Len(s) = Len(t)
    <3>1. ~(Len(s) < Len(t))
      BY AtType DEF Spot
    <3>2. ~(Len(t) < Len(s))
      BY AtType DEF Spot
    <3>3. QED
      BY <3>1, <3>2
  <2>2. \A h \in 1 .. Len(s) : s[h] = t[h]
    BY <2>1 DEF At, Spot
  <2>3. QED
    BY <2>1, <2>2
<1>2. PICK j \in Spot : At(s, j) # At(t, j) /\ Alike(s, t, j)
  BY <1>1, FirstDifference
<1>3. Alike(t, s, j) /\ At(s, j) \in Int /\ At(t, j) \in Int
  BY <1>2, AtType DEF Alike
<1>4. QED
  BY <1>2, <1>3, LessMeans

\* operator< orders the names, and no two of them are equal to it.
NamesOrdered ==
  /\ \A s, t \in Name : Less(s, t) => ~Less(t, s)
  /\ \A s, t, u \in Name : Less(s, t) => Less(s, u) \/ Less(u, t)
  /\ \A s, t \in Name : s # t => Less(s, t) \/ Less(t, s)

\* operator< orders the names.
LEMMA NamesAreOrdered ==
  ASSUME FrozenMapAssumption
  PROVE  NamesOrdered
<1>1. \A s \in Name : s \in Seq(Nat)
  BY DEF FrozenMapAssumption
<1>2. \A s, t \in Name : Less(s, t) => ~Less(t, s)
  BY <1>1, LessAsymmetric
<1>3. \A s, t, u \in Name : Less(s, t) => Less(s, u) \/ Less(u, t)
  BY <1>1, LessBetween
<1>4. \A s, t \in Name : s # t => Less(s, t) \/ Less(t, s)
  BY <1>1, LessTotal
<1>5. QED
  BY <1>2, <1>3, <1>4 DEF NamesOrdered

-----------------------------------------------------------------------------
(* frozen::map: the sort *)

\* The indices of the array.
Index == 0 .. N - 1

\* The calls of quicksort() that run have parts of the array of their own, from the front
\* to the back.
CallsApart ==
  /\ stack \in Seq([left : Nat, right : Nat])
  /\ \A k \in 1 .. Len(stack) : stack[k].right < N
  /\ \A k, l \in 1 .. Len(stack) : k < l => stack[k].right < stack[l].left

\* A call that runs has places j and k still to sort.
Pending(j, k) == \E c \in 1 .. Len(stack) : stack[c].left <= j /\ k <= stack[c].right

\* Two entries that are in no call's part together are in order.
RestSorted == \A j, k \in Index : j < k => Pending(j, k) \/ ~Less(items[k], items[j])

\* In front of `to` the entries are less than the pivot, from there to `it` they are not.
Partitioned ==
  phase = "partition" =>
    /\ stack # <<>> /\ it \in Nat /\ to \in Nat
    /\ stack[1].left <= to /\ to <= it /\ it <= stack[1].right
    /\ \A j \in Index : stack[1].left <= j /\ j < to => Less(items[j], items[stack[1].right])
    /\ \A j \in Index : to <= j /\ j < it => ~Less(items[j], items[stack[1].right])

\* The invariant of the sort.
SortInv ==
  /\ N \in Nat \ {0} /\ items \in [Index -> Name]
  /\ phase \in {"sort", "partition", "ready", "first", "fast"}
  /\ phase \notin {"sort", "partition"} => stack = <<>>
  /\ CallsApart /\ RestSorted /\ Partitioned

\* The types of what the calls that run keep.
LEMMA CallsTyped ==
  ASSUME CallsApart
  PROVE  /\ \A c \in 1 .. Len(stack) :
              /\ c \in Nat /\ stack[c] \in [left : Nat, right : Nat]
              /\ stack[c].left \in Nat /\ stack[c].right \in Nat /\ stack[c].right < N
         /\ stack # <<>> => 1 \in 1 .. Len(stack)
<1>1. ASSUME NEW S, NEW s \in Seq(S)
      PROVE  (\A c \in 1 .. Len(s) : c \in Nat /\ s[c] \in S) /\ (s # <<>> => 1 \in 1 .. Len(s))
  OBVIOUS
<1>2. \A c \in 1 .. Len(stack) : c \in Nat /\ stack[c] \in [left : Nat, right : Nat]
  BY <1>1 DEF CallsApart
<1>3. stack # <<>> => 1 \in 1 .. Len(stack)
  BY <1>1 DEF CallsApart
<1>4. QED
  BY <1>2, <1>3 DEF CallsApart

\* What the first call does in its own part leaves what is in order in order.
LEMMA SwapKeepsOrder ==
  ASSUME SortInv, stack # <<>>,
         NEW h \in stack[1].left .. stack[1].right, NEW j \in stack[1].left .. stack[1].right,
         items' = Swapped(items, h, j)
  PROVE  /\ N' = N /\ Index' = Index /\ items' \in [Index -> Name] /\ h \in Index /\ j \in Index
         /\ \A k \in Index : items'[k] = IF k = j THEN items[h] ELSE IF k = h THEN items[j] ELSE items[k]
         /\ \A a, b \in Index : a < b /\ ~Pending(a, b) => ~Less(items'[b], items'[a])
<1>1. /\ 1 \in 1 .. Len(stack) /\ stack[1].left \in Nat /\ stack[1].right \in Nat
      /\ stack[1].right < N /\ N \in Nat
  BY CallsTyped DEF SortInv
<1>2. h \in Index /\ j \in Index /\ items \in [Index -> Name]
  BY <1>1 DEF Index, SortInv
<1>3. /\ items' \in [Index -> Name]
      /\ \A k \in Index : items'[k] = IF k = j THEN items[h] ELSE IF k = h THEN items[j] ELSE items[k]
  <2>1. /\ Swapped(items, h, j) \in [Index -> Name]
        /\ \A k \in Index : Swapped(items, h, j)[k]
                              = IF k = j THEN items[h] ELSE IF k = h THEN items[j] ELSE items[k]
    BY <1>2 DEF Swapped
  <2>2. QED
    BY <2>1
<1>4. DOMAIN items = Index /\ DOMAIN items' = Index
  BY <1>2, <1>3
<1>5. N' = N /\ Index' = Index
  BY <1>4 DEF N, Index
<1>6. ASSUME NEW a \in Index, NEW b \in Index, a < b, ~Pending(a, b)
      PROVE  ~Less(items'[b], items'[a])
  <2> DEFINE inside(k) == k \in stack[1].left .. stack[1].right
  <2>1. \A k, l \in Index : k < l /\ ~Pending(k, l) => ~Less(items[l], items[k])
    BY DEF SortInv, RestSorted
  <2>2. ~(inside(a) /\ inside(b))
    BY <1>1, <1>6 DEF Pending
  <2>3. CASE ~inside(a) /\ ~inside(b)
    BY <1>3, <1>6, <2>1, <2>3
  <2>4. CASE inside(a)
    <3>1. items'[b] = items[b] /\ b > stack[1].right
      BY <1>1, <1>3, <1>6, <2>2, <2>4 DEF Index
    <3>2. PICK k \in Index : inside(k) /\ items'[a] = items[k]
      BY <1>2, <1>3, <2>4
    <3>3. k < b
      BY <1>1, <3>1, <3>2 DEF Index
    <3>4. ~Pending(k, b)
      <4> SUFFICES ASSUME NEW c \in 1 .. Len(stack), stack[c].left <= k, b <= stack[c].right
                   PROVE  FALSE
        BY DEF Pending
      <4>1. stack[c].left \in Nat /\ stack[c].right \in Nat /\ c \in Nat
        BY CallsTyped DEF SortInv
      <4>2. c # 1
        BY <1>1, <3>1, <4>1 DEF Index
      <4>3. stack[1].right < stack[c].left
        BY <1>1, <4>2 DEF SortInv, CallsApart
      <4>4. QED
        BY <1>1, <3>2, <4>1, <4>3 DEF Index
    <3>5. QED
      BY <2>1, <3>1, <3>2, <3>3, <3>4
  <2>5. CASE inside(b)
    <3>1. items'[a] = items[a] /\ a < stack[1].left
      BY <1>1, <1>3, <1>6, <2>2, <2>5 DEF Index
    <3>2. PICK k \in Index : inside(k) /\ items'[b] = items[k]
      BY <1>2, <1>3, <2>5
    <3>3. a < k
      BY <1>1, <3>1, <3>2 DEF Index
    <3>4. ~Pending(a, k)
      <4> SUFFICES ASSUME NEW c \in 1 .. Len(stack), stack[c].left <= a, k <= stack[c].right
                   PROVE  FALSE
        BY DEF Pending
      <4>1. stack[c].left \in Nat /\ stack[c].right \in Nat /\ c \in Nat
        BY CallsTyped DEF SortInv
      <4>2. c # 1
        BY <1>1, <3>1, <4>1 DEF Index
      <4>3. stack[1].right < stack[c].left
        BY <1>1, <4>2 DEF SortInv, CallsApart
      <4>4. QED
        BY <1>1, <3>1, <4>1, <4>3 DEF Index
    <3>5. QED
      BY <2>1, <3>1, <3>2, <3>3, <3>4
  <2>6. QED
    BY <2>3, <2>4, <2>5
<1>7. QED
  BY <1>2, <1>3, <1>5, <1>6

\* An exchange inside a part leaves everything else where it is.
LEMMA SwapInside ==
  ASSUME SortInv, stack # <<>>, UNCHANGED stack,
         NEW h \in stack[1].left .. stack[1].right, NEW j \in stack[1].left .. stack[1].right,
         items' = Swapped(items, h, j)
  PROVE  /\ N' = N /\ Index' = Index /\ items' \in [Index -> Name] /\ h \in Index /\ j \in Index
         /\ \A k \in Index : items'[k] = IF k = j THEN items[h] ELSE IF k = h THEN items[j] ELSE items[k]
         /\ CallsApart' /\ RestSorted'
<1>1. /\ N' = N /\ Index' = Index /\ items' \in [Index -> Name] /\ h \in Index /\ j \in Index
      /\ \A k \in Index : items'[k] = IF k = j THEN items[h] ELSE IF k = h THEN items[j] ELSE items[k]
      /\ \A a, b \in Index : a < b /\ ~Pending(a, b) => ~Less(items'[b], items'[a])
  BY SwapKeepsOrder
<1>2. CallsApart'
  BY <1>1 DEF CallsApart, SortInv
<1>3. \A a, b \in Index : Pending(a, b)' <=> Pending(a, b)
  BY DEF Pending
<1>4. RestSorted'
  BY <1>1, <1>3 DEF RestSorted
<1>5. QED
  BY <1>1, <1>2, <1>4


\* The invariant of the sort holds at the start.
LEMMA InitSortInv == FrozenMapAssumption /\ MapInit => SortInv
<1> SUFFICES ASSUME FrozenMapAssumption, MapInit PROVE SortInv
  OBVIOUS
<1>1. PICK length \in 1 .. MaxN : items \in [0 .. length - 1 -> Name]
  BY DEF MapInit
<1>2. MaxN \in Nat
  BY DEF MapInit, FrozenMapAssumption
<1>3. length \in Nat \ {0} /\ DOMAIN items = 0 .. length - 1
  BY <1>1, <1>2
<1>4. N = length
  <2>1. Cardinality(0 .. length - 1) = length
    <3>1. 0 \in Int /\ length - 1 \in Int /\ ~(0 > length - 1) /\ ((length - 1) - 0) + 1 = length
      BY <1>3
    <3>2. QED
      BY <3>1, FS_Interval
  <2>2. QED
    BY <1>3, <2>1 DEF N
<1>5. Index = 0 .. length - 1
  BY <1>4 DEF Index
<1>6. stack = << [left |-> 0, right |-> length - 1] >> /\ phase = "sort"
  BY <1>4 DEF MapInit
<1>7. length - 1 \in Nat
  BY <1>3
<1>8. CallsApart
  <2>1. [left |-> 0, right |-> length - 1] \in [left : Nat, right : Nat]
    BY <1>7
  <2>2. \A S, e : e \in S => << e >> \in Seq(S) /\ Len(<< e >>) = 1 /\ << e >>[1] = e
    OBVIOUS
  <2>3. stack \in Seq([left : Nat, right : Nat]) /\ Len(stack) = 1 /\ stack[1].right = length - 1
    BY <1>6, <2>1, <2>2
  <2>4. \A k \in 1 .. Len(stack) : k = 1
    BY <2>3
  <2>5. QED
    BY <1>3, <1>4, <2>3, <2>4 DEF CallsApart
<1>9. RestSorted
  <2>1. ASSUME NEW j \in Index, NEW k \in Index PROVE Pending(j, k)
    <3>1. 1 \in 1 .. Len(stack) /\ stack[1].left = 0 /\ stack[1].right = length - 1
      BY <1>6
    <3>2. 0 <= j /\ k <= length - 1
      BY <1>5
    <3>3. QED
      BY <3>1, <3>2 DEF Pending
  <2>2. QED
    BY <2>1 DEF RestSorted
<1>10. QED
  BY <1>1, <1>3, <1>4, <1>5, <1>6, <1>8, <1>9 DEF SortInv, Partitioned

\* The choice of the pivot keeps the invariant of the sort.
LEMMA SortTurnStep == SortInv /\ SortTurn => SortInv'
<1> SUFFICES ASSUME SortInv, SortTurn PROVE SortInv'
  OBVIOUS
<1> DEFINE left == stack[1].left
           right == stack[1].right
           middle == left + (right - left) \div 2
<1>1. /\ phase = "sort" /\ stack # <<>> /\ left < right /\ UNCHANGED stack
      /\ items' = Swapped(items, middle, right) /\ it' = left /\ to' = left /\ phase' = "partition"
  BY DEF SortTurn
<1>2. left \in Nat /\ right \in Nat
  BY <1>1, CallsTyped DEF SortInv
<1>3. middle \in stack[1].left .. stack[1].right /\ right \in stack[1].left .. stack[1].right
  BY <1>1, <1>2
<1> HIDE DEF middle
<1>4. N' = N /\ Index' = Index /\ items' \in [Index -> Name] /\ CallsApart' /\ RestSorted'
  BY <1>1, <1>3, SwapInside
<1>5. Partitioned'
  <2>1. /\ stack' # <<>> /\ it' \in Nat /\ to' \in Nat
        /\ stack'[1].left <= to' /\ to' <= it' /\ it' <= stack'[1].right
    BY <1>1, <1>2
  <2>2. \A j \in Index : ~(stack'[1].left <= j /\ j < to') /\ ~(to' <= j /\ j < it')
    BY <1>1, <1>2 DEF Index
  <2>3. QED
    BY <1>4, <2>1, <2>2 DEF Partitioned
<1>6. QED
  BY <1>1, <1>4, <1>5 DEF SortInv

\* A turn of the loop of partition() keeps it.
LEMMA PartitionTurnStep == SortInv /\ PartitionTurn => SortInv'
<1> SUFFICES ASSUME SortInv, PartitionTurn PROVE SortInv'
  OBVIOUS
<1> DEFINE left == stack[1].left
           right == stack[1].right
<1>1. /\ phase = "partition" /\ phase' = "partition" /\ it < right /\ it' = it + 1 /\ UNCHANGED stack
      /\ IF Less(items[it], items[right])
         THEN items' = Swapped(items, it, to) /\ to' = to + 1
         ELSE UNCHANGED <<items, to>>
  BY DEF PartitionTurn
<1>2. /\ stack # <<>> /\ it \in Nat /\ to \in Nat /\ left <= to /\ to <= it /\ it <= right
      /\ \A j \in Index : left <= j /\ j < to => Less(items[j], items[right])
      /\ \A j \in Index : to <= j /\ j < it => ~Less(items[j], items[right])
  BY <1>1 DEF SortInv, Partitioned
<1>3. left \in Nat /\ right \in Nat /\ right < N /\ N \in Nat
  BY <1>2, CallsTyped DEF SortInv
<1>4. it \in stack[1].left .. stack[1].right /\ to \in stack[1].left .. stack[1].right /\ right \in Index
  BY <1>2, <1>3 DEF Index
<1>5. /\ stack' # <<>> /\ it' \in Nat /\ to' \in Nat
      /\ stack'[1].left <= to' /\ to' <= it' /\ it' <= stack'[1].right
  BY <1>1, <1>2, <1>3
<1>6. CASE Less(items[it], items[right])
  <2>1. items' = Swapped(items, it, to) /\ to' = to + 1
    BY <1>1, <1>6
  <2>2. /\ N' = N /\ Index' = Index /\ items' \in [Index -> Name] /\ CallsApart' /\ RestSorted'
        /\ it \in Index /\ to \in Index
        /\ \A k \in Index : items'[k] = IF k = to THEN items[it] ELSE IF k = it THEN items[to] ELSE items[k]
    BY <1>1, <1>2, <1>4, <2>1, SwapInside
  <2>3. items'[right] = items[right]
    BY <1>1, <1>2, <1>3, <1>4, <2>2
  <2>4. ASSUME NEW j \in Index, left <= j, j < to + 1 PROVE Less(items'[j], items[right])
    <3>1. CASE j = to
      BY <1>6, <2>2, <3>1
    <3>2. CASE j # to
      <4>1. j < to /\ j # it
        BY <1>2, <2>4, <3>2 DEF Index
      <4>2. QED
        BY <1>2, <2>2, <2>4, <3>2, <4>1
    <3>3. QED
      BY <3>1, <3>2
  <2>5. ASSUME NEW j \in Index, to + 1 <= j, j < it + 1 PROVE ~Less(items'[j], items[right])
    <3>1. j # to /\ to < it
      BY <1>2, <2>5 DEF Index
    <3>2. CASE j = it
      BY <1>2, <2>2, <3>1, <3>2
    <3>3. CASE j # it
      <4>1. to <= j /\ j < it
        BY <1>2, <2>5, <3>3 DEF Index
      <4>2. QED
        BY <1>2, <2>2, <3>1, <3>3, <4>1
    <3>4. QED
      BY <3>2, <3>3
  <2>6. Partitioned'
    BY <1>1, <1>5, <2>1, <2>2, <2>3, <2>4, <2>5 DEF Partitioned
  <2>7. QED
    BY <1>1, <2>2, <2>6 DEF SortInv
<1>7. CASE ~Less(items[it], items[right])
  <2>1. items' = items /\ to' = to
    BY <1>1, <1>7
  <2>2. N' = N /\ Index' = Index
    BY <2>1 DEF N, Index
  <2>3. CallsApart' /\ RestSorted'
    BY <1>1, <2>1, <2>2 DEF SortInv, CallsApart, RestSorted, Pending
  <2>4. ASSUME NEW j \in Index, to <= j, j < it + 1 PROVE ~Less(items[j], items[right])
    <3>1. j = it \/ j < it
      BY <1>2, <2>4 DEF Index
    <3>2. QED
      BY <1>2, <1>7, <2>4, <3>1
  <2>5. Partitioned'
    BY <1>1, <1>2, <1>5, <2>1, <2>2, <2>4 DEF Partitioned
  <2>6. QED
    BY <1>1, <2>1, <2>2, <2>3, <2>5 DEF SortInv
<1>8. QED
  BY <1>6, <1>7

\* What the stack is when the first call has become two.
LEMMA Parted ==
  ASSUME NEW S, NEW s \in Seq(S), s # <<>>, NEW p \in S, NEW q \in S
  PROVE  /\ << p, q >> \o Tail(s) \in Seq(S) /\ Len(<< p, q >> \o Tail(s)) = Len(s) + 1
         /\ (<< p, q >> \o Tail(s))[1] = p /\ (<< p, q >> \o Tail(s))[2] = q
         /\ \A c \in 3 .. Len(s) + 1 : (<< p, q >> \o Tail(s))[c] = s[c - 1]
<1>1. /\ Tail(s) \in Seq(S) /\ Len(Tail(s)) = Len(s) - 1 /\ Len(s) \in Nat \ {0}
      /\ \A c \in 1 .. Len(s) - 1 : Tail(s)[c] = s[c + 1]
  OBVIOUS
<1>2. << p, q >> \in Seq(S) /\ Len(<< p, q >>) = 2 /\ << p, q >>[1] = p /\ << p, q >>[2] = q
  OBVIOUS
<1> HIDE DEF Tail
<1>3. ASSUME NEW a \in Seq(S), NEW b \in Seq(S), Len(a) = 2
      PROVE  /\ a \o b \in Seq(S) /\ Len(a \o b) = 2 + Len(b)
             /\ (a \o b)[1] = a[1] /\ (a \o b)[2] = a[2]
             /\ \A c \in 3 .. Len(b) + 2 : (a \o b)[c] = b[c - 2]
  <2>1. a \o b \in Seq(S) /\ Len(a \o b) = Len(a) + Len(b) /\ Len(b) \in Nat
    OBVIOUS
  <2>2. \A c \in 1 .. Len(a) + Len(b) : (a \o b)[c] = IF c <= Len(a) THEN a[c] ELSE b[c - Len(a)]
    OBVIOUS
  <2>3. 1 \in 1 .. Len(a) + Len(b) /\ 2 \in 1 .. Len(a) + Len(b)
    BY <1>3, <2>1
  <2>4. \A c \in 3 .. Len(b) + 2 : c \in 1 .. Len(a) + Len(b) /\ ~(c <= Len(a))
    BY <1>3, <2>1
  <2>5. QED
    BY <1>3, <2>1, <2>2, <2>3, <2>4
<1>4. /\ << p, q >> \o Tail(s) \in Seq(S) /\ Len(<< p, q >> \o Tail(s)) = 2 + Len(Tail(s))
      /\ (<< p, q >> \o Tail(s))[1] = p /\ (<< p, q >> \o Tail(s))[2] = q
      /\ \A c \in 3 .. Len(Tail(s)) + 2 : (<< p, q >> \o Tail(s))[c] = Tail(s)[c - 2]
  BY <1>1, <1>2, <1>3
<1>5. ASSUME NEW c \in 3 .. Len(s) + 1 PROVE (<< p, q >> \o Tail(s))[c] = s[c - 1]
  <2>1. c \in 3 .. Len(Tail(s)) + 2 /\ c - 2 \in 1 .. Len(s) - 1 /\ (c - 2) + 1 = c - 1
    BY <1>1
  <2>2. QED
    BY <1>1, <1>4, <2>1
<1>6. QED
  BY <1>1, <1>4, <1>5

\* The part in front of the pivot and that behind it are in order; the other calls have
\* what they had, a place further back on the stack.
LEMMA PartitionEndStep == FrozenMapAssumption /\ SortInv /\ PartitionEnd => SortInv'
<1> SUFFICES ASSUME FrozenMapAssumption, SortInv, PartitionEnd PROVE SortInv'
  OBVIOUS
<1> DEFINE left == stack[1].left
           right == stack[1].right
           front == [left |-> left, right |-> to]
           behind == [left |-> to + 1, right |-> right]
           part == [left : Nat, right : Nat]
<1>1. /\ phase = "partition" /\ phase' = "sort" /\ it = right
      /\ items' = Swapped(items, it, to) /\ stack' = << front, behind >> \o Tail(stack)
  BY DEF PartitionEnd, Parts
<1>2. /\ stack # <<>> /\ it \in Nat /\ to \in Nat /\ left <= to /\ to <= it
      /\ \A j \in Index : left <= j /\ j < to => Less(items[j], items[right])
      /\ \A j \in Index : to <= j /\ j < it => ~Less(items[j], items[right])
  BY <1>1 DEF SortInv, Partitioned
<1>3. left \in Nat /\ right \in Nat /\ right < N /\ N \in Nat
  BY <1>2, CallsTyped DEF SortInv
<1>4. /\ stack \in Seq(part) /\ front \in part /\ behind \in part
      /\ Len(stack) \in Nat /\ 1 \in 1 .. Len(stack)
  BY <1>2, <1>3, CallsTyped DEF SortInv, CallsApart
<1>5. /\ stack' \in Seq(part) /\ Len(stack') = Len(stack) + 1 /\ stack'[1] = front /\ stack'[2] = behind
      /\ \A c \in 3 .. Len(stack) + 1 : stack'[c] = stack[c - 1]
  <2> HIDE DEF front, behind, part
  <2>1. QED
    BY <1>1, <1>2, <1>4, Parted
<1>6. /\ N' = N /\ Index' = Index
      /\ items' \in [Index -> Name] /\ it \in Index /\ to \in Index
      /\ \A k \in Index : items'[k] = IF k = to THEN items[it] ELSE IF k = it THEN items[to] ELSE items[k]
      /\ \A j, k \in Index : j < k /\ ~Pending(j, k) => ~Less(items'[k], items'[j])
  <2>1. it \in stack[1].left .. stack[1].right /\ to \in stack[1].left .. stack[1].right
    BY <1>1, <1>2, <1>3
  <2>2. QED
    BY <1>1, <1>2, <2>1, SwapKeepsOrder
<1>8. /\ stack'[1].left = left /\ stack'[1].right = to
      /\ stack'[2].left = to + 1 /\ stack'[2].right = right
  BY <1>5
<1>9. ASSUME NEW c \in 1 .. Len(stack'), c # 1, c # 2
      PROVE  c - 1 \in 1 .. Len(stack) /\ 1 < c - 1 /\ stack'[c] = stack[c - 1]
  <2>1. c \in 3 .. Len(stack) + 1 /\ c - 1 \in 1 .. Len(stack) /\ 1 < c - 1
    BY <1>4, <1>5, <1>9
  <2>2. QED
    BY <1>5, <2>1
<1> HIDE DEF front, behind
<1>10. CallsApart'
  <2>1. ASSUME NEW c \in 1 .. Len(stack') PROVE stack'[c].right < N
    <3>1. CASE c = 1
      BY <1>1, <1>2, <1>3, <1>8, <3>1
    <3>2. CASE c = 2
      BY <1>3, <1>8, <3>2
    <3>3. CASE c # 1 /\ c # 2
      BY <1>9, <3>3 DEF SortInv, CallsApart
    <3>4. QED
      BY <3>1, <3>2, <3>3
  <2>2. ASSUME NEW c \in 1 .. Len(stack'), NEW d \in 1 .. Len(stack'), c < d
        PROVE  stack'[c].right < stack'[d].left
    <3>1. CASE d = 2
      BY <1>2, <1>8, <2>2, <3>1
    <3>2. CASE d # 2
      <4>1. d # 1 /\ c \in Nat /\ d \in Nat
        BY <2>2
      <4>2. /\ d - 1 \in 1 .. Len(stack) /\ 1 < d - 1
              /\ stack'[d] = stack[d - 1] /\ stack[d - 1].left \in Nat
        BY <1>9, <3>2, <4>1, CallsTyped DEF SortInv
      <4>3. right < stack[d - 1].left
        BY <1>4, <4>2 DEF SortInv, CallsApart
      <4>4. CASE c = 1 \/ c = 2
        BY <1>1, <1>2, <1>3, <1>8, <4>2, <4>3, <4>4
      <4>5. CASE c # 1 /\ c # 2
        <5>1. c - 1 \in 1 .. Len(stack) /\ stack'[c] = stack[c - 1] /\ c - 1 < d - 1
          BY <1>9, <2>2, <4>1, <4>5
        <5>2. QED
          BY <4>2, <5>1 DEF SortInv, CallsApart
      <4>6. QED
        BY <4>4, <4>5
    <3>3. QED
      BY <3>1, <3>2
  <2>3. QED
    BY <1>5, <1>6, <2>1, <2>2 DEF CallsApart
<1>11. NamesOrdered
  BY NamesAreOrdered
<1>12. ASSUME NEW j \in Index, left <= j, j <= to PROVE ~Less(items[right], items'[j])
  <2>1. items[right] \in Name /\ items[j] \in Name
    BY <1>1, <1>6 DEF SortInv
  <2>2. CASE j = to
    BY <1>1, <1>6, <1>11, <2>1, <2>2 DEF NamesOrdered
  <2>3. CASE j # to
    <3>1. j < to /\ j # it
      BY <1>2, <1>12, <2>3 DEF Index
    <3>2. items'[j] = items[j] /\ Less(items[j], items[right])
      BY <1>2, <1>6, <1>12, <2>3, <3>1
    <3>3. QED
      BY <1>11, <2>1, <3>2 DEF NamesOrdered
  <2>4. QED
    BY <2>2, <2>3
<1>13. ASSUME NEW k \in Index, to < k, k <= right PROVE ~Less(items'[k], items[right])
  <2>1. k # to /\ to < it
    BY <1>1, <1>2, <1>13 DEF Index
  <2>2. CASE k = it
    BY <1>2, <1>6, <2>1, <2>2
  <2>3. CASE k # it
    <3>1. to <= k /\ k < it
      BY <1>1, <1>2, <1>13, <2>3 DEF Index
    <3>2. QED
      BY <1>2, <1>6, <2>1, <2>3, <3>1
  <2>4. QED
    BY <2>2, <2>3
<1>14. RestSorted'
  <2>1. ASSUME NEW j \in Index, NEW k \in Index, j < k, ~Pending(j, k)'
        PROVE  ~Less(items'[k], items'[j])
    <3>1. CASE ~Pending(j, k)
      BY <1>6, <2>1, <3>1
    <3>2. CASE Pending(j, k)
      <4>1. PICK c \in 1 .. Len(stack) : stack[c].left <= j /\ k <= stack[c].right
        BY <3>2 DEF Pending
      <4>2. c = 1
        <5> SUFFICES ASSUME c # 1 PROVE FALSE
          OBVIOUS
        <5>1. c + 1 \in 1 .. Len(stack') /\ c + 1 # 1 /\ c + 1 # 2 /\ (c + 1) - 1 = c
          BY <1>4, <1>5
        <5>2. stack'[c + 1] = stack[c]
          BY <1>9, <5>1
        <5>3. QED
          BY <2>1, <4>1, <5>1, <5>2 DEF Pending
      <4>3. 1 \in 1 .. Len(stack') /\ 2 \in 1 .. Len(stack')
        <5>1. Len(stack) \in Nat /\ Len(stack) >= 1 /\ Len(stack') = Len(stack) + 1
          BY <1>4, <1>5
        <5>2. QED
          BY <5>1
      <4>4. ~(k <= to)
        BY <1>8, <2>1, <4>1, <4>2, <4>3 DEF Pending
      <4>5. ~(to + 1 <= j)
        BY <1>8, <2>1, <4>1, <4>2, <4>3 DEF Pending
      <4>6. j <= to /\ to < k
        BY <1>2, <4>4, <4>5 DEF Index
      <4>7. ~Less(items[right], items'[j]) /\ ~Less(items'[k], items[right])
        BY <1>12, <1>13, <4>1, <4>2, <4>6
      <4>8. items'[j] \in Name /\ items'[k] \in Name /\ items[right] \in Name
        BY <1>1, <1>6 DEF SortInv
      <4>9. QED
        BY <1>11, <4>7, <4>8 DEF NamesOrdered
    <3>3. QED
      BY <3>1, <3>2
  <2>2. QED
    BY <1>6, <2>1 DEF RestSorted
<1>15. QED
  BY <1>1, <1>6, <1>10, <1>14 DEF SortInv, Partitioned

\* The return of quicksort() keeps it.
LEMMA SortReturnStep == SortInv /\ SortReturn => SortInv'
<1> SUFFICES ASSUME SortInv, SortReturn PROVE SortInv'
  OBVIOUS
<1>1. /\ phase = "sort" /\ stack # <<>> /\ stack[1].left >= stack[1].right /\ stack' = Tail(stack)
      /\ phase' = (IF stack' = <<>> THEN "ready" ELSE phase) /\ items' = items
  BY DEF SortReturn
<1>2. \A S : \A s \in Seq(S) : s # <<>> =>
        /\ Tail(s) \in Seq(S) /\ Len(s) \in Nat \ {0} /\ Len(Tail(s)) = Len(s) - 1
        /\ \A c \in 1 .. Len(s) - 1 : Tail(s)[c] = s[c + 1]
  OBVIOUS
<1>3. /\ stack' \in Seq([left : Nat, right : Nat])
      /\ Len(stack) \in Nat \ {0} /\ Len(stack') = Len(stack) - 1
      /\ \A c \in 1 .. Len(stack) - 1 : stack'[c] = stack[c + 1]
  BY <1>1, <1>2 DEF SortInv, CallsApart
<1>4. \A c \in 1 .. Len(stack') : c \in Nat /\ c + 1 \in 1 .. Len(stack) /\ stack'[c] = stack[c + 1]
  BY <1>3
<1>5. N' = N /\ Index' = Index
  BY <1>1 DEF N, Index
<1>6. CallsApart'
  <2>1. \A c \in 1 .. Len(stack') : stack'[c].right < N
    BY <1>4 DEF SortInv, CallsApart
  <2>2. ASSUME NEW c \in 1 .. Len(stack'), NEW d \in 1 .. Len(stack'), c < d
        PROVE  stack'[c].right < stack'[d].left
    <3>1. c + 1 < d + 1
      BY <1>4, <2>2
    <3>2. QED
      BY <1>4, <3>1 DEF SortInv, CallsApart
  <2>3. QED
    BY <1>3, <1>5, <2>1, <2>2 DEF CallsApart
<1>7. ASSUME NEW j \in Index, NEW k \in Index, j < k, Pending(j, k) PROVE Pending(j, k)'
  <2>1. PICK c \in 1 .. Len(stack) : stack[c].left <= j /\ k <= stack[c].right
    BY <1>7 DEF Pending
  <2>2. c \in Nat /\ stack[c].left \in Nat /\ stack[c].right \in Nat
    BY CallsTyped DEF SortInv
  <2>3. c # 1
    BY <1>1, <1>7, <2>1, <2>2 DEF Index
  <2>4. c - 1 \in 1 .. Len(stack') /\ (c - 1) + 1 = c
    BY <1>3, <2>2, <2>3
  <2>5. stack'[c - 1] = stack[c]
    BY <1>4, <2>4
  <2>6. QED
    BY <2>1, <2>4, <2>5 DEF Pending
<1>8. RestSorted'
  BY <1>1, <1>5, <1>7 DEF SortInv, RestSorted
<1>9. QED
  BY <1>1, <1>5, <1>6, <1>8 DEF SortInv, Partitioned

\* The search changes nothing of the array.
LEMMA SearchStep ==
  ASSUME SortInv, UNCHANGED <<items, stack>>,
         phase' \in {"ready", "first", "fast"}, phase \in {"ready", "first", "fast"}
  PROVE  SortInv'
<1>1. N' = N /\ Index' = Index
  BY DEF N, Index
<1>2. CallsApart' /\ RestSorted'
  BY <1>1 DEF SortInv, CallsApart, RestSorted, Pending
<1>3. QED
  BY <1>1, <1>2 DEF SortInv, Partitioned

\* Every step keeps it.
LEMMA NextSortInv == FrozenMapAssumption => (SortInv /\ [MapNext]_mapVars => SortInv')
<1> SUFFICES ASSUME FrozenMapAssumption, SortInv, [MapNext]_mapVars PROVE SortInv'
  OBVIOUS
<1>1. CASE SortTurn
  BY <1>1, SortTurnStep
<1>2. CASE PartitionTurn
  BY <1>2, PartitionTurnStep
<1>3. CASE PartitionEnd
  BY <1>3, PartitionEndStep
<1>4. CASE SortReturn
  BY <1>4, SortReturnStep
<1>5. CASE SearchFirst
  <2>1. UNCHANGED <<items, stack>> /\ phase = "first" /\ phase' \in {"first", "fast"}
    BY <1>5 DEF SearchFirst
  <2>2. QED
    BY <2>1, SearchStep
<1>6. CASE SearchFast
  <2>1. UNCHANGED <<items, stack>> /\ phase = "fast" /\ phase' \in {"ready", "fast"}
    BY <1>6 DEF SearchFast
  <2>2. QED
    BY <2>1, SearchStep
<1>7. ASSUME NEW k \in Name, Search(k) PROVE SortInv'
  <2>1. UNCHANGED <<items, stack>> /\ phase = "ready" /\ phase' \in {"first", "fast"}
    BY <1>7 DEF Search
  <2>2. QED
    BY <2>1, SearchStep
<1>8. CASE UNCHANGED mapVars
  <2>1. items' = items /\ stack' = stack /\ phase' = phase /\ it' = it /\ to' = to
    BY <1>8 DEF mapVars
  <2>2. N' = N /\ Index' = Index
    BY <2>1 DEF N, Index
  <2>3. QED
    BY <2>1, <2>2 DEF SortInv, CallsApart, RestSorted, Pending, Partitioned
<1>9. QED
  BY <1>1, <1>2, <1>3, <1>4, <1>5, <1>6, <1>7, <1>8 DEF MapNext

\* When no call runs any more, the array is sorted.
LEMMA SortedOfInv == SortInv => Sorted
<1> SUFFICES ASSUME SortInv, phase \notin {"sort", "partition"},
                    NEW j \in DOMAIN items, NEW k \in DOMAIN items, j < k
             PROVE  ~Less(items[k], items[j])
  BY DEF Sorted
<1>1. Len(stack) = 0 /\ j \in Index /\ k \in Index
  BY DEF SortInv
<1>2. ~Pending(j, k)
  BY <1>1 DEF Pending
<1>3. QED
  BY <1>1, <1>2 DEF SortInv, RestSorted

\* Whoever has the map has it sorted, for any names and any length.
THEOREM MapSorted ==
  ASSUME FrozenMapAssumption
  PROVE  MapSpec => []Sorted
BY InitSortInv, NextSortInv, SortedOfInv, PTL DEF MapSpec

\* A swap moves the places of a name about, one to one.
LEMMA SwapKeepsNames ==
  ASSUME NEW D, IsFiniteSet(D), NEW a \in [D -> Name], NEW h \in D, NEW j \in D, NEW s \in Name
  PROVE  Cardinality({k \in D : a[k] = s})
           = Cardinality({k \in D : Swapped(a, h, j)[k] = s})
<1> DEFINE b == Swapped(a, h, j)
           f == [k \in {k \in D : a[k] = s} |-> IF k = h THEN j ELSE IF k = j THEN h ELSE k]
           before == {k \in D : a[k] = s}
           after == {k \in D : b[k] = s}
<1>1. \A k \in D : b[k] = IF k = j THEN a[h] ELSE IF k = h THEN a[j] ELSE a[k]
  BY DEF Swapped
<1> HIDE DEF b
<1>2. f \in [before -> after]
  BY <1>1
<1>3. \A k, l \in before : f[k] = f[l] => k = l
  BY <1>1
<1>4. \A l \in after : \E k \in before : f[k] = l
  <2> SUFFICES ASSUME NEW l \in after PROVE \E k \in before : f[k] = l
    OBVIOUS
  <2>1. CASE l = j
    <3>1. h \in before /\ f[h] = j
      BY <1>1, <2>1
    <3>2. QED
      BY <2>1, <3>1
  <2>2. CASE l = h /\ l # j
    <3>1. j \in before /\ f[j] = h
      BY <1>1, <2>2
    <3>2. QED
      BY <2>2, <3>1
  <2>3. CASE l # h /\ l # j
    BY <1>1, <2>3
  <2>4. QED
    BY <2>1, <2>2, <2>3
<1>5. IsFiniteSet(before)
  BY FS_Subset
<1> HIDE DEF before, after, f
<1>6. f \in Bijection(before, after)
  BY <1>2, <1>3, <1>4, Fun_IsBij
<1>7. ExistsBijection(before, after)
  BY <1>6 DEF ExistsBijection
<1>8. Cardinality(before) = Cardinality(after)
  BY <1>5, <1>7, FS_Bijection
<1>9. QED
  BY <1>8 DEF before, after, b

\* No step of the sort loses a name or doubles one.
THEOREM MapKeepsNames ==
  ASSUME FrozenMapAssumption
  PROVE  MapSpec => NamesKept
<1>1. ASSUME SortInv, [MapNext]_mapVars PROVE [SameNames]_mapVars
  <2>1. /\ N \in Nat /\ items \in [Index -> Name] /\ IsFiniteSet(Index) /\ DOMAIN items = Index
    <3>1. 0 \in Int /\ N \in Int /\ N - 1 \in Int
      BY <1>1 DEF SortInv
    <3>2. QED
      BY <1>1, <3>1, FS_Interval DEF SortInv, Index
  <2>2. CASE items' = items
    BY <2>2 DEF SameNames
  <2>3. ASSUME NEW h \in Index, NEW j \in Index, items' = Swapped(items, h, j)
        PROVE  SameNames
    <3>1. DOMAIN items' = Index
      BY <2>1, <2>3 DEF Swapped
    <3>2. \A s \in Name : Cardinality({k \in Index : items[k] = s})
                            = Cardinality({k \in Index : items'[k] = s})
      BY <2>1, <2>3, SwapKeepsNames
    <3>3. QED
      BY <2>1, <3>1, <3>2 DEF SameNames
  <2>4. ASSUME stack # <<>>
        PROVE  /\ stack[1].left \in Nat /\ stack[1].right \in Index
               /\ \A k \in stack[1].left .. stack[1].right : k \in Index
    BY <1>1, <2>1, <2>4, CallsTyped DEF SortInv, Index
  <2>5. CASE SortTurn
    <3> DEFINE left == stack[1].left
               right == stack[1].right
               middle == left + (right - left) \div 2
    <3>1. stack # <<>> /\ left < right /\ items' = Swapped(items, middle, right)
      BY <2>5 DEF SortTurn
    <3>2. left \in Nat /\ right \in Nat
      BY <2>4, <3>1 DEF Index
    <3>3. middle \in left .. right
      BY <3>1, <3>2
    <3>4. middle \in Index /\ right \in Index
      BY <2>4, <3>1, <3>3
    <3>5. QED
      BY <2>3, <3>1, <3>4
  <2>6. CASE PartitionTurn \/ PartitionEnd
    <3>1. phase = "partition" /\ (items' = Swapped(items, it, to) \/ items' = items)
      BY <2>6 DEF PartitionTurn, PartitionEnd
    <3>2. it \in Index /\ to \in Index
      BY <1>1, <2>4, <3>1 DEF SortInv, Partitioned
    <3>3. QED
      BY <2>2, <2>3, <3>1, <3>2
  <2>7. CASE SortReturn \/ SearchFirst \/ SearchFast \/ \E k \in Name : Search(k)
    BY <2>2, <2>7 DEF SortReturn, SearchFirst, SearchFast, Search
  <2>8. QED
    BY <1>1, <2>5, <2>6, <2>7 DEF MapNext
<1>2. QED
  BY <1>1, InitSortInv, NextSortInv, PTL DEF MapSpec, NamesKept

-----------------------------------------------------------------------------
(* frozen::map: the search *)

\* What is in every set that has 1 in it and the double of all that is in it.
PowersOfTwo ==
  {v \in Nat : \A S \in SUBSET Nat : 1 \in S /\ (\A x \in S : 2 * x \in S) => v \in S}

\* What the powers of two are made of.
LEMMA Powers ==
  /\ 1 \in PowersOfTwo
  /\ \A x \in PowersOfTwo : x \in Nat \ {0} /\ 2 * x \in PowersOfTwo
  /\ \A v \in PowersOfTwo : v = 1 \/ \E x \in PowersOfTwo : v = 2 * x
<1>1. 1 \in PowersOfTwo
  BY DEF PowersOfTwo
<1>2. ASSUME NEW x \in PowersOfTwo PROVE x \in Nat \ {0} /\ 2 * x \in PowersOfTwo
  <2>1. Nat \ {0} \in SUBSET Nat /\ 1 \in Nat \ {0} /\ \A y \in Nat \ {0} : 2 * y \in Nat \ {0}
    OBVIOUS
  <2>2. x \in Nat \ {0}
    BY <2>1 DEF PowersOfTwo
  <2>3. QED
    BY <2>2 DEF PowersOfTwo
<1>3. ASSUME NEW v \in PowersOfTwo PROVE v = 1 \/ \E x \in PowersOfTwo : v = 2 * x
  <2> DEFINE S == {1} \cup {2 * x : x \in PowersOfTwo}
  <2>1. S \in SUBSET Nat
    BY <1>2
  <2>2. \A y \in S : y \in PowersOfTwo
    BY <1>1, <1>2
  <2>3. 1 \in S /\ \A y \in S : 2 * y \in S
    BY <2>2
  <2>4. v \in S
    BY <2>1, <2>3 DEF PowersOfTwo
  <2>5. QED
    BY <2>4
<1>4. QED
  BY <1>1, <1>2, <1>3

\* g is the loop of next_highest_power_of_two(v), up to its turn m.
Doubled(q, v) == IF q < v THEN 2 * q ELSE q
\* The powers that next_highest_power_of_two() goes through.
Doubles(g, m, v) == g = [k \in 0 .. m |-> IF k = 0 THEN 1 ELSE Doubled(g[k - 1], v)]

\* There is such a function, for every length.
LEMMA DoublesExists ==
  ASSUME NEW v, NEW m \in Nat
  PROVE  \E g : Doubles(g, m, v)
<1> DEFINE missing == {k \in Nat : ~ \E g : Doubles(g, k, v)}
<1> SUFFICES ASSUME missing # {} PROVE FALSE
  OBVIOUS
<1>1. PICK k \in missing : \A l \in missing : k <= l
  <2>1. missing \in SUBSET Nat
    OBVIOUS
  <2> HIDE DEF missing
  <2>2. QED
    BY <2>1, Smallest
<1>2. CASE k = 0
  <2>1. Doubles([l \in 0 .. 0 |-> 1], 0, v)
    BY DEF Doubles
  <2>2. QED
    BY <1>2, <2>1
<1>3. CASE k # 0
  <2>1. k - 1 \in Nat /\ k - 1 \notin missing
    BY <1>1, <1>3
  <2>2. PICK g : Doubles(g, k - 1, v)
    BY <2>1
  <2> DEFINE h == [l \in 0 .. k |-> IF l = k THEN Doubled(g[k - 1], v) ELSE g[l]]
  <2>3. \A l \in 0 .. k - 1 : g[l] = IF l = 0 THEN 1 ELSE Doubled(g[l - 1], v)
    BY <2>2 DEF Doubles
  <2>4. ASSUME NEW l \in 0 .. k PROVE h[l] = IF l = 0 THEN 1 ELSE Doubled(h[l - 1], v)
    <3>1. CASE l = k
      BY <1>3, <2>1, <3>1
    <3>2. CASE l # k
      <4>1. l \in 0 .. k - 1 /\ (l # 0 => l - 1 \in 0 .. k /\ l - 1 # k)
        BY <3>2
      <4>2. QED
        BY <2>3, <3>2, <4>1
    <3>3. QED
      BY <3>1, <3>2
  <2>5. h = [l \in 0 .. k |-> h[l]]
    OBVIOUS
  <2>6. Doubles(h, k, v)
    <3> HIDE DEF h
    <3>1. QED
      BY <2>4, <2>5 DEF Doubles
  <2>7. QED
    BY <2>6
<1>4. QED
  BY <1>2, <1>3

\* The power of two that next_highest_power_of_two() returns is the first that is not less.
LEMMA NextPower ==
  ASSUME NEW v \in Nat \ {0}
  PROVE  LET q == next_highest_power_of_two(v)
         IN  q \in PowersOfTwo /\ q >= v /\ (q = 1 \/ q \div 2 < v)
<1> DEFINE p == CHOOSE g : Doubles(g, v, v)
           right(q, k) == q \in PowersOfTwo /\ (q = 1 \/ q \div 2 < v) /\ (q >= v \/ q >= k + 1)
<1>1. next_highest_power_of_two(v) = p[v]
  BY DEF next_highest_power_of_two, Doubles, Doubled
<1>2. Doubles(p, v, v)
  BY DoublesExists
<1> HIDE DEF p
<1>3. p[0] = 1 /\ \A k \in 1 .. v : p[k] = Doubled(p[k - 1], v)
  BY <1>2 DEF Doubles
<1> DEFINE wrong == {k \in 0 .. v : ~right(p[k], k)}
<1>4. wrong = {}
  <2> SUFFICES ASSUME wrong # {} PROVE FALSE
    OBVIOUS
  <2>1. PICK k \in wrong : \A l \in wrong : k <= l
    <3>1. wrong \in SUBSET Nat
      OBVIOUS
    <3> HIDE DEF wrong
    <3>2. QED
      BY <3>1, Smallest
  <2>2. k \in 0 .. v /\ ~right(p[k], k)
    OBVIOUS
  <2>3. k # 0
    BY <1>3, <2>2, Powers
  <2>4. k - 1 \in 0 .. v /\ k \in 1 .. v /\ right(p[k - 1], k - 1)
    BY <2>1, <2>3
  <2> DEFINE q == p[k - 1]
  <2>5. q \in Nat \ {0} /\ 2 * q \in PowersOfTwo /\ p[k] = Doubled(q, v)
    BY <1>3, <2>4, Powers
  <2> HIDE DEF q
  <2>6. CASE q < v
    <3>1. p[k] = 2 * q /\ (2 * q) \div 2 = q
      BY <2>5, <2>6 DEF Doubled
    <3>2. q >= k
      BY <2>4, <2>5, <2>6 DEF q
    <3>3. 2 * q >= k + 1
      BY <2>4, <2>5, <3>2
    <3>4. QED
      BY <2>2, <2>5, <2>6, <3>1, <3>3
  <2>7. CASE ~(q < v)
    <3>1. p[k] = q /\ q >= v
      BY <2>5, <2>7 DEF Doubled
    <3>2. QED
      BY <2>2, <2>4, <3>1 DEF q
  <2>8. QED
    BY <2>6, <2>7
<1>5. right(p[v], v)
  BY <1>4
<1>6. p[v] \in Nat
  BY <1>5, Powers
<1>7. QED
  BY <1>1, <1>5, <1>6

\* The entries in front of `first` are less than the key, those behind the next n are not.
Narrowed ==
  /\ first \in Nat /\ rest \in Nat /\ first + rest <= N
  /\ \A j \in Index : j < first => Less(items[j], key)
  /\ \A j \in Index : first + rest <= j => ~Less(items[j], key)

\* lower_bound() runs.
Searching == phase \in {"first", "fast"}

\* The invariant of the search: the place that is looked for is in the part that is left.
SearchInv ==
  /\ SortInv /\ key \in Name
  /\ Searching \/ where # -1 => Narrowed
  /\ where # -1 => phase = "ready" /\ where = first /\ rest = 0
  /\ phase = "first" => rest >= 2
  /\ phase = "fast" => rest + 1 \in PowersOfTwo

\* The places of a search whose length is one less than a power of two.
LEMMA HalfOf ==
  ASSUME NEW n \in Nat \ {0}, n + 1 \in PowersOfTwo
  PROVE  /\ n \div 2 \in Nat /\ n \div 2 < n /\ n \div 2 + 1 \in PowersOfTwo
         /\ (n \div 2) + 1 + (n \div 2) = n
<1>1. PICK x \in PowersOfTwo : n + 1 = 2 * x
  BY Powers
<1>2. x \in Nat \ {0}
  BY Powers
<1>3. n = 2 * x - 1 /\ n \div 2 = x - 1
  BY <1>1, <1>2
<1>4. QED
  BY <1>1, <1>2, <1>3

\* The place where a search of any other length is cut.
LEMMA StartOf ==
  ASSUME NEW n \in Nat, n >= 2
  PROVE  NextStart(n) \in Nat /\ NextStart(n) + 1 \in PowersOfTwo /\ NextStart(n) + 1 < n
<1> DEFINE q == next_highest_power_of_two(n)
<1>1. q \in PowersOfTwo /\ q >= n /\ (q = 1 \/ q \div 2 < n)
  BY NextPower
<1>2. NextStart(n) = q \div 2 - 1
  BY DEF NextStart
<1> HIDE DEF q
<1>3. q \in Nat /\ q # 1
  BY <1>1, Powers
<1>4. PICK x \in PowersOfTwo : q = 2 * x
  BY <1>1, <1>3, Powers
<1>5. x \in Nat \ {0} /\ q \div 2 = x
  BY <1>4, Powers
<1>6. x < n
  BY <1>1, <1>3, <1>5
<1>7. NextStart(n) = x - 1 /\ (x - 1) + 1 = x
  BY <1>2, <1>5
<1>8. QED
  BY <1>4, <1>5, <1>6, <1>7

\* The lengths at which doitfirst() ends.
LEMMA PerfectLength ==
  ASSUME NEW n \in Nat \ {0}, Perfect(n) \/ n = 1
  PROVE  n + 1 \in PowersOfTwo
<1>1. CASE n = 1
  <2>1. 2 * 1 \in PowersOfTwo
    BY Powers
  <2>2. QED
    BY <1>1, <2>1
<1>2. CASE Perfect(n)
  <2> DEFINE q == next_highest_power_of_two(n)
  <2>1. q \in PowersOfTwo /\ q - 1 = n
    BY <1>2, NextPower DEF Perfect
  <2> HIDE DEF q
  <2>2. q = n + 1
    BY <2>1, Powers
  <2>3. QED
    BY <2>1, <2>2
<1>3. QED
  BY <1>1, <1>2

\* In a sorted array, what is less than the key is so with all in front of it, what is not
\* with all behind.
LEMMA Monotonic ==
  ASSUME FrozenMapAssumption, SortInv, key \in Name, phase \notin {"sort", "partition"},
         NEW j \in Index, NEW k \in Index, j <= k
  PROVE  Less(items[k], key) => Less(items[j], key)
<1>1. items[j] \in Name /\ items[k] \in Name /\ DOMAIN items = Index
  BY DEF SortInv
<1>2. CASE j = k
  BY <1>2
<1>3. CASE j # k
  <2>1. j < k
    BY <1>3 DEF Index
  <2>2. ~Less(items[k], items[j])
    BY <1>1, <2>1, SortedOfInv DEF Sorted
  <2>3. QED
    BY <1>1, <2>2, NamesAreOrdered DEF NamesOrdered
<1>4. QED
  BY <1>2, <1>3

\* A comparison with the entry at m narrows the search to one side of it.
LEMMA Narrows ==
  ASSUME FrozenMapAssumption, SearchInv, Searching, NEW m \in Nat, m < rest,
         UNCHANGED <<items, key>>,
         IF Less(items[first + m], key)
         THEN first' = first + m + 1 /\ rest' = (rest - m) - 1
         ELSE first' = first /\ rest' = m
  PROVE  Narrowed'
<1>1. Narrowed /\ SortInv /\ key \in Name /\ phase \notin {"sort", "partition"} /\ N \in Nat
  BY DEF SearchInv, Searching, SortInv
<1>2. first \in Nat /\ rest \in Nat /\ first + rest <= N
  BY <1>1 DEF Narrowed
<1>3. first + m \in Index /\ N' = N /\ Index' = Index
  BY <1>1, <1>2 DEF Index, N
<1>4. CASE Less(items[first + m], key)
  <2>1. first' = first + m + 1 /\ rest' = (rest - m) - 1
    BY <1>4
  <2>2. first' \in Nat /\ rest' \in Nat /\ first' + rest' = first + rest
    BY <1>2, <2>1
  <2>3. ASSUME NEW j \in Index, j < first' PROVE Less(items[j], key)
    <3>1. j <= first + m
      BY <1>2, <2>1, <2>3 DEF Index
    <3>2. QED
      BY <1>1, <1>3, <1>4, <3>1, Monotonic
  <2>4. QED
    BY <1>1, <1>2, <1>3, <2>2, <2>3 DEF Narrowed
<1>5. CASE ~Less(items[first + m], key)
  <2>1. first' = first /\ rest' = m
    BY <1>5
  <2>2. first' + rest' <= N
    BY <1>1, <1>2, <2>1
  <2>3. \A j \in Index : first + m <= j => ~Less(items[j], key)
    BY <1>1, <1>3, <1>5, Monotonic
  <2>4. QED
    BY <1>1, <1>2, <1>3, <2>1, <2>2, <2>3 DEF Narrowed
<1>6. QED
  BY <1>4, <1>5

\* doitfirst() keeps the invariant of the search.
LEMMA SearchFirstStep ==
  ASSUME FrozenMapAssumption, SearchInv, SortInv', SearchFirst
  PROVE  SearchInv'
<1> DEFINE m == NextStart(rest)
           next == (rest - m) - 1
<1>1. phase = "first" /\ UNCHANGED <<items, key, where>> /\ rest - m - 1 = next
  BY DEF SearchFirst
<1>2. Searching /\ Narrowed /\ rest >= 2 /\ where = -1 /\ rest \in Nat /\ first \in Nat
  BY <1>1 DEF SearchInv, Searching, Narrowed
<1>3. m \in Nat /\ m + 1 \in PowersOfTwo /\ m + 1 < rest
  BY <1>2, StartOf
<1>4. IF Less(items[first + m], key)
      THEN /\ first' = first + m + 1 /\ rest' = next
           /\ phase' = IF Perfect(next) \/ next = 1 THEN "fast" ELSE "first"
      ELSE first' = first /\ rest' = m /\ phase' = "fast"
  BY DEF SearchFirst
<1> HIDE DEF m
<1>5. Narrowed'
  BY <1>1, <1>2, <1>3, <1>4, Narrows
<1>6. next \in Nat \ {0}
  BY <1>2, <1>3
<1> HIDE DEF next
<1>7. phase' \in {"first", "fast"} /\ (phase' = "first" => rest' >= 2)
  BY <1>4, <1>6
<1>8. phase' = "fast" => rest' + 1 \in PowersOfTwo
  BY <1>3, <1>4, <1>6, PerfectLength
<1>9. QED
  BY <1>1, <1>2, <1>5, <1>7, <1>8 DEF SearchInv

\* doit_fast() keeps the invariant of the search.
LEMMA SearchFastStep ==
  ASSUME FrozenMapAssumption, SearchInv, SortInv', SearchFast
  PROVE  SearchInv'
<1>1. phase = "fast" /\ UNCHANGED <<items, key>>
  BY DEF SearchFast
<1>2. Searching /\ Narrowed /\ where = -1 /\ rest \in Nat /\ first \in Nat /\ rest + 1 \in PowersOfTwo
  BY <1>1 DEF SearchInv, Searching, Narrowed
<1>3. CASE rest = 0
  <2>1. where' = first /\ phase' = "ready" /\ first' = first /\ rest' = rest
    BY <1>3 DEF SearchFast
  <2>2. Narrowed'
    BY <1>1, <1>2, <2>1 DEF Narrowed, Index, N
  <2>3. QED
    BY <1>1, <1>3, <2>1, <2>2 DEF SearchInv, Searching
<1>4. CASE rest # 0
  <2> DEFINE m == rest \div 2
  <2>1. /\ first' = (IF Less(items[first + m], key) THEN first + m + 1 ELSE first)
        /\ rest' = m /\ phase' = phase /\ where' = where
    BY <1>4 DEF SearchFast
  <2>2. m \in Nat /\ m < rest /\ m + 1 \in PowersOfTwo /\ m + 1 + m = rest
    BY <1>2, <1>4, HalfOf
  <2> HIDE DEF m
  <2>3. (rest - m) - 1 = m
    BY <1>2, <2>2
  <2>4. Narrowed'
    BY <1>1, <1>2, <2>1, <2>2, <2>3, Narrows
  <2>5. QED
    BY <1>1, <1>2, <2>1, <2>2, <2>4 DEF SearchInv, Searching
<1>5. QED
  BY <1>3, <1>4

\* The invariant of the search holds at the start.
LEMMA InitSearchInv == FrozenMapAssumption /\ MapInit => SearchInv
BY InitSortInv DEF MapInit, SearchInv, Searching

\* Every step keeps the invariant of the search.
LEMMA NextSearchInv == FrozenMapAssumption => (SearchInv /\ [MapNext]_mapVars => SearchInv')
<1> SUFFICES ASSUME FrozenMapAssumption, SearchInv, [MapNext]_mapVars PROVE SearchInv'
  OBVIOUS
<1>1. SortInv'
  BY NextSortInv DEF SearchInv
<1>2. CASE SearchFirst
  BY <1>1, <1>2, SearchFirstStep
<1>3. CASE SearchFast
  BY <1>1, <1>3, SearchFastStep
<1>4. ASSUME NEW k \in Name, Search(k) PROVE SearchInv'
  <2>1. /\ phase = "ready" /\ key' = k /\ first' = 0 /\ rest' = N /\ where' = -1 /\ items' = items
        /\ phase' = IF Perfect(N) \/ N = 1 THEN "fast" ELSE "first"
    BY <1>4 DEF Search
  <2>2. N \in Nat \ {0} /\ N' = N /\ Index' = Index
    BY <2>1 DEF SearchInv, SortInv, Index, N
  <2>3. \A j \in Index : ~(j < 0) /\ ~(0 + N <= j)
    BY <2>2 DEF Index
  <2>4. Narrowed'
    BY <2>1, <2>2, <2>3 DEF Narrowed
  <2>5. phase' = "fast" => rest' + 1 \in PowersOfTwo
    BY <2>1, <2>2, PerfectLength
  <2>6. phase' = "first" => rest' >= 2
    BY <2>1, <2>2
  <2>7. QED
    BY <1>1, <2>1, <2>4, <2>5, <2>6 DEF SearchInv
<1>5. CASE SortTurn \/ PartitionTurn \/ PartitionEnd \/ SortReturn
  <2>1. /\ phase \in {"sort", "partition"} /\ key' = key /\ where' = where
        /\ phase' \in {"sort", "partition", "ready"}
    BY <1>5 DEF SortTurn, PartitionTurn, PartitionEnd, SortReturn
  <2>2. where = -1
    BY <2>1 DEF SearchInv
  <2>3. QED
    BY <1>1, <2>1, <2>2 DEF SearchInv, Searching
<1>6. CASE UNCHANGED mapVars
  <2>1. UNCHANGED <<items, phase, key, first, rest, where>>
    BY <1>6 DEF mapVars
  <2>2. QED
    BY <1>1, <2>1 DEF SearchInv, Searching, Narrowed, Index, N
<1>7. QED
  BY <1>2, <1>3, <1>4, <1>5, <1>6 DEF MapNext

\* Every entry that the search reads is one of the array, whatever its length.
THEOREM SearchStaysInside ==
  ASSUME FrozenMapAssumption
  PROVE  MapSpec => []SearchInside
<1>1. ASSUME SearchInv PROVE SearchInside
  <2>1. DOMAIN items = Index /\ N \in Nat
    BY <1>1 DEF SearchInv, SortInv
  <2>2. Searching => first \in Nat /\ rest \in Nat /\ first + rest <= N
    BY <1>1 DEF SearchInv, Narrowed
  <2>3. ASSUME phase = "first" PROVE first + NextStart(rest) \in Index
    <3>1. first \in Nat /\ rest \in Nat /\ first + rest <= N /\ rest >= 2
      BY <1>1, <2>2, <2>3 DEF SearchInv, Searching
    <3>2. NextStart(rest) \in Nat /\ NextStart(rest) + 1 < rest
      BY <3>1, StartOf
    <3>3. QED
      BY <2>1, <3>1, <3>2 DEF Index
  <2>4. ASSUME phase = "fast", rest # 0 PROVE first + rest \div 2 \in Index
    <3>1. first \in Nat /\ rest \in Nat \ {0} /\ first + rest <= N /\ rest + 1 \in PowersOfTwo
      BY <1>1, <2>2, <2>4 DEF SearchInv, Searching
    <3>2. rest \div 2 \in Nat /\ rest \div 2 < rest
      BY <3>1, HalfOf
    <3>3. QED
      BY <2>1, <3>1, <3>2 DEF Index
  <2>5. QED
    BY <2>1, <2>3, <2>4 DEF SearchInside
<1>2. QED
  BY <1>1, InitSearchInv, NextSearchInv, PTL DEF MapSpec

\* How many numbers there are in front of a number.
LEMMA CountBelow ==
  ASSUME NEW n \in Nat
  PROVE  Cardinality(0 .. n - 1) = n
<1>1. 0 \in Int /\ n - 1 \in Int
  OBVIOUS
<1>2. Cardinality(0 .. n - 1) = IF 0 > n - 1 THEN 0 ELSE ((n - 1) - 0) + 1
  BY <1>1, FS_Interval
<1>3. QED
  BY <1>2

\* What lower_bound() returned is the number of the entries that are less than the key;
\* from there on none is.
LEMMA LowerBound ==
  ASSUME SearchInv, where # -1
  PROVE  /\ where \in 0 .. N /\ where = Cardinality({j \in Index : Less(items[j], key)})
         /\ \A j \in Index : j < where <=> Less(items[j], key)
<1>1. Narrowed /\ where = first /\ rest = 0 /\ N \in Nat
  BY DEF SearchInv, SortInv
<1>2. /\ where \in Nat /\ where <= N
      /\ \A j \in Index : j < where <=> Less(items[j], key)
  BY <1>1 DEF Narrowed, Index
<1>3. {j \in Index : Less(items[j], key)} = 0 .. where - 1
  BY <1>1, <1>2 DEF Index
<1>4. Cardinality(0 .. where - 1) = where
  BY <1>2, CountBelow
<1>5. where = Cardinality({j \in Index : Less(items[j], key)})
  BY <1>3, <1>4, Zenon
<1>6. where \in 0 .. N
  BY <1>1, <1>2
<1>7. QED
  BY <1>2, <1>5, <1>6

\* A name that is in the map is found at the first place where it is, and no other.
THEOREM MapFindsRight ==
  ASSUME FrozenMapAssumption
  PROVE  MapSpec => []FoundRight
<1>1. ASSUME SearchInv PROVE FoundRight
  <2> SUFFICES ASSUME where # -1
               PROVE  /\ where = Cardinality({j \in Index : Less(items[j], key)})
                      /\ IF \E j \in Index : items[j] = key
                         THEN items[Found] = key
                         ELSE Found = N
                      /\ Cardinality({items[j] : j \in Index}) = N =>
                           UpperBound = Cardinality({j \in Index : ~Less(key, items[j])})
    <3>1. DOMAIN items = Index
      BY <1>1 DEF SearchInv, SortInv
    <3>2. QED
      BY <3>1 DEF FoundRight
  <2>1. NamesOrdered
    BY NamesAreOrdered
  <2>2. key \in Name /\ N \in Nat /\ phase = "ready" /\ SortInv /\ \A j \in Index : items[j] \in Name
    BY <1>1 DEF SearchInv, SortInv
  <2>3. /\ where \in 0 .. N /\ where = Cardinality({j \in Index : Less(items[j], key)})
        /\ \A j \in Index : j < where <=> Less(items[j], key)
    BY <1>1, LowerBound
  <2>4. ~Less(key, key)
    BY <2>1, <2>2 DEF NamesOrdered
  \* The key is nowhere or at the place found.
  <2>5. ASSUME NEW j \in Index, items[j] = key
        PROVE  where \in Index /\ items[where] = key /\ ~Less(key, items[where])
    <3>1. where <= j /\ where \in Index
      BY <2>2, <2>3, <2>4, <2>5 DEF Index
    <3>2. ~Less(items[where], key)
      BY <2>3, <3>1 DEF Index
    <3>3. ~Less(key, items[where])
      <4>1. CASE where = j
        BY <2>4, <2>5, <4>1
      <4>2. CASE where # j
        <5>1. where < j
          BY <3>1, <4>2 DEF Index
        <5>2. DOMAIN items = Index
          BY <2>2 DEF SortInv
        <5>3. QED
          BY <2>2, <2>5, <3>1, <5>1, <5>2, SortedOfInv DEF Sorted
      <4>3. QED
        BY <4>1, <4>2
    <3>4. QED
      BY <2>1, <2>2, <3>1, <3>2, <3>3 DEF NamesOrdered
  <2>6. CASE where # N /\ ~Less(key, items[where])
    <3>1. where \in Index /\ where \in Nat
      BY <2>2, <2>3, <2>6 DEF Index
    <3>2. items[where] = key
      BY <2>1, <2>2, <2>3, <2>6, <3>1 DEF NamesOrdered, Index
    <3>3. Found = where /\ UpperBound = where + 1
      BY <2>6 DEF Found, UpperBound
    <3>4. ASSUME Cardinality({items[j] : j \in Index}) = N
          PROVE  where + 1 = Cardinality({j \in Index : ~Less(key, items[j])})
      <4> DEFINE images == {items[j] : j \in Index}
      <4>1. IsFiniteSet(Index) /\ Cardinality(Index) = N
        <5>1. 0 \in Int /\ N - 1 \in Int
          BY <2>2
        <5>2. QED
          BY <2>2, <5>1, FS_Interval, CountBelow DEF Index
      <4>2. \A j, k \in Index : items[j] = items[k] => j = k
        <5>1. items \in Surjection(Index, images)
          <6>1. items \in [Index -> images] /\ \A t \in images : \E j \in Index : items[j] = t
            BY <2>2 DEF SortInv
          <6> HIDE DEF images
          <6>2. QED
            BY <6>1, Fun_IsSurj
        <5>2. Cardinality(images) = Cardinality(Index)
          BY <3>4, <4>1
        <5> HIDE DEF images
        <5>3. items \in Injection(Index, images)
          BY <4>1, <5>1, <5>2, FS_Surjection
        <5>4. QED
          BY <5>3, Fun_InjectionProperties
      <4>3. ASSUME NEW j \in Index PROVE ~Less(key, items[j]) <=> j <= where
        <5>1. CASE j < where
          BY <2>1, <2>2, <2>3, <5>1 DEF NamesOrdered, Index
        <5>2. CASE j = where
          BY <2>6, <5>2, <3>1
        <5>3. CASE where < j
          <6>1. ~Less(items[j], key) /\ items[j] # key
            BY <2>3, <3>1, <3>2, <4>2, <5>3 DEF Index
          <6>2. QED
            BY <2>1, <2>2, <3>1, <5>3, <6>1 DEF NamesOrdered, Index
        <5>4. QED
          BY <3>1, <5>1, <5>2, <5>3 DEF Index
      <4>4. {j \in Index : ~Less(key, items[j])} = 0 .. (where + 1) - 1
        BY <2>2, <3>1, <4>3 DEF Index
      <4>5. Cardinality(0 .. (where + 1) - 1) = where + 1
        <5>1. where + 1 \in Nat
          BY <3>1
        <5>2. QED
          BY <5>1, CountBelow
      <4>6. QED
        BY <4>4, <4>5, Zenon
    <3>5. QED
      BY <2>3, <3>1, <3>2, <3>3, <3>4
  <2>7. CASE ~(where # N /\ ~Less(key, items[where]))
    <3>1. Found = N /\ UpperBound = where
      BY <2>7 DEF Found, UpperBound
    <3>2. ~ \E j \in Index : items[j] = key
      BY <2>2, <2>5, <2>7 DEF Index
    <3>3. ASSUME NEW j \in Index PROVE ~Less(key, items[j]) <=> Less(items[j], key)
      BY <2>1, <2>2, <3>2 DEF NamesOrdered
    <3>4. {j \in Index : ~Less(key, items[j])} = {j \in Index : Less(items[j], key)}
      BY <3>3
    <3>5. QED
      BY <2>3, <3>1, <3>2, <3>4
  <2>8. QED
    BY <2>6, <2>7
<1>2. QED
  BY <1>1, InitSearchInv, NextSearchInv, PTL DEF MapSpec

\* A map of any names and any length is sorted when it is used, no search leaves it, and
\* each finds what is there and nothing else.
THEOREM NamesAlwaysFound ==
  ASSUME FrozenMapAssumption
  PROVE  MapSpec => []NamesFound
<1>1. Sorted /\ SearchInside /\ FoundRight => NamesFound
  BY DEF NamesFound
<1>2. QED
  BY <1>1, MapSorted, SearchStaysInside, MapFindsRight, PTL

-----------------------------------------------------------------------------
(* CCM *)

\* How many blocks n bytes begin, and the place of the next byte, as the code keeps it.
Begun(n) == (n + B - 1) \div B
NextPos(n) == IF n = 0 THEN B ELSE ((n - 1) % B) + 1

\* The counter for block j of the message; behind the nonce it is a number.
CounterAt(j) ==
  [k \in Pos |-> IF k = 0 THEN B - 2 - nonce_len ELSE Shifted(j, B - 1 - k) % R]

\* The key stream, what comes out at byte k, and the memory after d bytes.
Stream(k) == Cipher(CounterBlock(k \div B + 1))[k % B]
Turned(k) == Xor(PassedData[k], Stream(k))
Memory(d) == [k \in 0 .. data_len - 1 |-> IF k < d THEN Turned(k) ELSE PassedData[k]]

\* What goes into the tag.
AadSeq(a) ==
  IF aad_len = 0 THEN <<>>
  ELSE [k \in 1 .. 2 + a |-> IF k <= 2 THEN NumberByte(aad_len, 2, k - 1) ELSE PassedAad(k - 3)]
DataSeq(d) == [k \in 1 .. d |-> IF encrypt THEN PassedData[k - 1] ELSE Turned(k - 1)]

\* All blocks but the last; what goes into the cipher for the last.
Front(s) == [k \in 1 .. Len(s) - 1 |-> s[k]]
LastInput(s) == IF Len(s) = 1 THEN s[1] ELSE XorBlocks(CbcMac(Front(s)), s[Len(s)])

\* The blocks that the tag is over after a bytes of additional data and d of the message.
Blocks0(a, d) == <<Block0>> \o BlocksOf(AadSeq(a)) \o BlocksOf(DataSeq(d))

\* The context after a bytes of additional data and d of the message.
Context(a, d) ==
  [byte_pos |-> NextPos(d), nonce_len |-> nonce_len,
   aad_byte_pos |-> IF aad_len = 0 THEN 0 ELSE NextPos(2 + a),
   cbc_buf |-> LastInput(Blocks0(a, d)), counter |-> CounterAt(Begun(d))]

\* The invariant of CCM: what the calls leave behind depends on how much has been passed,
\* not on how it was cut.
CcmInv ==
  /\ encrypt \in BOOLEAN /\ nonce_len \in NonceLens /\ aad_len \in AadLens
  /\ data_len \in DataLens /\ tag_len \in TagLens /\ change \in Changes
  /\ aad_done \in 0 .. aad_len /\ done \in 0 .. data_len
  /\ done > 0 => aad_done = aad_len
  /\ encrypt => change = "none"
  /\ change = "aad" => aad_len > 0
  /\ change = "data" => data_len > 0
  /\ ctx = Context(aad_done, done)
  /\ mem = Memory(done)

\* The quotients of x that Shifted() goes through.
Shifts(g, m, x) == g = [j \in 0 .. m |-> IF j = 0 THEN x ELSE g[j - 1] \div R]

\* There is such a function, for every length.
LEMMA ShiftsExist ==
  ASSUME NEW x, NEW m \in Nat
  PROVE  \E g : Shifts(g, m, x)
<1> DEFINE missing == {l \in Nat : ~ \E g : Shifts(g, l, x)}
<1> SUFFICES ASSUME missing # {} PROVE FALSE
  OBVIOUS
<1>1. PICK l \in missing : \A j \in missing : l <= j
  <2>1. missing \in SUBSET Nat
    OBVIOUS
  <2> HIDE DEF missing
  <2>2. QED
    BY <2>1, Smallest
<1>2. CASE l = 0
  <2>1. Shifts([j \in 0 .. 0 |-> x], 0, x)
    BY DEF Shifts
  <2>2. QED
    BY <1>2, <2>1
<1>3. CASE l # 0
  <2>1. l - 1 \in Nat /\ l - 1 \notin missing
    BY <1>1, <1>3
  <2>2. PICK g : Shifts(g, l - 1, x)
    BY <2>1
  <2> DEFINE h == [j \in 0 .. l |-> IF j = l THEN g[l - 1] \div R ELSE g[j]]
  <2>3. \A j \in 0 .. l - 1 : g[j] = IF j = 0 THEN x ELSE g[j - 1] \div R
    BY <2>2 DEF Shifts
  <2>4. ASSUME NEW j \in 0 .. l PROVE h[j] = IF j = 0 THEN x ELSE h[j - 1] \div R
    <3>1. CASE j = l
      BY <1>3, <2>1, <3>1
    <3>2. CASE j # l
      <4>1. j \in 0 .. l - 1 /\ (j # 0 => j - 1 \in 0 .. l /\ j - 1 # l)
        BY <3>2
      <4>2. QED
        BY <2>3, <3>2, <4>1
    <3>3. QED
      BY <3>1, <3>2
  <2>5. h = [j \in 0 .. l |-> h[j]]
    OBVIOUS
  <2>6. Shifts(h, l, x)
    <3> HIDE DEF h
    <3>1. QED
      BY <2>4, <2>5 DEF Shifts
  <2>7. QED
    BY <2>6
<1>4. QED
  BY <1>2, <1>3

\* What Shifted() does for a digit more.
LEMMA ShiftedMore ==
  ASSUME BlocksAssumption, NEW x \in Nat, NEW m \in Nat
  PROVE  /\ Shifted(x, 0) = x
         /\ Shifted(x, m) \in Nat
         /\ Shifted(x, m + 1) = Shifted(x, m) \div R
<1> DEFINE f(l) == CHOOSE g : Shifts(g, l, x)
<1>1. \A l \in Nat : Shifted(x, l) = f(l)[l]
  BY DEF Shifted, Shifts
<1>2. \A l \in Nat : Shifts(f(l), l, x)
  BY ShiftsExist
<1> HIDE DEF f
<1>3. \A l \in Nat : \A j \in 0 .. l : f(l)[j] = IF j = 0 THEN x ELSE f(l)[j - 1] \div R
  BY <1>2 DEF Shifts
<1> DEFINE wrong == {j \in Nat : j <= m /\ ~(f(m)[j] \in Nat /\ f(m)[j] = f(m + 1)[j])}
<1>4. wrong = {}
  <2> SUFFICES ASSUME wrong # {} PROVE FALSE
    OBVIOUS
  <2>1. PICK j \in wrong : \A l \in wrong : j <= l
    <3>1. wrong \in SUBSET Nat
      OBVIOUS
    <3> HIDE DEF wrong
    <3>2. QED
      BY <3>1, Smallest
  <2>2. j \in Nat /\ j <= m /\ ~(f(m)[j] \in Nat /\ f(m)[j] = f(m + 1)[j])
    OBVIOUS
  <2>3. m + 1 \in Nat /\ j \in 0 .. m /\ j \in 0 .. m + 1
    BY <2>2
  <2>4. /\ f(m)[j] = IF j = 0 THEN x ELSE f(m)[j - 1] \div R
        /\ f(m + 1)[j] = IF j = 0 THEN x ELSE f(m + 1)[j - 1] \div R
    BY <1>3, <2>3
  <2>5. j # 0
    BY <2>2, <2>4
  <2>6. f(m)[j - 1] \in Nat /\ f(m)[j - 1] = f(m + 1)[j - 1]
    BY <2>1, <2>2, <2>5
  <2>7. f(m)[j - 1] \div R \in Nat
    BY <2>6 DEF BlocksAssumption
  <2>8. QED
    BY <2>2, <2>4, <2>5, <2>6, <2>7
<1>5. f(m)[m] \in Nat /\ f(m)[m] = f(m + 1)[m]
  BY <1>4
<1>6. f(0)[0] = x
  BY <1>3
<1>7. f(m + 1)[m + 1] = f(m + 1)[m] \div R
  <2>1. m + 1 \in Nat /\ m + 1 \in 0 .. m + 1 /\ m + 1 # 0 /\ (m + 1) - 1 = m
    OBVIOUS
  <2>2. QED
    BY <1>3, <2>1
<1>8. QED
  BY <1>1, <1>5, <1>6, <1>7

\* The quotient and the remainder of a number plus 1.
LEMMA QuotientOfNext ==
  ASSUME NEW a \in Nat, NEW n \in Nat \ {0}
  PROVE  IF a % n = n - 1 THEN (a + 1) \div n = (a \div n) + 1 /\ (a + 1) % n = 0
         ELSE (a + 1) \div n = a \div n /\ (a + 1) % n = (a % n) + 1
OBVIOUS

\* Where the carry of a number plus 1 goes.
LEMMA ShiftedNext ==
  ASSUME BlocksAssumption, NEW x \in Nat, NEW m \in Nat
  PROVE  Shifted(x + 1, m) =
           IF \A l \in 0 .. m - 1 : Shifted(x, l) % R = R - 1
           THEN Shifted(x, m) + 1 ELSE Shifted(x, m)
<1> DEFINE full(k) == \A l \in 0 .. k - 1 : Shifted(x, l) % R = R - 1
           wrong == {k \in Nat : Shifted(x + 1, k) # IF full(k) THEN Shifted(x, k) + 1 ELSE Shifted(x, k)}
<1> SUFFICES ASSUME wrong # {} PROVE FALSE
  OBVIOUS
<1>1. PICK k \in wrong : \A l \in wrong : k <= l
  <2>1. wrong \in SUBSET Nat
    OBVIOUS
  <2> HIDE DEF wrong
  <2>2. QED
    BY <2>1, Smallest
<1>2. k \in Nat /\ Shifted(x + 1, k) # IF full(k) THEN Shifted(x, k) + 1 ELSE Shifted(x, k)
  OBVIOUS
<1>3. k # 0
  <2>1. Shifted(x, 0) = x /\ Shifted(x + 1, 0) = x + 1 /\ full(0)
    BY ShiftedMore
  <2>2. QED
    BY <1>2, <2>1
<1> DEFINE a == Shifted(x, k - 1)
<1>4. k - 1 \in Nat /\ k - 1 \notin wrong /\ (k - 1) + 1 = k
  BY <1>1, <1>3
<1>5. Shifted(x + 1, k - 1) = IF full(k - 1) THEN a + 1 ELSE a
  BY <1>4
<1>6. a \in Nat /\ Shifted(x, k) = a \div R /\ Shifted(x + 1, k) = Shifted(x + 1, k - 1) \div R
  <2>1. k - 1 \in Nat /\ (k - 1) + 1 = k /\ x + 1 \in Nat
    BY <1>4
  <2>2. a \in Nat /\ Shifted(x, (k - 1) + 1) = a \div R
    BY <2>1, ShiftedMore
  <2>3. Shifted(x + 1, (k - 1) + 1) = Shifted(x + 1, k - 1) \div R
    BY <2>1, ShiftedMore
  <2>4. QED
    BY <2>1, <2>2, <2>3
<1>7. full(k) <=> full(k - 1) /\ a % R = R - 1
  <2>1. 0 .. k - 1 = (0 .. (k - 1) - 1) \cup {k - 1}
    BY <1>4
  <2>2. QED
    BY <2>1
<1> HIDE DEF a, full
<1>8. IF a % R = R - 1 THEN (a + 1) \div R = (a \div R) + 1 ELSE (a + 1) \div R = a \div R
  BY <1>6, QuotientOfNext DEF BlocksAssumption
<1>9. QED
  BY <1>2, <1>5, <1>6, <1>7, <1>8

\* Less is not more when it is shifted.
LEMMA ShiftedMonotone ==
  ASSUME BlocksAssumption, NEW x \in Nat, NEW y \in Nat, x <= y, NEW m \in Nat
  PROVE  Shifted(x, m) <= Shifted(y, m)
<1> DEFINE wrong == {k \in Nat : ~(Shifted(x, k) <= Shifted(y, k))}
<1> SUFFICES ASSUME wrong # {} PROVE FALSE
  OBVIOUS
<1>1. PICK k \in wrong : \A l \in wrong : k <= l
  <2>1. wrong \in SUBSET Nat
    OBVIOUS
  <2> HIDE DEF wrong
  <2>2. QED
    BY <2>1, Smallest
<1>2. k \in Nat /\ ~(Shifted(x, k) <= Shifted(y, k))
  OBVIOUS
<1>3. k # 0
  BY <1>2, ShiftedMore
<1>4. k - 1 \in Nat /\ k - 1 \notin wrong /\ (k - 1) + 1 = k
  BY <1>1, <1>3
<1>5. Shifted(x, k - 1) <= Shifted(y, k - 1)
  BY <1>4
<1>6. /\ Shifted(x, k - 1) \in Nat /\ Shifted(x, k) = Shifted(x, k - 1) \div R
      /\ Shifted(y, k - 1) \in Nat /\ Shifted(y, k) = Shifted(y, k - 1) \div R
  BY <1>4, ShiftedMore
<1>7. \A a, b \in Nat, n \in Nat \ {0} : a <= b => a \div n <= b \div n
  OBVIOUS
<1>8. R \in Nat \ {0}
  BY DEF BlocksAssumption
<1>9. QED
  BY <1>2, <1>5, <1>6, <1>7, <1>8

\* The quotient and the remainder of a number.
LEMMA DivMod ==
  ASSUME NEW a \in Nat, NEW n \in Nat \ {0}
  PROVE  a \div n \in Nat /\ a % n \in 0 .. n - 1 /\ a = n * (a \div n) + (a % n)
OBVIOUS

\* Nothing else is its quotient and its remainder.
LEMMA DivModIs ==
  ASSUME NEW n \in Nat \ {0}, NEW q \in Nat, NEW r \in 0 .. n - 1
  PROVE  (n * q + r) \div n = q /\ (n * q + r) % n = r
OBVIOUS

\* How a byte more is counted.
LEMMA ByteMore ==
  ASSUME BlocksAssumption, NEW d \in Nat
  PROVE  /\ d % B \in Pos /\ d \div B \in Nat
         /\ NextPos(d) >= B <=> d % B = 0
         /\ d % B # 0 => NextPos(d) = d % B
         /\ NextPos(d + 1) = (d % B) + 1
         /\ Begun(d) \in Nat /\ Begun(d) <= d
         /\ Begun(d + 1) = (d \div B) + 1
         /\ Begun(d + 1) = IF d % B = 0 THEN Begun(d) + 1 ELSE Begun(d)
<1>1. B \in Nat \ {0}
  BY DEF BlocksAssumption
<1> DEFINE q == d \div B
           r == d % B
<1>2. q \in Nat /\ r \in 0 .. B - 1 /\ d = B * q + r
  BY <1>1, DivMod
<1>3. (d + 1) - 1 = d /\ d + 1 # 0
  OBVIOUS
<1>4. NextPos(d + 1) = r + 1
  BY <1>3 DEF NextPos
<1>5. d + 1 + B - 1 = d + B
  BY <1>1
<1> HIDE DEF q, r
<1>6. (d + B) \div B = q + 1
  <2>1. d + B = B * (q + 1) + r /\ q + 1 \in Nat
    BY <1>1, <1>2
  <2>2. QED
    BY <1>1, <1>2, <2>1, DivModIs
<1>7. Begun(d + 1) = q + 1
  BY <1>5, <1>6 DEF Begun
<1>8. CASE r = 0
  <2>1. d + B - 1 = B * q + (B - 1) /\ B - 1 \in 0 .. B - 1
    BY <1>1, <1>2, <1>8
  <2>2. Begun(d) = q
    BY <1>1, <1>2, <2>1, DivModIs DEF Begun
  <2>3. NextPos(d) >= B
    <3>1. CASE d = 0
      BY <1>1, <3>1 DEF NextPos
    <3>2. CASE d # 0
      <4>1. q # 0
        BY <1>1, <1>2, <1>8, <3>2
      <4>2. d - 1 = B * (q - 1) + (B - 1) /\ q - 1 \in Nat
        BY <1>1, <1>2, <1>8, <4>1
      <4>3. (d - 1) % B = B - 1
        BY <1>1, <2>1, <4>2, DivModIs
      <4>4. QED
        BY <1>1, <3>2, <4>3 DEF NextPos
    <3>3. QED
      BY <3>1, <3>2
  <2>4. q <= d
    BY <1>1, <1>2
  <2>5. QED
    BY <1>2, <1>4, <1>7, <1>8, <2>2, <2>3, <2>4 DEF q, r, Pos
<1>9. CASE r # 0
  <2>1. d + B - 1 = B * (q + 1) + (r - 1) /\ r - 1 \in 0 .. B - 1 /\ q + 1 \in Nat
    BY <1>1, <1>2, <1>9
  <2>2. Begun(d) = q + 1
    BY <1>1, <2>1, DivModIs DEF Begun
  <2>3. d # 0 /\ d - 1 = B * q + (r - 1)
    BY <1>1, <1>2, <1>9
  <2>4. (d - 1) % B = r - 1
    BY <1>1, <1>2, <2>1, <2>3, DivModIs
  <2>5. NextPos(d) = r /\ r < B
    <3>1. NextPos(d) = (r - 1) + 1
      BY <2>3, <2>4 DEF NextPos
    <3>2. QED
      BY <1>1, <1>2, <3>1
  <2>6. q + 1 <= d
    <3>1. q <= B * q
      BY <1>1, <1>2
    <3>2. QED
      BY <1>1, <1>2, <1>9, <3>1
  <2>7. QED
    BY <1>1, <1>2, <1>4, <1>7, <1>9, <2>2, <2>5, <2>6 DEF q, r, Pos
<1>10. QED
  BY <1>8, <1>9

\* What the inputs are known to be.
Lengths ==
  /\ BlocksAssumption /\ CcmAssumption
  /\ encrypt \in BOOLEAN /\ nonce_len \in NonceLens /\ aad_len \in AadLens
  /\ data_len \in DataLens /\ tag_len \in TagLens /\ change \in Changes

\* What of that the arithmetic needs.
LEMMA LengthsAre ==
  ASSUME Lengths
  PROVE  /\ B \in Nat /\ B >= 3 /\ nonce_len \in 1 .. B - 2
         /\ aad_len \in Nat /\ data_len \in Nat /\ tag_len \in 4 .. B
         /\ Shifted(data_len, B - 1 - nonce_len) = 0
         /\ change \in {"none", "aad", "data", "tag"}
BY DEF Lengths, BlocksAssumption, CcmAssumption

\* A number that fits into fewer digits fits into more.
LEMMA StaysZero ==
  ASSUME BlocksAssumption, NEW x \in Nat, NEW m \in Nat, Shifted(x, m) = 0, NEW n \in Nat, m <= n
  PROVE  Shifted(x, n) = 0
<1> DEFINE wrong == {k \in Nat : m <= k /\ Shifted(x, k) # 0}
<1> SUFFICES ASSUME wrong # {} PROVE FALSE
  OBVIOUS
<1>1. PICK k \in wrong : \A l \in wrong : k <= l
  <2>1. wrong \in SUBSET Nat
    OBVIOUS
  <2> HIDE DEF wrong
  <2>2. QED
    BY <2>1, Smallest
<1>2. k # m
  OBVIOUS
<1>3. k - 1 \in Nat /\ Shifted(x, k - 1) = 0 /\ (k - 1) + 1 = k
  BY <1>1, <1>2
<1>4. Shifted(x, (k - 1) + 1) = 0 \div R
  <2> HIDE DEF wrong
  <2>1. QED
    BY <1>3, ShiftedMore
<1>5. 0 \div R = 0
  BY DEF BlocksAssumption
<1>6. QED
  BY <1>3, <1>4, <1>5

\* IterateKeyStream() goes from the counter of a block to that of the next, with all carries.
LEMMA CounterNext ==
  ASSUME Lengths, NEW j \in Nat, j + 1 <= data_len
  PROVE  Increased(CounterAt(j)) = CounterAt(j + 1)
<1>1. B \in Nat /\ B >= 3 /\ nonce_len \in 1 .. B - 2 /\ data_len \in Nat /\ BlocksAssumption
  BY LengthsAre DEF Lengths
<1>2. Shifted(j + 1, B - 1) = 0
  <2>1. B - 1 - nonce_len \in Nat /\ B - 1 \in Nat /\ B - 1 - nonce_len <= B - 1 /\ j + 1 \in Nat
    BY <1>1
  <2>2. Shifted(data_len, B - 1) = 0
    BY <1>1, <2>1, LengthsAre, StaysZero
  <2>3. Shifted(j + 1, B - 1) <= Shifted(data_len, B - 1) /\ Shifted(j + 1, B - 1) \in Nat
    BY <1>1, <2>1, ShiftedMonotone, ShiftedMore
  <2>4. QED
    BY <2>2, <2>3
<1> DEFINE c == CounterAt(j)
           full(k) == \A ix \in k + 1 .. B - 1 : c[ix] = R - 1
           fullTo(m) == \A l \in 0 .. m - 1 : Shifted(j, l) % R = R - 1
<1>3. \A k \in Pos : c[k] = IF k = 0 THEN B - 2 - nonce_len ELSE Shifted(j, B - 1 - k) % R
  BY DEF CounterAt
<1>4. ASSUME NEW k \in Pos PROVE full(k) <=> fullTo(B - 1 - k)
  <2>1. ASSUME full(k), NEW l \in 0 .. (B - 1 - k) - 1 PROVE Shifted(j, l) % R = R - 1
    <3>1. B - 1 - l \in k + 1 .. B - 1 /\ B - 1 - l \in Pos /\ B - 1 - l # 0 /\ B - 1 - (B - 1 - l) = l
      BY <1>1 DEF Pos
    <3>2. c[B - 1 - l] = R - 1
      BY <2>1, <3>1
    <3> HIDE DEF c
    <3>3. QED
      BY <1>3, <3>1, <3>2
  <2>2. ASSUME fullTo(B - 1 - k), NEW ix \in k + 1 .. B - 1 PROVE c[ix] = R - 1
    <3>1. ix \in Pos /\ ix # 0 /\ B - 1 - ix \in 0 .. (B - 1 - k) - 1
      BY <1>1 DEF Pos
    <3>2. Shifted(j, B - 1 - ix) % R = R - 1
      BY <2>2, <3>1
    <3> HIDE DEF c
    <3>3. QED
      BY <1>3, <3>1, <3>2
  <2>3. QED
    BY <2>1, <2>2
<1>5. Increased(c) = [k \in Pos |-> IF full(k) THEN (c[k] + 1) % R ELSE c[k]]
  BY DEF Increased
<1> HIDE DEF full, fullTo
<1>6. ASSUME NEW k \in Pos
      PROVE  (IF full(k) THEN (c[k] + 1) % R ELSE c[k])
               = IF k = 0 THEN B - 2 - nonce_len ELSE Shifted(j + 1, B - 1 - k) % R
  <2>1. B - 1 - k \in Nat
    BY <1>1 DEF Pos
  <2>2. /\ Shifted(j + 1, B - 1 - k) =
             IF full(k) THEN Shifted(j, B - 1 - k) + 1 ELSE Shifted(j, B - 1 - k)
        /\ Shifted(j, B - 1 - k) \in Nat
    BY <1>1, <1>4, <2>1, ShiftedNext, ShiftedMore DEF fullTo
  <2>3. CASE k = 0
    <3>1. Shifted(j + 1, B - 1) = IF full(k) THEN Shifted(j, B - 1) + 1 ELSE Shifted(j, B - 1)
      BY <1>1, <2>2, <2>3
    <3>2. Shifted(j, B - 1) \in Nat
      BY <1>1, <2>2, <2>3
    <3>3. ~full(k)
      BY <1>2, <3>1, <3>2
    <3>4. QED
      BY <1>3, <2>3, <3>3
  <2>4. CASE k # 0
    <3> DEFINE a == Shifted(j, B - 1 - k)
    <3>1. c[k] = a % R /\ a \in Nat /\ Shifted(j + 1, B - 1 - k) = IF full(k) THEN a + 1 ELSE a
      BY <1>3, <2>2, <2>4
    <3> HIDE DEF a, c
    <3>2. ((a % R) + 1) % R = (a + 1) % R
      <4>1. R \in Nat \ {0, 1}
        BY <1>1 DEF BlocksAssumption
      <4>2. a % R \in 0 .. R - 1
        BY <3>1, <4>1
      <4>3. CASE a % R = R - 1
        <5>1. (a + 1) % R = 0
          BY <3>1, <4>1, <4>3, QuotientOfNext
        <5>2. ((a % R) + 1) % R = R % R /\ R % R = 0
          BY <4>1, <4>3
        <5>3. QED
          BY <5>1, <5>2
      <4>4. CASE a % R # R - 1
        <5>1. (a + 1) % R = (a % R) + 1
          BY <3>1, <4>1, <4>4, QuotientOfNext
        <5>2. (a % R) + 1 \in 0 .. R - 1
          BY <4>1, <4>2, <4>4
        <5>3. \A x \in 0 .. R - 1 : x % R = x
          BY <4>1
        <5>4. QED
          BY <5>1, <5>2, <5>3
      <4>5. QED
        BY <4>3, <4>4
    <3>3. QED
      BY <2>4, <3>1, <3>2
  <2>5. QED
    BY <2>3, <2>4
<1>7. QED
  BY <1>5, <1>6 DEF CounterAt

\* The block that is encrypted to a block of the key stream.
LEMMA CounterBytesRight ==
  ASSUME Lengths, NEW c, c.nonce_len = nonce_len, NEW j \in Nat
  PROVE  CounterBytes(c, CounterAt(j)) = CounterBlock(j)
<1>1. B \in Nat /\ B >= 3 /\ nonce_len \in 1 .. B - 2
  BY LengthsAre
<1>2. ASSUME NEW k \in Pos
      PROVE  (IF k \in 1 .. nonce_len THEN Nonce(k - 1) ELSE Digit(CounterAt(j)[k]))
             = IF k = 0 THEN Digit(LengthOfLength - 1)
               ELSE IF k <= nonce_len THEN Nonce(k - 1)
               ELSE NumberByte(j, LengthOfLength, k - nonce_len - 1)
  <2>1. CounterAt(j)[k] = IF k = 0 THEN B - 2 - nonce_len ELSE Shifted(j, B - 1 - k) % R
    BY DEF CounterAt
  <2>2. LengthOfLength - 1 = B - 2 - nonce_len
    BY <1>1 DEF LengthOfLength
  <2>3. LengthOfLength - 1 - (k - nonce_len - 1) = B - 1 - k
    BY <1>1 DEF LengthOfLength, Pos
  <2>4. NumberByte(j, LengthOfLength, k - nonce_len - 1) = Digit(Shifted(j, B - 1 - k) % R)
    BY <2>3 DEF NumberByte
  <2>5. CASE k = 0
    BY <1>1, <2>1, <2>2, <2>5
  <2>6. CASE k # 0
    BY <1>1, <2>1, <2>4, <2>6 DEF Pos
  <2>7. QED
    BY <2>5, <2>6
<1>3. CounterBytes(c, CounterAt(j)) =
        [k \in Pos |-> IF k \in 1 .. nonce_len THEN Nonce(k - 1) ELSE Digit(CounterAt(j)[k])]
  BY DEF CounterBytes
<1>4. QED
  BY <1>2, <1>3 DEF CounterBlock

\* A sequence, of whatever its elements are.
List(s) == \E n \in Nat : s = [k \in 1 .. n |-> s[k]]

\* A function on 1 .. n is a sequence.
LEMMA ListIs ==
  ASSUME NEW s, NEW n \in Nat, s = [k \in 1 .. n |-> s[k]]
  PROVE  s \in Seq({s[k] : k \in 1 .. n}) /\ Len(s) = n /\ List(s)
<1> DEFINE S == {s[k] : k \in 1 .. n}
<1>1. \A k \in 1 .. n : s[k] \in S
  OBVIOUS
<1> HIDE DEF S
<1>2. s \in [1 .. n -> S]
  BY <1>1
<1>3. s \in Seq(S) /\ Len(s) = n
  BY <1>2
<1>4. QED
  BY <1>3 DEF S, List

\* A sequence is a function on 1 .. Len(s).
LEMMA ListLen ==
  ASSUME NEW s, List(s)
  PROVE  Len(s) \in Nat /\ s = [k \in 1 .. Len(s) |-> s[k]]
<1>1. PICK n \in Nat : s = [k \in 1 .. n |-> s[k]]
  BY DEF List
<1>2. Len(s) = n
  BY <1>1, ListIs
<1>3. QED
  BY <1>1, <1>2

\* Two sequences, one behind the other.
LEMMA ListJoined ==
  ASSUME NEW s, NEW t, List(s), List(t)
  PROVE  /\ s \o t = [k \in 1 .. Len(s) + Len(t) |-> IF k <= Len(s) THEN s[k] ELSE t[k - Len(s)]]
         /\ List(s \o t) /\ Len(s \o t) = Len(s) + Len(t)
<1> DEFINE m == Len(s)
           n == Len(t)
           S == {s[k] : k \in 1 .. m}
           T0 == {t[k] : k \in 1 .. n}
           U == S \cup T0
           v == [k \in 1 .. m + n |-> IF k <= m THEN s[k] ELSE t[k - m]]
<1>1. m \in Nat /\ n \in Nat /\ s \in Seq(S) /\ t \in Seq(T0)
  BY ListLen, ListIs
<1>2. S \subseteq U /\ T0 \subseteq U
  OBVIOUS
<1> HIDE DEF U, S, T0
<1>3. s \in Seq(U) /\ t \in Seq(U)
  BY <1>1, <1>2
<1>4. s \o t = v
  <2>1. s \o t \in Seq(U) /\ Len(s \o t) = m + n
    BY <1>3
  <2>2. ASSUME NEW k \in 1 .. m + n PROVE (s \o t)[k] = v[k]
    <3>1. \A p, q \in Seq(U) : \A j \in 1 .. Len(p) + Len(q) :
            (p \o q)[j] = IF j <= Len(p) THEN p[j] ELSE q[j - Len(p)]
      OBVIOUS
    <3>2. (s \o t)[k] = IF k <= m THEN s[k] ELSE t[k - m]
      BY <1>3, <3>1
    <3>3. QED
      BY <3>2
  <2>3. s \o t = [k \in 1 .. m + n |-> (s \o t)[k]]
    <3> DEFINE w == s \o t
    <3>1. \A x \in Seq(U) : x = [k \in 1 .. Len(x) |-> x[k]]
      OBVIOUS
    <3>2. w \in Seq(U) /\ Len(w) = m + n
      BY <2>1
    <3> HIDE DEF w, m, n
    <3>3. w = [k \in 1 .. m + n |-> w[k]]
      BY <3>1, <3>2
    <3>4. QED
      BY <3>3 DEF w
  <2> HIDE DEF m, n
  <2>4. QED
    BY <2>2, <2>3
<1>5. v = [k \in 1 .. m + n |-> v[k]] /\ m + n \in Nat
  BY <1>1
<1> HIDE DEF v
<1>6. List(v) /\ Len(v) = m + n
  BY <1>5, ListIs
<1>7. QED
  BY <1>4, <1>6 DEF v

\* The blocks that come out of the cipher on the way to a CBC-MAC.
Chained(y, s, n) ==
  y = [ix \in 1 .. n |-> Cipher(IF ix = 1 THEN s[ix] ELSE XorBlocks(y[ix - 1], s[ix]))]

\* There is such a function, for every length.
LEMMA ChainExists ==
  ASSUME NEW s, NEW n \in Nat
  PROVE  \E y : Chained(y, s, n)
<1> DEFINE missing == {l \in Nat : ~ \E y : Chained(y, s, l)}
<1> SUFFICES ASSUME missing # {} PROVE FALSE
  OBVIOUS
<1>1. PICK l \in missing : \A j \in missing : l <= j
  <2>1. missing \in SUBSET Nat
    OBVIOUS
  <2> HIDE DEF missing
  <2>2. QED
    BY <2>1, Smallest
<1>2. CASE l = 0
  <2>1. Chained([ix \in 1 .. 0 |-> Zero], s, 0)
    BY DEF Chained
  <2>2. QED
    BY <1>2, <2>1
<1>3. CASE l # 0
  <2>1. l - 1 \in Nat /\ l - 1 \notin missing
    BY <1>1, <1>3
  <2>2. PICK y : Chained(y, s, l - 1)
    BY <2>1
  <2> DEFINE h == [ix \in 1 .. l |-> IF ix = l THEN Cipher(IF ix = 1 THEN s[ix] ELSE XorBlocks(y[ix - 1], s[ix])) ELSE y[ix]]
  <2>3. \A ix \in 1 .. l - 1 : y[ix] = Cipher(IF ix = 1 THEN s[ix] ELSE XorBlocks(y[ix - 1], s[ix]))
    BY <2>2 DEF Chained
  <2>4. ASSUME NEW ix \in 1 .. l PROVE h[ix] = Cipher(IF ix = 1 THEN s[ix] ELSE XorBlocks(h[ix - 1], s[ix]))
    <3>1. CASE ix = 1
      <4>1. h[ix] = Cipher(s[ix])
        BY <2>1, <2>3, <3>1
      <4>2. QED
        BY <3>1, <4>1
    <3>2. CASE ix # 1
      <4>1. ix - 1 \in 1 .. l /\ ix - 1 # l /\ (ix # l => ix \in 1 .. l - 1)
        BY <3>2
      <4>2. h[ix - 1] = y[ix - 1]
        BY <4>1
      <4>3. h[ix] = Cipher(XorBlocks(y[ix - 1], s[ix]))
        BY <2>3, <3>2, <4>1
      <4>4. QED
        BY <3>2, <4>2, <4>3
    <3>3. QED
      BY <3>1, <3>2
  <2>5. h = [ix \in 1 .. l |-> h[ix]]
    OBVIOUS
  <2>6. Chained(h, s, l)
    <3> HIDE DEF h
    <3>1. QED
      BY <2>4, <2>5 DEF Chained
  <2>7. QED
    BY <2>6
<1>4. QED
  BY <1>2, <1>3

\* Equal blocks lead to equal ones.
LEMMA ChainsAgree ==
  ASSUME NEW s, NEW t, NEW m \in Nat, NEW n \in Nat, NEW y, NEW z,
         Chained(y, s, m), Chained(z, t, n), NEW l \in 1 .. m, l <= n,
         \A ix \in 1 .. l : s[ix] = t[ix]
  PROVE  y[l] = z[l]
<1> DEFINE wrong == {ix \in Nat : ix \in 1 .. l /\ y[ix] # z[ix]}
<1> SUFFICES ASSUME wrong # {} PROVE FALSE
  OBVIOUS
<1>1. PICK ix \in wrong : \A j \in wrong : ix <= j
  <2>1. wrong \in SUBSET Nat
    OBVIOUS
  <2> HIDE DEF wrong
  <2>2. QED
    BY <2>1, Smallest
<1>2. ix \in 1 .. l /\ ix \in 1 .. m /\ ix \in 1 .. n /\ y[ix] # z[ix] /\ s[ix] = t[ix]
  OBVIOUS
<1>3. /\ y[ix] = Cipher(IF ix = 1 THEN s[ix] ELSE XorBlocks(y[ix - 1], s[ix]))
      /\ z[ix] = Cipher(IF ix = 1 THEN t[ix] ELSE XorBlocks(z[ix - 1], t[ix]))
  BY <1>2 DEF Chained
<1>4. ix # 1
  BY <1>2, <1>3
<1>5. ix - 1 \in Nat /\ ix - 1 \in 1 .. l /\ ~(ix <= ix - 1)
  BY <1>2, <1>4
<1>6. y[ix - 1] = z[ix - 1]
  BY <1>1, <1>5
<1>7. QED
  BY <1>2, <1>3, <1>4, <1>6

\* The last block of a CBC-MAC comes out of the cipher.
LEMMA MacIs ==
  ASSUME NEW s, List(s), Len(s) # 0
  PROVE  CbcMac(s) = Cipher(LastInput(s))
<1> DEFINE n == Len(s)
           f(u) == CHOOSE y : Chained(y, u, Len(u))
<1>1. n \in Nat /\ n \in 1 .. n /\ s = [k \in 1 .. n |-> s[k]]
  BY ListLen
<1>2. \A u : CbcMac(u) = f(u)[Len(u)]
  BY DEF CbcMac, Chained
<1>3. \A u : Len(u) \in Nat => Chained(f(u), u, Len(u))
  BY ChainExists
<1> HIDE DEF f
<1>4. f(s)[n] = Cipher(IF n = 1 THEN s[n] ELSE XorBlocks(f(s)[n - 1], s[n]))
  <2>1. Chained(f(s), s, n)
    BY <1>1, <1>3
  <2>2. QED
    BY <1>1, <2>1 DEF Chained
<1>5. CASE n = 1
  BY <1>2, <1>4, <1>5 DEF LastInput
<1>6. CASE n # 1
  <2> DEFINE t == Front(s)
  <2>1. n - 1 \in Nat /\ n - 1 \in 1 .. n - 1 /\ n - 1 <= n
    BY <1>1, <1>6
  <2>2. t = [k \in 1 .. n - 1 |-> t[k]] /\ \A k \in 1 .. n - 1 : t[k] = s[k]
    BY DEF Front
  <2> HIDE DEF t
  <2>3. Len(t) = n - 1
    BY <2>1, <2>2, ListIs
  <2>4. Chained(f(t), t, n - 1) /\ Chained(f(s), s, n)
    BY <1>1, <1>3, <2>1, <2>3
  <2> HIDE DEF n
  <2>5. f(t)[n - 1] = f(s)[n - 1]
    <3> DEFINE l == n - 1
               y == f(t)
               z == f(s)
    <3>1. /\ l \in Nat /\ n \in Nat /\ l \in 1 .. l /\ l <= n
          /\ Chained(y, t, l) /\ Chained(z, s, n) /\ \A k \in 1 .. l : t[k] = s[k]
      BY <1>1, <2>1, <2>2, <2>4
    <3> HIDE DEF l, y, z
    <3>2. y[l] = z[l]
      BY <3>1, ChainsAgree
    <3>3. QED
      BY <3>2 DEF l, y, z
  <2>6. CbcMac(t) = f(s)[n - 1]
    BY <1>2, <2>3, <2>5
  <2>7. QED
    BY <1>2, <1>4, <1>6, <2>6 DEF LastInput, n, t
<1>7. QED
  BY <1>5, <1>6

\* A block more.
LEMMA BlockAppended ==
  ASSUME NEW s, NEW t, List(s), List(t), Len(s) # 0, Len(t) = Len(s) + 1,
         \A k \in 1 .. Len(s) : t[k] = s[k]
  PROVE  LastInput(t) = XorBlocks(Cipher(LastInput(s)), t[Len(t)])
<1>1. Len(s) \in Nat /\ s = [k \in 1 .. Len(s) |-> s[k]]
  BY ListLen
<1>2. Len(t) - 1 = Len(s) /\ Len(t) # 1
  BY <1>1
<1>3. Front(t) = s
  BY <1>1, <1>2 DEF Front
<1>4. CbcMac(s) = Cipher(LastInput(s))
  BY MacIs
<1>5. QED
  BY <1>2, <1>3, <1>4 DEF LastInput

\* The last block with other bytes.
LEMMA BlockChanged ==
  ASSUME NEW s, NEW t, List(s), List(t), Len(s) \notin {0, 1}, Len(t) = Len(s),
         \A k \in 1 .. Len(s) - 1 : t[k] = s[k]
  PROVE  \E y : /\ LastInput(s) = XorBlocks(y, s[Len(s)])
                /\ LastInput(t) = XorBlocks(y, t[Len(s)])
<1>1. Front(t) = Front(s)
  BY DEF Front
<1>2. QED
  BY <1>1 DEF LastInput

\* Block ix of a sequence of bytes.
BlockAt(s, ix) ==
  [k \in Pos |-> IF B * (ix - 1) + k < Len(s) THEN s[B * (ix - 1) + k + 1] ELSE Zero]

\* The blocks of a sequence of bytes are a sequence.
LEMMA BlocksList ==
  ASSUME BlocksAssumption, NEW s, List(s)
  PROVE  /\ List(BlocksOf(s)) /\ Len(BlocksOf(s)) = Begun(Len(s)) /\ Begun(Len(s)) \in Nat
         /\ \A ix \in 1 .. Begun(Len(s)) : BlocksOf(s)[ix] = BlockAt(s, ix)
<1>1. Len(s) \in Nat
  BY ListLen
<1>2. Begun(Len(s)) \in Nat
  BY <1>1, ByteMore
<1> DEFINE b == BlocksOf(s)
<1>3. b = [ix \in 1 .. Begun(Len(s)) |-> b[ix]]
  BY DEF BlocksOf, Begun
<1>4. List(b) /\ Len(b) = Begun(Len(s))
  <2> HIDE DEF b
  <2>1. QED
    BY <1>2, <1>3, ListIs
<1>5. QED
  BY <1>2, <1>4 DEF BlocksOf, Begun, BlockAt

\* Nothing changes what it is added to.
LEMMA XorZero == \A a : Xor(a, Zero) = a /\ Xor(Zero, a) = a
BY DEF Xor, Zero

\* t is s with the byte e behind it.
Longer(s, t, e) ==
  /\ List(s) /\ List(t) /\ Len(t) = Len(s) + 1 /\ t[Len(t)] = e
  /\ \A k \in 1 .. Len(s) : t[k] = s[k]

\* The place of a byte in full blocks.
LEMMA Inside ==
  ASSUME NEW n \in Nat \ {0}, NEW q \in Nat, NEW ix \in 1 .. q, NEW k \in 0 .. n - 1
  PROVE  n * (ix - 1) + k \in Nat /\ n * (ix - 1) + k < n * q
<1>1. q - ix \in Nat /\ ix - 1 \in Nat /\ q = (ix - 1) + 1 + (q - ix)
  OBVIOUS
<1>2. n * q = n * (ix - 1) + n + n * (q - ix)
  BY <1>1
<1>3. n * (q - ix) \in Nat /\ n * (ix - 1) \in Nat
  BY <1>1
<1>4. QED
  BY <1>2, <1>3

\* What becomes of the n blocks of the d bytes of s.
BlocksGrown(s, t, e, d, n) ==
  /\ d \in Nat /\ n \in Nat
  /\ \A ix \in 1 .. d \div B : BlocksOf(t)[ix] = BlocksOf(s)[ix]
  /\ d % B = 0 =>
       /\ n = d \div B /\ Len(BlocksOf(t)) = n + 1
       /\ BlocksOf(t)[n + 1] = [k \in Pos |-> IF k = 0 THEN e ELSE Zero]
  /\ d % B # 0 =>
       /\ n = (d \div B) + 1 /\ Len(BlocksOf(t)) = n
       /\ BlocksOf(t)[n] = [BlocksOf(s)[n] EXCEPT ![d % B] = e]
       /\ BlocksOf(s)[n][d % B] = Zero
       /\ BlocksOf(s)[n] = [k \in Pos |-> BlocksOf(s)[n][k]]

\* A byte more begins a block or goes into the last one.
LEMMA BlocksLonger ==
  ASSUME BlocksAssumption, NEW s, NEW t, NEW e, Longer(s, t, e)
  PROVE  BlocksGrown(s, t, e, Len(s), Begun(Len(s)))
<1> DEFINE d == Len(s)
           n == Begun(d)
           q == d \div B
           r == d % B
           bs == BlocksOf(s)
           bt == BlocksOf(t)
<1>1. B \in Nat \ {0} /\ d \in Nat /\ Len(t) = d + 1 /\ t[d + 1] = e
  BY ListLen DEF BlocksAssumption, Longer
<1>2. q \in Nat /\ r \in Pos /\ r \in 0 .. B - 1 /\ d = B * q + r
  BY <1>1, DivMod DEF Pos
<1>3. n \in Nat /\ Begun(d + 1) = q + 1 /\ Begun(d + 1) = IF r = 0 THEN n + 1 ELSE n
  BY <1>1, ByteMore
<1>4. /\ Len(bs) = n /\ Len(bt) = q + 1
      /\ \A ix \in 1 .. n : bs[ix] = BlockAt(s, ix)
      /\ \A ix \in 1 .. q + 1 : bt[ix] = BlockAt(t, ix)
  <2>1. List(s) /\ List(t)
    BY DEF Longer
  <2>2. Len(bs) = n /\ \A ix \in 1 .. n : bs[ix] = BlockAt(s, ix)
    BY <2>1, BlocksList
  <2>3. Len(bt) = Begun(Len(t)) /\ \A ix \in 1 .. Begun(Len(t)) : bt[ix] = BlockAt(t, ix)
    BY <2>1, BlocksList
  <2> HIDE DEF bs, bt, q, r, n, d
  <2>4. QED
    BY <1>1, <1>3, <2>2, <2>3
<1>5. \A k \in 1 .. d : t[k] = s[k]
  BY DEF Longer
<1> HIDE DEF q, r, bs, bt, n, d
<1>6. q <= n /\ (r = 0 => n = q) /\ (r # 0 => n = q + 1)
  BY <1>2, <1>3
<1>7. ASSUME NEW ix \in 1 .. q PROVE bt[ix] = bs[ix]
  <2>1. ix \in 1 .. n /\ ix \in 1 .. q + 1
    BY <1>2, <1>3, <1>6
  <2>2. ASSUME NEW k \in Pos
        PROVE  /\ B * (ix - 1) + k < d /\ B * (ix - 1) + k < d + 1
               /\ t[B * (ix - 1) + k + 1] = s[B * (ix - 1) + k + 1]
    <3> DEFINE j == B * (ix - 1) + k
    <3>1. j \in Nat /\ j < B * q
      BY <1>1, <1>2, Inside DEF Pos
    <3> HIDE DEF j
    <3>2. B * q <= d
      BY <1>1, <1>2
    <3>3. j < d /\ j < d + 1 /\ j + 1 \in 1 .. d
      <4> DEFINE bq == B * q
      <4>1. bq \in Nat
        BY <1>1, <1>2
      <4> HIDE DEF bq
      <4>2. QED
        BY <1>1, <3>1, <3>2, <4>1 DEF bq
    <3>4. t[j + 1] = s[j + 1]
      BY <1>5, <3>3
    <3>5. QED
      BY <3>3, <3>4 DEF j
  <2>3. bt[ix] = [k \in Pos |-> t[B * (ix - 1) + k + 1]]
    BY <1>1, <1>4, <2>1, <2>2 DEF BlockAt
  <2>4. bs[ix] = [k \in Pos |-> s[B * (ix - 1) + k + 1]]
    BY <1>4, <2>1, <2>2 DEF BlockAt, d
  <2>5. QED
    BY <2>2, <2>3, <2>4
<1>8. bt[q + 1] = [k \in Pos |-> IF B * q + k < d + 1 THEN t[B * q + k + 1] ELSE Zero]
  <2>1. q + 1 \in 1 .. q + 1 /\ (q + 1) - 1 = q
    BY <1>2
  <2>2. QED
    BY <1>1, <1>4, <2>1 DEF BlockAt
<1>9. \A k \in Pos : B * q + k < d + 1 <=> k <= r
  BY <1>1, <1>2 DEF Pos
<1>10. B * q + r + 1 = d + 1
  BY <1>1, <1>2
<1>11. CASE r = 0
  <2>1. bt[q + 1] = [k \in Pos |-> IF k = 0 THEN e ELSE Zero]
    <3>1. \A k \in Pos : k <= r <=> k = 0
      BY <1>11 DEF Pos
    <3>2. t[B * q + 0 + 1] = e
      BY <1>1, <1>10, <1>11
    <3> HIDE <1>1
    <3>3. QED
      BY <1>8, <1>9, <3>1, <3>2
  <2>2. QED
    <3>1. BlocksGrown(s, t, e, d, n)
      BY <1>1, <1>3, <1>4, <1>6, <1>7, <1>11, <2>1 DEF q, r, bs, bt, BlocksGrown
    <3>2. QED
      BY <3>1 DEF d, n
<1>12. CASE r # 0
  <2>1. bs[n] = [k \in Pos |-> IF B * q + k < d THEN s[B * q + k + 1] ELSE Zero]
    <3>1. n \in 1 .. n /\ n - 1 = q
      BY <1>2, <1>6, <1>12
    <3>2. QED
      BY <1>4, <3>1 DEF BlockAt, d
  <2>2. \A k \in Pos : B * q + k < d <=> k < r
    BY <1>1, <1>2 DEF Pos
  <2>3. bs[n][r] = Zero /\ bs[n] = [k \in Pos |-> bs[n][k]]
    <3>1. ~(B * q + r < d)
      BY <1>2, <2>2
    <3>2. QED
      BY <1>2, <2>1, <3>1
  <2>4. ASSUME NEW k \in Pos
        PROVE  (IF B * q + k < d + 1 THEN t[B * q + k + 1] ELSE Zero) = IF k = r THEN e ELSE bs[n][k]
    <3>1. CASE k = r
      <4>1. B * q + k < d + 1 /\ B * q + k + 1 = d + 1
        BY <1>9, <1>10, <1>2, <3>1
      <4>2. QED
        BY <1>1, <3>1, <4>1
    <3>2. CASE k < r
      <4>1. B * q + k < d + 1 /\ B * q + k < d
        BY <1>9, <2>2, <1>2, <3>2
      <4>2. B * q + k + 1 \in 1 .. d
        BY <1>1, <1>2, <4>1 DEF Pos
      <4>3. t[B * q + k + 1] = s[B * q + k + 1]
        BY <1>5, <4>2
      <4>4. bs[n][k] = s[B * q + k + 1]
        BY <2>1, <4>1
      <4>5. k # r
        BY <1>2, <3>2
      <4>6. QED
        BY <4>1, <4>3, <4>4, <4>5
    <3>3. CASE k > r
      <4>1. ~(B * q + k < d + 1) /\ ~(B * q + k < d) /\ k # r
        BY <1>2, <1>9, <2>2, <3>3 DEF Pos
      <4>2. bs[n][k] = Zero
        BY <2>1, <4>1
      <4>3. QED
        BY <4>1, <4>2
    <3>4. k = r \/ k < r \/ k > r
      BY <1>2 DEF Pos
    <3>5. QED
      BY <3>1, <3>2, <3>3, <3>4
  <2>5. bt[n] = [bs[n] EXCEPT ![r] = e]
    <3>1. bt[n] = [k \in Pos |-> IF k = r THEN e ELSE bs[n][k]]
      BY <1>6, <1>8, <1>12, <2>4
    <3>2. QED
      BY <2>3, <3>1
  <2>6. QED
    <3>1. BlocksGrown(s, t, e, d, n)
      BY <1>1, <1>3, <1>4, <1>6, <1>7, <1>12, <2>3, <2>5 DEF q, r, bs, bt, BlocksGrown
    <3>2. QED
      BY <3>1 DEF d, n
<1>13. QED
  BY <1>11, <1>12

\* What a byte more does to the block that goes into the cipher at the end.
LEMMA ByteFed ==
  ASSUME BlocksAssumption, NEW h, List(h), Len(h) # 0,
         NEW s, NEW t, NEW e, Longer(s, t, e)
  PROVE  LET z == LastInput(h \o BlocksOf(s))
             d == Len(s)
         IN  LastInput(h \o BlocksOf(t)) =
               IF d % B = 0 THEN [Cipher(z) EXCEPT ![0] = Xor(@, e)]
               ELSE [z EXCEPT ![d % B] = Xor(@, e)]
<1> DEFINE d == Len(s)
           n == Begun(d)
           l == Len(h)
           bs == BlocksOf(s)
           bt == BlocksOf(t)
           u == h \o bs
           v == h \o bt
           z == LastInput(u)
<1>0. BlocksGrown(s, t, e, d, n)
  BY BlocksLonger
<1>1. l \in Nat /\ l >= 1 /\ d \in Nat /\ n \in Nat /\ B \in Nat \ {0}
  BY <1>0, ListLen DEF BlocksAssumption, BlocksGrown
<1>2. List(s) /\ List(t)
  BY DEF Longer
<1>3. List(bs) /\ List(bt) /\ Len(bs) = n
  BY <1>2, BlocksList
<1>4. /\ List(u) /\ Len(u) = l + n
      /\ \A k \in 1 .. l + n : u[k] = IF k <= l THEN h[k] ELSE bs[k - l]
  BY <1>3, ListJoined
<1>5. /\ List(v) /\ Len(v) = l + Len(bt)
      /\ \A k \in 1 .. l + Len(bt) : v[k] = IF k <= l THEN h[k] ELSE bt[k - l]
  BY <1>3, ListJoined
<1> HIDE DEF u, v, d, n
<1>len. Len(u) = l + n /\ Len(v) = l + Len(bt)
  BY <1>4, <1>5
<1>6. CASE d % B = 0
  <2>0. Len(bt) = n + 1
    BY <1>0, <1>6 DEF BlocksGrown
  <2>1. /\ n = d \div B /\ Len(bt) = n + 1
        /\ bt[n + 1] = [k \in Pos |-> IF k = 0 THEN e ELSE Zero]
        /\ \A ix \in 1 .. n : bt[ix] = bs[ix]
    BY <1>0, <1>6 DEF BlocksGrown
  <2> HIDE DEF bs, bt, l
  <2>2. ASSUME NEW k \in 1 .. l + n PROVE v[k] = u[k]
    <3>1. k \in 1 .. l + (n + 1) /\ (~(k <= l) => k - l \in 1 .. n)
      BY <1>1
    <3>2. QED
      BY <1>4, <1>5, <2>1, <3>1
  <2>3. Len(v) = Len(u) + 1 /\ Len(u) # 0
    BY <1>1, <1>len, <2>0
  <2>4. v[Len(v)] = bt[n + 1]
    <3>1. Len(v) = l + (n + 1) /\ l + (n + 1) \in 1 .. l + (n + 1) /\ ~(l + (n + 1) <= l) /\ (l + (n + 1)) - l = n + 1
      BY <1>1, <1>len, <2>0
    <3>2. QED
      BY <1>5, <2>0, <3>1
  <2>5. LastInput(v) = XorBlocks(Cipher(z), bt[n + 1])
    BY <1>4, <1>5, <2>2, <2>3, <2>4, BlockAppended
  <2> DEFINE c == Cipher(z)
  <2>6. c = [k \in Pos |-> c[k]]
    BY DEF Cipher
  <2> HIDE DEF c, z
  <2>7. LastInput(v) = [k \in Pos |-> Xor(c[k], bt[n + 1][k])]
    BY <2>5 DEF XorBlocks, c
  <2>8. ASSUME NEW k \in Pos PROVE Xor(c[k], bt[n + 1][k]) = IF k = 0 THEN Xor(c[k], e) ELSE c[k]
    BY <2>1, XorZero
  <2>9. LastInput(v) = [c EXCEPT ![0] = Xor(@, e)]
    BY <2>6, <2>7, <2>8
  <2>10. QED
    BY <1>6, <2>9 DEF c, z, u, v, bs, bt, d
<1>7. CASE d % B # 0
  <2>0. Len(bt) = n /\ n = (d \div B) + 1
    BY <1>0, <1>7 DEF BlocksGrown
  <2>1. /\ n = (d \div B) + 1 /\ Len(bt) = n
        /\ bt[n] = [bs[n] EXCEPT ![d % B] = e]
        /\ bs[n][d % B] = Zero
        /\ bs[n] = [k \in Pos |-> bs[n][k]]
        /\ \A ix \in 1 .. n - 1 : bt[ix] = bs[ix]
    <3>1. d \div B \in Nat
      BY <1>1
    <3>2. n = (d \div B) + 1
      BY <1>0, <1>7 DEF BlocksGrown
    <3>3. 1 .. n - 1 = 1 .. d \div B
      BY <3>1, <3>2
    <3>4. QED
      BY <1>0, <1>7, <3>3 DEF BlocksGrown
  <2>2. n >= 1
    <3>1. d \div B \in Nat
      BY <1>1
    <3>2. QED
      BY <2>0, <3>1
  <2> HIDE DEF bs, bt, l
  <2>3. ASSUME NEW k \in 1 .. Len(u) - 1 PROVE v[k] = u[k]
    <3>1. k \in 1 .. l + n /\ k \in 1 .. l + Len(bt) /\ (~(k <= l) => k - l \in 1 .. n - 1)
      BY <1>1, <1>len, <2>0
    <3>2. CASE k <= l
      BY <1>4, <1>5, <3>1, <3>2
    <3>3. CASE ~(k <= l)
      <4>1. v[k] = bt[k - l] /\ u[k] = bs[k - l]
        BY <1>4, <1>5, <3>1, <3>3
      <4>2. QED
        BY <2>1, <3>1, <3>3, <4>1
    <3>4. QED
      BY <3>2, <3>3
  <2>4. Len(v) = Len(u) /\ Len(u) \notin {0, 1}
    BY <1>1, <1>len, <2>0, <2>2
  <2>5. u[Len(u)] = bs[n] /\ v[Len(u)] = bt[n]
    <3>1. Len(u) = l + n /\ l + n \in 1 .. l + n /\ ~(l + n <= l) /\ (l + n) - l = n
      BY <1>1, <1>len, <2>2
    <3>2. QED
      BY <1>4, <1>5, <2>1, <3>1
  <2>6. PICK y : z = XorBlocks(y, bs[n]) /\ LastInput(v) = XorBlocks(y, bt[n])
    <3>1. List(u) /\ List(v)
      BY <1>4, <1>5
    <3>2. PICK y : LastInput(u) = XorBlocks(y, u[Len(u)]) /\ LastInput(v) = XorBlocks(y, v[Len(u)])
      BY <2>3, <2>4, <3>1, BlockChanged
    <3>3. QED
      BY <2>5, <3>2, Zenon
  <2> HIDE DEF z
  <2>7. /\ z = [k \in Pos |-> Xor(y[k], bs[n][k])]
        /\ LastInput(v) = [k \in Pos |-> Xor(y[k], bt[n][k])]
    BY <2>6 DEF XorBlocks
  <2>8. d % B \in Pos
    BY <1>1 DEF Pos
  <2>9. z[d % B] = y[d % B]
    BY <2>1, <2>7, <2>8, XorZero
  <2>10. ASSUME NEW k \in Pos
         PROVE  Xor(y[k], bt[n][k]) = IF k = d % B THEN Xor(z[k], e) ELSE z[k]
    BY <2>1, <2>7, <2>9
  <2>11. LastInput(v) = [z EXCEPT ![d % B] = Xor(@, e)]
    BY <2>7, <2>10
  <2>12. QED
    BY <1>7, <2>11 DEF z, u, v, bs, bt, d
<1>8. QED
  BY <1>6, <1>7

\* Byte d of the message is the next that goes into the tag.
LEMMA DataSeqLonger ==
  ASSUME NEW d \in Nat
  PROVE  /\ List(DataSeq(d)) /\ Len(DataSeq(d)) = d
         /\ Longer(DataSeq(d), DataSeq(d + 1),
                   IF encrypt THEN PassedData[d] ELSE Turned(d))
<1> DEFINE s(n) == DataSeq(n)
<1>1. \A n \in Nat : /\ s(n) = [k \in 1 .. n |-> s(n)[k]]
                     /\ \A k \in 1 .. n : s(n)[k] = IF encrypt THEN PassedData[k - 1] ELSE Turned(k - 1)
  BY DEF DataSeq
<1>2. d + 1 \in Nat
  OBVIOUS
<1> HIDE DEF s
<1>3. List(s(d)) /\ Len(s(d)) = d /\ List(s(d + 1)) /\ Len(s(d + 1)) = d + 1
  BY <1>1, <1>2, ListIs
<1>4. s(d + 1)[d + 1] = IF encrypt THEN PassedData[d] ELSE Turned(d)
  <2>1. d + 1 \in 1 .. d + 1 /\ (d + 1) - 1 = d
    OBVIOUS
  <2>2. QED
    BY <1>1, <1>2, <2>1
<1>5. \A k \in 1 .. d : s(d + 1)[k] = s(d)[k]
  <2>1. \A k \in 1 .. d : k \in 1 .. d + 1
    OBVIOUS
  <2>2. QED
    BY <1>1, <1>2, <2>1
<1>6. QED
  BY <1>3, <1>4, <1>5 DEF Longer, s

\* Byte a of the additional data is the next that goes into the tag.
LEMMA AadSeqLonger ==
  ASSUME NEW a \in Nat, aad_len # 0
  PROVE  /\ List(AadSeq(a)) /\ Len(AadSeq(a)) = 2 + a
         /\ Longer(AadSeq(a), AadSeq(a + 1), PassedAad(a))
<1> DEFINE s(n) == AadSeq(n)
<1>1. \A n \in Nat : /\ s(n) = [k \in 1 .. 2 + n |-> s(n)[k]]
                     /\ \A k \in 1 .. 2 + n :
                          s(n)[k] = IF k <= 2 THEN NumberByte(aad_len, 2, k - 1) ELSE PassedAad(k - 3)
  BY DEF AadSeq
<1>2. a + 1 \in Nat /\ 2 + a \in Nat /\ 2 + (a + 1) \in Nat /\ 2 + (a + 1) = (2 + a) + 1
  OBVIOUS
<1> HIDE DEF s
<1>3. List(s(a)) /\ Len(s(a)) = 2 + a /\ List(s(a + 1)) /\ Len(s(a + 1)) = 2 + (a + 1)
  BY <1>1, <1>2, ListIs
<1>4. s(a + 1)[2 + (a + 1)] = PassedAad(a)
  <2>1. 2 + (a + 1) \in 1 .. 2 + (a + 1) /\ ~(2 + (a + 1) <= 2) /\ (2 + (a + 1)) - 3 = a
    OBVIOUS
  <2>2. QED
    BY <1>1, <1>2, <2>1
<1>5. \A k \in 1 .. 2 + a : s(a + 1)[k] = s(a)[k]
  <2>1. \A k \in 1 .. 2 + a : k \in 1 .. 2 + (a + 1)
    OBVIOUS
  <2>2. QED
    BY <1>1, <1>2, <2>1
<1>6. QED
  BY <1>2, <1>3, <1>4, <1>5 DEF Longer, s

\* Without additional data there is no length in front of it either.
LEMMA EmptyAad ==
  ASSUME NEW a, aad_len = 0
  PROVE  List(AadSeq(a)) /\ Len(AadSeq(a)) = 0
<1>1. AadSeq(a) = <<>> /\ <<>> = [k \in 1 .. 0 |-> <<>>[k]]
  BY DEF AadSeq
<1>2. QED
  BY <1>1, ListIs

\* A sequence of one block.
LEMMA Alone ==
  ASSUME NEW b
  PROVE  List(<<b>>) /\ Len(<<b>>) = 1 /\ <<b>>[1] = b
<1> DEFINE s == <<b>>
<1>1. s = [k \in 1 .. 1 |-> s[k]] /\ s[1] = b
  OBVIOUS
<1> HIDE DEF s
<1>2. List(s) /\ Len(s) = 1
  BY <1>1, ListIs
<1>3. QED
  BY <1>1, <1>2 DEF s

\* What the first block and the additional data are to the message.
InFront(a) == <<Block0>> \o BlocksOf(AadSeq(a))

\* It is a sequence, and never empty.
LEMMA InFrontIs ==
  ASSUME BlocksAssumption, NEW a \in Nat
  PROVE  /\ List(InFront(a)) /\ Len(InFront(a)) # 0
         /\ List(AadSeq(a)) /\ List(BlocksOf(AadSeq(a)))
         /\ Len(InFront(a)) = 1 + Len(BlocksOf(AadSeq(a)))
         /\ Len(BlocksOf(AadSeq(a))) \in Nat
<1>1. List(AadSeq(a))
  BY AadSeqLonger, EmptyAad
<1>2. List(BlocksOf(AadSeq(a)))
  BY <1>1, BlocksList
<1>3. Len(BlocksOf(AadSeq(a))) \in Nat
  BY <1>2, ListLen
<1>4. List(InFront(a)) /\ Len(InFront(a)) = 1 + Len(BlocksOf(AadSeq(a)))
  BY <1>2, Alone, ListJoined DEF InFront
<1>5. QED
  BY <1>1, <1>2, <1>3, <1>4

\* A sequence and no blocks behind it.
LEMMA NothingBehind ==
  ASSUME BlocksAssumption, NEW h, List(h), NEW s, List(s), Len(s) = 0
  PROVE  h \o BlocksOf(s) = h
<1> DEFINE b == BlocksOf(s)
<1>1. Begun(0) = 0
  BY DEF Begun, BlocksAssumption
<1>2. List(b) /\ Len(b) = 0
  BY <1>1, BlocksList
<1>3. Len(h) \in Nat /\ h = [k \in 1 .. Len(h) |-> h[k]]
  BY ListLen
<1> HIDE DEF b
<1>4. h \o b = [k \in 1 .. Len(h) + 0 |-> IF k <= Len(h) THEN h[k] ELSE b[k - Len(h)]]
  BY <1>2, ListJoined
<1>5. Len(h) + 0 = Len(h) /\ \A k \in 1 .. Len(h) : k <= Len(h)
  BY <1>3
<1>6. h \o b = [k \in 1 .. Len(h) |-> h[k]]
  BY <1>4, <1>5
<1>7. QED
  BY <1>3, <1>6 DEF b

\* Before the message there is nothing else.
LEMMA NoDataYet ==
  ASSUME BlocksAssumption, NEW a \in Nat
  PROVE  Blocks0(a, 0) = InFront(a)
<1>1. List(DataSeq(0)) /\ Len(DataSeq(0)) = 0
  BY DataSeqLonger
<1>2. InFront(a) \o BlocksOf(DataSeq(0)) = InFront(a)
  BY <1>1, InFrontIs, NothingBehind
<1>3. QED
  BY <1>2 DEF Blocks0, InFront

\* The bytes with x in the one at k.
With(b, k, x) == [b EXCEPT ![k] = Xor(@, x)]

\* A turn of UAES_CCM_AddAad() on a context that is written out.
LEMMA AadByteOn ==
  ASSUME NEW bp, NEW nl, NEW pos, NEW z, NEW ct, NEW x
  PROVE  LET c == [byte_pos |-> bp, nonce_len |-> nl, aad_byte_pos |-> pos, cbc_buf |-> z, counter |-> ct]
         IN  /\ pos >= B => AadByte(c, x) =
                  [byte_pos |-> bp, nonce_len |-> nl, aad_byte_pos |-> 0 + 1,
                   cbc_buf |-> With(Cipher(z), 0, x), counter |-> ct]
             /\ ~(pos >= B) => AadByte(c, x) =
                  [byte_pos |-> bp, nonce_len |-> nl, aad_byte_pos |-> pos + 1,
                   cbc_buf |-> With(z, pos, x), counter |-> ct]
<1> DEFINE c == [byte_pos |-> bp, nonce_len |-> nl, aad_byte_pos |-> pos, cbc_buf |-> z, counter |-> ct]
<1>1. c.aad_byte_pos = pos /\ c.cbc_buf = z
  OBVIOUS
<1>2. ASSUME NEW nb, NEW np
      PROVE  [c EXCEPT !.cbc_buf = nb, !.aad_byte_pos = np] =
               [byte_pos |-> bp, nonce_len |-> nl, aad_byte_pos |-> np, cbc_buf |-> nb, counter |-> ct]
  <2> DEFINE r == [byte_pos |-> bp, nonce_len |-> nl, aad_byte_pos |-> pos, cbc_buf |-> nb, counter |-> ct]
  <2>1. [c EXCEPT !.cbc_buf = nb, !.aad_byte_pos = np] = [[c EXCEPT !.cbc_buf = nb] EXCEPT !.aad_byte_pos = np]
    OBVIOUS
  <2>2. [c EXCEPT !.cbc_buf = nb] = r
    OBVIOUS
  <2>3. [r EXCEPT !.aad_byte_pos = np] =
          [byte_pos |-> bp, nonce_len |-> nl, aad_byte_pos |-> np, cbc_buf |-> nb, counter |-> ct]
    OBVIOUS
  <2> HIDE DEF c, r
  <2>4. QED
    BY <2>1, <2>2, <2>3, Zenon
<1> HIDE DEF c
<1>3. ASSUME pos >= B
      PROVE  AadByte(c, x) = [c EXCEPT !.cbc_buf = With(Cipher(z), 0, x), !.aad_byte_pos = 0 + 1]
  BY <1>1, <1>3 DEF AadByte, With
<1>4. ASSUME ~(pos >= B)
      PROVE  AadByte(c, x) = [c EXCEPT !.cbc_buf = With(z, pos, x), !.aad_byte_pos = pos + 1]
  BY <1>1, <1>4 DEF AadByte, With
<1>5. QED
  BY <1>2, <1>3, <1>4 DEF c

\* A turn of CCM_Xcrypt() on a context that is written out.
LEMMA DataByteOn ==
  ASSUME NEW pos, NEW nl, NEW ap, NEW z, NEW ct, NEW p
  PROVE  LET c == [byte_pos |-> pos, nonce_len |-> nl, aad_byte_pos |-> ap, cbc_buf |-> z, counter |-> ct]
             o(counter, k) == Xor(p, Cipher(CounterBytes(c, counter))[k])
             x(counter, k) == IF encrypt THEN p ELSE o(counter, k)
         IN  /\ pos >= B => DataByte(c, p) =
                  [ctx |-> [byte_pos |-> 0 + 1, nonce_len |-> nl, aad_byte_pos |-> ap,
                            cbc_buf |-> With(Cipher(z), 0, x(Increased(ct), 0)), counter |-> Increased(ct)],
                   output |-> o(Increased(ct), 0)]
             /\ ~(pos >= B) => DataByte(c, p) =
                  [ctx |-> [byte_pos |-> pos + 1, nonce_len |-> nl, aad_byte_pos |-> ap,
                            cbc_buf |-> With(z, pos, x(ct, pos)), counter |-> ct],
                   output |-> o(ct, pos)]
<1> DEFINE c == [byte_pos |-> pos, nonce_len |-> nl, aad_byte_pos |-> ap, cbc_buf |-> z, counter |-> ct]
           o(counter, k) == Xor(p, Cipher(CounterBytes(c, counter))[k])
           x(counter, k) == IF encrypt THEN p ELSE o(counter, k)
<1>1. c.byte_pos = pos /\ c.cbc_buf = z /\ c.counter = ct
  OBVIOUS
<1>2. ASSUME NEW nb, NEW np, NEW nc
      PROVE  [c EXCEPT !.cbc_buf = nb, !.counter = nc, !.byte_pos = np] =
               [byte_pos |-> np, nonce_len |-> nl, aad_byte_pos |-> ap, cbc_buf |-> nb, counter |-> nc]
  <2> DEFINE r == [byte_pos |-> pos, nonce_len |-> nl, aad_byte_pos |-> ap, cbc_buf |-> nb, counter |-> ct]
             s == [byte_pos |-> pos, nonce_len |-> nl, aad_byte_pos |-> ap, cbc_buf |-> nb, counter |-> nc]
  <2>1. [c EXCEPT !.cbc_buf = nb, !.counter = nc, !.byte_pos = np] =
          [[[c EXCEPT !.cbc_buf = nb] EXCEPT !.counter = nc] EXCEPT !.byte_pos = np]
    OBVIOUS
  <2>2. [c EXCEPT !.cbc_buf = nb] = r
    OBVIOUS
  <2>3. [r EXCEPT !.counter = nc] = s
    OBVIOUS
  <2>4. [s EXCEPT !.byte_pos = np] =
          [byte_pos |-> np, nonce_len |-> nl, aad_byte_pos |-> ap, cbc_buf |-> nb, counter |-> nc]
    OBVIOUS
  <2> HIDE DEF c, r, s
  <2>5. QED
    BY <2>1, <2>2, <2>3, <2>4, Zenon
<1> HIDE DEF c
<1>3. ASSUME pos >= B
      PROVE  DataByte(c, p) =
               [ctx |-> [c EXCEPT !.cbc_buf = With(Cipher(z), 0, x(Increased(ct), 0)),
                                  !.counter = Increased(ct), !.byte_pos = 0 + 1],
                output |-> o(Increased(ct), 0)]
  BY <1>1, <1>3 DEF DataByte, With
<1>4. ASSUME ~(pos >= B)
      PROVE  DataByte(c, p) =
               [ctx |-> [c EXCEPT !.cbc_buf = With(z, pos, x(ct, pos)),
                                  !.counter = ct, !.byte_pos = pos + 1],
                output |-> o(ct, pos)]
  BY <1>1, <1>4 DEF DataByte, With
<1> HIDE DEF o, x
<1>5. pos >= B => DataByte(c, p) =
        [ctx |-> [byte_pos |-> 0 + 1, nonce_len |-> nl, aad_byte_pos |-> ap,
                  cbc_buf |-> With(Cipher(z), 0, x(Increased(ct), 0)), counter |-> Increased(ct)],
         output |-> o(Increased(ct), 0)]
  BY <1>2, <1>3
<1>6. ~(pos >= B) => DataByte(c, p) =
        [ctx |-> [byte_pos |-> pos + 1, nonce_len |-> nl, aad_byte_pos |-> ap,
                  cbc_buf |-> With(z, pos, x(ct, pos)), counter |-> ct],
         output |-> o(ct, pos)]
  BY <1>2, <1>4
<1>7. QED
  BY <1>5, <1>6 DEF c, o, x

\* A turn of the loop that takes additional data.
LEMMA AadByteRight ==
  ASSUME Lengths, aad_len # 0, NEW a \in Nat
  PROVE  AadByte(Context(a, 0), PassedAad(a)) = Context(a + 1, 0)
<1> DEFINE d == 2 + a
           z == LastInput(InFront(a))
           x == PassedAad(a)
           c == Context(a, 0)
<1>1. BlocksAssumption /\ B \in Nat \ {0} /\ d \in Nat /\ a + 1 \in Nat
  BY DEF Lengths, BlocksAssumption
<1>2. /\ NextPos(d) >= B <=> d % B = 0
      /\ d % B # 0 => NextPos(d) = d % B
      /\ NextPos(2 + (a + 1)) = (d % B) + 1
  <2>1. 2 + (a + 1) = d + 1
    BY <1>1
  <2>2. QED
    BY <1>1, <2>1, ByteMore
<1>3. LastInput(InFront(a + 1)) =
        IF d % B = 0 THEN [Cipher(z) EXCEPT ![0] = Xor(@, x)] ELSE [z EXCEPT ![d % B] = Xor(@, x)]
  <2>1. List(<<Block0>>) /\ Len(<<Block0>>) # 0
    BY Alone
  <2>2. Longer(AadSeq(a), AadSeq(a + 1), x) /\ Len(AadSeq(a)) = d
    BY AadSeqLonger
  <2> HIDE DEF x, d
  <2>3. QED
    BY <1>1, <2>1, <2>2, ByteFed DEF InFront, z
<1>4. c = [byte_pos |-> NextPos(0), nonce_len |-> nonce_len, aad_byte_pos |-> NextPos(d),
           cbc_buf |-> z, counter |-> CounterAt(Begun(0))]
  BY <1>1, NoDataYet DEF Context
<1>5. Context(a + 1, 0) =
        [byte_pos |-> NextPos(0), nonce_len |-> nonce_len, aad_byte_pos |-> (d % B) + 1,
         cbc_buf |-> LastInput(InFront(a + 1)), counter |-> CounterAt(Begun(0))]
  <2>1. Blocks0(a + 1, 0) = InFront(a + 1)
    BY <1>1, NoDataYet
  <2>2. QED
    BY <1>2, <2>1 DEF Context
<1> HIDE DEF d, z, x, c
<1>6. d % B = 0 => LastInput(InFront(a + 1)) = With(Cipher(z), 0, x)
  BY <1>3 DEF With
<1>7. d % B # 0 => LastInput(InFront(a + 1)) = With(z, d % B, x)
  BY <1>3 DEF With
<1>8. /\ NextPos(d) >= B => AadByte(c, x) =
         [byte_pos |-> NextPos(0), nonce_len |-> nonce_len, aad_byte_pos |-> 0 + 1,
          cbc_buf |-> With(Cipher(z), 0, x), counter |-> CounterAt(Begun(0))]
      /\ ~(NextPos(d) >= B) => AadByte(c, x) =
         [byte_pos |-> NextPos(0), nonce_len |-> nonce_len, aad_byte_pos |-> NextPos(d) + 1,
          cbc_buf |-> With(z, NextPos(d), x), counter |-> CounterAt(Begun(0))]
  BY <1>4, AadByteOn
<1>9. AadByte(c, x) = Context(a + 1, 0)
  <2>1. CASE d % B = 0
    BY <1>2, <1>5, <1>6, <1>8, <2>1
  <2>2. CASE d % B # 0
    <3>1. ~(NextPos(d) >= B) /\ NextPos(d) = d % B
      BY <1>2, <2>2
    <3>2. QED
      BY <1>5, <1>7, <1>8, <2>2, <3>1
  <2>3. QED
    BY <2>1, <2>2
<1>10. QED
  BY <1>9 DEF c, x

\* A turn of the loop that takes the message.
LEMMA DataByteRight ==
  ASSUME Lengths, NEW d \in 0 .. data_len - 1
  PROVE  DataByte(Context(aad_len, d), PassedData[d])
           = [ctx |-> Context(aad_len, d + 1), output |-> Turned(d)]
<1> DEFINE z == LastInput(Blocks0(aad_len, d))
           x == IF encrypt THEN PassedData[d] ELSE Turned(d)
           c == Context(aad_len, d)
           r == d % B
           ap == IF aad_len = 0 THEN 0 ELSE NextPos(2 + aad_len)
           p == PassedData[d]
           o == Turned(d)
           j == Begun(d)
           ct == CounterAt(Begun(d + 1))
<1>1. /\ BlocksAssumption /\ B \in Nat \ {0} /\ d \in Nat /\ aad_len \in Nat /\ data_len \in Nat
      /\ encrypt \in BOOLEAN
  BY LengthsAre DEF Lengths, BlocksAssumption
<1>2. /\ NextPos(d) >= B <=> r = 0
      /\ r # 0 => NextPos(d) = r
      /\ NextPos(d + 1) = r + 1
      /\ j \in Nat /\ j <= d /\ r \in Pos
      /\ Begun(d + 1) = (d \div B) + 1 /\ (d \div B) \in Nat
      /\ Begun(d + 1) = IF r = 0 THEN j + 1 ELSE j
  BY <1>1, ByteMore
<1>3. LastInput(Blocks0(aad_len, d + 1)) =
        IF r = 0 THEN [Cipher(z) EXCEPT ![0] = Xor(@, x)] ELSE [z EXCEPT ![r] = Xor(@, x)]
  <2> DEFINE h == InFront(aad_len)
  <2>1. List(h) /\ Len(h) # 0
    BY <1>1, InFrontIs
  <2>2. Longer(DataSeq(d), DataSeq(d + 1), x) /\ Len(DataSeq(d)) = d
    BY <1>1, DataSeqLonger
  <2>3. \A n : Blocks0(aad_len, n) = h \o BlocksOf(DataSeq(n))
    BY DEF Blocks0, InFront
  <2> DEFINE s == DataSeq(d)
             t == DataSeq(d + 1)
  <2> HIDE DEF x, h, s, t, r, z
  <2>4. LastInput(h \o BlocksOf(t)) =
          IF Len(s) % B = 0 THEN [Cipher(LastInput(h \o BlocksOf(s))) EXCEPT ![0] = Xor(@, x)]
          ELSE [LastInput(h \o BlocksOf(s)) EXCEPT ![Len(s) % B] = Xor(@, x)]
    <3>1. Longer(s, t, x)
      BY <2>2 DEF s, t
    <3>2. QED
      BY <1>1, <2>1, <3>1, ByteFed
  <2>5. h \o BlocksOf(s) = Blocks0(aad_len, d) /\ h \o BlocksOf(t) = Blocks0(aad_len, d + 1)
    BY <2>3 DEF s, t
  <2>6. Len(s) = d
    BY <2>2 DEF s
  <2>7. QED
    BY <2>4, <2>5, <2>6 DEF r, z
<1>4. c = [byte_pos |-> NextPos(d), nonce_len |-> nonce_len, aad_byte_pos |-> ap,
           cbc_buf |-> z, counter |-> CounterAt(j)]
  BY DEF Context
<1>5. Context(aad_len, d + 1) =
        [byte_pos |-> r + 1, nonce_len |-> nonce_len, aad_byte_pos |-> ap,
         cbc_buf |-> LastInput(Blocks0(aad_len, d + 1)), counter |-> ct]
  BY <1>2 DEF Context
<1>6. ct = IF r = 0 THEN Increased(CounterAt(j)) ELSE CounterAt(j)
  <2>1. CASE r = 0
    <3>1. j + 1 <= data_len
      BY <1>1, <1>2
    <3>2. QED
      BY <1>2, <2>1, <3>1, CounterNext
  <2>2. CASE r # 0
    BY <1>2, <2>2
  <2>3. QED
    BY <2>1, <2>2
<1>7. o = Xor(p, Cipher(CounterBytes(c, ct))[r])
  <2>1. CounterBytes(c, ct) = CounterBlock((d \div B) + 1)
    <3>1. c.nonce_len = nonce_len
      BY <1>4
    <3>2. (d \div B) + 1 \in Nat
      BY <1>2
    <3> HIDE DEF c
    <3>3. CounterBytes(c, CounterAt((d \div B) + 1)) = CounterBlock((d \div B) + 1)
      BY <3>1, <3>2, CounterBytesRight
    <3>4. QED
      BY <1>2, <3>3
  <2>2. QED
    BY <2>1 DEF Turned, Stream
<1>8. x = IF encrypt THEN p ELSE o
  OBVIOUS
<1> HIDE DEF z, x, c, r, ap, p, o, j, ct
<1>9. r = 0 => LastInput(Blocks0(aad_len, d + 1)) = With(Cipher(z), 0, x)
  BY <1>3 DEF With
<1>10. r # 0 => LastInput(Blocks0(aad_len, d + 1)) = With(z, r, x)
  BY <1>3 DEF With
<1> DEFINE oo(counter, k) == Xor(p, Cipher(CounterBytes(c, counter))[k])
           xx(counter, k) == IF encrypt THEN p ELSE oo(counter, k)
<1>11. /\ NextPos(d) >= B => DataByte(c, p) =
          [ctx |-> [byte_pos |-> 0 + 1, nonce_len |-> nonce_len, aad_byte_pos |-> ap,
                    cbc_buf |-> With(Cipher(z), 0, xx(Increased(CounterAt(j)), 0)),
                    counter |-> Increased(CounterAt(j))],
           output |-> oo(Increased(CounterAt(j)), 0)]
       /\ ~(NextPos(d) >= B) => DataByte(c, p) =
          [ctx |-> [byte_pos |-> NextPos(d) + 1, nonce_len |-> nonce_len, aad_byte_pos |-> ap,
                    cbc_buf |-> With(z, NextPos(d), xx(CounterAt(j), NextPos(d))), counter |-> CounterAt(j)],
           output |-> oo(CounterAt(j), NextPos(d))]
  BY <1>4, DataByteOn
<1>12. oo(ct, r) = o /\ xx(ct, r) = x
  BY <1>7, <1>8
<1> HIDE DEF oo, xx
<1>13. DataByte(c, p) = [ctx |-> Context(aad_len, d + 1), output |-> o]
  <2>1. CASE r = 0
    <3>1. NextPos(d) >= B /\ Increased(CounterAt(j)) = ct
      BY <1>2, <1>6, <2>1
    <3>2. DataByte(c, p) =
            [ctx |-> [byte_pos |-> 0 + 1, nonce_len |-> nonce_len, aad_byte_pos |-> ap,
                      cbc_buf |-> With(Cipher(z), 0, x), counter |-> ct],
             output |-> o]
      BY <1>11, <1>12, <2>1, <3>1
    <3>3. QED
      BY <1>5, <1>9, <2>1, <3>2
  <2>2. CASE r # 0
    <3>1. ~(NextPos(d) >= B) /\ NextPos(d) = r /\ CounterAt(j) = ct
      BY <1>2, <1>6, <2>2
    <3>2. DataByte(c, p) =
            [ctx |-> [byte_pos |-> r + 1, nonce_len |-> nonce_len, aad_byte_pos |-> ap,
                      cbc_buf |-> With(z, r, x), counter |-> ct],
             output |-> o]
      BY <1>11, <1>12, <2>2, <3>1
    <3>3. QED
      BY <1>5, <1>10, <2>2, <3>2
  <2>3. QED
    BY <2>1, <2>2
<1>14. QED
  BY <1>13 DEF c, p, o

\* The loop that takes n bytes of additional data behind a others.
Fed(g, c, a, n) ==
  g = [ix \in 0 .. n |-> IF ix = 0 THEN c ELSE AadByte(g[ix - 1], PassedAad(a + ix - 1))]

\* There is such a function, for every length.
LEMMA AadTurnsExist ==
  ASSUME Lengths, aad_len # 0, NEW a \in Nat, NEW n \in Nat
  PROVE  \E g : Fed(g, Context(a, 0), a, n)
<1> DEFINE c(l) == Context(a + l, 0)
           w == [l \in 0 .. n |-> c(l)]
<1>1. ASSUME NEW ix \in 0 .. n
      PROVE  c(ix) = IF ix = 0 THEN Context(a, 0) ELSE AadByte(w[ix - 1], PassedAad(a + ix - 1))
  <2>1. CASE ix = 0
    <3>1. a + ix = a
      BY <2>1
    <3>2. QED
      BY <2>1, <3>1
  <2>2. CASE ix # 0
    <3> DEFINE e == a + ix - 1
    <3>1. ix - 1 \in 0 .. n /\ e \in Nat /\ e + 1 = a + ix /\ a + (ix - 1) = e
      BY <2>2
    <3>2. w[ix - 1] = Context(e, 0)
      BY <3>1
    <3> HIDE DEF e, w
    <3>3. AadByte(Context(e, 0), PassedAad(e)) = Context(e + 1, 0)
      BY <3>1, AadByteRight
    <3>4. QED
      BY <2>2, <3>1, <3>2, <3>3 DEF e
  <2>3. QED
    BY <2>1, <2>2
<1> HIDE DEF c
<1>2. w = [ix \in 0 .. n |-> IF ix = 0 THEN Context(a, 0) ELSE AadByte(w[ix - 1], PassedAad(a + ix - 1))]
  BY <1>1
<1> HIDE DEF w
<1>3. QED
  BY <1>2 DEF Fed

\* The context after it is that of a + n bytes.
LEMMA AadTurnsRight ==
  ASSUME Lengths, aad_len # 0, NEW a \in Nat, NEW n \in Nat, NEW g, Fed(g, Context(a, 0), a, n)
  PROVE  g[n] = Context(a + n, 0)
<1> DEFINE wrong == {l \in 0 .. n : g[l] # Context(a + l, 0)}
<1>1. wrong \in SUBSET Nat
  OBVIOUS
<1>2. \A l \in 0 .. n : g[l] = IF l = 0 THEN Context(a, 0) ELSE AadByte(g[l - 1], PassedAad(a + l - 1))
  BY DEF Fed
<1>3. wrong = {}
  <2>1. SUFFICES ASSUME wrong # {} PROVE FALSE
    OBVIOUS
  <2>2. PICK m \in wrong : \A k \in wrong : m <= k
    <3> HIDE DEF wrong
    <3>1. QED
      BY <1>1, <2>1, Smallest
  <2>3. m \in 0 .. n /\ g[m] # Context(a + m, 0)
    OBVIOUS
  <2>4. m # 0
    <3>1. a + 0 = a
      OBVIOUS
    <3>2. QED
      BY <1>2, <2>3, <3>1
  <2> DEFINE e == a + m - 1
  <2>5. m - 1 \in 0 .. n /\ m - 1 \in 0 .. m - 1 /\ e \in Nat /\ e + 1 = a + m /\ a + (m - 1) = e
    BY <2>3, <2>4
  <2>6. g[m - 1] = Context(e, 0)
    <3>1. m - 1 \notin wrong
      <4> HIDE DEF wrong, e
      <4>1. QED
        BY <2>2, <2>3, <2>4
    <3>2. QED
      BY <2>5, <3>1
  <2>7. g[m] = AadByte(g[m - 1], PassedAad(e))
    BY <1>2, <2>3, <2>4
  <2> HIDE DEF e, wrong
  <2>8. AadByte(Context(e, 0), PassedAad(e)) = Context(e + 1, 0)
    BY <2>5, AadByteRight
  <2>9. QED
    BY <2>3, <2>5, <2>6, <2>7, <2>8
<1>4. QED
  BY <1>3

\* The loop that takes n bytes of the message behind d others.
Turns(g, s, d, n) ==
  g = [ix \in 0 .. n |->
         IF ix = 0 THEN s
         ELSE LET r == g[ix - 1]
                  b == DataByte(r.ctx, r.mem[d + ix - 1])
              IN [ctx |-> b.ctx, mem |-> [r.mem EXCEPT ![d + ix - 1] = b.output]]]

\* What the loop works on after e bytes of the message.
Reached(e) == [ctx |-> Context(aad_len, e), mem |-> Memory(e)]

\* A turn of the loop.
LEMMA TurnReached ==
  ASSUME Lengths, NEW e \in 0 .. data_len - 1, NEW r, r = Reached(e)
  PROVE  LET b == DataByte(r.ctx, r.mem[e])
         IN  [ctx |-> b.ctx, mem |-> [r.mem EXCEPT ![e] = b.output]] = Reached(e + 1)
<1> DEFINE b == DataByte(r.ctx, r.mem[e])
<1>1. data_len \in Nat
  BY LengthsAre
<1>2. r.ctx = Context(aad_len, e) /\ r.mem = Memory(e)
  BY DEF Reached
<1>3. Memory(e)[e] = PassedData[e]
  BY <1>1 DEF Memory
<1>4. b = [ctx |-> Context(aad_len, e + 1), output |-> Turned(e)]
  BY <1>2, <1>3, DataByteRight
<1> HIDE DEF b
<1>5. b.ctx = Context(aad_len, e + 1) /\ b.output = Turned(e)
  BY <1>4
<1>6. [Memory(e) EXCEPT ![e] = Turned(e)] = Memory(e + 1)
  <2>1. \A k \in 0 .. data_len - 1 : k < e + 1 <=> (k < e \/ k = e)
    BY <1>1
  <2>2. QED
    BY <1>1, <2>1 DEF Memory
<1>7. QED
  BY <1>2, <1>5, <1>6 DEF Reached, b

\* There is such a function, for every length.
LEMMA TurnsExist ==
  ASSUME Lengths, NEW d \in Nat, NEW n \in Nat, d + n <= data_len
  PROVE  \E g : Turns(g, Reached(d), d, n)
<1> DEFINE c(l) == Reached(d + l)
           w == [l \in 0 .. n |-> c(l)]
           step(r, e) == LET b == DataByte(r.ctx, r.mem[e])
                         IN [ctx |-> b.ctx, mem |-> [r.mem EXCEPT ![e] = b.output]]
<1>0. data_len \in Nat
  BY LengthsAre
<1>1. ASSUME NEW ix \in 0 .. n
      PROVE  c(ix) = IF ix = 0 THEN Reached(d) ELSE step(w[ix - 1], d + ix - 1)
  <2>1. CASE ix = 0
    <3>1. d + ix = d
      BY <2>1
    <3>2. QED
      BY <2>1, <3>1
  <2>2. CASE ix # 0
    <3> DEFINE e == d + ix - 1
               r == w[ix - 1]
    <3>1. ix - 1 \in 0 .. n /\ e \in 0 .. data_len - 1 /\ e + 1 = d + ix /\ d + (ix - 1) = e
      BY <1>0, <2>2
    <3>2. r = Reached(e)
      BY <3>1
    <3> HIDE DEF e, w, r
    <3>3. step(r, e) = Reached(e + 1)
      BY <3>1, <3>2, TurnReached
    <3> HIDE DEF step
    <3>4. QED
      BY <2>2, <3>1, <3>3 DEF e, r
  <2>3. QED
    BY <2>1, <2>2
<1> HIDE DEF c, step
<1>2. w = [ix \in 0 .. n |-> IF ix = 0 THEN Reached(d) ELSE step(w[ix - 1], d + ix - 1)]
  BY <1>1
<1> HIDE DEF w
<1>3. QED
  BY <1>2 DEF Turns, step

\* The context and the memory after it are those of d + n bytes.
LEMMA TurnsRight ==
  ASSUME Lengths, NEW d \in Nat, NEW n \in Nat, d + n <= data_len, NEW g, Turns(g, Reached(d), d, n)
  PROVE  g[n] = Reached(d + n)
<1> DEFINE wrong == {l \in 0 .. n : g[l] # Reached(d + l)}
           step(r, e) == LET b == DataByte(r.ctx, r.mem[e])
                         IN [ctx |-> b.ctx, mem |-> [r.mem EXCEPT ![e] = b.output]]
<1>0. data_len \in Nat
  BY LengthsAre
<1>1. wrong \in SUBSET Nat
  OBVIOUS
<1>2. \A l \in 0 .. n : g[l] = IF l = 0 THEN Reached(d) ELSE step(g[l - 1], d + l - 1)
  BY DEF Turns
<1> HIDE DEF step
<1>3. wrong = {}
  <2>1. SUFFICES ASSUME wrong # {} PROVE FALSE
    OBVIOUS
  <2>2. PICK m \in wrong : \A k \in wrong : m <= k
    <3> HIDE DEF wrong
    <3>1. QED
      BY <1>1, <2>1, Smallest
  <2>3. m \in 0 .. n /\ g[m] # Reached(d + m)
    OBVIOUS
  <2>4. m # 0
    <3>1. d + 0 = d
      OBVIOUS
    <3>2. QED
      BY <1>2, <2>3, <3>1
  <2> DEFINE e == d + m - 1
             r == g[m - 1]
  <2>5. m - 1 \in 0 .. n /\ m - 1 \in 0 .. m - 1 /\ e \in 0 .. data_len - 1 /\ e + 1 = d + m /\ d + (m - 1) = e
    BY <1>0, <2>3, <2>4
  <2>6. r = Reached(e)
    <3>1. m - 1 \notin wrong
      <4> HIDE DEF wrong, e
      <4>1. QED
        BY <2>2, <2>3, <2>4
    <3>2. QED
      BY <2>5, <3>1
  <2>7. g[m] = step(r, e)
    BY <1>2, <2>3, <2>4
  <2> HIDE DEF e, r, wrong
  <2>8. step(r, e) = Reached(e + 1)
    BY <2>5, <2>6, TurnReached DEF step
  <2>9. QED
    BY <2>3, <2>5, <2>7, <2>8
<1>4. QED
  BY <1>3

\* The context that the first call finds.
LEMMA ContextStarts ==
  ASSUME Lengths
  PROVE  UAES_CCM_Init = Context(0, 0)
<1> DEFINE tag_bits_l == B - 2 - nonce_len
           tag_bits_m == (tag_len - 2) \div 2
           flags == tag_bits_l + 8 * tag_bits_m + (IF aad_len > 0 THEN 64 ELSE 0)
           b0 == [k \in Pos |-> IF k = 0 THEN Digit(flags)
                                ELSE IF k <= nonce_len THEN Nonce(k - 1)
                                ELSE Digit(Shifted(data_len, B - 1 - k) % R)]
           length == [k \in Pos |-> IF k < 2 THEN Digit(Shifted(aad_len, 1 - k) % R) ELSE Zero]
           ap == IF aad_len > 0 THEN 2 ELSE 0
           first_buf == IF aad_len > 0 THEN XorBlocks(Cipher(b0), length) ELSE b0
           ct == [k \in Pos |-> IF k = 0 THEN tag_bits_l ELSE 0]
<1>1. /\ B \in Nat /\ B >= 3 /\ nonce_len \in 1 .. B - 2 /\ BlocksAssumption
      /\ aad_len \in Nat /\ data_len \in Nat /\ tag_len \in 4 .. B
  BY LengthsAre DEF Lengths
<1>2. UAES_CCM_Init = [byte_pos |-> B, nonce_len |-> nonce_len, aad_byte_pos |-> ap,
                       cbc_buf |-> first_buf, counter |-> ct]
  BY DEF UAES_CCM_Init, FirstBytePos
<1>3. Begun(0) = 0 /\ Begun(2) = 1 /\ NextPos(0) = B /\ NextPos(2) = 2
  <2>1. (B - 1) \div B = 0 /\ (B + 1) \div B = 1 /\ 1 % B = 1
    BY <1>1
  <2>2. QED
    BY <1>1, <2>1 DEF Begun, NextPos
<1>4. ct = CounterAt(0)
  <2>1. \A n \in Nat : Shifted(0, n) = 0
    BY <1>1, ShiftedMore, StaysZero
  <2>2. ASSUME NEW k \in Pos PROVE Shifted(0, B - 1 - k) % R = 0
    <3>1. B - 1 - k \in Nat
      BY <1>1 DEF Pos
    <3>2. 0 % R = 0
      BY <1>1 DEF BlocksAssumption
    <3>3. QED
      BY <2>1, <3>1, <3>2
  <2>3. QED
    BY <2>2 DEF CounterAt
<1>5. b0 = Block0
  <2>1. flags = (IF aad_len > 0 THEN 64 ELSE 0) + 8 * ((tag_len - 2) \div 2) + LengthOfLength - 1
    <3>1. tag_bits_m \in Nat
      BY <1>1
    <3> DEFINE m == tag_bits_m
               adata == IF aad_len > 0 THEN 64 ELSE 0
    <3>2. m \in Nat /\ m = (tag_len - 2) \div 2 /\ flags = (B - 2 - nonce_len) + 8 * m + adata
      BY <3>1
    <3>3. adata \in Nat
      OBVIOUS
    <3> HIDE DEF m, adata, flags
    <3>4. flags = adata + 8 * m + (B - 1 - nonce_len) - 1
      BY <1>1, <3>2, <3>3
    <3>5. QED
      BY <3>2, <3>4 DEF LengthOfLength, adata
  <2>2. ASSUME NEW k \in Pos, k # 0, ~(k <= nonce_len)
        PROVE  NumberByte(data_len, LengthOfLength, k - nonce_len - 1)
                 = Digit(Shifted(data_len, B - 1 - k) % R)
    <3>1. LengthOfLength - 1 - (k - nonce_len - 1) = B - 1 - k
      BY <1>1 DEF LengthOfLength, Pos
    <3>2. QED
      BY <3>1 DEF NumberByte
  <2> HIDE DEF flags
  <2>3. QED
    BY <2>1, <2>2 DEF Block0
<1> HIDE DEF b0, ct
<1>6. Blocks0(0, 0) = InFront(0)
  BY <1>1, NoDataYet
<1>7. CASE aad_len = 0
  <2>1. InFront(0) = <<Block0>>
    BY <1>1, <1>7, EmptyAad, Alone, NothingBehind DEF InFront
  <2>2. LastInput(<<Block0>>) = Block0
    BY Alone DEF LastInput
  <2>3. ap = 0 /\ first_buf = Block0
    BY <1>5, <1>7
  <2>4. QED
    BY <1>2, <1>3, <1>4, <1>6, <1>7, <2>1, <2>2, <2>3 DEF Context
<1>8. CASE aad_len > 0
  <2> DEFINE s == AadSeq(0)
             bs == BlocksOf(s)
             h == InFront(0)
  <2>1. List(s) /\ Len(s) = 2
    <3>1. 0 \in Nat /\ aad_len # 0 /\ 2 + 0 = 2
      BY <1>8
    <3>2. List(AadSeq(0)) /\ Len(AadSeq(0)) = 2 + 0
      BY <3>1, AadSeqLonger
    <3>3. QED
      BY <3>1, <3>2
  <2>2. List(bs) /\ Len(bs) = 1 /\ bs[1] = BlockAt(s, 1)
    <3> HIDE DEF s
    <3>1. List(BlocksOf(s)) /\ Len(BlocksOf(s)) = Begun(2) /\ \A k \in 1 .. Begun(2) : BlocksOf(s)[k] = BlockAt(s, k)
      BY <1>1, <2>1, BlocksList
    <3>2. 1 \in 1 .. Begun(2)
      BY <1>3
    <3>3. QED
      BY <1>3, <3>1, <3>2
  <2>3. \A k \in 1 .. 2 : s[k] = NumberByte(aad_len, 2, k - 1)
    BY <1>8 DEF AadSeq
  <2>4. bs[1] = length
    <3> HIDE DEF s, bs
    <3>1. bs[1] = [k \in Pos |-> IF B * (1 - 1) + k < 2 THEN s[B * (1 - 1) + k + 1] ELSE Zero]
      BY <2>1, <2>2 DEF BlockAt
    <3>2. ASSUME NEW k \in Pos
          PROVE  (IF B * (1 - 1) + k < 2 THEN s[B * (1 - 1) + k + 1] ELSE Zero)
                   = IF k < 2 THEN Digit(Shifted(aad_len, 1 - k) % R) ELSE Zero
      <4>1. B * (1 - 1) + k = k
        BY <1>1 DEF Pos
      <4>2. CASE k < 2
        <5>1. k + 1 \in 1 .. 2 /\ (k + 1) - 1 = k /\ 2 - 1 - k = 1 - k
          BY <1>1, <4>2 DEF Pos
        <5>2. s[k + 1] = Digit(Shifted(aad_len, 1 - k) % R)
          BY <2>3, <5>1 DEF NumberByte
        <5>3. QED
          BY <4>1, <4>2, <5>2
      <4>3. CASE ~(k < 2)
        BY <4>1, <4>3
      <4>4. QED
        BY <4>2, <4>3
    <3>3. QED
      BY <3>1, <3>2
  <2> HIDE DEF s, bs, length
  <2>5. /\ List(<<Block0>> \o bs) /\ Len(<<Block0>> \o bs) = 1 + 1
        /\ (<<Block0>> \o bs)[1] = Block0 /\ (<<Block0>> \o bs)[2] = length
    <3> DEFINE o == <<Block0>>
    <3>1. List(o) /\ Len(o) = 1 /\ o[1] = Block0
      BY Alone
    <3> HIDE DEF o
    <3>2. /\ List(o \o bs) /\ Len(o \o bs) = Len(o) + Len(bs)
          /\ o \o bs = [k \in 1 .. Len(o) + Len(bs) |-> IF k <= Len(o) THEN o[k] ELSE bs[k - Len(o)]]
      BY <2>2, <3>1, ListJoined
    <3>3. Len(o) + Len(bs) = 1 + 1 /\ 1 \in 1 .. Len(o) + Len(bs) /\ 2 \in 1 .. Len(o) + Len(bs)
          /\ 1 <= Len(o) /\ ~(2 <= Len(o)) /\ 2 - Len(o) = 1
      BY <2>2, <3>1
    <3>4. (o \o bs)[1] = o[1] /\ (o \o bs)[2] = bs[1]
      BY <3>2, <3>3
    <3>5. QED
      BY <2>4, <3>1, <3>2, <3>3, <3>4 DEF o
  <2>6. h = <<Block0>> \o bs
    BY DEF InFront, bs, s
  <2>7. LastInput(h) = XorBlocks(Cipher(LastInput(<<Block0>>)), length)
    <3> DEFINE o == <<Block0>>
    <3>1. List(o) /\ Len(o) = 1 /\ o[1] = Block0
      BY Alone
    <3> HIDE DEF o, h
    <3>2. List(h) /\ Len(h) = 2 /\ h[1] = Block0 /\ h[2] = length
      BY <2>5, <2>6
    <3>3. Len(h) = Len(o) + 1 /\ Len(o) # 0 /\ \A k \in 1 .. Len(o) : h[k] = o[k]
      BY <3>1, <3>2
    <3>4. LastInput(h) = XorBlocks(Cipher(LastInput(o)), h[Len(h)])
      BY <3>1, <3>2, <3>3, BlockAppended
    <3>5. QED
      BY <3>2, <3>4 DEF o
  <2>8. LastInput(<<Block0>>) = Block0
    BY Alone DEF LastInput
  <2>9. ap = 2 /\ first_buf = LastInput(Blocks0(0, 0)) /\ aad_len # 0
    BY <1>5, <1>6, <1>8, <2>7, <2>8
  <2> HIDE DEF ap, first_buf
  <2>10. QED
    BY <1>2, <1>3, <1>4, <2>9 DEF Context
<1>9. QED
  BY <1>1, <1>7, <1>8

\* What UAES_CCM_Init() was given, and what is changed on the way.
inputs == <<encrypt, nonce_len, aad_len, data_len, tag_len, change>>

\* What is defined from the inputs stays with them.
LEMMA InputsKept ==
  ASSUME UNCHANGED inputs
  PROVE  /\ Lengths' = Lengths
         /\ Context(aad_done, done)' = Context(aad_done', done')
         /\ Memory(done)' = Memory(done')
<1>1. /\ encrypt' = encrypt /\ nonce_len' = nonce_len /\ aad_len' = aad_len
      /\ data_len' = data_len /\ tag_len' = tag_len /\ change' = change
  BY DEF inputs
<1>2. LengthOfLength' = LengthOfLength /\ Block0' = Block0
  BY <1>1 DEF LengthOfLength, Block0
<1>3. ASSUME NEW j PROVE CounterBlock(j)' = CounterBlock(j) /\ CounterAt(j)' = CounterAt(j)
  BY <1>1, <1>2 DEF CounterBlock, CounterAt
<1>4. ASSUME NEW k PROVE PassedAad(k)' = PassedAad(k) /\ CipherText(k)' = CipherText(k) /\ Stream(k)' = Stream(k)
  BY <1>1, <1>3 DEF PassedAad, CipherText, Stream
<1>5. PassedData' = PassedData
  BY <1>1, <1>4 DEF PassedData
<1>6. ASSUME NEW k PROVE Turned(k)' = Turned(k)
  BY <1>4, <1>5 DEF Turned
<1>7. ASSUME NEW n PROVE AadSeq(n)' = AadSeq(n) /\ DataSeq(n)' = DataSeq(n)
  BY <1>1, <1>4, <1>5, <1>6 DEF AadSeq, DataSeq
<1>8. Lengths' = Lengths
  BY <1>1 DEF Lengths, CcmAssumption, BlocksAssumption
<1>9. Context(aad_done, done)' = Context(aad_done', done')
  BY <1>1, <1>2, <1>3, <1>7 DEF Context, Blocks0
<1>10. Memory(done)' = Memory(done')
  BY <1>1, <1>5, <1>6 DEF Memory
<1>11. QED
  BY <1>8, <1>9, <1>10

\* The invariant says as much of the inputs.
LEMMA LengthsFromInv ==
  ASSUME BlocksAssumption, CcmAssumption, CcmInv
  PROVE  Lengths
BY DEF CcmInv, Lengths

\* The invariant of CCM holds at the start.
LEMMA CcmInvInitially ==
  ASSUME BlocksAssumption, CcmAssumption, CcmInit
  PROVE  CcmInv
<1>1. Lengths
  BY DEF CcmInit, Lengths
<1>2. ctx = Context(aad_done, done)
  BY <1>1, ContextStarts DEF CcmInit
<1>3. mem = Memory(done)
  <2>1. mem = PassedData /\ PassedData = [k \in 0 .. data_len - 1 |-> PassedData[k]]
    BY DEF CcmInit, PassedData
  <2>2. \A k \in 0 .. data_len - 1 : ~(k < 0)
    BY <1>1, LengthsAre
  <2>3. done = 0
    BY DEF CcmInit
  <2>4. QED
    BY <2>1, <2>2, <2>3 DEF Memory
<1>4. aad_done \in 0 .. aad_len /\ done \in 0 .. data_len /\ ~(done > 0)
  BY <1>1, LengthsAre DEF CcmInit
<1>5. QED
  BY <1>2, <1>3, <1>4 DEF CcmInv, CcmInit

\* Every call keeps the invariant of CCM.
LEMMA CcmInvNext ==
  ASSUME BlocksAssumption, CcmAssumption, CcmInv, [CcmNext]_ccmVars
  PROVE  CcmInv'
<1>1. Lengths /\ aad_len \in Nat /\ data_len \in Nat
  BY LengthsFromInv, LengthsAre
<1>2. SUFFICES ASSUME UNCHANGED inputs /\ aad_done' \in 0 .. aad_len /\ done' \in 0 .. data_len
                      /\ (done' > 0 => aad_done' = aad_len)
                      /\ ctx' = Context(aad_done', done') /\ mem' = Memory(done')
               PROVE  CcmInv'
  <2>1. ASSUME NEW n \in 1 .. aad_len - aad_done, AddAad(n)
        PROVE  /\ UNCHANGED inputs /\ aad_done' \in 0 .. aad_len /\ done' \in 0 .. data_len
               /\ done' > 0 => aad_done' = aad_len
               /\ ctx' = Context(aad_done', done') /\ mem' = Memory(done')
    <3> DEFINE a == aad_done
               c == Context(a, 0)
               F == CHOOSE g : Fed(g, c, a, n)
    <3>1. a \in Nat /\ n \in Nat /\ a + n \in 0 .. aad_len /\ aad_len # 0
      BY <1>1, <2>1 DEF CcmInv, AddAad
    <3>2. done = 0 /\ ctx = c /\ mem = Memory(0)
      BY <2>1 DEF CcmInv, AddAad
    <3>3. ctx' = F[n]
      BY <2>1, <3>2 DEF AddAad, Fed
    <3>4. aad_done' = a + n /\ done' = 0 /\ mem' = mem /\ UNCHANGED inputs
      BY <2>1, <3>2 DEF AddAad, inputs
    <3> HIDE DEF a
    <3>5. Fed(F, c, a, n)
      BY <1>1, <3>1, AadTurnsExist
    <3> HIDE DEF F
    <3>6. F[n] = Context(a + n, 0)
      BY <1>1, <3>1, <3>5, AadTurnsRight
    <3>7. QED
      BY <1>1, <3>1, <3>2, <3>3, <3>4, <3>6
  <2>2. ASSUME NEW n \in 1 .. data_len - done, Xcrypt(n)
        PROVE  /\ UNCHANGED inputs /\ aad_done' \in 0 .. aad_len /\ done' \in 0 .. data_len
               /\ done' > 0 => aad_done' = aad_len
               /\ ctx' = Context(aad_done', done') /\ mem' = Memory(done')
    <3> DEFINE d == done
               s == Reached(d)
               F == CHOOSE g : Turns(g, s, d, n)
    <3>1. d \in Nat /\ n \in Nat /\ d + n \in 0 .. data_len /\ d + n <= data_len
      <4>1. done \in 0 .. data_len
        BY DEF CcmInv
      <4>2. QED
        BY <1>1, <4>1
    <3>2. aad_done = aad_len /\ [ctx |-> ctx, mem |-> mem] = s
      BY <2>2 DEF CcmInv, Xcrypt, Reached
    <3>3. ctx' = F[n].ctx /\ mem' = F[n].mem
      BY <2>2, <3>2 DEF Xcrypt, Turns
    <3>4. aad_done' = aad_len /\ done' = d + n /\ UNCHANGED inputs
      BY <2>2, <3>2 DEF Xcrypt, inputs
    <3> HIDE DEF d
    <3>5. Turns(F, s, d, n)
      BY <1>1, <3>1, TurnsExist
    <3> HIDE DEF F
    <3>6. F[n] = Reached(d + n)
      BY <1>1, <3>1, <3>5, TurnsRight
    <3>7. ctx' = Context(aad_len, d + n) /\ mem' = Memory(d + n)
      BY <3>3, <3>6 DEF Reached
    <3>8. QED
      BY <1>1, <3>1, <3>4, <3>7
  <2>3. CASE UNCHANGED ccmVars
    BY <2>3 DEF CcmInv, ccmVars, inputs
  <2>4. QED
    BY <2>1, <2>2, <2>3, <1>2 DEF CcmNext
<1>3. /\ encrypt' = encrypt /\ nonce_len' = nonce_len /\ aad_len' = aad_len
      /\ data_len' = data_len /\ tag_len' = tag_len /\ change' = change
  BY <1>2 DEF inputs
<1>4. ctx' = Context(aad_done, done)' /\ mem' = Memory(done)'
  BY <1>2, InputsKept
<1>5. QED
  BY <1>2, <1>3, <1>4 DEF CcmInv

\* Whoever decrypts adds the same key stream again.
LEMMA XorTwice == \A a, b : Xor(Xor(a, b), b) = a
BY DEF Xor

\* Xor is commutative.
LEMMA XorTurned == \A a, b : Xor(a, b) = Xor(b, a)
BY DEF Xor

\* What is added to both sides may be left out.
LEMMA XorCancelled == \A a, b, c : Xor(a, b) = Xor(a, c) => b = c
<1> SUFFICES ASSUME NEW a, NEW b, NEW c, Xor(a, b) = Xor(a, c) PROVE b = c
  OBVIOUS
<1>1. Xor(Xor(a, b), a) = b /\ Xor(Xor(a, c), a) = c
  BY DEF Xor
<1>2. QED
  BY <1>1

\* What the message is when nothing in it was changed.
LEMMA TurnedIs ==
  ASSUME Lengths, change # "data", NEW k \in 0 .. data_len - 1
  PROVE  /\ Turned(k) = IF encrypt THEN CipherText(k) ELSE Plain(k)
         /\ PassedData[k] = IF encrypt THEN Plain(k) ELSE CipherText(k)
<1>1. PassedData[k] = IF encrypt THEN Plain(k) ELSE CipherText(k)
  BY DEF PassedData
<1>2. CipherText(k) = Xor(Plain(k), Stream(k))
  BY DEF CipherText, Stream
<1>3. QED
  BY <1>1, <1>2, XorTwice DEF Turned

\* The invariant gives the output.
LEMMA OutputFromInv ==
  ASSUME BlocksAssumption, CcmAssumption, CcmInv
  PROVE  OutputRight
<1>1. Lengths /\ data_len \in Nat /\ done \in 0 .. data_len
  BY LengthsFromInv, LengthsAre DEF CcmInv
<1>2. SUFFICES ASSUME change = "none", NEW k \in 0 .. done - 1
               PROVE  mem[k] = IF encrypt THEN CipherText(k) ELSE Plain(k)
  BY DEF OutputRight
<1>3. k \in 0 .. data_len - 1 /\ k < done
  BY <1>1
<1>4. mem[k] = Turned(k)
  BY <1>3 DEF CcmInv, Memory
<1>5. QED
  BY <1>1, <1>2, <1>3, <1>4, TurnedIs

\* The tag that goes with a sequence of blocks.
Tagged(s) == [k \in 0 .. tag_len - 1 |-> Xor(CbcMac(s)[k], Cipher(CounterBlock(0))[k])]

\* The counter of the tag has zeros behind the nonce.
LEMMA CounterStarts ==
  ASSUME Lengths
  PROVE  CounterAt(0) = [k \in Pos |-> IF k = 0 THEN B - 2 - nonce_len ELSE 0]
<1>1. B \in Nat /\ BlocksAssumption
  BY LengthsAre DEF Lengths
<1>2. \A n \in Nat : Shifted(0, n) = 0
  BY <1>1, ShiftedMore, StaysZero
<1>3. ASSUME NEW k \in Pos PROVE Shifted(0, B - 1 - k) % R = 0
  <2>1. B - 1 - k \in Nat
    BY <1>1 DEF Pos
  <2>2. 0 % R = 0
    BY <1>1 DEF BlocksAssumption
  <2>3. QED
    BY <1>2, <2>1, <2>2
<1>4. QED
  BY <1>3 DEF CounterAt

\* The tag is that of the blocks that have gone into the context.
LEMMA TagOfContext ==
  ASSUME Lengths, NEW a \in Nat, NEW d \in Nat
  PROVE  /\ UAES_CCM_GenerateTag(Context(a, d)) = Tagged(Blocks0(a, d))
         /\ List(Blocks0(a, d)) /\ Len(Blocks0(a, d)) # 0
<1> DEFINE c == Context(a, d)
           u == Blocks0(a, d)
<1>1. BlocksAssumption /\ B \in Nat /\ B >= 3 /\ tag_len \in 4 .. B
  BY LengthsAre DEF Lengths
<1>2. c.nonce_len = nonce_len /\ c.cbc_buf = LastInput(u) /\ c.counter[0] = B - 2 - nonce_len
  <2>1. 0 \in Pos
    BY <1>1 DEF Pos
  <2>2. c.counter = CounterAt(Begun(d)) /\ c.nonce_len = nonce_len /\ c.cbc_buf = LastInput(u)
    BY DEF Context
  <2> HIDE DEF c, u
  <2>3. QED
    BY <2>1, <2>2 DEF CounterAt
<1>3. List(u) /\ Len(u) # 0
  <2>1. List(InFront(a)) /\ Len(InFront(a)) # 0
    BY <1>1, InFrontIs
  <2>2. List(BlocksOf(DataSeq(d)))
    BY <1>1, DataSeqLonger, BlocksList
  <2>3. u = InFront(a) \o BlocksOf(DataSeq(d))
    BY DEF Blocks0, InFront
  <2>4. Len(InFront(a)) \in Nat /\ Len(BlocksOf(DataSeq(d))) \in Nat
    BY <2>1, <2>2, ListLen
  <2> HIDE DEF u
  <2>5. List(u) /\ Len(u) = Len(InFront(a)) + Len(BlocksOf(DataSeq(d)))
    BY <2>1, <2>2, <2>3, ListJoined
  <2>6. QED
    BY <2>1, <2>4, <2>5
<1> HIDE DEF c, u
<1>4. CbcMac(u) = Cipher(LastInput(u))
  BY <1>3, MacIs
<1>5. CounterBytes(c, [k \in Pos |-> IF k = 0 THEN c.counter[0] ELSE 0]) = CounterBlock(0)
  <2>1. CounterBytes(c, CounterAt(0)) = CounterBlock(0)
    BY <1>2, CounterBytesRight
  <2>2. [k \in Pos |-> IF k = 0 THEN c.counter[0] ELSE 0] = CounterAt(0)
    BY <1>2, CounterStarts
  <2>3. QED
    BY <2>1, <2>2, Zenon
<1>6. UAES_CCM_GenerateTag(c) =
        [k \in 0 .. tag_len - 1 |-> XorBlocks(Cipher(CounterBlock(0)), CbcMac(u))[k]]
  BY <1>2, <1>4, <1>5 DEF UAES_CCM_GenerateTag
<1>7. \A k \in 0 .. tag_len - 1 : k \in Pos
  BY <1>1 DEF Pos
<1>8. UAES_CCM_GenerateTag(c) = Tagged(u)
  BY <1>6, <1>7, XorTurned DEF Tagged, XorBlocks
<1>9. QED
  BY <1>3, <1>8 DEF c, u

\* What the tag of the mode is over.
TagAad ==
  IF aad_len = 0 THEN <<>>
  ELSE [k \in 1 .. 2 |-> NumberByte(aad_len, 2, k - 1)] \o [k \in 1 .. aad_len |-> Aad(k - 1)]
\* The message, and all of it in blocks.
TagData == [k \in 1 .. data_len |-> Plain(k - 1)]
TagBlocks == <<Block0>> \o BlocksOf(TagAad) \o BlocksOf(TagData)

\* So is the tag of the mode.
LEMMA TagIs == Tag = Tagged(TagBlocks)
BY DEF Tag, Tagged, TagBlocks, TagAad, TagData

\* The message is what goes into the tag, whether it is encrypted or decrypted.
LEMMA DataKept ==
  ASSUME Lengths, change # "data"
  PROVE  DataSeq(data_len) = TagData
<1>1. ASSUME NEW k \in 1 .. data_len
      PROVE  (IF encrypt THEN PassedData[k - 1] ELSE Turned(k - 1)) = Plain(k - 1)
  <2>1. k - 1 \in 0 .. data_len - 1
    BY LengthsAre
  <2>2. QED
    BY <2>1, TurnedIs
<1>2. QED
  BY <1>1 DEF DataSeq, TagData

\* The additional data as it was passed, byte by byte.
LEMMA TagAadIs ==
  ASSUME Lengths, aad_len # 0
  PROVE  TagAad = [k \in 1 .. 2 + aad_len |-> IF k <= 2 THEN NumberByte(aad_len, 2, k - 1) ELSE Aad(k - 3)]
<1> DEFINE s == [k \in 1 .. 2 |-> NumberByte(aad_len, 2, k - 1)]
           t == [k \in 1 .. aad_len |-> Aad(k - 1)]
<1>1. aad_len \in Nat
  BY LengthsAre
<1>2. \A k \in 1 .. 2 : s[k] = NumberByte(aad_len, 2, k - 1)
  OBVIOUS
<1>3. \A k \in 1 .. aad_len : t[k] = Aad(k - 1)
  OBVIOUS
<1>4. s = [k \in 1 .. 2 |-> s[k]] /\ t = [k \in 1 .. aad_len |-> t[k]]
  OBVIOUS
<1>5. TagAad = s \o t
  BY DEF TagAad
<1> HIDE DEF s, t
<1>6. List(s) /\ Len(s) = 2 /\ List(t) /\ Len(t) = aad_len
  BY <1>1, <1>4, ListIs
<1>7. s \o t = [k \in 1 .. Len(s) + Len(t) |-> IF k <= Len(s) THEN s[k] ELSE t[k - Len(s)]]
  BY <1>6, ListJoined
<1>8. ASSUME NEW k \in 1 .. 2 + aad_len
      PROVE  (IF k <= 2 THEN s[k] ELSE t[k - 2])
               = IF k <= 2 THEN NumberByte(aad_len, 2, k - 1) ELSE Aad(k - 3)
  <2>1. CASE k <= 2
    BY <1>1, <1>2, <2>1
  <2>2. CASE ~(k <= 2)
    <3>1. k - 2 \in 1 .. aad_len /\ (k - 2) - 1 = k - 3
      BY <1>1, <2>2
    <3>2. QED
      BY <1>3, <2>2, <3>1
  <2>3. QED
    BY <2>1, <2>2
<1>9. QED
  BY <1>5, <1>6, <1>7, <1>8

\* The additional data goes into it as it was sent.
LEMMA AadKept ==
  ASSUME Lengths, change # "aad"
  PROVE  AadSeq(aad_len) = TagAad
<1>1. CASE aad_len = 0
  BY <1>1 DEF AadSeq, TagAad
<1>2. CASE aad_len # 0
  <2>1. \A k : PassedAad(k) = Aad(k)
    BY DEF PassedAad
  <2>2. QED
    BY <1>2, <2>1, TagAadIs DEF AadSeq
<1>3. QED
  BY <1>1, <1>2

\* When neither was changed, the tag is that of the mode.
LEMMA TagKept ==
  ASSUME BlocksAssumption, CcmAssumption, CcmInv, Complete, change \notin {"aad", "data"}
  PROVE  UAES_CCM_GenerateTag(ctx) = Tag
<1>1. Lengths /\ aad_len \in Nat /\ data_len \in Nat
  BY LengthsFromInv, LengthsAre
<1>2. ctx = Context(aad_len, data_len)
  BY DEF CcmInv, Complete
<1>3. Blocks0(aad_len, data_len) = TagBlocks
  BY <1>1, DataKept, AadKept DEF Blocks0, TagBlocks
<1>4. QED
  BY <1>1, <1>2, <1>3, TagOfContext, TagIs

\* The invariant gives the tag.
LEMMA TagFromInv ==
  ASSUME BlocksAssumption, CcmAssumption, CcmInv
  PROVE  TagRight
BY TagKept DEF TagRight

\* Two lists of blocks that differ in their block j, and there only.
Differ(u, v, j) ==
  /\ List(u) /\ List(v) /\ Len(u) = Len(v) /\ j \in 1 .. Len(u)
  /\ \A l \in 1 .. Len(u) : l # j => u[l] = v[l]
  /\ \E k \in Pos : u[j][k] # v[j][k]

\* No two blocks are encrypted to the same one, nor do they have the first byte in common.
LEMMA CipherOneToOne ==
  ASSUME 0 \in Pos, NEW a, NEW b, Cipher(a)[0] = Cipher(b)[0]
  PROVE  a = b
<1>1. Cipher(a)[0] = {<<"E", a, 0>>} /\ Cipher(b)[0] = {<<"E", b, 0>>}
  BY DEF Cipher, Term
<1>2. <<"E", a, 0>> = <<"E", b, 0>>
  BY <1>1
<1>3. QED
  BY <1>2

\* Behind the block that differs, every block that comes out of the cipher does.
LEMMA MacsDiffer ==
  ASSUME BlocksAssumption, NEW u, NEW v, NEW j, Differ(u, v, j)
  PROVE  CbcMac(u)[0] # CbcMac(v)[0]
<1> DEFINE n == Len(u)
           f(w) == CHOOSE y : Chained(y, w, Len(w))
           y == f(u)
           z == f(v)
           same == {l \in Nat : l \in j .. n /\ y[l][0] = z[l][0]}
<1>1. n \in Nat /\ j \in 1 .. n /\ n = Len(v) /\ 0 \in Pos
  BY ListLen DEF Differ, BlocksAssumption, Pos
<1>2. CbcMac(u) = y[n] /\ CbcMac(v) = z[n]
  BY <1>1 DEF CbcMac, Chained
<1>3. Chained(y, u, n) /\ Chained(z, v, n)
  <2>1. \A w : Len(w) \in Nat => Chained(f(w), w, Len(w))
    BY ChainExists
  <2> HIDE DEF f
  <2>2. QED
    BY <1>1, <2>1
<1> HIDE DEF y, z
<1>4. \A l \in 1 .. n :
        /\ y[l] = Cipher(IF l = 1 THEN u[l] ELSE XorBlocks(y[l - 1], u[l]))
        /\ z[l] = Cipher(IF l = 1 THEN v[l] ELSE XorBlocks(z[l - 1], v[l]))
  BY <1>3 DEF Chained
<1>5. PICK k \in Pos : u[j][k] # v[j][k]
  BY DEF Differ
<1>6. y[j][0] # z[j][0]
  <2>1. SUFFICES ASSUME y[j][0] = z[j][0] PROVE FALSE
    OBVIOUS
  <2>2. (IF j = 1 THEN u[j] ELSE XorBlocks(y[j - 1], u[j])) = (IF j = 1 THEN v[j] ELSE XorBlocks(z[j - 1], v[j]))
    BY <1>1, <1>4, <2>1, CipherOneToOne
  <2>3. CASE j = 1
    BY <1>5, <2>2, <2>3
  <2>4. CASE j # 1
    <3> DEFINE l == j - 1
    <3>1. l \in 1 .. n /\ \A p \in 1 .. l : p \in 1 .. n /\ p # j
      BY <1>1, <2>4
    <3>2. \A p \in 1 .. l : u[p] = v[p]
      BY <1>1, <3>1 DEF Differ
    <3>3. l <= n
      BY <1>1, <2>4
    <3> HIDE DEF l, n
    <3>4. y[l] = z[l]
      BY <1>1, <1>3, <3>1, <3>2, <3>3, ChainsAgree
    <3>5. XorBlocks(y[l], u[j]) = XorBlocks(y[l], v[j])
      BY <2>2, <2>4, <3>4 DEF l
    <3>6. Xor(y[l][k], u[j][k]) = Xor(y[l][k], v[j][k])
      BY <3>5 DEF XorBlocks
    <3>7. QED
      BY <1>5, <3>6, XorCancelled
  <2>5. QED
    BY <2>3, <2>4
<1>7. same = {}
  <2>1. SUFFICES ASSUME same # {} PROVE FALSE
    OBVIOUS
  <2>2. PICK l \in same : \A p \in same : l <= p
    <3>1. same \in SUBSET Nat
      OBVIOUS
    <3> HIDE DEF same
    <3>2. QED
      BY <2>1, <3>1, Smallest
  <2>3. l \in Nat /\ l \in j .. n /\ y[l][0] = z[l][0]
    OBVIOUS
  <2>4. l # j
    BY <1>6, <2>3
  <2> DEFINE q == l - 1
  <2>5. l # 1 /\ l \in 1 .. n /\ q \in Nat /\ q \in j .. n /\ ~(l <= q)
    BY <1>1, <2>3, <2>4
  <2>6. q \notin same
    <3> HIDE DEF same, q
    <3>1. QED
      BY <2>2, <2>5
  <2>7. y[q][0] # z[q][0]
    BY <2>5, <2>6
  <2> HIDE DEF same, n
  <2>8. XorBlocks(y[q], u[l]) = XorBlocks(z[q], v[l])
    BY <1>1, <1>4, <2>3, <2>5, CipherOneToOne
  <2>9. u[l] = v[l]
    BY <2>4, <2>5 DEF Differ, n
  <2>10. Xor(y[q][0], u[l][0]) = Xor(z[q][0], u[l][0])
    BY <1>1, <2>8, <2>9 DEF XorBlocks
  <2>11. y[q][0] = z[q][0]
    BY <2>10, XorTurned, XorCancelled
  <2>12. QED
    BY <2>7, <2>11
<1>8. n \in j .. n
  BY <1>1
<1>9. QED
  BY <1>1, <1>2, <1>7, <1>8

\* A byte in the first block of a sequence of bytes.
LEMMA BlocksDiffer ==
  ASSUME BlocksAssumption, NEW s, NEW t, List(s), List(t), Len(s) = Len(t),
         NEW m \in Pos, m < Len(s), s[m + 1] # t[m + 1],
         \A k \in 1 .. Len(s) : k # m + 1 => s[k] = t[k]
  PROVE  Differ(BlocksOf(s), BlocksOf(t), 1)
<1> DEFINE n == Len(s)
           bs == BlocksOf(s)
           bt == BlocksOf(t)
<1>1. B \in Nat \ {0} /\ n \in Nat /\ m \in 0 .. B - 1 /\ m < n
  BY ListLen DEF BlocksAssumption, Pos
<1>2. /\ List(bs) /\ List(bt) /\ Len(bs) = Begun(n) /\ Len(bt) = Begun(n) /\ Begun(n) \in Nat
      /\ \A w \in 1 .. Begun(n) : bs[w] = BlockAt(s, w) /\ bt[w] = BlockAt(t, w)
  BY BlocksList
<1> HIDE DEF bs, bt
<1>3. Begun(n) >= 1
  <2>1. \A x \in Nat : x >= B => x \div B >= 1
    BY <1>1
  <2>2. n + B - 1 \in Nat /\ n + B - 1 >= B
    BY <1>1
  <2> HIDE DEF n
  <2>3. QED
    BY <2>1, <2>2 DEF Begun
<1>4. bs[1][m] # bt[1][m]
  <2>1. B * (1 - 1) + m = m
    BY <1>1
  <2>2. 1 \in 1 .. Begun(n)
    BY <1>2, <1>3
  <2>3. bs[1][m] = s[m + 1] /\ bt[1][m] = t[m + 1]
    BY <1>1, <1>2, <2>1, <2>2 DEF BlockAt
  <2>4. QED
    BY <2>3
<1>5. ASSUME NEW w \in 1 .. Begun(n), w # 1
      PROVE  bs[w] = bt[w]
  <2>1. ASSUME NEW k \in Pos
        PROVE  (IF B * (w - 1) + k < n THEN s[B * (w - 1) + k + 1] ELSE Zero)
                 = (IF B * (w - 1) + k < n THEN t[B * (w - 1) + k + 1] ELSE Zero)
    <3> DEFINE x == B * (w - 1) + k
    <3>1. w - 2 \in Nat /\ w - 1 = (w - 2) + 1
      BY <1>2, <1>5
    <3>2. B * (w - 1) = B * (w - 2) + B /\ B * (w - 2) \in Nat
      BY <1>1, <3>1
    <3>3. x \in Nat /\ x >= B
      BY <1>1, <3>2 DEF Pos
    <3> HIDE DEF x
    <3>4. x < n => x + 1 \in 1 .. n /\ x + 1 # m + 1
      BY <1>1, <3>3
    <3>5. x < n => s[x + 1] = t[x + 1]
      BY <3>4
    <3>6. QED
      BY <3>5 DEF x
  <2>2. QED
    BY <1>2, <2>1 DEF BlockAt
<1>6. QED
  BY <1>2, <1>3, <1>4, <1>5 DEF Differ, bs, bt

\* Blocks in front change nothing about the difference.
LEMMA DifferBehind ==
  ASSUME NEW h, List(h), NEW s, NEW t, NEW j, Differ(s, t, j)
  PROVE  Differ(h \o s, h \o t, Len(h) + j)
<1> DEFINE u == h \o s
           v == h \o t
           m == Len(h)
           n == Len(s)
<1>1. m \in Nat /\ n \in Nat /\ n = Len(t) /\ j \in 1 .. n
  BY ListLen DEF Differ
<1>2. /\ List(u) /\ Len(u) = m + n /\ List(v) /\ Len(v) = m + n
      /\ \A k \in 1 .. m + n : u[k] = (IF k <= m THEN h[k] ELSE s[k - m])
      /\ \A k \in 1 .. m + n : v[k] = (IF k <= m THEN h[k] ELSE t[k - m])
  BY <1>1, ListJoined DEF Differ
<1>3. m + j \in 1 .. m + n /\ ~(m + j <= m) /\ (m + j) - m = j
  BY <1>1
<1> HIDE DEF u, v, m
<1>4. u[m + j] = s[j] /\ v[m + j] = t[j]
  BY <1>2, <1>3
<1>5. ASSUME NEW l \in 1 .. m + n, l # m + j PROVE u[l] = v[l]
  <2>1. CASE l <= m
    BY <1>2, <2>1
  <2>2. CASE ~(l <= m)
    <3>1. l - m \in 1 .. n /\ l - m # j
      BY <1>1, <1>5, <2>2
    <3>2. s[l - m] = t[l - m]
      BY <3>1 DEF Differ
    <3>3. QED
      BY <1>2, <2>2, <3>2
  <2>3. QED
    BY <2>1, <2>2
<1>6. \E k \in Pos : u[m + j][k] # v[m + j][k]
  BY <1>4 DEF Differ
<1> HIDE DEF n
<1>7. Differ(u, v, m + j)
  BY <1>2, <1>3, <1>5, <1>6 DEF Differ
<1>8. QED
  BY <1>7 DEF u, v, m

\* Blocks behind change nothing about it.
LEMMA DifferBefore ==
  ASSUME NEW h, List(h), NEW s, NEW t, NEW j, Differ(s, t, j)
  PROVE  Differ(s \o h, t \o h, j)
<1> DEFINE u == s \o h
           v == t \o h
           m == Len(h)
           n == Len(s)
<1>1. m \in Nat /\ n \in Nat /\ n = Len(t) /\ j \in 1 .. n
  BY ListLen DEF Differ
<1>2. /\ List(u) /\ Len(u) = n + m /\ List(v) /\ Len(v) = n + m
      /\ \A k \in 1 .. n + m : u[k] = (IF k <= n THEN s[k] ELSE h[k - n])
      /\ \A k \in 1 .. n + m : v[k] = (IF k <= n THEN t[k] ELSE h[k - n])
  BY <1>1, ListJoined DEF Differ
<1>3. j \in 1 .. n + m /\ j <= n
  BY <1>1
<1> HIDE DEF u, v, m
<1>4. u[j] = s[j] /\ v[j] = t[j]
  BY <1>2, <1>3
<1>5. ASSUME NEW l \in 1 .. n + m, l # j PROVE u[l] = v[l]
  <2>1. CASE l <= n
    <3>1. l \in 1 .. n
      BY <1>1, <2>1
    <3>2. s[l] = t[l]
      BY <1>5, <3>1 DEF Differ
    <3>3. QED
      BY <1>2, <2>1, <3>2
  <2>2. CASE ~(l <= n)
    BY <1>2, <2>2
  <2>3. QED
    BY <2>1, <2>2
<1>6. \E k \in Pos : u[j][k] # v[j][k]
  BY <1>4 DEF Differ
<1> HIDE DEF n
<1>7. Differ(u, v, j)
  BY <1>2, <1>3, <1>5, <1>6 DEF Differ
<1>8. QED
  BY <1>7 DEF u, v

\* The byte that is put in differs from what it is put in for.
LEMMA XorOfBytes ==
  ASSUME NEW a, NEW b, NEW k, NEW l
  PROVE  /\ Cipher(a)[0] = {<<"E", a, 0>>} \/ 0 \notin Pos
         /\ 0 \in Pos => Xor(Cipher(a)[0], Cipher(b)[0]) # Named("x", 0)
         /\ 0 \in Pos => Xor(Named("x", 0), Cipher(a)[0]) # Plain(0)
         /\ Named("x", 0) # Aad(0)
<1>1. 0 \in Pos => Cipher(a)[0] = {<<"E", a, 0>>} /\ Cipher(b)[0] = {<<"E", b, 0>>}
  BY DEF Cipher, Term
<1>2. Named("x", 0) = {<<"x", <<>>, 0>>} /\ Plain(0) = {<<"p", <<>>, 0>>} /\ Aad(0) = {<<"aad", <<>>, 0>>}
  BY DEF Named, Plain, Aad, Term
<1>3. <<"x", <<>>, 0>> # <<"E", a, 0>> /\ <<"x", <<>>, 0>> # <<"E", b, 0>>
  OBVIOUS
<1>4. <<"x", <<>>, 0>> # <<"p", <<>>, 0>> /\ <<"x", <<>>, 0>> # <<"aad", <<>>, 0>>
  OBVIOUS
<1>5. QED
  BY <1>1, <1>2, <1>3, <1>4 DEF Xor

\* Tags over blocks that differ somewhere.
LEMMA TagsDiffer ==
  ASSUME Lengths, NEW u, NEW v, NEW j, Differ(u, v, j)
  PROVE  Tagged(u) # Tagged(v)
<1>1. BlocksAssumption /\ 0 \in 0 .. tag_len - 1
  BY LengthsAre DEF Lengths
<1>2. CbcMac(u)[0] # CbcMac(v)[0]
  BY <1>1, MacsDiffer
<1> DEFINE a == CbcMac(u)[0]
           b == CbcMac(v)[0]
           c == Cipher(CounterBlock(0))[0]
<1>3. Tagged(u)[0] = Xor(a, c) /\ Tagged(v)[0] = Xor(b, c)
  BY <1>1 DEF Tagged
<1> HIDE DEF a, b, c
<1>4. Xor(a, c) # Xor(b, c)
  BY <1>2, XorTurned, XorCancelled DEF a, b
<1>5. QED
  BY <1>3, <1>4

\* Changed additional data changes the tag.
LEMMA AadFound ==
  ASSUME Lengths, change = "aad", aad_len > 0
  PROVE  Tagged(Blocks0(aad_len, data_len)) # Tag
<1> DEFINE s == AadSeq(aad_len)
           t == TagAad
           d == BlocksOf(TagData)
           h == <<Block0>>
<1>1. /\ BlocksAssumption /\ aad_len \in Nat /\ aad_len # 0 /\ 2 + aad_len \in Nat /\ 2 \in Pos
      /\ data_len \in Nat
  BY LengthsAre DEF Lengths, Pos
<1>2. s = [k \in 1 .. 2 + aad_len |-> IF k <= 2 THEN NumberByte(aad_len, 2, k - 1) ELSE PassedAad(k - 3)]
  BY <1>1 DEF AadSeq
<1>3. t = [k \in 1 .. 2 + aad_len |-> IF k <= 2 THEN NumberByte(aad_len, 2, k - 1) ELSE Aad(k - 3)]
  BY <1>1, TagAadIs
<1> HIDE DEF s, t
<1>4. List(s) /\ List(t) /\ Len(s) = 2 + aad_len /\ Len(t) = 2 + aad_len
  <2>1. s = [k \in 1 .. 2 + aad_len |-> s[k]] /\ t = [k \in 1 .. 2 + aad_len |-> t[k]]
    BY <1>2, <1>3
  <2>2. QED
    BY <1>1, <2>1, ListIs
<1>5. s[2 + 1] # t[2 + 1]
  <2>1. 2 + 1 \in 1 .. 2 + aad_len /\ ~(2 + 1 <= 2) /\ (2 + 1) - 3 = 0
    BY <1>1
  <2>2. s[2 + 1] = PassedAad(0) /\ t[2 + 1] = Aad(0)
    BY <1>2, <1>3, <2>1
  <2>3. PassedAad(0) = Named("x", 0)
    BY DEF PassedAad
  <2>4. QED
    BY <2>2, <2>3, XorOfBytes
<1>6. ASSUME NEW k \in 1 .. 2 + aad_len, k # 2 + 1
      PROVE  s[k] = t[k]
  <2>1. ~(k <= 2) => k - 3 # 0
    BY <1>1, <1>6
  <2>2. ~(k <= 2) => PassedAad(k - 3) = Aad(k - 3)
    BY <2>1 DEF PassedAad
  <2>3. QED
    BY <1>2, <1>3, <2>2
<1>7. Differ(BlocksOf(s), BlocksOf(t), 1)
  <2>1. 2 < Len(s)
    BY <1>1, <1>4
  <2>2. QED
    BY <1>1, <1>4, <1>5, <1>6, <2>1, BlocksDiffer
<1>8. List(h) /\ Len(h) = 1
  BY Alone
<1>9. List(d)
  <2>1. List(TagData)
    <3>1. TagData = [k \in 1 .. data_len |-> TagData[k]]
      BY DEF TagData
    <3>2. QED
      BY <1>1, <3>1, ListIs
  <2>2. QED
    BY <1>1, <2>1, BlocksList
<1> HIDE DEF h, d
<1>10. Differ(h \o BlocksOf(s), h \o BlocksOf(t), Len(h) + 1)
  BY <1>7, <1>8, DifferBehind
<1>11. Differ((h \o BlocksOf(s)) \o d, (h \o BlocksOf(t)) \o d, Len(h) + 1)
  BY <1>9, <1>10, DifferBefore
<1>12. Blocks0(aad_len, data_len) = (h \o BlocksOf(s)) \o d /\ TagBlocks = (h \o BlocksOf(t)) \o d
  BY DataKept DEF Blocks0, TagBlocks, h, s, t, d
<1>13. QED
  BY <1>11, <1>12, TagsDiffer, TagIs

\* A changed message changes the tag.
LEMMA DataFound ==
  ASSUME Lengths, change = "data", data_len > 0, ~encrypt
  PROVE  Tagged(Blocks0(aad_len, data_len)) # Tag
<1> DEFINE s == DataSeq(data_len)
           t == TagData
           h == <<Block0>> \o BlocksOf(TagAad)
<1>1. /\ BlocksAssumption /\ aad_len \in Nat /\ data_len \in Nat /\ 0 \in Pos /\ B \in Nat \ {0}
  BY LengthsAre DEF Lengths, Pos, BlocksAssumption
<1>2. s = [k \in 1 .. data_len |-> Turned(k - 1)]
  BY DEF DataSeq
<1>3. t = [k \in 1 .. data_len |-> Plain(k - 1)]
  BY DEF TagData
<1> HIDE DEF s, t
<1>4. List(s) /\ List(t) /\ Len(s) = data_len /\ Len(t) = data_len
  <2>1. s = [k \in 1 .. data_len |-> s[k]] /\ t = [k \in 1 .. data_len |-> t[k]]
    BY <1>2, <1>3
  <2>2. QED
    BY <1>1, <2>1, ListIs
<1>5. s[0 + 1] # t[0 + 1]
  <2>1. 0 + 1 \in 1 .. data_len /\ (0 + 1) - 1 = 0
    BY <1>1
  <2>2. s[0 + 1] = Turned(0) /\ t[0 + 1] = Plain(0)
    BY <1>2, <1>3, <2>1
  <2>3. 0 % B = 0 /\ 0 \in 0 .. data_len - 1
    BY <1>1
  <2>4. Turned(0) = Xor(Named("x", 0), Cipher(CounterBlock(0 \div B + 1))[0])
    BY <2>3 DEF Turned, Stream, PassedData
  <2> DEFINE b == CounterBlock(0 \div B + 1)
  <2> HIDE DEF b
  <2>5. Xor(Named("x", 0), Cipher(b)[0]) # Plain(0)
    BY <1>1, XorOfBytes
  <2>6. QED
    BY <2>2, <2>4, <2>5 DEF b
<1>6. ASSUME NEW k \in 1 .. data_len, k # 0 + 1
      PROVE  s[k] = t[k]
  <2> DEFINE p == k - 1
  <2>1. p \in 0 .. data_len - 1 /\ p # 0
    BY <1>1, <1>6
  <2> HIDE DEF p
  <2>2. PassedData[p] = CipherText(p)
    BY <2>1 DEF PassedData
  <2>3. CipherText(p) = Xor(Plain(p), Stream(p))
    BY DEF CipherText, Stream
  <2>4. Turned(p) = Plain(p)
    BY <2>2, <2>3, XorTwice DEF Turned
  <2>5. QED
    BY <1>2, <1>3, <2>4 DEF p
<1>7. Differ(BlocksOf(s), BlocksOf(t), 1)
  BY <1>1, <1>4, <1>5, <1>6, BlocksDiffer
<1>8. List(h) /\ h = InFront(aad_len)
  <2>1. List(InFront(aad_len))
    BY <1>1, InFrontIs
  <2>2. h = InFront(aad_len)
    BY AadKept DEF InFront
  <2>3. QED
    BY <2>1, <2>2
<1> HIDE DEF h
<1>9. Differ(h \o BlocksOf(s), h \o BlocksOf(t), Len(h) + 1)
  BY <1>7, <1>8, DifferBehind
<1>10. Blocks0(aad_len, data_len) = h \o BlocksOf(s) /\ TagBlocks = h \o BlocksOf(t)
  BY AadKept DEF Blocks0, TagBlocks, h, s, t
<1>11. QED
  BY <1>9, <1>10, TagsDiffer, TagIs

\* Only what was sent passes.
LEMMA ChangesFromInv ==
  ASSUME BlocksAssumption, CcmAssumption, CcmInv
  PROVE  ChangesFound
<1>1. SUFFICES ASSUME Complete
               PROVE  UAES_CCM_GenerateTag(ctx) = PassedTag <=> change = "none"
  BY DEF ChangesFound, UAES_CCM_VerifyTag
<1>2. /\ Lengths /\ aad_len \in Nat /\ data_len \in Nat /\ tag_len \in 4 .. B /\ B \in Nat
      /\ change \in {"none", "aad", "data", "tag"}
  BY LengthsFromInv, LengthsAre
<1>3. UAES_CCM_GenerateTag(ctx) = Tagged(Blocks0(aad_len, data_len))
  <2>1. ctx = Context(aad_len, data_len)
    BY <1>1 DEF CcmInv, Complete
  <2>2. QED
    BY <1>2, <2>1, TagOfContext
<1>4. CASE change = "none"
  BY <1>1, <1>4, TagKept DEF PassedTag
<1>5. CASE change = "aad"
  <2>1. aad_len > 0 /\ PassedTag = Tag
    BY <1>5 DEF CcmInv, PassedTag
  <2>2. QED
    BY <1>2, <1>3, <1>5, <2>1, AadFound
<1>6. CASE change = "data"
  <2>1. data_len > 0 /\ ~encrypt /\ PassedTag = Tag
    BY <1>6 DEF CcmInv, PassedTag
  <2>2. QED
    BY <1>2, <1>3, <1>6, <2>1, DataFound
<1>7. CASE change = "tag"
  <2>1. UAES_CCM_GenerateTag(ctx) = Tag
    BY <1>1, <1>7, TagKept
  <2>2. 0 \in 0 .. tag_len - 1 /\ 0 \in Pos
    BY <1>2 DEF Pos
  <2> DEFINE b == CounterBlock(0)
             x == CbcMac(TagBlocks)[0]
  <2>3. Tag[0] = Xor(x, Cipher(b)[0]) /\ Tag = [k \in 0 .. tag_len - 1 |-> Tag[k]]
    BY <2>2, TagIs DEF Tagged
  <2>4. \E a : x = Cipher(a)[0]
    <3>1. AadSeq(aad_len) = TagAad /\ DataSeq(data_len) = TagData
      BY <1>2, <1>7, AadKept, DataKept
    <3>2. Blocks0(aad_len, data_len) = TagBlocks
      BY <3>1 DEF Blocks0, TagBlocks
    <3>3. CbcMac(TagBlocks) = Cipher(LastInput(TagBlocks))
      BY <1>2, <3>2, TagOfContext, MacIs
    <3>4. QED
      BY <3>3
  <2> HIDE DEF b, x
  <2>5. PICK a : x = Cipher(a)[0]
    BY <2>4
  <2>6. Xor(Cipher(a)[0], Cipher(b)[0]) # Named("x", 0)
    BY <2>2, XorOfBytes
  <2>7. Tag[0] # Named("x", 0)
    BY <2>3, <2>5, <2>6
  <2>8. PassedTag[0] = Named("x", 0)
    <3>1. PassedTag = [Tag EXCEPT ![0] = Named("x", 0)]
      BY <1>7 DEF PassedTag
    <3>2. QED
      BY <2>2, <2>3, <3>1
  <2>9. QED
    BY <1>7, <2>1, <2>7, <2>8
<1>8. QED
  BY <1>2, <1>4, <1>5, <1>6, <1>7

\* The invariant holds: however the additional data and the message are cut into calls,
\* the context and the memory are what they would be after one call for all that was
\* passed so far.
LEMMA CcmAlways ==
  ASSUME BlocksAssumption, CcmAssumption
  PROVE  CcmSpec => []CcmInv
BY CcmInvInitially, CcmInvNext, PTL DEF CcmSpec

\* CCM_Xcrypt(): for a block of any size and messages of any length that the nonce leaves
\* room for, encrypted and decrypted in calls of any length, what comes out is what the
\* mode says.  No counter is used twice or left out, whatever it carries.
THEOREM CcmOutputRight ==
  ASSUME BlocksAssumption, CcmAssumption
  PROVE  CcmSpec => []OutputRight
<1>1. CcmInv => OutputRight
  BY OutputFromInv
<1>2. QED
  BY <1>1, CcmAlways, PTL

\* UAES_CCM_GenerateTag(): the tag is that of the mode over the additional data and the
\* message, whoever computes it and with whatever calls.
THEOREM CcmTagRight ==
  ASSUME BlocksAssumption, CcmAssumption
  PROVE  CcmSpec => []TagRight
<1>1. CcmInv => TagRight
  BY TagFromInv
<1>2. QED
  BY <1>1, CcmAlways, PTL

\* UAES_CCM_VerifyTag(): it accepts the tag if nothing was changed, and only then.  The
\* cipher is that of Blocks, whose output has no byte in common for two inputs.
THEOREM CcmChangesFound ==
  ASSUME BlocksAssumption, CcmAssumption
  PROVE  CcmSpec => []ChangesFound
<1>1. CcmInv => ChangesFound
  BY ChangesFromInv
<1>2. QED
  BY <1>1, CcmAlways, PTL

\* What one station encrypts the other decrypts, accepts if nothing was changed and refuses
\* otherwise, however each of them cuts it into calls.
THEOREM CcmMessageRight ==
  ASSUME BlocksAssumption, CcmAssumption
  PROVE  CcmSpec => []MessageRight
<1>1. OutputRight /\ TagRight /\ ChangesFound => MessageRight
  BY DEF MessageRight
<1>2. QED
  BY <1>1, CcmOutputRight, CcmTagRight, CcmChangesFound, PTL

-----------------------------------------------------------------------------
(* Recursive functions *)

\* What each value of a recursive function passes on to the next, all of them have.
LEMMA Stays ==
  ASSUME NEW a \in Int, NEW b \in Int, NEW S, NEW h, h[a] \in S,
         \A k \in (a + 1) .. b : h[k - 1] \in S => h[k] \in S
  PROVE  \A k \in a .. b : h[k] \in S
<1> DEFINE Bad == {n \in Nat : a + n <= b /\ h[a + n] \notin S}
<1>1. Bad = {}
  <2>1. SUFFICES ASSUME Bad # {} PROVE FALSE
    OBVIOUS
  <2>2. PICK n \in Bad : \A m \in Bad : n <= m
    BY <2>1, Smallest
  <2>3. n # 0
    BY <2>2
  <2>4. n - 1 \in Nat /\ a + (n - 1) <= b /\ n - 1 \notin Bad
    BY <2>2, <2>3
  <2>5. h[a + (n - 1)] \in S
    BY <2>4
  <2>6. a + n \in (a + 1) .. b /\ (a + n) - 1 = a + (n - 1)
    BY <2>2, <2>3
  <2>7. h[a + n] \in S
    BY <2>5, <2>6
  <2>8. QED
    BY <2>2, <2>7
<1>2. ASSUME NEW k \in a .. b PROVE h[k] \in S
  <2>1. k - a \in Nat /\ a + (k - a) = k /\ a + (k - a) <= b
    OBVIOUS
  <2>2. k - a \notin Bad
    BY <1>1
  <2>3. QED
    BY <2>1, <2>2
<1>3. QED
  BY <1>2

\* A function on a .. b whose values are in S, each made by F of the one before it, and what
\* F must be for that.
MadeBy(g, a, b, S, base, F) ==
  g \in [a .. b -> S] /\ g[a] = base /\ \A k \in (a + 1) .. b : g[k] = F[<<k, g[k - 1]>>]
StaysIn(F, a, b, S) == \A k \in (a + 1) .. b, s \in S : F[<<k, s>>] \in S

\* There is a function whose values are made one of the other.
LEMMA Recursion ==
  ASSUME NEW a \in Int, NEW b \in Int, a <= b, NEW S, NEW base \in S,
         NEW F, StaysIn(F, a, b, S)
  PROVE  \E g : MadeBy(g, a, b, S, base, F)
<1>0. \A k \in (a + 1) .. b, s \in S : F[<<k, s>>] \in S
  BY DEF StaysIn
<1> DEFINE Is(g, n) ==
             /\ g \in [a .. a + n -> S]
             /\ a \in a .. a + n => g[a] = base
             /\ \A k \in (a + 1) .. (a + n) : g[k] = F[<<k, g[k - 1]>>]
           Bad == {n \in Nat : a + n <= b /\ ~ \E g : Is(g, n)}
<1>1. Bad = {}
  <2>1. SUFFICES ASSUME Bad # {} PROVE FALSE
    OBVIOUS
  <2>2. PICK n \in Bad : \A m \in Bad : n <= m
    <3>1. Bad \in SUBSET Nat
      OBVIOUS
    <3> HIDE DEF Bad
    <3>2. QED
      BY <2>1, <3>1, Smallest
  <2>3. n \in Nat /\ a + n <= b /\ ~ \E g : Is(g, n)
    BY <2>2
  <2>4. n # 0
    <3>1. SUFFICES ASSUME n = 0 PROVE \E g : Is(g, n)
      BY <2>3
    <3>2. Is([k \in a .. a |-> base], n)
      BY <3>1
    <3>3. QED
      BY <3>2
  <2>5. n - 1 \in Nat /\ a + (n - 1) <= b
    BY <2>3, <2>4
  <2>6. PICK g : Is(g, n - 1)
    <3> HIDE DEF Is
    <3>1. n - 1 \notin Bad
      <4>1. ~ (n <= n - 1)
        BY <2>3
      <4>2. QED
        BY <2>2, <4>1
    <3>2. QED
      BY <2>5, <3>1
  <2> DEFINE h == [k \in a .. a + n |-> IF k = a + n THEN F[<<k, g[k - 1]>>] ELSE g[k]]
  <2>7. a + n \in (a + 1) .. b /\ (a + n) - 1 \in a .. a + (n - 1) /\ a # a + n
    BY <2>3, <2>4
  <2>8. F[<<a + n, g[(a + n) - 1]>>] \in S
    <3>1. g[(a + n) - 1] \in S
      BY <2>6, <2>7
    <3>2. QED
      BY <1>0, <2>7, <3>1
  <2>9. \A k \in a .. a + n : k = a + n \/ k \in a .. a + (n - 1)
    BY <2>3
  <2>10. h \in [a .. a + n -> S]
    <3>1. ASSUME NEW k \in a .. a + n PROVE h[k] \in S
      <4>1. CASE k = a + n
        BY <2>8, <4>1
      <4>2. CASE k # a + n
        BY <2>6, <2>9, <4>2
      <4>3. QED
        BY <4>1, <4>2
    <3>2. QED
      BY <3>1
  <2>11. h[a] = base
    BY <2>3, <2>6, <2>7
  <2>12. ASSUME NEW k \in (a + 1) .. (a + n) PROVE h[k] = F[<<k, h[k - 1]>>]
    <3>1. k - 1 \in a .. a + n /\ k - 1 # a + n /\ h[k - 1] = g[k - 1] /\ k \in a .. a + n
      BY <2>3
    <3>2. CASE k = a + n
      BY <3>1, <3>2
    <3>3. CASE k # a + n
      <4>1. k \in (a + 1) .. (a + (n - 1))
        BY <2>3, <3>3
      <4>2. h[k] = g[k] /\ g[k] = F[<<k, g[k - 1]>>]
        BY <2>6, <3>1, <3>3, <4>1
      <4>3. QED
        BY <3>1, <4>2
    <3>4. QED
      BY <3>2, <3>3
  <2>13. Is(h, n)
    <3> HIDE DEF h
    <3>1. QED
      BY <2>10, <2>11, <2>12
  <2>14. QED
    BY <2>3, <2>13
<1>2. b - a \in Nat /\ a + (b - a) = b /\ a + (b - a) <= b
  OBVIOUS
<1>3. PICK g : Is(g, b - a)
  <2> HIDE DEF Is
  <2>1. QED
    BY <1>1, <1>2
<1>4. QED
  BY <1>2, <1>3 DEF MadeBy

-----------------------------------------------------------------------------
(* The field of the cipher *)

Gf == INSTANCE Gf28

LEMMA SameCardinality == \A S : Gf!Cardinality(S) = Cardinality(S)
BY DEF Gf!Cardinality, Cardinality

\* Exclusive or is associative, commutative and its own inverse.
LEMMA XorLaws ==
  /\ \A a, b : Gf!Xor(a, b) = Gf!Xor(b, a)
  /\ \A a, b, c : Gf!Xor(Gf!Xor(a, b), c) = Gf!Xor(a, Gf!Xor(b, c))
  /\ \A a : Gf!Xor(a, {}) = a /\ Gf!Xor({}, a) = a /\ Gf!Xor(a, a) = {}
BY DEF Gf!Xor

LEMMA XorBits == \A S, a, b : a \in SUBSET S /\ b \in SUBSET S => Gf!Xor(a, b) \in SUBSET S
BY DEF Gf!Xor

\* One turn of the reduction: the power t is taken away.
Cut(r, t) == IF t \in r THEN Gf!Xor(r, Gf!Up(Gf!Modulus, t - 8)) ELSE r

\* What a polynomial is modulo the one of the field.
Reduced(r) == Cut(Cut(Cut(Cut(Cut(Cut(Cut(r, 14), 13), 12), 11), 10), 9), 8)

\* The coefficients of a product before it is reduced.
Powers14(a, b) ==
  LET power[k \in 0 .. 14] == Gf!Cardinality({j \in a : k - j \in b}) % 2
  IN {k \in 0 .. 14 : power[k] = 1}

\* The members of a shifted number.
LEMMA UpIs ==
  \A a \in SUBSET Int, n \in Int :
    Gf!Up(a, n) \in SUBSET Int /\ \A e \in Int : e \in Gf!Up(a, n) <=> e - n \in a
BY DEF Gf!Up

LEMMA UpModulus == \A n \in Nat : Gf!Up(Gf!Modulus, n) = {8 + n, 4 + n, 3 + n, 1 + n, n}
BY DEF Gf!Up, Gf!Modulus

\* The reduction ends with the polynomials of degree 7.
LEMMA CutType ==
  ASSUME NEW r, NEW t \in 8 .. 14, r \in SUBSET (0 .. t)
  PROVE  Cut(r, t) \in SUBSET (0 .. (t - 1))
<1>1. Gf!Up(Gf!Modulus, t - 8) = {8 + (t - 8), 4 + (t - 8), 3 + (t - 8), 1 + (t - 8), t - 8}
  BY UpModulus
<1>2. CASE t \in r
  <2>1. ASSUME NEW e \in Cut(r, t) PROVE e \in 0 .. (t - 1)
    BY <1>1, <1>2, <2>1 DEF Cut, Gf!Xor
  <2>2. QED
    BY <2>1
<1>3. CASE t \notin r
  <2>1. ASSUME NEW e \in r PROVE e \in 0 .. (t - 1)
    BY <1>3
  <2>2. QED
    BY <1>3, <2>1 DEF Cut
<1>4. QED
  BY <1>2, <1>3

LEMMA CutTypes ==
  /\ \A r \in SUBSET (0 .. 14) : Cut(r, 14) \in SUBSET (0 .. 13)
  /\ \A r \in SUBSET (0 .. 13) : Cut(r, 13) \in SUBSET (0 .. 12)
  /\ \A r \in SUBSET (0 .. 12) : Cut(r, 12) \in SUBSET (0 .. 11)
  /\ \A r \in SUBSET (0 .. 11) : Cut(r, 11) \in SUBSET (0 .. 10)
  /\ \A r \in SUBSET (0 .. 10) : Cut(r, 10) \in SUBSET (0 .. 9)
  /\ \A r \in SUBSET (0 .. 9) : Cut(r, 9) \in SUBSET (0 .. 8)
  /\ \A r \in SUBSET (0 .. 8) : Cut(r, 8) \in SUBSET (0 .. 7)
<1>1. \A r \in SUBSET (0 .. 14) : Cut(r, 14) \in SUBSET (0 .. 13)
  <2> SUFFICES ASSUME NEW r \in SUBSET (0 .. 14) PROVE Cut(r, 14) \in SUBSET (0 .. 13)
    OBVIOUS
  <2>1. PICK t \in 8 .. 14 : t = 14
    OBVIOUS
  <2>2. r \in SUBSET (0 .. t)
    BY <2>1
  <2>3. Cut(r, t) \in SUBSET (0 .. (t - 1))
    BY <2>2, CutType
  <2>4. QED
    BY <2>1, <2>3
<1>2. \A r \in SUBSET (0 .. 13) : Cut(r, 13) \in SUBSET (0 .. 12)
  <2> SUFFICES ASSUME NEW r \in SUBSET (0 .. 13) PROVE Cut(r, 13) \in SUBSET (0 .. 12)
    OBVIOUS
  <2>1. PICK t \in 8 .. 14 : t = 13
    OBVIOUS
  <2>2. r \in SUBSET (0 .. t)
    BY <2>1
  <2>3. Cut(r, t) \in SUBSET (0 .. (t - 1))
    BY <2>2, CutType
  <2>4. QED
    BY <2>1, <2>3
<1>3. \A r \in SUBSET (0 .. 12) : Cut(r, 12) \in SUBSET (0 .. 11)
  <2> SUFFICES ASSUME NEW r \in SUBSET (0 .. 12) PROVE Cut(r, 12) \in SUBSET (0 .. 11)
    OBVIOUS
  <2>1. PICK t \in 8 .. 14 : t = 12
    OBVIOUS
  <2>2. r \in SUBSET (0 .. t)
    BY <2>1
  <2>3. Cut(r, t) \in SUBSET (0 .. (t - 1))
    BY <2>2, CutType
  <2>4. QED
    BY <2>1, <2>3
<1>4. \A r \in SUBSET (0 .. 11) : Cut(r, 11) \in SUBSET (0 .. 10)
  <2> SUFFICES ASSUME NEW r \in SUBSET (0 .. 11) PROVE Cut(r, 11) \in SUBSET (0 .. 10)
    OBVIOUS
  <2>1. PICK t \in 8 .. 14 : t = 11
    OBVIOUS
  <2>2. r \in SUBSET (0 .. t)
    BY <2>1
  <2>3. Cut(r, t) \in SUBSET (0 .. (t - 1))
    BY <2>2, CutType
  <2>4. QED
    BY <2>1, <2>3
<1>5. \A r \in SUBSET (0 .. 10) : Cut(r, 10) \in SUBSET (0 .. 9)
  <2> SUFFICES ASSUME NEW r \in SUBSET (0 .. 10) PROVE Cut(r, 10) \in SUBSET (0 .. 9)
    OBVIOUS
  <2>1. PICK t \in 8 .. 14 : t = 10
    OBVIOUS
  <2>2. r \in SUBSET (0 .. t)
    BY <2>1
  <2>3. Cut(r, t) \in SUBSET (0 .. (t - 1))
    BY <2>2, CutType
  <2>4. QED
    BY <2>1, <2>3
<1>6. \A r \in SUBSET (0 .. 9) : Cut(r, 9) \in SUBSET (0 .. 8)
  <2> SUFFICES ASSUME NEW r \in SUBSET (0 .. 9) PROVE Cut(r, 9) \in SUBSET (0 .. 8)
    OBVIOUS
  <2>1. PICK t \in 8 .. 14 : t = 9
    OBVIOUS
  <2>2. r \in SUBSET (0 .. t)
    BY <2>1
  <2>3. Cut(r, t) \in SUBSET (0 .. (t - 1))
    BY <2>2, CutType
  <2>4. QED
    BY <2>1, <2>3
<1>7. \A r \in SUBSET (0 .. 8) : Cut(r, 8) \in SUBSET (0 .. 7)
  <2> SUFFICES ASSUME NEW r \in SUBSET (0 .. 8) PROVE Cut(r, 8) \in SUBSET (0 .. 7)
    OBVIOUS
  <2>1. PICK t \in 8 .. 14 : t = 8
    OBVIOUS
  <2>2. r \in SUBSET (0 .. t)
    BY <2>1
  <2>3. Cut(r, t) \in SUBSET (0 .. (t - 1))
    BY <2>2, CutType
  <2>4. QED
    BY <2>1, <2>3
<1>8. QED
  BY <1>1, <1>2, <1>3, <1>4, <1>5, <1>6, <1>7

LEMMA ReducedType ==
  ASSUME NEW r \in SUBSET (0 .. 14)
  PROVE  Reduced(r) \in Gf!Bytes
<1>1. Cut(r, 14) \in SUBSET (0 .. 13)
  BY CutTypes
<1>2. Cut(Cut(r, 14), 13) \in SUBSET (0 .. 12)
  BY <1>1, CutTypes
<1>3. Cut(Cut(Cut(r, 14), 13), 12) \in SUBSET (0 .. 11)
  BY <1>2, CutTypes
<1>4. Cut(Cut(Cut(Cut(r, 14), 13), 12), 11) \in SUBSET (0 .. 10)
  BY <1>3, CutTypes
<1>5. Cut(Cut(Cut(Cut(Cut(r, 14), 13), 12), 11), 10) \in SUBSET (0 .. 9)
  BY <1>4, CutTypes
<1>6. Cut(Cut(Cut(Cut(Cut(Cut(r, 14), 13), 12), 11), 10), 9) \in SUBSET (0 .. 8)
  BY <1>5, CutTypes
<1>7. Reduced(r) \in SUBSET (0 .. 7)
  BY <1>6, CutTypes DEF Reduced
<1>8. QED
  BY <1>7 DEF Gf!Bytes

\* The reduction as the reference has it, turn by turn.
LEMMA ProductIs ==
  ASSUME NEW a \in Gf!Bytes, NEW b \in Gf!Bytes
  PROVE  Gf!Product(a, b) = Reduced(Powers14(a, b))
<1> DEFINE r == Powers14(a, b)
           S == SUBSET (0 .. 14)
           Turn == [p \in (1 .. 7) \X S |->
                      IF 15 - p[1] \in p[2] THEN Gf!Xor(p[2], Gf!Up(Gf!Modulus, (15 - p[1]) - 8)) ELSE p[2]]
           Body(g) == [k \in 0 .. 7 |->
                         IF k = 0 THEN r
                         ELSE IF 15 - k \in g[k - 1]
                              THEN Gf!Xor(g[k - 1], Gf!Up(Gf!Modulus, (15 - k) - 8)) ELSE g[k - 1]]
           g0 == CHOOSE g : g = Body(g)
<1>1. r \in S
  BY DEF Powers14
<1>2. Gf!Product(a, b) = g0[7]
  <2>1. Gf!Product(a, b) =
          LET power[k \in 0 .. 14] == Gf!Cardinality({j \in a : k - j \in b}) % 2
              reduced[k \in 0 .. 7] ==
                IF k = 0 THEN {j \in 0 .. 14 : power[j] = 1}
                ELSE IF 15 - k \in reduced[k - 1]
                     THEN Gf!Xor(reduced[k - 1], Gf!Up(Gf!Modulus, (15 - k) - 8)) ELSE reduced[k - 1]
          IN reduced[7]
    BY DEF Gf!Product
  <2>2. QED
    BY <2>1 DEF Powers14
<1>3. \E g : g = Body(g)
  <2>1. \A k \in 1 .. 7, s \in S : Turn[<<k, s>>] \in S
    <3>1. ASSUME NEW k \in 1 .. 7, NEW s \in S PROVE Turn[<<k, s>>] \in S
      <4>1. Gf!Up(Gf!Modulus, (15 - k) - 8) \in S
        <5>1. (15 - k) - 8 \in 0 .. 6
          OBVIOUS
        <5>2. \A n \in 0 .. 6 : {8 + n, 4 + n, 3 + n, 1 + n, n} \in S
          OBVIOUS
        <5>3. QED
          BY <5>1, <5>2, UpModulus
      <4>2. Gf!Xor(s, Gf!Up(Gf!Modulus, (15 - k) - 8)) \in S
        BY <4>1 DEF Gf!Xor
      <4>3. Turn[<<k, s>>] = IF 15 - k \in s THEN Gf!Xor(s, Gf!Up(Gf!Modulus, (15 - k) - 8)) ELSE s
        OBVIOUS
      <4>4. QED
        BY <4>2, <4>3
    <3>2. QED
      BY <3>1
  <2>2. PICK g : MadeBy(g, 0, 7, S, r, Turn)
    <3> HIDE DEF Turn, S, r
    <3>1. StaysIn(Turn, 0, 7, S)
      BY <2>1 DEF StaysIn
    <3>2. QED
      BY <1>1, <3>1, Recursion
  <2>3. ASSUME NEW k \in 0 .. 7
        PROVE  g[k] = Body(g)[k]
    <3>1. CASE k = 0
      BY <2>2, <3>1 DEF MadeBy
    <3>2. CASE k # 0
      <4>1. k \in 1 .. 7 /\ g[k - 1] \in S
        BY <2>2, <3>2 DEF MadeBy
      <4>2. g[k] = Turn[<<k, g[k - 1]>>]
        BY <2>2, <4>1 DEF MadeBy
      <4>3. QED
        BY <3>2, <4>1, <4>2
    <3>3. QED
      BY <3>1, <3>2
  <2>4. g = Body(g)
    BY <2>2, <2>3 DEF MadeBy
  <2>5. QED
    BY <2>4
<1>4. g0 = Body(g0)
  <2> HIDE DEF Body
  <2>1. QED
    BY <1>3
<1>5. g0[0] = r /\ \A k \in 1 .. 7 : g0[k] = Cut(g0[k - 1], 15 - k)
  <2> HIDE DEF g0, r
  <2>1. QED
    BY <1>4 DEF Cut
<1>6. /\ g0[1] = Cut(g0[0], 14) /\ g0[2] = Cut(g0[1], 13) /\ g0[3] = Cut(g0[2], 12)
      /\ g0[4] = Cut(g0[3], 11) /\ g0[5] = Cut(g0[4], 10) /\ g0[6] = Cut(g0[5], 9)
      /\ g0[7] = Cut(g0[6], 8)
  <2> HIDE DEF g0, r
  <2>1. QED
    BY <1>5
<1>7. QED
  <2> HIDE DEF g0
  <2>1. QED
    BY <1>2, <1>5, <1>6 DEF Reduced

\* The bits of a byte.
LEMMA ByteIs ==
  ASSUME NEW n \in Nat
  PROVE  /\ Gf!Byte(n) \in SUBSET (0 .. 7)
         /\ 0 \in Gf!Byte(n) <=> n % 2 = 1
         /\ 1 \in Gf!Byte(n) <=> (n \div 2) % 2 = 1
         /\ 2 \in Gf!Byte(n) <=> (n \div 4) % 2 = 1
         /\ 3 \in Gf!Byte(n) <=> (n \div 8) % 2 = 1
         /\ 4 \in Gf!Byte(n) <=> (n \div 16) % 2 = 1
         /\ 5 \in Gf!Byte(n) <=> (n \div 32) % 2 = 1
         /\ 6 \in Gf!Byte(n) <=> (n \div 64) % 2 = 1
         /\ 7 \in Gf!Byte(n) <=> (n \div 128) % 2 = 1
<1>1. /\ 2 ^ 0 = 1 /\ 2 ^ 1 = 2 /\ 2 ^ 2 = 4 /\ 2 ^ 3 = 8 /\ 2 ^ 4 = 16 /\ 2 ^ 5 = 32 /\ 2 ^ 6 = 64
      /\ 2 ^ 7 = 128
  OBVIOUS
<1>2. /\ Gf!Bit(n, 0) = n % 2 /\ Gf!Bit(n, 1) = (n \div 2) % 2 /\ Gf!Bit(n, 2) = (n \div 4) % 2
      /\ Gf!Bit(n, 3) = (n \div 8) % 2 /\ Gf!Bit(n, 4) = (n \div 16) % 2
      /\ Gf!Bit(n, 5) = (n \div 32) % 2 /\ Gf!Bit(n, 6) = (n \div 64) % 2
      /\ Gf!Bit(n, 7) = (n \div 128) % 2
  BY <1>1 DEF Gf!Bit
<1>3. Gf!Byte(n) \in SUBSET (0 .. 7) /\ \A k \in 0 .. 7 : k \in Gf!Byte(n) <=> Gf!Bit(n, k) = 1
  BY DEF Gf!Byte
<1>4. QED
  BY <1>2, <1>3

LEMMA ByteBits ==
  /\ Gf!Byte(1) = {0} /\ Gf!Byte(2) = {1} /\ Gf!Byte(3) = {0, 1} /\ Gf!Byte(9) = {0, 3}
  /\ Gf!Byte(11) = {0, 1, 3} /\ Gf!Byte(13) = {0, 2, 3} /\ Gf!Byte(14) = {1, 2, 3} /\ Gf!Byte(4) = {2}
  /\ Gf!Byte(8) = {3} /\ Gf!Byte(16) = {4} /\ Gf!Byte(32) = {5} /\ Gf!Byte(64) = {6}
  /\ Gf!Byte(128) = {7} /\ Gf!Byte(27) = {4, 3, 1, 0} /\ Gf!Byte(54) = {5, 4, 2, 1}
<1>1. Gf!Byte(1) = {0}
  <2>1. 0 \in Gf!Byte(1) /\ 1 \notin Gf!Byte(1) /\ 2 \notin Gf!Byte(1) /\ 3 \notin Gf!Byte(1)
        /\ 4 \notin Gf!Byte(1) /\ 5 \notin Gf!Byte(1) /\ 6 \notin Gf!Byte(1) /\ 7 \notin Gf!Byte(1)
    BY ByteIs
  <2>2. Gf!Byte(1) \in SUBSET (0 .. 7)
    BY ByteIs
  <2>3. QED
    BY <2>1, <2>2
<1>2. Gf!Byte(2) = {1}
  <2>1. 0 \notin Gf!Byte(2) /\ 1 \in Gf!Byte(2) /\ 2 \notin Gf!Byte(2) /\ 3 \notin Gf!Byte(2)
        /\ 4 \notin Gf!Byte(2) /\ 5 \notin Gf!Byte(2) /\ 6 \notin Gf!Byte(2) /\ 7 \notin Gf!Byte(2)
    BY ByteIs
  <2>2. Gf!Byte(2) \in SUBSET (0 .. 7)
    BY ByteIs
  <2>3. QED
    BY <2>1, <2>2
<1>3. Gf!Byte(3) = {0, 1}
  <2>1. 0 \in Gf!Byte(3) /\ 1 \in Gf!Byte(3) /\ 2 \notin Gf!Byte(3) /\ 3 \notin Gf!Byte(3)
        /\ 4 \notin Gf!Byte(3) /\ 5 \notin Gf!Byte(3) /\ 6 \notin Gf!Byte(3) /\ 7 \notin Gf!Byte(3)
    BY ByteIs
  <2>2. Gf!Byte(3) \in SUBSET (0 .. 7)
    BY ByteIs
  <2>3. QED
    BY <2>1, <2>2
<1>4. Gf!Byte(9) = {0, 3}
  <2>1. 0 \in Gf!Byte(9) /\ 1 \notin Gf!Byte(9) /\ 2 \notin Gf!Byte(9) /\ 3 \in Gf!Byte(9)
        /\ 4 \notin Gf!Byte(9) /\ 5 \notin Gf!Byte(9) /\ 6 \notin Gf!Byte(9) /\ 7 \notin Gf!Byte(9)
    BY ByteIs
  <2>2. Gf!Byte(9) \in SUBSET (0 .. 7)
    BY ByteIs
  <2>3. QED
    BY <2>1, <2>2
<1>5. Gf!Byte(11) = {0, 1, 3}
  <2>1. 0 \in Gf!Byte(11) /\ 1 \in Gf!Byte(11) /\ 2 \notin Gf!Byte(11) /\ 3 \in Gf!Byte(11)
        /\ 4 \notin Gf!Byte(11) /\ 5 \notin Gf!Byte(11) /\ 6 \notin Gf!Byte(11) /\ 7 \notin Gf!Byte(11)
    BY ByteIs
  <2>2. Gf!Byte(11) \in SUBSET (0 .. 7)
    BY ByteIs
  <2>3. QED
    BY <2>1, <2>2
<1>6. Gf!Byte(13) = {0, 2, 3}
  <2>1. 0 \in Gf!Byte(13) /\ 1 \notin Gf!Byte(13) /\ 2 \in Gf!Byte(13) /\ 3 \in Gf!Byte(13)
        /\ 4 \notin Gf!Byte(13) /\ 5 \notin Gf!Byte(13) /\ 6 \notin Gf!Byte(13) /\ 7 \notin Gf!Byte(13)
    BY ByteIs
  <2>2. Gf!Byte(13) \in SUBSET (0 .. 7)
    BY ByteIs
  <2>3. QED
    BY <2>1, <2>2
<1>7. Gf!Byte(14) = {1, 2, 3}
  <2>1. 0 \notin Gf!Byte(14) /\ 1 \in Gf!Byte(14) /\ 2 \in Gf!Byte(14) /\ 3 \in Gf!Byte(14)
        /\ 4 \notin Gf!Byte(14) /\ 5 \notin Gf!Byte(14) /\ 6 \notin Gf!Byte(14) /\ 7 \notin Gf!Byte(14)
    BY ByteIs
  <2>2. Gf!Byte(14) \in SUBSET (0 .. 7)
    BY ByteIs
  <2>3. QED
    BY <2>1, <2>2
<1>8. Gf!Byte(4) = {2}
  <2>1. 0 \notin Gf!Byte(4) /\ 1 \notin Gf!Byte(4) /\ 2 \in Gf!Byte(4) /\ 3 \notin Gf!Byte(4)
        /\ 4 \notin Gf!Byte(4) /\ 5 \notin Gf!Byte(4) /\ 6 \notin Gf!Byte(4) /\ 7 \notin Gf!Byte(4)
    BY ByteIs
  <2>2. Gf!Byte(4) \in SUBSET (0 .. 7)
    BY ByteIs
  <2>3. QED
    BY <2>1, <2>2
<1>9. Gf!Byte(8) = {3}
  <2>1. 0 \notin Gf!Byte(8) /\ 1 \notin Gf!Byte(8) /\ 2 \notin Gf!Byte(8) /\ 3 \in Gf!Byte(8)
        /\ 4 \notin Gf!Byte(8) /\ 5 \notin Gf!Byte(8) /\ 6 \notin Gf!Byte(8) /\ 7 \notin Gf!Byte(8)
    BY ByteIs
  <2>2. Gf!Byte(8) \in SUBSET (0 .. 7)
    BY ByteIs
  <2>3. QED
    BY <2>1, <2>2
<1>10. Gf!Byte(16) = {4}
  <2>1. 0 \notin Gf!Byte(16) /\ 1 \notin Gf!Byte(16) /\ 2 \notin Gf!Byte(16) /\ 3 \notin Gf!Byte(16)
        /\ 4 \in Gf!Byte(16) /\ 5 \notin Gf!Byte(16) /\ 6 \notin Gf!Byte(16) /\ 7 \notin Gf!Byte(16)
    BY ByteIs
  <2>2. Gf!Byte(16) \in SUBSET (0 .. 7)
    BY ByteIs
  <2>3. QED
    BY <2>1, <2>2
<1>11. Gf!Byte(32) = {5}
  <2>1. 0 \notin Gf!Byte(32) /\ 1 \notin Gf!Byte(32) /\ 2 \notin Gf!Byte(32) /\ 3 \notin Gf!Byte(32)
        /\ 4 \notin Gf!Byte(32) /\ 5 \in Gf!Byte(32) /\ 6 \notin Gf!Byte(32) /\ 7 \notin Gf!Byte(32)
    BY ByteIs
  <2>2. Gf!Byte(32) \in SUBSET (0 .. 7)
    BY ByteIs
  <2>3. QED
    BY <2>1, <2>2
<1>12. Gf!Byte(64) = {6}
  <2>1. 0 \notin Gf!Byte(64) /\ 1 \notin Gf!Byte(64) /\ 2 \notin Gf!Byte(64) /\ 3 \notin Gf!Byte(64)
        /\ 4 \notin Gf!Byte(64) /\ 5 \notin Gf!Byte(64) /\ 6 \in Gf!Byte(64) /\ 7 \notin Gf!Byte(64)
    BY ByteIs
  <2>2. Gf!Byte(64) \in SUBSET (0 .. 7)
    BY ByteIs
  <2>3. QED
    BY <2>1, <2>2
<1>13. Gf!Byte(128) = {7}
  <2>1. 0 \notin Gf!Byte(128) /\ 1 \notin Gf!Byte(128) /\ 2 \notin Gf!Byte(128) /\ 3 \notin Gf!Byte(128)
        /\ 4 \notin Gf!Byte(128) /\ 5 \notin Gf!Byte(128) /\ 6 \notin Gf!Byte(128) /\ 7 \in Gf!Byte(128)
    BY ByteIs
  <2>2. Gf!Byte(128) \in SUBSET (0 .. 7)
    BY ByteIs
  <2>3. QED
    BY <2>1, <2>2
<1>14. Gf!Byte(27) = {4, 3, 1, 0}
  <2>1. 0 \in Gf!Byte(27) /\ 1 \in Gf!Byte(27) /\ 2 \notin Gf!Byte(27) /\ 3 \in Gf!Byte(27)
        /\ 4 \in Gf!Byte(27) /\ 5 \notin Gf!Byte(27) /\ 6 \notin Gf!Byte(27) /\ 7 \notin Gf!Byte(27)
    BY ByteIs
  <2>2. Gf!Byte(27) \in SUBSET (0 .. 7)
    BY ByteIs
  <2>3. QED
    BY <2>1, <2>2
<1>15. Gf!Byte(54) = {5, 4, 2, 1}
  <2>1. 0 \notin Gf!Byte(54) /\ 1 \in Gf!Byte(54) /\ 2 \in Gf!Byte(54) /\ 3 \notin Gf!Byte(54)
        /\ 4 \in Gf!Byte(54) /\ 5 \in Gf!Byte(54) /\ 6 \notin Gf!Byte(54) /\ 7 \notin Gf!Byte(54)
    BY ByteIs
  <2>2. Gf!Byte(54) \in SUBSET (0 .. 7)
    BY ByteIs
  <2>3. QED
    BY <2>1, <2>2
<1>16. QED
  BY <1>1, <1>2, <1>3, <1>4, <1>5, <1>6, <1>7, <1>8, <1>9, <1>10, <1>11, <1>12, <1>13, <1>14, <1>15

\* The reduction of a sum is the sum of the reductions.
LEMMA CutAdds == \A r, s, t : Cut(Gf!Xor(r, s), t) = Gf!Xor(Cut(r, t), Cut(s, t))
<1> SUFFICES ASSUME NEW r, NEW s, NEW t PROVE Cut(Gf!Xor(r, s), t) = Gf!Xor(Cut(r, t), Cut(s, t))
  OBVIOUS
<1> DEFINE m == Gf!Up(Gf!Modulus, t - 8)
<1>1. t \in Gf!Xor(r, s) <=> (t \in r <=> t \notin s)
  BY DEF Gf!Xor
<1>2. /\ Cut(r, t) = IF t \in r THEN Gf!Xor(r, m) ELSE r
      /\ Cut(s, t) = IF t \in s THEN Gf!Xor(s, m) ELSE s
      /\ Cut(Gf!Xor(r, s), t) = IF t \in Gf!Xor(r, s) THEN Gf!Xor(Gf!Xor(r, s), m) ELSE Gf!Xor(r, s)
  BY DEF Cut
<1>3. /\ Gf!Xor(Gf!Xor(r, s), m) = Gf!Xor(Gf!Xor(r, m), s)
      /\ Gf!Xor(Gf!Xor(r, s), m) = Gf!Xor(r, Gf!Xor(s, m))
      /\ Gf!Xor(r, s) = Gf!Xor(Gf!Xor(r, m), Gf!Xor(s, m))
  BY DEF Gf!Xor
<1>4. QED
  <2> HIDE DEF m
  <2>1. QED
    BY <1>1, <1>2, <1>3

LEMMA ReducedAdds == \A r, s : Reduced(Gf!Xor(r, s)) = Gf!Xor(Reduced(r), Reduced(s))
BY CutAdds DEF Reduced

\* A number is odd when one of two is that make it, less twice what they share.
LEMMA Parity ==
  ASSUME NEW A, NEW C, IsFiniteSet(A), IsFiniteSet(C)
  PROVE  (Cardinality(Gf!Xor(A, C)) % 2 = 1) <=> ((Cardinality(A) % 2 = 1) <=> ~ (Cardinality(C) % 2 = 1))
<1>1. /\ IsFiniteSet(A \ C) /\ IsFiniteSet(C \ A) /\ IsFiniteSet(A \cap C)
      /\ (A \ C) \cap (C \ A) = {} /\ Gf!Xor(A, C) = (A \ C) \cup (C \ A)
  BY FS_Difference, FS_Intersection DEF Gf!Xor
<1>2. Cardinality(Gf!Xor(A, C)) = Cardinality(A \ C) + Cardinality(C \ A) - Cardinality({})
  <2>1. Cardinality((A \ C) \cup (C \ A)) =
          Cardinality(A \ C) + Cardinality(C \ A) - Cardinality((A \ C) \cap (C \ A))
    BY <1>1, FS_Union
  <2>2. QED
    BY <1>1, <2>1, Zenon
<1>3. Cardinality({}) = 0
  BY FS_EmptySet
<1>4. Cardinality(A \ C) = Cardinality(A) - Cardinality(A \cap C)
  BY FS_Difference
<1>5. Cardinality(C \ A) = Cardinality(C) - Cardinality(A \cap C)
  <2>1. C \cap A = A \cap C
    OBVIOUS
  <2>2. QED
    BY <2>1, FS_Difference
<1>6. /\ Cardinality(A) \in Nat /\ Cardinality(C) \in Nat /\ Cardinality(A \cap C) \in Nat
      /\ Cardinality(A \ C) \in Nat /\ Cardinality(C \ A) \in Nat
  BY <1>1, FS_CardinalityType
<1>7. \A x, y, z \in Nat : (((x - z) + (y - z)) % 2 = 1) <=> ((x % 2 = 1) <=> ~ (y % 2 = 1))
  OBVIOUS
<1>8. QED
  BY <1>2, <1>3, <1>4, <1>5, <1>6, <1>7

\* So the product is linear in its first factor.
LEMMA PowersAdd ==
  ASSUME NEW a \in Gf!Bytes, NEW b \in Gf!Bytes, NEW x \in Gf!Bytes
  PROVE  Powers14(Gf!Xor(a, b), x) = Gf!Xor(Powers14(a, x), Powers14(b, x))
<1> DEFINE S(c, k) == {j \in c : k - j \in x}
<1>1. \A c \in Gf!Bytes, k \in 0 .. 14 : k \in Powers14(c, x) <=> Cardinality(S(c, k)) % 2 = 1
  BY SameCardinality DEF Powers14
<1>2. \A c \in Gf!Bytes : IsFiniteSet(c)
  <2>1. IsFiniteSet(0 .. 7)
    <3>1. PICK p \in Int, q \in Int : p = 0 /\ q = 7
      OBVIOUS
    <3>2. IsFiniteSet(p .. q)
      BY FS_Interval
    <3>3. QED
      BY <3>1, <3>2
  <2>2. SUFFICES ASSUME NEW c \in SUBSET (0 .. 7) PROVE IsFiniteSet(c)
    BY DEF Gf!Bytes
  <2>3. QED
    BY <2>1, FS_Subset
<1>3. \A k \in 0 .. 14 : S(Gf!Xor(a, b), k) = Gf!Xor(S(a, k), S(b, k))
  BY DEF Gf!Xor
<1>4. \A k \in 0 .. 14 : IsFiniteSet(S(a, k)) /\ IsFiniteSet(S(b, k))
  BY <1>2, FS_Subset
<1>5. Gf!Xor(a, b) \in Gf!Bytes
  BY DEF Gf!Xor, Gf!Bytes
<1>6. \A k \in 0 .. 14 : k \in Powers14(Gf!Xor(a, b), x) <=> (k \in Powers14(a, x) <=> k \notin Powers14(b, x))
  <2> HIDE DEF S
  <2>1. QED
    BY <1>1, <1>3, <1>4, <1>5, Parity
<1>7. \A c : Powers14(c, x) \in SUBSET (0 .. 14)
  BY DEF Powers14
<1>8. QED
  BY <1>6, <1>7 DEF Gf!Xor

LEMMA ProductAdds ==
  ASSUME NEW a \in Gf!Bytes, NEW b \in Gf!Bytes, NEW x \in Gf!Bytes
  PROVE  Gf!Product(Gf!Xor(a, b), x) = Gf!Xor(Gf!Product(a, x), Gf!Product(b, x))
<1>1. Gf!Xor(a, b) \in Gf!Bytes
  BY DEF Gf!Xor, Gf!Bytes
<1>2. QED
  BY <1>1, ProductIs, PowersAdd, ReducedAdds

\* A product with one power of x is a shift.
LEMMA PowersOne ==
  ASSUME NEW n \in 0 .. 7, NEW x \in Gf!Bytes
  PROVE  Powers14({n}, x) = Gf!Up(x, n)
<1>2. Cardinality({n}) = 1 /\ Cardinality({}) = 0
  BY FS_Singleton, FS_EmptySet
<1>3. \A k \in 0 .. 14 : k \in Powers14({n}, x) <=> k - n \in x
  <2> SUFFICES ASSUME NEW k \in 0 .. 14 PROVE k \in Powers14({n}, x) <=> k - n \in x
    OBVIOUS
  <2> DEFINE Q == {j \in {n} : k - j \in x}
  <2>1. k \in Powers14({n}, x) <=> Cardinality(Q) % 2 = 1
    BY SameCardinality DEF Powers14
  <2>2. CASE k - n \in x
    <3>1. Q = {n}
      BY <2>2
    <3> HIDE DEF Q
    <3>2. QED
      BY <1>2, <2>1, <2>2, <3>1
  <2>3. CASE k - n \notin x
    <3>1. Q = {}
      BY <2>3
    <3> HIDE DEF Q
    <3>2. QED
      BY <1>2, <2>1, <2>3, <3>1
  <2>4. QED
    BY <2>2, <2>3
<1>4. Powers14({n}, x) \in SUBSET (0 .. 14)
  BY DEF Powers14
<1>5. \A k : k \in Gf!Up(x, n) <=> k \in 0 .. 14 /\ k - n \in x
  BY DEF Gf!Up, Gf!Bytes
<1>6. QED
  BY <1>3, <1>4, <1>5

\* Reduction and the doubling of a byte.
LEMMA CutUp ==
  ASSUME NEW t \in 8 .. 13, NEW r \in SUBSET (0 .. 14)
  PROVE  Cut(Gf!Up(r, 1), t + 1) = Gf!Up(Cut(r, t), 1)
<1>1. t + 1 \in Gf!Up(r, 1) <=> t \in r
  BY DEF Gf!Up
<1>2. Gf!Up(Gf!Modulus, (t + 1) - 8) = Gf!Up(Gf!Up(Gf!Modulus, t - 8), 1)
  <2>1. t - 8 \in Nat /\ (t + 1) - 8 \in Nat
    OBVIOUS
  <2>2. \A p : Gf!Up(p, 1) = {e + 1 : e \in p}
    BY DEF Gf!Up
  <2> DEFINE p == Gf!Up(Gf!Modulus, t - 8)
             q == Gf!Up(Gf!Modulus, (t + 1) - 8)
  <2>3. /\ p = {8 + (t - 8), 4 + (t - 8), 3 + (t - 8), 1 + (t - 8), t - 8}
        /\ q = {8 + ((t + 1) - 8), 4 + ((t + 1) - 8), 3 + ((t + 1) - 8), 1 + ((t + 1) - 8), (t + 1) - 8}
    BY <2>1, UpModulus
  <2>4. \A e : e \in p <=> e \in {t, t - 4, t - 5, t - 7, t - 8}
    <3> HIDE DEF p, q
    <3>1. QED
      BY <2>3
  <2>5. \A e : e \in q <=> e \in {t + 1, t - 3, t - 4, t - 6, t - 7}
    <3> HIDE DEF p, q
    <3>1. QED
      BY <2>3
  <2>6. QED
    <3> HIDE DEF p, q
    <3>1. q = {e + 1 : e \in p}
      BY <2>4, <2>5
    <3>2. QED
      BY <2>2, <3>1 DEF p, q
<1>3. \A p, q \in SUBSET Int : Gf!Up(Gf!Xor(p, q), 1) = Gf!Xor(Gf!Up(p, 1), Gf!Up(q, 1))
  BY DEF Gf!Up, Gf!Xor
<1>4. Gf!Up(Gf!Modulus, t - 8) \in SUBSET Int /\ r \in SUBSET Int
  BY DEF Gf!Up, Gf!Modulus
<1>5. QED
  BY <1>1, <1>2, <1>3, <1>4 DEF Cut

LEMMA LastCut ==
  ASSUME NEW x \in Gf!Bytes
  PROVE  Cut(Gf!Up(x, 1), 8) = Gf!ByteTimes2(x)
<1>1. Gf!Byte(27) = {4, 3, 1, 0}
  BY ByteBits
<1>2. Gf!Up(Gf!Modulus, 8 - 8) = {8, 4, 3, 1, 0}
  BY DEF Gf!Up, Gf!Modulus
<1>3. 8 \in Gf!Up(x, 1) <=> 7 \in x
  BY DEF Gf!Up, Gf!Bytes
<1>4. Gf!Low(Gf!Up(x, 1), 8) = Gf!Up(x, 1) \ {8}
  BY DEF Gf!Up, Gf!Low, Gf!Bytes
<1>5. QED
  BY <1>1, <1>2, <1>3, <1>4 DEF Cut, Gf!ByteTimes2, Gf!Xor

\* A higher power of x doubles the product once more.
LEMMA ProductDoubles ==
  ASSUME NEW n \in 0 .. 6, NEW x \in Gf!Bytes
  PROVE  Gf!Product({n + 1}, x) = Gf!ByteTimes2(Gf!Product({n}, x))
<1> DEFINE r == Gf!Up(x, n)
           c1 == Cut(r, 13)
           c2 == Cut(c1, 12)
           c3 == Cut(c2, 11)
           c4 == Cut(c3, 10)
           c5 == Cut(c4, 9)
           c6 == Cut(c5, 8)
<1>1. n + 1 \in 0 .. 7 /\ {n} \in Gf!Bytes /\ {n + 1} \in Gf!Bytes
  BY DEF Gf!Bytes
<1>2. Gf!Up(x, n + 1) = Gf!Up(r, 1)
  <2>1. x \in SUBSET Int /\ n \in Int /\ n + 1 \in Int /\ 1 \in Int
    BY DEF Gf!Bytes
  <2>2. r \in SUBSET Int /\ \A e \in Int : e \in r <=> e - n \in x
    BY <2>1, UpIs
  <2> HIDE DEF r
  <2>3. Gf!Up(r, 1) \in SUBSET Int /\ \A e \in Int : e \in Gf!Up(r, 1) <=> (e - 1) - n \in x
    BY <2>1, <2>2, UpIs
  <2>4. Gf!Up(x, n + 1) \in SUBSET Int /\ \A e \in Int : e \in Gf!Up(x, n + 1) <=> e - (n + 1) \in x
    BY <2>1, UpIs
  <2>5. \A e \in Int : (e - 1) - n = e - (n + 1)
    OBVIOUS
  <2>6. QED
    BY <2>3, <2>4, <2>5
<1>3. r \in SUBSET (0 .. 13)
  BY DEF Gf!Up, Gf!Bytes
<1>4. Cut(r, 14) = r
  BY <1>3 DEF Cut
<1>5. Gf!Product({n}, x) = c6
  <2>1. Gf!Product({n}, x) = Reduced(r)
    BY <1>1, ProductIs, PowersOne
  <2>2. QED
    BY <1>4, <2>1 DEF Reduced
<1>6. Gf!Product({n + 1}, x) = Reduced(Gf!Up(r, 1))
  BY <1>1, <1>2, ProductIs, PowersOne
<1> HIDE DEF r
<1>7. c1 \in SUBSET (0 .. 12)
  BY <1>3, CutTypes
<1>8. c2 \in SUBSET (0 .. 11)
  <2> HIDE DEF c1
  <2>1. QED
    BY <1>7, CutTypes
<1>9. c3 \in SUBSET (0 .. 10)
  <2> HIDE DEF c2
  <2>1. QED
    BY <1>8, CutTypes
<1>10. c4 \in SUBSET (0 .. 9)
  <2> HIDE DEF c3
  <2>1. QED
    BY <1>9, CutTypes
<1>11. c5 \in SUBSET (0 .. 8)
  <2> HIDE DEF c4
  <2>1. QED
    BY <1>10, CutTypes
<1>12. c6 \in Gf!Bytes
  <2> HIDE DEF c5
  <2>1. QED
    BY <1>11, CutTypes DEF Gf!Bytes
<1>13. Cut(Gf!Up(r, 1), 14) = Gf!Up(c1, 1)
  BY <1>3, CutUp
<1>14. Cut(Gf!Up(c1, 1), 13) = Gf!Up(c2, 1)
  <2> HIDE DEF c1
  <2>1. QED
    BY <1>7, CutUp
<1>15. Cut(Gf!Up(c2, 1), 12) = Gf!Up(c3, 1)
  <2> HIDE DEF c2
  <2>1. QED
    BY <1>8, CutUp
<1>16. Cut(Gf!Up(c3, 1), 11) = Gf!Up(c4, 1)
  <2> HIDE DEF c3
  <2>1. QED
    BY <1>9, CutUp
<1>17. Cut(Gf!Up(c4, 1), 10) = Gf!Up(c5, 1)
  <2> HIDE DEF c4
  <2>1. QED
    BY <1>10, CutUp
<1>18. Cut(Gf!Up(c5, 1), 9) = Gf!Up(c6, 1)
  <2> HIDE DEF c5
  <2>1. QED
    BY <1>11, CutUp
<1>19. Reduced(Gf!Up(r, 1)) = Cut(Gf!Up(c6, 1), 8)
  <2> HIDE DEF c1, c2, c3, c4, c5, c6
  <2>1. QED
    BY <1>13, <1>14, <1>15, <1>16, <1>17, <1>18 DEF Reduced
<1>20. QED
  <2> HIDE DEF c6
  <2>1. QED
    BY <1>5, <1>6, <1>12, <1>19, LastCut

LEMMA ProductByOne == \A x \in Gf!Bytes : Gf!Product({0}, x) = x
<1> SUFFICES ASSUME NEW x \in Gf!Bytes PROVE Gf!Product({0}, x) = x
  OBVIOUS
<1>1. Gf!Product({0}, x) = Reduced(Gf!Up(x, 0))
  <2>1. {0} \in Gf!Bytes /\ 0 \in 0 .. 7
    BY DEF Gf!Bytes
  <2>2. QED
    BY <2>1, ProductIs, PowersOne
<1>2. Gf!Up(x, 0) = x
  <2>1. x \in SUBSET Int
    BY DEF Gf!Bytes
  <2>2. Gf!Up(x, 0) \in SUBSET Int /\ \A e \in Int : e \in Gf!Up(x, 0) <=> e - 0 \in x
    BY <2>1, UpIs
  <2>3. \A e \in Int : e - 0 = e
    OBVIOUS
  <2>4. QED
    BY <2>1, <2>2, <2>3
<1>3. \A t \in 8 .. 14 : Cut(x, t) = x
  BY DEF Cut, Gf!Bytes
<1>4. Reduced(x) = x
  BY <1>3 DEF Reduced
<1>5. QED
  BY <1>1, <1>2, <1>4

LEMMA DoubleType == \A x \in Gf!Bytes : Gf!ByteTimes2(x) \in Gf!Bytes
<1> SUFFICES ASSUME NEW x \in Gf!Bytes PROVE Gf!ByteTimes2(x) \in Gf!Bytes
  OBVIOUS
<1>1. Gf!Low(Gf!Up(x, 1), 8) \in SUBSET (0 .. 7)
  BY DEF Gf!Low, Gf!Up, Gf!Bytes
<1>2. Gf!Byte(27) \in SUBSET (0 .. 7)
  BY ByteIs
<1>3. QED
  BY <1>1, <1>2 DEF Gf!ByteTimes2, Gf!Xor, Gf!Bytes

\* The products with the constants of MixColumns() and InvMixColumns().
Times2(x) == Gf!ByteTimes2(x)

LEMMA Products ==
  ASSUME NEW x \in Gf!Bytes
  PROVE  /\ Gf!Product(Gf!Byte(1), x) = x
         /\ Gf!Product(Gf!Byte(2), x) = Times2(x)
         /\ Gf!Product(Gf!Byte(3), x) = Gf!Xor(x, Times2(x))
         /\ Gf!Product(Gf!Byte(9), x) = Gf!Xor(x, Times2(Times2(Times2(x))))
         /\ Gf!Product(Gf!Byte(11), x) = Gf!Xor(Gf!Xor(x, Times2(x)), Times2(Times2(Times2(x))))
         /\ Gf!Product(Gf!Byte(13), x) = Gf!Xor(Gf!Xor(x, Times2(Times2(x))), Times2(Times2(Times2(x))))
         /\ Gf!Product(Gf!Byte(14), x) =
              Gf!Xor(Gf!Xor(Times2(x), Times2(Times2(x))), Times2(Times2(Times2(x))))
<1>1. Gf!Product({0}, x) = x
  BY ProductByOne
<1>2. Gf!Product({1}, x) = Times2(x)
  <2>1. 0 \in 0 .. 6 /\ 0 + 1 = 1
    OBVIOUS
  <2>2. QED
    BY <1>1, <2>1, ProductDoubles DEF Times2
<1>3. Gf!Product({2}, x) = Times2(Times2(x))
  <2>1. 1 \in 0 .. 6 /\ 1 + 1 = 2
    OBVIOUS
  <2>2. QED
    BY <1>2, <2>1, ProductDoubles DEF Times2
<1>4. Gf!Product({3}, x) = Times2(Times2(Times2(x)))
  <2>1. 2 \in 0 .. 6 /\ 2 + 1 = 3
    OBVIOUS
  <2>2. QED
    BY <1>3, <2>1, ProductDoubles DEF Times2
<1> DEFINE e0 == {0}  e1 == {1}  e2 == {2}  e3 == {3}
           e01 == {0, 1}  e02 == {0, 2}  e12 == {1, 2}  e03 == {0, 3}
           e013 == {0, 1, 3}  e023 == {0, 2, 3}  e123 == {1, 2, 3}
<1>5. /\ e0 \in Gf!Bytes /\ e1 \in Gf!Bytes /\ e2 \in Gf!Bytes /\ e3 \in Gf!Bytes
      /\ e01 \in Gf!Bytes /\ e02 \in Gf!Bytes /\ e12 \in Gf!Bytes
  BY DEF Gf!Bytes
<1>6. /\ e01 = Gf!Xor(e0, e1) /\ e02 = Gf!Xor(e0, e2) /\ e12 = Gf!Xor(e1, e2)
      /\ e03 = Gf!Xor(e0, e3) /\ e013 = Gf!Xor(e01, e3)
      /\ e023 = Gf!Xor(e02, e3) /\ e123 = Gf!Xor(e12, e3)
  BY DEF Gf!Xor
<1>7. /\ Gf!Product(e01, x) = Gf!Xor(Gf!Product(e0, x), Gf!Product(e1, x))
      /\ Gf!Product(e02, x) = Gf!Xor(Gf!Product(e0, x), Gf!Product(e2, x))
      /\ Gf!Product(e12, x) = Gf!Xor(Gf!Product(e1, x), Gf!Product(e2, x))
      /\ Gf!Product(e03, x) = Gf!Xor(Gf!Product(e0, x), Gf!Product(e3, x))
      /\ Gf!Product(e013, x) = Gf!Xor(Gf!Product(e01, x), Gf!Product(e3, x))
      /\ Gf!Product(e023, x) = Gf!Xor(Gf!Product(e02, x), Gf!Product(e3, x))
      /\ Gf!Product(e123, x) = Gf!Xor(Gf!Product(e12, x), Gf!Product(e3, x))
  <2> HIDE DEF e0, e1, e2, e3, e01, e02, e12, e03, e013, e023, e123
  <2>1. QED
    BY <1>5, <1>6, ProductAdds
<1>8. /\ Gf!Byte(1) = e0 /\ Gf!Byte(2) = e1 /\ Gf!Byte(3) = e01 /\ Gf!Byte(9) = e03
      /\ Gf!Byte(11) = e013 /\ Gf!Byte(13) = e023 /\ Gf!Byte(14) = e123
  BY ByteBits
<1>9. /\ Gf!Product(e0, x) = x /\ Gf!Product(e1, x) = Times2(x)
      /\ Gf!Product(e2, x) = Times2(Times2(x)) /\ Gf!Product(e3, x) = Times2(Times2(Times2(x)))
  BY <1>1, <1>2, <1>3, <1>4
<1>10. QED
  <2> HIDE DEF e0, e1, e2, e3, e01, e02, e12, e03, e013, e023, e123
  <2>1. QED
    BY <1>7, <1>8, <1>9

\* The doubling of four bytes at once.
LEMMA WordDoubleType == \A x \in SUBSET (0 .. 31) : Gf!WordTimes2(x) \in SUBSET (0 .. 31)
<1> SUFFICES ASSUME NEW x \in SUBSET (0 .. 31), NEW e \in Gf!WordTimes2(x) PROVE e \in 0 .. 31
  OBVIOUS
<1>1. CASE \E j \in x : j % 8 # 7 /\ e = j + 1
  BY <1>1
<1>2. CASE \E j \in x : j % 8 = 7 /\ e \in Gf!Up(Gf!Byte(27), j - 7)
  <2>1. PICK j \in x : j % 8 = 7 /\ e \in Gf!Up(Gf!Byte(27), j - 7)
    BY <1>2
  <2>2. e \in {4 + (j - 7), 3 + (j - 7), 1 + (j - 7), 0 + (j - 7)}
    BY <2>1, ByteBits DEF Gf!Up
  <2>3. QED
    BY <2>1, <2>2
<1>3. QED
  BY <1>1, <1>2 DEF Gf!WordTimes2, Gf!Xor

Twice(x, word) == IF word THEN Gf!WordTimes2(x) ELSE Gf!ByteTimes2(x)

LEMMA TwiceType ==
  ASSUME NEW x \in SUBSET (0 .. 31), NEW word
  PROVE  Twice(x, word) \in SUBSET (0 .. 31)
<1>1. CASE word
  BY <1>1, WordDoubleType DEF Twice
<1>2. CASE ~word
  <2>1. Gf!Low(Gf!Up(x, 1), 8) \in SUBSET (0 .. 31)
    BY DEF Gf!Low, Gf!Up
  <2>2. Gf!Byte(27) \in SUBSET (0 .. 31)
    BY ByteBits
  <2>3. Gf!ByteTimes2(x) \in SUBSET (0 .. 31)
    BY <2>1, <2>2 DEF Gf!ByteTimes2, Gf!Xor
  <2>4. QED
    BY <1>2, <2>3 DEF Twice
<1>3. QED
  BY <1>1, <1>2

\* A turn of the loop over the bits of the factor.
AddIf(b, k, r, x) == IF k \in b THEN Gf!Xor(r, x) ELSE r

LEMMA TimesIs ==
  ASSUME NEW x \in SUBSET (0 .. 31), NEW b, NEW word, \A k \in 4 .. 7 : k \notin b
  PROVE  Gf!Times(x, b, word) =
           AddIf(b, 3, AddIf(b, 2, AddIf(b, 1, AddIf(b, 0, {}, x), Twice(x, word)),
                             Twice(Twice(x, word), word)),
                 Twice(Twice(Twice(x, word), word), word))
<1> DEFINE W == SUBSET (0 .. 31)
           S == [result : W, xx : W]
           start == [result |-> {}, xx |-> x]
           On(k, t) == [result |-> IF k - 1 \in b THEN Gf!Xor(t.result, t.xx) ELSE t.result,
                        xx |-> IF word THEN Gf!WordTimes2(t.xx) ELSE Gf!ByteTimes2(t.xx)]
           Turn == [p \in (1 .. 8) \X S |-> On(p[1], p[2])]
           Body(g) == [k \in 0 .. 8 |-> IF k = 0 THEN start ELSE On(k, g[k - 1])]
           g0 == CHOOSE g : g = Body(g)
<1>1. Gf!Times(x, b, word) = g0[8].result
  BY DEF Gf!Times
<1>2. start \in S
  OBVIOUS
<1>3. ASSUME NEW k \in (0 + 1) .. 8, NEW t \in S PROVE Turn[<<k, t>>] = On(k, t) /\ On(k, t) \in S
  <2>1. Twice(t.xx, word) \in W /\ Gf!Xor(t.result, t.xx) \in W
    <3>1. t.xx \in SUBSET (0 .. 31) /\ t.result \in SUBSET (0 .. 31)
      OBVIOUS
    <3>2. Gf!Xor(t.result, t.xx) \in SUBSET (0 .. 31)
      BY <3>1 DEF Gf!Xor
    <3>3. QED
      BY <3>1, <3>2, TwiceType
  <2>2. On(k, t) \in S
    BY <2>1 DEF Twice
  <2>3. Turn[<<k, t>>] = On(k, t)
    OBVIOUS
  <2>4. QED
    BY <2>2, <2>3
<1>4. \E g : g = Body(g)
  <2>1. PICK g : MadeBy(g, 0, 8, S, start, Turn)
    <3> HIDE DEF Turn, S, start, On
    <3>1. StaysIn(Turn, 0, 8, S)
      BY <1>3 DEF StaysIn
    <3>2. QED
      BY <1>2, <3>1, Recursion
  <2>2. ASSUME NEW k \in 0 .. 8 PROVE g[k] = Body(g)[k]
    <3> HIDE DEF Turn, S, start, On
    <3>1. CASE k = 0
      BY <2>1, <3>1 DEF MadeBy
    <3>2. CASE k # 0
      <4>1. k \in (0 + 1) .. 8 /\ g[k - 1] \in S
        BY <2>1, <3>2 DEF MadeBy
      <4>2. g[k] = Turn[<<k, g[k - 1]>>]
        BY <2>1, <4>1 DEF MadeBy
      <4>3. QED
        BY <1>3, <3>2, <4>1, <4>2
    <3>3. QED
      BY <3>1, <3>2
  <2>3. g = Body(g)
    <3> HIDE DEF Turn, S, start, On
    <3>1. QED
      BY <2>1, <2>2 DEF MadeBy
  <2>4. QED
    BY <2>3
<1>5. g0 = Body(g0)
  <2> HIDE DEF Body
  <2>1. QED
    BY <1>4
<1>6. g0[0] = start /\ \A k \in 1 .. 8 : g0[k] = On(k, g0[k - 1])
  <2> HIDE DEF g0, start, On
  <2>1. QED
    BY <1>5
<1> HIDE DEF g0
<1>7. g0[0].result = {} /\ g0[0].xx = x
  BY <1>6
<1>8. \A k \in 0 .. 7 : /\ g0[k + 1].result = AddIf(b, k, g0[k].result, g0[k].xx)
                        /\ g0[k + 1].xx = Twice(g0[k].xx, word)
  <2> SUFFICES ASSUME NEW k \in 0 .. 7
               PROVE  /\ g0[k + 1].result = AddIf(b, k, g0[k].result, g0[k].xx)
                      /\ g0[k + 1].xx = Twice(g0[k].xx, word)
    OBVIOUS
  <2>1. k + 1 \in 1 .. 8 /\ (k + 1) - 1 = k
    OBVIOUS
  <2>2. g0[k + 1] = On(k + 1, g0[k])
    <3> HIDE DEF On
    <3>1. QED
      BY <1>6, <2>1
  <2>3. QED
    BY <2>1, <2>2 DEF AddIf, Twice
<1> HIDE DEF start, On
<1>9. /\ g0[1].result = AddIf(b, 0, {}, x) /\ g0[1].xx = Twice(x, word)
      /\ g0[2].result = AddIf(b, 1, g0[1].result, g0[1].xx) /\ g0[2].xx = Twice(g0[1].xx, word)
      /\ g0[3].result = AddIf(b, 2, g0[2].result, g0[2].xx) /\ g0[3].xx = Twice(g0[2].xx, word)
      /\ g0[4].result = AddIf(b, 3, g0[3].result, g0[3].xx)
  <2>1. \A k \in 0 .. 3 : k \in 0 .. 7
    OBVIOUS
  <2>2. 0 + 1 = 1 /\ 1 + 1 = 2 /\ 2 + 1 = 3 /\ 3 + 1 = 4
    OBVIOUS
  <2>3. QED
    BY <1>7, <1>8, <2>1, <2>2
<1>10. \A k \in 4 .. 7 : g0[k + 1].result = g0[k].result
  BY <1>8 DEF AddIf
<1>11. g0[8].result = g0[4].result
  <2>1. g0[5].result = g0[4].result /\ g0[6].result = g0[5].result
        /\ g0[7].result = g0[6].result /\ g0[8].result = g0[7].result
    BY <1>10
  <2>2. QED
    BY <2>1
<1>12. QED
  BY <1>1, <1>9, <1>11

\* The four multiplications of InvMixColumns().
LEMMA TimesConstants ==
  ASSUME NEW x \in SUBSET (0 .. 31), NEW word
  PROVE  /\ Gf!Times(x, Gf!Byte(9), word) = Gf!Xor(x, Twice(Twice(Twice(x, word), word), word))
         /\ Gf!Times(x, Gf!Byte(11), word) =
              Gf!Xor(Gf!Xor(x, Twice(x, word)), Twice(Twice(Twice(x, word), word), word))
         /\ Gf!Times(x, Gf!Byte(13), word) =
              Gf!Xor(Gf!Xor(x, Twice(Twice(x, word), word)), Twice(Twice(Twice(x, word), word), word))
         /\ Gf!Times(x, Gf!Byte(14), word) =
              Gf!Xor(Gf!Xor(Twice(x, word), Twice(Twice(x, word), word)),
                     Twice(Twice(Twice(x, word), word), word))
<1>1. /\ Gf!Byte(9) = {0, 3} /\ Gf!Byte(11) = {0, 1, 3} /\ Gf!Byte(13) = {0, 2, 3}
      /\ Gf!Byte(14) = {1, 2, 3}
  BY ByteBits
<1>2. \A b : b \in {{0, 3}, {0, 1, 3}, {0, 2, 3}, {1, 2, 3}} => \A k \in 4 .. 7 : k \notin b
  OBVIOUS
<1>3. \A y : Gf!Xor({}, y) = y
  BY XorLaws
<1>4. /\ \A r, y : AddIf({0, 3}, 0, r, y) = Gf!Xor(r, y) /\ AddIf({0, 3}, 1, r, y) = r
      /\ \A r, y : AddIf({0, 3}, 2, r, y) = r /\ AddIf({0, 3}, 3, r, y) = Gf!Xor(r, y)
      /\ \A r, y : AddIf({0, 1, 3}, 0, r, y) = Gf!Xor(r, y) /\ AddIf({0, 1, 3}, 1, r, y) = Gf!Xor(r, y)
      /\ \A r, y : AddIf({0, 1, 3}, 2, r, y) = r /\ AddIf({0, 1, 3}, 3, r, y) = Gf!Xor(r, y)
      /\ \A r, y : AddIf({0, 2, 3}, 0, r, y) = Gf!Xor(r, y) /\ AddIf({0, 2, 3}, 1, r, y) = r
      /\ \A r, y : AddIf({0, 2, 3}, 2, r, y) = Gf!Xor(r, y) /\ AddIf({0, 2, 3}, 3, r, y) = Gf!Xor(r, y)
      /\ \A r, y : AddIf({1, 2, 3}, 0, r, y) = r /\ AddIf({1, 2, 3}, 1, r, y) = Gf!Xor(r, y)
      /\ \A r, y : AddIf({1, 2, 3}, 2, r, y) = Gf!Xor(r, y) /\ AddIf({1, 2, 3}, 3, r, y) = Gf!Xor(r, y)
  BY DEF AddIf
<1> DEFINE b9 == {0, 3}  b11 == {0, 1, 3}  b13 == {0, 2, 3}  b14 == {1, 2, 3}
<1>5. \A b \in {b9, b11, b13, b14} :
        Gf!Times(x, b, word) =
           AddIf(b, 3, AddIf(b, 2, AddIf(b, 1, AddIf(b, 0, {}, x), Twice(x, word)),
                             Twice(Twice(x, word), word)),
                 Twice(Twice(Twice(x, word), word), word))
  <2> SUFFICES ASSUME NEW b \in {b9, b11, b13, b14}
               PROVE  Gf!Times(x, b, word) =
           AddIf(b, 3, AddIf(b, 2, AddIf(b, 1, AddIf(b, 0, {}, x), Twice(x, word)),
                             Twice(Twice(x, word), word)),
                 Twice(Twice(Twice(x, word), word), word))
    OBVIOUS
  <2>1. \A k \in 4 .. 7 : k \notin b
    BY <1>2
  <2>2. QED
    BY <2>1, TimesIs
<1>6. QED
  <2>1. /\ Gf!Byte(9) = b9 /\ Gf!Byte(11) = b11 /\ Gf!Byte(13) = b13 /\ Gf!Byte(14) = b14
    BY <1>1
  <2>2. /\ \A r, y : AddIf(b9, 0, r, y) = Gf!Xor(r, y) /\ AddIf(b9, 1, r, y) = r
        /\ \A r, y : AddIf(b9, 2, r, y) = r /\ AddIf(b9, 3, r, y) = Gf!Xor(r, y)
        /\ \A r, y : AddIf(b11, 0, r, y) = Gf!Xor(r, y) /\ AddIf(b11, 1, r, y) = Gf!Xor(r, y)
        /\ \A r, y : AddIf(b11, 2, r, y) = r /\ AddIf(b11, 3, r, y) = Gf!Xor(r, y)
        /\ \A r, y : AddIf(b13, 0, r, y) = Gf!Xor(r, y) /\ AddIf(b13, 1, r, y) = r
        /\ \A r, y : AddIf(b13, 2, r, y) = Gf!Xor(r, y) /\ AddIf(b13, 3, r, y) = Gf!Xor(r, y)
        /\ \A r, y : AddIf(b14, 0, r, y) = r /\ AddIf(b14, 1, r, y) = Gf!Xor(r, y)
        /\ \A r, y : AddIf(b14, 2, r, y) = Gf!Xor(r, y) /\ AddIf(b14, 3, r, y) = Gf!Xor(r, y)
    BY <1>4
  <2> HIDE DEF b9, b11, b13, b14
  <2>3. QED
    BY <1>3, <1>5, <2>1, <2>2

\* Round constants: each doubles the one before it.
LEMMA ProductTurned == \A a \in Gf!Bytes : Gf!Product(a, {1}) = Gf!ByteTimes2(a)
<1> SUFFICES ASSUME NEW a \in Gf!Bytes PROVE Gf!Product(a, {1}) = Gf!ByteTimes2(a)
  OBVIOUS
<1>1. {1} \in Gf!Bytes
  BY DEF Gf!Bytes
<1>2. Powers14(a, {1}) = Powers14({1}, a)
  <2>1. ASSUME NEW k \in 0 .. 14
        PROVE  Cardinality({j \in a : k - j \in {1}}) = Cardinality({j \in {1} : k - j \in a})
    <3> DEFINE p == {j \in a : k - j \in {1}}
               q == {j \in {1} : k - j \in a}
    <3>1. CASE k - 1 \in a
      <4>0. k \in Int /\ k - (k - 1) = 1 /\ \A j \in a : j \in Int /\ (k - j = 1 => j = k - 1)
        BY DEF Gf!Bytes
      <4>1. p = {k - 1}
        <5>1. \A j : j \in p <=> j \in a /\ k - j = 1
          OBVIOUS
        <5>2. \A j : j \in p <=> j = k - 1
          BY <3>1, <4>0, <5>1
        <5>3. QED
          BY <5>2
      <4>1a. q = {1}
        BY <3>1
      <4>2. Cardinality({k - 1}) = 1 /\ Cardinality({1}) = 1
        BY FS_Singleton
      <4> HIDE DEF p, q
      <4>3. Cardinality(p) = Cardinality(q)
        BY <4>1, <4>1a, <4>2
      <4>4. QED
        BY <4>3 DEF p, q
    <3>2. CASE k - 1 \notin a
      <4>0. k \in Int /\ \A j \in a : j \in Int /\ (k - j = 1 => j = k - 1)
        BY DEF Gf!Bytes
      <4>1. p = {} /\ q = {}
        <5>1. \A j \in p : j \in a /\ k - j = 1
          OBVIOUS
        <5>2. p = {}
          BY <3>2, <4>0, <5>1
        <5>3. q = {}
          BY <3>2
        <5>4. QED
          BY <5>2, <5>3
      <4> HIDE DEF p, q
      <4>2. Cardinality(p) = Cardinality(q)
        BY <4>1
      <4>3. QED
        BY <4>2 DEF p, q
    <3>3. QED
      BY <3>1, <3>2
  <2>2. QED
    BY <2>1, SameCardinality DEF Powers14
<1>3. Gf!Product({1}, a) = Gf!ByteTimes2(a)
  BY Products, ByteBits DEF Times2
<1>4. QED
  BY <1>1, <1>2, <1>3, ProductIs

LEMMA Doublings ==
  /\ Gf!ByteTimes2({0}) = {1} /\ Gf!ByteTimes2({1}) = {2} /\ Gf!ByteTimes2({2}) = {3}
  /\ Gf!ByteTimes2({3}) = {4} /\ Gf!ByteTimes2({4}) = {5} /\ Gf!ByteTimes2({5}) = {6}
  /\ Gf!ByteTimes2({6}) = {7} /\ Gf!ByteTimes2({7}) = {4, 3, 1, 0}
  /\ Gf!ByteTimes2({4, 3, 1, 0}) = {5, 4, 2, 1}
<1>1. \A x : Gf!ByteTimes2(x) = Gf!Xor(Gf!Low(Gf!Up(x, 1), 8), IF 7 \in x THEN {4, 3, 1, 0} ELSE {})
  BY ByteBits DEF Gf!ByteTimes2
<1>2. \A k \in 0 .. 6 : Gf!Low(Gf!Up({k}, 1), 8) = {k + 1}
  BY DEF Gf!Low, Gf!Up
<1>3. \A k \in 0 .. 6 : Gf!ByteTimes2({k}) = {k + 1}
  <2> SUFFICES ASSUME NEW k \in 0 .. 6 PROVE Gf!ByteTimes2({k}) = {k + 1}
    OBVIOUS
  <2>0. 7 \notin {k}
    OBVIOUS
  <2>1. 7 \notin {k} /\ Gf!Low(Gf!Up({k}, 1), 8) = {k + 1}
    BY <1>2, <2>0
  <2>2. Gf!ByteTimes2({k}) = Gf!Xor({k + 1}, {})
    BY <1>1, <2>1
  <2>3. QED
    BY <2>2, XorLaws
<1>4. Gf!Low(Gf!Up({7}, 1), 8) = {}
  BY DEF Gf!Low, Gf!Up
<1>5. Gf!ByteTimes2({7}) = {4, 3, 1, 0}
  BY <1>1, <1>4, XorLaws
<1>6. Gf!Low(Gf!Up({4, 3, 1, 0}, 1), 8) = {5, 4, 2, 1}
  BY DEF Gf!Low, Gf!Up
<1>7. Gf!ByteTimes2({4, 3, 1, 0}) = {5, 4, 2, 1}
  BY <1>1, <1>6, XorLaws
<1>8. QED
  BY <1>3, <1>5, <1>7

LEMMA ProductType == \A a, b \in Gf!Bytes : Gf!Product(a, b) \in Gf!Bytes
<1>1. \A a, b : Powers14(a, b) \in SUBSET (0 .. 14)
  BY DEF Powers14
<1>2. QED
  BY <1>1, ProductIs, ReducedType

-----------------------------------------------------------------------------
(* The cipher and its measure *)

CONSTANT Inputs   \* records of a key and a block, whatever they are

VARIABLES
  aes_key, aes_block, aes_output, aes_state, aes_stored, aes_ctx_key, aes_round_key,
  aes_round, aes_phase

Code8 ==
  INSTANCE Aes8 WITH
    Vectors <- Inputs, key <- aes_key, block <- aes_block, output <- aes_output,
    stored <- aes_stored, ctx_key <- aes_ctx_key, round_key <- aes_round_key,
    round <- aes_round, phase <- aes_phase

Aes8Is ==
  INSTANCE Aes WITH
    Vectors <- Inputs, key <- aes_key, block <- aes_block, matrix <- Code8!Matrix,
    round <- aes_round, phase <- aes_phase

\* The arithmetic is the same for all.
LEMMA SameField ==
  /\ \A a, b : Code8!Xor(a, b) = Gf!Xor(a, b) /\ Aes8Is!Xor(a, b) = Gf!Xor(a, b)
  /\ \A n : Code8!Byte(n) = Gf!Byte(n) /\ Aes8Is!Byte(n) = Gf!Byte(n)
  /\ \A a, b : Aes8Is!Product(a, b) = Gf!Product(a, b)
  /\ \A x : Code8!ByteTimes2(x) = Gf!ByteTimes2(x)
  /\ \A x, b : Code8!ByteTimesByte(x, b) = Gf!Times(x, b, FALSE)
  /\ Code8!RCON = Gf!RCON
<1>1. \A a, b : Code8!Xor(a, b) = Gf!Xor(a, b) /\ Aes8Is!Xor(a, b) = Gf!Xor(a, b)
  BY DEF Code8!Xor, Aes8Is!Xor, Gf!Xor
<1>2. \A n : Code8!Byte(n) = Gf!Byte(n) /\ Aes8Is!Byte(n) = Gf!Byte(n)
  BY DEF Code8!Byte, Aes8Is!Byte, Gf!Byte, Code8!Bit, Aes8Is!Bit, Gf!Bit
<1>3. \A a, b : Aes8Is!Product(a, b) = Gf!Product(a, b)
  BY Zenon DEF Aes8Is!Product, Gf!Product, Aes8Is!Xor, Gf!Xor, Aes8Is!Up, Gf!Up, Aes8Is!Modulus, Gf!Modulus,
               Aes8Is!Cardinality, Gf!Cardinality
<1>4. \A x : Code8!ByteTimes2(x) = Gf!ByteTimes2(x)
  BY Zenon DEF Code8!ByteTimes2, Gf!ByteTimes2, Code8!Xor, Gf!Xor, Code8!Up, Gf!Up, Code8!Low, Gf!Low,
               Code8!Byte, Gf!Byte, Code8!Bit, Gf!Bit
<1>5. \A x, b : Code8!ByteTimesByte(x, b) = Gf!Times(x, b, FALSE)
  BY Zenon DEF Code8!ByteTimesByte, Code8!Times, Gf!Times, Code8!WordTimes2, Gf!WordTimes2,
               Code8!ByteTimes2, Gf!ByteTimes2, Code8!Xor, Gf!Xor, Code8!Up, Gf!Up, Code8!Low, Gf!Low,
               Code8!Byte, Gf!Byte, Code8!Bit, Gf!Bit
<1>6. Code8!RCON = Gf!RCON
  BY DEF Code8!RCON, Gf!RCON
<1>7. QED
  BY <1>1, <1>2, <1>3, <1>4, <1>5, <1>6

-----------------------------------------------------------------------------
(* The S-box of both *)

LEMMA SameValue == \A x : Code8!Value(x) = Aes8Is!Value(x)
BY Zenon DEF Code8!Value, Aes8Is!Value, Code8!Sets!MapThenSumSet, Aes8Is!Sets!MapThenSumSet,
             Code8!Sets!MapThenFoldSet, Aes8Is!Sets!MapThenFoldSet

LEMMA SameSbox ==
  /\ Code8!Sbox = Aes8Is!Sbox /\ Code8!RSbox = Aes8Is!RSbox
  /\ \A x \in Gf!Bytes : Code8!Sbox[x] \in Gf!Bytes /\ Code8!RSbox[x] \in Gf!Bytes
<1>1. Code8!SBOX = Aes8Is!SBOX /\ Code8!RSBOX = Aes8Is!RSBOX
  BY Zenon DEF Code8!SBOX, Aes8Is!SBOX, Code8!RSBOX, Aes8Is!RSBOX
<1>2. Code8!Bytes = Gf!Bytes /\ Aes8Is!Bytes = Gf!Bytes
  BY Zenon DEF Code8!Bytes, Aes8Is!Bytes, Gf!Bytes
<1>3. \A n : Code8!Byte(n) = Aes8Is!Byte(n) /\ Code8!Byte(n) \in Gf!Bytes
  <2>1. \A n : Code8!Byte(n) = Gf!Byte(n) /\ Aes8Is!Byte(n) = Gf!Byte(n)
    BY SameField
  <2>2. \A n : Gf!Byte(n) \in Gf!Bytes
    BY DEF Gf!Byte, Gf!Bytes
  <2>3. QED
    BY <2>1, <2>2
<1>4. \A x : /\ Code8!SubByteTable(x) = Aes8Is!SubByteTable(x)
             /\ Code8!InvSubByteTable(x) = Aes8Is!InvSubByteTable(x)
  BY <1>1, <1>3, SameValue, Zenon
     DEF Code8!SubByteTable, Aes8Is!SubByteTable, Code8!InvSubByteTable, Aes8Is!InvSubByteTable
<1>5. \A x : Code8!SubByteTable(x) \in Gf!Bytes /\ Code8!InvSubByteTable(x) \in Gf!Bytes
  BY <1>3, Zenon DEF Code8!SubByteTable, Code8!InvSubByteTable
<1>6. Code8!Sbox = Aes8Is!Sbox /\ Code8!RSbox = Aes8Is!RSbox
  BY <1>2, <1>4, Zenon DEF Code8!Sbox, Aes8Is!Sbox, Code8!RSbox, Aes8Is!RSbox
<1>7. \A x \in Gf!Bytes : Code8!Sbox[x] \in Gf!Bytes /\ Code8!RSbox[x] \in Gf!Bytes
  BY <1>2, <1>5, Zenon DEF Code8!Sbox, Code8!RSbox
<1>8. QED
  BY <1>6, <1>7

\* The reference takes the round constants from the field, the code from a table.
LEMMA RconIs ==
  ASSUME NEW n \in 1 .. 10
  PROVE  Aes8Is!Rcon(n) = <<Gf!Byte(Gf!RCON[n]), {}, {}, {}>>
<1> DEFINE S == Gf!Bytes
           On(k, t) == Aes8Is!Product(t, {1})
           Turn == [p \in (2 .. 10) \X S |-> On(p[1], p[2])]
           Body(g) == [k \in 1 .. 10 |-> IF k = 1 THEN {0} ELSE On(k, g[k - 1])]
           g0 == CHOOSE g : g = Body(g)
<1>1. Aes8Is!Rcon(n) = <<g0[n], {}, {}, {}>>
  BY DEF Aes8Is!Rcon
<1>2. {0} \in S /\ {1} \in S
  BY DEF Gf!Bytes
<1>3. \A t \in S : Aes8Is!Product(t, {1}) = Gf!ByteTimes2(t)
  BY ProductTurned, SameField
<1>4. ASSUME NEW k \in (1 + 1) .. 10, NEW t \in S PROVE Turn[<<k, t>>] = On(k, t) /\ On(k, t) \in S
  <2>1. On(k, t) \in S
    BY <1>3, DoubleType
  <2>2. Turn[<<k, t>>] = On(k, t)
    OBVIOUS
  <2>3. QED
    BY <2>1, <2>2
<1>5. \E g : g = Body(g)
  <2>1. PICK g : MadeBy(g, 1, 10, S, {0}, Turn)
    <3> DEFINE base == {0}
    <3> HIDE DEF Turn, S, On, base
    <3>1. StaysIn(Turn, 1, 10, S)
      BY <1>4 DEF StaysIn
    <3>1a. base \in S
      BY <1>2 DEF base
    <3>2. \E g : MadeBy(g, 1, 10, S, base, Turn)
      BY <3>1, <3>1a, Recursion
    <3>3. QED
      BY <3>2 DEF base
  <2>2. ASSUME NEW k \in 1 .. 10 PROVE g[k] = Body(g)[k]
    <3> HIDE DEF Turn, S, On
    <3>1. CASE k = 1
      BY <2>1, <3>1 DEF MadeBy
    <3>2. CASE k # 1
      <4>1. k \in (1 + 1) .. 10 /\ g[k - 1] \in S
        BY <2>1, <3>2 DEF MadeBy
      <4>2. g[k] = Turn[<<k, g[k - 1]>>]
        BY <2>1, <4>1 DEF MadeBy
      <4>3. QED
        BY <1>4, <3>2, <4>1, <4>2
    <3>3. QED
      BY <3>1, <3>2
  <2>3. g = Body(g)
    <3> HIDE DEF Turn, S, On
    <3>1. QED
      BY <2>1, <2>2 DEF MadeBy
  <2>4. QED
    BY <2>3
<1>6. g0 = Body(g0)
  <2> HIDE DEF Body
  <2>1. QED
    BY <1>5
<1>7. g0[1] = {0} /\ \A k \in 2 .. 10 : g0[k] = On(k, g0[k - 1])
  <2> HIDE DEF g0, On
  <2>1. QED
    BY <1>6
<1> HIDE DEF g0
<1>8. \A k \in 2 .. 10 : g0[k - 1] \in S => g0[k] = Gf!ByteTimes2(g0[k - 1])
  BY <1>3, <1>7
<1>9. /\ {0} \in S /\ {1} \in S /\ {2} \in S /\ {3} \in S /\ {4} \in S /\ {5} \in S /\ {6} \in S
      /\ {7} \in S /\ {4, 3, 1, 0} \in S
  BY DEF Gf!Bytes
<1> DEFINE b0 == {0}  b1 == {1}  b2 == {2}  b3 == {3}  b4 == {4}  b5 == {5}  b6 == {6}
           b7 == {7}  b8 == {4, 3, 1, 0}  b9 == {5, 4, 2, 1}
<1>10. /\ g0[1] = b0 /\ g0[2] = b1 /\ g0[3] = b2 /\ g0[4] = b3 /\ g0[5] = b4 /\ g0[6] = b5
       /\ g0[7] = b6 /\ g0[8] = b7 /\ g0[9] = b8 /\ g0[10] = b9
  <2>1. /\ b0 \in S /\ b1 \in S /\ b2 \in S /\ b3 \in S /\ b4 \in S /\ b5 \in S /\ b6 \in S
        /\ b7 \in S /\ b8 \in S
    BY <1>9
  <2>2. /\ Gf!ByteTimes2(b0) = b1 /\ Gf!ByteTimes2(b1) = b2 /\ Gf!ByteTimes2(b2) = b3
        /\ Gf!ByteTimes2(b3) = b4 /\ Gf!ByteTimes2(b4) = b5 /\ Gf!ByteTimes2(b5) = b6
        /\ Gf!ByteTimes2(b6) = b7 /\ Gf!ByteTimes2(b7) = b8 /\ Gf!ByteTimes2(b8) = b9
    BY Doublings
  <2>3. g0[1] = b0
    BY <1>7
  <2>4. /\ g0[1] \in S => g0[2] = Gf!ByteTimes2(g0[1])
        /\ g0[2] \in S => g0[3] = Gf!ByteTimes2(g0[2])
        /\ g0[3] \in S => g0[4] = Gf!ByteTimes2(g0[3])
        /\ g0[4] \in S => g0[5] = Gf!ByteTimes2(g0[4])
        /\ g0[5] \in S => g0[6] = Gf!ByteTimes2(g0[5])
        /\ g0[6] \in S => g0[7] = Gf!ByteTimes2(g0[6])
        /\ g0[7] \in S => g0[8] = Gf!ByteTimes2(g0[7])
        /\ g0[8] \in S => g0[9] = Gf!ByteTimes2(g0[8])
        /\ g0[9] \in S => g0[10] = Gf!ByteTimes2(g0[9])
    <3> HIDE DEF S
    <3>1. QED
      BY <1>8
  <2> HIDE DEF b0, b1, b2, b3, b4, b5, b6, b7, b8, b9, S
  <2>5. QED
    BY <2>1, <2>2, <2>3, <2>4
<1>11. g0[n] = Gf!Byte(Gf!RCON[n])
  <2>1. /\ Gf!RCON[1] = 1 /\ Gf!RCON[2] = 2 /\ Gf!RCON[3] = 4 /\ Gf!RCON[4] = 8 /\ Gf!RCON[5] = 16
        /\ Gf!RCON[6] = 32 /\ Gf!RCON[7] = 64 /\ Gf!RCON[8] = 128 /\ Gf!RCON[9] = 27
        /\ Gf!RCON[10] = 54
    BY DEF Gf!RCON
  <2>2. n = 1 \/ n = 2 \/ n = 3 \/ n = 4 \/ n = 5 \/ n = 6 \/ n = 7 \/ n = 8 \/ n = 9 \/ n = 10
    OBVIOUS
  <2>3. /\ Gf!Byte(1) = b0 /\ Gf!Byte(2) = b1 /\ Gf!Byte(4) = b2 /\ Gf!Byte(8) = b3
        /\ Gf!Byte(16) = b4 /\ Gf!Byte(32) = b5 /\ Gf!Byte(64) = b6 /\ Gf!Byte(128) = b7
        /\ Gf!Byte(27) = b8 /\ Gf!Byte(54) = b9
    BY ByteBits
  <2> HIDE DEF b0, b1, b2, b3, b4, b5, b6, b7, b8, b9
  <2>4. QED
    BY <1>10, <2>1, <2>2, <2>3
<1>12. QED
  BY <1>1, <1>11

-----------------------------------------------------------------------------
(* The key schedule *)

\* Two recursive functions with the same turns have the same values.
Agree(g, h, a, b) == \A k \in (a + 1) .. b : g[k - 1] = h[k - 1] => g[k] = h[k]

LEMMA SameTurns ==
  ASSUME NEW a \in Int, NEW b \in Int, a <= b, NEW g, NEW h, g[a] = h[a], Agree(g, h, a, b)
  PROVE  g[b] = h[b]
<1> DEFINE same == [k \in a .. b |-> IF g[k] = h[k] THEN 1 ELSE 0]
<1>1. same[a] \in {1}
  OBVIOUS
<1>2. ASSUME NEW k \in (a + 1) .. b, same[k - 1] \in {1} PROVE same[k] \in {1}
  <2>1. k \in a .. b /\ k - 1 \in a .. b
    OBVIOUS
  <2>2. g[k - 1] = h[k - 1]
    BY <1>2, <2>1
  <2>3. QED
    BY <2>1, <2>2 DEF Agree
<1>3. \A k \in a .. b : same[k] \in {1}
  <2> DEFINE one == {1}
  <2>1. same[a] \in one /\ \A k \in (a + 1) .. b : same[k - 1] \in one => same[k] \in one
    BY <1>1, <1>2
  <2> HIDE DEF same, one
  <2>2. \A k \in a .. b : same[k] \in one
    BY <2>1, Stays
  <2>3. QED
    BY <2>2 DEF one
<1>4. b \in a .. b
  OBVIOUS
<1>5. QED
  BY <1>3, <1>4

\* A sequence is grown from base, each member made by G of its place, of the one length(base)
\* before it and of the one before it; what G must be for that.
Grown(u, a, n, S, base, G) ==
  /\ u = [k \in a .. n |-> u[k]] /\ u[a] = base
  /\ \A k \in (a + 1) .. n : u[k] = Append(u[k - 1], G[<<k, u[k - 1][k - a], u[k - 1][k - 1]>>])
  /\ \A k \in a .. n : u[k] \in [1 .. k -> S]
Grows(G, a, n, S) == \A k \in (a + 1) .. n, x \in S, y \in S : G[<<k, x, y>>] \in S

LEMMA Growing ==
  ASSUME NEW a \in Nat, a > 0, NEW n \in Nat, a <= n, NEW S, NEW base \in [1 .. a -> S], NEW G,
         Grows(G, a, n, S)
  PROVE  \E u : Grown(u, a, n, S, base, G)
<1> DEFINE On(k, s) == Append(s, G[<<k, s[k - a], s[k - 1]>>])
           W == Seq(S)
           F == [p \in ((a + 1) .. n) \X W |-> IF Len(p[2]) = p[1] - 1 THEN On(p[1], p[2]) ELSE p[2]]
<1>1. ASSUME NEW k \in (a + 1) .. n, NEW s \in W, Len(s) = k - 1
      PROVE  On(k, s) \in W /\ Len(On(k, s)) = k
  <2>1. k - a \in 1 .. Len(s) /\ k - 1 \in 1 .. Len(s)
    BY <1>1
  <2>2. s[k - a] \in S /\ s[k - 1] \in S
    BY <2>1
  <2>3. G[<<k, s[k - a], s[k - 1]>>] \in S
    BY <2>2 DEF Grows
  <2>4. QED
    BY <1>1, <2>3
<1>2. \A k \in (a + 1) .. n, s \in W : F[<<k, s>>] = IF Len(s) = k - 1 THEN On(k, s) ELSE s
  <2> HIDE DEF On, W
  <2>1. QED
    OBVIOUS
<1>3. base \in W /\ Len(base) = a
  OBVIOUS
<1>4. PICK u : MadeBy(u, a, n, W, base, F)
  <2> HIDE DEF On, W, F
  <2>1. StaysIn(F, a, n, W)
    BY <1>1, <1>2 DEF StaysIn
  <2>2. QED
    BY <1>3, <2>1, Recursion
<1>5. u \in [a .. n -> W] /\ u[a] = base /\ \A k \in (a + 1) .. n : u[k] = F[<<k, u[k - 1]>>]
  BY <1>4 DEF MadeBy
<1> DEFINE over == [k \in a .. n |-> Len(u[k]) - k]
           none == {0}
<1>6. over[a] \in none /\ \A k \in (a + 1) .. n : over[k - 1] \in none => over[k] \in none
  <2>1. a \in a .. n
    OBVIOUS
  <2>2. over[a] = Len(base) - a
    BY <1>5, <2>1
  <2>3. over[a] \in none
    BY <1>3, <2>2
  <2>4. ASSUME NEW k \in (a + 1) .. n, over[k - 1] \in none PROVE over[k] \in none
    <3>1. k \in a .. n /\ k - 1 \in a .. n /\ u[k - 1] \in W
      BY <1>5
    <3>2. Len(u[k - 1]) = k - 1
      <4>1. Len(u[k - 1]) - (k - 1) = 0 /\ Len(u[k - 1]) \in Nat
        BY <2>4, <3>1
      <4>2. QED
        BY <4>1
    <3>3. u[k] = On(k, u[k - 1]) /\ Len(On(k, u[k - 1])) = k
      <4> HIDE DEF On, W, F
      <4>1. QED
        BY <1>1, <1>2, <1>5, <3>1, <3>2
    <3>4. Len(u[k]) - k = 0
      <4> HIDE DEF On
      <4>1. QED
        BY <3>3
    <3>5. QED
      BY <3>1, <3>4
  <2>5. QED
    BY <2>3, <2>4
<1>7. \A k \in a .. n : over[k] \in none
  <2>1. a \in Int /\ n \in Int
    OBVIOUS
  <2> HIDE DEF over, none
  <2>2. QED
    BY <1>6, <2>1, Stays
<1>8. \A k \in a .. n : u[k] \in W /\ Len(u[k]) = k
  <2> SUFFICES ASSUME NEW k \in a .. n PROVE u[k] \in W /\ Len(u[k]) = k
    OBVIOUS
  <2>1. u[k] \in W /\ Len(u[k]) - k = 0
    BY <1>5, <1>7
  <2>2. Len(u[k]) \in Nat
    BY <2>1
  <2>3. QED
    BY <2>1, <2>2
<1>9. \A k \in (a + 1) .. n : u[k] = On(k, u[k - 1])
  <2> SUFFICES ASSUME NEW k \in (a + 1) .. n PROVE u[k] = On(k, u[k - 1])
    OBVIOUS
  <2>1. k - 1 \in a .. n
    OBVIOUS
  <2> HIDE DEF On, W, F
  <2>2. QED
    BY <1>2, <1>5, <1>8, <2>1
<1>10. \A k \in a .. n : u[k] \in [1 .. k -> S]
  BY <1>8
<1>11. u = [k \in a .. n |-> u[k]]
  BY <1>5
<1>12. QED
  BY <1>5, <1>9, <1>10, <1>11 DEF Grown

\* A word of the schedule, of its place, the word one key length before it and the one before it.
Quads == [1 .. 4 -> Gf!Bytes]
OfKey(nk, k, y) == Code8!Substituted(nk, (k - 1) % nk, (k - 1) \div nk - 1, y)
NextWord(nk) ==
  [p \in ((nk + 1) .. 11 * nk) \X Quads \X Quads |-> Code8!XorBytes(p[2], OfKey(nk, p[1], p[3]))]

LEMMA SameXorBytes ==
  \A x, y : /\ Code8!XorBytes(x, y) = [k \in 1 .. 4 |-> Gf!Xor(x[k], y[k])]
            /\ Aes8Is!XorWords(x, y) = [k \in 1 .. 4 |-> Gf!Xor(x[k], y[k])]
BY SameField, Zenon DEF Code8!XorBytes, Aes8Is!XorWords

LEMMA OfKeyIs ==
  ASSUME NEW nk \in {4, 6, 8}, NEW k \in (nk + 1) .. 11 * nk, NEW y \in Quads
  PROVE  OfKey(nk, k, y) \in Quads
<1> DEFINE step == (k - 1) % nk
           n == (k - 1) \div nk - 1
           s == Code8!Sbox
<1>1. \A b \in Gf!Bytes : s[b] \in Gf!Bytes
  BY SameSbox
<1>2. \A b, m : b \in Gf!Bytes => Gf!Xor(b, Gf!Byte(m)) \in Gf!Bytes
  BY DEF Gf!Xor, Gf!Byte, Gf!Bytes
<1>3. \A b : Code8!SubByte(b) = s[b]
  BY DEF Code8!SubByte
<1>4. \A b, m : Code8!Xor(b, Code8!Byte(m)) = Gf!Xor(b, Gf!Byte(m))
  BY SameField
<1>5. y[1] \in Gf!Bytes /\ y[2] \in Gf!Bytes /\ y[3] \in Gf!Bytes /\ y[4] \in Gf!Bytes
  BY DEF Quads
<1>6. OfKey(nk, k, y) = Code8!Substituted(nk, step, n, y)
  BY DEF OfKey
<1> HIDE DEF s, step, n
<1>7. CASE step = 0
  <2>1. OfKey(nk, k, y) = <<Gf!Xor(s[y[2]], Gf!Byte(Code8!RCON[n + 1])), s[y[3]], s[y[4]], s[y[1]]>>
    BY <1>3, <1>4, <1>6, <1>7 DEF Code8!Substituted
  <2>2. /\ Gf!Xor(s[y[2]], Gf!Byte(Code8!RCON[n + 1])) \in Gf!Bytes
        /\ s[y[3]] \in Gf!Bytes /\ s[y[4]] \in Gf!Bytes /\ s[y[1]] \in Gf!Bytes
    BY <1>1, <1>2, <1>5
  <2>3. QED
    BY <2>1, <2>2 DEF Quads
<1>8. CASE step # 0 /\ nk = 8 /\ step = 4
  <2>1. OfKey(nk, k, y) = [j \in 1 .. 4 |-> s[y[j]]]
    BY <1>3, <1>6, <1>8 DEF Code8!Substituted
  <2>2. QED
    BY <1>1, <2>1 DEF Quads
<1>9. CASE step # 0 /\ ~ (nk = 8 /\ step = 4)
  BY <1>6, <1>9 DEF Code8!Substituted
<1>10. QED
  BY <1>7, <1>8, <1>9

LEMMA NextWordIs ==
  ASSUME NEW nk \in {4, 6, 8}
  PROVE  /\ Grows(NextWord(nk), nk, 11 * nk, Quads)
         /\ \A k \in (nk + 1) .. 11 * nk, x \in Quads, y \in Quads :
              NextWord(nk)[<<k, x, y>>] = Code8!XorBytes(x, OfKey(nk, k, y))
<1>1. ASSUME NEW k \in (nk + 1) .. 11 * nk, NEW x \in Quads, NEW y \in Quads
      PROVE  /\ NextWord(nk)[<<k, x, y>>] = Code8!XorBytes(x, OfKey(nk, k, y))
             /\ NextWord(nk)[<<k, x, y>>] \in Quads
  <2>1. NextWord(nk)[<<k, x, y>>] = Code8!XorBytes(x, OfKey(nk, k, y))
    BY DEF NextWord
  <2>2. OfKey(nk, k, y) \in Quads
    BY OfKeyIs
  <2>3. \A z \in Quads : Code8!XorBytes(x, z) \in Quads
    <3>1. \A b, c \in Gf!Bytes : Gf!Xor(b, c) \in Gf!Bytes
      BY DEF Gf!Xor, Gf!Bytes
    <3>2. QED
      BY <3>1, SameXorBytes DEF Quads
  <2>4. QED
    BY <2>1, <2>2, <2>3
<1>2. QED
  BY <1>1 DEF Grows

\* What the reference makes of the word before.
TempIs(kl, k, last) ==
  IF (k - 1) % kl = 0
  THEN Aes8Is!XorWords(Aes8Is!SubWord(Aes8Is!RotWord(last)), Aes8Is!Rcon((k - 1) \div kl))
  ELSE IF kl > 6 /\ (k - 1) % kl = 4 THEN Aes8Is!SubWord(last)
  ELSE last

LEMMA TempsSame ==
  ASSUME NEW nk \in {4, 6, 8}, NEW k \in (nk + 1) .. 11 * nk, NEW x \in Quads, NEW y \in Quads
  PROVE  Aes8Is!XorWords(x, TempIs(nk, k, y)) = NextWord(nk)[<<k, x, y>>]
<1> DEFINE s == Code8!Sbox
<1>1. NextWord(nk)[<<k, x, y>>] = [j \in 1 .. 4 |-> Gf!Xor(x[j], OfKey(nk, k, y)[j])]
  BY NextWordIs, SameXorBytes
<1>2. Aes8Is!XorWords(x, TempIs(nk, k, y)) = [j \in 1 .. 4 |-> Gf!Xor(x[j], TempIs(nk, k, y)[j])]
  BY SameXorBytes
<1>3. \A z : Aes8Is!SubWord(z) = [j \in 1 .. 4 |-> s[z[j]]]
  BY SameSbox DEF Aes8Is!SubWord
<1>4. \A b : Code8!SubByte(b) = s[b]
  BY DEF Code8!SubByte
<1>5. nk = 4 \/ nk = 6 \/ nk = 8
  OBVIOUS
<1>6. (k - 1) \div nk \in 1 .. 10 /\ ((k - 1) \div nk - 1) + 1 = (k - 1) \div nk
  <2>1. CASE nk = 4
    BY <2>1
  <2>2. CASE nk = 6
    BY <2>2
  <2>3. CASE nk = 8
    BY <2>3
  <2>4. QED
    BY <1>5, <2>1, <2>2, <2>3
<1> DEFINE step == (k - 1) % nk
           m == (k - 1) \div nk
<1>7. Aes8Is!Rcon(m) = <<Gf!Byte(Gf!RCON[m]), {}, {}, {}>>
  <2>1. m \in 1 .. 10
    BY <1>6
  <2> HIDE DEF m
  <2>2. QED
    BY <2>1, RconIs
<1>8. OfKey(nk, k, y) = Code8!Substituted(nk, step, m - 1, y) /\ (m - 1) + 1 = m
  BY <1>6 DEF OfKey
<1>9. TempIs(nk, k, y) = IF step = 0 THEN Aes8Is!XorWords(Aes8Is!SubWord(Aes8Is!RotWord(y)), Aes8Is!Rcon(m))
                         ELSE IF nk > 6 /\ step = 4 THEN Aes8Is!SubWord(y) ELSE y
  BY DEF TempIs
<1> HIDE DEF step, m, s
<1>10. CASE step = 0
  <2> DEFINE c == Gf!Byte(Gf!RCON[m])
  <2>1. OfKey(nk, k, y) = <<Gf!Xor(s[y[2]], c), s[y[3]], s[y[4]], s[y[1]]>>
    BY <1>4, <1>8, <1>10, SameField DEF Code8!Substituted
  <2>2. Aes8Is!RotWord(y) = <<y[2], y[3], y[4], y[1]>>
    BY DEF Aes8Is!RotWord
  <2>3. TempIs(nk, k, y) = Aes8Is!XorWords(Aes8Is!SubWord(<<y[2], y[3], y[4], y[1]>>), <<c, {}, {}, {}>>)
    BY <1>7, <1>9, <1>10, <2>2
  <2> HIDE DEF c
  <2>4. TempIs(nk, k, y) = [j \in 1 .. 4 |-> Gf!Xor(s[<<y[2], y[3], y[4], y[1]>>[j]], <<c, {}, {}, {}>>[j])]
    BY <1>3, <2>3, SameXorBytes
  <2>5. /\ TempIs(nk, k, y)[1] = Gf!Xor(s[y[2]], c) /\ TempIs(nk, k, y)[2] = Gf!Xor(s[y[3]], {})
        /\ TempIs(nk, k, y)[3] = Gf!Xor(s[y[4]], {}) /\ TempIs(nk, k, y)[4] = Gf!Xor(s[y[1]], {})
    BY <2>4
  <2>6. \A j \in 1 .. 4 : TempIs(nk, k, y)[j] = OfKey(nk, k, y)[j]
    <3>1. \A j \in 1 .. 4 : j = 1 \/ j = 2 \/ j = 3 \/ j = 4
      OBVIOUS
    <3>2. QED
      BY <2>1, <2>5, <3>1, XorLaws
  <2>7. QED
    BY <1>1, <1>2, <2>6
<1>11. CASE step # 0 /\ nk = 8 /\ step = 4
  <2>1. OfKey(nk, k, y) = [j \in 1 .. 4 |-> s[y[j]]]
    BY <1>4, <1>8, <1>11 DEF Code8!Substituted
  <2>2. TempIs(nk, k, y) = [j \in 1 .. 4 |-> s[y[j]]]
    BY <1>3, <1>9, <1>11
  <2>3. QED
    BY <1>1, <1>2, <2>1, <2>2
<1>12. CASE step # 0 /\ ~ (nk = 8 /\ step = 4)
  <2>1. OfKey(nk, k, y) = y
    BY <1>8, <1>12 DEF Code8!Substituted
  <2>2. nk > 6 <=> nk = 8
    BY <1>5
  <2>3. TempIs(nk, k, y) = y
    BY <1>9, <1>12, <2>2
  <2>4. QED
    BY <1>1, <1>2, <2>1, <2>3
<1>13. QED
  BY <1>10, <1>11, <1>12

LEMMA StoredIs ==
  ASSUME NEW nk \in {4, 6, 8}, NEW k0, NEW base \in [1 .. nk -> Quads], \A k \in 1 .. nk : base[k] = k0[k - 1],
         NEW u, Grown(u, nk, 4 * (nk + 7), Quads, base, NextWord(nk))
  PROVE  Code8!Keys!StoredKeys(nk, k0, 4 * (nk + 7)) = u[4 * (nk + 7)]
<1> DEFINE n == 4 * (nk + 7)
           On(j, w) == Append(w, Code8!XorBytes(w[j - nk], Code8!Substituted(nk, (j - 1) % nk, (j - 1) \div nk - 1, w[j - 1])))
           Body(g) == [j \in nk .. n |-> IF j = nk THEN [k \in 1 .. nk |-> k0[k - 1]] ELSE On(j, g[j - 1])]
           g0 == CHOOSE g : g = Body(g)
<1>1. Code8!Keys!StoredKeys(nk, k0, n) = g0[n]
  BY DEF Code8!Keys!StoredKeys
<1>2. nk \in Nat /\ nk > 0 /\ n \in Nat /\ nk <= n /\ n <= 11 * nk
  BY DEF n
<1>3. [k \in 1 .. nk |-> k0[k - 1]] = base
  OBVIOUS
<1>4. u[nk] = base /\ \A k \in nk .. n : u[k] \in [1 .. k -> Quads]
  BY DEF Grown
<1>5. ASSUME NEW k \in (nk + 1) .. n PROVE u[k] = On(k, u[k - 1])
  <2>1. u[k] = Append(u[k - 1], NextWord(nk)[<<k, u[k - 1][k - nk], u[k - 1][k - 1]>>])
    BY DEF Grown
  <2>2. /\ k - 1 \in nk .. n /\ k - nk \in 1 .. (k - 1) /\ k - 1 \in 1 .. (k - 1)
        /\ k \in (nk + 1) .. 11 * nk
    BY <1>2
  <2>3. u[k - 1][k - nk] \in Quads /\ u[k - 1][k - 1] \in Quads
    BY <1>4, <2>2
  <2>4. NextWord(nk)[<<k, u[k - 1][k - nk], u[k - 1][k - 1]>>]
          = Code8!XorBytes(u[k - 1][k - nk], OfKey(nk, k, u[k - 1][k - 1]))
    BY <2>2, <2>3, NextWordIs
  <2>5. QED
    BY <2>1, <2>4 DEF OfKey
<1> HIDE DEF n, On
<1>6. u = Body(u)
  <2>1. u = [k \in nk .. n |-> u[k]]
    BY DEF n, Grown
  <2>2. \A j \in nk .. n : j = nk \/ j \in (nk + 1) .. n
    BY <1>2
  <2>3. \A j \in nk .. n : u[j] = IF j = nk THEN [k \in 1 .. nk |-> k0[k - 1]] ELSE On(j, u[j - 1])
    BY <1>3, <1>4, <1>5, <2>2
  <2>4. QED
    BY <2>1, <2>3
<1>7. g0 = Body(g0)
  <2> HIDE DEF Body
  <2>1. QED
    BY <1>6
<1>8. g0[nk] = base /\ \A k \in (nk + 1) .. n : g0[k] = On(k, g0[k - 1])
  <2>1. nk \in nk .. n /\ \A k \in (nk + 1) .. n : k \in nk .. n /\ k # nk
    BY <1>2
  <2> HIDE DEF g0
  <2>2. QED
    BY <1>3, <1>7, <2>1
<1> HIDE DEF g0
<1>9. g0[n] = u[n]
  <2>1. \A k \in (nk + 1) .. n : g0[k - 1] = u[k - 1] => g0[k] = u[k]
    BY <1>5, <1>8
  <2>2. nk \in Int /\ n \in Int /\ g0[nk] = u[nk]
    BY <1>2, <1>4, <1>8
  <2>3. Agree(g0, u, nk, n)
    BY <2>1 DEF Agree
  <2>4. QED
    BY <1>2, <2>2, <2>3, SameTurns
<1>10. QED
  BY <1>1, <1>9 DEF n

LEMMA KeyLengths ==
  ASSUME NEW nk \in {4, 6, 8}, aes_key \in [0 .. 4 * nk - 1 -> Gf!Bytes]
  PROVE  Aes8Is!KeyLength = nk /\ Code8!keysize_word = nk
<1>1. \A S : Aes8Is!Cardinality(S) = Cardinality(S) /\ Code8!Cardinality(S) = Cardinality(S)
  BY DEF Aes8Is!Cardinality, Code8!Cardinality, Cardinality
<1>2. DOMAIN aes_key = 0 .. 4 * nk - 1
  OBVIOUS
<1>3. Cardinality(0 .. 4 * nk - 1) = 4 * nk
  <2>1. \A a, b \in Int : Cardinality(a .. b) = IF a > b THEN 0 ELSE b - a + 1
    BY FS_Interval
  <2>2. PICK a \in Int, b \in Int : a = 0 /\ b = 4 * nk - 1
    OBVIOUS
  <2>3. Cardinality(a .. b) = IF a > b THEN 0 ELSE b - a + 1
    BY <2>1
  <2>4. QED
    BY <2>2, <2>3
<1>4. (4 * nk) \div 4 = nk
  OBVIOUS
<1>5. QED
  BY <1>1, <1>2, <1>3, <1>4 DEF Aes8Is!KeyLength, Code8!keysize_word

\* The key expansion of the reference, of the length of the key and of the schedule.
Reference(kl, m) ==
  (CHOOSE g : g = [j \in kl .. m |->
                     IF j = kl THEN [i2 \in 1 .. kl |-> [k \in 1 .. 4 |-> aes_key[4 * i2 + k - 5]]]
                     ELSE Append(g[j - 1], Aes8Is!XorWords(g[j - 1][j - kl], TempIs(kl, j, g[j - 1][j - 1])))])[m]

LEMMA ReferenceIs ==
  ASSUME NEW nk \in {4, 6, 8}, aes_key \in [0 .. 4 * nk - 1 -> Gf!Bytes], NEW base \in [1 .. nk -> Quads],
         \A j \in 1 .. nk : base[j] = [k \in 1 .. 4 |-> aes_key[4 * j + k - 5]],
         NEW u, Grown(u, nk, 4 * (nk + 7), Quads, base, NextWord(nk))
  PROVE  Aes8Is!KeyExpansion = u[4 * (nk + 7)]
<1> DEFINE n == 4 * (nk + 7)
           On(j, w) == Append(w, Aes8Is!XorWords(w[j - nk], TempIs(nk, j, w[j - 1])))
           Body(g) == [j \in nk .. n |-> IF j = nk THEN [i2 \in 1 .. nk |-> [k \in 1 .. 4 |-> aes_key[4 * i2 + k - 5]]]
                                         ELSE On(j, g[j - 1])]
           g0 == CHOOSE g : g = Body(g)
<1>1. Aes8Is!KeyExpansion = g0[n]
  <2>1. Aes8Is!KeyExpansion = Reference(Aes8Is!KeyLength, 4 * (Aes8Is!Rounds + 1))
    BY Zenon DEF Aes8Is!KeyExpansion, TempIs, Reference
  <2>2. Aes8Is!KeyLength = nk
    BY KeyLengths
  <2>3. 4 * (Aes8Is!Rounds + 1) = n
    BY <2>2 DEF Aes8Is!Rounds
  <2>4. Aes8Is!KeyExpansion = Reference(nk, n)
    BY <2>1, <2>2, <2>3, Zenon
  <2>5. Reference(nk, n) = g0[n]
    BY Zenon DEF Reference
  <2>6. QED
    BY <2>4, <2>5
<1>2. nk \in Nat /\ nk > 0 /\ n \in Nat /\ nk <= n /\ n <= 11 * nk
  BY DEF n
<1>3. [i2 \in 1 .. nk |-> [k \in 1 .. 4 |-> aes_key[4 * i2 + k - 5]]] = base
  OBVIOUS
<1>4. u[nk] = base /\ \A k \in nk .. n : u[k] \in [1 .. k -> Quads]
  BY DEF Grown
<1>5. ASSUME NEW k \in (nk + 1) .. n PROVE u[k] = On(k, u[k - 1])
  <2>1. u[k] = Append(u[k - 1], NextWord(nk)[<<k, u[k - 1][k - nk], u[k - 1][k - 1]>>])
    BY DEF Grown
  <2>2. /\ k - 1 \in nk .. n /\ k - nk \in 1 .. (k - 1) /\ k - 1 \in 1 .. (k - 1)
        /\ k \in (nk + 1) .. 11 * nk
    BY <1>2
  <2>3. u[k - 1][k - nk] \in Quads /\ u[k - 1][k - 1] \in Quads
    BY <1>4, <2>2
  <2>4. NextWord(nk)[<<k, u[k - 1][k - nk], u[k - 1][k - 1]>>]
          = Aes8Is!XorWords(u[k - 1][k - nk], TempIs(nk, k, u[k - 1][k - 1]))
    BY <2>2, <2>3, TempsSame
  <2>5. QED
    BY <2>1, <2>4
<1> HIDE DEF n, On
<1>6. u = Body(u)
  <2>1. u = [k \in nk .. n |-> u[k]]
    BY DEF n, Grown
  <2>2. \A j \in nk .. n : j = nk \/ j \in (nk + 1) .. n
    BY <1>2
  <2> DEFINE words0 == [i2 \in 1 .. nk |-> [k \in 1 .. 4 |-> aes_key[4 * i2 + k - 5]]]
  <2> HIDE DEF words0
  <2>3. \A j \in nk .. n : u[j] = IF j = nk THEN words0 ELSE On(j, u[j - 1])
    BY <1>3, <1>4, <1>5, <2>2 DEF words0
  <2>4. u = [j \in nk .. n |-> IF j = nk THEN words0 ELSE On(j, u[j - 1])]
    BY <2>1, <2>3
  <2>5. QED
    BY <2>4, Zenon DEF words0
<1>7. g0 = Body(g0)
  <2> HIDE DEF Body
  <2>1. QED
    BY <1>6
<1>8. g0[nk] = base /\ \A k \in (nk + 1) .. n : g0[k] = On(k, g0[k - 1])
  <2>1. nk \in nk .. n /\ \A k \in (nk + 1) .. n : k \in nk .. n /\ k # nk
    BY <1>2
  <2> HIDE DEF g0
  <2>2. g0 = [j \in nk .. n |-> IF j = nk THEN base ELSE On(j, g0[j - 1])]
    BY <1>3, <1>7, Zenon
  <2>3. QED
    BY <2>1, <2>2
<1> HIDE DEF g0
<1>9. g0[n] = u[n]
  <2>1. \A k \in (nk + 1) .. n : g0[k - 1] = u[k - 1] => g0[k] = u[k]
    BY <1>5, <1>8
  <2>2. nk \in Int /\ n \in Int /\ g0[nk] = u[nk]
    BY <1>2, <1>4, <1>8
  <2>3. Agree(g0, u, nk, n)
    BY <2>1 DEF Agree
  <2>4. QED
    BY <1>2, <2>2, <2>3, SameTurns
<1>10. QED
  BY <1>1, <1>9 DEF n

-----------------------------------------------------------------------------
(* The steps of a round *)

\* The matrix of a block: column by column.
Mat(b) == [p \in (0 .. 3) \X (0 .. 3) |-> b[p[1] + 4 * p[2]]]
Sixteen == 0 .. 15
IsBlock(b) == \A m \in Sixteen : b[m] \in Gf!Bytes

LEMMA PlaceIs ==
  ASSUME NEW p \in (0 .. 3) \X (0 .. 3)
  PROVE  /\ p[1] \in 0 .. 3 /\ p[2] \in 0 .. 3 /\ p = <<p[1], p[2]>>
         /\ p[1] + 4 * p[2] \in 0 .. 15 /\ (p[1] + 4 * p[2]) \div 4 = p[2] /\ (p[1] + 4 * p[2]) % 4 = p[1]
OBVIOUS

LEMMA MatIs ==
  ASSUME NEW b, NEW r \in 0 .. 3, NEW c \in 0 .. 3
  PROVE  Mat(b)[<<r, c>>] = b[r + 4 * c]
BY DEF Mat


IsMatrix(h) == h = [p \in (0 .. 3) \X (0 .. 3) |-> h[p]]

LEMMA SamePlaces ==
  ASSUME NEW b, NEW h, IsMatrix(h), \A p \in (0 .. 3) \X (0 .. 3) : Mat(b)[p] = h[p]
  PROVE  Mat(b) = h
BY DEF Mat, IsMatrix

LEMMA ShiftTables ==
  ASSUME NEW r \in 0 .. 3, NEW c \in 0 .. 3
  PROVE  /\ Code8!ShiftRow[(r + 4 * c) + 1] = r + 4 * ((c + r) % 4)
         /\ Code8!InvShiftRow[(r + 4 * c) + 1] = r + 4 * ((c - r) % 4)
<1>1. /\ r = 0 \/ r = 1 \/ r = 2 \/ r = 3
      /\ c = 0 \/ c = 1 \/ c = 2 \/ c = 3
  OBVIOUS
<1>2. CASE r = 0
  BY <1>1, <1>2 DEF Code8!ShiftRow, Code8!InvShiftRow
<1>3. CASE r = 1
  BY <1>1, <1>3 DEF Code8!ShiftRow, Code8!InvShiftRow
<1>4. CASE r = 2
  BY <1>1, <1>4 DEF Code8!ShiftRow, Code8!InvShiftRow
<1>5. CASE r = 3
  BY <1>1, <1>5 DEF Code8!ShiftRow, Code8!InvShiftRow
<1>6. QED
  BY <1>1, <1>2, <1>3, <1>4, <1>5

LEMMA SubsSame ==
  ASSUME NEW s
  PROVE  /\ Mat(Code8!SubBytes(s)) = Aes8Is!SubBytes(Mat(s))
         /\ Mat(Code8!InvSubBytes(s)) = Aes8Is!InvSubBytes(Mat(s))
<1>1. \A m \in 0 .. 15 : /\ Code8!SubBytes(s)[m] = Code8!Sbox[s[m]]
                         /\ Code8!InvSubBytes(s)[m] = Code8!RSbox[s[m]]
  BY DEF Code8!SubBytes, Code8!InvSubBytes, Code8!SubByte, Code8!InvSubByte, Code8!Block
<1>2. \A p \in (0 .. 3) \X (0 .. 3) :
        /\ Mat(Code8!SubBytes(s))[p] = Code8!Sbox[Mat(s)[p]]
        /\ Mat(Code8!InvSubBytes(s))[p] = Code8!RSbox[Mat(s)[p]]
  BY <1>1, PlaceIs DEF Mat
<1>3. /\ Aes8Is!SubBytes(Mat(s)) = [p \in (0 .. 3) \X (0 .. 3) |-> Code8!Sbox[Mat(s)[p]]]
      /\ Aes8Is!InvSubBytes(Mat(s)) = [p \in (0 .. 3) \X (0 .. 3) |-> Code8!RSbox[Mat(s)[p]]]
  BY SameSbox, Zenon DEF Aes8Is!SubBytes, Aes8Is!InvSubBytes, Aes8Is!Places
<1>4. \A b : Mat(b) = [p \in (0 .. 3) \X (0 .. 3) |-> Mat(b)[p]]
  BY DEF Mat
<1> HIDE DEF Mat
<1>5. QED
  BY <1>2, <1>3, <1>4

LEMMA ShiftsSame ==
  ASSUME NEW s
  PROVE  /\ Mat(Code8!ShiftRows(s)) = Aes8Is!ShiftRows(Mat(s))
         /\ Mat(Code8!InvShiftRows(s)) = Aes8Is!InvShiftRows(Mat(s))
<1>1. \A m \in 0 .. 15 : /\ Code8!ShiftRows(s)[m] = s[Code8!ShiftRow[m + 1]]
                         /\ Code8!InvShiftRows(s)[m] = s[Code8!InvShiftRow[m + 1]]
  BY DEF Code8!ShiftRows, Code8!InvShiftRows, Code8!Block
<1>2. ASSUME NEW p \in (0 .. 3) \X (0 .. 3)
      PROVE  /\ Mat(Code8!ShiftRows(s))[p] = Mat(s)[<<p[1], (p[2] + p[1]) % 4>>]
             /\ Mat(Code8!InvShiftRows(s))[p] = Mat(s)[<<p[1], (p[2] - p[1]) % 4>>]
  <2>1. p[1] \in 0 .. 3 /\ p[2] \in 0 .. 3 /\ p = <<p[1], p[2]>> /\ p[1] + 4 * p[2] \in 0 .. 15
    BY PlaceIs
  <2>2. (p[2] + p[1]) % 4 \in 0 .. 3 /\ (p[2] - p[1]) % 4 \in 0 .. 3
    BY <2>1
  <2>3. /\ Mat(s)[<<p[1], (p[2] + p[1]) % 4>>] = s[p[1] + 4 * ((p[2] + p[1]) % 4)]
        /\ Mat(s)[<<p[1], (p[2] - p[1]) % 4>>] = s[p[1] + 4 * ((p[2] - p[1]) % 4)]
    BY <2>1, <2>2, MatIs
  <2>4. /\ Mat(Code8!ShiftRows(s))[p] = Code8!ShiftRows(s)[p[1] + 4 * p[2]]
        /\ Mat(Code8!InvShiftRows(s))[p] = Code8!InvShiftRows(s)[p[1] + 4 * p[2]]
    BY DEF Mat
  <2>5. /\ Code8!ShiftRow[(p[1] + 4 * p[2]) + 1] = p[1] + 4 * ((p[2] + p[1]) % 4)
        /\ Code8!InvShiftRow[(p[1] + 4 * p[2]) + 1] = p[1] + 4 * ((p[2] - p[1]) % 4)
    BY <2>1, ShiftTables
  <2>6. QED
    BY <1>1, <2>1, <2>3, <2>4, <2>5
<1>3. /\ Aes8Is!ShiftRows(Mat(s)) = [p \in (0 .. 3) \X (0 .. 3) |-> Mat(s)[<<p[1], (p[2] + p[1]) % 4>>]]
      /\ Aes8Is!InvShiftRows(Mat(s)) = [p \in (0 .. 3) \X (0 .. 3) |-> Mat(s)[<<p[1], (p[2] - p[1]) % 4>>]]
  BY DEF Aes8Is!ShiftRows, Aes8Is!InvShiftRows, Aes8Is!Places
<1> DEFINE there == [p \in (0 .. 3) \X (0 .. 3) |-> Mat(s)[<<p[1], (p[2] + p[1]) % 4>>]]
           back == [p \in (0 .. 3) \X (0 .. 3) |-> Mat(s)[<<p[1], (p[2] - p[1]) % 4>>]]
<1>4. /\ \A p \in (0 .. 3) \X (0 .. 3) : Mat(Code8!ShiftRows(s))[p] = there[p]
      /\ \A p \in (0 .. 3) \X (0 .. 3) : Mat(Code8!InvShiftRows(s))[p] = back[p]
  BY <1>2
<1>5. IsMatrix(there) /\ IsMatrix(back)
  BY DEF IsMatrix
<1>6. Aes8Is!ShiftRows(Mat(s)) = there /\ Aes8Is!InvShiftRows(Mat(s)) = back
  BY <1>3
<1> HIDE DEF there, back
<1>7. Mat(Code8!ShiftRows(s)) = there
  BY <1>4, <1>5, SamePlaces
<1>8. Mat(Code8!InvShiftRows(s)) = back
  BY <1>4, <1>5, SamePlaces
<1>9. QED
  BY <1>6, <1>7, <1>8

LEMMA Times2Adds ==
  \A a, b \in Gf!Bytes : Gf!ByteTimes2(Gf!Xor(a, b)) = Gf!Xor(Gf!ByteTimes2(a), Gf!ByteTimes2(b))
<1> SUFFICES ASSUME NEW a \in Gf!Bytes, NEW b \in Gf!Bytes
             PROVE  Gf!ByteTimes2(Gf!Xor(a, b)) = Gf!Xor(Gf!ByteTimes2(a), Gf!ByteTimes2(b))
  OBVIOUS
<1>1. {1} \in Gf!Bytes /\ Gf!Xor(a, b) \in Gf!Bytes
  BY DEF Gf!Bytes, Gf!Xor
<1> DEFINE x == {1}
<1>2. x \in Gf!Bytes
  BY <1>1
<1>3. \A y \in Gf!Bytes : Gf!Product(y, x) = Gf!ByteTimes2(y)
  BY ProductTurned
<1> HIDE DEF x
<1>4. Gf!Product(Gf!Xor(a, b), x) = Gf!Xor(Gf!Product(a, x), Gf!Product(b, x))
  BY <1>2, ProductAdds
<1>5. QED
  BY <1>1, <1>3, <1>4

\* What MixColumns() makes of a byte: of the sum of its column and of the next byte.
MixedByte(a, b, sum) == Gf!Xor(a, Gf!Xor(sum, Gf!ByteTimes2(Gf!Xor(a, b))))

LEMMA CodeMixes ==
  ASSUME NEW s, NEW c \in 0 .. 3, NEW a0, NEW a1, NEW a2, NEW a3,
         a0 = s[0 + 4 * c], a1 = s[1 + 4 * c], a2 = s[2 + 4 * c], a3 = s[3 + 4 * c],
         NEW sum, sum = Gf!Xor(Gf!Xor(a0, a1), Gf!Xor(a2, a3))
  PROVE  /\ Code8!MixColumns(s)[0 + 4 * c] = MixedByte(a0, a1, sum)
         /\ Code8!MixColumns(s)[1 + 4 * c] = MixedByte(a1, a2, sum)
         /\ Code8!MixColumns(s)[2 + 4 * c] = MixedByte(a2, a3, sum)
         /\ Code8!MixColumns(s)[3 + 4 * c] = MixedByte(a3, a0, sum)
<1> DEFINE p(m, k) == s[4 * (m \div 4) + (k % 4)]
           whole(m) == Gf!Xor(Gf!Xor(p(m, 0), p(m, 1)), Gf!Xor(p(m, 2), p(m, 3)))
<1>1. \A m \in 0 .. 15 :
        Code8!MixColumns(s)[m] = Gf!Xor(p(m, m % 4), Gf!Xor(whole(m), Gf!ByteTimes2(Gf!Xor(p(m, m % 4), p(m, (m % 4) + 1)))))
  BY SameField, Zenon DEF Code8!MixColumns, Code8!Block
<1>2. ASSUME NEW r \in 0 .. 3
      PROVE  /\ r + 4 * c \in 0 .. 15 /\ (r + 4 * c) % 4 = r /\ (r + 4 * c) \div 4 = c
             /\ whole(r + 4 * c) = sum
  <2>1. r + 4 * c \in 0 .. 15 /\ (r + 4 * c) % 4 = r /\ (r + 4 * c) \div 4 = c
    OBVIOUS
  <2>2. /\ p(r + 4 * c, 0) = a0 /\ p(r + 4 * c, 1) = a1 /\ p(r + 4 * c, 2) = a2 /\ p(r + 4 * c, 3) = a3
    BY <2>1
  <2>3. QED
    BY <2>1, <2>2
<1>3. ASSUME NEW r \in 0 .. 3
      PROVE  Code8!MixColumns(s)[r + 4 * c]
               = MixedByte(s[4 * c + (r % 4)], s[4 * c + ((r + 1) % 4)], sum)
  <2> DEFINE m == r + 4 * c
  <2>1. m \in 0 .. 15 /\ m % 4 = r /\ m \div 4 = c /\ whole(m) = sum
    BY <1>2
  <2>2. p(m, m % 4) = s[4 * c + (r % 4)] /\ p(m, (m % 4) + 1) = s[4 * c + ((r + 1) % 4)]
    BY <2>1
  <2> HIDE DEF m, p, whole
  <2>3. Code8!MixColumns(s)[m] = Gf!Xor(p(m, m % 4), Gf!Xor(whole(m), Gf!ByteTimes2(Gf!Xor(p(m, m % 4), p(m, (m % 4) + 1)))))
    BY <1>1, <2>1
  <2>4. Code8!MixColumns(s)[m] = MixedByte(s[4 * c + (r % 4)], s[4 * c + ((r + 1) % 4)], sum)
    BY <2>1, <2>2, <2>3 DEF MixedByte
  <2>5. QED
    BY <2>4 DEF m
<1>4. Code8!MixColumns(s)[0 + 4 * c] = MixedByte(a0, a1, sum)
  <2>1. 0 \in 0 .. 3 /\ 4 * c + (0 % 4) = 0 + 4 * c /\ 4 * c + ((0 + 1) % 4) = 1 + 4 * c
    OBVIOUS
  <2>2. QED
    BY <1>3, <2>1
<1>5. Code8!MixColumns(s)[1 + 4 * c] = MixedByte(a1, a2, sum)
  <2>1. 1 \in 0 .. 3 /\ 4 * c + (1 % 4) = 1 + 4 * c /\ 4 * c + ((1 + 1) % 4) = 2 + 4 * c
    OBVIOUS
  <2>2. QED
    BY <1>3, <2>1
<1>6. Code8!MixColumns(s)[2 + 4 * c] = MixedByte(a2, a3, sum)
  <2>1. 2 \in 0 .. 3 /\ 4 * c + (2 % 4) = 2 + 4 * c /\ 4 * c + ((2 + 1) % 4) = 3 + 4 * c
    OBVIOUS
  <2>2. QED
    BY <1>3, <2>1
<1>7. Code8!MixColumns(s)[3 + 4 * c] = MixedByte(a3, a0, sum)
  <2>1. 3 \in 0 .. 3 /\ 4 * c + (3 % 4) = 3 + 4 * c /\ 4 * c + ((3 + 1) % 4) = 0 + 4 * c
    OBVIOUS
  <2>2. QED
    BY <1>3, <2>1
<1>8. QED
  BY <1>4, <1>5, <1>6, <1>7

\* A column times a polynomial, by the field.
Row(row, r, m) == Gf!Byte(row[((m - r) % 4) + 1])

LEMMA ReferenceMixes ==
  ASSUME NEW s, NEW row, NEW r \in 0 .. 3, NEW c \in 0 .. 3
  PROVE  Aes8Is!Mixed(Mat(s), row)[<<r, c>>]
           = Gf!Xor(Gf!Xor(Gf!Product(Row(row, r, 0), s[0 + 4 * c]), Gf!Product(Row(row, r, 1), s[1 + 4 * c])),
                    Gf!Xor(Gf!Product(Row(row, r, 2), s[2 + 4 * c]), Gf!Product(Row(row, r, 3), s[3 + 4 * c])))
<1> DEFINE term(p, k) == Gf!Product(Row(row, p[1], k), Mat(s)[<<k, p[2]>>])
<1>1. Aes8Is!Mixed(Mat(s), row)
        = [p \in (0 .. 3) \X (0 .. 3) |->
             Gf!Xor(Gf!Xor(term(p, 0), term(p, 1)), Gf!Xor(term(p, 2), term(p, 3)))]
  BY SameField, Zenon DEF Aes8Is!Mixed, Aes8Is!Places, Row
<1>2. <<r, c>> \in (0 .. 3) \X (0 .. 3) /\ <<r, c>>[1] = r /\ <<r, c>>[2] = c
  OBVIOUS
<1>3. \A k \in 0 .. 3 : term(<<r, c>>, k) = Gf!Product(Row(row, r, k), s[k + 4 * c])
  BY <1>2, MatIs
<1> HIDE DEF term
<1>4. Aes8Is!Mixed(Mat(s), row)[<<r, c>>]
        = Gf!Xor(Gf!Xor(term(<<r, c>>, 0), term(<<r, c>>, 1)), Gf!Xor(term(<<r, c>>, 2), term(<<r, c>>, 3)))
  BY <1>1, <1>2
<1>5. 0 \in 0 .. 3 /\ 1 \in 0 .. 3 /\ 2 \in 0 .. 3 /\ 3 \in 0 .. 3
  OBVIOUS
<1>6. QED
  BY <1>3, <1>4, <1>5

LEMMA RowsAre ==
  ASSUME NEW w, NEW x, NEW y, NEW z, NEW row, row = <<w, x, y, z>>
  PROVE  /\ Row(row, 0, 0) = Gf!Byte(w) /\ Row(row, 0, 1) = Gf!Byte(x)
         /\ Row(row, 0, 2) = Gf!Byte(y) /\ Row(row, 0, 3) = Gf!Byte(z)
         /\ Row(row, 1, 0) = Gf!Byte(z) /\ Row(row, 1, 1) = Gf!Byte(w)
         /\ Row(row, 1, 2) = Gf!Byte(x) /\ Row(row, 1, 3) = Gf!Byte(y)
         /\ Row(row, 2, 0) = Gf!Byte(y) /\ Row(row, 2, 1) = Gf!Byte(z)
         /\ Row(row, 2, 2) = Gf!Byte(w) /\ Row(row, 2, 3) = Gf!Byte(x)
         /\ Row(row, 3, 0) = Gf!Byte(x) /\ Row(row, 3, 1) = Gf!Byte(y)
         /\ Row(row, 3, 2) = Gf!Byte(z) /\ Row(row, 3, 3) = Gf!Byte(w)
<1>1. row[1] = w /\ row[2] = x /\ row[3] = y /\ row[4] = z
  OBVIOUS
<1>2. \A m, r \in 0 .. 3 : (m - r) % 4 = IF m >= r THEN m - r ELSE (m - r) + 4
  OBVIOUS
<1>3. \A m, r \in 0 .. 3 : Row(row, r, m) = Gf!Byte(row[(IF m >= r THEN m - r ELSE (m - r) + 4) + 1])
  BY <1>2 DEF Row
<1>4. QED
  BY <1>1, <1>3

\* The sums of the two are the same.
LEMMA SumsSame ==
  \A a, b, c, d, ta, tb :
    /\ Gf!Xor(a, Gf!Xor(Gf!Xor(Gf!Xor(a, b), Gf!Xor(c, d)), Gf!Xor(ta, tb)))
         = Gf!Xor(Gf!Xor(ta, Gf!Xor(b, tb)), Gf!Xor(c, d))
    /\ Gf!Xor(a, Gf!Xor(Gf!Xor(Gf!Xor(d, a), Gf!Xor(b, c)), Gf!Xor(ta, tb)))
         = Gf!Xor(Gf!Xor(d, ta), Gf!Xor(Gf!Xor(b, tb), c))
    /\ Gf!Xor(a, Gf!Xor(Gf!Xor(Gf!Xor(c, d), Gf!Xor(a, b)), Gf!Xor(ta, tb)))
         = Gf!Xor(Gf!Xor(c, d), Gf!Xor(ta, Gf!Xor(b, tb)))
    /\ Gf!Xor(a, Gf!Xor(Gf!Xor(Gf!Xor(b, c), Gf!Xor(d, a)), Gf!Xor(ta, tb)))
         = Gf!Xor(Gf!Xor(Gf!Xor(b, tb), c), Gf!Xor(d, ta))
<1> SUFFICES ASSUME NEW a, NEW b, NEW c, NEW d, NEW ta, NEW tb
             PROVE
               /\ Gf!Xor(a, Gf!Xor(Gf!Xor(Gf!Xor(a, b), Gf!Xor(c, d)), Gf!Xor(ta, tb)))
                    = Gf!Xor(Gf!Xor(ta, Gf!Xor(b, tb)), Gf!Xor(c, d))
               /\ Gf!Xor(a, Gf!Xor(Gf!Xor(Gf!Xor(d, a), Gf!Xor(b, c)), Gf!Xor(ta, tb)))
                    = Gf!Xor(Gf!Xor(d, ta), Gf!Xor(Gf!Xor(b, tb), c))
               /\ Gf!Xor(a, Gf!Xor(Gf!Xor(Gf!Xor(c, d), Gf!Xor(a, b)), Gf!Xor(ta, tb)))
                    = Gf!Xor(Gf!Xor(c, d), Gf!Xor(ta, Gf!Xor(b, tb)))
               /\ Gf!Xor(a, Gf!Xor(Gf!Xor(Gf!Xor(b, c), Gf!Xor(d, a)), Gf!Xor(ta, tb)))
                    = Gf!Xor(Gf!Xor(Gf!Xor(b, tb), c), Gf!Xor(d, ta))
  OBVIOUS
<1>1. \A x, y, e : e \in Gf!Xor(x, y) <=> ~ (e \in x <=> e \in y)
  BY DEF Gf!Xor
<1>2. Gf!Xor(a, Gf!Xor(Gf!Xor(Gf!Xor(a, b), Gf!Xor(c, d)), Gf!Xor(ta, tb)))
       = Gf!Xor(Gf!Xor(ta, Gf!Xor(b, tb)), Gf!Xor(c, d))
  <2>1. \A e : e \in Gf!Xor(a, Gf!Xor(Gf!Xor(Gf!Xor(a, b), Gf!Xor(c, d)), Gf!Xor(ta, tb)))
                <=> e \in Gf!Xor(Gf!Xor(ta, Gf!Xor(b, tb)), Gf!Xor(c, d))
    BY <1>1
  <2>2. QED
    BY <2>1
<1>3. Gf!Xor(a, Gf!Xor(Gf!Xor(Gf!Xor(d, a), Gf!Xor(b, c)), Gf!Xor(ta, tb)))
       = Gf!Xor(Gf!Xor(d, ta), Gf!Xor(Gf!Xor(b, tb), c))
  <2>1. \A e : e \in Gf!Xor(a, Gf!Xor(Gf!Xor(Gf!Xor(d, a), Gf!Xor(b, c)), Gf!Xor(ta, tb)))
                <=> e \in Gf!Xor(Gf!Xor(d, ta), Gf!Xor(Gf!Xor(b, tb), c))
    BY <1>1
  <2>2. QED
    BY <2>1
<1>4. Gf!Xor(a, Gf!Xor(Gf!Xor(Gf!Xor(c, d), Gf!Xor(a, b)), Gf!Xor(ta, tb)))
       = Gf!Xor(Gf!Xor(c, d), Gf!Xor(ta, Gf!Xor(b, tb)))
  <2>1. \A e : e \in Gf!Xor(a, Gf!Xor(Gf!Xor(Gf!Xor(c, d), Gf!Xor(a, b)), Gf!Xor(ta, tb)))
                <=> e \in Gf!Xor(Gf!Xor(c, d), Gf!Xor(ta, Gf!Xor(b, tb)))
    BY <1>1
  <2>2. QED
    BY <2>1
<1>5. Gf!Xor(a, Gf!Xor(Gf!Xor(Gf!Xor(b, c), Gf!Xor(d, a)), Gf!Xor(ta, tb)))
       = Gf!Xor(Gf!Xor(Gf!Xor(b, tb), c), Gf!Xor(d, ta))
  <2>1. \A e : e \in Gf!Xor(a, Gf!Xor(Gf!Xor(Gf!Xor(b, c), Gf!Xor(d, a)), Gf!Xor(ta, tb)))
                <=> e \in Gf!Xor(Gf!Xor(Gf!Xor(b, tb), c), Gf!Xor(d, ta))
    BY <1>1
  <2>2. QED
    BY <2>1
<1>6. QED
  BY <1>2, <1>3, <1>4, <1>5

\* MixColumns() multiplies by the polynomial of the standard.
LEMMA MixSame ==
  ASSUME NEW s, IsBlock(s)
  PROVE  Mat(Code8!MixColumns(s)) = Aes8Is!MixColumns(Mat(s))
<1> DEFINE row == <<2, 3, 1, 1>>
           mixed == Aes8Is!Mixed(Mat(s), row)
<1>1. Aes8Is!MixColumns(Mat(s)) = mixed
  BY DEF Aes8Is!MixColumns
<1>2. IsMatrix(mixed)
  BY Zenon DEF Aes8Is!Mixed, Aes8Is!Places, IsMatrix
<1>3. /\ Row(row, 0, 0) = Gf!Byte(2) /\ Row(row, 0, 1) = Gf!Byte(3)
      /\ Row(row, 0, 2) = Gf!Byte(1) /\ Row(row, 0, 3) = Gf!Byte(1)
      /\ Row(row, 1, 0) = Gf!Byte(1) /\ Row(row, 1, 1) = Gf!Byte(2)
      /\ Row(row, 1, 2) = Gf!Byte(3) /\ Row(row, 1, 3) = Gf!Byte(1)
      /\ Row(row, 2, 0) = Gf!Byte(1) /\ Row(row, 2, 1) = Gf!Byte(1)
      /\ Row(row, 2, 2) = Gf!Byte(2) /\ Row(row, 2, 3) = Gf!Byte(3)
      /\ Row(row, 3, 0) = Gf!Byte(3) /\ Row(row, 3, 1) = Gf!Byte(1)
      /\ Row(row, 3, 2) = Gf!Byte(1) /\ Row(row, 3, 3) = Gf!Byte(2)
  BY RowsAre
<1>4. ASSUME NEW r \in 0 .. 3, NEW c \in 0 .. 3
      PROVE  Code8!MixColumns(s)[r + 4 * c] = mixed[<<r, c>>]
  <2>1. /\ 0 + 4 * c \in Sixteen /\ 1 + 4 * c \in Sixteen /\ 2 + 4 * c \in Sixteen /\ 3 + 4 * c \in Sixteen
    BY DEF Sixteen
  <2>2. PICK a0 \in Gf!Bytes, a1 \in Gf!Bytes, a2 \in Gf!Bytes, a3 \in Gf!Bytes :
          a0 = s[0 + 4 * c] /\ a1 = s[1 + 4 * c] /\ a2 = s[2 + 4 * c] /\ a3 = s[3 + 4 * c]
    BY <2>1 DEF IsBlock
  <2> DEFINE sum == Gf!Xor(Gf!Xor(a0, a1), Gf!Xor(a2, a3))
  <2>3. /\ Code8!MixColumns(s)[0 + 4 * c] = MixedByte(a0, a1, sum)
        /\ Code8!MixColumns(s)[1 + 4 * c] = MixedByte(a1, a2, sum)
        /\ Code8!MixColumns(s)[2 + 4 * c] = MixedByte(a2, a3, sum)
        /\ Code8!MixColumns(s)[3 + 4 * c] = MixedByte(a3, a0, sum)
    BY <2>2, CodeMixes
  <2>4. mixed[<<r, c>>] = Gf!Xor(Gf!Xor(Gf!Product(Row(row, r, 0), a0), Gf!Product(Row(row, r, 1), a1)),
                                 Gf!Xor(Gf!Product(Row(row, r, 2), a2), Gf!Product(Row(row, r, 3), a3)))
    BY <2>2, ReferenceMixes
  <2>5. \A x \in Gf!Bytes : /\ Gf!Product(Gf!Byte(1), x) = x
                            /\ Gf!Product(Gf!Byte(2), x) = Gf!ByteTimes2(x)
                            /\ Gf!Product(Gf!Byte(3), x) = Gf!Xor(x, Gf!ByteTimes2(x))
    BY Products DEF Times2
  <2>6. \A x, y \in Gf!Bytes : MixedByte(x, y, sum) = Gf!Xor(x, Gf!Xor(sum, Gf!Xor(Gf!ByteTimes2(x), Gf!ByteTimes2(y))))
    BY Times2Adds DEF MixedByte
  <2> DEFINE t0 == Gf!ByteTimes2(a0)
             t1 == Gf!ByteTimes2(a1)
             t2 == Gf!ByteTimes2(a2)
             t3 == Gf!ByteTimes2(a3)
  <2>7. /\ MixedByte(a0, a1, sum) = Gf!Xor(a0, Gf!Xor(sum, Gf!Xor(t0, t1)))
        /\ MixedByte(a1, a2, sum) = Gf!Xor(a1, Gf!Xor(sum, Gf!Xor(t1, t2)))
        /\ MixedByte(a2, a3, sum) = Gf!Xor(a2, Gf!Xor(sum, Gf!Xor(t2, t3)))
        /\ MixedByte(a3, a0, sum) = Gf!Xor(a3, Gf!Xor(sum, Gf!Xor(t3, t0)))
    BY <2>6
  <2>8. CASE r = 0
    <3>1. mixed[<<r, c>>] = Gf!Xor(Gf!Xor(t0, Gf!Xor(a1, t1)), Gf!Xor(a2, a3))
      <4> HIDE DEF row, mixed
      <4>1. QED
        BY <1>3, <2>4, <2>5, <2>8
    <3>2. Gf!Xor(a0, Gf!Xor(sum, Gf!Xor(t0, t1))) = Gf!Xor(Gf!Xor(t0, Gf!Xor(a1, t1)), Gf!Xor(a2, a3))
      BY SumsSame
    <3> HIDE DEF mixed, sum
    <3>3. QED
      BY <2>3, <2>7, <2>8, <3>1, <3>2
  <2>9. CASE r = 1
    <3>1. mixed[<<r, c>>] = Gf!Xor(Gf!Xor(a0, t1), Gf!Xor(Gf!Xor(a2, t2), a3))
      <4> HIDE DEF row, mixed
      <4>1. QED
        BY <1>3, <2>4, <2>5, <2>9
    <3>2. Gf!Xor(a1, Gf!Xor(sum, Gf!Xor(t1, t2))) = Gf!Xor(Gf!Xor(a0, t1), Gf!Xor(Gf!Xor(a2, t2), a3))
      BY SumsSame
    <3> HIDE DEF mixed, sum
    <3>3. QED
      BY <2>3, <2>7, <2>9, <3>1, <3>2
  <2>10. CASE r = 2
    <3>1. mixed[<<r, c>>] = Gf!Xor(Gf!Xor(a0, a1), Gf!Xor(t2, Gf!Xor(a3, t3)))
      <4> HIDE DEF row, mixed
      <4>1. QED
        BY <1>3, <2>4, <2>5, <2>10
    <3>2. Gf!Xor(a2, Gf!Xor(sum, Gf!Xor(t2, t3))) = Gf!Xor(Gf!Xor(a0, a1), Gf!Xor(t2, Gf!Xor(a3, t3)))
      BY SumsSame
    <3> HIDE DEF mixed, sum
    <3>3. QED
      BY <2>3, <2>7, <2>10, <3>1, <3>2
  <2>11. CASE r = 3
    <3>1. mixed[<<r, c>>] = Gf!Xor(Gf!Xor(Gf!Xor(a0, t0), a1), Gf!Xor(a2, t3))
      <4> HIDE DEF row, mixed
      <4>1. QED
        BY <1>3, <2>4, <2>5, <2>11
    <3>2. Gf!Xor(a3, Gf!Xor(sum, Gf!Xor(t3, t0))) = Gf!Xor(Gf!Xor(Gf!Xor(a0, t0), a1), Gf!Xor(a2, t3))
      BY SumsSame
    <3> HIDE DEF mixed, sum
    <3>3. QED
      BY <2>3, <2>7, <2>11, <3>1, <3>2
  <2>12. r = 0 \/ r = 1 \/ r = 2 \/ r = 3
    OBVIOUS
  <2>13. QED
    BY <2>8, <2>9, <2>10, <2>11, <2>12
<1> HIDE DEF mixed
<1>5. \A p \in (0 .. 3) \X (0 .. 3) : Mat(Code8!MixColumns(s))[p] = mixed[p]
  <2> SUFFICES ASSUME NEW p \in (0 .. 3) \X (0 .. 3) PROVE Mat(Code8!MixColumns(s))[p] = mixed[p]
    OBVIOUS
  <2>1. PICK r \in 0 .. 3, c \in 0 .. 3 : p = <<r, c>>
    OBVIOUS
  <2>2. Code8!MixColumns(s)[r + 4 * c] = mixed[<<r, c>>]
    BY <1>4
  <2>3. Mat(Code8!MixColumns(s))[<<r, c>>] = Code8!MixColumns(s)[r + 4 * c]
    BY MatIs
  <2>4. QED
    BY <2>1, <2>2, <2>3
<1>6. QED
  BY <1>1, <1>2, <1>5, SamePlaces

\* What InvMixColumns() makes of a column, from the byte that is made on.
Unmixed(a, b, c, d) ==
  Gf!Xor(Gf!Xor(Gf!Times(a, Gf!Byte(14), FALSE), Gf!Times(b, Gf!Byte(11), FALSE)),
         Gf!Xor(Gf!Times(c, Gf!Byte(13), FALSE), Gf!Times(d, Gf!Byte(9), FALSE)))

LEMMA CodeUnmixes ==
  ASSUME NEW s, NEW c \in 0 .. 3, NEW a0, NEW a1, NEW a2, NEW a3,
         a0 = s[0 + 4 * c], a1 = s[1 + 4 * c], a2 = s[2 + 4 * c], a3 = s[3 + 4 * c]
  PROVE  /\ Code8!InvMixColumns(s)[0 + 4 * c] = Unmixed(a0, a1, a2, a3)
         /\ Code8!InvMixColumns(s)[1 + 4 * c] = Unmixed(a1, a2, a3, a0)
         /\ Code8!InvMixColumns(s)[2 + 4 * c] = Unmixed(a2, a3, a0, a1)
         /\ Code8!InvMixColumns(s)[3 + 4 * c] = Unmixed(a3, a0, a1, a2)
<1> DEFINE p(m, k) == s[4 * (m \div 4) + ((m + k) % 4)]
<1>1. \A m \in 0 .. 15 : Code8!InvMixColumns(s)[m] = Unmixed(p(m, 0), p(m, 1), p(m, 2), p(m, 3))
  BY SameField, Zenon DEF Code8!InvMixColumns, Code8!Block, Unmixed
<1>2. ASSUME NEW r \in 0 .. 3
      PROVE  Code8!InvMixColumns(s)[r + 4 * c]
               = Unmixed(s[4 * c + ((r + 0) % 4)], s[4 * c + ((r + 1) % 4)],
                         s[4 * c + ((r + 2) % 4)], s[4 * c + ((r + 3) % 4)])
  <2> DEFINE m == r + 4 * c
  <2>1. m \in 0 .. 15 /\ m \div 4 = c
    OBVIOUS
  <2>2. /\ (m + 0) % 4 = (r + 0) % 4 /\ (m + 1) % 4 = (r + 1) % 4
        /\ (m + 2) % 4 = (r + 2) % 4 /\ (m + 3) % 4 = (r + 3) % 4
    OBVIOUS
  <2>3. /\ p(m, 0) = s[4 * c + ((r + 0) % 4)] /\ p(m, 1) = s[4 * c + ((r + 1) % 4)]
        /\ p(m, 2) = s[4 * c + ((r + 2) % 4)] /\ p(m, 3) = s[4 * c + ((r + 3) % 4)]
    BY <2>1, <2>2
  <2> HIDE DEF m, p
  <2>4. Code8!InvMixColumns(s)[m] = Unmixed(p(m, 0), p(m, 1), p(m, 2), p(m, 3))
    BY <1>1, <2>1
  <2>5. QED
    BY <2>3, <2>4 DEF m
<1>3. Code8!InvMixColumns(s)[0 + 4 * c] = Unmixed(a0, a1, a2, a3)
  <2>1. /\ 0 \in 0 .. 3 /\ 4 * c + ((0 + 0) % 4) = 0 + 4 * c /\ 4 * c + ((0 + 1) % 4) = 1 + 4 * c
        /\ 4 * c + ((0 + 2) % 4) = 2 + 4 * c /\ 4 * c + ((0 + 3) % 4) = 3 + 4 * c
    OBVIOUS
  <2>2. QED
    BY <1>2, <2>1
<1>4. Code8!InvMixColumns(s)[1 + 4 * c] = Unmixed(a1, a2, a3, a0)
  <2>1. /\ 1 \in 0 .. 3 /\ 4 * c + ((1 + 0) % 4) = 1 + 4 * c /\ 4 * c + ((1 + 1) % 4) = 2 + 4 * c
        /\ 4 * c + ((1 + 2) % 4) = 3 + 4 * c /\ 4 * c + ((1 + 3) % 4) = 0 + 4 * c
    OBVIOUS
  <2>2. QED
    BY <1>2, <2>1
<1>5. Code8!InvMixColumns(s)[2 + 4 * c] = Unmixed(a2, a3, a0, a1)
  <2>1. /\ 2 \in 0 .. 3 /\ 4 * c + ((2 + 0) % 4) = 2 + 4 * c /\ 4 * c + ((2 + 1) % 4) = 3 + 4 * c
        /\ 4 * c + ((2 + 2) % 4) = 0 + 4 * c /\ 4 * c + ((2 + 3) % 4) = 1 + 4 * c
    OBVIOUS
  <2>2. QED
    BY <1>2, <2>1
<1>6. Code8!InvMixColumns(s)[3 + 4 * c] = Unmixed(a3, a0, a1, a2)
  <2>1. /\ 3 \in 0 .. 3 /\ 4 * c + ((3 + 0) % 4) = 3 + 4 * c /\ 4 * c + ((3 + 1) % 4) = 0 + 4 * c
        /\ 4 * c + ((3 + 2) % 4) = 1 + 4 * c /\ 4 * c + ((3 + 3) % 4) = 2 + 4 * c
    OBVIOUS
  <2>2. QED
    BY <1>2, <2>1
<1>7. QED
  BY <1>3, <1>4, <1>5, <1>6

\* The loops over the bits of the factor give the products of the field.
LEMMA TimesProducts ==
  ASSUME NEW x \in Gf!Bytes
  PROVE  /\ Gf!Times(x, Gf!Byte(9), FALSE) = Gf!Product(Gf!Byte(9), x)
         /\ Gf!Times(x, Gf!Byte(11), FALSE) = Gf!Product(Gf!Byte(11), x)
         /\ Gf!Times(x, Gf!Byte(13), FALSE) = Gf!Product(Gf!Byte(13), x)
         /\ Gf!Times(x, Gf!Byte(14), FALSE) = Gf!Product(Gf!Byte(14), x)
<1>1. x \in SUBSET (0 .. 31)
  BY DEF Gf!Bytes
<1>2. \A y : Twice(y, FALSE) = Times2(y)
  BY DEF Twice, Times2
<1>3. /\ Gf!Times(x, Gf!Byte(9), FALSE) = Gf!Xor(x, Twice(Twice(Twice(x, FALSE), FALSE), FALSE))
      /\ Gf!Times(x, Gf!Byte(11), FALSE) =
           Gf!Xor(Gf!Xor(x, Twice(x, FALSE)), Twice(Twice(Twice(x, FALSE), FALSE), FALSE))
      /\ Gf!Times(x, Gf!Byte(13), FALSE) =
           Gf!Xor(Gf!Xor(x, Twice(Twice(x, FALSE), FALSE)), Twice(Twice(Twice(x, FALSE), FALSE), FALSE))
      /\ Gf!Times(x, Gf!Byte(14), FALSE) =
           Gf!Xor(Gf!Xor(Twice(x, FALSE), Twice(Twice(x, FALSE), FALSE)),
                  Twice(Twice(Twice(x, FALSE), FALSE), FALSE))
  BY <1>1, TimesConstants
<1> DEFINE t1 == Times2(x)
           t2 == Times2(Times2(x))
           t3 == Times2(Times2(Times2(x)))
<1>4. /\ Twice(x, FALSE) = t1 /\ Twice(Twice(x, FALSE), FALSE) = t2
      /\ Twice(Twice(Twice(x, FALSE), FALSE), FALSE) = t3
  BY <1>2
<1>5. /\ Gf!Product(Gf!Byte(9), x) = Gf!Xor(x, t3)
      /\ Gf!Product(Gf!Byte(11), x) = Gf!Xor(Gf!Xor(x, t1), t3)
      /\ Gf!Product(Gf!Byte(13), x) = Gf!Xor(Gf!Xor(x, t2), t3)
      /\ Gf!Product(Gf!Byte(14), x) = Gf!Xor(Gf!Xor(t1, t2), t3)
  BY Products
<1> HIDE DEF t1, t2, t3
<1>6. QED
  BY <1>3, <1>4, <1>5, Zenon

\* A sum of four may begin anywhere.
SumTurned(a, b, c, d) ==
  /\ Gf!Xor(Gf!Xor(a, b), Gf!Xor(c, d)) = Gf!Xor(Gf!Xor(d, a), Gf!Xor(b, c))
  /\ Gf!Xor(Gf!Xor(a, b), Gf!Xor(c, d)) = Gf!Xor(Gf!Xor(c, d), Gf!Xor(a, b))
  /\ Gf!Xor(Gf!Xor(a, b), Gf!Xor(c, d)) = Gf!Xor(Gf!Xor(b, c), Gf!Xor(d, a))

LEMMA SumTurns == \A a, b, c, d : SumTurned(a, b, c, d)
BY DEF Gf!Xor, SumTurned

\* InvMixColumns() does so by the inverse of the polynomial.
LEMMA UnmixSame ==
  ASSUME NEW s, IsBlock(s)
  PROVE  Mat(Code8!InvMixColumns(s)) = Aes8Is!InvMixColumns(Mat(s))
<1> DEFINE row == <<14, 11, 13, 9>>
           mixed == Aes8Is!Mixed(Mat(s), row)
<1>1. Aes8Is!InvMixColumns(Mat(s)) = mixed
  BY DEF Aes8Is!InvMixColumns
<1>2. IsMatrix(mixed)
  BY Zenon DEF Aes8Is!Mixed, Aes8Is!Places, IsMatrix
<1>3. /\ Row(row, 0, 0) = Gf!Byte(14) /\ Row(row, 0, 1) = Gf!Byte(11)
      /\ Row(row, 0, 2) = Gf!Byte(13) /\ Row(row, 0, 3) = Gf!Byte(9)
      /\ Row(row, 1, 0) = Gf!Byte(9) /\ Row(row, 1, 1) = Gf!Byte(14)
      /\ Row(row, 1, 2) = Gf!Byte(11) /\ Row(row, 1, 3) = Gf!Byte(13)
      /\ Row(row, 2, 0) = Gf!Byte(13) /\ Row(row, 2, 1) = Gf!Byte(9)
      /\ Row(row, 2, 2) = Gf!Byte(14) /\ Row(row, 2, 3) = Gf!Byte(11)
      /\ Row(row, 3, 0) = Gf!Byte(11) /\ Row(row, 3, 1) = Gf!Byte(13)
      /\ Row(row, 3, 2) = Gf!Byte(9) /\ Row(row, 3, 3) = Gf!Byte(14)
  BY RowsAre
<1>4. ASSUME NEW r \in 0 .. 3, NEW c \in 0 .. 3
      PROVE  Code8!InvMixColumns(s)[r + 4 * c] = mixed[<<r, c>>]
  <2>1. /\ 0 + 4 * c \in Sixteen /\ 1 + 4 * c \in Sixteen /\ 2 + 4 * c \in Sixteen /\ 3 + 4 * c \in Sixteen
    BY DEF Sixteen
  <2>2. PICK a0 \in Gf!Bytes, a1 \in Gf!Bytes, a2 \in Gf!Bytes, a3 \in Gf!Bytes :
          a0 = s[0 + 4 * c] /\ a1 = s[1 + 4 * c] /\ a2 = s[2 + 4 * c] /\ a3 = s[3 + 4 * c]
    BY <2>1 DEF IsBlock
  <2>3. /\ Code8!InvMixColumns(s)[0 + 4 * c] = Unmixed(a0, a1, a2, a3)
        /\ Code8!InvMixColumns(s)[1 + 4 * c] = Unmixed(a1, a2, a3, a0)
        /\ Code8!InvMixColumns(s)[2 + 4 * c] = Unmixed(a2, a3, a0, a1)
        /\ Code8!InvMixColumns(s)[3 + 4 * c] = Unmixed(a3, a0, a1, a2)
    BY <2>2, CodeUnmixes
  <2>4. mixed[<<r, c>>] = Gf!Xor(Gf!Xor(Gf!Product(Row(row, r, 0), a0), Gf!Product(Row(row, r, 1), a1)),
                                 Gf!Xor(Gf!Product(Row(row, r, 2), a2), Gf!Product(Row(row, r, 3), a3)))
    BY <2>2, ReferenceMixes
  <2> DEFINE P(m, x) == Gf!Product(Gf!Byte(m), x)
  <2>5. \A w, x, y, z \in Gf!Bytes :
          Unmixed(w, x, y, z) = Gf!Xor(Gf!Xor(P(14, w), P(11, x)), Gf!Xor(P(13, y), P(9, z)))
    BY TimesProducts DEF Unmixed
  <2>6. SumTurned(P(14, a0), P(11, a1), P(13, a2), P(9, a3)) /\ SumTurned(P(14, a1), P(11, a2), P(13, a3), P(9, a0))
        /\ SumTurned(P(14, a2), P(11, a3), P(13, a0), P(9, a1)) /\ SumTurned(P(14, a3), P(11, a0), P(13, a1), P(9, a2))
    BY SumTurns
  <2> HIDE DEF mixed
  <2>7. CASE r = 0
    <3>1. mixed[<<r, c>>] = Gf!Xor(Gf!Xor(P(14, a0), P(11, a1)), Gf!Xor(P(13, a2), P(9, a3)))
      <4> HIDE DEF row
      <4>1. QED
        BY <1>3, <2>4, <2>7
    <3>2. Unmixed(a0, a1, a2, a3) = Gf!Xor(Gf!Xor(P(14, a0), P(11, a1)), Gf!Xor(P(13, a2), P(9, a3)))
      BY <2>5
    <3>3. QED
      BY <2>3, <2>7, <3>1, <3>2
  <2>8. CASE r = 1
    <3>1. mixed[<<r, c>>] = Gf!Xor(Gf!Xor(P(9, a0), P(14, a1)), Gf!Xor(P(11, a2), P(13, a3)))
      <4> HIDE DEF row
      <4>1. QED
        BY <1>3, <2>4, <2>8
    <3>2. Unmixed(a1, a2, a3, a0) = Gf!Xor(Gf!Xor(P(14, a1), P(11, a2)), Gf!Xor(P(13, a3), P(9, a0)))
      BY <2>5
    <3> HIDE DEF P
    <3>3. QED
      BY <2>3, <2>6, <2>8, <3>1, <3>2 DEF SumTurned
  <2>9. CASE r = 2
    <3>1. mixed[<<r, c>>] = Gf!Xor(Gf!Xor(P(13, a0), P(9, a1)), Gf!Xor(P(14, a2), P(11, a3)))
      <4> HIDE DEF row
      <4>1. QED
        BY <1>3, <2>4, <2>9
    <3>2. Unmixed(a2, a3, a0, a1) = Gf!Xor(Gf!Xor(P(14, a2), P(11, a3)), Gf!Xor(P(13, a0), P(9, a1)))
      BY <2>5
    <3> HIDE DEF P
    <3>3. QED
      BY <2>3, <2>6, <2>9, <3>1, <3>2 DEF SumTurned
  <2>10. CASE r = 3
    <3>1. mixed[<<r, c>>] = Gf!Xor(Gf!Xor(P(11, a0), P(13, a1)), Gf!Xor(P(9, a2), P(14, a3)))
      <4> HIDE DEF row
      <4>1. QED
        BY <1>3, <2>4, <2>10
    <3>2. Unmixed(a3, a0, a1, a2) = Gf!Xor(Gf!Xor(P(14, a3), P(11, a0)), Gf!Xor(P(13, a1), P(9, a2)))
      BY <2>5
    <3> HIDE DEF P
    <3>3. QED
      BY <2>3, <2>6, <2>10, <3>1, <3>2 DEF SumTurned
  <2>11. r = 0 \/ r = 1 \/ r = 2 \/ r = 3
    OBVIOUS
  <2>12. QED
    BY <2>7, <2>8, <2>9, <2>10, <2>11
<1> HIDE DEF mixed
<1>5. \A p \in (0 .. 3) \X (0 .. 3) : Mat(Code8!InvMixColumns(s))[p] = mixed[p]
  <2> SUFFICES ASSUME NEW p \in (0 .. 3) \X (0 .. 3) PROVE Mat(Code8!InvMixColumns(s))[p] = mixed[p]
    OBVIOUS
  <2>1. PICK r \in 0 .. 3, c \in 0 .. 3 : p = <<r, c>>
    OBVIOUS
  <2>2. Code8!InvMixColumns(s)[r + 4 * c] = mixed[<<r, c>>]
    BY <1>4
  <2>3. Mat(Code8!InvMixColumns(s))[<<r, c>>] = Code8!InvMixColumns(s)[r + 4 * c]
    BY MatIs
  <2>4. QED
    BY <2>1, <2>2, <2>3
<1>6. QED
  BY <1>1, <1>2, <1>5, SamePlaces

-----------------------------------------------------------------------------
(* The words of the schedule *)

\* Eleven iterations of the schedule of the key, of which the rounds use 4 * (nk + 7) words.
IsKeySchedule(V, nk) ==
  /\ V \in [1 .. 11 * nk -> Quads]
  /\ \A k \in 1 .. nk : V[k] = Code8!KeyWord(k - 1)
  /\ \A k \in (nk + 1) .. 11 * nk : V[k] = Code8!XorBytes(V[k - nk], OfKey(nk, k, V[k - 1]))
Used(V, nk) == [k \in 1 .. 4 * (nk + 7) |-> V[k]]

\* What is appended stays.
LEMMA PrefixStays ==
  ASSUME NEW a \in Nat, a > 0, NEW n \in Nat, a <= n, NEW S, NEW base, NEW G, NEW u, Grown(u, a, n, S, base, G),
         NEW j \in a .. n, NEW k \in 1 .. j
  PROVE  u[n][k] = u[j][k]
<1> DEFINE h == [m \in j .. n |-> u[m][k]]
           held == {u[j][k]}
<1>1. h[j] \in held
  OBVIOUS
<1>2. ASSUME NEW m \in (j + 1) .. n, h[m - 1] \in held PROVE h[m] \in held
  <2>1. m \in (a + 1) .. n /\ m - 1 \in a .. n /\ m \in j .. n /\ m - 1 \in j .. n /\ k \in 1 .. (m - 1)
    OBVIOUS
  <2> DEFINE e == G[<<m, u[m - 1][m - a], u[m - 1][m - 1]>>]
  <2>2. u[m] = Append(u[m - 1], e) /\ u[m - 1] \in [1 .. (m - 1) -> S]
    BY <2>1 DEF Grown
  <2> HIDE DEF e
  <2>3. u[m][k] = u[m - 1][k]
    <3>1. u[m - 1] \in Seq(S) /\ Len(u[m - 1]) = m - 1
      BY <2>1, <2>2
    <3>2. QED
      BY <2>1, <2>2, <3>1
  <2>4. h[m] = u[m][k] /\ h[m - 1] = u[m - 1][k]
    BY <2>1
  <2>5. QED
    BY <1>2, <2>3, <2>4
<1>3. \A m \in j .. n : h[m] \in held
  <2>1. j \in Int /\ n \in Int
    OBVIOUS
  <2> HIDE DEF h, held
  <2>2. QED
    BY <1>1, <1>2, <2>1, Stays
<1>4. n \in j .. n
  OBVIOUS
<1>5. QED
  BY <1>3, <1>4

LEMMA KeyWords ==
  ASSUME NEW nk \in {4, 6, 8}, aes_key \in [0 .. 4 * nk - 1 -> Gf!Bytes], NEW k \in 1 .. nk
  PROVE  /\ Code8!KeyWord(k - 1) = [m \in 1 .. 4 |-> aes_key[4 * k + m - 5]]
         /\ Code8!KeyWord(k - 1) \in Quads
<1>1. Code8!KeyWord(k - 1) = [m \in 1 .. 4 |-> aes_key[4 * (k - 1) + m - 1]]
  BY DEF Code8!KeyWord
<1>2. \A m \in 1 .. 4 : 4 * (k - 1) + m - 1 = 4 * k + m - 5 /\ 4 * k + m - 5 \in 0 .. 4 * nk - 1
  OBVIOUS
<1>3. Code8!KeyWord(k - 1) = [m \in 1 .. 4 |-> aes_key[4 * k + m - 5]]
  BY <1>1, <1>2
<1>4. \A m \in 1 .. 4 : aes_key[4 * k + m - 5] \in Gf!Bytes
  BY <1>2
<1>5. QED
  BY <1>3, <1>4 DEF Quads

\* The code expands the same words as the reference.
LEMMA SchedulesSame ==
  ASSUME NEW nk \in {4, 6, 8}, aes_key \in [0 .. 4 * nk - 1 -> Gf!Bytes],
         NEW k0, \A m \in 0 .. nk - 1 : k0[m] = Code8!KeyWord(m)
  PROVE  \E V : /\ IsKeySchedule(V, nk)
                /\ Code8!Keys!StoredKeys(nk, k0, 4 * (nk + 7)) = Used(V, nk)
                /\ Aes8Is!KeyExpansion = Used(V, nk)
<1> DEFINE n == 11 * nk
           l == 4 * (nk + 7)
           base == [k \in 1 .. nk |-> Code8!KeyWord(k - 1)]
           G == NextWord(nk)
<1>1. nk \in Nat /\ nk > 0 /\ n \in Nat /\ nk <= n /\ l \in Nat /\ nk <= l /\ l <= n
  OBVIOUS
<1>2. base \in [1 .. nk -> Quads]
  BY KeyWords
<1>3. Grows(G, nk, n, Quads)
  BY NextWordIs
<1>4. PICK u : Grown(u, nk, n, Quads, base, G)
  <2> HIDE DEF n, base, G
  <2>1. QED
    BY <1>1, <1>2, <1>3, Growing
<1> DEFINE V == u[n]
           v == [k \in nk .. l |-> u[k]]
<1>5. Grown(v, nk, l, Quads, base, G)
  <2>1. \A k \in nk .. l : k \in nk .. n /\ v[k] = u[k]
    BY <1>1
  <2>2. \A k \in (nk + 1) .. l : k \in (nk + 1) .. n /\ k \in nk .. l /\ k - 1 \in nk .. l
    BY <1>1
  <2>3. nk \in nk .. l
    BY <1>1
  <2>4. u[nk] = base /\ \A k \in nk .. n : u[k] \in [1 .. k -> Quads]
    BY <1>4 DEF Grown
  <2>5. \A k \in (nk + 1) .. n : u[k] = Append(u[k - 1], G[<<k, u[k - 1][k - nk], u[k - 1][k - 1]>>])
    BY <1>4 DEF Grown
  <2> HIDE DEF G, base, n, l
  <2>6. v = [k \in nk .. l |-> v[k]]
    BY <2>1
  <2> HIDE DEF v
  <2>7. v[nk] = base
    BY <2>1, <2>3, <2>4
  <2>8. \A k \in (nk + 1) .. l : v[k] = Append(v[k - 1], G[<<k, v[k - 1][k - nk], v[k - 1][k - 1]>>])
    BY <2>1, <2>2, <2>5
  <2>9. \A k \in nk .. l : v[k] \in [1 .. k -> Quads]
    BY <2>1, <2>4
  <2>10. QED
    BY <2>6, <2>7, <2>8, <2>9 DEF Grown
<1>6. \A j \in nk .. n : \A k \in 1 .. j : V[k] = u[j][k]
  <2> HIDE DEF n, base, G
  <2>1. QED
    BY <1>1, <1>4, PrefixStays
<1>7. v[l] = Used(V, nk)
  <2>1. l \in nk .. l /\ l \in nk .. n
    BY <1>1
  <2>2. v[l] = u[l] /\ u[l] \in [1 .. l -> Quads]
    BY <1>4, <2>1 DEF Grown
  <2>3. \A k \in 1 .. l : V[k] = u[l][k]
    BY <1>6, <2>1
  <2> HIDE DEF V, v
  <2>4. QED
    BY <2>2, <2>3 DEF Used
<1>8. Code8!Keys!StoredKeys(nk, k0, 4 * (nk + 7)) = v[l]
  <2>1. \A k \in 1 .. nk : base[k] = k0[k - 1]
    OBVIOUS
  <2> HIDE DEF v, base
  <2>2. QED
    BY <1>2, <1>5, <2>1, StoredIs
<1>9. Aes8Is!KeyExpansion = v[l]
  <2>1. \A j \in 1 .. nk : base[j] = [k \in 1 .. 4 |-> aes_key[4 * j + k - 5]]
    BY KeyWords
  <2> HIDE DEF v, base
  <2>2. QED
    BY <1>2, <1>5, <2>1, ReferenceIs
<1>10. IsKeySchedule(V, nk)
  <2>1. nk \in nk .. n /\ n \in nk .. n
    BY <1>1
  <2>2. V \in [1 .. 11 * nk -> Quads]
    BY <1>4, <2>1 DEF Grown
  <2>3. ASSUME NEW k \in 1 .. nk PROVE V[k] = Code8!KeyWord(k - 1)
    <3>1. V[k] = u[nk][k] /\ u[nk] = base
      BY <1>4, <1>6, <2>1 DEF Grown
    <3>2. QED
      BY <3>1
  <2>4. ASSUME NEW k \in (nk + 1) .. 11 * nk
        PROVE  V[k] = Code8!XorBytes(V[k - nk], OfKey(nk, k, V[k - 1]))
    <3>1. /\ k \in nk .. n /\ k - 1 \in nk .. n /\ k \in 1 .. k
          /\ k - nk \in 1 .. (k - 1) /\ k - 1 \in 1 .. (k - 1)
      BY <1>1
    <3>2. V[k] = u[k][k] /\ V[k - nk] = u[k - 1][k - nk] /\ V[k - 1] = u[k - 1][k - 1]
      BY <1>6, <3>1
    <3>3. /\ u[k] = Append(u[k - 1], G[<<k, u[k - 1][k - nk], u[k - 1][k - 1]>>])
          /\ u[k - 1] \in [1 .. (k - 1) -> Quads]
      BY <1>4, <3>1 DEF Grown
    <3> HIDE DEF G, V
    <3>4. u[k][k] = G[<<k, V[k - nk], V[k - 1]>>]
      <4> DEFINE e == G[<<k, V[k - nk], V[k - 1]>>]
      <4>1. u[k] = Append(u[k - 1], e)
        BY <3>2, <3>3
      <4> HIDE DEF e
      <4>2. u[k - 1] \in Seq(Quads) /\ Len(u[k - 1]) = k - 1 /\ k - 1 \in Nat
        BY <3>1, <3>3
      <4>3. u[k][k] = e
        BY <4>1, <4>2
      <4>4. QED
        BY <4>3 DEF e
    <3>5. V[k - nk] \in Quads /\ V[k - 1] \in Quads
      BY <3>1, <3>2, <3>3
    <3>6. QED
      BY <3>2, <3>4, <3>5, NextWordIs DEF G
  <2>5. QED
    BY <2>2, <2>3, <2>4 DEF IsKeySchedule
<1> HIDE DEF V, v
<1>11. QED
  BY <1>7, <1>8, <1>9, <1>10

-----------------------------------------------------------------------------
(* The buffer in which the words are expanded on the way *)

\* The buffer at an iteration, and on the way to the next one.
BufferAt(V, nk, iter) == [iter_num |-> iter, buf |-> [k \in 0 .. nk - 1 |-> V[iter * nk + k + 1]]]
Midway(V, nk, iter, j) ==
  [k \in 0 .. nk - 1 |-> IF k < j THEN V[(iter + 1) * nk + k + 1] ELSE V[iter * nk + k + 1]]

LEMMA WordPlace ==
  ASSUME NEW nk \in {4, 6, 8}, NEW iter \in 0 .. 10, NEW k \in 0 .. nk - 1
  PROVE  /\ iter * nk + k \in 0 .. 11 * nk - 1 /\ (iter * nk + k) % nk = k /\ (iter * nk + k) \div nk = iter
         /\ iter * nk \in Nat /\ (iter + 1) * nk = iter * nk + nk
<1>1. \A m \in 0 .. 10, l \in 0 .. 3 :
        /\ m * 4 + l \in 0 .. 43 /\ (m * 4 + l) % 4 = l /\ (m * 4 + l) \div 4 = m
        /\ m * 4 \in Nat /\ (m + 1) * 4 = m * 4 + 4
  OBVIOUS
<1>2. \A m \in 0 .. 10, l \in 0 .. 5 :
        /\ m * 6 + l \in 0 .. 65 /\ (m * 6 + l) % 6 = l /\ (m * 6 + l) \div 6 = m
        /\ m * 6 \in Nat /\ (m + 1) * 6 = m * 6 + 6
  OBVIOUS
<1>3. \A m \in 0 .. 10, l \in 0 .. 7 :
        /\ m * 8 + l \in 0 .. 87 /\ (m * 8 + l) % 8 = l /\ (m * 8 + l) \div 8 = m
        /\ m * 8 \in Nat /\ (m + 1) * 8 = m * 8 + 8
  OBVIOUS
<1>4. CASE nk = 4
  <2>1. k \in 0 .. 3 /\ 11 * nk - 1 = 43
    BY <1>4
  <2>2. QED
    BY <1>1, <1>4, <2>1, Zenon
<1>5. CASE nk = 6
  <2>1. k \in 0 .. 5 /\ 11 * nk - 1 = 65
    BY <1>5
  <2>2. QED
    BY <1>2, <1>5, <2>1, Zenon
<1>6. CASE nk = 8
  <2>1. k \in 0 .. 7 /\ 11 * nk - 1 = 87
    BY <1>6
  <2>2. QED
    BY <1>3, <1>6, <2>1, Zenon
<1>7. QED
  BY <1>4, <1>5, <1>6

\* A step makes the word of the next iteration of the one of this, and undoes itself.
LEMMA StepsForthBack ==
  ASSUME NEW nk \in {4, 6, 8}, NEW V, IsKeySchedule(V, nk), NEW iter \in 0 .. 9, NEW j \in 0 .. nk - 1
  PROVE  /\ Code8!Keys!ExpandRoundKey(nk, Midway(V, nk, iter, j), j, iter) = Midway(V, nk, iter, j + 1)
         /\ Code8!Keys!ExpandRoundKey(nk, Midway(V, nk, iter, j + 1), j, iter) = Midway(V, nk, iter, j)
<1>1. PICK b \in Nat : b = iter * nk
  BY WordPlace
<1>2. (iter + 1) * nk = b + nk /\ \A k \in 0 .. nk - 1 : b + k + 1 \in 1 .. 11 * nk /\ b + nk + k + 1 \in 1 .. 11 * nk
  <2>1. iter \in 0 .. 10 /\ iter + 1 \in 0 .. 10
    OBVIOUS
  <2>2. (iter + 1) * nk = b + nk
    BY <1>1, <2>1, WordPlace
  <2>3. \A k \in 0 .. nk - 1 : iter * nk + k \in 0 .. 11 * nk - 1 /\ (iter + 1) * nk + k \in 0 .. 11 * nk - 1
    BY <2>1, WordPlace
  <2>4. \A k \in 0 .. nk - 1 : b + k \in 0 .. 11 * nk - 1 /\ b + nk + k \in 0 .. 11 * nk - 1
    BY <1>1, <2>2, <2>3
  <2>5. QED
    BY <2>2, <2>4
<1>3. \A m : Midway(V, nk, iter, m)
        = [k \in 0 .. nk - 1 |-> IF k < m THEN V[b + nk + k + 1] ELSE V[b + k + 1]]
  BY <1>1, <1>2 DEF Midway
<1> DEFINE w == b + nk + j + 1
           t == OfKey(nk, w, V[w - 1])
<1>4. w \in (nk + 1) .. 11 * nk /\ w - 1 \in 1 .. 11 * nk /\ w - nk = b + j + 1 /\ w - nk \in 1 .. 11 * nk
  BY <1>2
<1>5. V[w] = Code8!XorBytes(V[w - nk], t)
  BY <1>4 DEF IsKeySchedule
<1>6. V[w - nk] \in Quads /\ V[w] \in Quads /\ t \in Quads
  <2>1. V[w - nk] \in Quads /\ V[w] \in Quads /\ V[w - 1] \in Quads
    <3>1. \A m \in 1 .. 11 * nk : V[m] \in Quads
      BY DEF IsKeySchedule
    <3>2. w \in 1 .. 11 * nk
      BY <1>4
    <3> HIDE DEF w
    <3>3. QED
      BY <1>4, <3>1, <3>2
  <2>2. QED
    BY <1>4, <2>1, OfKeyIs
<1>7. t = Code8!Substituted(nk, j, iter, V[w - 1])
  <2>1. w - 1 = (iter + 1) * nk + j /\ iter + 1 \in 0 .. 10
    BY <1>2
  <2>2. ((iter + 1) * nk + j) % nk = j /\ ((iter + 1) * nk + j) \div nk = iter + 1
    BY <2>1, WordPlace
  <2> HIDE DEF w
  <2>3. (w - 1) % nk = j /\ (w - 1) \div nk - 1 = iter
    <3>1. (w - 1) % nk = j /\ (w - 1) \div nk = iter + 1
      BY <2>1, <2>2, Zenon
    <3>2. QED
      BY <3>1
  <2>4. QED
    BY <2>3 DEF OfKey
<1>8. /\ V[w] = Code8!XorBytes(V[w - nk], t)
      /\ V[w - nk] = Code8!XorBytes(V[w], t)
  <2> HIDE DEF w, t
  <2>1. \A x, y \in Quads : Code8!XorBytes(Code8!XorBytes(x, y), y) = x
    <3>1. \A e, f : Gf!Xor(Gf!Xor(e, f), f) = e
      BY DEF Gf!Xor
    <3>2. QED
      BY <3>1, SameXorBytes DEF Quads
  <2>2. QED
    BY <1>5, <1>6, <2>1
<1>9. \A bb : Code8!Keys!ExpandRoundKey(nk, bb, j, iter)
        = [bb EXCEPT ![j] = Code8!XorBytes(bb[j], Code8!Substituted(nk, j, iter, bb[IF j > 0 THEN j - 1 ELSE nk - 1]))]
  BY DEF Code8!Keys!ExpandRoundKey
<1> DEFINE p == IF j > 0 THEN j - 1 ELSE nk - 1
           m0 == Midway(V, nk, iter, j)
           m1 == Midway(V, nk, iter, j + 1)
<1>10. /\ m0[p] = V[w - 1] /\ m1[p] = V[w - 1]
       /\ m0[j] = V[w - nk] /\ m1[j] = V[w]
  BY <1>3
<1>11. m1 = [m0 EXCEPT ![j] = V[w]] /\ m0 = [m1 EXCEPT ![j] = V[w - nk]]
  <2> DEFINE D == 0 .. nk - 1
  <2>1. m0 = [k \in D |-> m0[k]] /\ m1 = [k \in D |-> m1[k]]
    BY <1>3
  <2>2. \A k \in D : k # j => m1[k] = m0[k]
    BY <1>3
  <2>3. j \in D
    OBVIOUS
  <2> HIDE DEF m0, m1, D, w
  <2>4. QED
    BY <1>10, <2>1, <2>2, <2>3
<1> HIDE DEF w, t, p, m0, m1
<1>12. /\ Code8!Keys!ExpandRoundKey(nk, m0, j, iter) = [m0 EXCEPT ![j] = V[w]]
       /\ Code8!Keys!ExpandRoundKey(nk, m1, j, iter) = [m1 EXCEPT ![j] = V[w - nk]]
  <2>1. \A bb : Code8!Keys!ExpandRoundKey(nk, bb, j, iter)
          = [bb EXCEPT ![j] = Code8!XorBytes(bb[j], Code8!Substituted(nk, j, iter, bb[p]))]
    BY <1>9 DEF p
  <2>2. QED
    BY <1>7, <1>8, <1>10, <2>1
<1>13. QED
  BY <1>11, <1>12 DEF m0, m1

\* The loops of GetRoundKey(): a turn moves the buffer by an iteration.
LEMMA ForthBackAre ==
  ASSUME NEW nk \in {4, 6, 8}, NEW V, IsKeySchedule(V, nk), NEW iter \in 0 .. 9
  PROVE  /\ Code8!Keys!Forth(nk, BufferAt(V, nk, iter)) = BufferAt(V, nk, iter + 1)
         /\ Code8!Keys!Back(nk, BufferAt(V, nk, iter + 1)) = BufferAt(V, nk, iter)
<1> DEFINE here == BufferAt(V, nk, iter)
           there == BufferAt(V, nk, iter + 1)
           E(b, j, n) == Code8!Keys!ExpandRoundKey(nk, b, j, n)
           Forward(g) == [j \in 0 .. nk |-> IF j = 0 THEN here.buf ELSE E(g[j - 1], j - 1, here.iter_num)]
           Backward(g) == [j \in 0 .. nk |-> IF j = 0 THEN there.buf ELSE E(g[j - 1], nk - j, there.iter_num - 1)]
           f0 == CHOOSE g : g = Forward(g)
           b0 == CHOOSE g : g = Backward(g)
           fm == [j \in 0 .. nk |-> Midway(V, nk, iter, j)]
           bm == [j \in 0 .. nk |-> Midway(V, nk, iter, nk - j)]
<1>1. /\ Code8!Keys!Forth(nk, here) = [iter_num |-> here.iter_num + 1, buf |-> f0[nk]]
      /\ Code8!Keys!Back(nk, there) = [iter_num |-> there.iter_num - 1, buf |-> b0[nk]]
  BY Zenon DEF Code8!Keys!Forth, Code8!Keys!Back
<1>2. /\ here.iter_num = iter /\ there.iter_num = iter + 1
      /\ here.buf = Midway(V, nk, iter, 0) /\ there.buf = Midway(V, nk, iter, nk)
  <2>1. here.iter_num = iter /\ there.iter_num = iter + 1
    BY DEF BufferAt
  <2>2. here.buf = Midway(V, nk, iter, 0)
    <3>1. \A k \in 0 .. nk - 1 : ~ (k < 0)
      OBVIOUS
    <3>2. QED
      BY <3>1 DEF BufferAt, Midway
  <2>3. there.buf = Midway(V, nk, iter, nk)
    <3>1. \A k \in 0 .. nk - 1 : k < nk
      OBVIOUS
    <3>2. QED
      BY <3>1 DEF BufferAt, Midway
  <2>4. QED
    BY <2>1, <2>2, <2>3
<1>3. nk \in Nat /\ nk > 0
  OBVIOUS
<1>4. fm = Forward(fm)
  <2>1. ASSUME NEW j \in 0 .. nk
        PROVE  fm[j] = IF j = 0 THEN here.buf ELSE E(fm[j - 1], j - 1, here.iter_num)
    <3>1. CASE j = 0
      BY <1>2, <3>1
    <3>2. CASE j # 0
      <4>1. j - 1 \in 0 .. nk - 1 /\ j - 1 \in 0 .. nk /\ (j - 1) + 1 = j
        BY <1>3, <3>2
      <4>2. E(Midway(V, nk, iter, j - 1), j - 1, iter) = Midway(V, nk, iter, (j - 1) + 1)
        BY <4>1, StepsForthBack
      <4> HIDE DEF E, here
      <4>3. QED
        BY <1>2, <3>2, <4>1, <4>2
    <3>3. QED
      BY <3>1, <3>2
  <2>2. fm = [j \in 0 .. nk |-> fm[j]]
    OBVIOUS
  <2> HIDE DEF fm, E, here
  <2>3. QED
    BY <2>1, <2>2
<1>5. bm = Backward(bm)
  <2>1. ASSUME NEW j \in 0 .. nk
        PROVE  bm[j] = IF j = 0 THEN there.buf ELSE E(bm[j - 1], nk - j, there.iter_num - 1)
    <3>1. CASE j = 0
      BY <1>2, <1>3, <3>1
    <3>2. CASE j # 0
      <4>1. nk - j \in 0 .. nk - 1 /\ j - 1 \in 0 .. nk /\ nk - (j - 1) = (nk - j) + 1 /\ (iter + 1) - 1 = iter
        BY <1>3, <3>2
      <4>2. E(Midway(V, nk, iter, (nk - j) + 1), nk - j, iter) = Midway(V, nk, iter, nk - j)
        BY <4>1, StepsForthBack
      <4>3. bm[j] = Midway(V, nk, iter, nk - j) /\ bm[j - 1] = Midway(V, nk, iter, (nk - j) + 1)
        BY <4>1
      <4> HIDE DEF E, there, bm
      <4>4. QED
        BY <1>2, <3>2, <4>1, <4>2, <4>3
    <3>3. QED
      BY <3>1, <3>2
  <2>2. bm = [j \in 0 .. nk |-> bm[j]]
    OBVIOUS
  <2> HIDE DEF bm, E, there
  <2>3. QED
    BY <2>1, <2>2
<1>6. f0 = Forward(f0) /\ b0 = Backward(b0)
  <2> HIDE DEF Forward, Backward
  <2>1. QED
    BY <1>4, <1>5
<1>7. f0[nk] = fm[nk]
  <2>1. f0[0] = here.buf /\ \A j \in 1 .. nk : f0[j] = E(f0[j - 1], j - 1, here.iter_num)
    <3> HIDE DEF f0, E, here
    <3>1. QED
      BY <1>3, <1>6
  <2>2. fm[0] = here.buf /\ \A j \in 1 .. nk : fm[j] = E(fm[j - 1], j - 1, here.iter_num)
    <3> HIDE DEF fm, E, here
    <3>1. QED
      BY <1>3, <1>4
  <2> HIDE DEF f0, fm, E, here
  <2>3. \A j \in (0 + 1) .. nk : f0[j - 1] = fm[j - 1] => f0[j] = fm[j]
    BY <2>1, <2>2
  <2>4. Agree(f0, fm, 0, nk)
    BY <2>3 DEF Agree
  <2>5. f0[0] = fm[0] /\ 0 <= nk /\ 0 \in Int /\ nk \in Int
    BY <1>3, <2>1, <2>2
  <2>6. QED
    BY <2>4, <2>5, SameTurns
<1>8. b0[nk] = bm[nk]
  <2>1. b0[0] = there.buf /\ \A j \in 1 .. nk : b0[j] = E(b0[j - 1], nk - j, there.iter_num - 1)
    <3> HIDE DEF b0, E, there
    <3>1. QED
      BY <1>3, <1>6
  <2>2. bm[0] = there.buf /\ \A j \in 1 .. nk : bm[j] = E(bm[j - 1], nk - j, there.iter_num - 1)
    <3> HIDE DEF bm, E, there
    <3>1. QED
      BY <1>3, <1>5
  <2> HIDE DEF b0, bm, E, there
  <2>3. \A j \in (0 + 1) .. nk : b0[j - 1] = bm[j - 1] => b0[j] = bm[j]
    BY <2>1, <2>2
  <2>4. Agree(b0, bm, 0, nk)
    BY <2>3 DEF Agree
  <2>5. b0[0] = bm[0] /\ 0 <= nk /\ 0 \in Int /\ nk \in Int
    BY <1>3, <2>1, <2>2
  <2>6. QED
    BY <2>4, <2>5, SameTurns
<1>9. fm[nk] = there.buf /\ bm[nk] = here.buf
  <2>1. nk \in 0 .. nk /\ nk - nk = 0
    BY <1>3
  <2> HIDE DEF here, there
  <2>2. QED
    BY <1>2, <2>1
<1>10. here = [iter_num |-> iter, buf |-> here.buf] /\ there = [iter_num |-> iter + 1, buf |-> there.buf]
  BY DEF BufferAt
<1> HIDE DEF f0, b0, fm, bm, here, there
<1>11. (iter + 1) - 1 = iter
  OBVIOUS
<1>12. Code8!Keys!Forth(nk, here) = there /\ Code8!Keys!Back(nk, there) = here
  BY <1>1, <1>2, <1>7, <1>8, <1>9, <1>10, <1>11
<1>13. QED
  BY <1>12 DEF here, there

\* Whether the word is in a later iteration, or in an earlier one.
LEMMA Whither ==
  ASSUME NEW nk \in {4, 6, 8}, NEW r \in Nat, NEW w \in Nat
  PROVE  /\ (r + 1) * nk <= w <=> r < w \div nk
         /\ r * nk > w <=> r > w \div nk
         /\ w \div nk \in Nat
<1>1. \A m, l \in Nat : ((m + 1) * 4 <= l <=> m < l \div 4) /\ (m * 4 > l <=> m > l \div 4) /\ l \div 4 \in Nat
  OBVIOUS
<1>2. \A m, l \in Nat : ((m + 1) * 6 <= l <=> m < l \div 6) /\ (m * 6 > l <=> m > l \div 6) /\ l \div 6 \in Nat
  OBVIOUS
<1>3. \A m, l \in Nat : ((m + 1) * 8 <= l <=> m < l \div 8) /\ (m * 8 > l <=> m > l \div 8) /\ l \div 8 \in Nat
  OBVIOUS
<1>4. CASE nk = 4
  BY <1>1, <1>4, Zenon
<1>5. CASE nk = 6
  BY <1>2, <1>5, Zenon
<1>6. CASE nk = 8
  BY <1>3, <1>6, Zenon
<1>7. QED
  BY <1>4, <1>5, <1>6

\* GetRoundKey() moves the buffer to the iteration of the word, however far that is.
LEMMA MoveIs ==
  ASSUME NEW nk \in {4, 6, 8}, NEW V, IsKeySchedule(V, nk), NEW iter \in 0 .. 10, NEW w \in 0 .. 11 * nk - 1
  PROVE  /\ Code8!Keys!MoveTo(nk, BufferAt(V, nk, iter), w) = BufferAt(V, nk, w \div nk)
         /\ w \div nk \in 0 .. 10
<1> DEFINE q == w \div nk
           B0 == BufferAt(V, nk, iter)
           On(r) == IF (r.iter_num + 1) * nk <= w THEN Code8!Keys!Forth(nk, r)
                    ELSE IF r.iter_num * nk > w THEN Code8!Keys!Back(nk, r)
                    ELSE r
           Body(g) == [k \in 0 .. 10 |-> IF k = 0 THEN B0 ELSE On(g[k - 1])]
           g0 == CHOOSE g : g = Body(g)
           far(k) == IF iter < q THEN (IF iter + k < q THEN iter + k ELSE q)
                     ELSE (IF iter - k > q THEN iter - k ELSE q)
           g1 == [k \in 0 .. 10 |-> BufferAt(V, nk, far(k))]
<1>1. Code8!Keys!MoveTo(nk, B0, w) = g0[10]
  BY Zenon DEF Code8!Keys!MoveTo
<1>2. q \in 0 .. 10
  <2>1. CASE nk = 4
    BY <2>1
  <2>2. CASE nk = 6
    BY <2>2
  <2>3. CASE nk = 8
    BY <2>3
  <2>4. QED
    BY <2>1, <2>2, <2>3
<1>3. \A r \in 0 .. 10 : /\ (r + 1) * nk <= w <=> r < q
                         /\ r * nk > w <=> r > q
  BY Whither
<1>4. \A r \in 0 .. 10 : On(BufferAt(V, nk, r)) = BufferAt(V, nk, IF r < q THEN r + 1 ELSE IF r > q THEN r - 1 ELSE r)
  <2> SUFFICES ASSUME NEW r \in 0 .. 10
               PROVE  On(BufferAt(V, nk, r))
                        = BufferAt(V, nk, IF r < q THEN r + 1 ELSE IF r > q THEN r - 1 ELSE r)
    OBVIOUS
  <2> HIDE DEF q
  <2>1. BufferAt(V, nk, r).iter_num = r
    BY DEF BufferAt
  <2>2. On(BufferAt(V, nk, r))
          = IF r < q THEN Code8!Keys!Forth(nk, BufferAt(V, nk, r))
            ELSE IF r > q THEN Code8!Keys!Back(nk, BufferAt(V, nk, r))
            ELSE BufferAt(V, nk, r)
    BY <1>3, <2>1
  <2> HIDE DEF On
  <2>3. CASE r < q
    <3>1. r \in 0 .. 9
      BY <1>2, <2>3
    <3>2. Code8!Keys!Forth(nk, BufferAt(V, nk, r)) = BufferAt(V, nk, r + 1)
      BY <3>1, ForthBackAre
    <3>3. QED
      BY <2>2, <2>3, <3>2
  <2>4. CASE r > q
    <3>1. r - 1 \in 0 .. 9 /\ (r - 1) + 1 = r /\ ~ (r < q)
      BY <1>2, <2>4
    <3>2. Code8!Keys!Back(nk, BufferAt(V, nk, (r - 1) + 1)) = BufferAt(V, nk, r - 1)
      BY <3>1, ForthBackAre
    <3>3. QED
      BY <2>2, <2>4, <3>1, <3>2
  <2>5. CASE ~ (r < q) /\ ~ (r > q)
    BY <2>2, <2>5
  <2>6. QED
    BY <2>3, <2>4, <2>5
<1> HIDE DEF q, On, B0
<1>5. \A k \in 1 .. 10 : g1[k] = On(g1[k - 1])
  <2> SUFFICES ASSUME NEW k \in 1 .. 10 PROVE g1[k] = On(g1[k - 1])
    OBVIOUS
  <2>1. k \in 0 .. 10 /\ k - 1 \in 0 .. 10
    OBVIOUS
  <2>2. g1[k] = BufferAt(V, nk, far(k)) /\ g1[k - 1] = BufferAt(V, nk, far(k - 1))
    BY <2>1
  <2>3. far(k - 1) \in 0 .. 10
    BY <1>2
  <2>4. far(k) = IF far(k - 1) < q THEN far(k - 1) + 1 ELSE IF far(k - 1) > q THEN far(k - 1) - 1 ELSE far(k - 1)
    BY <1>2
  <2> HIDE DEF far, g1
  <2>5. QED
    BY <1>4, <2>2, <2>3, <2>4
<1>6. g1[0] = B0 /\ g1[10] = BufferAt(V, nk, q)
  <2>1. far(0) = iter /\ far(10) = q
    BY <1>2
  <2> HIDE DEF far
  <2>2. QED
    BY <2>1 DEF B0
<1>7. g1 = Body(g1)
  <2>1. g1 = [k \in 0 .. 10 |-> g1[k]]
    OBVIOUS
  <2> HIDE DEF g1
  <2>2. \A k \in 0 .. 10 : k = 0 \/ k \in 1 .. 10
    OBVIOUS
  <2>3. \A k \in 0 .. 10 : g1[k] = IF k = 0 THEN B0 ELSE On(g1[k - 1])
    BY <1>5, <1>6, <2>2
  <2>4. QED
    BY <2>1, <2>3
<1>8. g0 = Body(g0)
  <2> HIDE DEF Body
  <2>1. QED
    BY <1>7
<1>9. g0[0] = B0 /\ \A k \in 1 .. 10 : g0[k] = On(g0[k - 1])
  <2> HIDE DEF g0
  <2>1. QED
    BY <1>8
<1> HIDE DEF g0, g1
<1>10. g0[10] = g1[10]
  <2>1. \A k \in (0 + 1) .. 10 : g0[k - 1] = g1[k - 1] => g0[k] = g1[k]
    BY <1>5, <1>9
  <2>0. PICK a \in Int, b \in Int : a = 0 /\ b = 10
    OBVIOUS
  <2>2. PICK g, h : a = 0 /\ b = 10 /\ g = g0 /\ h = g1
    BY <2>0
  <2>3. Agree(g, h, a, b)
    BY <2>1, <2>2 DEF Agree
  <2>4. g[a] = h[a] /\ a <= b
    BY <1>6, <1>9, <2>2
  <2>5. g[b] = h[b]
    BY <2>3, <2>4, SameTurns
  <2>6. QED
    BY <2>2, <2>5
<1>11. Code8!Keys!MoveTo(nk, B0, w) = BufferAt(V, nk, q)
  BY <1>1, <1>6, <1>10
<1>12. QED
  BY <1>2, <1>11 DEF B0, q

LEMMA WordInIs ==
  ASSUME NEW nk \in {4, 6, 8}, NEW V, NEW w \in 0 .. 11 * nk - 1
  PROVE  Code8!Keys!WordIn(nk, BufferAt(V, nk, w \div nk), w) = V[w + 1]
<1>1. \A l \in Nat : (l \div 4) * 4 \in Nat /\ l - (l \div 4) * 4 \in 0 .. 3 /\ (l \div 4) * 4 + (l - (l \div 4) * 4) + 1 = l + 1
  OBVIOUS
<1>2. \A l \in Nat : (l \div 6) * 6 \in Nat /\ l - (l \div 6) * 6 \in 0 .. 5 /\ (l \div 6) * 6 + (l - (l \div 6) * 6) + 1 = l + 1
  OBVIOUS
<1>3. \A l \in Nat : (l \div 8) * 8 \in Nat /\ l - (l \div 8) * 8 \in 0 .. 7 /\ (l \div 8) * 8 + (l - (l \div 8) * 8) + 1 = l + 1
  OBVIOUS
<1> DEFINE q == w \div nk
<1>4. w - q * nk \in 0 .. nk - 1 /\ q * nk + (w - q * nk) + 1 = w + 1
  <2>1. w \in Nat
    OBVIOUS
  <2>2. CASE nk = 4
    <3>1. nk - 1 = 3
      BY <2>2
    <3>2. QED
      BY <1>1, <2>1, <2>2, <3>1, Zenon
  <2>3. CASE nk = 6
    <3>1. nk - 1 = 5
      BY <2>3
    <3>2. QED
      BY <1>2, <2>1, <2>3, <3>1, Zenon
  <2>4. CASE nk = 8
    <3>1. nk - 1 = 7
      BY <2>4
    <3>2. QED
      BY <1>3, <2>1, <2>4, <3>1, Zenon
  <2>5. QED
    BY <2>2, <2>3, <2>4
<1> DEFINE buffer == BufferAt(V, nk, q)
<1>5. buffer.iter_num = q /\ \A k \in 0 .. nk - 1 : buffer.buf[k] = V[q * nk + k + 1]
  BY DEF BufferAt
<1>6. Code8!Keys!WordIn(nk, buffer, w) = buffer.buf[w - buffer.iter_num * nk]
  BY DEF Code8!Keys!WordIn
<1> HIDE DEF q, buffer
<1>7. Code8!Keys!WordIn(nk, buffer, w) = V[q * nk + (w - q * nk) + 1]
  BY <1>4, <1>5, <1>6
<1>8. QED
  BY <1>4, <1>7 DEF buffer, q

-----------------------------------------------------------------------------
(* The round keys *)

\* The words of the key are stored as the schedule, or the buffer is at an iteration of it.
KeysOf(V, nk) ==
  /\ aes_stored => aes_ctx_key = Used(V, nk)
  /\ ~aes_stored => /\ \A m \in 0 .. nk - 1 : aes_ctx_key[m] = Code8!KeyWord(m)
                    /\ \E r \in 0 .. 10 : aes_round_key = BufferAt(V, nk, r)

\* Whether stored or expanded, a round is given its own words.
LEMMA RoundWords ==
  ASSUME NEW nk \in {4, 6, 8}, Code8!keysize_word = nk, NEW V, IsKeySchedule(V, nk), KeysOf(V, nk),
         NEW n \in 0 .. nk + 6, NEW c \in 0 .. 3
  PROVE  Code8!RoundWord(n, c) = V[4 * n + c + 1]
<1>0. 4 * n + c + 1 \in 1 .. 4 * (nk + 7)
  OBVIOUS
<1>1. CASE aes_stored
  <2>1. Code8!RoundWord(n, c) = aes_ctx_key[4 * n + c + 1]
    BY <1>1 DEF Code8!RoundWord
  <2>2. QED
    BY <1>0, <1>1, <2>1 DEF KeysOf, Used
<1>2. CASE ~aes_stored
  <2> DEFINE On(k, b) == Code8!Keys!MoveTo(nk, b, 4 * n + k)
             Body(g) == [k \in 0 .. c |-> On(k, IF k = 0 THEN aes_round_key ELSE g[k - 1])]
             g0 == CHOOSE g : g = Body(g)
             q(k) == (4 * n + k) \div nk
             g1 == [k \in 0 .. c |-> BufferAt(V, nk, q(k))]
  <2>1. Code8!RoundWord(n, c) = Code8!Keys!WordIn(nk, g0[c], 4 * n + c)
    BY <1>2, Zenon DEF Code8!RoundWord, Code8!At
  <2>2. \A k \in 0 .. c : 4 * n + k \in 0 .. 11 * nk - 1
    OBVIOUS
  <2>3. \A r \in 0 .. 10, k \in 0 .. c : /\ On(k, BufferAt(V, nk, r)) = BufferAt(V, nk, q(k))
                                         /\ q(k) \in 0 .. 10
    BY <2>2, MoveIs
  <2>4. PICK r \in 0 .. 10 : aes_round_key = BufferAt(V, nk, r)
    BY <1>2 DEF KeysOf
  <2> HIDE DEF On, q
  <2>5. \A k \in 0 .. c : g1[k] = On(k, IF k = 0 THEN aes_round_key ELSE g1[k - 1])
    <3> SUFFICES ASSUME NEW k \in 0 .. c PROVE g1[k] = On(k, IF k = 0 THEN aes_round_key ELSE g1[k - 1])
      OBVIOUS
    <3>1. CASE k = 0
      BY <2>3, <2>4, <3>1
    <3>2. CASE k # 0
      <4>1. k - 1 \in 0 .. c
        BY <3>2
      <4>2. g1[k - 1] = BufferAt(V, nk, q(k - 1)) /\ q(k - 1) \in 0 .. 10
        BY <2>3, <4>1
      <4>3. QED
        BY <2>3, <3>2, <4>2
    <3>3. QED
      BY <3>1, <3>2
  <2>6. g1 = Body(g1)
    <3>1. g1 = [k \in 0 .. c |-> g1[k]]
      OBVIOUS
    <3> HIDE DEF g1
    <3>2. QED
      BY <2>5, <3>1
  <2>7. g0 = Body(g0)
    <3> HIDE DEF Body
    <3>1. QED
      BY <2>6
  <2>8. \A k \in 0 .. c : g0[k] = On(k, IF k = 0 THEN aes_round_key ELSE g0[k - 1])
    <3> HIDE DEF g0
    <3>1. QED
      BY <2>7
  <2> HIDE DEF g0, g1
  <2>9. g0[c] = g1[c]
    <3>0. PICK a \in Int, b \in Int : a = 0 /\ b = c
      OBVIOUS
    <3>1. PICK g, h : a = 0 /\ b = c /\ g = g0 /\ h = g1
      BY <3>0
    <3>2. g0[0] = g1[0]
      BY <2>5, <2>8
    <3>3. Agree(g, h, a, b)
      BY <2>5, <2>8, <3>1 DEF Agree
    <3>4. g[a] = h[a] /\ a <= b
      BY <3>1, <3>2
    <3>5. g[b] = h[b]
      BY <3>3, <3>4, SameTurns
    <3>6. QED
      BY <3>1, <3>5
  <2>10. g0[c] = BufferAt(V, nk, q(c))
    <3>1. c \in 0 .. c
      OBVIOUS
    <3>2. QED
      BY <2>9, <3>1 DEF g1
  <2>11. 4 * n + c \in 0 .. 11 * nk - 1
    OBVIOUS
  <2>12. Code8!Keys!WordIn(nk, BufferAt(V, nk, (4 * n + c) \div nk), 4 * n + c) = V[(4 * n + c) + 1]
    BY <2>11, WordInIs
  <2>13. QED
    BY <2>1, <2>10, <2>12 DEF q
<1>3. QED
  BY <1>1, <1>2

\* Behind a round the buffer is at an iteration again.
LEMMA BufferBehind ==
  ASSUME NEW nk \in {4, 6, 8}, Code8!keysize_word = nk, NEW V, IsKeySchedule(V, nk), KeysOf(V, nk),
         NEW n \in 0 .. nk + 6, ~aes_stored
  PROVE  \E r \in 0 .. 10 : Code8!RoundKeyBehind(n) = BufferAt(V, nk, r)
<1> DEFINE On(b, k) == Code8!Keys!MoveTo(nk, b, 4 * n + k)
<1>1. \A k \in 0 .. 3 : 4 * n + k \in 0 .. 11 * nk - 1
  OBVIOUS
<1>2. \A r \in 0 .. 10, k \in 0 .. 3 : \E m \in 0 .. 10 : On(BufferAt(V, nk, r), k) = BufferAt(V, nk, m)
  BY <1>1, MoveIs
<1>3. PICK r \in 0 .. 10 : aes_round_key = BufferAt(V, nk, r)
  BY DEF KeysOf
<1>4. Code8!RoundKeyBehind(n) = On(On(On(On(aes_round_key, 0), 1), 2), 3)
  <2>1. Code8!RoundKeyBehind(n)
          = Code8!Keys!MoveTo(nk, Code8!Keys!MoveTo(nk, Code8!Keys!MoveTo(nk,
              Code8!Keys!MoveTo(nk, aes_round_key, 4 * n), 4 * n + 1), 4 * n + 2), 4 * n + 3)
    BY Zenon DEF Code8!RoundKeyBehind, Code8!At
  <2>2. 4 * n = 4 * n + 0
    OBVIOUS
  <2>3. QED
    BY <2>1, <2>2
<1> HIDE DEF On
<1>5. PICK r1 \in 0 .. 10 : On(aes_round_key, 0) = BufferAt(V, nk, r1)
  BY <1>2, <1>3
<1>6. PICK r2 \in 0 .. 10 : On(On(aes_round_key, 0), 1) = BufferAt(V, nk, r2)
  BY <1>2, <1>5
<1>7. PICK r3 \in 0 .. 10 : On(On(On(aes_round_key, 0), 1), 2) = BufferAt(V, nk, r3)
  BY <1>2, <1>6
<1>8. PICK r4 \in 0 .. 10 : On(On(On(On(aes_round_key, 0), 1), 2), 3) = BufferAt(V, nk, r4)
  BY <1>2, <1>7
<1>9. QED
  BY <1>4, <1>8

\* What AddRoundKey() makes of a state, of the words of a schedule.
AddedWords(V, n, s) == [m \in 0 .. 15 |-> Gf!Xor(s[m], V[4 * n + (m \div 4) + 1][(m % 4) + 1])]

LEMMA AddsWords ==
  ASSUME NEW nk \in {4, 6, 8}, Code8!keysize_word = nk, NEW V, IsKeySchedule(V, nk), KeysOf(V, nk),
         NEW n \in 0 .. nk + 6, NEW s
  PROVE  Code8!AddRoundKey(s, n) = AddedWords(V, n, s)
<1>1. \A m \in 0 .. 15 : m \div 4 \in 0 .. 3 /\ m % 4 \in 0 .. 3
  OBVIOUS
<1>2. \A c \in 0 .. 3 : Code8!RoundWord(n, c) = V[4 * n + c + 1]
  BY RoundWords
<1> DEFINE w == [c \in 0 .. 3 |-> Code8!RoundWord(n, c)]
<1>3. Code8!AddRoundKey(s, n) = [m \in 0 .. 15 |-> Gf!Xor(s[m], w[m \div 4][(m % 4) + 1])]
  <2>1. Code8!AddRoundKey(s, n) = [m \in 0 .. 15 |-> Code8!Xor(s[m], w[m \div 4][(m % 4) + 1])]
    BY DEF Code8!AddRoundKey, Code8!Block
  <2> HIDE DEF w
  <2>2. \A x, y : Code8!Xor(x, y) = Gf!Xor(x, y)
    BY SameField, Zenon
  <2>3. QED
    BY <2>1, <2>2
<1>4. \A m \in 0 .. 15 : w[m \div 4] = V[4 * n + (m \div 4) + 1]
  BY <1>1, <1>2
<1> HIDE DEF w
<1>5. QED
  BY <1>3, <1>4 DEF AddedWords

\* The round keys are added alike, and leave bytes.
LEMMA AddKeySame ==
  ASSUME NEW nk \in {4, 6, 8}, Code8!keysize_word = nk, NEW V, IsKeySchedule(V, nk), KeysOf(V, nk),
         Aes8Is!KeyExpansion = Used(V, nk), NEW n \in 0 .. nk + 6, NEW s
  PROVE  /\ Mat(Code8!AddRoundKey(s, n)) = Aes8Is!AddRoundKey(Mat(s), n)
         /\ IsBlock(s) => IsBlock(Code8!AddRoundKey(s, n))
<1>1. \A m \in 0 .. 15 : Code8!AddRoundKey(s, n)[m] = Gf!Xor(s[m], V[4 * n + (m \div 4) + 1][(m % 4) + 1])
  <2>1. Code8!AddRoundKey(s, n) = AddedWords(V, n, s)
    BY AddsWords
  <2>2. QED
    BY <2>1 DEF AddedWords
<1>2. \A c \in 0 .. 3 : 4 * n + c + 1 \in 1 .. 4 * (nk + 7) /\ 4 * n + c + 1 \in 1 .. 11 * nk
  OBVIOUS
<1> DEFINE added == [p \in (0 .. 3) \X (0 .. 3) |-> Gf!Xor(Mat(s)[p], Used(V, nk)[4 * n + p[2] + 1][p[1] + 1])]
<1>3. Aes8Is!AddRoundKey(Mat(s), n) = added
  BY SameField, Zenon DEF Aes8Is!AddRoundKey, Aes8Is!Places
<1>4. \A r, c \in 0 .. 3 : added[<<r, c>>] = Gf!Xor(s[r + 4 * c], V[4 * n + c + 1][r + 1])
  <2> SUFFICES ASSUME NEW r \in 0 .. 3, NEW c \in 0 .. 3
               PROVE  added[<<r, c>>] = Gf!Xor(s[r + 4 * c], V[4 * n + c + 1][r + 1])
    OBVIOUS
  <2>1. Used(V, nk)[4 * n + c + 1] = V[4 * n + c + 1]
    BY <1>2 DEF Used
  <2>2. added[<<r, c>>] = Gf!Xor(Mat(s)[<<r, c>>], Used(V, nk)[4 * n + c + 1][r + 1])
    OBVIOUS
  <2> HIDE DEF added
  <2>3. QED
    BY <2>1, <2>2, MatIs
<1>5. IsMatrix(added)
  BY DEF IsMatrix
<1> HIDE DEF added
<1>6. \A p \in (0 .. 3) \X (0 .. 3) : Mat(Code8!AddRoundKey(s, n))[p] = added[p]
  <2> SUFFICES ASSUME NEW p \in (0 .. 3) \X (0 .. 3) PROVE Mat(Code8!AddRoundKey(s, n))[p] = added[p]
    OBVIOUS
  <2>1. PICK r \in 0 .. 3, c \in 0 .. 3 : p = <<r, c>>
    OBVIOUS
  <2>2. r + 4 * c \in 0 .. 15 /\ (r + 4 * c) \div 4 = c /\ (r + 4 * c) % 4 = r
    OBVIOUS
  <2>3. Code8!AddRoundKey(s, n)[r + 4 * c] = Gf!Xor(s[r + 4 * c], V[4 * n + c + 1][r + 1])
    BY <1>1, <2>2
  <2>4. Mat(Code8!AddRoundKey(s, n))[<<r, c>>] = Code8!AddRoundKey(s, n)[r + 4 * c]
    BY MatIs
  <2>5. added[<<r, c>>] = Gf!Xor(s[r + 4 * c], V[4 * n + c + 1][r + 1])
    BY <1>4
  <2>6. QED
    BY <2>1, <2>3, <2>4, <2>5
<1>7. ASSUME IsBlock(s) PROVE IsBlock(Code8!AddRoundKey(s, n))
  <2>1. ASSUME NEW m \in Sixteen PROVE Code8!AddRoundKey(s, n)[m] \in Gf!Bytes
    <3>1. m \in 0 .. 15 /\ m \div 4 \in 0 .. 3 /\ (m % 4) + 1 \in 1 .. 4
      BY DEF Sixteen
    <3>2. 4 * n + (m \div 4) + 1 \in 1 .. 11 * nk
      BY <1>2, <3>1
    <3>3. V[4 * n + (m \div 4) + 1] \in Quads
      BY <3>2 DEF IsKeySchedule
    <3>4. V[4 * n + (m \div 4) + 1][(m % 4) + 1] \in Gf!Bytes
      BY <3>1, <3>3 DEF Quads
    <3>5. s[m] \in Gf!Bytes
      BY <1>7 DEF IsBlock
    <3>6. \A x, y \in Gf!Bytes : Gf!Xor(x, y) \in Gf!Bytes
      BY DEF Gf!Xor, Gf!Bytes
    <3>7. QED
      BY <1>1, <3>1, <3>4, <3>5, <3>6
  <2>2. QED
    BY <2>1 DEF IsBlock
<1>8. QED
  BY <1>3, <1>5, <1>6, <1>7, SamePlaces

-----------------------------------------------------------------------------
(* The bytes of the state *)

LEMMA MixedByteType == \A a, b, d \in Gf!Bytes : MixedByte(a, b, d) \in Gf!Bytes
<1>1. \A x, y \in Gf!Bytes : Gf!Xor(x, y) \in Gf!Bytes
  BY DEF Gf!Xor, Gf!Bytes
<1>2. QED
  BY <1>1, DoubleType DEF MixedByte

LEMMA UnmixedType == \A a, b, c, d \in Gf!Bytes : Unmixed(a, b, c, d) \in Gf!Bytes
<1>1. \A x, y \in Gf!Bytes : Gf!Xor(x, y) \in Gf!Bytes
  BY DEF Gf!Xor, Gf!Bytes
<1>2. /\ Gf!Byte(9) \in Gf!Bytes /\ Gf!Byte(11) \in Gf!Bytes
      /\ Gf!Byte(13) \in Gf!Bytes /\ Gf!Byte(14) \in Gf!Bytes
  BY DEF Gf!Byte, Gf!Bytes
<1>3. \A x \in Gf!Bytes : /\ Gf!Times(x, Gf!Byte(9), FALSE) \in Gf!Bytes
                          /\ Gf!Times(x, Gf!Byte(11), FALSE) \in Gf!Bytes
                          /\ Gf!Times(x, Gf!Byte(13), FALSE) \in Gf!Bytes
                          /\ Gf!Times(x, Gf!Byte(14), FALSE) \in Gf!Bytes
  BY <1>2, TimesProducts, ProductType
<1>4. QED
  BY <1>1, <1>3 DEF Unmixed

\* A block is four columns of four.
LEMMA Columns ==
  ASSUME NEW b,
         \A c \in 0 .. 3 : /\ b[0 + 4 * c] \in Gf!Bytes /\ b[1 + 4 * c] \in Gf!Bytes
                           /\ b[2 + 4 * c] \in Gf!Bytes /\ b[3 + 4 * c] \in Gf!Bytes
  PROVE  IsBlock(b)
<1> SUFFICES ASSUME NEW m \in Sixteen PROVE b[m] \in Gf!Bytes
  BY DEF IsBlock
<1>1. m \div 4 \in 0 .. 3
  BY DEF Sixteen
<1>2. \/ m = 0 + 4 * (m \div 4) \/ m = 1 + 4 * (m \div 4)
      \/ m = 2 + 4 * (m \div 4) \/ m = 3 + 4 * (m \div 4)
  BY DEF Sixteen
<1> DEFINE c == m \div 4
<1>3. /\ b[0 + 4 * c] \in Gf!Bytes /\ b[1 + 4 * c] \in Gf!Bytes
      /\ b[2 + 4 * c] \in Gf!Bytes /\ b[3 + 4 * c] \in Gf!Bytes
  BY <1>1
<1>4. QED
  BY <1>2, <1>3

LEMMA BlocksStay ==
  ASSUME NEW s, IsBlock(s)
  PROVE  /\ IsBlock(Code8!SubBytes(s)) /\ IsBlock(Code8!InvSubBytes(s))
         /\ IsBlock(Code8!ShiftRows(s)) /\ IsBlock(Code8!InvShiftRows(s))
         /\ IsBlock(Code8!MixColumns(s)) /\ IsBlock(Code8!InvMixColumns(s))
<1>1. IsBlock(Code8!SubBytes(s)) /\ IsBlock(Code8!InvSubBytes(s))
  <2>1. \A m \in 0 .. 15 : /\ Code8!SubBytes(s)[m] = Code8!Sbox[s[m]]
                           /\ Code8!InvSubBytes(s)[m] = Code8!RSbox[s[m]]
    BY DEF Code8!SubBytes, Code8!InvSubBytes, Code8!SubByte, Code8!InvSubByte, Code8!Block
  <2>2. QED
    BY <2>1, SameSbox DEF IsBlock, Sixteen
<1>2. IsBlock(Code8!ShiftRows(s)) /\ IsBlock(Code8!InvShiftRows(s))
  <2>1. \A m \in 0 .. 15 : /\ Code8!ShiftRows(s)[m] = s[Code8!ShiftRow[m + 1]]
                           /\ Code8!InvShiftRows(s)[m] = s[Code8!InvShiftRow[m + 1]]
    BY DEF Code8!ShiftRows, Code8!InvShiftRows, Code8!Block
  <2>2. \A m \in 0 .. 15 : /\ Code8!ShiftRow[m + 1] \in 0 .. 15
                           /\ Code8!InvShiftRow[m + 1] \in 0 .. 15
    <3> SUFFICES ASSUME NEW m \in 0 .. 15
                 PROVE  Code8!ShiftRow[m + 1] \in 0 .. 15 /\ Code8!InvShiftRow[m + 1] \in 0 .. 15
      OBVIOUS
    <3>1. m % 4 \in 0 .. 3 /\ m \div 4 \in 0 .. 3 /\ (m % 4) + 4 * (m \div 4) = m
      OBVIOUS
    <3>2. PICK r \in 0 .. 3, c \in 0 .. 3 : r + 4 * c = m
      BY <3>1
    <3>3. /\ Code8!ShiftRow[m + 1] = r + 4 * ((c + r) % 4)
          /\ Code8!InvShiftRow[m + 1] = r + 4 * ((c - r) % 4)
      BY <3>2, ShiftTables
    <3>4. (c + r) % 4 \in 0 .. 3 /\ (c - r) % 4 \in 0 .. 3
      OBVIOUS
    <3>5. QED
      BY <3>3, <3>4
  <2>3. QED
    BY <2>1, <2>2 DEF IsBlock, Sixteen
<1>3. IsBlock(Code8!MixColumns(s))
  <2> SUFFICES ASSUME NEW c \in 0 .. 3
               PROVE  /\ Code8!MixColumns(s)[0 + 4 * c] \in Gf!Bytes
                      /\ Code8!MixColumns(s)[1 + 4 * c] \in Gf!Bytes
                      /\ Code8!MixColumns(s)[2 + 4 * c] \in Gf!Bytes
                      /\ Code8!MixColumns(s)[3 + 4 * c] \in Gf!Bytes
    BY Columns
  <2>1. PICK a0, a1, a2, a3 :
          a0 = s[0 + 4 * c] /\ a1 = s[1 + 4 * c] /\ a2 = s[2 + 4 * c] /\ a3 = s[3 + 4 * c]
    OBVIOUS
  <2>2. a0 \in Gf!Bytes /\ a1 \in Gf!Bytes /\ a2 \in Gf!Bytes /\ a3 \in Gf!Bytes
    BY <2>1 DEF IsBlock, Sixteen
  <2>3. PICK d : d = Gf!Xor(Gf!Xor(a0, a1), Gf!Xor(a2, a3))
    OBVIOUS
  <2>4. d \in Gf!Bytes
    BY <2>2, <2>3 DEF Gf!Xor, Gf!Bytes
  <2>5. /\ Code8!MixColumns(s)[0 + 4 * c] = MixedByte(a0, a1, d)
        /\ Code8!MixColumns(s)[1 + 4 * c] = MixedByte(a1, a2, d)
        /\ Code8!MixColumns(s)[2 + 4 * c] = MixedByte(a2, a3, d)
        /\ Code8!MixColumns(s)[3 + 4 * c] = MixedByte(a3, a0, d)
    BY <2>1, <2>3, CodeMixes
  <2>6. QED
    BY <2>2, <2>4, <2>5, MixedByteType
<1>4. IsBlock(Code8!InvMixColumns(s))
  <2> SUFFICES ASSUME NEW c \in 0 .. 3
               PROVE  /\ Code8!InvMixColumns(s)[0 + 4 * c] \in Gf!Bytes
                      /\ Code8!InvMixColumns(s)[1 + 4 * c] \in Gf!Bytes
                      /\ Code8!InvMixColumns(s)[2 + 4 * c] \in Gf!Bytes
                      /\ Code8!InvMixColumns(s)[3 + 4 * c] \in Gf!Bytes
    BY Columns
  <2>1. PICK a0, a1, a2, a3 :
          a0 = s[0 + 4 * c] /\ a1 = s[1 + 4 * c] /\ a2 = s[2 + 4 * c] /\ a3 = s[3 + 4 * c]
    OBVIOUS
  <2>2. a0 \in Gf!Bytes /\ a1 \in Gf!Bytes /\ a2 \in Gf!Bytes /\ a3 \in Gf!Bytes
    BY <2>1 DEF IsBlock, Sixteen
  <2>5. /\ Code8!InvMixColumns(s)[0 + 4 * c] = Unmixed(a0, a1, a2, a3)
        /\ Code8!InvMixColumns(s)[1 + 4 * c] = Unmixed(a1, a2, a3, a0)
        /\ Code8!InvMixColumns(s)[2 + 4 * c] = Unmixed(a2, a3, a0, a1)
        /\ Code8!InvMixColumns(s)[3 + 4 * c] = Unmixed(a3, a0, a1, a2)
    BY <2>1, CodeUnmixes
  <2>6. QED
    BY <2>2, <2>5, UnmixedType
<1>5. QED
  BY <1>1, <1>2, <1>3, <1>4

-----------------------------------------------------------------------------
(* The cipher is the one of the standard *)

\* The words of a key are determined by it.
LEMMA OneSchedule ==
  ASSUME NEW nk \in {4, 6, 8}, NEW V, NEW U, IsKeySchedule(V, nk), IsKeySchedule(U, nk)
  PROVE  V = U
<1> DEFINE differ == {k \in 1 .. 11 * nk : V[k] # U[k]}
<1>1. ASSUME differ # {} PROVE FALSE
  <2>1. differ \in SUBSET Nat
    OBVIOUS
  <2>2. PICK k \in differ : \A m \in differ : k <= m
    <3> HIDE DEF differ
    <3>1. QED
      BY <1>1, <2>1, Smallest
  <2>3. k \in 1 .. 11 * nk /\ V[k] # U[k]
    OBVIOUS
  <2>4. \A m \in 1 .. 11 * nk : m < k => V[m] = U[m]
    <3> SUFFICES ASSUME NEW m \in 1 .. 11 * nk, m < k PROVE V[m] = U[m]
      OBVIOUS
    <3>1. m \notin differ
      <4> HIDE DEF differ
      <4>1. m \in differ => k <= m
        BY <2>2
      <4>2. QED
        BY <2>3, <4>1
    <3>2. QED
      BY <3>1
  <2> HIDE DEF differ
  <2>5. CASE k \in 1 .. nk
    BY <2>3, <2>5 DEF IsKeySchedule
  <2>6. CASE k \in (nk + 1) .. 11 * nk
    <3>1. k - nk \in 1 .. 11 * nk /\ k - 1 \in 1 .. 11 * nk /\ k - nk < k /\ k - 1 < k
      BY <2>6
    <3>2. V[k - nk] = U[k - nk] /\ V[k - 1] = U[k - 1]
      BY <2>4, <3>1
    <3>3. V[k] = Code8!XorBytes(V[k - nk], OfKey(nk, k, V[k - 1]))
      BY <2>6 DEF IsKeySchedule
    <3>4. U[k] = Code8!XorBytes(U[k - nk], OfKey(nk, k, U[k - 1]))
      BY <2>6 DEF IsKeySchedule
    <3>5. QED
      BY <2>3, <3>2, <3>3, <3>4
  <2>7. QED
    BY <2>3, <2>5, <2>6
<1>2. \A k \in 1 .. 11 * nk : V[k] = U[k]
  BY <1>1
<1>3. V = [k \in 1 .. 11 * nk |-> V[k]] /\ U = [k \in 1 .. 11 * nk |-> U[k]]
  BY DEF IsKeySchedule
<1>4. QED
  BY <1>2, <1>3

LEMMA ExpansionIs ==
  ASSUME NEW nk \in {4, 6, 8}, aes_key \in [0 .. 4 * nk - 1 -> Gf!Bytes], NEW V, IsKeySchedule(V, nk)
  PROVE  Aes8Is!KeyExpansion = Used(V, nk)
<1> DEFINE k0 == [m \in 0 .. nk - 1 |-> Code8!KeyWord(m)]
<1>1. \A m \in 0 .. nk - 1 : k0[m] = Code8!KeyWord(m)
  OBVIOUS
<1>2. \E U : IsKeySchedule(U, nk) /\ Aes8Is!KeyExpansion = Used(U, nk)
  <2> HIDE DEF k0
  <2>1. QED
    BY <1>1, SchedulesSame
<1>3. QED
  BY <1>2, OneSchedule

\* The buffer or the stored words are those of the key, and the state is bytes.
Scheduled(nk, V) ==
  /\ aes_key \in [0 .. 4 * nk - 1 -> Gf!Bytes]
  /\ IsKeySchedule(V, nk) /\ KeysOf(V, nk)
  /\ IsBlock(aes_output) /\ aes_round \in 0 .. nk + 6
CipherInv == \E nk \in {4, 6, 8} : \E V : Scheduled(nk, V)

\* A round of the code is a round of the standard, and leaves bytes.
LEMMA EncryptsSame ==
  ASSUME NEW nk \in {4, 6, 8}, NEW V, Scheduled(nk, V), NEW t,
         t = LET s == Code8!ShiftRows(Code8!SubBytes(aes_output))
             IN Code8!AddRoundKey(IF aes_round = 0 THEN aes_output
                                  ELSE IF aes_round < nk + 6 THEN Code8!MixColumns(s) ELSE s, aes_round)
  PROVE  Mat(t) = Aes8Is!Encrypted /\ IsBlock(t)
<1>1. /\ aes_key \in [0 .. 4 * nk - 1 -> Gf!Bytes] /\ IsKeySchedule(V, nk) /\ KeysOf(V, nk)
      /\ IsBlock(aes_output) /\ aes_round \in 0 .. nk + 6
  BY DEF Scheduled
<1>2. Code8!keysize_word = nk /\ Aes8Is!Rounds = nk + 6
  BY <1>1, KeyLengths DEF Aes8Is!Rounds
<1>3. Aes8Is!KeyExpansion = Used(V, nk)
  BY <1>1, ExpansionIs
<1>4. Code8!Matrix = Mat(aes_output)
  BY DEF Code8!Matrix, Mat
<1> DEFINE s == Code8!ShiftRows(Code8!SubBytes(aes_output))
           z == Aes8Is!ShiftRows(Aes8Is!SubBytes(Mat(aes_output)))
           m == IF aes_round = 0 THEN aes_output
                ELSE IF aes_round < nk + 6 THEN Code8!MixColumns(s) ELSE s
<1>5. IsBlock(Code8!SubBytes(aes_output)) /\ IsBlock(s)
  BY <1>1, BlocksStay
<1>6. Mat(s) = z
  BY SubsSame, ShiftsSame
<1>7. t = Code8!AddRoundKey(m, aes_round)
  OBVIOUS
<1>8. Aes8Is!Encrypted
        = IF aes_round = 0 THEN Aes8Is!AddRoundKey(Mat(aes_output), 0)
          ELSE Aes8Is!AddRoundKey(IF aes_round < nk + 6 THEN Aes8Is!MixColumns(z) ELSE z, aes_round)
  BY <1>2, <1>4, Zenon DEF Aes8Is!Encrypted
<1> HIDE DEF s, z
<1>9. IsBlock(m) /\ Mat(m) = IF aes_round = 0 THEN Mat(aes_output)
                             ELSE IF aes_round < nk + 6 THEN Aes8Is!MixColumns(z) ELSE z
  <2>1. Mat(Code8!MixColumns(s)) = Aes8Is!MixColumns(z) /\ IsBlock(Code8!MixColumns(s))
    BY <1>5, <1>6, MixSame, BlocksStay
  <2>2. QED
    BY <1>1, <1>5, <1>6, <2>1
<1> HIDE DEF m
<1>10. /\ Mat(Code8!AddRoundKey(m, aes_round)) = Aes8Is!AddRoundKey(Mat(m), aes_round)
       /\ IsBlock(Code8!AddRoundKey(m, aes_round))
  BY <1>1, <1>2, <1>3, <1>9, AddKeySame
<1>11. QED
  BY <1>7, <1>8, <1>9, <1>10

LEMMA DecryptsSame ==
  ASSUME NEW nk \in {4, 6, 8}, NEW V, Scheduled(nk, V), NEW t,
         t = LET s == Code8!AddRoundKey(aes_output, aes_round)
             IN IF aes_round = 0 THEN s
                ELSE Code8!InvSubBytes(Code8!InvShiftRows(
                       IF aes_round < nk + 6 THEN Code8!InvMixColumns(s) ELSE s))
  PROVE  Mat(t) = Aes8Is!Decrypted /\ IsBlock(t)
<1>1. /\ aes_key \in [0 .. 4 * nk - 1 -> Gf!Bytes] /\ IsKeySchedule(V, nk) /\ KeysOf(V, nk)
      /\ IsBlock(aes_output) /\ aes_round \in 0 .. nk + 6
  BY DEF Scheduled
<1>2. Code8!keysize_word = nk /\ Aes8Is!Rounds = nk + 6
  BY <1>1, KeyLengths DEF Aes8Is!Rounds
<1>3. Aes8Is!KeyExpansion = Used(V, nk)
  BY <1>1, ExpansionIs
<1>4. Code8!Matrix = Mat(aes_output)
  BY DEF Code8!Matrix, Mat
<1> DEFINE s == Code8!AddRoundKey(aes_output, aes_round)
           z == Aes8Is!AddRoundKey(Mat(aes_output), aes_round)
           m == IF aes_round < nk + 6 THEN Code8!InvMixColumns(s) ELSE s
           x == IF aes_round < nk + 6 THEN Aes8Is!InvMixColumns(z) ELSE z
<1>5. Mat(s) = z /\ IsBlock(s)
  BY <1>1, <1>2, <1>3, AddKeySame
<1>6. t = IF aes_round = 0 THEN s ELSE Code8!InvSubBytes(Code8!InvShiftRows(m))
  OBVIOUS
<1>7. Aes8Is!Decrypted = IF aes_round = 0 THEN z ELSE Aes8Is!InvSubBytes(Aes8Is!InvShiftRows(x))
  BY <1>2, <1>4, Zenon DEF Aes8Is!Decrypted
<1> HIDE DEF s, z
<1>8. Mat(m) = x /\ IsBlock(m)
  BY <1>5, UnmixSame, BlocksStay
<1> HIDE DEF m, x
<1>9. Mat(Code8!InvShiftRows(m)) = Aes8Is!InvShiftRows(x) /\ IsBlock(Code8!InvShiftRows(m))
  BY <1>8, ShiftsSame, BlocksStay
<1>10. /\ Mat(Code8!InvSubBytes(Code8!InvShiftRows(m))) = Aes8Is!InvSubBytes(Aes8Is!InvShiftRows(x))
       /\ IsBlock(Code8!InvSubBytes(Code8!InvShiftRows(m)))
  BY <1>9, SubsSame, BlocksStay
<1>11. QED
  BY <1>5, <1>6, <1>7, <1>10

\* While the context stays, what is scheduled stays.
LEMMA ScheduleStays ==
  ASSUME NEW nk \in {4, 6, 8}, NEW V, Scheduled(nk, V),
         UNCHANGED <<aes_key, aes_stored, aes_ctx_key>>,
         IsBlock(aes_output'), aes_round' \in 0 .. nk + 6,
         aes_stored \/ \E r \in 0 .. 10 : aes_round_key' = BufferAt(V, nk, r)
  PROVE  Scheduled(nk, V)'
<1>1. \A k : (Code8!KeyWord(k))' = Code8!KeyWord(k)
  BY DEF Code8!KeyWord
<1>2. IsKeySchedule(V, nk)'
  BY <1>1 DEF Scheduled, IsKeySchedule
<1>3. KeysOf(V, nk)'
  BY <1>1 DEF Scheduled, KeysOf
<1>4. IsBlock(aes_output)'
  BY DEF IsBlock
<1>5. QED
  BY <1>2, <1>3, <1>4 DEF Scheduled

LEMMA ScheduledFirst ==
  ASSUME Code8!VectorsAssumption, Code8!Init
  PROVE  CipherInv
<1>1. PICK v \in Inputs : aes_key = v.key /\ aes_block = v.block
  BY DEF Code8!Init
<1>2. PICK nk \in {4, 6, 8} : v.key \in [0 .. 4 * nk - 1 -> Gf!Bytes]
  BY <1>1 DEF Code8!VectorsAssumption, Code8!Bytes, Gf!Bytes
<1>3. aes_key \in [0 .. 4 * nk - 1 -> Gf!Bytes]
  BY <1>1, <1>2
<1>4. Code8!keysize_word = nk
  BY <1>3, KeyLengths
<1> DEFINE w == [m \in 0 .. nk - 1 |-> Code8!KeyWord(m)]
<1>5. \A m \in 0 .. nk - 1 : w[m] = Code8!KeyWord(m)
  OBVIOUS
<1>6. /\ aes_ctx_key = IF aes_stored THEN Code8!Keys!StoredKeys(nk, w, 4 * (nk + 7)) ELSE w
      /\ aes_round_key = Code8!Keys!InitRoundKey(nk, w)
      /\ aes_output = aes_block /\ aes_round = 0
  BY <1>4 DEF Code8!Init
<1>7. PICK V : IsKeySchedule(V, nk) /\ Code8!Keys!StoredKeys(nk, w, 4 * (nk + 7)) = Used(V, nk)
  <2> HIDE DEF w
  <2>1. QED
    BY <1>3, <1>5, SchedulesSame
<1>8. aes_round_key = BufferAt(V, nk, 0)
  <2>1. \A m \in 0 .. nk - 1 : m + 1 \in 1 .. nk /\ 0 * nk + m + 1 = m + 1 /\ (m + 1) - 1 = m
    OBVIOUS
  <2>2. \A m \in 0 .. nk - 1 : V[0 * nk + m + 1] = Code8!KeyWord(m)
    BY <1>7, <2>1 DEF IsKeySchedule
  <2>3. Code8!Keys!InitRoundKey(nk, w) = [iter_num |-> 0, buf |-> [m \in 0 .. nk - 1 |-> w[m]]]
    BY DEF Code8!Keys!InitRoundKey
  <2> HIDE DEF w
  <2>4. QED
    BY <1>5, <1>6, <2>2, <2>3 DEF BufferAt
<1>9. KeysOf(V, nk)
  <2> HIDE DEF w
  <2>1. 0 \in 0 .. 10
    OBVIOUS
  <2>2. QED
    BY <1>5, <1>6, <1>7, <1>8, <2>1 DEF KeysOf
<1>10. IsBlock(aes_output)
  BY <1>1, <1>6 DEF Code8!VectorsAssumption, Code8!Bytes, Gf!Bytes, IsBlock, Sixteen
<1>11. Scheduled(nk, V)
  BY <1>3, <1>6, <1>7, <1>9, <1>10 DEF Scheduled
<1>12. QED
  BY <1>11 DEF CipherInv

\* The begin of the code is the begin of the standard.
LEMMA CipherBegins == Code8!Init => Aes8Is!Init
<1>1. Code8!Init => Code8!Matrix = [p \in (0 .. 3) \X (0 .. 3) |-> aes_block[p[1] + 4 * p[2]]]
  BY DEF Code8!Init, Code8!Matrix
<1>2. Aes8Is!MatrixOf(aes_block) = [p \in (0 .. 3) \X (0 .. 3) |-> aes_block[p[1] + 4 * p[2]]]
  BY DEF Aes8Is!MatrixOf, Aes8Is!Places
<1>3. QED
  BY <1>1, <1>2 DEF Code8!Init, Aes8Is!Init

\* What is scheduled stays scheduled, and a round comes to what it is to come to.
LEMMA ScheduledNext ==
  ASSUME NEW nk \in {4, 6, 8}, NEW V, Scheduled(nk, V), [Code8!Next]_(Code8!vars)
  PROVE  Scheduled(nk, V)'
<1>1. /\ aes_key \in [0 .. 4 * nk - 1 -> Gf!Bytes] /\ IsKeySchedule(V, nk) /\ KeysOf(V, nk)
      /\ IsBlock(aes_output) /\ aes_round \in 0 .. nk + 6
  BY DEF Scheduled
<1>2. Code8!keysize_word = nk /\ Code8!num_rounds = nk + 6
  BY <1>1, KeyLengths DEF Code8!num_rounds
<1>3. aes_stored \/ \E r \in 0 .. 10 : Code8!RoundKeyBehind(aes_round) = BufferAt(V, nk, r)
  BY <1>1, <1>2, BufferBehind
<1>4. CASE Code8!CipherRound
  <2>1. /\ aes_round' = IF aes_round = nk + 6 THEN nk + 6 ELSE aes_round + 1
        /\ UNCHANGED <<aes_key, aes_stored, aes_ctx_key>>
        /\ aes_round_key' = IF aes_round = nk + 6 /\ ~aes_stored
                            THEN Code8!Keys!InitRoundKey(nk, aes_ctx_key)
                            ELSE Code8!RoundKeyBehind(aes_round)
    BY <1>2, <1>4 DEF Code8!CipherRound
  <2>2. IsBlock(aes_output')
    <3>1. aes_output' = LET s == Code8!ShiftRows(Code8!SubBytes(aes_output))
                        IN Code8!AddRoundKey(
                             IF aes_round = 0 THEN aes_output
                             ELSE IF aes_round < nk + 6 THEN Code8!MixColumns(s) ELSE s, aes_round)
      BY <1>2, <1>4, Zenon DEF Code8!CipherRound
    <3>2. QED
      BY <3>1, EncryptsSame
  <2>3. aes_stored \/ Code8!Keys!InitRoundKey(nk, aes_ctx_key) = BufferAt(V, nk, 0)
    <3>1. Code8!Keys!InitRoundKey(nk, aes_ctx_key)
            = [iter_num |-> 0, buf |-> [m \in 0 .. nk - 1 |-> aes_ctx_key[m]]]
      BY DEF Code8!Keys!InitRoundKey
    <3>2. \A m \in 0 .. nk - 1 : m + 1 \in 1 .. nk /\ 0 * nk + m + 1 = m + 1 /\ (m + 1) - 1 = m
      OBVIOUS
    <3>3. \A m \in 0 .. nk - 1 : V[0 * nk + m + 1] = Code8!KeyWord(m)
      BY <1>1, <3>2 DEF IsKeySchedule
    <3>4. aes_stored \/ \A m \in 0 .. nk - 1 : aes_ctx_key[m] = Code8!KeyWord(m)
      BY <1>1 DEF KeysOf
    <3>5. QED
      BY <3>1, <3>3, <3>4 DEF BufferAt
  <2>4. aes_stored \/ \E r \in 0 .. 10 : aes_round_key' = BufferAt(V, nk, r)
    <3>1. 0 \in 0 .. 10
      OBVIOUS
    <3>2. QED
      BY <1>3, <2>1, <2>3, <3>1
  <2>5. aes_round' \in 0 .. nk + 6
    BY <1>1, <2>1
  <2>6. QED
    BY <2>1, <2>2, <2>4, <2>5, ScheduleStays
<1>5. CASE Code8!InvCipherRound
  <2>1. /\ aes_round' = IF aes_round = 0 THEN 0 ELSE aes_round - 1
        /\ UNCHANGED <<aes_key, aes_stored, aes_ctx_key>>
        /\ aes_round_key' = Code8!RoundKeyBehind(aes_round)
    BY <1>5 DEF Code8!InvCipherRound
  <2>2. IsBlock(aes_output')
    <3>1. aes_output' = LET s == Code8!AddRoundKey(aes_output, aes_round)
                        IN IF aes_round = 0 THEN s
                           ELSE Code8!InvSubBytes(Code8!InvShiftRows(
                                  IF aes_round < nk + 6 THEN Code8!InvMixColumns(s) ELSE s))
      BY <1>2, <1>5, Zenon DEF Code8!InvCipherRound
    <3>2. QED
      BY <3>1, DecryptsSame
  <2>3. aes_round' \in 0 .. nk + 6
    BY <1>1, <2>1
  <2>4. QED
    BY <1>3, <2>1, <2>2, <2>3, ScheduleStays
<1>6. CASE UNCHANGED Code8!vars
  <2>1. UNCHANGED <<aes_key, aes_output, aes_stored, aes_ctx_key, aes_round_key, aes_round>>
    BY <1>6 DEF Code8!vars
  <2>2. IsBlock(aes_output') /\ aes_round' \in 0 .. nk + 6
    BY <1>1, <2>1
  <2>3. aes_stored \/ \E r \in 0 .. 10 : aes_round_key' = BufferAt(V, nk, r)
    BY <1>1, <2>1 DEF KeysOf
  <2>4. QED
    BY <2>1, <2>2, <2>3, ScheduleStays
<1>7. QED
  BY <1>4, <1>5, <1>6 DEF Code8!Next

\* A round of Cipher() is one of the encryption, one of InvCipher() one of the decryption.
LEMMA CipherSteps ==
  ASSUME NEW nk \in {4, 6, 8}, NEW V, Scheduled(nk, V), [Code8!Next]_(Code8!vars)
  PROVE  [Aes8Is!Next]_(Aes8Is!aesVars)
<1>1. aes_key \in [0 .. 4 * nk - 1 -> Gf!Bytes]
  BY DEF Scheduled
<1>2. Code8!num_rounds = nk + 6 /\ Aes8Is!Rounds = nk + 6
  BY <1>1, KeyLengths DEF Code8!num_rounds, Aes8Is!Rounds
<1>3. Code8!Matrix' = Mat(aes_output')
  BY DEF Code8!Matrix, Mat
<1>4. CASE Code8!CipherRound
  <2>1. /\ aes_phase = "encrypt"
        /\ aes_phase' = IF aes_round = nk + 6 THEN "decrypt" ELSE "encrypt"
        /\ aes_round' = IF aes_round = nk + 6 THEN nk + 6 ELSE aes_round + 1
        /\ UNCHANGED <<aes_key, aes_block>>
    BY <1>2, <1>4 DEF Code8!CipherRound
  <2>2. aes_output' = LET s == Code8!ShiftRows(Code8!SubBytes(aes_output))
                      IN Code8!AddRoundKey(
                           IF aes_round = 0 THEN aes_output
                           ELSE IF aes_round < nk + 6 THEN Code8!MixColumns(s) ELSE s, aes_round)
    BY <1>2, <1>4, Zenon DEF Code8!CipherRound
  <2>3. Mat(aes_output') = Aes8Is!Encrypted
    BY <2>2, EncryptsSame
  <2>4. Aes8Is!EncryptRound
    BY <1>2, <1>3, <2>1, <2>3, Zenon DEF Aes8Is!EncryptRound
  <2>5. QED
    BY <2>4 DEF Aes8Is!Next
<1>5. CASE Code8!InvCipherRound
  <2>1. /\ aes_phase = "decrypt"
        /\ aes_phase' = IF aes_round = 0 THEN "done" ELSE "decrypt"
        /\ aes_round' = IF aes_round = 0 THEN 0 ELSE aes_round - 1
        /\ UNCHANGED <<aes_key, aes_block>>
    BY <1>5 DEF Code8!InvCipherRound
  <2>2. aes_output' = LET s == Code8!AddRoundKey(aes_output, aes_round)
                      IN IF aes_round = 0 THEN s
                         ELSE Code8!InvSubBytes(Code8!InvShiftRows(
                                IF aes_round < nk + 6 THEN Code8!InvMixColumns(s) ELSE s))
    BY <1>2, <1>5, Zenon DEF Code8!InvCipherRound
  <2>3. Mat(aes_output') = Aes8Is!Decrypted
    BY <2>2, DecryptsSame
  <2>4. Aes8Is!DecryptRound
    BY <1>3, <2>1, <2>3, Zenon DEF Aes8Is!DecryptRound
  <2>5. QED
    BY <2>4 DEF Aes8Is!Next
<1>6. CASE UNCHANGED Code8!vars
  <2>1. UNCHANGED <<aes_key, aes_block, aes_output, aes_round, aes_phase>>
    BY <1>6 DEF Code8!vars
  <2>2. Code8!Matrix' = Code8!Matrix
    BY <2>1 DEF Code8!Matrix
  <2>3. QED
    BY <2>1, <2>2 DEF Aes8Is!aesVars
<1>7. QED
  BY <1>4, <1>5, <1>6 DEF Code8!Next

\* Every key of 16, 24 or 32 bytes and every block, with the round keys stored or expanded on
\* the way: Cipher() and InvCipher() of libs/uAES/src/uaes.c, as they are built for a small
\* processor, encrypt and decrypt as FIPS 197 says, round by round.
THEOREM CipherImplementsStandard ==
  ASSUME Code8!VectorsAssumption
  PROVE  Code8!Spec => Aes8Is!Spec
<1>1. Code8!Init => CipherInv /\ Aes8Is!Init
  BY ScheduledFirst, CipherBegins
<1>2. CipherInv /\ [Code8!Next]_(Code8!vars) => CipherInv' /\ [Aes8Is!Next]_(Aes8Is!aesVars)
  <2> SUFFICES ASSUME CipherInv, [Code8!Next]_(Code8!vars)
               PROVE  CipherInv' /\ [Aes8Is!Next]_(Aes8Is!aesVars)
    OBVIOUS
  <2>1. PICK nk \in {4, 6, 8} : \E V : Scheduled(nk, V)
    BY DEF CipherInv
  <2>2. PICK V : Scheduled(nk, V)
    BY <2>1
  <2>3. Scheduled(nk, V)'
    BY <2>2, ScheduledNext
  <2>4. [Aes8Is!Next]_(Aes8Is!aesVars)
    BY <2>2, CipherSteps
  <2>5. QED
    BY <2>3, <2>4 DEF CipherInv
<1>3. QED
  BY <1>1, <1>2, PTL DEF Code8!Spec, Aes8Is!Spec

-----------------------------------------------------------------------------
(* The S-box and its inverse *)

\* A byte as a number.
OneAt(s, k) == IF k \in s THEN 1 ELSE 0
Number(s) == OneAt(s, 0) + 2 * OneAt(s, 1) + 4 * OneAt(s, 2) + 8 * OneAt(s, 3)
             + 16 * OneAt(s, 4) + 32 * OneAt(s, 5) + 64 * OneAt(s, 6) + 128 * OneAt(s, 7)

LEMMA PowersToSeven ==
  /\ 2 ^ 0 = 1 /\ 2 ^ 1 = 2 /\ 2 ^ 2 = 4 /\ 2 ^ 3 = 8
  /\ 2 ^ 4 = 16 /\ 2 ^ 5 = 32 /\ 2 ^ 6 = 64 /\ 2 ^ 7 = 128
OBVIOUS

LEMMA Bits01 ==
  ASSUME NEW s
  PROVE  /\ OneAt(s, 0) \in 0 .. 1 /\ OneAt(s, 1) \in 0 .. 1 /\ OneAt(s, 2) \in 0 .. 1
         /\ OneAt(s, 3) \in 0 .. 1 /\ OneAt(s, 4) \in 0 .. 1 /\ OneAt(s, 5) \in 0 .. 1
         /\ OneAt(s, 6) \in 0 .. 1 /\ OneAt(s, 7) \in 0 .. 1
BY DEF OneAt

LEMMA NumberType == \A s : Number(s) \in 0 .. 255
BY Bits01 DEF Number

\* Without one of its bits a byte is less by the power of that bit.
LEMMA NumberWithout ==
  ASSUME NEW s \in Gf!Bytes, NEW x \in s
  PROVE  Number(s) = 2 ^ x + Number(s \ {x}) /\ Number(s \ {x}) < Number(s)
<1> DEFINE t == s \ {x}
<1>1. /\ OneAt(t, 0) = IF x = 0 THEN 0 ELSE OneAt(s, 0)
      /\ OneAt(t, 1) = IF x = 1 THEN 0 ELSE OneAt(s, 1)
      /\ OneAt(t, 2) = IF x = 2 THEN 0 ELSE OneAt(s, 2)
      /\ OneAt(t, 3) = IF x = 3 THEN 0 ELSE OneAt(s, 3)
      /\ OneAt(t, 4) = IF x = 4 THEN 0 ELSE OneAt(s, 4)
      /\ OneAt(t, 5) = IF x = 5 THEN 0 ELSE OneAt(s, 5)
      /\ OneAt(t, 6) = IF x = 6 THEN 0 ELSE OneAt(s, 6)
      /\ OneAt(t, 7) = IF x = 7 THEN 0 ELSE OneAt(s, 7)
  BY DEF OneAt
<1>2. OneAt(s, x) = 1 /\ x \in 0 .. 7
  BY DEF OneAt, Gf!Bytes
<1> HIDE DEF t
<1>13. PICK c0 \in 0 .. 1, c1 \in 0 .. 1, c2 \in 0 .. 1, c3 \in 0 .. 1,
            c4 \in 0 .. 1, c5 \in 0 .. 1, c6 \in 0 .. 1, c7 \in 0 .. 1 :
         /\ c0 = OneAt(s, 0) /\ c1 = OneAt(s, 1) /\ c2 = OneAt(s, 2) /\ c3 = OneAt(s, 3)
         /\ c4 = OneAt(s, 4) /\ c5 = OneAt(s, 5) /\ c6 = OneAt(s, 6) /\ c7 = OneAt(s, 7)
  BY Bits01
<1>14. Number(s) = c0 + 2 * c1 + 4 * c2 + 8 * c3 + 16 * c4 + 32 * c5 + 64 * c6 + 128 * c7
  BY <1>13 DEF Number
<1>3. ASSUME x = 0 PROVE Number(s) = 2 ^ x + Number(t) /\ Number(t) < Number(s)
  <2>1. 2 ^ x = 1 /\ c0 = 1
    BY <1>2, <1>13, <1>3, PowersToSeven
  <2>2. Number(t) = 0 + 2 * c1 + 4 * c2 + 8 * c3 + 16 * c4 + 32 * c5 + 64 * c6 + 128 * c7
    BY <1>1, <1>13, <1>3 DEF Number
  <2>3. QED
    BY <1>14, <2>1, <2>2
<1>4. ASSUME x = 1 PROVE Number(s) = 2 ^ x + Number(t) /\ Number(t) < Number(s)
  <2>1. 2 ^ x = 2 /\ c1 = 1
    BY <1>2, <1>13, <1>4, PowersToSeven
  <2>2. Number(t) = c0 + 2 * 0 + 4 * c2 + 8 * c3 + 16 * c4 + 32 * c5 + 64 * c6 + 128 * c7
    BY <1>1, <1>13, <1>4 DEF Number
  <2>3. QED
    BY <1>14, <2>1, <2>2
<1>5. ASSUME x = 2 PROVE Number(s) = 2 ^ x + Number(t) /\ Number(t) < Number(s)
  <2>1. 2 ^ x = 4 /\ c2 = 1
    BY <1>2, <1>13, <1>5, PowersToSeven
  <2>2. Number(t) = c0 + 2 * c1 + 4 * 0 + 8 * c3 + 16 * c4 + 32 * c5 + 64 * c6 + 128 * c7
    BY <1>1, <1>13, <1>5 DEF Number
  <2>3. QED
    BY <1>14, <2>1, <2>2
<1>6. ASSUME x = 3 PROVE Number(s) = 2 ^ x + Number(t) /\ Number(t) < Number(s)
  <2>1. 2 ^ x = 8 /\ c3 = 1
    BY <1>2, <1>13, <1>6, PowersToSeven
  <2>2. Number(t) = c0 + 2 * c1 + 4 * c2 + 8 * 0 + 16 * c4 + 32 * c5 + 64 * c6 + 128 * c7
    BY <1>1, <1>13, <1>6 DEF Number
  <2>3. QED
    BY <1>14, <2>1, <2>2
<1>7. ASSUME x = 4 PROVE Number(s) = 2 ^ x + Number(t) /\ Number(t) < Number(s)
  <2>1. 2 ^ x = 16 /\ c4 = 1
    BY <1>2, <1>13, <1>7, PowersToSeven
  <2>2. Number(t) = c0 + 2 * c1 + 4 * c2 + 8 * c3 + 16 * 0 + 32 * c5 + 64 * c6 + 128 * c7
    BY <1>1, <1>13, <1>7 DEF Number
  <2>3. QED
    BY <1>14, <2>1, <2>2
<1>8. ASSUME x = 5 PROVE Number(s) = 2 ^ x + Number(t) /\ Number(t) < Number(s)
  <2>1. 2 ^ x = 32 /\ c5 = 1
    BY <1>2, <1>13, <1>8, PowersToSeven
  <2>2. Number(t) = c0 + 2 * c1 + 4 * c2 + 8 * c3 + 16 * c4 + 32 * 0 + 64 * c6 + 128 * c7
    BY <1>1, <1>13, <1>8 DEF Number
  <2>3. QED
    BY <1>14, <2>1, <2>2
<1>9. ASSUME x = 6 PROVE Number(s) = 2 ^ x + Number(t) /\ Number(t) < Number(s)
  <2>1. 2 ^ x = 64 /\ c6 = 1
    BY <1>2, <1>13, <1>9, PowersToSeven
  <2>2. Number(t) = c0 + 2 * c1 + 4 * c2 + 8 * c3 + 16 * c4 + 32 * c5 + 64 * 0 + 128 * c7
    BY <1>1, <1>13, <1>9 DEF Number
  <2>3. QED
    BY <1>14, <2>1, <2>2
<1>10. ASSUME x = 7 PROVE Number(s) = 2 ^ x + Number(t) /\ Number(t) < Number(s)
  <2>1. 2 ^ x = 128 /\ c7 = 1
    BY <1>2, <1>13, <1>10, PowersToSeven
  <2>2. Number(t) = c0 + 2 * c1 + 4 * c2 + 8 * c3 + 16 * c4 + 32 * c5 + 64 * c6 + 128 * 0
    BY <1>1, <1>13, <1>10 DEF Number
  <2>3. QED
    BY <1>14, <2>1, <2>2
<1>11. Number(s) = 2 ^ x + Number(t) /\ Number(t) < Number(s)
  BY <1>2, <1>3, <1>4, <1>5, <1>6, <1>7, <1>8, <1>9, <1>10
<1>12. QED
  BY <1>11 DEF t

\* The bits of that number are those of the byte.
LEMMA NumbersBits == \A s \in Gf!Bytes : Gf!Byte(Number(s)) = s
<1> SUFFICES ASSUME NEW s \in Gf!Bytes PROVE Gf!Byte(Number(s)) = s
  OBVIOUS
<1>1. \A k \in 0 .. 7 : k \in Gf!Byte(Number(s)) <=> k \in s
  <2> DEFINE n == Number(s)
  <2>1. /\ \A b \in 0 .. 1, h \in 0 .. 127 : (b + 2 * h) % 2 = b
        /\ \A l \in 0 .. 1, b \in 0 .. 1, h \in 0 .. 63 : ((l + 2 * b + 4 * h) \div 2) % 2 = b
        /\ \A l \in 0 .. 3, b \in 0 .. 1, h \in 0 .. 31 : ((l + 4 * b + 8 * h) \div 4) % 2 = b
        /\ \A l \in 0 .. 7, b \in 0 .. 1, h \in 0 .. 15 : ((l + 8 * b + 16 * h) \div 8) % 2 = b
        /\ \A l \in 0 .. 15, b \in 0 .. 1, h \in 0 .. 7 : ((l + 16 * b + 32 * h) \div 16) % 2 = b
        /\ \A l \in 0 .. 31, b \in 0 .. 1, h \in 0 .. 3 : ((l + 32 * b + 64 * h) \div 32) % 2 = b
        /\ \A l \in 0 .. 63, b \in 0 .. 1, h \in 0 .. 1 : ((l + 64 * b + 128 * h) \div 64) % 2 = b
        /\ \A l \in 0 .. 127, b \in 0 .. 1 : ((l + 128 * b) \div 128) % 2 = b
    OBVIOUS
  <2>2. /\ n % 2 = OneAt(s, 0) /\ (n \div 2) % 2 = OneAt(s, 1) /\ (n \div 4) % 2 = OneAt(s, 2)
        /\ (n \div 8) % 2 = OneAt(s, 3) /\ (n \div 16) % 2 = OneAt(s, 4)
        /\ (n \div 32) % 2 = OneAt(s, 5) /\ (n \div 64) % 2 = OneAt(s, 6)
        /\ (n \div 128) % 2 = OneAt(s, 7)
    <3>1. PICK c0 \in 0 .. 1, c1 \in 0 .. 1, c2 \in 0 .. 1, c3 \in 0 .. 1,
               c4 \in 0 .. 1, c5 \in 0 .. 1, c6 \in 0 .. 1, c7 \in 0 .. 1 :
            /\ c0 = OneAt(s, 0) /\ c1 = OneAt(s, 1) /\ c2 = OneAt(s, 2) /\ c3 = OneAt(s, 3)
            /\ c4 = OneAt(s, 4) /\ c5 = OneAt(s, 5) /\ c6 = OneAt(s, 6) /\ c7 = OneAt(s, 7)
      BY Bits01
    <3>2. n = c0 + 2 * c1 + 4 * c2 + 8 * c3 + 16 * c4 + 32 * c5 + 64 * c6 + 128 * c7
      BY <3>1 DEF Number
    <3> HIDE DEF n
    <3>3. n % 2 = c0
      BY <3>2
    <3>4. (n \div 2) % 2 = c1
      BY <3>2
    <3>5. (n \div 4) % 2 = c2
      BY <3>2
    <3>6. (n \div 8) % 2 = c3
      BY <3>2
    <3>7. (n \div 16) % 2 = c4
      BY <3>2
    <3>8. (n \div 32) % 2 = c5
      BY <3>2
    <3>9. (n \div 64) % 2 = c6
      BY <3>2
    <3>10. (n \div 128) % 2 = c7
      BY <3>2
    <3>11. QED
      BY <3>1, <3>3, <3>4, <3>5, <3>6, <3>7, <3>8, <3>9, <3>10
  <2>3. n \in Nat
    BY NumberType
  <2> HIDE DEF n
  <2>4. /\ 0 \in Gf!Byte(n) <=> 0 \in s
        /\ 1 \in Gf!Byte(n) <=> 1 \in s
        /\ 2 \in Gf!Byte(n) <=> 2 \in s
        /\ 3 \in Gf!Byte(n) <=> 3 \in s
        /\ 4 \in Gf!Byte(n) <=> 4 \in s
        /\ 5 \in Gf!Byte(n) <=> 5 \in s
        /\ 6 \in Gf!Byte(n) <=> 6 \in s
        /\ 7 \in Gf!Byte(n) <=> 7 \in s
    BY <2>2, <2>3, ByteIs DEF OneAt
  <2>5. \A k \in 0 .. 7 : k = 0 \/ k = 1 \/ k = 2 \/ k = 3 \/ k = 4 \/ k = 5 \/ k = 6 \/ k = 7
    OBVIOUS
  <2>6. \A k \in 0 .. 7 : k \in Gf!Byte(n) <=> k \in s
    BY <2>4, <2>5
  <2>7. QED
    BY <2>6 DEF n
<1>2. Gf!Byte(Number(s)) \in SUBSET (0 .. 7) /\ s \in SUBSET (0 .. 7)
  BY DEF Gf!Byte, Gf!Bytes
<1>3. QED
  BY <1>1, <1>2

LEMMA BytesNumber == \A n \in 0 .. 255 : Number(Gf!Byte(n)) = n
BY PowersToSeven DEF Number, OneAt, Gf!Byte, Gf!Bit

\* The value of a byte, a fold over its bits, is that number.
PowerSum(S) ==
  (CHOOSE g : g = [s \in SUBSET S |->
                     IF s = {} THEN 0
                     ELSE 2 ^ (CHOOSE x \in s : TRUE) + g[s \ {CHOOSE x \in s : TRUE}]])[S]

LEMMA ValueIs == \A S : Gf!Value(S) = PowerSum(S)
BY Zenon DEF Gf!Value, Gf!Sets!MapThenSumSet, Gf!Sets!MapThenFoldSet, PowerSum

LEMMA ValueIsNumber == \A S \in Gf!Bytes : Gf!Value(S) = Number(S)
<1> SUFFICES ASSUME NEW S \in Gf!Bytes PROVE PowerSum(S) = Number(S)
  BY ValueIs
<1> DEFINE one(s) == CHOOSE x \in s : TRUE
           Body(g) == [s \in SUBSET S |-> IF s = {} THEN 0 ELSE 2 ^ one(s) + g[s \ {one(s)}]]
           g0 == CHOOSE g : g = Body(g)
           g1 == [s \in SUBSET S |-> Number(s)]
<1>1. PowerSum(S) = g0[S]
  BY Zenon DEF PowerSum
<1>2. \A s \in SUBSET S : s # {} => /\ one(s) \in s /\ s \ {one(s)} \in SUBSET S
                                    /\ Number(s) = 2 ^ one(s) + Number(s \ {one(s)})
                                    /\ Number(s \ {one(s)}) < Number(s)
  <2> SUFFICES ASSUME NEW s \in SUBSET S, s # {}
               PROVE  /\ one(s) \in s /\ s \ {one(s)} \in SUBSET S
                      /\ Number(s) = 2 ^ one(s) + Number(s \ {one(s)})
                      /\ Number(s \ {one(s)}) < Number(s)
    OBVIOUS
  <2>1. one(s) \in s
    OBVIOUS
  <2>2. s \in Gf!Bytes
    BY DEF Gf!Bytes
  <2> HIDE DEF one
  <2>3. QED
    BY <2>1, <2>2, NumberWithout
<1>3. Number({}) = 0
  BY DEF Number, OneAt
<1>4. g1 = Body(g1)
  <2> HIDE DEF one
  <2>1. \A s \in SUBSET S : Number(s) = IF s = {} THEN 0 ELSE 2 ^ one(s) + g1[s \ {one(s)}]
    BY <1>2, <1>3
  <2>2. QED
    BY <2>1
<1>5. g0 = Body(g0)
  <2> HIDE DEF Body
  <2>1. QED
    BY <1>4
<1>6. \A s \in SUBSET S : g0[s] = IF s = {} THEN 0 ELSE 2 ^ one(s) + g0[s \ {one(s)}]
  <2> HIDE DEF g0, one
  <2>1. QED
    BY <1>5
<1> HIDE DEF g0, g1, one
<1> DEFINE wrong == {s \in SUBSET S : g0[s] # Number(s)}
           numbers == {Number(s) : s \in wrong}
<1>7. ASSUME wrong # {} PROVE FALSE
  <2>1. numbers \in SUBSET Nat /\ numbers # {}
    BY <1>7, NumberType
  <2>2. PICK m \in numbers : \A n \in numbers : m <= n
    <3> HIDE DEF numbers
    <3>1. QED
      BY <2>1, Smallest
  <2>3. PICK s \in wrong : m = Number(s)
    OBVIOUS
  <2>4. s \in SUBSET S /\ g0[s] # Number(s)
    OBVIOUS
  <2>5. s # {}
    BY <1>3, <1>6, <2>4
  <2>6. s \ {one(s)} \in SUBSET S /\ Number(s \ {one(s)}) < Number(s)
    BY <1>2, <2>4, <2>5
  <2>7. Number(s \ {one(s)}) \notin numbers
    <3> HIDE DEF numbers
    <3>1. Number(s) \in 0 .. 255 /\ Number(s \ {one(s)}) \in 0 .. 255
      BY NumberType
    <3>2. Number(s \ {one(s)}) \in numbers => Number(s) <= Number(s \ {one(s)})
      BY <2>2, <2>3
    <3>3. \A a, b \in 0 .. 255 : a <= b => ~ (b < a)
      OBVIOUS
    <3>4. QED
      BY <2>6, <3>1, <3>2, <3>3, Zenon
  <2>8. s \ {one(s)} \notin wrong
    <3> HIDE DEF wrong
    <3>1. QED
      BY <2>7
  <2>9. g0[s \ {one(s)}] = Number(s \ {one(s)})
    BY <2>6, <2>8
  <2>10. g0[s] = 2 ^ one(s) + Number(s \ {one(s)})
    BY <1>6, <2>4, <2>5, <2>9
  <2>11. QED
    BY <1>2, <2>4, <2>5, <2>10
<1>8. g0[S] = Number(S)
  BY <1>7
<1>9. QED
  BY <1>1, <1>8

LEMMA TablesInvert ==
  ASSUME NEW n \in 0 .. 255
  PROVE  Gf!SBOX[n + 1] \in 0 .. 255 /\ Gf!RSBOX[Gf!SBOX[n + 1] + 1] = n
<1>1. \A m \in 1 .. 256 : Gf!SBOX[m] \in 0 .. 255 /\ Gf!RSBOX[Gf!SBOX[m] + 1] = m - 1
  BY DEF Gf!SBOX, Gf!RSBOX
<1>2. n + 1 \in 1 .. 256 /\ (n + 1) - 1 = n
  OBVIOUS
<1>3. QED
  BY <1>1, <1>2

\* InvSubByte() undoes SubByte().
LEMMA SboxInverts ==
  ASSUME NEW x \in Gf!Bytes
  PROVE  Gf!RSbox[Gf!Sbox[x]] = x
<1> DEFINE n == Number(x)
           m == Gf!SBOX[n + 1]
<1>1. n \in 0 .. 255 /\ Gf!Byte(n) = x /\ Gf!Value(x) = n
  BY NumberType, NumbersBits, ValueIsNumber
<1>2. m \in 0 .. 255 /\ Gf!RSBOX[m + 1] = n
  <2> HIDE DEF n
  <2>1. QED
    BY <1>1, TablesInvert
<1>3. Gf!Sbox[x] = Gf!Byte(m)
  BY <1>1 DEF Gf!Sbox, Gf!SubByteTable
<1> HIDE DEF n, m
<1>4. Gf!Byte(m) \in Gf!Bytes
  BY DEF Gf!Byte, Gf!Bytes
<1>5. Gf!Value(Gf!Byte(m)) = m
  BY <1>2, <1>4, ValueIsNumber, BytesNumber
<1>6. Gf!RSbox[Gf!Byte(m)] = Gf!Byte(Gf!RSBOX[m + 1])
  BY <1>4, <1>5 DEF Gf!RSbox, Gf!InvSubByteTable
<1>7. QED
  BY <1>1, <1>2, <1>3, <1>6

-----------------------------------------------------------------------------
(* The steps of a round are undone *)

\* InvMixColumns() undoes MixColumns(), in each byte.
Undoes(a0, a1, a2, a3, sum) ==
  Unmixed(MixedByte(a0, a1, sum), MixedByte(a1, a2, sum),
          MixedByte(a2, a3, sum), MixedByte(a3, a0, sum)) = a0

LEMMA MixUndone ==
  ASSUME NEW a0 \in Gf!Bytes, NEW a1 \in Gf!Bytes, NEW a2 \in Gf!Bytes, NEW a3 \in Gf!Bytes,
         NEW sum, sum = Gf!Xor(Gf!Xor(a0, a1), Gf!Xor(a2, a3))
  PROVE  Undoes(a0, a1, a2, a3, sum)
<1> DEFINE D(x) == Times2(x)
           m0 == MixedByte(a0, a1, sum)
           m1 == MixedByte(a1, a2, sum)
           m2 == MixedByte(a2, a3, sum)
           m3 == MixedByte(a3, a0, sum)
<1>1. \A x, y \in Gf!Bytes : Gf!Xor(x, y) \in Gf!Bytes
  BY DEF Gf!Xor, Gf!Bytes
<1>2. \A x \in Gf!Bytes : D(x) \in Gf!Bytes
  BY DoubleType DEF Times2
<1>3. \A x, y \in Gf!Bytes : D(Gf!Xor(x, y)) = Gf!Xor(D(x), D(y))
  BY Times2Adds DEF Times2
<1>4. sum \in Gf!Bytes
  BY <1>1
<1>5. m0 \in Gf!Bytes /\ m1 \in Gf!Bytes /\ m2 \in Gf!Bytes /\ m3 \in Gf!Bytes
  BY <1>4, MixedByteType
<1>6. Unmixed(m0, m1, m2, m3)
        = Gf!Xor(Gf!Xor(Gf!Xor(Gf!Xor(D(m0), D(D(m0))), D(D(D(m0)))),
                        Gf!Xor(Gf!Xor(m1, D(m1)), D(D(D(m1))))),
                 Gf!Xor(Gf!Xor(Gf!Xor(m2, D(D(m2))), D(D(D(m2)))),
                        Gf!Xor(m3, D(D(D(m3))))))
  <2>2. \A x \in Gf!Bytes :
          /\ Gf!Times(x, Gf!Byte(9), FALSE) = Gf!Xor(x, D(D(D(x))))
          /\ Gf!Times(x, Gf!Byte(11), FALSE) = Gf!Xor(Gf!Xor(x, D(x)), D(D(D(x))))
          /\ Gf!Times(x, Gf!Byte(13), FALSE) = Gf!Xor(Gf!Xor(x, D(D(x))), D(D(D(x))))
          /\ Gf!Times(x, Gf!Byte(14), FALSE) = Gf!Xor(Gf!Xor(D(x), D(D(x))), D(D(D(x))))
    BY TimesProducts, Products
  <2> HIDE DEF D, m0, m1, m2, m3
  <2>3. QED
    BY <1>5, <2>2 DEF Unmixed
<1>7. /\ m0 = Gf!Xor(a0, Gf!Xor(sum, D(Gf!Xor(a0, a1))))
      /\ m1 = Gf!Xor(a1, Gf!Xor(sum, D(Gf!Xor(a1, a2))))
      /\ m2 = Gf!Xor(a2, Gf!Xor(sum, D(Gf!Xor(a2, a3))))
      /\ m3 = Gf!Xor(a3, Gf!Xor(sum, D(Gf!Xor(a3, a0))))
  BY DEF MixedByte, Times2
<1> HIDE DEF D, m0, m1, m2, m3
<1> DEFINE p == Gf!Xor(Gf!Xor(m0, m1), Gf!Xor(m2, m3))
           q == Gf!Xor(m0, m2)
           r == Gf!Xor(m0, m1)
           o == Gf!Xor(m1, Gf!Xor(m2, m3))
<1>8. Unmixed(m0, m1, m2, m3) = Gf!Xor(Gf!Xor(o, D(r)), Gf!Xor(D(D(q)), D(D(D(p)))))
  <2>1. /\ D(r) = Gf!Xor(D(m0), D(m1))
        /\ D(D(q)) = Gf!Xor(D(D(m0)), D(D(m2)))
        /\ D(D(D(p))) = Gf!Xor(Gf!Xor(D(D(D(m0))), D(D(D(m1)))), Gf!Xor(D(D(D(m2))), D(D(D(m3)))))
    <3>1. D(r) = Gf!Xor(D(m0), D(m1))
      BY <1>3, <1>5
    <3>2. \A x, y \in Gf!Bytes : D(D(Gf!Xor(x, y))) = Gf!Xor(D(D(x)), D(D(y)))
      BY <1>2, <1>3
    <3>3. \A x, y \in Gf!Bytes : D(D(D(Gf!Xor(x, y)))) = Gf!Xor(D(D(D(x))), D(D(D(y))))
      BY <1>1, <1>2, <1>3, <3>2
    <3>4. Gf!Xor(m0, m1) \in Gf!Bytes /\ Gf!Xor(m2, m3) \in Gf!Bytes
      BY <1>1, <1>5
    <3>5. D(D(q)) = Gf!Xor(D(D(m0)), D(D(m2)))
      BY <1>5, <3>2
    <3>6. D(D(D(p))) = Gf!Xor(D(D(D(Gf!Xor(m0, m1)))), D(D(D(Gf!Xor(m2, m3)))))
      BY <3>3, <3>4
    <3>7. /\ D(D(D(Gf!Xor(m0, m1)))) = Gf!Xor(D(D(D(m0))), D(D(D(m1))))
          /\ D(D(D(Gf!Xor(m2, m3)))) = Gf!Xor(D(D(D(m2))), D(D(D(m3))))
      BY <1>5, <3>3
    <3>8. QED
      BY <3>1, <3>5, <3>6, <3>7
  <2>2. \A x1, x2, x3, y0, y1, z0, z2, w0, w1, w2, w3 :
          Gf!Xor(Gf!Xor(Gf!Xor(Gf!Xor(y0, z0), w0), Gf!Xor(Gf!Xor(x1, y1), w1)),
                 Gf!Xor(Gf!Xor(Gf!Xor(x2, z2), w2), Gf!Xor(x3, w3)))
            = Gf!Xor(Gf!Xor(Gf!Xor(x1, Gf!Xor(x2, x3)), Gf!Xor(y0, y1)),
                     Gf!Xor(Gf!Xor(z0, z2), Gf!Xor(Gf!Xor(w0, w1), Gf!Xor(w2, w3))))
    BY DEF Gf!Xor
  <2>3. QED
    BY <1>6, <2>1, <2>2
<1>9. D({}) = {}
  BY ByteBits DEF D, Times2, Gf!ByteTimes2, Gf!Xor, Gf!Low, Gf!Up
<1> DEFINE u01 == Gf!Xor(a0, a1)
           u12 == Gf!Xor(a1, a2)
           u23 == Gf!Xor(a2, a3)
           u30 == Gf!Xor(a3, a0)
           u02 == Gf!Xor(a0, a2)
<1>10. /\ u01 \in Gf!Bytes /\ u12 \in Gf!Bytes /\ u23 \in Gf!Bytes
       /\ u30 \in Gf!Bytes /\ u02 \in Gf!Bytes
  BY <1>1
<1>11. Gf!Xor(u01, u12) = u02 /\ Gf!Xor(u01, u23) = sum /\ Gf!Xor(Gf!Xor(u01, u12), Gf!Xor(u23, u30)) = {}
  BY DEF Gf!Xor
<1>12. /\ Gf!Xor(D(u01), D(u12)) = D(u02) /\ Gf!Xor(D(u01), D(u23)) = D(sum)
       /\ Gf!Xor(Gf!Xor(D(u01), D(u12)), Gf!Xor(D(u23), D(u30))) = {}
  <2> HIDE DEF u01, u12, u23, u30, u02
  <2>1. Gf!Xor(u01, u12) \in Gf!Bytes /\ Gf!Xor(u23, u30) \in Gf!Bytes
    BY <1>1, <1>10
  <2>2. D(Gf!Xor(Gf!Xor(u01, u12), Gf!Xor(u23, u30)))
          = Gf!Xor(D(Gf!Xor(u01, u12)), D(Gf!Xor(u23, u30)))
    BY <1>3, <2>1
  <2>3. /\ D(Gf!Xor(u01, u12)) = Gf!Xor(D(u01), D(u12))
        /\ D(Gf!Xor(u23, u30)) = Gf!Xor(D(u23), D(u30))
        /\ D(Gf!Xor(u01, u23)) = Gf!Xor(D(u01), D(u23))
    BY <1>3, <1>10
  <2>4. QED
    BY <1>9, <1>11, <2>2, <2>3
<1>13. r = Gf!Xor(u01, D(u02))
  <2>1. \A x, y, s, v, w : Gf!Xor(Gf!Xor(x, Gf!Xor(s, v)), Gf!Xor(y, Gf!Xor(s, w)))
                             = Gf!Xor(Gf!Xor(x, y), Gf!Xor(v, w))
    BY DEF Gf!Xor
  <2>2. QED
    BY <1>7, <1>12, <2>1
<1>14. q = Gf!Xor(u02, D(sum))
  <2>1. \A x, y, s, v, w : Gf!Xor(Gf!Xor(x, Gf!Xor(s, v)), Gf!Xor(y, Gf!Xor(s, w)))
                             = Gf!Xor(Gf!Xor(x, y), Gf!Xor(v, w))
    BY DEF Gf!Xor
  <2>2. QED
    BY <1>7, <1>12, <2>1
<1>15. p = sum
  <2>1. \A x0, x1, x2, x3, s, v0, v1, v2, v3 :
          Gf!Xor(Gf!Xor(Gf!Xor(x0, Gf!Xor(s, v0)), Gf!Xor(x1, Gf!Xor(s, v1))),
                 Gf!Xor(Gf!Xor(x2, Gf!Xor(s, v2)), Gf!Xor(x3, Gf!Xor(s, v3))))
            = Gf!Xor(Gf!Xor(Gf!Xor(x0, x1), Gf!Xor(x2, x3)), Gf!Xor(Gf!Xor(v0, v1), Gf!Xor(v2, v3)))
    BY DEF Gf!Xor
  <2>2. p = Gf!Xor(Gf!Xor(Gf!Xor(a0, a1), Gf!Xor(a2, a3)),
                   Gf!Xor(Gf!Xor(D(u01), D(u12)), Gf!Xor(D(u23), D(u30))))
    BY <1>7, <2>1
  <2>3. QED
    BY <1>12, <2>2, XorLaws
<1>16. o = Gf!Xor(a0, D(u01))
  <2>1. \A x0, x1, x2, x3 : Gf!Xor(x1, Gf!Xor(x2, x3)) = Gf!Xor(Gf!Xor(Gf!Xor(x0, x1), Gf!Xor(x2, x3)), x0)
    BY DEF Gf!Xor
  <2>2. o = Gf!Xor(p, m0)
    BY <2>1
  <2>3. \A x, s, v : Gf!Xor(s, Gf!Xor(x, Gf!Xor(s, v))) = Gf!Xor(x, v)
    BY DEF Gf!Xor
  <2> HIDE DEF o, p
  <2>4. QED
    BY <1>7, <1>15, <2>2, <2>3
<1> HIDE DEF p, q, r, o, u01, u02, u12, u23, u30
<1>17. /\ D(r) = Gf!Xor(D(u01), D(D(u02)))
       /\ D(D(q)) = Gf!Xor(D(D(u02)), D(D(D(sum))))
       /\ D(D(D(p))) = D(D(D(sum)))
  BY <1>1, <1>2, <1>3, <1>4, <1>10, <1>13, <1>14, <1>15
<1>18. \A x, v, w, s : Gf!Xor(Gf!Xor(Gf!Xor(x, v), Gf!Xor(v, w)), Gf!Xor(Gf!Xor(w, s), s)) = x
  BY DEF Gf!Xor
<1>19. Unmixed(m0, m1, m2, m3) = a0
  BY <1>8, <1>16, <1>17, <1>18
<1>20. QED
  BY <1>19 DEF Undoes, m0, m1, m2, m3

StateBytes == [0 .. 15 -> Gf!Bytes]

LEMMA StatesStay ==
  ASSUME NEW s \in StateBytes
  PROVE  /\ Code8!SubBytes(s) \in StateBytes /\ Code8!ShiftRows(s) \in StateBytes
         /\ Code8!MixColumns(s) \in StateBytes
<1>1. \A b : IsBlock(b) /\ b = [m \in 0 .. 15 |-> b[m]] => b \in StateBytes
  BY DEF IsBlock, Sixteen, StateBytes
<1>2. IsBlock(s)
  BY DEF IsBlock, Sixteen, StateBytes
<1> DEFINE Whole(b) == b = [m \in 0 .. 15 |-> b[m]]
<1>3. Whole(Code8!SubBytes(s)) /\ Whole(Code8!ShiftRows(s)) /\ Whole(Code8!MixColumns(s))
  BY DEF Code8!SubBytes, Code8!ShiftRows, Code8!MixColumns, Code8!Block
<1>4. \A b : IsBlock(b) /\ Whole(b) => b \in StateBytes
  BY <1>1
<1> HIDE DEF Whole
<1>5. QED
  BY <1>2, <1>3, <1>4, BlocksStay

LEMMA SubsUndone ==
  ASSUME NEW s \in StateBytes
  PROVE  Code8!InvSubBytes(Code8!SubBytes(s)) = s
<1>1. Code8!Sbox = Gf!Sbox /\ Code8!RSbox = Gf!RSbox
  BY Zenon DEF Code8!Sbox, Gf!Sbox, Code8!RSbox, Gf!RSbox, Code8!SubByteTable, Gf!SubByteTable,
               Code8!InvSubByteTable, Gf!InvSubByteTable, Code8!SBOX, Gf!SBOX, Code8!RSBOX, Gf!RSBOX,
               Code8!Bytes, Gf!Bytes, Code8!Byte, Gf!Byte, Code8!Bit, Gf!Bit, Code8!Value, Gf!Value,
               Code8!Sets!MapThenSumSet, Gf!Sets!MapThenSumSet,
               Code8!Sets!MapThenFoldSet, Gf!Sets!MapThenFoldSet
<1>2. \A m \in 0 .. 15 : Code8!InvSubBytes(Code8!SubBytes(s))[m] = Code8!RSbox[Code8!Sbox[s[m]]]
  BY DEF Code8!SubBytes, Code8!InvSubBytes, Code8!SubByte, Code8!InvSubByte, Code8!Block
<1>3. \A m \in 0 .. 15 : s[m] \in Gf!Bytes
  BY DEF StateBytes
<1>4. \A m \in 0 .. 15 : Code8!InvSubBytes(Code8!SubBytes(s))[m] = s[m]
  BY <1>1, <1>2, <1>3, SboxInverts
<1>5. /\ \A t : Code8!InvSubBytes(t) = [m \in 0 .. 15 |-> Code8!InvSubBytes(t)[m]]
      /\ s = [m \in 0 .. 15 |-> s[m]]
  BY DEF Code8!InvSubBytes, Code8!Block, StateBytes
<1>6. QED
  BY <1>4, <1>5

LEMMA ShiftsUndone ==
  ASSUME NEW s \in StateBytes
  PROVE  Code8!InvShiftRows(Code8!ShiftRows(s)) = s
<1>2. \A t : \A m \in 0 .. 15 : /\ Code8!ShiftRows(t)[m] = t[Code8!ShiftRow[m + 1]]
                                /\ Code8!InvShiftRows(t)[m] = t[Code8!InvShiftRow[m + 1]]
  BY DEF Code8!ShiftRows, Code8!InvShiftRows, Code8!Block
<1>3. \A m \in 0 .. 15 : /\ Code8!InvShiftRow[m + 1] \in 0 .. 15
                         /\ Code8!ShiftRow[Code8!InvShiftRow[m + 1] + 1] = m
  BY DEF Code8!ShiftRow, Code8!InvShiftRow
<1>4. \A m \in 0 .. 15 : Code8!InvShiftRows(Code8!ShiftRows(s))[m] = s[m]
  <2> SUFFICES ASSUME NEW m \in 0 .. 15 PROVE Code8!InvShiftRows(Code8!ShiftRows(s))[m] = s[m]
    OBVIOUS
  <2>1. PICK j : j = Code8!InvShiftRow[m + 1]
    OBVIOUS
  <2>2. j \in 0 .. 15 /\ Code8!ShiftRow[j + 1] = m
    BY <1>3, <2>1
  <2>3. Code8!InvShiftRows(Code8!ShiftRows(s))[m] = Code8!ShiftRows(s)[j]
    BY <1>2, <2>1
  <2>4. Code8!ShiftRows(s)[j] = s[m]
    BY <1>2, <2>2
  <2>5. QED
    BY <2>3, <2>4
<1>5. /\ \A t : Code8!InvShiftRows(t) = [m \in 0 .. 15 |-> Code8!InvShiftRows(t)[m]]
      /\ s = [m \in 0 .. 15 |-> s[m]]
  BY DEF Code8!InvShiftRows, Code8!Block, StateBytes
<1>6. QED
  BY <1>4, <1>5

LEMMA MixesUndone ==
  ASSUME NEW s \in StateBytes
  PROVE  Code8!InvMixColumns(Code8!MixColumns(s)) = s
<1> DEFINE mixed == Code8!MixColumns(s)
           back == Code8!InvMixColumns(mixed)
<1>1. ASSUME NEW c \in 0 .. 3
      PROVE  /\ back[0 + 4 * c] = s[0 + 4 * c] /\ back[1 + 4 * c] = s[1 + 4 * c]
             /\ back[2 + 4 * c] = s[2 + 4 * c] /\ back[3 + 4 * c] = s[3 + 4 * c]
  <2>1. PICK a0, a1, a2, a3 :
          a0 = s[0 + 4 * c] /\ a1 = s[1 + 4 * c] /\ a2 = s[2 + 4 * c] /\ a3 = s[3 + 4 * c]
    OBVIOUS
  <2>2. a0 \in Gf!Bytes /\ a1 \in Gf!Bytes /\ a2 \in Gf!Bytes /\ a3 \in Gf!Bytes
    BY <2>1 DEF StateBytes
  <2>3. PICK d : d = Gf!Xor(Gf!Xor(a0, a1), Gf!Xor(a2, a3))
    OBVIOUS
  <2>4. /\ d = Gf!Xor(Gf!Xor(a1, a2), Gf!Xor(a3, a0)) /\ d = Gf!Xor(Gf!Xor(a2, a3), Gf!Xor(a0, a1))
        /\ d = Gf!Xor(Gf!Xor(a3, a0), Gf!Xor(a1, a2))
    BY <2>3 DEF Gf!Xor
  <2> DEFINE m0 == MixedByte(a0, a1, d)
             m1 == MixedByte(a1, a2, d)
             m2 == MixedByte(a2, a3, d)
             m3 == MixedByte(a3, a0, d)
  <2>5. /\ mixed[0 + 4 * c] = m0 /\ mixed[1 + 4 * c] = m1
        /\ mixed[2 + 4 * c] = m2 /\ mixed[3 + 4 * c] = m3
    BY <2>1, <2>3, CodeMixes
  <2>6. /\ Unmixed(m0, m1, m2, m3) = a0 /\ Unmixed(m1, m2, m3, m0) = a1
        /\ Unmixed(m2, m3, m0, m1) = a2 /\ Unmixed(m3, m0, m1, m2) = a3
    <3>1. Undoes(a0, a1, a2, a3, d)
      BY <2>2, <2>3, MixUndone
    <3>2. Undoes(a1, a2, a3, a0, d)
      BY <2>2, <2>4, MixUndone
    <3>3. Undoes(a2, a3, a0, a1, d)
      BY <2>2, <2>4, MixUndone
    <3>4. Undoes(a3, a0, a1, a2, d)
      BY <2>2, <2>4, MixUndone
    <3>5. QED
      BY <3>1, <3>2, <3>3, <3>4 DEF Undoes
  <2> HIDE DEF m0, m1, m2, m3, mixed
  <2>7. /\ back[0 + 4 * c] = Unmixed(m0, m1, m2, m3) /\ back[1 + 4 * c] = Unmixed(m1, m2, m3, m0)
        /\ back[2 + 4 * c] = Unmixed(m2, m3, m0, m1) /\ back[3 + 4 * c] = Unmixed(m3, m0, m1, m2)
    BY <2>5, CodeUnmixes
  <2>8. QED
    BY <2>1, <2>6, <2>7
<1>2. /\ \A t : Code8!InvMixColumns(t) = [m \in 0 .. 15 |-> Code8!InvMixColumns(t)[m]]
      /\ s = [m \in 0 .. 15 |-> s[m]]
  BY DEF Code8!InvMixColumns, Code8!Block, StateBytes
<1>3. back = [m \in 0 .. 15 |-> back[m]]
  BY <1>2
<1> HIDE DEF back
<1>4. \A m \in 0 .. 15 : back[m] = s[m]
  <2> SUFFICES ASSUME NEW m \in 0 .. 15 PROVE back[m] = s[m]
    OBVIOUS
  <2>1. PICK c \in 0 .. 3 : m = 0 + 4 * c \/ m = 1 + 4 * c \/ m = 2 + 4 * c \/ m = 3 + 4 * c
    <3>1. m \div 4 \in 0 .. 3
      OBVIOUS
    <3>2. \/ m = 0 + 4 * (m \div 4) \/ m = 1 + 4 * (m \div 4)
          \/ m = 2 + 4 * (m \div 4) \/ m = 3 + 4 * (m \div 4)
      OBVIOUS
    <3>3. QED
      BY <3>1, <3>2
  <2>2. QED
    BY <1>1, <2>1
<1>5. QED
  BY <1>2, <1>3, <1>4 DEF back

LEMMA AddedTwice ==
  ASSUME NEW nk \in {4, 6, 8}, NEW V, IsKeySchedule(V, nk), NEW n \in 0 .. nk + 6, NEW s \in StateBytes
  PROVE  AddedWords(V, n, s) \in StateBytes /\ AddedWords(V, n, AddedWords(V, n, s)) = s
<1> DEFINE x(m) == V[4 * n + (m \div 4) + 1][(m % 4) + 1]
<1>1. ASSUME NEW m \in 0 .. 15 PROVE x(m) \in Gf!Bytes
  <2>1. (m % 4) + 1 \in 1 .. 4 /\ 4 * n + (m \div 4) + 1 \in 1 .. 11 * nk
    OBVIOUS
  <2>2. V[4 * n + (m \div 4) + 1] \in Quads
    BY <2>1 DEF IsKeySchedule
  <2>3. QED
    BY <2>1, <2>2 DEF Quads
<1>2. \A t : AddedWords(V, n, t) = [m \in 0 .. 15 |-> Gf!Xor(t[m], x(m))]
  BY DEF AddedWords
<1> HIDE DEF x
<1>3. \A a, b \in Gf!Bytes : Gf!Xor(a, b) \in Gf!Bytes /\ Gf!Xor(Gf!Xor(a, b), b) = a
  BY DEF Gf!Xor, Gf!Bytes
<1>4. s = [m \in 0 .. 15 |-> s[m]] /\ \A m \in 0 .. 15 : s[m] \in Gf!Bytes
  BY DEF StateBytes
<1>5. AddedWords(V, n, s) \in StateBytes
  BY <1>1, <1>2, <1>3, <1>4 DEF StateBytes
<1>6. \A m \in 0 .. 15 : AddedWords(V, n, AddedWords(V, n, s))[m] = Gf!Xor(Gf!Xor(s[m], x(m)), x(m))
  BY <1>2
<1>7. \A m \in 0 .. 15 : AddedWords(V, n, AddedWords(V, n, s))[m] = s[m]
  BY <1>1, <1>3, <1>4, <1>6
<1>8. \A t : AddedWords(V, n, t) = [m \in 0 .. 15 |-> AddedWords(V, n, t)[m]]
  BY <1>2
<1>9. QED
  BY <1>4, <1>5, <1>7, <1>8

\* A round of Cipher(), and the one of InvCipher() that undoes it.
RoundOf(V, nk, n, s) ==
  LET x == Code8!ShiftRows(Code8!SubBytes(s))
  IN AddedWords(V, n, IF n = 0 THEN s ELSE IF n < nk + 6 THEN Code8!MixColumns(x) ELSE x)
UndoneOf(V, nk, n, s) ==
  LET x == AddedWords(V, n, s)
  IN IF n = 0 THEN x
     ELSE Code8!InvSubBytes(Code8!InvShiftRows(IF n < nk + 6 THEN Code8!InvMixColumns(x) ELSE x))

LEMMA RoundUndone ==
  ASSUME NEW nk \in {4, 6, 8}, NEW V, IsKeySchedule(V, nk), NEW n \in 0 .. nk + 6, NEW s \in StateBytes
  PROVE  RoundOf(V, nk, n, s) \in StateBytes /\ UndoneOf(V, nk, n, RoundOf(V, nk, n, s)) = s
<1> DEFINE x == Code8!ShiftRows(Code8!SubBytes(s))
           y == IF n = 0 THEN s ELSE IF n < nk + 6 THEN Code8!MixColumns(x) ELSE x
<1>1. x \in StateBytes /\ Code8!InvSubBytes(Code8!InvShiftRows(x)) = s
  BY StatesStay, SubsUndone, ShiftsUndone
<1>2. RoundOf(V, nk, n, s) = AddedWords(V, n, y)
  BY DEF RoundOf
<1> HIDE DEF x
<1>3. Code8!MixColumns(x) \in StateBytes /\ Code8!InvMixColumns(Code8!MixColumns(x)) = x
  BY <1>1, StatesStay, MixesUndone
<1>4. y \in StateBytes
  BY <1>1, <1>3
<1>5. RoundOf(V, nk, n, s) \in StateBytes /\ AddedWords(V, n, RoundOf(V, nk, n, s)) = y
  <2> HIDE DEF y
  <2>1. QED
    BY <1>2, <1>4, AddedTwice
<1>6. UndoneOf(V, nk, n, RoundOf(V, nk, n, s))
        = IF n = 0 THEN y
          ELSE Code8!InvSubBytes(Code8!InvShiftRows(IF n < nk + 6 THEN Code8!InvMixColumns(y) ELSE y))
  BY <1>5 DEF UndoneOf
<1>7. QED
  BY <1>1, <1>3, <1>5, <1>6

\* What the rounds of Cipher() come to, f, are the states that InvCipher() comes by again.
Passed(nk, V, f) ==
  /\ f \in [0 .. nk + 7 -> StateBytes] /\ f[0] = aes_block
  /\ aes_phase \in {"encrypt", "decrypt", "done"}
  /\ aes_phase = "encrypt" => /\ aes_output = f[aes_round]
                              /\ \A k \in 0 .. aes_round - 1 : f[k + 1] = RoundOf(V, nk, k, f[k])
  /\ aes_phase = "decrypt" => /\ aes_output = f[aes_round + 1]
                              /\ \A k \in 0 .. nk + 6 : f[k + 1] = RoundOf(V, nk, k, f[k])
  /\ aes_phase = "done" => aes_output = aes_block
InverseInv == \E nk \in {4, 6, 8} : \E V, f : Scheduled(nk, V) /\ Passed(nk, V, f)

LEMMA PassedFirst ==
  ASSUME Code8!VectorsAssumption, Code8!Init
  PROVE  InverseInv
<1>1. PICK nk \in {4, 6, 8} : \E V : Scheduled(nk, V)
  BY ScheduledFirst DEF CipherInv
<1>2. PICK V : Scheduled(nk, V)
  BY <1>1
<1>3. /\ aes_block \in StateBytes /\ aes_output = aes_block
      /\ aes_round = 0 /\ aes_phase = "encrypt"
  BY DEF Code8!Init, Code8!VectorsAssumption, Code8!Bytes, Gf!Bytes, StateBytes
<1> DEFINE f == [k \in 0 .. nk + 7 |-> aes_block]
<1>4. f \in [0 .. nk + 7 -> StateBytes] /\ f[0] = aes_block
  BY <1>3
<1> HIDE DEF f
<1>5. Passed(nk, V, f)
  BY <1>3, <1>4 DEF Passed
<1>6. QED
  BY <1>2, <1>5 DEF InverseInv

LEMMA PassedNext ==
  ASSUME InverseInv, [Code8!Next]_(Code8!vars)
  PROVE  InverseInv'
<1>1. PICK nk \in {4, 6, 8} : \E V, f : Scheduled(nk, V) /\ Passed(nk, V, f)
  BY DEF InverseInv
<1>2. PICK V, f : Scheduled(nk, V) /\ Passed(nk, V, f)
  BY <1>1
<1>3. Scheduled(nk, V)'
  BY <1>2, ScheduledNext
<1>4. /\ aes_key \in [0 .. 4 * nk - 1 -> Gf!Bytes] /\ IsKeySchedule(V, nk) /\ KeysOf(V, nk)
      /\ aes_round \in 0 .. nk + 6
  BY <1>2 DEF Scheduled
<1>5. Code8!keysize_word = nk /\ Code8!num_rounds = nk + 6
  BY <1>4, KeyLengths DEF Code8!num_rounds
<1>6. \A s : Code8!AddRoundKey(s, aes_round) = AddedWords(V, aes_round, s)
  BY <1>4, <1>5, AddsWords
<1>7. f \in [0 .. nk + 7 -> StateBytes] /\ f[0] = aes_block
  BY <1>2 DEF Passed
<1>8. CASE Code8!CipherRound
  <2>1. /\ aes_phase = "encrypt" /\ aes_block' = aes_block
        /\ aes_phase' = IF aes_round = nk + 6 THEN "decrypt" ELSE "encrypt"
        /\ aes_round' = IF aes_round = nk + 6 THEN nk + 6 ELSE aes_round + 1
    BY <1>5, <1>8 DEF Code8!CipherRound
  <2>2. /\ aes_output = f[aes_round]
        /\ \A k \in 0 .. aes_round - 1 : f[k + 1] = RoundOf(V, nk, k, f[k])
    BY <1>2, <2>1 DEF Passed
  <2>3. aes_output' = RoundOf(V, nk, aes_round, f[aes_round])
    <3>1. aes_output' = LET s == Code8!ShiftRows(Code8!SubBytes(aes_output))
                        IN Code8!AddRoundKey(
                             IF aes_round = 0 THEN aes_output
                             ELSE IF aes_round < nk + 6 THEN Code8!MixColumns(s) ELSE s, aes_round)
      BY <1>5, <1>8, Zenon DEF Code8!CipherRound
    <3>2. QED
      BY <1>6, <2>2, <3>1, Zenon DEF RoundOf
  <2>4. aes_round \in 0 .. nk + 7 /\ aes_round + 1 \in 0 .. nk + 7 /\ aes_round + 1 # 0
    BY <1>4
  <2>5. aes_output' \in StateBytes
    BY <1>4, <1>7, <2>3, <2>4, RoundUndone
  <2>6. PICK g : /\ g \in [0 .. nk + 7 -> StateBytes] /\ g[0] = aes_block
                 /\ g[aes_round + 1] = aes_output'
                 /\ \A k \in 0 .. aes_round : g[k] = f[k]
    <3> DEFINE h == [f EXCEPT ![aes_round + 1] = aes_output']
    <3>1. /\ h \in [0 .. nk + 7 -> StateBytes] /\ h[0] = aes_block
          /\ h[aes_round + 1] = aes_output'
          /\ \A k \in 0 .. aes_round : h[k] = f[k]
      BY <1>4, <1>7, <2>4, <2>5
    <3> HIDE DEF h
    <3>2. QED
      BY <3>1
  <2>7. \A k \in 0 .. aes_round : g[k + 1] = RoundOf(V, nk, k, g[k])
    <3> SUFFICES ASSUME NEW k \in 0 .. aes_round PROVE g[k + 1] = RoundOf(V, nk, k, g[k])
      OBVIOUS
    <3>1. CASE k = aes_round
      BY <2>3, <2>6, <3>1
    <3>2. CASE k # aes_round
      <4>1. k \in 0 .. aes_round - 1 /\ k + 1 \in 0 .. aes_round
        BY <1>4, <3>2
      <4>2. QED
        BY <2>2, <2>6, <4>1
    <3>3. QED
      BY <3>1, <3>2
  <2>8. Passed(nk, V, g)'
    <3>1. CASE aes_round = nk + 6
      BY <2>1, <2>6, <2>7, <3>1 DEF Passed
    <3>2. CASE aes_round # nk + 6
      <4>1. aes_round' = aes_round + 1 /\ aes_round' - 1 = aes_round /\ aes_phase' = "encrypt"
        BY <1>4, <2>1, <3>2
      <4>2. QED
        BY <2>1, <2>6, <2>7, <4>1 DEF Passed
    <3>3. QED
      BY <3>1, <3>2
  <2>9. QED
    BY <1>3, <2>8 DEF InverseInv
<1>9. CASE Code8!InvCipherRound
  <2>1. /\ aes_phase = "decrypt" /\ aes_block' = aes_block
        /\ aes_phase' = IF aes_round = 0 THEN "done" ELSE "decrypt"
        /\ aes_round' = IF aes_round = 0 THEN 0 ELSE aes_round - 1
    BY <1>9 DEF Code8!InvCipherRound
  <2>2. /\ aes_output = f[aes_round + 1]
        /\ \A k \in 0 .. nk + 6 : f[k + 1] = RoundOf(V, nk, k, f[k])
    BY <1>2, <2>1 DEF Passed
  <2>3. aes_output = RoundOf(V, nk, aes_round, f[aes_round])
    BY <1>4, <2>2
  <2>4. aes_output' = UndoneOf(V, nk, aes_round, aes_output)
    <3>1. aes_output' = LET s == Code8!AddRoundKey(aes_output, aes_round)
                        IN IF aes_round = 0 THEN s
                           ELSE Code8!InvSubBytes(Code8!InvShiftRows(
                                  IF aes_round < nk + 6 THEN Code8!InvMixColumns(s) ELSE s))
      BY <1>5, <1>9, Zenon DEF Code8!InvCipherRound
    <3>2. QED
      BY <1>6, <3>1, Zenon DEF UndoneOf
  <2>5. f[aes_round] \in StateBytes
    BY <1>4, <1>7
  <2>6. aes_output' = f[aes_round]
    BY <1>4, <2>3, <2>4, <2>5, RoundUndone
  <2>7. Passed(nk, V, f)'
    <3>1. CASE aes_round = 0
      BY <1>7, <2>1, <2>6, <3>1 DEF Passed
    <3>2. CASE aes_round # 0
      <4>1. aes_round' = aes_round - 1 /\ aes_round' + 1 = aes_round /\ aes_phase' = "decrypt"
        BY <1>4, <2>1, <3>2
      <4>2. QED
        BY <1>7, <2>1, <2>2, <2>6, <4>1 DEF Passed
    <3>3. QED
      BY <3>1, <3>2
  <2>8. QED
    BY <1>3, <2>7 DEF InverseInv
<1>10. CASE UNCHANGED Code8!vars
  <2>1. UNCHANGED <<aes_block, aes_output, aes_round, aes_phase>>
    BY <1>10 DEF Code8!vars
  <2>2. Passed(nk, V, f)'
    BY <1>2, <2>1 DEF Passed
  <2>3. QED
    BY <1>3, <2>2 DEF InverseInv
<1>11. QED
  BY <1>8, <1>9, <1>10 DEF Code8!Next

\* Every key of 16, 24 or 32 bytes and every block, with the round keys stored or expanded on
\* the way, there and back: what Cipher() of libs/uAES/src/uaes.c encrypts, InvCipher()
\* decrypts to the block it was.
THEOREM CipherInverts ==
  ASSUME Code8!VectorsAssumption
  PROVE  Code8!Spec => []Code8!DecryptInverts
<1>1. InverseInv => Code8!DecryptInverts
  BY DEF InverseInv, Passed, Code8!DecryptInverts
<1>2. Code8!Init => InverseInv
  BY PassedFirst
<1>3. InverseInv /\ [Code8!Next]_(Code8!vars) => InverseInv'
  BY PassedNext
<1>4. QED
  BY <1>1, <1>2, <1>3, PTL DEF Code8!Spec
=============================================================================
