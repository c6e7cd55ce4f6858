------------------------------ MODULE RoundKeys ------------------------------
(***************************************************************************)
(* GetRoundKey() of libs/uAES/src/uaes.c with UAES_KEY_CONFIG 0: a buffer  *)
(* of Nk words holds one iteration of the key schedule and is expanded     *)
(* forth and back, word by word and in place, to the iteration of the word *)
(* that is asked for.  Word k of iteration n is word n * Nk + k of the     *)
(* schedule.  The words may be asked for in any order.                     *)
(***************************************************************************)
EXTENDS Integers

CONSTANTS
  Nk,           \* key_num_words
  Last,         \* the last iteration that is asked for
  Word,
  X(_, _),      \* the exclusive or of words
  T(_, _, _),   \* what is xored onto a word: of its step, the iteration, the word before
  schedule      \* the key schedule: schedule[n][k]

Step == 0 .. Nk - 1
Iteration == 0 .. Last

ASSUME NkAssumption == Nk \in Nat \ {0, 1} /\ Last \in Nat

ASSUME XAssumption == \A a, b \in Word : X(a, b) \in Word /\ X(X(a, b), b) = a

ASSUME TAssumption == \A k \in Step, n \in Iteration, a \in Word : T(k, n, a) \in Word

\* A word is the one Nk before it and what is made of the one before it.
ASSUME ScheduleAssumption ==
  /\ schedule \in [Iteration -> [Step -> Word]]
  /\ \A n \in 1 .. Last, k \in Step :
       schedule[n][k] =
         X(schedule[n - 1][k],
           T(k, n - 1, IF k > 0 THEN schedule[n][k - 1] ELSE schedule[n - 1][Nk - 1]))

VARIABLES
  iter_num, buf,   \* the struct RoundKey_t
  pc,              \* "idle", "forth", "back": what GetRoundKey() does
  i,               \* its loop variable
  asked,           \* the word that is asked for, <<n, k>>
  answer           \* the word that was returned last

vars == <<iter_num, buf, pc, i, asked, answer>>

TypeOK ==
  /\ iter_num \in Iteration /\ buf \in [Step -> Word]
  /\ pc \in {"idle", "forth", "back"} /\ i \in Step
  /\ asked \in Iteration \X Step /\ answer \in Word

-----------------------------------------------------------------------------

\* InitRoundKey()
Init ==
  /\ iter_num = 0 /\ buf = schedule[0]
  /\ pc = "idle" /\ i = 0
  /\ asked = <<0, 0>> /\ answer = schedule[0][0]

\* ExpandRoundKey()
Expanded(b, step, n) ==
  [b EXCEPT ![step] = X(@, T(step, n, IF step > 0 THEN b[step - 1] ELSE b[Nk - 1]))]

\* Mutant of Seek: the way forth goes on when the buffer is there.
SeekPast(n, target) ==
  pc' = IF n <= target THEN "forth" ELSE IF n > target THEN "back" ELSE "idle"

\* Where GetRoundKey() goes when the buffer is at iteration n: on, back, or to its end.
Seek(n, target) ==
  pc' = IF n < target THEN "forth" ELSE IF n > target THEN "back" ELSE "idle"

Ask(n, k) ==
  /\ pc = "idle" /\ asked' = <<n, k>>
  /\ Seek(iter_num, n)
  /\ iter_num' = IF iter_num > n THEN iter_num - 1 ELSE iter_num
  /\ i' = 0
  /\ answer' = IF iter_num = n THEN buf[k] ELSE answer
  /\ UNCHANGED buf

\* Mutant of BackStep: the steps are undone in the order they were made.
BackStepInOrder == i

BackStep == Nk - i - 1

\* A turn of the inner loop of the way forth, and behind the last one of the outer loop.
Forth ==
  /\ pc = "forth"
  /\ buf' = Expanded(buf, i, iter_num)
  /\ IF i < Nk - 1
     THEN i' = i + 1 /\ UNCHANGED <<iter_num, pc, answer>>
     ELSE /\ i' = 0 /\ iter_num' = iter_num + 1
          /\ Seek(iter_num + 1, asked[1])
          /\ answer' = IF iter_num + 1 = asked[1] THEN buf'[asked[2]] ELSE answer
  /\ UNCHANGED asked

\* And of the way back, where iter_num is lowered before the steps are undone.
Back ==
  /\ pc = "back"
  /\ buf' = Expanded(buf, BackStep, iter_num)
  /\ IF i < Nk - 1
     THEN i' = i + 1 /\ UNCHANGED <<iter_num, pc, answer>>
     ELSE /\ i' = 0
          /\ Seek(iter_num, asked[1])
          /\ iter_num' = IF iter_num > asked[1] THEN iter_num - 1 ELSE iter_num
          /\ answer' = IF iter_num = asked[1] THEN buf'[asked[2]] ELSE answer
  /\ UNCHANGED asked

Next == (\E n \in Iteration, k \in Step : Ask(n, k)) \/ Forth \/ Back

Spec == Init /\ [][Next]_vars
FairSpec == Spec /\ WF_vars(Forth \/ Back)

-----------------------------------------------------------------------------
(***************************************************************************)
(* Properties                                                              *)
(***************************************************************************)

\* How many words of the buffer belong to the iteration behind iter_num.
Ahead == IF pc = "forth" THEN i ELSE IF pc = "back" THEN Nk - i ELSE 0

\* In the midst of its steps the buffer holds two iterations that join: words of the
\* next one in front, those of this one behind them.
BufferJoins ==
  \A k \in Step : buf[k] = schedule[IF k < Ahead THEN iter_num + 1 ELSE iter_num][k]

\* The round constant is never read beyond the table, and the buffer is never moved
\* away from the word that is asked for.
Approaches ==
  /\ pc = "forth" => iter_num < asked[1]
  /\ pc = "back" => iter_num >= asked[1] /\ iter_num < Last
  /\ pc = "idle" => iter_num = asked[1]

\* In whatever order words are asked for, by Cipher() and InvCipher(), each answer is
\* the word of the key schedule: what was expanded is undone exactly.
AnswerRight == pc = "idle" => answer = schedule[asked[1]][asked[2]]

\* GetRoundKey() returns.
Returns == pc # "idle" ~> pc = "idle"
=============================================================================
