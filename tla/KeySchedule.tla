----------------------------- MODULE KeySchedule -----------------------------
(***************************************************************************)
(* The round keys of libs/uAES/src/uaes.c, expanded when the context is    *)
(* made (UAES_KEY_CONFIG 1) or on the way through the rounds (0), there    *)
(* within a buffer as long as the key and, for the reverse cipher,         *)
(* backwards too.                                                          *)
(*                                                                         *)
(* Nk is the length of the key in words, the code's keysize_word.          *)
(***************************************************************************)
EXTENDS Integers, Sequences

\* What a word is, is left to the build.
CONSTANTS
  X(_, _),          \* the xor of words
  T(_, _, _, _)     \* what is xored onto a word: of Nk, its step, the iteration, the word before

\* ExpandRoundKey() of UAES_KEY_CONFIG 1, as far as there are n words: word i, which
\* is w[i + 1], depends on those 1 and Nk before it.
StoredKeys(Nk, key, n) ==
  LET upto[i \in Nk .. n] ==
        IF i = Nk THEN [k \in 1 .. Nk |-> key[k - 1]]
        ELSE LET w == upto[i - 1]
                 step == (i - 1) % Nk
             IN Append(w, X(w[i - Nk], T(Nk, step, (i - 1) \div Nk - 1, w[i - 1])))
  IN upto[n]

\* ExpandRoundKey() of UAES_KEY_CONFIG 0: a step, which undoes itself.
ExpandRoundKey(Nk, buf, step, iter_num) ==
  LET before == buf[IF step > 0 THEN step - 1 ELSE Nk - 1]
  IN [buf EXCEPT ![step] = X(@, T(Nk, step, iter_num, before))]

InitRoundKey(Nk, key) == [iter_num |-> 0, buf |-> [i \in 0 .. Nk - 1 |-> key[i]]]

\* A turn of the first loop of GetRoundKey(), and one of the second.
Forth(Nk, rk) ==
  LET buf[i \in 0 .. Nk] ==
        IF i = 0 THEN rk.buf ELSE ExpandRoundKey(Nk, buf[i - 1], i - 1, rk.iter_num)
  IN [iter_num |-> rk.iter_num + 1, buf |-> buf[Nk]]

\* Mutant of Back: the steps are undone in the order they were made.
BackInOrder(Nk, rk) ==
  LET buf[i \in 0 .. Nk] ==
        IF i = 0 THEN rk.buf ELSE ExpandRoundKey(Nk, buf[i - 1], i - 1, rk.iter_num - 1)
  IN [iter_num |-> rk.iter_num - 1, buf |-> buf[Nk]]

Back(Nk, rk) ==
  LET buf[i \in 0 .. Nk] ==
        IF i = 0 THEN rk.buf ELSE ExpandRoundKey(Nk, buf[i - 1], Nk - i, rk.iter_num - 1)
  IN [iter_num |-> rk.iter_num - 1, buf |-> buf[Nk]]

\* GetRoundKey() for word i of a key: the buffer is moved until it holds that word.
\* The iteration is at most 10 away, for a key of 4 words.
MoveTo(Nk, rk, i) ==
  LET turn[k \in 0 .. 10] ==
        IF k = 0 THEN rk
        ELSE LET r == turn[k - 1]
             IN IF (r.iter_num + 1) * Nk <= i THEN Forth(Nk, r)
                ELSE IF r.iter_num * Nk > i THEN Back(Nk, r)
                ELSE r
  IN turn[10]

WordIn(Nk, rk, i) == rk.buf[i - rk.iter_num * Nk]
=============================================================================
