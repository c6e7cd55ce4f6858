------------------------------ MODULE FrozenMap ------------------------------
(***************************************************************************)
(* frozen::map of libs/frozen, in which the client looks up the ids of its *)
(* properties by their names: an array that is sorted when the map is      *)
(* made, by a quicksort that calls itself for the left part, and searched  *)
(* by a binary search that is unrolled for the length of the array.  An    *)
(* entry's value goes where its name goes and is left out.                 *)
(***************************************************************************)
EXTENDS Integers, Sequences, FiniteSets

CONSTANTS
  Name,       \* strings, sequences of numbers
  MaxN        \* the greatest length of an array

FrozenMapAssumption == \A s \in Name : s \in Seq(Nat) /\ MaxN \in Nat \ {0}

VARIABLES
  items,          \* the array, a function on 0 .. N - 1
  stack,          \* of the calls of quicksort() that run: [left, right], the last in front
  it, to,         \* the loop variable of partition(), and its left
  phase,          \* "sort", "partition", "ready", "first": in doitfirst(), "fast": in doit_fast()
  key, first, rest,   \* of the search that runs; rest is the source's n
  where           \* what lower_bound() returned last, -1 before and during a search

mapVars == <<items, stack, it, to, phase, key, first, rest, where>>

N == Cardinality(DOMAIN items)

\* Mutant of Less: a string is not less than one it is the begin of.
LessCut(s, t) ==
  \E i \in 1 .. Len(s) : i <= Len(t) /\ s[i] < t[i] /\ \A j \in 1 .. i - 1 : s[j] = t[j]

\* operator< of frozen::basic_string
Less(s, t) ==
  LET differ == {i \in 1 .. Len(s) : i <= Len(t) /\ s[i] # t[i]}
  IN IF differ = {} THEN Len(s) < Len(t)
     ELSE LET i == CHOOSE x \in differ : \A y \in differ : x <= y IN s[i] < t[i]

-----------------------------------------------------------------------------
(* The sort *)

\* Mutant of Swapped: the one is overwritten before it is kept.
SwappedLost(a, i, j) == [a EXCEPT ![i] = a[j]]

Swapped(a, i, j) == [a EXCEPT ![i] = a[j], ![j] = a[i]]

MapInit ==
  /\ \E length \in 1 .. MaxN : items \in [0 .. length - 1 -> Name]
  /\ stack = <<[left |-> 0, right |-> N - 1]>> /\ phase = "sort" /\ it = 0 /\ to = 0
  /\ key \in Name /\ first = 0 /\ rest = 0 /\ where = -1

\* A turn of quicksort(): the element in the middle becomes the pivot of partition().
SortTurn ==
  /\ phase = "sort" /\ stack # <<>> /\ Head(stack).left < Head(stack).right
  /\ LET left == Head(stack).left
         right == Head(stack).right
     IN items' = Swapped(items, left + (right - left) \div 2, right) /\ it' = left /\ to' = left
  /\ phase' = "partition"
  /\ UNCHANGED <<stack, key, first, rest, where>>

\* A turn of its loop.
PartitionTurn ==
  /\ phase = "partition" /\ it < Head(stack).right
  /\ IF Less(items[it], items[Head(stack).right])
     THEN items' = Swapped(items, it, to) /\ to' = to + 1
     ELSE UNCHANGED <<items, to>>
  /\ it' = it + 1
  /\ UNCHANGED <<stack, phase, key, first, rest, where>>

\* Mutant of Parts: the caller starts over.
PartsOver(f) == <<[left |-> f.left, right |-> to], f>>

\* Mutant of Parts: what is behind the pivot is left out.
PartsLeft(f) == <<[left |-> f.left, right |-> to]>>

\* quicksort() calls itself for what is left of the pivot, and the pivot, and goes on
\* behind it.
Parts(f) == <<[left |-> f.left, right |-> to], [left |-> to + 1, right |-> f.right]>>

PartitionEnd ==
  /\ phase = "partition" /\ it = Head(stack).right
  /\ items' = Swapped(items, it, to)
  /\ stack' = Parts(Head(stack)) \o Tail(stack)
  /\ phase' = "sort"
  /\ UNCHANGED <<it, to, key, first, rest, where>>

SortReturn ==
  /\ phase = "sort" /\ stack # <<>> /\ Head(stack).left >= Head(stack).right
  /\ stack' = Tail(stack)
  /\ phase' = IF stack' = <<>> THEN "ready" ELSE phase
  /\ UNCHANGED <<items, it, to, key, first, rest, where>>

-----------------------------------------------------------------------------
(* The search *)

next_highest_power_of_two(v) ==
  LET p[k \in 0 .. v] == IF k = 0 THEN 1 ELSE LET q == p[k - 1] IN IF q < v THEN 2 * q ELSE q
  IN p[v]

\* Mutant of Perfect: the powers of two are taken for the perfect lengths.
PerfectPower(v) == next_highest_power_of_two(v) = v

\* The lengths for which the search need not look at the length any more.
Perfect(v) == next_highest_power_of_two(v) - 1 = v

NextStart(v) == next_highest_power_of_two(v) \div 2 - 1

Search(k) ==
  /\ phase = "ready"
  /\ key' = k /\ first' = 0 /\ rest' = N /\ where' = -1
  /\ phase' = IF Perfect(N) \/ N = 1 THEN "fast" ELSE "first"
  /\ UNCHANGED <<items, stack, it, to>>

\* Mutant of SearchFirst: the length of the part in front is not taken over.
SearchFirstStays ==
  /\ phase = "first"
  /\ IF Less(items[first + NextStart(rest)], key)
     THEN /\ first' = first + NextStart(rest) + 1 /\ rest' = rest - NextStart(rest) - 1
          /\ phase' = IF Perfect(rest') \/ rest' = 1 THEN "fast" ELSE "first"
     ELSE UNCHANGED <<first, rest, phase>>
  /\ UNCHANGED <<items, stack, it, to, key, where>>

\* doitfirst(), when the length is none of the perfect ones: the part in front, which is,
\* or what is behind it.
SearchFirst ==
  /\ phase = "first"
  /\ LET at == first + NextStart(rest)
         next == rest - NextStart(rest) - 1
     IN IF Less(items[at], key)
        THEN /\ first' = at + 1 /\ rest' = next
             /\ phase' = IF Perfect(next) \/ next = 1 THEN "fast" ELSE "first"
        ELSE rest' = NextStart(rest) /\ phase' = "fast" /\ UNCHANGED first
  /\ UNCHANGED <<items, stack, it, to, key, where>>

\* doit_fast()
SearchFast ==
  /\ phase = "fast"
  /\ IF rest = 0
     THEN where' = first /\ phase' = "ready" /\ UNCHANGED <<first, rest>>
     ELSE LET at == first + rest \div 2
          IN /\ first' = IF Less(items[at], key) THEN at + 1 ELSE first
             /\ rest' = rest \div 2
             /\ UNCHANGED <<phase, where>>
  /\ UNCHANGED <<items, stack, it, to, key>>

\* find_impl(), at_impl(), binary_search(): the place of the key, or N.
Found == IF where # N /\ ~Less(key, items[where]) THEN where ELSE N

\* upper_bound_impl() and the second place of equal_range_impl()
UpperBound == IF where # N /\ ~Less(key, items[where]) THEN where + 1 ELSE where

MapNext ==
  \/ SortTurn \/ PartitionTurn \/ PartitionEnd \/ SortReturn \/ SearchFirst \/ SearchFast
  \/ \E k \in Name : Search(k)

MapSpec == MapInit /\ [][MapNext]_mapVars

-----------------------------------------------------------------------------
(***************************************************************************)
(* Properties                                                              *)
(***************************************************************************)

\* Whoever has the map has it sorted, whatever order the names were given in.
Sorted ==
  phase \notin {"sort", "partition"} =>
    \A i, j \in DOMAIN items : i < j => ~Less(items[j], items[i])

\* As many of each name after a step as before it.
SameNames ==
  \A s \in Name : Cardinality({i \in DOMAIN items : items[i] = s})
                    = Cardinality({i \in DOMAIN items' : items'[i] = s})

\* The sort loses no name and doubles none.
NamesKept == [][SameNames]_mapVars

\* The search for a length that is no power of two less 1 reads no entry behind the array.
SearchInside ==
  /\ phase = "first" => first + NextStart(rest) \in DOMAIN items
  /\ phase = "fast" => rest = 0 \/ first + rest \div 2 \in DOMAIN items

\* A name is found where it is, the first time it is there, and no name is found that is
\* not there.
FoundRight ==
  phase = "ready" /\ where # -1 =>
    /\ where = Cardinality({i \in DOMAIN items : Less(items[i], key)})
    /\ IF \E i \in DOMAIN items : items[i] = key THEN items[Found] = key ELSE Found = N
    /\ Cardinality({items[i] : i \in DOMAIN items}) = N =>
         UpperBound = Cardinality({i \in DOMAIN items : ~Less(key, items[i])})

\* What the client needs of the map: it is sorted when it is used, no search leaves it, and
\* each finds what is there and nothing else.
NamesFound == Sorted /\ SearchInside /\ FoundRight
=============================================================================
