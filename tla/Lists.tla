------------------------------- MODULE Lists -------------------------------
(* Lists of keys as the selections build them: cut, ordered, deduplicated.  *)
EXTENDS Integers, Sequences, SequencesExt, FiniteSets, FiniteSetsExt, TLC, Filtering

Take(s, n) == SubSeq(s, 1, IF n < Len(s) THEN n ELSE Len(s))

\* The keys of S in the order of keys, and in any strict total order, which is
\* the set of pairs <<j, k>> where j comes before k.
InKeyOrder(S) == Filtered([i \in 1..Max(S \cup {0}) |-> i], S)
InOrder(S, before) ==
  [i \in 1..Cardinality(S) |->
     CHOOSE k \in S : Cardinality({j \in S : <<j, k>> \in before}) = i - 1]

\* The n elements of S that come first in such an order.
Foremost(S, n, before) == {x \in S : Cardinality({y \in S : <<y, x>> \in before}) < n}

\* The keys of pairs <<score, key>>, the highest score first, equal ones in
\* the order of keys.
ByScore(scored) ==
  LET first(S) == CHOOSE x \in S : \A y \in S : x[1] > y[1] \/ (x[1] = y[1] /\ x[2] <= y[2])
      left[i \in 0..Cardinality(scored)] ==
        IF i = 0 THEN scored ELSE LET S == left[i - 1] IN S \ {first(S)}
  IN [i \in 1..Cardinality(scored) |-> first(left[i - 1])[2]]

\* s followed by the keys that it does not have yet.
Extend(s, keys) == s \o Filtered(keys, ToSet(keys) \ ToSet(s))

\* Where k is in a list without repeats; 0 if it is not.
RankIn(k, list) == IF k \in ToSet(list) THEN CHOOSE i \in DOMAIN list : list[i] = k ELSE 0
=============================================================================
