----------------------------- MODULE Filtering -----------------------------
(* What a filter leaves of a list: the elements that are in S, in order.   *)
(* SelectSeq for a set, written out so that it can be reasoned about.      *)
EXTENDS Integers, Sequences

Filtered(s, S) ==
  LET left[i \in 0..Len(s)] ==
        IF i = 0 THEN <<>>
        ELSE IF s[i] \in S THEN Append(left[i - 1], s[i]) ELSE left[i - 1]
  IN left[Len(s)]
=============================================================================
