----------------------------- MODULE MCTeamSync -----------------------------
(* Instances of TeamSync for TLC: one process and two, and what git leaves. *)
EXTENDS TeamSync, TLC

CONSTANTS a, b, t1, t2

Keys_ == {a, b}
Only(k, t) == [x \in Keys_ |-> IF x = k THEN t ELSE NoRule]

None == [x \in Keys_ |-> NoRule]
Links_ == {<<a, b>>}

\* A file that says nothing, one with a relation alone, one rule, a merge that
\* kept both sides, no file.
GitFiles_ ==
  { [rules |-> None, links |-> {}, alts |-> {}],
    [rules |-> None, links |-> Links_, alts |-> {}],
    [rules |-> Only(a, t1), links |-> {}, alts |-> {}],
    [rules |-> Only(a, t2), links |-> Links_, alts |-> {a}],
    NoFile }
=============================================================================
