------------------------------ MODULE MCStore ------------------------------
(* Instances of MemoryGraph for TLC: the keys, files and inputs of each     *)
(* run.  The cfg files choose between the input sets.                      *)
EXTENDS MemoryGraph, TLC

CONSTANTS a, b, c, t1, t2, f1, f2

Active(t, anchor) == [text |-> t, anchor |-> anchor, archived |-> FALSE, reason |-> NoReason]
Archived(t, anchor, r) == [text |-> t, anchor |-> anchor, archived |-> TRUE, reason |-> r]
NewRule(t, anchor) == [text |-> t, anchor |-> anchor, rel |-> NoRel]
Linked(t, anchor, ty, k) == [text |-> t, anchor |-> anchor, rel |-> <<ty, k>>]
Parsed(rules, rels_) == [rules |-> rules, rels |-> rels_, alts |-> <<>>]
Conflicting(rules, alts) == [rules |-> rules, rels |-> {}, alts |-> alts]

OneKey == {a}
TwoKeys == {a, b}
ThreeKeys == {a, b, c}

\* A route for every file, and a cap of one file that drops the second.
RoutedAll == [x \in SUBSET Files |-> x]
RoutedFirst == [x \in SUBSET Files |-> IF f1 \in x THEN {f1} ELSE x]

\* Two keys, two files, rewrites that move an anchor, a batch of both keys.
StoreBatches ==
  { a :> NewRule(t1, {f1}), a :> NewRule(t2, {f1, f2}),
    a :> NewRule(t1, {}) @@ b :> Linked(t1, {f1}, "uses", a) }
StoreCommits ==
  { [key |-> a, text |-> t1, anchor |-> {f1}, rels |-> {<<"supersedes", b>>}] }
StoreFiles ==
  { Parsed(<<>>, {<<a, "uses", b>>}),
    Parsed(a :> Active(t2, {f1}), {}),
    Parsed(a :> Active(t1, {f1}) @@ b :> Archived(t1, {}, a), {<<a, "supersedes", b>>}),
    Conflicting(b :> Active(t1, {}), b :> Active(t2, {f2})) }

\* Three keys without text or anchors: only the graph matters.
GraphBatches == { a :> NewRule(t1, {}) @@ b :> NewRule(t1, {}) @@ c :> NewRule(t1, {}),
                  b :> Linked(t1, {}, "uses", c) }
GraphCommits ==
  { [key |-> a, text |-> t1, anchor |-> {}, rels |-> {<<"supersedes", b>>, <<"supersedes", c>>}],
    [key |-> c, text |-> t1, anchor |-> {}, rels |-> {<<"supersedes", a>>, <<"uses", b>>}] }
GraphFiles ==
  { Parsed(a :> Active(t1, {}) @@ b :> Active(t1, {}), {<<b, "supersedes", a>>}) }

\* The same with the edges that nothing checks: a batch and a merged file
\* whose two edges, harmless on two branches, close a cycle.
NoCommits == {}

LooseFiles ==
  { Parsed(a :> Active(t1, {}) @@ b :> Active(t1, {}),
           {<<a, "supersedes", b>>, <<b, "supersedes", a>>}) }

\* One key rewritten, archived twice, imported and deleted.
HistoryBatches == { a :> NewRule(t1, {f1, f2}), a :> NewRule(t2, {}) }
HistoryFiles == { Parsed(a :> Active(t2, {f1}), {}), Parsed(<<>>, {}),
                  Conflicting(a :> Active(t1, {}), a :> Active(t2, {})) }
=============================================================================
