--------------------------- MODULE AnchorRouting ---------------------------
(***************************************************************************)
(* How a memory is found from a file (src/store/graph.rs, models.rs).      *)
(* A path is a sequence of names.  The table memory_routes holds hashed    *)
(* routes of every anchored path; a lookup by the routes of a file gives   *)
(* candidates, and score_single_anchor keeps those that are close enough.  *)
(* A route is its kind and the path hashed: a collision only adds a        *)
(* candidate, which the score rejects.                                     *)
(***************************************************************************)
EXTENDS Integers, Sequences, SequencesExt

CONSTANTS
  Generic,    \* names such as mod or index that say nothing about a file
  Folded,     \* name -> the name in lower case
  DirRoutes   \* directory routes kept for a path, the deepest ones (8)

Dir(p) == Front(p)
Base(p) == Folded[Last(p)]
Qualified(p) == Len(p) > 1

\* routing_entries_for_path.  Directories of one name are left out: they
\* would give a lookup most of a large repository.
Routes_NoAncestors(p) ==
  LET d == Len(p) - 1 IN
  {<<"path", p>>, <<"base", <<Base(p)>> >>}
    \cup {<<"dir", SubSeq(p, 1, e)>> : e \in {n \in 2..d : n = d}}

Routes(p) ==
  LET d == Len(p) - 1 IN
  {<<"path", p>>, <<"base", <<Base(p)>> >>}
    \cup {<<"dir", SubSeq(p, 1, e)>> : e \in {n \in 2..d : n > d - DirRoutes}}

Reached(query, anchor) == Routes(query) \cap Routes(anchor) # {}

\* score_single_anchor; 0 is no match.
NoMatch == 0

Score(q, a) ==
  IF q = a THEN 1000
  ELSE IF IsStrictSuffix(a, q) \/ IsStrictSuffix(q, a) THEN 800
  ELSE IF Qualified(q) /\ Qualified(a)
  THEN CASE Dir(q) = Dir(a) -> 500
         [] IsStrictPrefix(Dir(a), Dir(q)) -> 200 + 20 * Len(Dir(a))
         [] IsStrictPrefix(Dir(q), Dir(a)) -> 200 + 20 * Len(Dir(q))
         [] Base(q) = Base(a) /\ Last(q) \notin Generic -> 50
         [] OTHER -> NoMatch
  ELSE IF Base(q) = Base(a) THEN 100 ELSE NoMatch

----------------------------------------------------------------------------
\* Two paths match only because one directory is the other or above it.
OnlyByDirectory(q, a) ==
  /\ q # a /\ ~IsStrictSuffix(a, q) /\ ~IsStrictSuffix(q, a)
  /\ Qualified(q) /\ Qualified(a)
  /\ IsPrefix(Dir(q), Dir(a)) \/ IsPrefix(Dir(a), Dir(q))

\* What the routes give up: a shared directory of one name, and one that is
\* too far above the deeper path.
OutOfReach(q, a) ==
  LET high == IF Len(q) < Len(a) THEN q ELSE a
      deep == IF Len(q) < Len(a) THEN a ELSE q
  IN /\ OnlyByDirectory(q, a)
     /\ \/ Len(Dir(high)) = 1
        \/ Len(Dir(deep)) - Len(Dir(high)) >= DirRoutes
=============================================================================
