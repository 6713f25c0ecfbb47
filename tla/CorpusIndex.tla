---------------------------- MODULE CorpusIndex ----------------------------
(***************************************************************************)
(* What the semantic index promises the store: it serves a copy of the     *)
(* active memories, taken in one instant, and it is marked stale from the  *)
(* first write after that instant on.                                      *)
(***************************************************************************)
CONSTANTS
  Corpora,  \* what the active memories can be
  Nothing   \* no index is kept

VARIABLES
  corpus,  \* the active memories
  served,  \* the copy that the index answers from
  stale    \* the index must be refreshed before it answers

vars == <<corpus, served, stale>>

Init == corpus \in Corpora /\ served = Nothing /\ stale = FALSE

Write(c) ==
  /\ corpus' = c
  /\ stale' = (served # Nothing)
  /\ UNCHANGED served

Refresh ==
  /\ served' = corpus
  /\ stale' = FALSE
  /\ UNCHANGED corpus

Disable ==
  /\ served' = Nothing
  /\ stale' = FALSE
  /\ UNCHANGED corpus

Next == (\E c \in Corpora : Write(c)) \/ Refresh \/ Disable

Spec == Init /\ [][Next]_vars

\* An index that is not marked stale serves the active memories as they are.
Faithful == served # Nothing /\ ~stale => served = corpus
=============================================================================
