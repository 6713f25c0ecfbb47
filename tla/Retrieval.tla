----------------------------- MODULE Retrieval -----------------------------
(***************************************************************************)
(* The three answers that are computed from what is stored: the context of *)
(* one store, the context of a project and the global store, and a search. *)
(* Each is one read; which store it reads and what is asked is any of the  *)
(* given sets.                                                             *)
(***************************************************************************)
EXTENDS ContextSelection, ScopedContext, SearchFusion

CONSTANTS
  Stores,     \* the memories of a store
  Links,      \* the relations between them
  Scoped,     \* questions to both stores, with the costs of their lines
  KeyLists,   \* what the stores of the context command select
  MaxLimit,   \* bound on a limit
  Corpora,    \* the memories a search is over: key -> [name, val]
  Queries     \* what is searched

\* The instance has stores of finitely many memories, whose anchors are files
\* of the project, and questions about its files; the costs of lines are
\* numbers, the explanation keeps to its bytes, and no store selects a key
\* twice.
ASSUME RetrievalAssumption ==
  /\ Paths \subseteq Seq(DOMAIN Folded) \ {<<>>} /\ IsFiniteSet(Paths)
  /\ DirRoutes \in Nat \ {0}
  /\ \A m \in Stores :
       /\ IsFiniteSet(DOMAIN m) /\ DOMAIN m \subseteq Nat \ {0}
       /\ \A k \in DOMAIN m :
            m[k] \in [anchor : SUBSET Paths, archived : BOOLEAN]
  /\ \A r \in Links : IsFiniteSet(r) /\ r \subseteq Nat \X Nat \X Nat
  /\ {ExactRows, MinRows, MaxRows, MinCandidates, MaxCandidates} \subseteq Nat \ {0}
  /\ MinRows <= MaxRows /\ MinCandidates <= MaxCandidates
  /\ \A q \in Questions :
       q \in [way : {"files", "anchor", "task"}, files : SUBSET Paths,
              hits : Seq(Nat), limit : Nat]
  /\ \A q \in Scoped :
       q \in [scope : {"all", "project", "global"}, limit : Nat,
              explain : BOOLEAN, why : 0..ExplainBytes, rules : Seq(Nat),
              relations : Seq(Nat), sessions : Seq(Nat), globals : Seq(Nat)]
  /\ \A list \in KeyLists : list \in Seq(Nat) /\ IsInjective(list)
  /\ MaxLimit \in Nat
  /\ \A c \in Corpora : IsFiniteSet(DOMAIN c) /\ DOMAIN c \subseteq Nat

Load(m, r) ==
  /\ \A e \in r : {e[1], e[3]} \subseteq DOMAIN m
  /\ memories' = m
  /\ relations' = r
  /\ UNCHANGED answer

AskBoth(q) ==
  /\ answer' = [kind |-> "both", asked |-> q, shown |-> McpContext(q)]
  /\ UNCHANGED <<memories, relations>>

Merge(project, global, limit) ==
  /\ answer' = [kind |-> "merged", project |-> project, global |-> global, limit |-> limit,
                keys |-> CliContext(project, global, limit)]
  /\ UNCHANGED <<memories, relations>>

Search(corpus, query) ==
  /\ \E strict \in RankingsOf(StrictHits(corpus, query), MaxFound),
        relaxed \in IF StrictHits(corpus, query) = {}
                    THEN RankingsOf(RelaxedHits(corpus, query), MaxFound) ELSE {<<>>},
        S \in SUBSET DOMAIN corpus :
     \E semantic \in RankingsOf(S, MaxNear) :
       answer' = [kind |-> "search", corpus |-> corpus, query |-> query,
                  strict |-> strict, relaxed |-> relaxed, semantic |-> semantic,
                  found |-> Find(corpus, query, strict, relaxed, semantic)]
  /\ UNCHANGED <<memories, relations>>

Init ==
  /\ memories = <<>>
  /\ relations = {}
  /\ answer = NoAnswer

\* A store is loaded to be asked once; the other answers take what the
\* stores select as it is.
Next ==
  /\ answer = NoAnswer
  /\ IF memories # <<>>
     THEN \E q \in Questions : Ask(q)
     ELSE \/ \E m \in Stores, r \in Links : Load(m, r)
          \/ \E q \in Scoped : AskBoth(q)
          \/ \E p, g \in KeyLists, limit \in 1..MaxLimit : Merge(p, g, limit)
          \/ \E c \in Corpora, q \in Queries : Search(c, q)

Spec == Init /\ [][Next]_vars

----------------------------------------------------------------------------
(* Correctness.                                                            *)

\* A text that mem_context puts together is never cut in the middle of a
\* line: what is counted per section leaves the uncounted header, the notice
\* and the explanation their bytes, unless one rule alone is too long.
TextNeverCut ==
  answer.kind = "both" =>
    LET q == answer.asked IN
    \/ answer.shown.bytes <= MaxBytes
    \/ q.rules # <<>> /\ Head(q.rules) > MetaBudget(q) - MetaBytes

\* However much the project has, the first global memory has a slot and room
\* for a line of its reserve, and so has the first relation; slots that the
\* project leaves are not lost ("expand global slots to claim any unused
\* project slots", mcp.rs:1077).  A limit of one shows a rule of each store.
\* The context command too shows a global memory, within its limit, which it
\* fills from both stores as long as either has a memory.
NoStoreStarves ==
  /\ answer.kind = "both" /\ answer.asked.scope = "all" =>
       LET q == answer.asked
           long == q.rules # <<>> /\ Head(q.rules) > MetaBudget(q) - MetaBytes
       IN ~long =>
          /\ q.globals # <<>> /\ Head(q.globals) <= GlobalBytes - 16 => 1 \in answer.shown.globals
          /\ q.relations # <<>> /\ Head(q.relations) <= MetaBytes - 20
               => 1 \in answer.shown.relations
          /\ q.limit >= 2 => answer.shown.slots <= q.limit
          /\ Len(q.globals) >= q.limit => answer.shown.slots >= q.limit
  /\ answer.kind = "merged" =>
       LET all == ToSet(answer.project) \cup ToSet(answer.global) IN
       /\ Len(answer.keys) = Min({answer.limit, Cardinality(all)})
       /\ answer.global # <<>> => ToSet(answer.keys) \cap ToSet(answer.global) # {}

\* Fusing keeps what both rankings say: no memory is found twice, the first
\* hit of each list that is asked is found, a memory ranked at least as well in
\* both lists and better in one comes first, no lower semantic hit passes the
\* first lexical one, and of two memories of one rank in either list the
\* semantic one leads ("equal-rank ties prefer list_a without distorting
\* lower-ranked semantic hits above top-ranked lexical hits", store/mod.rs:878).
FusionKeepsBothRankings ==
  answer.kind = "search" =>
    LET s == answer.semantic
        l == IF answer.strict # <<>> THEN answer.strict ELSE answer.relaxed
        f == answer.found
        rank(k, list) == IF k \in ToSet(list) THEN RankIn(k, list) ELSE MaxFound + 1
    IN /\ IsInjective(f)
       /\ l # <<>> => Head(l) \in ToSet(f)
       /\ s # <<>> => f = l \/ Head(s) \in ToSet(f)
       /\ \A j, k \in ToSet(f) :
            rank(j, s) <= rank(k, s) /\ rank(j, l) <= rank(k, l) /\ j # k
            => RankIn(j, f) < RankIn(k, f)
       /\ l # <<>> => \A k \in ToSet(f) \cap (ToSet(s) \ ToSet(l)) :
                        rank(k, s) > 1 => RankIn(Head(l), f) < RankIn(k, f)
       /\ \A j \in ToSet(f) \ ToSet(l), k \in ToSet(f) \ ToSet(s) :
            rank(j, s) = rank(k, l) => RankIn(j, f) < RankIn(k, f)
=============================================================================
