---------------------------- MODULE SearchFusion ----------------------------
(***************************************************************************)
(* What find returns (src/store/mod.rs): the full-text hits of all words   *)
(* of a query, or of any of them, alone or fused with the semantic hits.   *)
(* A text is a sequence of words.  The order of hits by bm25 and by cosine *)
(* distance is any order.                                                  *)
(***************************************************************************)
EXTENDS Lists

CONSTANTS
  StopWords,  \* words that a query is not searched by
  MaxFound,   \* LIMIT of a full-text search and of a fusion (10)
  MaxNear     \* MAX_RESULTS of a semantic search (5)

\* A fusion has room for all semantic hits and one more.
ASSUME FusionAssumption == {MaxFound, MaxNear} \subseteq Nat /\ MaxNear < MaxFound

\* All ways to rank S, cut at n.
RankingsOf(S, n) == {Take(r, n) : r \in SetToSeqs(S)}

----------------------------------------------------------------------------
Content(query) == SelectSeq(query, LAMBDA w : w \notin StopWords)

\* sanitized_fts_terms: stop words count if there is nothing else.
Terms(query) == IF Content(query) = <<>> THEN query ELSE Content(query)

Words(rule) == ToSet(rule.name) \cup ToSet(rule.val)

StrictHits(corpus, query) ==
  {k \in DOMAIN corpus : ToSet(Terms(query)) \subseteq Words(corpus[k])}

RelaxedHits(corpus, query) ==
  {k \in DOMAIN corpus : /\ Len(Terms(query)) > 1
                         /\ ToSet(Terms(query)) \cap Words(corpus[k]) # {}}

Phrase(text, words) ==
  /\ words # <<>>
  /\ \E i \in 0..Len(text) - Len(words) : SubSeq(text, i + 1, i + Len(words)) = words

\* clear_lexical_match: the search is so plain, or the first hit says it so
\* exactly, that semantic hits are not asked for.
Clear(corpus, query, hits) ==
  LET top == corpus[Head(hits)] IN
  \/ Len(query) <= 1
  \/ Len(query) = 2 /\ Len(Content(query)) = 1
  \/ Phrase(top.name, query)
  \/ Len(Content(query)) >= 2 /\ Phrase(top.name, Content(query))
  \/ Len(hits) = 1 /\ Phrase(top.val, query)

----------------------------------------------------------------------------
\* rrf_fuse: the sum of 1 / (60 + rank) over the lists that have k.
Weight(k, s, l) ==
  LET a == 60 + RankIn(k, s)
      b == 60 + RankIn(k, l)
  IN CASE k \in ToSet(s) \cap ToSet(l) -> <<a + b, a * b>>
       [] k \in ToSet(s) \ ToSet(l) -> <<1, a>>
       [] k \in ToSet(l) \ ToSet(s) -> <<1, b>>

Above_KeyBreaksTies(j, k, s, l) ==
  LET x == Weight(j, s, l) y == Weight(k, s, l) IN
  \/ x[1] * y[2] > y[1] * x[2]
  \/ x[1] * y[2] = y[1] * x[2] /\ j < k

\* Equal weights go to the better semantic rank.
Above(j, k, s, l) ==
  LET x == Weight(j, s, l)
      y == Weight(k, s, l)
      sem(i) == IF i \in ToSet(s) THEN RankIn(i, s) ELSE Len(s) + 1
  IN \/ x[1] * y[2] > y[1] * x[2]
     \/ x[1] * y[2] = y[1] * x[2] /\ sem(j) < sem(k)
     \/ x[1] * y[2] = y[1] * x[2] /\ sem(j) = sem(k) /\ j < k

Fuse(s, l) ==
  LET hits == ToSet(s) \cup ToSet(l)
  IN Take(InOrder(hits, {p \in hits \X hits : Above(p[1], p[2], s, l)}), MaxFound)

\* find, for one ranking of the hits.
Find(corpus, query, strict, relaxed, semantic) ==
  LET lexical == IF strict # <<>> THEN strict ELSE relaxed IN
  IF semantic = <<>> \/ (strict # <<>> /\ Clear(corpus, query, strict))
  THEN lexical
  ELSE Fuse(semantic, lexical)
=============================================================================
