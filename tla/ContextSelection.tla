-------------------------- MODULE ContextSelection --------------------------
(***************************************************************************)
(* What an agent is shown: the choice of memories for files or a task      *)
(* (src/store/graph.rs).  A question is answered from one state of the     *)
(* store; keys are numbers in their order.                                 *)
(* Every lookup holds a bounded number of rows.                            *)
(* Left out: topics, which only narrow every list by a prefix of the key,  *)
(* the recorded reasons of --explain, the sessions, and the files of a     *)
(* question beyond the first 256.                                          *)
(***************************************************************************)
EXTENDS AnchorRouting, Lists

CONSTANTS
  Paths,                        \* files of the project
  Questions,                    \* what is asked: [way, files, hits, limit]
  ExactRows,                    \* rows of the route of a whole path (64)
  MinRows, MaxRows,             \* of any other route (32, 512)
  MinCandidates, MaxCandidates  \* memories of all routes together (128, 8192)

VARIABLES
  memories,   \* key -> [anchor, archived], an anchor a set of paths
  relations,  \* set of <<source, type, target>>
  answer      \* what was asked and answered

vars == <<memories, relations, answer>>

NoAnswer == [kind |-> "none"]

Usable(k) == ~memories[k].archived

----------------------------------------------------------------------------
(* The three classes of memories for a set of files.                       *)

CandidateLimit(limit) == Max({limit, Min({4 * limit, 512})})

Scores == [p \in Paths \X Paths |-> Score(p[1], p[2])]
RoutesAt == [p \in Paths |-> Routes(p)]

\* The memories of a route, in the order of keys.
Led(route) ==
  {k \in DOMAIN memories : Usable(k) /\ \E a \in memories[k].anchor : route \in RoutesAt[a]}
ByKey == {p \in (DOMAIN memories) \X (DOMAIN memories) : p[1] < p[2]}

Wholes(files) == {<<"path", f>> : f \in files}
RoutesOf(files) == UNION {RoutesAt[f] : f \in files}

\* The rows of a lookup of n memories: of a whole path, of all routes
\* together and of any other route.
Clamp(n, low, high) == Max({low, Min({n, high})})
WholeRows(n) == Min({n, ExactRows})
CandidateBudget(files, n) ==
  Clamp(Max({32 * n, Cardinality(files) * WholeRows(n)}), MinCandidates, MaxCandidates)
RouteRows(files, n) == Min({Clamp(4 * n, MinRows, MaxRows), CandidateBudget(files, n)})
RowsOf(route, files, n) == IF route \in Wholes(files) THEN WholeRows(n) ELSE RouteRows(files, n)

Rows(route, files, n) == Foremost(Led(route), RowsOf(route, files, n), ByKey)
ExactHits(files, n) == UNION {Rows(r, files, n) : r \in Wholes(files)}
RouteHits(files, n) == UNION {Rows(r, files, n) : r \in RoutesOf(files)}

\* Beyond the budget the whole paths come first; which of the others find
\* room is a matter of the routes' order.
Candidates(files, n) ==
  LET hits == RouteHits(files, n) exact == ExactHits(files, n) IN
  IF Cardinality(hits) <= CandidateBudget(files, n) THEN hits
  ELSE CHOOSE C \in SUBSET hits : /\ Cardinality(C) = CandidateBudget(files, n)
                                  /\ C \subseteq exact \/ exact \subseteq C

\* The best score of a memory's anchor for one of the files.
Best(files, k) == Max({NoMatch} \cup {Scores[p] : p \in files \X memories[k].anchor})

\* ranked_anchor_keys: the candidates that match, best score first.
Direct(files, n) ==
  LET scored == {<<Best(files, k), k>> : k \in Candidates(files, n)} IN
  Take(ByScore({x \in scored : x[1] # NoMatch}), n)

\* Relations in the order of their rows.
ByRow ==
  {p \in relations \X relations :
     LET x == p[1] y == p[2] IN
     \/ x[1] < y[1]
     \/ x[1] = y[1] /\ x[2] < y[2]
     \/ x[1] = y[1] /\ x[2] = y[2] /\ x[3] < y[3]}

\* get_relations_touching: n rows of every memory, of these the n first, those
\* between the memories before those that lead out.
Touching_ByRow(keys, n) ==
  LET at(k) == {e \in relations : k \in {e[1], e[3]}} IN
  Foremost(UNION {Foremost(at(k), n, ByRow) : k \in keys}, n, ByRow)

Between(e, keys) == {e[1], e[3]} \subseteq keys

InnerFirst(keys) ==
  {p \in relations \X relations :
     IF Between(p[1], keys) <=> Between(p[2], keys) THEN p \in ByRow ELSE Between(p[1], keys)}

Touching(keys, n) ==
  LET at(k) == {e \in relations : k \in {e[1], e[3]}} IN
  Foremost(UNION {Foremost(at(k), n, ByRow) : k \in keys}, n, InnerFirst(keys))

\* One hop from the direct memories, either way, archived ones included.  A
\* relation between two direct memories leads to its target.
Linked(direct, n) ==
  LET keys == ToSet(direct) IN
  InKeyOrder({IF e[1] \in keys THEN e[3] ELSE e[1] : e \in Touching(keys, n)})

\* get_outgoing_targets: the first n that the direct memories point to, the
\* best of these first, by no more than n rows of each.
Targets(direct, n) ==
  LET out(k) == Foremost({e \in relations : e[1] = k}, n, ByRow)
      rows == UNION {out(k) : k \in ToSet(direct)}
      earlier(e, f) == \/ RankIn(e[1], direct) < RankIn(f[1], direct)
                       \/ e[1] = f[1] /\ <<e, f>> \in ByRow
      met == {e[3] : e \in rows}
      before == {p \in met \X met :
                   \E e \in rows : /\ e[3] = p[1]
                                   /\ \A f \in rows : f[3] = p[2] => earlier(e, f)}
  IN InKeyOrder(Foremost(met, n, before))

\* universal_keys.
Universal(limit) ==
  Take(InKeyOrder({k \in DOMAIN memories : Usable(k) /\ memories[k].anchor = {}}), limit)

\* select_diverse_context_keys: a slot or more for every class, then the
\* rest in the order of the classes.
Select_NoReserve(direct, related, universal, limit) ==
  Take(Extend(Extend(direct, related), universal), limit)

Select_NoBackfill(direct, related, universal, limit) ==
  LET others == limit - (IF direct = <<>> THEN 0 ELSE 1)
      slots(n, class, budget) ==
        IF class = <<>> THEN 0 ELSE Min({Max({limit \div n, 1}), Len(class), budget})
      r == slots(4, related, others)
      u == slots(10, universal, others - r)
  IN IF limit = 0 THEN <<>>
     ELSE Extend(Extend(Take(direct, limit - r - u), Take(related, r)), Take(universal, u))

Select(direct, related, universal, limit) ==
  LET others == limit - (IF direct = <<>> THEN 0 ELSE 1)
      slots(n, class, budget) ==
        IF class = <<>> THEN 0 ELSE Min({Max({limit \div n, 1}), Len(class), budget})
      r == slots(4, related, others)
      u == slots(10, universal, others - r)
      reserved == Extend(Extend(Take(direct, limit - r - u), Take(related, r)),
                         Take(universal, u))
  IN IF limit = 0 THEN <<>>
     ELSE Take(Extend(Extend(Extend(reserved, direct), related), universal), limit)

\* materialize_active_rules.
Materialize(keys) == Filtered(keys, {k \in ToSet(keys) : Usable(k)})

----------------------------------------------------------------------------
(* The classes of a question, and its answer.                              *)

\* Alternate the hits of the search and the memories of the files.
Alternate(s, t) ==
  LET n == 2 * Max({Len(s), Len(t)})
      at(i) == IF i % 2 = 1 THEN Take(SubSeq(s, (i + 1) \div 2, Len(s)), 1)
                            ELSE Take(SubSeq(t, i \div 2, Len(t)), 1)
      upTo[i \in 0..n] == IF i = 0 THEN <<>> ELSE Extend(upTo[i - 1], at(i))
  IN upTo[n]

Hits(q) == Materialize(q.hits)

DirectOf(q) ==
  LET file == Direct(q.files, CandidateLimit(q.limit)) IN
  IF q.way = "task" THEN Alternate(Hits(q), file) ELSE file

RelatedOf(q) ==
  LET n == CandidateLimit(q.limit) IN
  CASE q.way = "files"  -> Linked(DirectOf(q), n)
    [] q.way = "anchor" -> Targets(DirectOf(q), n)
    [] q.way = "task"   -> Materialize(Linked(DirectOf(q), n))

UniversalOf(q) == Universal(CandidateLimit(q.limit))

\* A task does not lose the first memory of its files to its own hits.
KeepFile_Never(q, selected) == selected

KeepFile(q, selected) ==
  LET file == Direct(q.files, CandidateLimit(q.limit)) IN
  IF q.way = "task" /\ q.limit >= 2 /\ Hits(q) # <<>> /\ file # <<>>
     /\ Head(file) \notin ToSet(selected)
  THEN Append(Take(selected, q.limit - 1), Head(file))
  ELSE selected

\* context_for_files, context_filtered and context_for_task; without files
\* and hits the first memories by key.
Context(q) ==
  IF q.files = {} /\ Hits(q) = <<>>
  THEN Take(InKeyOrder({k \in DOMAIN memories : Usable(k)}), q.limit)
  ELSE Materialize(KeepFile(q, Select(DirectOf(q), RelatedOf(q), UniversalOf(q), q.limit)))

\* With the relations of the chosen memories.
Ask(q) ==
  /\ \E rules \in {Context(q)} :
       answer' = [kind |-> "context", asked |-> q, rules |-> rules,
                  edges |-> Touching(ToSet(rules), 4 * q.limit)]
  /\ UNCHANGED <<memories, relations>>

----------------------------------------------------------------------------
(* Correctness.                                                            *)

IsContext == answer.kind = "context"
Asked == answer.asked
Shown == ToSet(answer.rules)

\* No route of the files leads to more memories than the lookup of n holds.
RoutesFit(files, n) ==
  /\ \A r \in RoutesOf(files) : Cardinality(Led(r)) <= RowsOf(r, files, n)
  /\ Cardinality(UNION {Led(r) : r \in RoutesOf(files)}) <= CandidateBudget(files, n)

\* The anchor of k matches a file, and not only by directories that the
\* routes leave out (models.rs:93-97).
Close(files, k) ==
  \E q \in files, a \in memories[k].anchor : Scores[<<q, a>>] # NoMatch /\ ~OutOfReach(q, a)

\* The routes lose no memory that the score would keep, as long as they fit
\* the lookup.
NoMatchLost ==
  answer = NoAnswer => \A q \in Paths, k \in DOMAIN memories :
    LET n == Cardinality(DOMAIN memories) IN
    Usable(k) /\ Close({q}, k) /\ RoutesFit({q}, n) => k \in ToSet(Direct({q}, n))

\* The usable memory that is closest to the files is shown, whatever else
\* competes: links, repository-wide rules, or the hits of a task that has
\* room for both (graph.rs:129-131, 836-845).  Routes that fit lead to it; if
\* they do not, it is still shown if it is the first to be anchored at one of
\* the files itself ("Exact full paths are queried first so a broad basename
\* or directory route can never crowd them out", graph.rs:533-534).
ClosestMemoryShown ==
  IsContext /\ Asked.limit >= (IF Asked.way = "task" THEN 2 ELSE 1) =>
    LET files == Asked.files
        n == CandidateLimit(Asked.limit)
        usable == {k \in DOMAIN memories : Usable(k)}
        closest(k) == \A j \in usable : \/ Best(files, j) < Best(files, k)
                                        \/ Best(files, j) = Best(files, k) /\ k <= j
        first(k) == \E f \in files \cap memories[k].anchor :
                      \A j \in usable : f \in memories[j].anchor => k <= j
        exactFit == Cardinality(ExactHits(files, n)) <= CandidateBudget(files, n)
        found(k) == (first(k) /\ exactFit) \/ (Close(files, k) /\ RoutesFit(files, n))
    IN \A k \in usable : closest(k) /\ found(k) => k \in Shown

\* One hop in the graph itself from the direct memories, whatever a lookup holds
\* of it, and whether the lookup holds all of it.
Neighbours(q, keys) ==
  LET out == {e[3] : e \in {x \in relations : x[1] \in keys}}
      into == {e[1] : e \in {x \in relations : x[1] \notin keys /\ x[3] \in keys}}
  IN CASE q.way = "files"  -> out \cup into
       [] q.way = "anchor" -> out
       [] q.way = "task"   -> {k \in out \cup into : Usable(k)}

LinksFit(q, keys) ==
  LET touching == {e \in relations : {e[1], e[3]} \cap keys # {}}
      n == CandidateLimit(q.limit)
  IN IF q.way = "anchor"
     THEN /\ Cardinality(Neighbours(q, keys)) <= n
          /\ \A k \in keys : Cardinality({e \in relations : e[1] = k}) <= n
     ELSE Cardinality(touching) <= n

\* What links lead to: all of it as long as the lookup holds it, otherwise
\* what the lookup holds.
OneHop(q) ==
  IF LinksFit(q, ToSet(DirectOf(q)))
  THEN Neighbours(q, ToSet(DirectOf(q)))
  ELSE ToSet(RelatedOf(q))

\* A large cluster of anchored memories starves neither the graph nor the
\* repository-wide rules ("Reserve bounded space", graph.rs:129-131): the
\* first linked memory, if it is usable, and the first repository-wide one are
\* shown if the limit has a slot for the class.  The first linked memory may
\* be one of the cluster.
EveryClassHasItsSlot ==
  IsContext /\ Asked.files # {} /\ (Asked.way # "task" \/ Asked.limit >= 4) =>
    LET d == DirectOf(Asked) u == UniversalOf(Asked) links == OneHop(Asked)
        directs == IF d = <<>> THEN 0 ELSE 1
        linked == IF links = {} THEN 0 ELSE 1
    IN /\ \A k \in links : (\A j \in links : k <= j) /\ Asked.limit > directs /\ Usable(k)
                           => k \in Shown
       /\ u # <<>> /\ Asked.limit > directs + linked => Head(u) \in Shown

\* A context falls short of its limit only if nothing is left to show, or
\* by the archived memories that links lead to (graph.rs:163).
ShortOnlyByArchived ==
  IsContext /\ Asked.files # {} /\ Len(answer.rules) < Asked.limit =>
    LET classes == ToSet(DirectOf(Asked)) \cup OneHop(Asked) \cup ToSet(UniversalOf(Asked))
        archived == {k \in OneHop(Asked) : ~Usable(k)}
    IN \/ classes \ archived \subseteq Shown
       \/ Len(answer.rules) + Cardinality(archived) >= Asked.limit

\* A relation between two shown memories is given before any that leads out of
\* them, in whatever order their rows come, as long as the rows of one of its
\* ends fit the lookup (graph.rs:349-359).
InnerRelationsFirst ==
  IsContext =>
    LET few(k) == Cardinality({e \in relations : k \in {e[1], e[3]}}) <= 4 * Asked.limit
        inner == {e \in relations : Between(e, Shown)}
    IN \A e \in inner, f \in answer.edges \ inner :
         few(e[1]) \/ few(e[3]) => e \in answer.edges
=============================================================================
