--------------------------- MODULE ScopedContext ---------------------------
(***************************************************************************)
(* One context from two stores, the project's and the global one: slots    *)
(* and bytes in mem_context (src/mcp.rs), slots in the context command     *)
(* (src/cli.rs).  A line is its cost in bytes, its newline counted.        *)
(***************************************************************************)
EXTENDS Lists

CONSTANTS
  MaxBytes,       \* MAX_TEXT_RESULT_BYTES
  NoticeBytes,    \* the length of TRUNCATION_NOTICE
  ExplainBytes,   \* EXPLAIN_BYTES
  GlobalBytes,    \* bytes kept for the global store
  MetaBytes       \* bytes kept for relations and sessions

\* What is kept is less than all, has room for a header, and so has the notice.
ASSUME BudgetsAssumption ==
  /\ {MaxBytes, NoticeBytes, ExplainBytes, GlobalBytes, MetaBytes} \subseteq Nat
  /\ NoticeBytes >= 25 /\ MetaBytes >= 20
  /\ NoticeBytes + ExplainBytes + GlobalBytes + MetaBytes <= MaxBytes

----------------------------------------------------------------------------
(* mem_context.  used: bytes so far; lines: which lines of a list are in.  *)

GlobalReserve(limit) == IF limit >= 4 THEN Min({Max({limit \div 4, 2}), 10}) ELSE 1
ProjectLimit(limit) == Max({limit - GlobalReserve(limit), 1})
GlobalLimit(limit, projectCount) == Max({limit - projectCount, GlobalReserve(limit)})

\* Each line that still fits, a long one left out for shorter ones after it.
Fitting(costs, used, budget) ==
  LET fit[i \in 0..Len(costs)] ==
        IF i = 0 THEN [used |-> used, lines |-> {}]
        ELSE LET f == fit[i - 1] IN
             IF f.used + costs[i] <= budget
             THEN [used |-> f.used + costs[i], lines |-> f.lines \cup {i}]
             ELSE f
  IN fit[Len(costs)]

\* The first rule of a project is shown even if it is over the budget.
FittingRules(costs, budget) ==
  IF costs # <<>> /\ Head(costs) > budget
  THEN [used |-> Head(costs), lines |-> {1}]
  ELSE Fitting(costs, 0, budget)

Headed(section, header) ==
  IF section.lines = {} THEN section ELSE [section EXCEPT !.used = @ + header]

Budget_NoNotice(explain) == MaxBytes - (IF explain THEN ExplainBytes ELSE 0)

Budget(explain) == MaxBytes - NoticeBytes - (IF explain THEN ExplainBytes ELSE 0)

MetaBudget_All(q) == Budget(q.explain)
MetaBudget(q) == Budget(q.explain) - (IF q.scope = "all" THEN GlobalBytes ELSE 0)

\* q: scope, limit, explain (the bytes of the explanation, if any) and the
\* costs of what both stores have.
McpContext(q) ==
  LET here == q.scope \in {"all", "project"}
      limit == IF q.scope = "all" THEN ProjectLimit(q.limit) ELSE q.limit
      costs == IF here THEN Take(q.rules, limit) ELSE <<>>
      rules == Headed(FittingRules(costs, MetaBudget(q) - MetaBytes), 20)
      rels == Headed(Fitting(IF here THEN q.relations ELSE <<>>, rules.used, MetaBudget(q)), 16)
      sess == Headed(Fitting(IF here THEN q.sessions ELSE <<>>, rels.used, MetaBudget(q)), 15)
      slots == CASE q.scope = "all" -> GlobalLimit(q.limit, Len(costs))
                 [] q.scope = "global" -> q.limit
                 [] q.scope = "project" -> 0
      global == Headed(Fitting(Take(q.globals, slots), sess.used, Budget(q.explain)), 25)
      why == IF q.explain THEN q.why + 1 ELSE 0
  IN [rules |-> rules.lines, relations |-> rels.lines, sessions |-> sess.lines,
      globals |-> global.lines, slots |-> Len(costs) + Len(Take(q.globals, slots)),
      bytes |-> Max({global.used + why - 1, 0})]

----------------------------------------------------------------------------
(* The context command: the keys of both stores, each list without repeats.*)

CliContext(project, global, limit) ==
  LET share == Max({limit \div 4, Min({limit, 1})})
      both == Extend(Take(project, limit - share), Take(global, share))
  IN Take(Extend(Extend(both, project), global), limit)
=============================================================================
