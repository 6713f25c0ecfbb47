--------------------------- MODULE CommitParsing ---------------------------
(***************************************************************************)
(* What a commit says (src/hook.rs): its conventional subject, the trailers*)
(* of its body, and the memory they propose.  A commit is a record         *)
(*   id, files, deleted    the session summary and the two git diffs       *)
(*   type, scope, bang     of the subject, in lower case                   *)
(*   summary, slug, draft  the text, its slug, and whether it is too short *)
(*                         or marked as work in progress                   *)
(*   body                  lines [tag, text]: a trailer, blank or text     *)
(* Texts are sequences of lines.                                           *)
(***************************************************************************)
EXTENDS Sequences, SequencesExt

CONSTANTS NoKind, NoScope, NoKey, NoEntity

Kinds == {"gotcha", "decision", "pattern", "rule"}
RelTrailers == {"relates_to", "mitigates", "depends_on", "supersedes"}

----------------------------------------------------------------------------
(* parse_trailers.  A line without a trailer continues the content or the  *)
(* breaking change above it, up to a blank line or another trailer; any    *)
(* other is body.  A second content replaces the first.                    *)

NoTrailers ==
  [kind |-> NoKind, content |-> <<>>, key |-> NoKey, rels |-> {}, breaking |-> <<>>,
   body |-> <<>>, open |-> "body"]

ReadLine(t, line) ==
  CASE line.tag = "blank" -> [t EXCEPT !.open = "body"]
    [] line.tag \in Kinds ->
         [t EXCEPT !.kind = line.tag, !.content = <<line.text>>, !.open = "content"]
    [] line.tag = "breaking" -> [t EXCEPT !.breaking = <<line.text>>, !.open = "breaking"]
    [] line.tag = "key" -> [t EXCEPT !.key = line.text, !.open = "body"]
    [] line.tag \in RelTrailers ->
         [t EXCEPT !.rels = @ \cup {<<line.tag, k>> : k \in line.text}, !.open = "body"]
    [] OTHER -> [t EXCEPT ![t.open] = Append(@, line.text)]

Trailers(body) == FoldLeft(ReadLine, NoTrailers, body)

----------------------------------------------------------------------------
(* parse_conventional_commit.                                              *)

Breaking(c) == c.bang \/ Trailers(c.body).breaking # <<>>

\* derive_entity_key.
EntityKey(c, prefix) ==
  IF Trailers(c.body).key # NoKey THEN Trailers(c.body).key ELSE <<prefix, c.scope, c.slug>>

Proposal(c, kind, val) ==
  [key |-> EntityKey(c, IF kind = "rule" THEN "architecture" ELSE kind),
   text |-> [val |-> val, kind |-> kind]]

Proposed(c) ==
  LET t == Trailers(c.body) IN
  CASE t.kind # NoKind -> Proposal(c, t.kind, t.content)
    [] t.kind = NoKind /\ Breaking(c) ->
         Proposal(c, "rule", IF t.breaking # <<>> THEN t.breaking ELSE <<c.summary>>)
    [] t.kind = NoKind /\ ~Breaking(c) /\ c.scope # NoScope /\ c.type = "fix" ->
         Proposal(c, "gotcha", <<c.summary>> \o t.body)
    [] t.kind = NoKind /\ ~Breaking(c) /\ c.scope # NoScope /\ c.type = "feat" ->
         Proposal(c, "decision", <<c.summary>>)
    [] t.kind = NoKind /\ ~Breaking(c) /\ c.scope # NoScope /\ c.type = "refactor" ->
         Proposal(c, "pattern", <<c.summary>>)
    [] OTHER -> NoEntity

\* The author asked for the capture.
Explicit(c) ==
  LET t == Trailers(c.body) IN t.kind # NoKind \/ t.key # NoKey \/ Breaking(c)

\* transient_summary: drafts, unless a body explains a short one.
Transient(c) ==
  c.draft = "marked" \/ (c.draft = "short" /\ Trailers(c.body).body = <<>>)
=============================================================================
