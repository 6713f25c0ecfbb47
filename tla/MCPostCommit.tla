---------------------------- MODULE MCPostCommit ----------------------------
(* The instance of PostCommit for TLC: two fixes with one slug, a draft, a  *)
(* fix that supersedes another memory, a decision under a chosen key that   *)
(* supersedes the fix, and a commit that deletes the file of the fix.       *)
EXTENDS PostCommit, TLC

CONSTANTS t1, t2, x1, s, f, k1, h1, h2

Fix == <<"gotcha", s, x1>>
TwoKeys == {Fix, k1}

Plain(id, text) ==
  [id |-> id, files |-> {f}, deleted |-> {}, type |-> "fix", scope |-> s, bang |-> FALSE,
   summary |-> text, slug |-> x1, draft |-> "no", body |-> <<>>]
Trailer(tag, text) == [tag |-> tag, text |-> text]

SixCommits ==
  { Plain("fix", t1),
    Plain("other fix", t2),
    [Plain("draft", t2) EXCEPT !.draft = "short"],
    [Plain("redo", t1) EXCEPT !.body = << Trailer("supersedes", {k1}) >>],
    [Plain("decision", t2) EXCEPT !.type = "chore", !.files = {},
       !.body = << Trailer("decision", t1), Trailer("text", t2), Trailer("key", k1),
                   Trailer("supersedes", {Fix}) >>],
    [Plain("gotcha", t2) EXCEPT !.files = {}, !.deleted = {f},
       !.body = << Trailer("gotcha", t1), Trailer("blank", t1), Trailer("text", t2) >>] }

AllCaptures == UNION {Captures(c) : c \in {d \in SixCommits : Proposed(d) # NoEntity}}
SessionTexts == {"note"} \cup {c.id : c \in SixCommits}

Text(kind, val) == [val |-> val, kind |-> kind]
SomeTexts == {Text("gotcha", <<t1>>), Text("gotcha", <<t2>>), Text("decision", <<t1, t2>>)}
OneBatch == { k1 :> [text |-> Text("gotcha", <<t1>>), anchor |-> {f}, rel |-> NoRel] }
TwoHooks == {h1, h2}
SameHooks == Permutations(TwoHooks)
RoutedAll == [a \in SUBSET Files |-> a]
=============================================================================
