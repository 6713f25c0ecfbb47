---------------------------- MODULE MCRetrieval ----------------------------
(* The instance of Retrieval for TLC.                                       *)
EXTENDS Retrieval, TLC

CONSTANTS src, api, db, v1, auth, mod, Mod, the, w1, w2

(* Files: two of one directory of two names, a generic name in two          *)
(* directories and once without one, a name that differs only in case, and *)
(* files below.                                                             *)
ApiAuth == <<src, api, auth>>
ApiMod == <<src, api, mod>>
DbMod == <<src, db, mod>>
DeepMod == <<src, api, v1, Mod>>
Deep == <<src, api, v1, db, auth>>
SrcMod == <<src, mod>>
Bare == <<auth>>
AllPaths == {ApiAuth, ApiMod, DbMod, DeepMod, Deep, SrcMod, Bare}
GenericNames == {mod, Mod}
Fold == [w \in {src, api, db, v1, auth, mod, Mod} |-> IF w = Mod THEN mod ELSE w]

(* Stores: every pair of anchors for one memory and one file; and five      *)
(* memories that compete for a few slots.                                   *)
Memory(anchor, archived) == [anchor |-> anchor, archived |-> archived]
Competing == {[k \in 1..5 |-> Memory(f[k], k = gone)] :
                f \in {g \in [1..5 -> {{ApiAuth}, {DeepMod}, {}}] :
                         g[1] # {} /\ (g[4] = {} => g[5] = {})},
                gone \in 0..5}
Pairs == {[k \in 1..2 |-> Memory({f[k]}, FALSE)] : f \in [1..2 -> AllPaths]}
SomeStores == Competing \cup Pairs

(* Relations: none, a few, and more than a lookup holds.                    *)
Clique(n) == {<<j, 1, k>> : j, k \in 1..n} \ {<<k, 1, k>> : k \in 1..n}
SomeLinks == {{}, {<<1, 1, 5>>}, {<<4, 1, 1>>, <<1, 2, 2>>, <<1, 1, 3>>},
              {<<5, 1, 1>>} \cup Clique(4),
              {<<1, t, k>> : t \in 1..2, k \in 2..5} \cup {<<5, 1, 4>>}}

SomeQuestions ==
  [way : {"files", "anchor"}, files : {{ApiAuth}, {DbMod}}, hits : {<<>>}, limit : {1, 2, 4}]
  \cup [way : {"files"}, files : {{}, {ApiMod, Deep}}, hits : {<<>>}, limit : {3}]
  \cup [way : {"task"}, files : {{}, {ApiAuth}},
        hits : {<<>>, <<2, 1>>}, limit : {1, 2, 4}]

(* Lines that fill the budgets to the byte, with and without explanation.   *)
Lists_(S) == {<<>>} \cup {<<x>> : x \in S} \cup {<<x, y>> : x, y \in S}
SomeScoped ==
  [scope : {"all", "project", "global"}, limit : {1, 2, 5}, explain : {FALSE}, why : {0},
   rules : Lists_({100, 12258, 12288, 20000}), relations : Lists_({1516, 3000}),
   sessions : {<<>>, <<900>>},
   globals : {<<>>, <<2529>>, <<2544>>, <<50, 2544>>, <<2529, 50, 50, 50, 50>>}]
  \cup [scope : {"all"}, limit : {5}, explain : {TRUE}, why : {18, 2048},
        rules : Lists_({100, 10210, 10240}), relations : {<<>>, <<1516>>},
        sessions : {<<>>}, globals : {<<>>, <<2544>>}]

SomeKeyLists == UNION {SetToSeqs(S) : S \in SUBSET {1, 2, 3}}

Rule(n, v) == [name |-> n, val |-> v]
SomeCorpora ==
  {f \o <<Rule(<<the>>, <<w1>>)>> :
     f \in [1..3 -> {Rule(<<w1>>, <<w2>>), Rule(<<w2, w1>>, <<the>>)}]}
SomeQueries == {<<w1>>, <<w1, w2>>, <<the, w2>>}
=============================================================================
