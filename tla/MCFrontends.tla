---------------------------- MODULE MCFrontends ----------------------------
(* The instance of McpServer and Registry for TLC: two clones of a remote   *)
(* and two paths whose directories have one name.                           *)
EXTENDS McpServer, TLC

CONSTANTS a, b, p1, p2, remote, name

TwoClones == {a, b}
TwoPaths == {p1, p2}
OneRemote == [c \in TwoClones |-> remote]
OneName == [x \in TwoPaths |-> name]
SomeRequests ==
  [kind : {"mem_set"}, sel : {None, name} \cup {Id(remote, p) : p \in TwoPaths}]
  \cup [kind : {"mem_manage"}, sel : TwoPaths] \cup [kind : {"mem_find"}, sel : {name}]
  \cup [kind : {"notification"}, sel : {None}]
Repeated(n) == [i \in 1..n |-> Unit("text")]
Wide == <<Lead, Unit("trail")>>
SomeJunk ==
  {Repeated(n) : n \in {0, 1, 2, 4}} \cup {Repeated(2) \o Wide, Repeated(3) \o Wide}
ClonesAndPaths == Permutations(TwoClones) \cup Permutations(TwoPaths)

\* Writing, draining and receiving commute with what the registry does, and
\* reading looks at it once: nothing is missed if it changes between lines,
\* and if lines that ask for no project, or wait for others, come early.
BetweenLines ==
  \/ wire = <<>> /\ output = <<>> /\ ~server.draining
  \/ UNCHANGED registryVars
Early ==
  client' # client /\ output' = output =>
    \/ moves + commands = 0
    \/ wire = <<>> /\ wire' # <<>> /\ wire'[1] \in Requests /\ ~client'.closed
=============================================================================
