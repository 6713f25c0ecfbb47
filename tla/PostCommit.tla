----------------------------- MODULE PostCommit -----------------------------
(***************************************************************************)
(* The post-commit hook (src/hook.rs) at work on a store, MemoryGraph.     *)
(* Git moves the head; a run of the hook asks git three times about it,    *)
(* decides from what the store holds, and only then writes, cleans and     *)
(* exports: runs overlap with each other, with other writers and with      *)
(* commits.  The export that ends a run is in TeamSync.                    *)
(***************************************************************************)
EXTENDS MemoryGraph, CommitParsing

CONSTANTS
  GitCommits,  \* commits users make
  NoCommit,
  Hooks,       \* processes that run the hook
  MaxHeads,    \* bound on the moves of the head
  MaxRuns      \* bound on the runs of the hook

Entities == [key : Keys, text : Texts]

\* What a run may ask the store to capture and to record.
Captures(c) ==
  {[key |-> Proposed(c).key, text |-> Proposed(c).text, anchor |-> files,
    rels |-> Trailers(c.body).rels] : files \in Anchors}
Ids == {c.id : c \in GitCommits}

\* The instance has the keys, texts, files, relations, captures and session
\* texts that its commits give rise to.
ASSUME CommitsAssumption ==
  /\ NoEntity \notin Entities
  /\ \A c \in GitCommits :
       /\ c.files \subseteq Files /\ c.deleted \subseteq Files
       /\ Trailers(c.body).rels \subseteq RelTypes \X Keys
       /\ Proposed(c) \in Entities \cup {NoEntity}
       /\ Trailers(c.body).kind # NoKind => Proposed(c) # NoEntity
       /\ Proposed(c) # NoEntity => Captures(c) \subseteq Commits
       /\ c.id \in Summaries

VARIABLES
  head,        \* the commit HEAD names
  hook,        \* the runs
  heads,
  runs,
  overlapped   \* history variable: two runs were under way at once

hookVars == <<head, hook, heads, runs, overlapped>>

\* `alone' is a history variable: no one else has written since the run
\* looked at the store.
Idle == [pc |-> "idle", commit |-> NoCommit, deleted |-> {}, files |-> {},
         entity |-> NoEntity, recorded |-> FALSE, alone |-> TRUE]

At(h, pc) == hook[h].pc = pc
To(h, pc) == hook' = [hook EXCEPT ![h].pc = pc]

Others(h) == [g \in Hooks |-> IF g = h THEN hook[g] ELSE [hook[g] EXCEPT !.alone = FALSE]]

----------------------------------------------------------------------------
(* extract_git_commit_info: git log and two git diff-tree, each about the  *)
(* head of the moment.                                                     *)

Log(h) ==
  /\ At(h, "idle") /\ runs < MaxRuns
  /\ runs' = runs + 1
  /\ hook' = [hook EXCEPT ![h] = [Idle EXCEPT !.pc = "deleted", !.commit = head]]
  /\ overlapped' = (overlapped \/ \E g \in Hooks \ {h} : ~At(g, "idle"))
  /\ UNCHANGED <<vars, head, heads>>

DiffDeleted(h) ==
  /\ At(h, "deleted")
  /\ hook' = [hook EXCEPT ![h].pc = "modified", ![h].deleted = head.deleted]
  /\ UNCHANGED <<vars, head, heads, runs, overlapped>>

\* The first three that are source files are the anchor.
DiffModified(h) ==
  /\ At(h, "modified")
  /\ hook' = [hook EXCEPT ![h].pc = "assess", ![h].files = head.files \ hook[h].deleted]
  /\ UNCHANGED <<vars, head, heads, runs, overlapped>>

----------------------------------------------------------------------------
(* assess_entity.                                                          *)

\* active_duplicate returns any one of these.
Duplicates_Archived(e) == {k \in Keys : Exists(k) /\ mem[k].text = e.text}

Duplicates(e) == {k \in Keys : Exists(k) /\ ~mem[k].archived /\ mem[k].text = e.text}

\* What is known under the proposed key stands against the capture.
KeyObjects_NotIfDifferent(e, c) ==
  /\ Exists(e.key)
  /\ IF mem[e.key].archived THEN ~Explicit(c)
     ELSE mem[e.key].text.val = e.text.val /\ Trailers(c.body).rels = {}

KeyObjects(e, c) ==
  /\ Exists(e.key)
  /\ IF mem[e.key].archived THEN ~Explicit(c)
     ELSE IF mem[e.key].text.val = e.text.val THEN Trailers(c.body).rels = {}
     ELSE ~Explicit(c)

Assess(h) ==
  LET c == hook[h].commit
      e == Proposed(c)
      decide(x) == hook' = [hook EXCEPT ![h].pc = "sessions", ![h].entity = x, ![h].alone = TRUE]
  IN /\ At(h, "assess")
     /\ IF e = NoEntity \/ (~Explicit(c) /\ Transient(c)) \/ KeyObjects(e, c)
        THEN decide(NoEntity)
        ELSE \/ Duplicates(e) \subseteq {e.key} /\ decide(e)
             \/ e.key \in Duplicates(e) /\ decide(e)
             \/ Duplicates(e) \ {e.key} # {} /\ decide(NoEntity)
     /\ UNCHANGED <<vars, head, heads, runs, overlapped>>

\* session_list(20): all that the ring holds.
Recorded_Newest(c) == sessions # <<>> /\ Head(sessions) = c.id

Recorded(c) == \E i \in DOMAIN sessions : sessions[i] = c.id

LookForSession(h) ==
  /\ At(h, "sessions")
  /\ hook' = [hook EXCEPT ![h].pc = "capture", ![h].recorded = Recorded(hook[h].commit)]
  /\ UNCHANGED <<vars, head, heads, runs, overlapped>>

----------------------------------------------------------------------------
(* The rest of run_post_commit.                                            *)

Entity(h) == [key |-> hook[h].entity.key, text |-> hook[h].entity.text,
              anchor |-> hook[h].files, rels |-> Trailers(hook[h].commit.body).rels]

\* A supersedes trailer may name what is not there or close a cycle.
Refused(c) ==
  \E r \in c.rels : r[1] = "supersedes" /\ (r[2] = c.key \/ ~Exists(r[2]) \/ Reaches(r[2], c.key))

Capture(h) ==
  LET x == IF hook[h].recorded THEN NoSession ELSE hook[h].commit.id
      next == IF hook[h].deleted # {} THEN "scan" ELSE "done"
  IN /\ At(h, "capture")
     /\ \/ /\ hook[h].entity # NoEntity /\ ~Refused(Entity(h))
           /\ CaptureEntity(Entity(h), x)
           /\ hook' = [Others(h) EXCEPT ![h].pc = next]
        \/ /\ hook[h].entity # NoEntity /\ Refused(Entity(h))
           /\ hook' = [hook EXCEPT ![h] = Idle]
           /\ UNCHANGED vars
        \/ /\ hook[h].entity = NoEntity /\ x # NoSession
           /\ SessionAdd(x)
           /\ To(h, next)
        \/ /\ hook[h].entity = NoEntity /\ x = NoSession
           /\ To(h, next)
           /\ UNCHANGED vars
     /\ UNCHANGED <<head, heads, runs, overlapped>>

\* clean_deleted_files, one cleaner at a time.
Scan(h) ==
  /\ At(h, "scan")
  /\ ScanZombies(hook[h].deleted)
  /\ To(h, IF zombies' = {} THEN "done" ELSE "repair")
  /\ UNCHANGED <<head, heads, runs, overlapped>>

Repair(h) ==
  /\ At(h, "repair")
  /\ \E later \in BOOLEAN : RepairZombies(later)
  /\ hook' = [Others(h) EXCEPT ![h].pc = "done"]
  /\ UNCHANGED <<head, heads, runs, overlapped>>

Done(h) ==
  /\ At(h, "done")
  /\ hook' = [hook EXCEPT ![h] = Idle]
  /\ UNCHANGED <<vars, head, heads, runs, overlapped>>

\* A run is killed, or a call of it fails.
Crash(h) ==
  /\ ~At(h, "idle")
  /\ hook' = [hook EXCEPT ![h] = Idle]
  /\ IF At(h, "repair") THEN DropReport ELSE UNCHANGED vars
  /\ UNCHANGED <<head, heads, runs, overlapped>>

----------------------------------------------------------------------------
GitCommit(c) ==
  /\ heads < MaxHeads
  /\ head' = c
  /\ heads' = heads + 1
  /\ UNCHANGED <<vars, hook, runs, overlapped>>

\* Commands and servers on the same store; no user records a session in the
\* words of a commit.
OtherWriter ==
  /\ \/ \E b \in Batches : SetBatch(b)
     \/ \E k \in Keys, r \in UserReasons : Archive(k, r, FALSE)
     \/ \E k \in Keys : Del(k)
     \/ \E x \in Summaries \ Ids : SessionAdd(x)
  /\ hook' = [g \in Hooks |-> [hook[g] EXCEPT !.alone = FALSE]]
  /\ UNCHANGED <<head, heads, runs, overlapped>>

HookInit ==
  /\ Init
  /\ head \in GitCommits
  /\ hook = [h \in Hooks |-> Idle]
  /\ heads = 0 /\ runs = 0
  /\ overlapped = FALSE

HookNext ==
  \/ \E h \in Hooks :
       \/ Log(h) \/ DiffDeleted(h) \/ DiffModified(h) \/ Assess(h) \/ LookForSession(h)
       \/ Capture(h) \/ Scan(h) \/ Repair(h) \/ Done(h) \/ Crash(h)
  \/ \E c \in GitCommits : GitCommit(c)
  \/ OtherWriter

HookSpec == HookInit /\ [][HookNext]_<<vars, hookVars>>

----------------------------------------------------------------------------
(* Correctness.                                                            *)

ArchivedFor(k, row) == [row EXCEPT !.archived = TRUE, !.reason = k]

\* A capture that the commit did not ask for changes the words of no memory
\* and revives none, unless someone wrote after the run looked: its key is
\* new, or is an active memory with the same value that gets the relations
\* of the trailers (and the anchor and kind of this commit).  It says nothing
\* again that another active memory says, unless its key said so before.  The
\* other memories stay as they are, but for those that a Supersedes trailer
\* names, which are archived with their content (hook.rs:117-141, "skips
\* duplicate memories", README.md:208; "the target is archived", README.md:176).
AutomaticCapturesOnlyAdd ==
  [][\A h \in Hooks :
       At(h, "capture") /\ hook'[h].pc \in {"scan", "done"} /\ hook[h].alone
         /\ ~Explicit(hook[h].commit) /\ mem' # mem =>
         LET k == hook[h].entity.key
             rs == Trailers(hook[h].commit.body).rels
         IN /\ Exists(k) => ~mem[k].archived /\ mem'[k].text.val = mem[k].text.val
            /\ \A j \in Keys \ {k} :
                 /\ \/ mem'[j] = mem[j]
                    \/ /\ <<"supersedes", j>> \in rs /\ Exists(j) /\ ~mem[j].archived
                       /\ mem'[j] = ArchivedFor(k, mem[j])
                 /\ Exists(j) /\ ~mem[j].archived /\ mem[j].text = mem'[k].text =>
                      Exists(k) /\ mem[k].text = mem'[k].text
    ]_<<vars, hookVars>>

\* However often the hook runs for a commit, the session ring names it once,
\* as long as one run follows another (hook.rs:749-759).
OneSessionPerCommit ==
  ~overlapped =>
    \A i, j \in DOMAIN sessions :
      i # j /\ sessions[i] = sessions[j] => sessions[i] \notin Ids

\* What a trailer states is in an active memory when its run is done, whether
\* the run captured it or found it, unless someone else wrote meanwhile or
\* the commit deletes files, whose memories the run archives at its end
\* ("state durable content explicitly", README.md:208).
Stated(h) ==
  /\ hook[h].alone /\ hook[h].deleted = {}
  /\ Trailers(hook[h].commit.body).kind # NoKind

StatedContentIsKept ==
  \A h \in Hooks :
    At(h, "done") /\ Stated(h) =>
      \E k \in Keys : /\ Exists(k) /\ ~mem[k].archived
                    /\ mem[k].text.val = Proposed(hook[h].commit).text.val
=============================================================================
