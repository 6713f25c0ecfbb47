------------------------- MODULE PostCommitProofs -------------------------
(***************************************************************************)
(* Proofs about PostCommit: what the runs of the hook know of the store    *)
(* between their look at it and their write, however they interleave with  *)
(* each other, with other writers, with git and with crashes.              *)
(***************************************************************************)
EXTENDS PostCommit, MemoryGraphProofs

Run == [pc : {"idle", "deleted", "modified", "assess", "sessions", "capture",
              "scan", "repair", "done"},
        commit : GitCommits \cup {NoCommit}, deleted : SUBSET Files, files : SUBSET Files,
        entity : Entities \cup {NoEntity}, recorded : BOOLEAN, alone : BOOLEAN]

----------------------------------------------------------------------------
(* What a run is about, and what it knows.                                 *)

\* A run that is under way is about a commit, the entity it has in hand is
\* the one that the commit proposes, and only a run of a commit that deletes
\* files cleans.
RunOk(r) ==
  /\ r.pc # "idle" => r.commit \in GitCommits
  /\ r.pc \in {"sessions", "capture"} /\ r.entity # NoEntity => r.entity = Proposed(r.commit)
  /\ r.pc \in {"scan", "repair"} => r.deleted # {}

\* Nothing speaks against capturing e for c.
Free(e, c) ==
  /\ ~KeyObjects(e, c)
  /\ Duplicates(e) \subseteq {e.key} \/ e.key \in Duplicates(e)

\* The store has what c states.
Stored(c) ==
  \E k \in Keys : /\ Exists(k) /\ ~mem[k].archived
                /\ mem[k].text.val = Proposed(c).text.val

HasTrailer(c) == Trailers(c.body).kind # NoKind

\* While no one else writes, what a run found when it looked is still so.
LookOk(r) ==
  /\ r.pc \in {"sessions", "capture"} /\ r.alone =>
       IF r.entity # NoEntity THEN Free(r.entity, r.commit)
       ELSE HasTrailer(r.commit) => Stored(r.commit)
  /\ r.pc = "done" /\ r.alone /\ r.deleted = {} /\ HasTrailer(r.commit) => Stored(r.commit)

RunsInv ==
  /\ head \in GitCommits
  /\ hook \in [Hooks -> Run]
  /\ mem = [k \in Keys |-> mem[k]]
  /\ \A h \in Hooks : RunOk(hook[h]) /\ LookOk(hook[h])

LEMMA SameStore ==
  ASSUME mem' = mem
  PROVE  /\ \A e, c : Free(e, c)' <=> Free(e, c)
         /\ \A c : Stored(c)' <=> Stored(c)
         /\ \A r : LookOk(r)' <=> LookOk(r)
<1>1. \A k : Exists(k)' <=> Exists(k)
  BY DEF Exists
<1>2. \A e, c : KeyObjects(e, c)' <=> KeyObjects(e, c)
  BY <1>1 DEF KeyObjects
<1>3. \A e : Duplicates(e)' = Duplicates(e)
  BY <1>1 DEF Duplicates
<1>4. \A e, c : Free(e, c)' <=> Free(e, c)
  BY <1>2, <1>3 DEF Free
<1>5. \A c : Stored(c)' <=> Stored(c)
  BY <1>1 DEF Stored
<1>6. \A r : LookOk(r)' <=> LookOk(r)
  BY <1>4, <1>5 DEF LookOk
<1> QED
  BY <1>4, <1>5, <1>6

LEMMA IdleOk ==
  Idle \in Run /\ Idle.pc = "idle" /\ (\A r : r = Idle => RunOk(r) /\ LookOk(r))
BY DEF Idle, Run, RunOk, LookOk

\* A step of one run that leaves the memories alone.
LEMMA RunStep ==
  ASSUME RunsInv, NEW h \in Hooks, NEW r \in Run, hook' = [hook EXCEPT ![h] = r],
         mem' = mem, head' = head, RunOk(r), LookOk(r)
  PROVE  RunsInv'
<1>1. hook' \in [Hooks -> Run] /\ \A g \in Hooks : hook'[g] = IF g = h THEN r ELSE hook[g]
  BY DEF RunsInv
<1>2. ASSUME NEW g \in Hooks, NEW q \in Run, q = hook'[g]
      PROVE  RunOk(q) /\ LookOk(q)'
  <2>1. RunOk(q) /\ LookOk(q)
    BY <1>1, <1>2 DEF RunsInv
  <2> QED
    BY <2>1, SameStore
<1>3. \A g \in Hooks : RunOk(hook[g])' /\ LookOk(hook[g])'
  BY <1>1, <1>2 DEF RunOk, LookOk
<1> QED
  BY <1>1, <1>3 DEF RunsInv

\* A write: no other run is alone after it.
LEMMA WriteStep ==
  ASSUME RunsInv, hook' \in [Hooks -> Run], head' = head, mem' = [k \in Keys |-> mem'[k]],
         \A g \in Hooks : \/ hook'[g] = [hook[g] EXCEPT !.alone = FALSE]
                          \/ RunOk(hook[g])' /\ LookOk(hook[g])'
  PROVE  RunsInv'
<1>1. ASSUME NEW g \in Hooks, hook'[g] = [hook[g] EXCEPT !.alone = FALSE]
      PROVE  RunOk(hook[g])' /\ LookOk(hook[g])'
  <2>1. hook[g] \in Run /\ RunOk(hook[g])
    BY DEF RunsInv
  <2>2. /\ hook'[g].alone = FALSE /\ hook'[g].pc = hook[g].pc
        /\ hook'[g].commit = hook[g].commit /\ hook'[g].entity = hook[g].entity
        /\ hook'[g].deleted = hook[g].deleted
    BY <1>1, <2>1 DEF Run
  <2> QED
    BY <2>1, <2>2 DEF RunOk, LookOk
<1> QED
  BY <1>1 DEF RunsInv

LEMMA HookStart == HookInit => RunsInv
<1> SUFFICES ASSUME HookInit PROVE RunsInv
  OBVIOUS
<1>1. mem = [k \in Keys |-> mem[k]]
  BY DEF HookInit, Init
<1>2. hook = [h \in Hooks |-> Idle] /\ head \in GitCommits
  BY DEF HookInit
<1> QED
  BY <1>1, <1>2, IdleOk DEF RunsInv

\* The asking of git.
LEMMA AskStep ==
  ASSUME RunsInv, NEW h \in Hooks, Log(h) \/ DiffDeleted(h) \/ DiffModified(h)
  PROVE  RunsInv'
<1>0. hook \in [Hooks -> Run] /\ hook[h] \in Run /\ head \in GitCommits /\ RunOk(hook[h])
  BY DEF RunsInv
<1>1. head.files \subseteq Files /\ head.deleted \subseteq Files
  BY <1>0, CommitsAssumption
<1>2. CASE Log(h)
  <2> DEFINE r == [Idle EXCEPT !.pc = "deleted", !.commit = head]
  <2>1. hook' = [hook EXCEPT ![h] = r] /\ mem' = mem /\ head' = head
    BY <1>2 DEF Log, vars
  <2>2. r \in Run /\ RunOk(r) /\ LookOk(r)
    BY <1>0 DEF Run, Idle, RunOk, LookOk
  <2> HIDE DEF r
  <2> QED
    BY <2>1, <2>2, RunStep
<1>3. CASE DiffDeleted(h)
  <2> DEFINE r == [hook[h] EXCEPT !.pc = "modified", !.deleted = head.deleted]
  <2>1. hook' = [hook EXCEPT ![h] = r] /\ mem' = mem /\ head' = head /\ hook[h].pc = "deleted"
    BY <1>3 DEF DiffDeleted, vars, At
  <2>2. r \in Run /\ r.pc = "modified" /\ r.commit = hook[h].commit
    BY <1>0, <1>1 DEF Run
  <2>3. RunOk(r) /\ LookOk(r)
    BY <1>0, <2>1, <2>2 DEF RunOk, LookOk
  <2> HIDE DEF r
  <2> QED
    BY <2>1, <2>2, <2>3, RunStep
<1>4. CASE DiffModified(h)
  <2> DEFINE r == [hook[h] EXCEPT !.pc = "assess", !.files = head.files \ hook[h].deleted]
  <2>1. hook' = [hook EXCEPT ![h] = r] /\ mem' = mem /\ head' = head /\ hook[h].pc = "modified"
    BY <1>4 DEF DiffModified, vars, At
  <2>2. r \in Run /\ r.pc = "assess" /\ r.commit = hook[h].commit
    BY <1>0, <1>1 DEF Run
  <2>3. RunOk(r) /\ LookOk(r)
    BY <1>0, <2>1, <2>2 DEF RunOk, LookOk
  <2> HIDE DEF r
  <2> QED
    BY <2>1, <2>2, <2>3, RunStep
<1> QED
  BY <1>2, <1>3, <1>4

\* What a run decides.
LEMMA AssessStep ==
  ASSUME RunsInv, NEW h \in Hooks, Assess(h)
  PROVE  RunsInv'
<1> DEFINE c == hook[h].commit
           e == Proposed(c)
           r(x) == [hook[h] EXCEPT !.pc = "sessions", !.entity = x, !.alone = TRUE]
<1>0. hook[h] \in Run /\ c \in GitCommits /\ mem' = mem /\ head' = head
  BY DEF RunsInv, RunOk, Assess, At, vars
<1>1. e \in Entities \cup {NoEntity} /\ (HasTrailer(c) => e # NoEntity)
  BY <1>0, CommitsAssumption DEF HasTrailer
<1>2. ASSUME NEW x \in {e, NoEntity}
      PROVE  /\ r(x) \in Run /\ r(x).pc = "sessions" /\ r(x).entity = x /\ r(x).commit = c
             /\ RunOk(r(x))
  <2>1. r(x) \in Run /\ r(x).pc = "sessions" /\ r(x).entity = x /\ r(x).commit = c
    BY <1>0, <1>1 DEF Run
  <2> HIDE DEF e, r, c
  <2>2. x # NoEntity => x = Proposed(c)
    BY DEF e
  <2> QED
    BY <1>0, <2>1, <2>2 DEF RunOk
<1>3. ASSUME e # NoEntity, Free(e, c), hook' = [hook EXCEPT ![h] = r(e)]
      PROVE  RunsInv'
  <2>1. LookOk(r(e))
    BY <1>2, <1>3 DEF LookOk
  <2> HIDE DEF e, r, c
  <2> QED
    BY <1>0, <1>2, <1>3, <2>1, RunStep
<1>4. ASSUME HasTrailer(c) => Stored(c), hook' = [hook EXCEPT ![h] = r(NoEntity)]
      PROVE  RunsInv'
  <2>1. LookOk(r(NoEntity))
    BY <1>2, <1>4 DEF LookOk
  <2> HIDE DEF e, r, c
  <2> QED
    BY <1>0, <1>2, <1>4, <2>1, RunStep
<1>5. CASE e = NoEntity \/ (~Explicit(c) /\ Transient(c)) \/ KeyObjects(e, c)
  <2>1. hook' = [hook EXCEPT ![h] = r(NoEntity)]
    BY <1>5 DEF Assess
  <2>2. ASSUME HasTrailer(c) PROVE Stored(c)
    <3>1. Explicit(c) /\ e # NoEntity
      BY <1>1, <2>2 DEF Explicit, HasTrailer
    <3>2. KeyObjects(e, c) /\ e.key \in Keys
      BY <1>1, <1>5, <3>1 DEF Entities
    <3> HIDE DEF e, c
    <3>3. Exists(e.key) /\ ~mem[e.key].archived /\ mem[e.key].text.val = e.text.val
      BY <3>1, <3>2 DEF KeyObjects
    <3> QED
      BY <3>2, <3>3 DEF Stored, e
  <2> QED
    BY <1>4, <2>1, <2>2
<1>6. CASE ~(e = NoEntity \/ (~Explicit(c) /\ Transient(c)) \/ KeyObjects(e, c))
  <2>1. \/ (Duplicates(e) \subseteq {e.key} \/ e.key \in Duplicates(e)) /\ hook' = [hook EXCEPT ![h] = r(e)]
        \/ Duplicates(e) \ {e.key} # {} /\ hook' = [hook EXCEPT ![h] = r(NoEntity)]
    BY <1>6 DEF Assess
  <2>2. Duplicates(e) \ {e.key} # {} => Stored(c)
    <3> HIDE DEF e, c
    <3> QED
      BY DEF Duplicates, Stored, e
  <2> HIDE DEF r
  <2> QED
    BY <1>3, <1>4, <1>6, <2>1, <2>2 DEF Free
<1> QED
  BY <1>5, <1>6

LEMMA LookStep ==
  ASSUME RunsInv, NEW h \in Hooks, LookForSession(h)
  PROVE  RunsInv'
<1> DEFINE r == [hook[h] EXCEPT !.pc = "capture", !.recorded = Recorded(hook[h].commit)]
<1>1. /\ hook' = [hook EXCEPT ![h] = r] /\ mem' = mem /\ head' = head
      /\ hook[h].pc = "sessions" /\ hook[h] \in Run /\ RunOk(hook[h]) /\ LookOk(hook[h])
  BY DEF LookForSession, At, vars, RunsInv
<1>2. /\ r \in Run /\ r.pc = "capture" /\ r.commit = hook[h].commit
      /\ r.entity = hook[h].entity /\ r.alone = hook[h].alone
  BY <1>1 DEF Run, Recorded
<1> HIDE DEF r
<1>3. RunOk(r) /\ LookOk(r)
  BY <1>1, <1>2 DEF RunOk, LookOk
<1> QED
  BY <1>1, <1>2, <1>3, RunStep

\* After a capture its memory is there, active and with its text.
LEMMA Captured ==
  ASSUME NEW c, NEW x, CaptureEntity(c, x), mem = [k \in Keys |-> mem[k]],
         c.key \in Keys, c.text \in Texts, c.anchor \in Anchors
  PROVE  /\ mem' = [k \in Keys |-> mem'[k]]
         /\ mem'[c.key] = [text |-> c.text, anchor |-> c.anchor,
                           archived |-> FALSE, reason |-> NoReason]
         /\ mem'[c.key] # NoMemory
<1> DEFINE targets == {r[2] : r \in {p \in c.rels : p[1] = "supersedes"}}
           row == [text |-> c.text, anchor |-> c.anchor, archived |-> FALSE, reason |-> NoReason]
           upserted == [mem EXCEPT ![c.key] = row]
<1>1. mem' = Superseded(upserted, c.key, targets) /\ c.key \notin targets
  BY DEF CaptureEntity
<1>2. row \in Row
  BY DEF Row, Reasons
<1>3. upserted[c.key] = row
  OBVIOUS
<1> HIDE DEF targets, row, upserted
<1>4. mem' = [k \in Keys |-> mem'[k]] /\ mem'[c.key] = row
  BY <1>1, <1>3 DEF Superseded
<1> QED
  BY <1>2, <1>4, SentinelsAssumption DEF row

LEMMA CaptureStep ==
  ASSUME RunsInv, NEW h \in Hooks, Capture(h)
  PROVE  RunsInv'
<1> DEFINE c == hook[h].commit
           next == IF hook[h].deleted # {} THEN "scan" ELSE "done"
           r == [hook[h] EXCEPT !.pc = next]
<1>0. /\ hook \in [Hooks -> Run] /\ hook[h] \in Run /\ RunOk(hook[h]) /\ LookOk(hook[h])
      /\ hook[h].pc = "capture" /\ c \in GitCommits /\ head' = head
      /\ mem = [k \in Keys |-> mem[k]]
  BY DEF Capture, RunsInv, At, RunOk
<1>1. /\ r \in Run /\ r.pc = next /\ r.commit = c /\ r.entity = hook[h].entity
      /\ r.alone = hook[h].alone /\ r.deleted = hook[h].deleted
  BY <1>0 DEF Run
<1>2. next \in {"scan", "done"} /\ (next = "scan" => hook[h].deleted # {})
  OBVIOUS
<1> HIDE DEF r, next
<1>3. RunOk(r)
  BY <1>0, <1>1, <1>2 DEF RunOk
<1>4. CASE /\ hook[h].entity # NoEntity
           /\ \E x : CaptureEntity(Entity(h), x)
           /\ hook' = [Others(h) EXCEPT ![h].pc = next]
  <2>1. hook[h].entity = Proposed(c) /\ Proposed(c) \in Entities
    BY <1>0, <1>4, CommitsAssumption DEF RunOk
  <2>2. /\ Entity(h).key \in Keys /\ Entity(h).text \in Texts /\ Entity(h).anchor \in Anchors
        /\ Entity(h).key = Proposed(c).key /\ Entity(h).text = Proposed(c).text
    BY <1>0, <2>1 DEF Entity, Entities, Run, Anchors
  <2> DEFINE n == Entity(h)
  <2>3. PICK x : CaptureEntity(n, x)
    BY <1>4
  <2> HIDE DEF n
  <2>4. /\ mem' = [k \in Keys |-> mem'[k]] /\ mem'[n.key] # NoMemory
        /\ mem'[n.key] = [text |-> n.text, anchor |-> n.anchor,
                          archived |-> FALSE, reason |-> NoReason]
    BY <1>0, <2>2, <2>3, Captured DEF n
  <2>5. \A q : q = c => Stored(q)'
    BY <2>2, <2>4 DEF Stored, Exists, n
  <2>6. /\ hook' \in [Hooks -> Run] /\ hook'[h] = r
        /\ \A g \in Hooks \ {h} : hook'[g] = [hook[g] EXCEPT !.alone = FALSE]
    <3>1. Others(h) \in [Hooks -> Run] /\ Others(h)[h] = hook[h]
      BY <1>0 DEF Others, Run
    <3>2. /\ hook' = [Others(h) EXCEPT ![h] = r]
      BY <1>4, <3>1 DEF r
    <3> QED
      BY <1>1, <3>1, <3>2 DEF Others
  <2>7. RunOk(hook[h])' /\ LookOk(hook[h])'
    BY <1>1, <1>2, <1>3, <2>5, <2>6 DEF RunOk, LookOk
  <2> QED
    BY <1>0, <2>4, <2>6, <2>7, WriteStep
<1>5. CASE hook' = [hook EXCEPT ![h] = Idle] /\ UNCHANGED vars
  BY <1>0, <1>5, IdleOk, RunStep DEF vars
<1>6. CASE hook[h].entity = NoEntity /\ To(h, next) /\ mem' = mem
  <2>1. LookOk(r)
    BY <1>0, <1>1, <1>2, <1>6 DEF LookOk
  <2>2. hook' = [hook EXCEPT ![h] = r]
    BY <1>6 DEF To, r
  <2> QED
    BY <1>0, <1>1, <1>3, <1>6, <2>1, <2>2, RunStep
<1> QED
  BY <1>4, <1>5, <1>6 DEF Capture, SessionAdd, vars, next

\* The cleaning.
LEMMA CleanStep ==
  ASSUME RunsInv, NEW h \in Hooks, Scan(h) \/ Repair(h)
  PROVE  RunsInv'
<1>0. /\ hook \in [Hooks -> Run] /\ hook[h] \in Run /\ RunOk(hook[h])
  BY DEF RunsInv
<1>1. CASE Scan(h)
  <2> DEFINE pc == IF zombies' = {} THEN "done" ELSE "repair"
             r == [hook[h] EXCEPT !.pc = pc]
  <2>1. pc \in {"done", "repair"}
    OBVIOUS
  <2>2. hook' = [hook EXCEPT ![h] = r] /\ mem' = mem /\ head' = head /\ hook[h].pc = "scan"
    BY <1>1 DEF Scan, To, At, ScanZombies
  <2> HIDE DEF pc
  <2>3. /\ r \in Run /\ r.pc = pc /\ r.commit = hook[h].commit
        /\ r.deleted = hook[h].deleted
    BY <1>0, <2>1 DEF Run
  <2> HIDE DEF r
  <2>4. RunOk(r) /\ LookOk(r)
    BY <1>0, <2>1, <2>2, <2>3 DEF RunOk, LookOk
  <2> QED
    BY <2>2, <2>3, <2>4, RunStep
<1>2. CASE Repair(h)
  <2> DEFINE r == [hook[h] EXCEPT !.pc = "done"]
  <2>1. /\ hook' = [Others(h) EXCEPT ![h].pc = "done"] /\ head' = head /\ hook[h].pc = "repair"
        /\ mem' = [k \in Keys |-> mem'[k]]
    BY <1>2 DEF Repair, At, RepairZombies
  <2>2. /\ r \in Run /\ r.pc = "done" /\ r.commit = hook[h].commit /\ r.deleted # {}
    BY <1>0, <2>1 DEF Run, RunOk
  <2>3. /\ hook' \in [Hooks -> Run] /\ hook'[h] = r
        /\ \A g \in Hooks \ {h} : hook'[g] = [hook[g] EXCEPT !.alone = FALSE]
    <3>1. Others(h) \in [Hooks -> Run] /\ Others(h)[h] = hook[h]
      BY <1>0 DEF Others, Run
    <3>2. /\ hook' = [Others(h) EXCEPT ![h] = r]
      BY <2>1, <3>1
    <3> HIDE DEF r
    <3> QED
      BY <2>2, <3>1, <3>2 DEF Others
  <2> HIDE DEF r
  <2>4. RunOk(hook[h])' /\ LookOk(hook[h])'
    BY <1>0, <2>1, <2>2, <2>3 DEF RunOk, LookOk
  <2> QED
    BY <2>1, <2>3, <2>4, WriteStep
<1> QED
  BY <1>1, <1>2

LEMMA OtherStep ==
  ASSUME RunsInv, OtherWriter
  PROVE  RunsInv'
<1>1. /\ hook' = [g \in Hooks |-> [hook[g] EXCEPT !.alone = FALSE]] /\ head' = head
      /\ hook \in [Hooks -> Run] /\ mem = [k \in Keys |-> mem[k]]
  BY DEF OtherWriter, RunsInv
<1>2. hook' \in [Hooks -> Run]
  BY <1>1 DEF Run
<1>3. mem' = [k \in Keys |-> mem'[k]]
  <2>1. ASSUME NEW b, SetBatch(b) PROVE mem' = [k \in Keys |-> mem'[k]]
    BY <2>1 DEF SetBatch
  <2>2. ASSUME NEW k \in Keys, NEW r, Archive(k, r, FALSE) PROVE mem' = [j \in Keys |-> mem'[j]]
    BY <1>1, <2>2 DEF Archive
  <2>3. ASSUME NEW k \in Keys, Del(k) PROVE mem' = [j \in Keys |-> mem'[j]]
    BY <1>1, <2>3 DEF Del
  <2>4. ASSUME NEW x, SessionAdd(x) PROVE mem' = [j \in Keys |-> mem'[j]]
    BY <1>1, <2>4 DEF SessionAdd
  <2> QED
    BY <2>1, <2>2, <2>3, <2>4 DEF OtherWriter
<1> QED
  BY <1>1, <1>2, <1>3, WriteStep

LEMMA HookStep == RunsInv /\ [HookNext]_<<vars, hookVars>> => RunsInv'
<1> SUFFICES ASSUME RunsInv, [HookNext]_<<vars, hookVars>> PROVE RunsInv'
  OBVIOUS
<1>1. ASSUME NEW h \in Hooks, Done(h) \/ Crash(h)
      PROVE  RunsInv'
  BY <1>1, IdleOk, RunStep DEF Done, Crash, DropReport, vars
<1>2. ASSUME mem' = mem, hook' = hook, head' \in GitCommits
      PROVE  RunsInv'
  <2>1. \A h \in Hooks : RunOk(hook[h])' /\ LookOk(hook[h])'
    BY <1>2, SameStore DEF RunsInv, RunOk, LookOk
  <2> QED
    BY <1>2, <2>1 DEF RunsInv
<1>3. ASSUME NEW c \in GitCommits, GitCommit(c)
      PROVE  RunsInv'
  BY <1>2, <1>3 DEF GitCommit, vars
<1>4. CASE UNCHANGED <<vars, hookVars>>
  BY <1>2, <1>4 DEF RunsInv, vars, hookVars
<1> QED
  BY <1>1, <1>3, <1>4, AskStep, AssessStep, LookStep, CaptureStep, CleanStep, OtherStep
     DEF HookNext

LEMMA RunsInvariance == HookSpec => []RunsInv
BY HookStart, HookStep, PTL DEF HookSpec

\* What a trailer states is in an active memory, its value at least, when a
\* run is done that no other writer disturbed since its look at the store and
\* whose commit deletes no file: for any commits, hooks and other writers.
THEOREM StatedCorrect == HookSpec => []StatedContentIsKept
<1>1. RunsInv => StatedContentIsKept
  BY DEF RunsInv, LookOk, Stored, HasTrailer, StatedContentIsKept, Stated, At
<1> QED
  BY <1>1, RunsInvariance, PTL

----------------------------------------------------------------------------
(* What a step does to the runs and to the session ring.                   *)

\* Run g goes on from capture, or did not come there by this step unless it
\* has just looked for its session.
Onward(g) ==
  /\ hook[g].pc = "idle" => hook'[g].pc = "idle"
  /\ hook'[g].pc = "capture" =>
       \/ /\ hook[g].pc = "capture"
          /\ hook'[g].recorded = hook[g].recorded /\ hook'[g].commit = hook[g].commit
       \/ LookForSession(g)
  /\ hook[g].pc = "capture" /\ hook'[g].pc \in {"scan", "done"} => Capture(g)

\* The ring as a step leaves it.
Rings ==
  \/ sessions' = sessions
  \/ \E x \in Summaries \ Ids : sessions' = Ring(sessions, x, SessCap)
  \/ \E h \in Hooks :
       /\ hook[h].pc = "capture" /\ hook'[h].pc # "capture"
       /\ ~hook[h].recorded
       /\ sessions' = Ring(sessions, hook[h].commit.id, SessCap)

LEMMA OwnStep ==
  ASSUME RunsInv, NEW h \in Hooks,
         \/ DiffDeleted(h) \/ DiffModified(h) \/ Assess(h) \/ LookForSession(h)
         \/ Scan(h) \/ Done(h) \/ Crash(h)
  PROVE  /\ \A g \in Hooks : Onward(g)
         /\ sessions' = sessions /\ overlapped' = overlapped
<1>0. hook \in [Hooks -> Run] /\ hook[h] \in Run
  BY DEF RunsInv
<1>1. sessions' = sessions /\ overlapped' = overlapped
  BY DEF DiffDeleted, DiffModified, Assess, LookForSession, Scan, Done, Crash, ScanZombies,
         DropReport, vars
<1> DEFINE Shape == \E r : /\ hook' = [hook EXCEPT ![h] = r]
                          /\ hook[h].pc # "idle"
                          /\ \/ r.pc \in {"modified", "assess", "sessions", "idle"}
                             \/ hook[h].pc = "scan" /\ r.pc \in {"done", "repair"}
                             \/ LookForSession(h)
<1>2. Shape
  <2>1. CASE DiffDeleted(h)
    <3> DEFINE r == [hook[h] EXCEPT !.pc = "modified", !.deleted = head.deleted]
    <3>1. hook' = [hook EXCEPT ![h] = r] /\ hook[h].pc = "deleted"
      BY <2>1 DEF DiffDeleted, At
    <3>2. r.pc = "modified"
      BY <1>0 DEF Run
    <3> QED
      BY <3>1, <3>2
  <2>2. CASE DiffModified(h)
    <3> DEFINE r == [hook[h] EXCEPT !.pc = "assess", !.files = head.files \ hook[h].deleted]
    <3>1. hook' = [hook EXCEPT ![h] = r] /\ hook[h].pc = "modified"
      BY <2>2 DEF DiffModified, At
    <3>2. r.pc = "assess"
      BY <1>0 DEF Run
    <3> QED
      BY <3>1, <3>2
  <2>3. CASE Assess(h)
    <3> DEFINE r(x) == [hook[h] EXCEPT !.pc = "sessions", !.entity = x, !.alone = TRUE]
    <3>1. (\E x : hook' = [hook EXCEPT ![h] = r(x)]) /\ hook[h].pc = "assess"
      BY <2>3 DEF Assess, At
    <3>2. \A x : r(x).pc = "sessions"
      BY <1>0 DEF Run
    <3> QED
      BY <3>1, <3>2
  <2>4. CASE LookForSession(h)
    <3> DEFINE r == [hook[h] EXCEPT !.pc = "capture", !.recorded = Recorded(hook[h].commit)]
    <3>1. hook' = [hook EXCEPT ![h] = r] /\ hook[h].pc = "sessions"
      BY <2>4 DEF LookForSession, At
    <3> QED
      BY <2>4, <3>1
  <2>5. CASE Scan(h)
    <3> DEFINE pc == IF zombies' = {} THEN "done" ELSE "repair"
               r == [hook[h] EXCEPT !.pc = pc]
    <3>1. hook' = [hook EXCEPT ![h] = r] /\ hook[h].pc = "scan" /\ pc \in {"done", "repair"}
      BY <2>5 DEF Scan, To, At
    <3> HIDE DEF pc
    <3>2. r.pc = pc
      BY <1>0 DEF Run
    <3> QED
      BY <3>1, <3>2
  <2>6. CASE Done(h) \/ Crash(h)
    <3>1. hook' = [hook EXCEPT ![h] = Idle] /\ hook[h].pc # "idle"
      BY <2>6 DEF Done, Crash, At
    <3>2. Idle.pc = "idle"
      BY DEF Idle
    <3> QED
      BY <3>1, <3>2
  <2> HIDE DEF Shape
  <2> QED
    BY <2>1, <2>2, <2>3, <2>4, <2>5, <2>6
<1>3. /\ hook[h].pc # "idle"
      /\ \A g \in Hooks \ {h} : hook'[g] = hook[g]
      /\ \/ hook'[h].pc \in {"modified", "assess", "sessions", "idle"}
         \/ hook[h].pc = "scan" /\ hook'[h].pc \in {"done", "repair"}
         \/ LookForSession(h)
  BY <1>0, <1>2
<1> HIDE DEF Shape
<1>4. LookForSession(h) => hook'[h].pc = "capture" /\ hook[h].pc = "sessions"
  BY <1>0 DEF LookForSession, At, Run
<1>5. Onward(h)
  BY <1>3, <1>4 DEF Onward
<1>6. \A g \in Hooks \ {h} : Onward(g)
  BY <1>3 DEF Onward
<1> QED
  BY <1>1, <1>5, <1>6

LEMMA OthersFacts ==
  ASSUME hook \in [Hooks -> Run], NEW h \in Hooks, NEW pc, hook' = [Others(h) EXCEPT ![h].pc = pc]
  PROVE  /\ hook'[h].pc = pc
         /\ \A g \in Hooks \ {h} : /\ hook'[g].pc = hook[g].pc
                                   /\ hook'[g].recorded = hook[g].recorded
                                   /\ hook'[g].commit = hook[g].commit
BY DEF Others, Run

LEMMA RepairShape ==
  ASSUME RunsInv, NEW h \in Hooks, Repair(h)
  PROVE  /\ \A g \in Hooks : Onward(g)
         /\ sessions' = sessions /\ overlapped' = overlapped
<1>1. /\ hook \in [Hooks -> Run] /\ hook[h].pc = "repair"
      /\ hook' = [Others(h) EXCEPT ![h].pc = "done"]
      /\ sessions' = sessions /\ overlapped' = overlapped
  BY DEF RunsInv, Repair, RepairZombies, At
<1>2. /\ hook'[h].pc = "done"
      /\ \A g \in Hooks \ {h} : /\ hook'[g].pc = hook[g].pc
                                /\ hook'[g].recorded = hook[g].recorded
                                /\ hook'[g].commit = hook[g].commit
  BY <1>1, OthersFacts
<1> QED
  BY <1>1, <1>2 DEF Onward

LEMMA CaptureShape ==
  ASSUME RunsInv, NEW h \in Hooks, Capture(h)
  PROVE  /\ \A g \in Hooks : Onward(g)
         /\ Rings /\ overlapped' = overlapped
<1> DEFINE next == IF hook[h].deleted # {} THEN "scan" ELSE "done"
           x == IF hook[h].recorded THEN NoSession ELSE hook[h].commit.id
<1>0. /\ hook \in [Hooks -> Run] /\ hook[h] \in Run /\ hook[h].pc = "capture"
      /\ overlapped' = overlapped
  BY DEF RunsInv, Capture, At
<1>1. next # "capture" /\ next # "idle"
  OBVIOUS
<1>2. \/ hook' = [Others(h) EXCEPT ![h].pc = next]
      \/ hook' = [hook EXCEPT ![h] = Idle]
      \/ hook' = [hook EXCEPT ![h].pc = next]
  BY DEF Capture, To
<1>3. sessions' = sessions \/ (x # NoSession /\ sessions' = Ring(sessions, x, SessCap))
  BY DEF Capture, CaptureEntity, SessionAdd, vars
<1> HIDE DEF next
<1>4. /\ hook'[h].pc \in {next, "idle"}
      /\ \A g \in Hooks \ {h} : /\ hook'[g].pc = hook[g].pc
                                /\ hook'[g].recorded = hook[g].recorded
                                /\ hook'[g].commit = hook[g].commit
  <2>1. CASE hook' = [Others(h) EXCEPT ![h].pc = next]
    BY <1>0, <2>1, OthersFacts
  <2>2. CASE hook' = [hook EXCEPT ![h] = Idle]
    BY <1>0, <2>2 DEF Idle
  <2>3. CASE hook' = [hook EXCEPT ![h].pc = next]
    BY <1>0, <2>3 DEF Run
  <2> QED
    BY <1>2, <2>1, <2>2, <2>3
<1>5. \A g \in Hooks : Onward(g)
  BY <1>0, <1>1, <1>4 DEF Onward
<1>6. Rings
  BY <1>0, <1>1, <1>3, <1>4 DEF Rings
<1> QED
  BY <1>0, <1>5, <1>6

LEMMA StepShape ==
  ASSUME RunsInv, [HookNext]_<<vars, hookVars>>
  PROVE  \/ \E h \in Hooks : Log(h)
         \/ /\ \A g \in Hooks : Onward(g)
            /\ Rings /\ overlapped' = overlapped
<1>1. ASSUME NEW c \in GitCommits, GitCommit(c)
      PROVE  (\A g \in Hooks : Onward(g)) /\ Rings /\ overlapped' = overlapped
  BY <1>1 DEF GitCommit, vars, Onward, Rings
<1>2. CASE UNCHANGED <<vars, hookVars>>
  BY <1>2 DEF vars, hookVars, Onward, Rings
<1>3. CASE OtherWriter
  <2>1. /\ hook' = [g \in Hooks |-> [hook[g] EXCEPT !.alone = FALSE]] /\ overlapped' = overlapped
        /\ hook \in [Hooks -> Run]
    BY <1>3 DEF OtherWriter, RunsInv
  <2>2. \A g \in Hooks : /\ hook'[g].pc = hook[g].pc
                         /\ hook'[g].recorded = hook[g].recorded
                         /\ hook'[g].commit = hook[g].commit
    BY <2>1 DEF Run
  <2>3. Rings
    BY <1>3 DEF OtherWriter, SetBatch, Archive, Del, SessionAdd, Rings
  <2> QED
    BY <2>1, <2>2, <2>3 DEF Onward
<1>4. sessions' = sessions => Rings
  BY DEF Rings
<1> QED
  BY <1>1, <1>2, <1>3, <1>4, OwnStep, RepairShape, CaptureShape DEF HookNext

----------------------------------------------------------------------------
(* The captures that no trailer asks for.                                  *)

\* A capture leaves the other memories as they are, but for those that it
\* supersedes, which keep their content.
LEMMA CapturedOthers ==
  ASSUME NEW c, NEW x, CaptureEntity(c, x), mem = [k \in Keys |-> mem[k]],
         c.rels \subseteq RelTypes \X Keys, NEW j \in Keys, j # c.key
  PROVE  \/ mem'[j] = mem[j]
         \/ /\ <<"supersedes", j>> \in c.rels /\ Exists(j) /\ ~mem[j].archived
            /\ mem'[j] = ArchivedFor(c.key, mem[j])
<1> DEFINE targets == {r[2] : r \in {p \in c.rels : p[1] = "supersedes"}}
           row == [text |-> c.text, anchor |-> c.anchor, archived |-> FALSE, reason |-> NoReason]
           upserted == [mem EXCEPT ![c.key] = row]
<1>1. mem' = Superseded(upserted, c.key, targets)
  BY DEF CaptureEntity
<1>2. j \in targets => <<"supersedes", j>> \in c.rels
  <2> SUFFICES ASSUME NEW r \in c.rels, r[1] = "supersedes", r[2] = j
               PROVE  <<"supersedes", j>> \in c.rels
    OBVIOUS
  <2>1. r = <<r[1], r[2]>>
    OBVIOUS
  <2> QED
    BY <2>1
<1>3. upserted[j] = mem[j]
  OBVIOUS
<1> HIDE DEF targets, row, upserted
<1>4. mem'[j] = IF j \in targets /\ mem[j] # NoMemory /\ ~mem[j].archived
                THEN [mem[j] EXCEPT !.archived = TRUE, !.reason = c.key]
                ELSE mem[j]
  BY <1>1, <1>3 DEF Superseded
<1> QED
  BY <1>2, <1>4 DEF Exists, ArchivedFor

LEMMA AutomaticStep ==
  ASSUME RunsInv, NEW h \in Hooks, Capture(h), hook[h].alone,
         ~Explicit(hook[h].commit), mem' # mem
  PROVE
         LET k == hook[h].entity.key
             rs == Trailers(hook[h].commit.body).rels
         IN /\ Exists(k) => ~mem[k].archived /\ mem'[k].text.val = mem[k].text.val
            /\ \A j \in Keys \ {k} :
                 /\ \/ mem'[j] = mem[j]
                    \/ /\ <<"supersedes", j>> \in rs /\ Exists(j) /\ ~mem[j].archived
                       /\ mem'[j] = ArchivedFor(k, mem[j])
                 /\ Exists(j) /\ ~mem[j].archived /\ mem[j].text = mem'[k].text =>
                      Exists(k) /\ mem[k].text = mem'[k].text
<1> DEFINE c == hook[h].commit
           e == hook[h].entity
           rs == Trailers(c.body).rels
<1>1. /\ hook[h] \in Run /\ hook[h].pc = "capture" /\ RunOk(hook[h]) /\ LookOk(hook[h])
      /\ mem = [k \in Keys |-> mem[k]]
  BY DEF RunsInv, Capture, At
<1>2. e # NoEntity /\ \E x : CaptureEntity(Entity(h), x)
  BY DEF Capture, SessionAdd, vars
<1>3. e \in Entities /\ Free(e, c)
  BY <1>1, <1>2 DEF LookOk, Run
<1>4. /\ Entity(h).key = e.key /\ Entity(h).text = e.text /\ Entity(h).anchor \in Anchors
      /\ Entity(h).rels = rs
  BY <1>1 DEF Entity, Run, Anchors
<1>5. rs \subseteq RelTypes \X Keys
  BY <1>1, CommitsAssumption DEF RunOk
<1>6. /\ mem'[e.key].text = e.text
      /\ \A j \in Keys \ {e.key} :
           \/ mem'[j] = mem[j]
           \/ /\ <<"supersedes", j>> \in rs /\ Exists(j) /\ ~mem[j].archived
              /\ mem'[j] = ArchivedFor(e.key, mem[j])
  <2> DEFINE n == Entity(h)
  <2>1. PICK x : CaptureEntity(n, x)
    BY <1>2
  <2>2. n.key \in Keys /\ n.text \in Texts /\ n.anchor \in Anchors
    BY <1>3, <1>4 DEF Entities
  <2> HIDE DEF n, e, c, rs
  <2>3. mem'[n.key] = [text |-> n.text, anchor |-> n.anchor, archived |-> FALSE, reason |-> NoReason]
    BY <1>1, <2>1, <2>2, Captured
  <2>4. \A j \in Keys : j # n.key =>
           \/ mem'[j] = mem[j]
           \/ /\ <<"supersedes", j>> \in n.rels /\ Exists(j) /\ ~mem[j].archived
              /\ mem'[j] = ArchivedFor(n.key, mem[j])
    BY <1>1, <1>4, <1>5, <2>1, CapturedOthers DEF n
  <2> QED
    BY <1>4, <2>3, <2>4 DEF n
<1> HIDE DEF c, e, rs
<1>7. ~Explicit(c) /\ ~KeyObjects(e, c)
  BY <1>3 DEF Free, c
<1>8. Exists(e.key) => ~mem[e.key].archived /\ mem[e.key].text.val = e.text.val
  BY <1>7 DEF KeyObjects
<1>9. ASSUME NEW j \in Keys \ {e.key}, Exists(j), ~mem[j].archived, mem[j].text = e.text
      PROVE  Exists(e.key) /\ mem[e.key].text = e.text
  <2>1. j \in Duplicates(e)
    BY <1>9 DEF Duplicates
  <2>2. e.key \in Duplicates(e)
    BY <1>3, <1>9, <2>1 DEF Free
  <2> QED
    BY <2>2 DEF Duplicates
<1> QED
  BY <1>6, <1>8, <1>9 DEF c, e, rs

\* A capture that the commit did not ask for, and that no one wrote before
\* since its look, changes the words of no memory, revives and repeats none,
\* and archives only what a Supersedes trailer names.
THEOREM AutomaticCorrect == HookSpec => AutomaticCapturesOnlyAdd
<1> DEFINE Step == \A h \in Hooks :
       At(h, "capture") /\ hook'[h].pc \in {"scan", "done"} /\ hook[h].alone
         /\ ~Explicit(hook[h].commit) /\ mem' # mem =>
         LET k == hook[h].entity.key
             rs == Trailers(hook[h].commit.body).rels
         IN /\ Exists(k) => ~mem[k].archived /\ mem'[k].text.val = mem[k].text.val
            /\ \A j \in Keys \ {k} :
                 /\ \/ mem'[j] = mem[j]
                    \/ /\ <<"supersedes", j>> \in rs /\ Exists(j) /\ ~mem[j].archived
                       /\ mem'[j] = ArchivedFor(k, mem[j])
                 /\ Exists(j) /\ ~mem[j].archived /\ mem[j].text = mem'[k].text =>
                      Exists(k) /\ mem[k].text = mem'[k].text
<1>1. RunsInv /\ [HookNext]_<<vars, hookVars>> => [Step]_<<vars, hookVars>>
  <2> SUFFICES ASSUME RunsInv, [HookNext]_<<vars, hookVars>>, NEW h \in Hooks,
                      At(h, "capture"), hook'[h].pc \in {"scan", "done"}, hook[h].alone,
                      ~Explicit(hook[h].commit), mem' # mem
               PROVE
         LET k == hook[h].entity.key
             rs == Trailers(hook[h].commit.body).rels
         IN /\ Exists(k) => ~mem[k].archived /\ mem'[k].text.val = mem[k].text.val
            /\ \A j \in Keys \ {k} :
                 /\ \/ mem'[j] = mem[j]
                    \/ /\ <<"supersedes", j>> \in rs /\ Exists(j) /\ ~mem[j].archived
                       /\ mem'[j] = ArchivedFor(k, mem[j])
                 /\ Exists(j) /\ ~mem[j].archived /\ mem[j].text = mem'[k].text =>
                      Exists(k) /\ mem[k].text = mem'[k].text
    OBVIOUS
  <2>1. ASSUME NEW g \in Hooks, Log(g) PROVE FALSE
    BY <2>1 DEF Log, vars
  <2>2. Capture(h)
    BY <2>1, StepShape DEF Onward, At
  <2> QED
    BY <2>2, AutomaticStep
<1> QED
  BY <1>1, RunsInvariance, PTL DEF HookSpec, AutomaticCapturesOnlyAdd

----------------------------------------------------------------------------
(* The session ring.                                                       *)

RingInv ==
  /\ sessions \in Seq(Summaries) /\ Len(sessions) <= SessCap
  /\ overlapped \in BOOLEAN
  /\ ~overlapped =>
       /\ \A g, h \in Hooks : g # h => hook[g].pc = "idle" \/ hook[h].pc = "idle"
       /\ \A h \in Hooks : hook[h].pc = "capture" /\ ~hook[h].recorded => ~Recorded(hook[h].commit)
       /\ OneSessionPerCommit

\* What is in a ring after a push: the new entry, and others one place on.
LEMMA RingEntries ==
  ASSUME NEW T, NEW s \in Seq(T), NEW x \in T, NEW cap \in Nat, Len(s) <= cap
  PROVE  /\ Len(Ring(s, x, cap)) \in Nat
         /\ \A i \in 1..Len(Ring(s, x, cap)) :
              \/ i = 1 /\ Ring(s, x, cap)[i] = x
              \/ i - 1 \in 1..Len(s) /\ Ring(s, x, cap)[i] = s[i - 1]
<1> DEFINE t == <<x>> \o s
<1>0. Len(s) \in Nat
  OBVIOUS
<1>1. /\ t \in Seq(T) /\ Len(t) = Len(s) + 1
      /\ \A i \in 1..Len(s) + 1 : t[i] = IF i = 1 THEN x ELSE s[i - 1]
  <2>1. <<x>> \in Seq(T) /\ Len(<<x>>) = 1 /\ <<x>>[1] = x
    OBVIOUS
  <2> QED
    BY <2>1, ConcatProperties
<1>2. CASE Len(s) < cap
  <2>1. Ring(s, x, cap) = t
    BY <1>2 DEF Ring
  <2> HIDE DEF t
  <2> QED
    BY <1>0, <1>1, <2>1
<1>3. CASE ~(Len(s) < cap)
  <2>1. cap = Len(s) /\ Ring(s, x, cap) = SubSeq(t, 1, cap)
    BY <1>0, <1>3 DEF Ring
  <2> HIDE DEF t
  <2>2. \A i \in 1..cap : t[i] \in T
    BY <1>0, <1>1, <2>1, ElementOfSeq
  <2>3. /\ Len(SubSeq(t, 1, cap)) = cap
        /\ \A i \in 1..cap : SubSeq(t, 1, cap)[i] = t[i]
    BY <1>0, <1>1, <2>1, <2>2, SubSeqProperties
  <2> QED
    BY <1>0, <1>1, <2>1, <2>3
<1> QED
  BY <1>2, <1>3
Once(s) == \A i, j \in 1..Len(s) : i # j /\ s[i] = s[j] => s[i] \notin Ids

Names(s, x) == \E i \in 1..Len(s) : s[i] = x

\* A push of what is no commit, or of a commit that is not there yet, leaves
\* every commit named once, and brings no other entry.
LEMMA PushedOnce ==
  ASSUME NEW T, NEW s \in Seq(T), NEW x \in T, NEW cap \in Nat, Len(s) <= cap,
         Once(s), x \in Ids => ~Names(s, x)
  PROVE  /\ Once(Ring(s, x, cap))
         /\ \A y : Names(Ring(s, x, cap), y) => y = x \/ Names(s, y)
<1> DEFINE t == Ring(s, x, cap)
<1>0. Len(s) \in Nat
  OBVIOUS
<1>1. /\ Len(t) \in Nat
      /\ \A i \in 1..Len(t) : \/ i = 1 /\ t[i] = x
                              \/ i - 1 \in 1..Len(s) /\ t[i] = s[i - 1]
  BY RingEntries
<1> HIDE DEF t
<1>2. ASSUME NEW i \in 1..Len(t), NEW j \in 1..Len(t), i # j, t[i] = t[j]
      PROVE  t[i] \notin Ids
  <2>1. CASE i # 1 /\ j # 1
    <3>1. /\ i - 1 \in 1..Len(s) /\ t[i] = s[i - 1]
          /\ j - 1 \in 1..Len(s) /\ t[j] = s[j - 1] /\ i - 1 # j - 1
      <4>1. i \in Int /\ j \in Int
        BY <1>1
      <4>2. i - 1 # j - 1
        BY <1>2, <4>1
      <4>3. i - 1 \in 1..Len(s) /\ t[i] = s[i - 1]
        BY <1>1, <2>1
      <4>4. j - 1 \in 1..Len(s) /\ t[j] = s[j - 1]
        BY <1>1, <2>1
      <4> QED
        BY <4>2, <4>3, <4>4
    <3> QED
      BY <1>2, <3>1 DEF Once
  <2>2. CASE i = 1 \/ j = 1
    <3>1. t[i] = x /\ Names(s, x)
      BY <1>0, <1>1, <1>2, <2>2 DEF Names
    <3> QED
      BY <3>1
  <2> QED
    BY <2>1, <2>2
<1>3. \A y : Names(t, y) => y = x \/ Names(s, y)
  BY <1>1 DEF Names
<1> QED
  BY <1>2, <1>3 DEF Once, t

LEMMA RingInvParts ==
  ASSUME sessions \in Seq(Summaries)
  PROVE  /\ OneSessionPerCommit <=> (~overlapped => Once(sessions))
         /\ \A c : Recorded(c) <=> Names(sessions, c.id)
<1>1. DOMAIN sessions = 1..Len(sessions)
  OBVIOUS
<1> QED
  BY <1>1 DEF OneSessionPerCommit, Once, Names, Recorded, Ids

LEMMA RingStart == HookInit => RingInv
<1> SUFFICES ASSUME HookInit PROVE RingInv
  OBVIOUS
<1>1. sessions = <<>> /\ overlapped = FALSE /\ hook = [h \in Hooks |-> Idle]
  BY DEF HookInit, Init
<1> DEFINE T == Summaries
<1>2. sessions \in Seq(T) /\ Len(sessions) = 0
  BY <1>1, EmptySeq
<1>3. \A h \in Hooks : hook[h].pc = "idle"
  BY <1>1 DEF Idle
<1>4. OneSessionPerCommit
  BY <1>1 DEF OneSessionPerCommit
<1>5. Len(sessions) <= SessCap /\ overlapped \in BOOLEAN
  <2>1. SessCap \in Nat
    BY BoundsAssumption
  <2>2. overlapped \in BOOLEAN
    BY <1>1
  <2>3. 0 <= SessCap
    BY <2>1
  <2> QED
    BY <1>2, <2>2, <2>3
<1>6. \A h \in Hooks : hook[h].pc # "capture"
  BY <1>3
<1> QED
  BY <1>2, <1>3, <1>4, <1>5, <1>6 DEF RingInv

LEMMA RingStep == RunsInv /\ RingInv /\ [HookNext]_<<vars, hookVars>> => RingInv'
<1> SUFFICES ASSUME RunsInv, RingInv, [HookNext]_<<vars, hookVars>> PROVE RingInv'
  OBVIOUS
<1> DEFINE T == Summaries
<1>0. /\ sessions \in Seq(T) /\ Len(sessions) <= SessCap /\ SessCap \in Nat
      /\ hook \in [Hooks -> Run]
      /\ \A h \in Hooks : RunOk(hook[h])
  BY BoundsAssumption DEF RingInv, RunsInv
<1>1. ASSUME NEW h \in Hooks, Log(h)
      PROVE  RingInv'
  <2> DEFINE r == [Idle EXCEPT !.pc = "deleted", !.commit = head]
  <2>1. /\ sessions' = sessions /\ hook' = [hook EXCEPT ![h] = r]
        /\ overlapped' = (overlapped \/ \E g \in Hooks \ {h} : ~At(g, "idle"))
    BY <1>1 DEF Log, vars
  <2>2. r.pc = "deleted"
    BY DEF Idle
  <2> HIDE DEF r
  <2>3. hook'[h].pc = "deleted" /\ \A g \in Hooks \ {h} : hook'[g] = hook[g]
    BY <1>0, <2>1, <2>2
  <2>4. ~overlapped' => ~overlapped /\ \A g \in Hooks \ {h} : hook'[g].pc = "idle"
    BY <2>1, <2>3 DEF At
  <2>5. overlapped' \in BOOLEAN
    BY <2>1 DEF RingInv
  <2>6. ~overlapped' => OneSessionPerCommit'
    BY <2>1, <2>4 DEF RingInv, OneSessionPerCommit
  <2> QED
    BY <1>0, <2>1, <2>3, <2>4, <2>5, <2>6 DEF RingInv
<1>2. ASSUME \A g \in Hooks : Onward(g), Rings, overlapped' = overlapped
      PROVE  RingInv'
  <2>1. sessions' \in Seq(T) /\ Len(sessions') <= SessCap
    <3>1. CASE sessions' = sessions
      BY <1>0, <3>1
    <3>2. ASSUME NEW x \in T, sessions' = Ring(sessions, x, SessCap)
          PROVE  sessions' \in Seq(T) /\ Len(sessions') <= SessCap
      <4> HIDE DEF T
      <4> QED
        BY <1>0, <3>2, RingType
    <3>3. \A h \in Hooks : hook[h].pc = "capture" => hook[h].commit.id \in T
      BY <1>0, CommitsAssumption DEF RunOk
    <3> QED
      BY <1>2, <3>1, <3>2, <3>3 DEF Rings
  <2>2. overlapped' \in BOOLEAN
    BY <1>2 DEF RingInv
  <2>3. SUFFICES ASSUME ~overlapped
                 PROVE  /\ \A g, h \in Hooks : g # h => hook'[g].pc = "idle" \/ hook'[h].pc = "idle"
                        /\ \A h \in Hooks : hook'[h].pc = "capture" /\ ~hook'[h].recorded
                                              => ~Names(sessions', hook'[h].commit.id)
                        /\ Once(sessions')
    <3>1. sessions' \in Seq(Summaries)
      BY <2>1
    <3>2. \A c : Recorded(c)' <=> Names(sessions', c.id)
      BY <3>1 DEF Names, Recorded
    <3>3. OneSessionPerCommit' <=> (~overlapped' => Once(sessions'))
      BY <3>1 DEF OneSessionPerCommit, Once, Ids
    <3> QED
      BY <1>2, <2>1, <2>2, <3>2, <3>3 DEF RingInv
  <2>4. /\ \A g, h \in Hooks : g # h => hook[g].pc = "idle" \/ hook[h].pc = "idle"
        /\ \A h \in Hooks : hook[h].pc = "capture" /\ ~hook[h].recorded
                              => ~Names(sessions, hook[h].commit.id)
        /\ Once(sessions)
    BY <1>0, <2>3, RingInvParts DEF RingInv
  <2>5. \A g, h \in Hooks : g # h => hook'[g].pc = "idle" \/ hook'[h].pc = "idle"
    BY <1>2, <2>4 DEF Onward
  <2>6. ASSUME NEW h \in Hooks, LookForSession(h), hook'[h].pc = "capture", ~hook'[h].recorded
        PROVE  sessions' = sessions /\ ~Names(sessions, hook'[h].commit.id)
    <3>1. sessions' = sessions
      BY <2>6 DEF LookForSession, vars
    <3>2. hook'[h].recorded = Recorded(hook[h].commit) /\ hook'[h].commit = hook[h].commit
      BY <1>0, <2>6 DEF LookForSession, Run
    <3> QED
      BY <1>0, <2>6, <3>1, <3>2, RingInvParts
  <2>7. CASE sessions' = sessions
    <3>1. ASSUME NEW h \in Hooks, hook'[h].pc = "capture", ~hook'[h].recorded
          PROVE  ~Names(sessions', hook'[h].commit.id)
      BY <1>2, <2>4, <2>6, <2>7, <3>1 DEF Onward
    <3> QED
      BY <2>4, <2>5, <2>7, <3>1
  <2>8. ASSUME NEW x \in T, sessions' = Ring(sessions, x, SessCap), sessions' # sessions,
               x \in Ids => ~Names(sessions, x),
               \A h \in Hooks : hook'[h].pc = "capture" /\ ~hook'[h].recorded
                                  => hook'[h].commit.id # x
        PROVE  /\ \A h \in Hooks : hook'[h].pc = "capture" /\ ~hook'[h].recorded
                                     => ~Names(sessions', hook'[h].commit.id)
               /\ Once(sessions')
    <3> HIDE DEF T
    <3>1. /\ Once(sessions')
          /\ \A y : Names(sessions', y) => y = x \/ Names(sessions, y)
      BY <1>0, <2>4, <2>8, PushedOnce
    <3>2. ASSUME NEW h \in Hooks, hook'[h].pc = "capture", ~hook'[h].recorded
          PROVE  ~Names(sessions', hook'[h].commit.id)
      <4>1. ~Names(sessions, hook'[h].commit.id)
        BY <1>2, <2>4, <2>6, <3>2 DEF Onward
      <4> QED
        BY <2>8, <3>1, <3>2, <4>1
    <3> QED
      BY <3>1, <3>2
  <2>9. ASSUME NEW x \in Summaries \ Ids, sessions' = Ring(sessions, x, SessCap), sessions' # sessions
        PROVE  /\ \A h \in Hooks : hook'[h].pc = "capture" /\ ~hook'[h].recorded
                                     => ~Names(sessions', hook'[h].commit.id)
               /\ Once(sessions')
    <3>1. x \notin Ids
      OBVIOUS
    <3>2. \A h \in Hooks : hook'[h].pc = "capture" /\ ~hook'[h].recorded => hook'[h].commit.id # x
      <4>1. \A h \in Hooks : hook'[h].pc = "capture" /\ ~hook'[h].recorded
               => hook[h].pc = "capture" /\ hook'[h].commit = hook[h].commit
        BY <1>2, <2>6, <2>9 DEF Onward
      <4> QED
        BY <1>0, <3>1, <4>1 DEF RunOk, Ids
    <3> QED
      BY <2>8, <2>9, <3>1, <3>2
  <2>10. ASSUME NEW h \in Hooks, hook[h].pc = "capture", hook'[h].pc # "capture",
                ~hook[h].recorded,
                sessions' = Ring(sessions, hook[h].commit.id, SessCap), sessions' # sessions
         PROVE  /\ \A g \in Hooks : hook'[g].pc = "capture" /\ ~hook'[g].recorded
                                      => ~Names(sessions', hook'[g].commit.id)
                /\ Once(sessions')
    <3>1. /\ hook[h].commit.id \in Ids /\ hook[h].commit.id \in T
          /\ ~Names(sessions, hook[h].commit.id)
      BY <1>0, <2>4, <2>10, CommitsAssumption DEF RunOk, Ids
    <3>2. \A g \in Hooks : hook'[g].pc # "capture"
      BY <1>2, <2>4, <2>10 DEF Onward
    <3> QED
      BY <2>8, <2>10, <3>1, <3>2
  <2> QED
    BY <1>2, <2>5, <2>7, <2>9, <2>10 DEF Rings
<1> QED
  BY <1>1, <1>2, StepShape

\* However often the hook runs for a commit, as long as its runs do not
\* overlap the ring names the commit once.
THEOREM SessionsCorrect == HookSpec => []OneSessionPerCommit
<1>1. RingInv => OneSessionPerCommit
  BY DEF RingInv, OneSessionPerCommit
<1> QED
  BY <1>1, RunsInvariance, RingStart, RingStep, PTL DEF HookSpec
----------------------------------------------------------------------------
(* The hook as a client of the store: whatever its runs and the writers    *)
(* beside them do, the store sees its own transactions.                    *)

LEMMA CaptureOfStore ==
  ASSUME RunsInv, NEW h \in Hooks, Capture(h)
  PROVE  Next \/ UNCHANGED vars
<1> DEFINE x == IF hook[h].recorded THEN NoSession ELSE hook[h].commit.id
<1>1. hook[h] \in Run /\ hook[h].commit \in GitCommits /\ RunOk(hook[h]) /\ hook[h].pc = "capture"
  BY DEF RunsInv, RunOk, Capture, At
<1>2. x \in Summaries \cup {NoSession}
  BY <1>1, CommitsAssumption
<1>3. ASSUME hook[h].entity # NoEntity PROVE Entity(h) \in Commits
  <2>1. hook[h].entity = Proposed(hook[h].commit) /\ hook[h].files \in Anchors
    BY <1>1, <1>3 DEF RunOk, Run, Anchors
  <2>2. Entity(h) \in Captures(hook[h].commit)
    BY <2>1 DEF Entity, Captures
  <2> QED
    BY <1>1, <1>3, <2>1, <2>2, CommitsAssumption
<1>4. \/ hook[h].entity # NoEntity /\ CaptureEntity(Entity(h), x)
      \/ x # NoSession /\ SessionAdd(x)
      \/ UNCHANGED vars
  BY DEF Capture
<1> HIDE DEF x
<1> QED
  BY <1>2, <1>3, <1>4 DEF Next

LEMMA HookStepOfStore == RunsInv /\ [HookNext]_<<vars, hookVars>> => [Next]_vars
<1> SUFFICES ASSUME RunsInv, [HookNext]_<<vars, hookVars>> PROVE Next \/ UNCHANGED vars
  OBVIOUS
<1>1. ASSUME NEW h \in Hooks,
             \/ Log(h) \/ DiffDeleted(h) \/ DiffModified(h) \/ Assess(h)
             \/ LookForSession(h) \/ Done(h)
      PROVE  UNCHANGED vars
  BY <1>1 DEF Log, DiffDeleted, DiffModified, Assess, LookForSession, Done
<1>2. ASSUME NEW h \in Hooks, Scan(h) PROVE Next
  <2>1. hook[h].deleted \in Anchors \ {{}} /\ ScanZombies(hook[h].deleted)
    BY <1>2 DEF RunsInv, RunOk, Run, Scan, At, Anchors
  <2> QED
    BY <2>1 DEF Next
<1>3. ASSUME NEW h \in Hooks, Repair(h) PROVE Next
  BY <1>3 DEF Repair, Next
<1>4. ASSUME NEW h \in Hooks, Crash(h) PROVE Next \/ UNCHANGED vars
  BY <1>4 DEF Crash, Next
<1>5. ASSUME NEW c \in GitCommits, GitCommit(c) PROVE UNCHANGED vars
  BY <1>5 DEF GitCommit
<1>6. ASSUME OtherWriter PROVE Next
  <2>1. ASSUME NEW k \in Keys, NEW r \in UserReasons, Archive(k, r, FALSE) PROVE Next
    BY <2>1 DEF Next
  <2> QED
    BY <1>6, <2>1 DEF OtherWriter, Next
<1>7. UNCHANGED <<vars, hookVars>> => UNCHANGED vars
  OBVIOUS
<1> QED
  BY <1>1, <1>2, <1>3, <1>4, <1>5, <1>6, <1>7, CaptureOfStore DEF HookNext

\* The hook keeps to the store's transactions: overlapping runs, moves of
\* HEAD, other writers and kills show to the store as a sequence of captures,
\* session records and cleanings that a single user could have asked for
\* (hook.rs, run_post_commit).
THEOREM HookImplementsStore == HookSpec => Spec
<1>1. HookInit => Init
  BY DEF HookInit
<1>2. RunsInv /\ [HookNext]_<<vars, hookVars>> => [Next]_vars
  BY HookStepOfStore
<1> QED
  BY <1>1, <1>2, RunsInvariance, PTL DEF HookSpec, Spec

\* So beside any number of runs of the hook the store keeps what it promises
\* alone: its types and caps, its derived tables, quarantine, generation,
\* dirty flag, trust and history.
THEOREM HookKeepsStore ==
  HookSpec => /\ [](TypeOK /\ TablesMirrorMemories /\ RoutesReachAnchors /\ ImportsStayQuarantined)
              /\ ContentBumpsGeneration
              /\ DirtyCoversCorpus
              /\ PromotionIsExplicit
              /\ HistoryComplete
BY HookImplementsStore, TypeCorrect, TablesCorrect, RoutesCorrect, QuarantineCorrect,
   GenerationCorrect, DirtyCorrect, PromotionCorrect, HistoryCorrect, PTL

\* And with guarded inputs no commit, whatever its supersedes trailers name,
\* closes a cycle or leaves an edge to a memory that is not there.
THEOREM HookKeepsGraph ==
  ASSUME GuardedInputs
  PROVE  HookSpec => [](SupersedesAcyclic /\ SupersedesEndpointsExist)
BY HookImplementsStore, GraphCorrect, PTL
=============================================================================
