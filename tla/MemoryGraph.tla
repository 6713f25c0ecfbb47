---------------------------- MODULE MemoryGraph ----------------------------
(***************************************************************************)
(* The SQLite store of agent-mem (src/store): memories, the tables derived *)
(* from them (full text, anchor routes, trust metadata), the relation      *)
(* graph, the revision history, the session ring, the store generation and *)
(* the semantic dirty flag.  Every action is one committed transaction,    *)
(* except the anchor cleaner, which scans outside the transaction that     *)
(* repairs (graph.rs, clean_zombies).                                      *)
(*                                                                         *)
(* A memory is its text (value and kind together), its anchor (the set of  *)
(* files it names), whether it is archived and the archive reason.  Times  *)
(* are left out, except that archiving an archived memory again writes a   *)
(* new archived_at when the clock has moved (the `later' parameters).      *)
(***************************************************************************)
EXTENDS Naturals, Sequences

CONSTANTS
  Keys,         \* memory keys
  Texts,        \* values with their kind
  Files,        \* files an anchor can name
  UserReasons,  \* archive reasons a user gives
  RelTypes,     \* relation types, "supersedes" among them
  Summaries,    \* session summaries
  NoMemory,     \* no row for this key
  NoReason,     \* archive_reason IS NULL
  FileDeleted,  \* archive_reason "file_deleted: ..."
  NoRel,        \* a batch rule without a relation
  NoSession,    \* capture_commit with an empty summary
  Batches,      \* inputs of set_batch: functions from keys to rules
  Commits,      \* entities the post-commit hook captures
  Routed,       \* the files of an anchor that get routes (its first eight)
  ImportFiles,  \* parsed rules files
  RevCap,       \* revisions kept for a key (20 in the code)
  SessCap,      \* sessions kept (20 in the code)
  MaxGen        \* bound on the store generation, for model checking

\* A key as an archive reason stands for "superseded_by: <key>".
Reasons == UserReasons \cup Keys \cup {NoReason, FileDeleted}
Anchors == SUBSET Files
Row == [text: Texts, anchor: Anchors, archived: BOOLEAN, reason: Reasons]
FtsRow == [text: Texts, anchor: Anchors, reason: Reasons]
Trusts == {"local", "reviewed", "untrusted"}
NoMeta == "none"
Conflict == "conflict-resolved"
Rel == Keys \X RelTypes \X Keys
Rule == [text: Texts, anchor: Anchors, rel: (RelTypes \X Keys) \cup {NoRel}]
Commit == [key: Keys, text: Texts, anchor: Anchors, rels: SUBSET (RelTypes \X Keys)]
PartialOn(S) == UNION {[D -> S] : D \in SUBSET Keys}
ImportFile == [rules: PartialOn(Row), rels: SUBSET Rel, alts: PartialOn(Row)]
Revision == [row: Row, trust: Trusts \cup {NoMeta},
             change: {"updated", "deleted", "conflict"}]
Zombie == [key: Keys, missing: Anchors, remaining: Anchors]

ASSUME SentinelsAssumption ==
  /\ NoMemory \notin Row
  /\ NoRel \notin RelTypes \X Keys
  /\ NoSession \notin Summaries

ASSUME InputsAssumption ==
  /\ Batches \subseteq PartialOn(Rule)
  /\ Commits \subseteq Commit
  /\ ImportFiles \subseteq ImportFile
  /\ \A f \in ImportFiles : /\ DOMAIN f.alts \subseteq DOMAIN f.rules
                             /\ \A j, k \in DOMAIN f.alts : j = k

ASSUME RoutesAssumption ==
  Routed \in [Anchors -> Anchors] /\ \A x \in Anchors : Routed[x] \subseteq x

ASSUME BoundsAssumption == RevCap \in Nat /\ SessCap \in Nat /\ MaxGen \in Nat

VARIABLES
  mem,       \* memories: key -> row or NoMemory
  fts,       \* memories_fts: key -> rows with that key
  routes,    \* memory_routes: key -> files the route rows lead from
  meta,      \* memory_metadata.trust: key -> trust or NoMeta
  rels,      \* relations
  revs,      \* memory_revisions: key -> revisions, newest first
  sessions,  \* sessions, newest first
  gen,       \* store_generation
  dirty,     \* semantic_state.dirty, or no index built yet
  zombies,   \* reports of a cleaner between its scan and its repair
  imported   \* history variable: keys last written by an import and not
             \* reviewed or rewritten since

vars == <<mem, fts, routes, meta, rels, revs, sessions, gen, dirty, zombies, imported>>

----------------------------------------------------------------------------
(* The tables as functions of a change to memories.                        *)

Exists(k) == mem[k] # NoMemory
StoreEmpty == \A k \in Keys : ~Exists(k)

\* Prepend and prune to the newest cap: INSERT, then DELETE ... NOT IN
\* (SELECT ... ORDER BY id DESC LIMIT cap).
Ring_KeepsOneMore(s, x, cap) ==
  IF Len(s) <= cap THEN <<x>> \o s ELSE SubSeq(<<x>> \o s, 1, cap + 1)

Ring(s, x, cap) ==
  IF Len(s) < cap THEN <<x>> \o s ELSE SubSeq(<<x>> \o s, 1, cap)

\* The triggers memory_revision_on_update and memory_revision_on_delete.
\* `restamped' holds the keys whose archived_at alone changes.  The
\* metadata row is read as it is before the transaction rewrites it.
Revised_NotOnArchive(old, new, restamped, history) ==
  [k \in Keys |->
     IF old[k] # NoMemory /\ (new[k] = NoMemory \/ new[k].text # old[k].text)
     THEN Ring(history[k],
               [row |-> old[k], trust |-> meta[k],
                change |-> IF new[k] = NoMemory THEN "deleted" ELSE "updated"],
               RevCap)
     ELSE history[k]]

Revised(old, new, restamped, history) ==
  [k \in Keys |->
     IF old[k] # NoMemory /\ (new[k] # old[k] \/ k \in restamped)
     THEN Ring(history[k],
               [row |-> old[k], trust |-> meta[k],
                change |-> IF new[k] = NoMemory THEN "deleted" ELSE "updated"],
               RevCap)
     ELSE history[k]]

FtsRows(m) ==
  IF m = NoMemory THEN <<>>
  ELSE <<[text |-> m.text, anchor |-> m.anchor, reason |-> m.reason]>>

\* DELETE FROM memories_fts, then INSERT ... SELECT from memories.
FtsRefreshed_NoDelete(S, new) ==
  [k \in Keys |-> IF k \in S THEN fts[k] \o FtsRows(new[k]) ELSE fts[k]]

FtsRefreshed(S, new) == [k \in Keys |-> IF k \in S THEN FtsRows(new[k]) ELSE fts[k]]

\* The first load of an empty store inserts without the delete.
FtsAppended(S, new) == [k \in Keys |-> IF k \in S THEN fts[k] \o FtsRows(new[k]) ELSE fts[k]]

\* insert_memory_routes after DELETE FROM memory_routes, and without it.
RoutesReplaced_NoInsert(S, new) ==
  [k \in Keys |-> IF k \in S THEN {} ELSE routes[k]]

RoutesReplaced(S, new) ==
  [k \in Keys |-> IF k \in S THEN Routed[new[k].anchor] ELSE routes[k]]
RoutesAdded(S, new) ==
  [k \in Keys |-> IF k \in S THEN routes[k] \cup Routed[new[k].anchor] ELSE routes[k]]

\* A local write keeps a review and otherwise makes the record local.
LocalTrust_Promotes(t) == IF t = "none" THEN "local" ELSE "reviewed"

LocalTrust(t) == IF t = "reviewed" THEN "reviewed" ELSE "local"

\* A written row of memories or relations fires a generation trigger.
Bump == gen < MaxGen /\ gen' = gen + 1

MarkSemanticDirty_Skipped == UNCHANGED dirty

MarkSemanticDirty == dirty' = TRUE

\* del removes a relation whichever end the key is.
RelationsWithout_SourceOnly(k) == {e \in rels : e[1] # k}

RelationsWithout(k) == {e \in rels : e[1] # k /\ e[3] # k}

\* creates_cycle: the supersedes chain from x contains y (x # y).
Reaches_OneHop(x, y) == <<x, "supersedes", y>> \in rels

Reaches(x, y) ==
  \A S \in SUBSET Keys :
    (/\ x \in S
     /\ \A e \in rels : e[2] = "supersedes" /\ e[1] \in S => e[3] \in S)
    => y \in S

----------------------------------------------------------------------------
Init ==
  /\ mem = [k \in Keys |-> NoMemory]
  /\ fts = [k \in Keys |-> <<>>]
  /\ routes = [k \in Keys |-> {}]
  /\ meta = [k \in Keys |-> NoMeta]
  /\ rels = {}
  /\ revs = [k \in Keys |-> <<>>]
  /\ sessions = <<>>
  /\ gen = 0
  /\ dirty = TRUE
  /\ zombies = {}
  /\ imported = {}

(* Store::set_batch_with_metadata with trust "local", the only trust its   *)
(* callers pass.  A batch that repeats a key acts as two batches in a row. *)
SetBatch(b) ==
  LET S == DOMAIN b
      new == [k \in Keys |->
                IF k \in S
                THEN [text |-> b[k].text, anchor |-> b[k].anchor,
                      archived |-> FALSE, reason |-> NoReason]
                ELSE mem[k]]
  IN /\ S # {}
     /\ Bump
     /\ mem' = new
     /\ revs' = Revised(mem, new, {}, revs)
     /\ fts' = IF StoreEmpty THEN FtsAppended(S, new) ELSE FtsRefreshed(S, new)
     /\ routes' = IF StoreEmpty THEN RoutesAdded(S, new) ELSE RoutesReplaced(S, new)
     /\ meta' = [k \in Keys |-> IF k \in S THEN LocalTrust(meta[k]) ELSE meta[k]]
     /\ rels' = rels \cup {<<k, b[k].rel[1], b[k].rel[2]>> :
                             k \in {x \in S : b[x].rel # NoRel}}
     /\ MarkSemanticDirty
     /\ imported' = imported \ S
     /\ UNCHANGED <<sessions, zombies>>

(* Store::archive: also rewrites the reason of an archived memory.         *)
Archive(k, r, later) ==
  LET new == [mem EXCEPT ![k].archived = TRUE, ![k].reason = r]
  IN /\ Exists(k)
     /\ later => mem[k].archived
     /\ Bump
     /\ mem' = new
     /\ revs' = Revised(mem, new, IF later THEN {k} ELSE {}, revs)
     /\ fts' = FtsRefreshed({k}, new)
     /\ MarkSemanticDirty
     /\ UNCHANGED <<routes, meta, rels, sessions, zombies, imported>>

(* Store::unarchive.                                                       *)
Unarchive(k) ==
  LET new == [mem EXCEPT ![k].archived = FALSE, ![k].reason = NoReason]
  IN /\ Exists(k)
     /\ Bump
     /\ mem' = new
     /\ revs' = Revised(mem, new, {}, revs)
     /\ fts' = FtsRefreshed({k}, new)
     /\ MarkSemanticDirty
     /\ UNCHANGED <<routes, meta, rels, sessions, zombies, imported>>

(* Store::del: the memory, its derived rows and every relation it touches. *)
Del(k) ==
  LET new == [mem EXCEPT ![k] = NoMemory]
  IN /\ Exists(k)
     /\ Bump
     /\ mem' = new
     /\ revs' = Revised(mem, new, {}, revs)
     /\ fts' = FtsRefreshed({k}, new)
     /\ routes' = [routes EXCEPT ![k] = {}]
     /\ meta' = [meta EXCEPT ![k] = NoMeta]
     /\ rels' = RelationsWithout(k)
     /\ MarkSemanticDirty
     /\ imported' = imported \ {k}
     /\ UNCHANGED <<sessions, zombies>>

\* Archive the active targets of supersedes edges from s.
Superseded(m, s, targets) ==
  [k \in Keys |->
     IF k \in targets /\ m[k] # NoMemory /\ ~m[k].archived
     THEN [m[k] EXCEPT !.archived = TRUE, !.reason = s]
     ELSE m[k]]

(* Store::relate: both endpoints exist; a supersedes edge may not close a  *)
(* cycle and archives its target.                                          *)
Relate(s, ty, t) ==
  LET targets == IF ty = "supersedes" THEN {t} ELSE {}
      new == Superseded(mem, s, targets)
  IN /\ Exists(s) /\ Exists(t)
     /\ ty = "supersedes" => s # t /\ ~Reaches(t, s)
     /\ mem' = new
     /\ revs' = Revised(mem, new, {}, revs)
     /\ fts' = FtsRefreshed(targets, new)
     /\ rels' = rels \cup {<<s, ty, t>>}
     /\ IF new = mem /\ <<s, ty, t>> \in rels THEN UNCHANGED gen ELSE Bump
     /\ IF targets # {} THEN MarkSemanticDirty ELSE UNCHANGED dirty
     /\ UNCHANGED <<routes, meta, sessions, zombies, imported>>

(* Store::unrelate.                                                        *)
Unrelate_NoTrigger(e) ==
  /\ e \in rels
  /\ rels' = rels \ {e}
  /\ UNCHANGED <<mem, fts, routes, meta, revs, sessions, gen, dirty, zombies, imported>>

Unrelate(e) ==
  /\ e \in rels
  /\ Bump
  /\ rels' = rels \ {e}
  /\ UNCHANGED <<mem, fts, routes, meta, revs, sessions, dirty, zombies, imported>>

(* Store::set_trust, reached from the command line only.                   *)
SetTrust(k, t) ==
  /\ meta[k] # NoMeta
  /\ meta' = [meta EXCEPT ![k] = t]
  /\ imported' = IF t = "reviewed" THEN imported \ {k} ELSE imported
  /\ UNCHANGED <<mem, fts, routes, rels, revs, sessions, gen, dirty, zombies>>

(* Store::session_add.                                                     *)
SessionAdd(x) ==
  /\ sessions' = Ring(sessions, x, SessCap)
  /\ UNCHANGED <<mem, fts, routes, meta, rels, revs, gen, dirty, zombies, imported>>

(* Store::capture_commit with an entity: upsert it, relate it, record the  *)
(* session, all or nothing.  The hook gives every relation the captured    *)
(* key as its source, so the order of the relations does not matter.       *)
CaptureEntity(c, x) ==
  LET targets == {r[2] : r \in {p \in c.rels : p[1] = "supersedes"}}
      upserted == [mem EXCEPT ![c.key] =
                     [text |-> c.text, anchor |-> c.anchor,
                      archived |-> FALSE, reason |-> NoReason]]
      new == Superseded(upserted, c.key, targets)
  IN /\ \A t \in targets : t # c.key /\ Exists(t) /\ ~Reaches(t, c.key)
     /\ Bump
     /\ mem' = new
     /\ revs' = Revised(mem, new, {}, revs)
     /\ fts' = FtsRefreshed(targets \cup {c.key}, new)
     /\ routes' = RoutesReplaced({c.key}, new)
     /\ meta' = [meta EXCEPT ![c.key] = LocalTrust(@)]
     /\ rels' = rels \cup {<<c.key, r[1], r[2]>> : r \in c.rels}
     /\ sessions' = IF x = NoSession THEN sessions ELSE Ring(sessions, x, SessCap)
     /\ MarkSemanticDirty
     /\ imported' = imported \ {c.key}
     /\ UNCHANGED zombies

----------------------------------------------------------------------------
(* Store::clean_zombies and clean_deleted_files: the scan reads the active *)
(* memories, the repair is a later transaction that trusts the report.     *)

ScanZombies(missing) ==
  /\ zombies = {}
  /\ zombies' = {[key |-> k, missing |-> mem[k].anchor \cap missing,
                  remaining |-> mem[k].anchor \ missing] :
                   k \in {x \in Keys : /\ Exists(x)
                                       /\ ~mem[x].archived
                                       /\ mem[x].anchor \cap missing # {}}}
  /\ UNCHANGED <<mem, fts, routes, meta, rels, revs, sessions, gen, dirty, imported>>

RepairedRow(m, z) ==
  IF z.remaining = {} THEN [m EXCEPT !.archived = TRUE, !.reason = FileDeleted]
  ELSE [m EXCEPT !.anchor = z.remaining]

RepairZombies(later) ==
  LET reported == {z.key : z \in zombies}
      report(k) == CHOOSE z \in zombies : z.key = k
      new == [k \in Keys |-> IF k \in reported /\ Exists(k)
                             THEN RepairedRow(mem[k], report(k)) ELSE mem[k]]
      restamped == IF later THEN {k \in reported : /\ Exists(k)
                                                   /\ mem[k].archived
                                                   /\ report(k).remaining = {}}
                   ELSE {}
  IN /\ zombies # {}
     /\ mem' = new
     /\ revs' = Revised(mem, new, restamped, revs)
     /\ fts' = FtsRefreshed(reported, new)
     /\ routes' = [k \in Keys |-> IF k \in reported /\ report(k).remaining # {}
                                  THEN Routed[report(k).remaining] ELSE routes[k]]
     /\ IF \E k \in reported : Exists(k) THEN Bump ELSE UNCHANGED gen
     /\ MarkSemanticDirty
     /\ zombies' = {}
     /\ UNCHANGED <<meta, rels, sessions, imported>>

\* A dry run only tells what it found; a cleaner that is killed or fails
\* before its commit repairs nothing either.
DropReport ==
  /\ zombies # {}
  /\ zombies' = {}
  /\ UNCHANGED <<mem, fts, routes, meta, rels, revs, sessions, gen, dirty, imported>>

----------------------------------------------------------------------------
(* The transaction of Store::sync_with_file_mode for a parsed file.  alts  *)
(* holds the overridden definition of a key the file defines twice, at     *)
(* most one in a file; it is refused unless conflicts are accepted.        *)

\* Every conflict leaves an untrusted revision, before the triggers run.
ConflictsRecorded(f) ==
  [k \in Keys |-> IF k \in DOMAIN f.alts
                  THEN Ring(revs[k], [row |-> f.alts[k], trust |-> "untrusted",
                                      change |-> "conflict"], RevCap)
                  ELSE revs[k]]

ConflictSessions(f) ==
  IF DOMAIN f.alts = {} THEN sessions ELSE Ring(sessions, Conflict, SessCap)

\* An empty database: direct inserts, nothing deleted first.
SyncEmpty(f) ==
  LET S == DOMAIN f.rules
      new == [k \in Keys |-> IF k \in S THEN f.rules[k] ELSE NoMemory]
  IN /\ StoreEmpty
     /\ \A k \in S : meta[k] = NoMeta
     /\ IF S # {} \/ ~(f.rels \subseteq rels) THEN Bump ELSE UNCHANGED gen
     /\ mem' = new
     /\ revs' = ConflictsRecorded(f)
     /\ fts' = FtsAppended(S, new)
     /\ routes' = RoutesAdded(S, new)
     /\ meta' = [k \in Keys |-> IF k \in S THEN "untrusted" ELSE meta[k]]
     /\ rels' = rels \cup f.rels
     /\ imported' = imported \cup S

\* A written rule becomes untrusted whatever it was, a removed one loses
\* its metadata.
SyncedTrust_KeepsExisting(written, removed) ==
  [k \in Keys |-> IF k \in written /\ meta[k] = NoMeta THEN "untrusted"
                  ELSE IF k \in removed THEN NoMeta ELSE meta[k]]

SyncedTrust(written, removed) ==
  [k \in Keys |-> IF k \in written THEN "untrusted"
                  ELSE IF k \in removed THEN NoMeta ELSE meta[k]]

\* Otherwise only what differs is written, what the file lacks is deleted,
\* and the relations become the file's.
SyncDiff(f) ==
  LET S == DOMAIN f.rules
      new == [k \in Keys |-> IF k \in S THEN f.rules[k] ELSE NoMemory]
      written == {k \in S : mem[k] # f.rules[k]}
      removed == {k \in Keys \ S : Exists(k)}
  IN /\ ~StoreEmpty
     /\ IF new # mem \/ rels # f.rels THEN Bump ELSE UNCHANGED gen
     /\ mem' = new
     /\ revs' = Revised(mem, new, {}, ConflictsRecorded(f))
     /\ fts' = [k \in Keys |->
                  IF k \in written /\ ~Exists(k) THEN fts[k] \o FtsRows(new[k])
                  ELSE FtsRefreshed(written \cup removed, new)[k]]
     /\ routes' = [k \in Keys |->
                     IF k \in written
                     THEN (IF Exists(k) THEN {} ELSE routes[k]) \cup Routed[new[k].anchor]
                     ELSE IF k \in removed THEN {} ELSE routes[k]]
     /\ meta' = SyncedTrust(written, removed)
     /\ rels' = f.rels
     /\ imported' = (imported \cup written) \ removed

SyncImport(f, accept) ==
  /\ DOMAIN f.alts = {} \/ accept
  /\ SyncEmpty(f) \/ SyncDiff(f)
  /\ sessions' = ConflictSessions(f)
  /\ MarkSemanticDirty
  /\ UNCHANGED zombies

(* Store::semantic_rebuild, seen from the store: the flag is cleared.      *)
SemanticRebuild ==
  /\ dirty
  /\ dirty' = FALSE
  /\ UNCHANGED <<mem, fts, routes, meta, rels, revs, sessions, gen, zombies, imported>>

Next ==
  \/ \E b \in Batches : SetBatch(b)
  \/ \E k \in Keys, r \in UserReasons \cup {NoReason}, later \in BOOLEAN : Archive(k, r, later)
  \/ \E k \in Keys : Unarchive(k)
  \/ \E k \in Keys : Del(k)
  \/ \E s, t \in Keys, ty \in RelTypes : Relate(s, ty, t)
  \/ \E e \in rels : Unrelate(e)
  \/ \E k \in Keys, t \in {"reviewed", "untrusted"} : SetTrust(k, t)
  \/ \E x \in Summaries : SessionAdd(x)
  \/ \E c \in Commits, x \in Summaries \cup {NoSession} : CaptureEntity(c, x)
  \/ \E missing \in Anchors \ {{}} : ScanZombies(missing)
  \/ \E later \in BOOLEAN : RepairZombies(later)
  \/ DropReport
  \/ \E f \in ImportFiles, accept \in BOOLEAN : SyncImport(f, accept)
  \/ SemanticRebuild

Spec == Init /\ [][Next]_vars

----------------------------------------------------------------------------
(* Correctness.                                                            *)

\* Every table holds what its schema allows and the two rings never hold
\* more than their cap, however a write prunes them (schema.rs:394,
\* session.rs:33).
TypeOK ==
  /\ mem \in [Keys -> Row \cup {NoMemory}]
  /\ fts \in [Keys -> Seq(FtsRow)]
  /\ routes \in [Keys -> Anchors]
  /\ meta \in [Keys -> Trusts \cup {NoMeta}]
  /\ rels \subseteq Rel
  /\ revs \in [Keys -> Seq(Revision)]
  /\ \A k \in Keys : Len(revs[k]) <= RevCap
  /\ sessions \in Seq(Summaries \cup {Conflict})
  /\ Len(sessions) <= SessCap
  /\ gen \in Nat
  /\ dirty \in BOOLEAN
  /\ zombies \subseteq Zombie
  /\ \A y, z \in zombies : y.key = z.key => y = z
  /\ imported \subseteq Keys

\* The tables that are kept beside the memories agree with them whatever
\* shortcut wrote them.  The full-text index has exactly one row for a memory,
\* with its current text, anchor and reason: the paths that insert without
\* deleting (first load, sync of new keys) leave no second or stale row.  A
\* memory has its trust row and no such row outlives it: sync's fast path
\* inserts them with a plain INSERT, which a leftover row would make fail.
FtsMirrorsMemories == \A k \in Keys : fts[k] = FtsRows(mem[k])
MetadataMatches == \A k \in Keys : Exists(k) <=> meta[k] # NoMeta
TablesMirrorMemories == FtsMirrorsMemories /\ MetadataMatches

\* Retrieval by anchor finds every anchored memory: a route leads from each
\* file of its current anchor that gets one, after rewrites, cleaning and
\* syncs alike (graph.rs:561).
RoutesReachAnchors ==
  \A k \in Keys : Exists(k) => Routed[mem[k].anchor] \subseteq routes[k]

\* What a rules file brought in stays untrusted until someone reviews it or
\* writes the memory again: no archive, clean, relation or later sync
\* launders it.
ImportsStayQuarantined == \A k \in imported : meta[k] = "untrusted"

\* No memory supersedes itself through any number of steps: every nonempty
\* set of keys has one that supersedes none of the set.
AcyclicRels(R) ==
  \A S \in SUBSET Keys :
    S # {} => \E k \in S :
                \A e \in R : e[2] = "supersedes" /\ e[1] = k => e[3] \notin S

SupersedesAcyclic == AcyclicRels(rels)

\* A supersedes edge joins two memories that exist, whichever of the two is
\* deleted, synced away or captured again later.
SupersedesEndpointsExist ==
  \A e \in rels : e[2] = "supersedes" => Exists(e[1]) /\ Exists(e[3])

\* The inputs for which the two properties above can be promised: set_batch
\* and the import check nothing of the supersedes edges they insert.
GuardedInputs ==
  /\ \A b \in Batches : \A k \in DOMAIN b :
       b[k].rel # NoRel => b[k].rel[1] # "supersedes"
  /\ \A f \in ImportFiles :
       /\ AcyclicRels(f.rels)
       /\ \A e \in f.rels : e[2] = "supersedes" => {e[1], e[3]} \subseteq DOMAIN f.rules

\* Two states with the same generation hold the same memories and relations:
\* the sync's no-op check compares nothing else (sync.rs:483).
ContentBumpsGeneration ==
  [][(gen' = gen => mem' = mem /\ rels' = rels) /\ gen' >= gen]_vars

\* A write that changes what the semantic index embeds, the active memories
\* and their text, leaves the index marked dirty.
Corpus == [k \in {x \in Keys : Exists(x) /\ ~mem[x].archived} |-> mem[k].text]
DirtyCoversCorpus == [][Corpus' # Corpus => dirty']_vars

\* Trust becomes "reviewed" only by a step that changes nothing else
\* ("Only the local CLI can promote a record to `reviewed`",
\* THREAT_MODEL.md:34): no write, import, hook or repair promotes.
PromotionIsExplicit ==
  [][\A k \in Keys :
       meta[k] # "reviewed" /\ meta'[k] = "reviewed"
       => UNCHANGED <<mem, fts, routes, rels, revs, sessions, gen>>]_vars

\* The version of a memory that a step replaces, archives or deletes becomes
\* the newest revision with the trust it had, and what was newest before is
\* kept behind it as far as the cap allows (README.md:210).
HistoryStep ==
  RevCap > 0 =>
    \A k \in Keys :
      /\ Exists(k) /\ mem'[k] # mem[k] =>
           /\ revs'[k] # <<>>
           /\ revs'[k][1].row = mem[k]
           /\ revs'[k][1].trust = meta[k]
      /\ \E n \in 0..2 : /\ n <= Len(revs'[k])
                          /\ Len(revs'[k]) - n <= Len(revs[k])
                          /\ SubSeq(revs'[k], n + 1, Len(revs'[k])) =
                               SubSeq(revs[k], 1, Len(revs'[k]) - n)
                          /\ Len(revs'[k]) < RevCap
                               => Len(revs'[k]) = Len(revs[k]) + n

\* ... on every step (README.md:210).
HistoryComplete == [][HistoryStep]_vars
=============================================================================
