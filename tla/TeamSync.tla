------------------------------ MODULE TeamSync ------------------------------
(***************************************************************************)
(* The shared rules file .agent-rules beside the SQLite store              *)
(* (src/store/sync.rs and the commands that call it).  Each process runs   *)
(* one command at a time.  A write commits, then exports the store to the  *)
(* file; a sync reads the file, then imports it.  Nothing locks the file   *)
(* or the store over a whole command, so a step here is one transaction,   *)
(* one query or one file operation.                                        *)
(*                                                                         *)
(* A rule is a key and a text that stands for its whole row as the file    *)
(* writes it (value, kind, anchor, archive mark and reason).  A relation   *)
(* is the pair of keys it joins, its type left out.  A file is the last    *)
(* definition of each key, the relations it lists, and the set of keys it  *)
(* also defines differently.                                               *)
(***************************************************************************)
EXTENDS Naturals

CONSTANTS
  Procs,     \* processes running a command: CLI, MCP server, git hooks
  Keys,      \* memory keys
  Texts,     \* rows as the file shows them
  Links,     \* relations: pairs of a source and a target
  NoRule,    \* no such memory
  NoFile,    \* .agent-rules does not exist
  NoState,   \* no row in _sync_state for the file
  GitFiles,  \* what git leaves at the path
  MaxGen,    \* bound on the writes: none at or past this generation
  MaxEdits,  \* bound on the times git changes the file
  MaxCrashes \* bound on interrupted or failed commands

Content == [Keys -> Texts \cup {NoRule}]
Stores == [rules: Content, links: SUBSET Links]
File == [rules: Content, links: SUBSET Links, alts: SUBSET Keys]
SyncState == [file: File, gen: Nat, accepted: BOOLEAN]
Idle == [pc |-> "idle"]

ASSUME TeamSyncAssumption ==
  /\ NoRule \notin Texts
  /\ Links \subseteq Keys \X Keys
  /\ NoFile \notin File
  /\ NoState \notin SyncState
  /\ GitFiles \subseteq File \cup {NoFile}
  /\ MaxGen \in Nat /\ MaxEdits \in Nat /\ MaxCrashes \in Nat

VARIABLES
  db,      \* memories and relations in the store
  gen,     \* store_generation
  file,    \* .agent-rules
  synced,  \* the file's row in _sync_state
  cmd,     \* what each process is doing
  spared,  \* history: relations that an import found in a store without
           \* memories, and that are there since
  hook,    \* git changed the file and hook has not started a sync yet
  edits, crashes \* counters of the bounds

vars == <<db, gen, file, synced, spared, cmd, hook, edits, crashes>>

----------------------------------------------------------------------------
\* export_rules_text: every memory and relation once, from one read snapshot.
Exported(d) == [rules |-> d.rules, links |-> d.links, alts |-> {}]

\* The `accepted:<generation>' form of db_state.
Matches(state, f, g, accepted) ==
  /\ state # NoState
  /\ state.file = f /\ state.gen = g /\ state.accepted = accepted

Becomes(p, c) == cmd' = [cmd EXCEPT ![p] = c]

Init ==
  /\ db = [rules |-> [k \in Keys |-> NoRule], links |-> {}]
  /\ gen = 0
  /\ file = NoFile
  /\ synced = NoState
  /\ spared = {}
  /\ cmd = [p \in Procs |-> Idle]
  /\ hook = FALSE
  /\ edits = 0
  /\ crashes = 0

(* The commands that write the store.  The triggers raise the generation   *)
(* when a row of a memory or a relation is written.                        *)

Exists(k) == db.rules[k] # NoRule

Wrote(p, d, bumps) ==
  /\ cmd[p] = Idle
  /\ db' = d
  /\ IF bumps THEN gen < MaxGen /\ gen' = gen + 1 ELSE UNCHANGED gen
  /\ Becomes(p, [pc |-> "written"])
  /\ spared' = spared \cap d.links
  /\ UNCHANGED <<file, synced, hook, edits, crashes>>

\* set, archive, unarchive, clean, a batch or a captured commit: rows of some
\* memories, and relations from them to targets nobody looks for.
Save(p, rows, new) ==
  Wrote(p, [rules |-> [k \in Keys |-> IF k \in DOMAIN rows THEN rows[k] ELSE db.rules[k]],
            links |-> db.links \cup new], TRUE)

\* del: the memory and what touches it.  A deletion of a missing key changes
\* nothing and exports all the same.
Del(p, k) ==
  Wrote(p, [rules |-> [db.rules EXCEPT ![k] = NoRule],
            links |-> IF Exists(k) THEN {l \in db.links : l[1] # k /\ l[2] # k} ELSE db.links],
        Exists(k))

\* relate: both ends exist, and the relation may archive its target.
Relate(p, l, v) ==
  /\ Exists(l[1]) /\ Exists(l[2])
  /\ LET d == [rules |-> [db.rules EXCEPT ![l[2]] = v], links |-> db.links \cup {l}]
     IN Wrote(p, d, d # db)

Unrelate(p, l) == Wrote(p, [db EXCEPT !.links = @ \ {l}], l \in db.links)

Write(p) ==
  \/ \E S \in SUBSET Keys \ {{}} : \E rows \in [S -> Texts] :
       \E new \in SUBSET {l \in Links : l[1] \in S} : Save(p, rows, new)
  \/ \E k \in Keys : Del(p, k)
  \/ \E l \in Links, v \in Texts : Relate(p, l, v)
  \/ \E l \in Links : Unrelate(p, l)

\* if rules_file.exists()
ShareIfFileExists_Never(p) ==
  /\ cmd[p].pc = "written"
  /\ Becomes(p, Idle)
  /\ UNCHANGED <<db, gen, file, synced, spared, hook, edits, crashes>>

ShareIfFileExists(p) ==
  /\ cmd[p].pc = "written"
  /\ Becomes(p, IF file = NoFile THEN Idle ELSE [pc |-> "export"])
  /\ UNCHANGED <<db, gen, file, synced, spared, hook, edits, crashes>>

\* sync --export.
StartExport(p) ==
  /\ cmd[p] = Idle
  /\ Becomes(p, [pc |-> "export"])
  /\ UNCHANGED <<db, gen, file, synced, spared, hook, edits, crashes>>

(* export_to_file: read the store, write a temporary file, rename it over  *)
(* the rules file, record the sync state.                                  *)
Snapshot(p) ==
  /\ cmd[p].pc = "export"
  /\ Becomes(p, [pc |-> "rename", file |-> Exported(db)])
  /\ UNCHANGED <<db, gen, file, synced, spared, hook, edits, crashes>>

Rename(p) ==
  /\ cmd[p].pc = "rename"
  /\ file' = cmd[p].file
  /\ Becomes(p, [pc |-> "fingerprint", file |-> cmd[p].file, accepted |-> FALSE])
  /\ UNCHANGED <<db, gen, synced, spared, hook, edits, crashes>>

(* record_sync_state_mode: the generation is read now, after the content   *)
(* was, and upserted with the hash of that content.                        *)
Fingerprint(p) ==
  /\ cmd[p].pc = "fingerprint"
  /\ Becomes(p, [pc |-> "record",
                 state |-> [file |-> cmd[p].file, gen |-> gen, accepted |-> cmd[p].accepted]])
  /\ UNCHANGED <<db, gen, file, synced, spared, hook, edits, crashes>>

Record(p) ==
  /\ cmd[p].pc = "record"
  /\ synced' = cmd[p].state
  /\ Becomes(p, Idle)
  /\ UNCHANGED <<db, gen, file, spared, hook, edits, crashes>>

(* sync_with_file_mode: export if there is no file, else read the file.    *)
StartSync(p, accept) ==
  /\ cmd[p] = Idle
  /\ Becomes(p, IF file = NoFile THEN [pc |-> "export"]
                ELSE [pc |-> "generation", file |-> file, accept |-> accept])
  /\ UNCHANGED <<db, gen, file, synced, spared, edits, crashes>>

\* agent-mem sync, with or without --accept-conflicts.
UserSync(p, accept) == StartSync(p, accept) /\ UNCHANGED hook

\* post-merge, post-checkout and post-rewrite run a plain sync.
HookSync(p) == hook /\ StartSync(p, FALSE) /\ hook' = FALSE

ReadGeneration(p) ==
  /\ cmd[p].pc = "generation"
  /\ Becomes(p, [pc |-> "decide", file |-> cmd[p].file, accept |-> cmd[p].accept, gen |-> gen])
  /\ UNCHANGED <<db, gen, file, synced, spared, hook, edits, crashes>>

\* Nothing to do, conflicts refused, or on to the transaction.
Decide_IgnoresGeneration(p) ==
  /\ cmd[p].pc = "decide"
  /\ LET f == cmd[p].file
         noop == synced # NoState /\ synced.file = f /\ synced.accepted = cmd[p].accept
         refused == f.alts # {} /\ ~cmd[p].accept
     IN Becomes(p, IF noop \/ refused THEN Idle ELSE [pc |-> "import", file |-> f])
  /\ UNCHANGED <<db, gen, file, synced, spared, hook, edits, crashes>>

Decide_NeverRefuses(p) ==
  /\ cmd[p].pc = "decide"
  /\ LET f == cmd[p].file
         noop == Matches(synced, f, cmd[p].gen, cmd[p].accept)
     IN Becomes(p, IF noop THEN Idle ELSE [pc |-> "import", file |-> f])
  /\ UNCHANGED <<db, gen, file, synced, spared, hook, edits, crashes>>

Decide(p) ==
  /\ cmd[p].pc = "decide"
  /\ LET f == cmd[p].file
         noop == Matches(synced, f, cmd[p].gen, cmd[p].accept)
         refused == f.alts # {} /\ ~cmd[p].accept
     IN Becomes(p, IF noop \/ refused THEN Idle ELSE [pc |-> "import", file |-> f])
  /\ UNCHANGED <<db, gen, file, synced, spared, hook, edits, crashes>>

(* The reconciling transaction makes the store what the file said, except  *)
(* that it inserts into a store without memories and deletes nothing there:*)
(* relations that such a store has stay.                                   *)
Found == IF \E k \in Keys : Exists(k) THEN {} ELSE db.links

Import_KeepsLinks(p) ==
  /\ cmd[p].pc = "import"
  /\ LET f == cmd[p].file IN
     /\ db' = [rules |-> f.rules, links |-> f.links \cup db.links]
     /\ spared' = (spared \cup Found) \cap db'.links
     /\ IF db' = db THEN UNCHANGED gen ELSE gen' = gen + 1
     /\ Becomes(p, [pc |-> "fingerprint", file |-> f, accepted |-> f.alts # {}])
  /\ UNCHANGED <<file, synced, hook, edits, crashes>>

Import(p) ==
  /\ cmd[p].pc = "import"
  /\ LET f == cmd[p].file IN
     /\ db' = [rules |-> f.rules, links |-> f.links \cup Found]
     /\ spared' = (spared \cup Found) \cap db'.links
     /\ IF db' = db THEN UNCHANGED gen ELSE gen' = gen + 1
     /\ Becomes(p, [pc |-> "fingerprint", file |-> f, accepted |-> f.alts # {}])
  /\ UNCHANGED <<file, synced, hook, edits, crashes>>

\* A killed process, or one whose file operation failed.
Crash(p) ==
  /\ cmd[p] # Idle
  /\ crashes < MaxCrashes
  /\ crashes' = crashes + 1
  /\ Becomes(p, Idle)
  /\ UNCHANGED <<db, gen, file, synced, spared, hook, edits>>

\* A merge, pull, checkout or rebase, after which git runs a sync hook.
GitEdit(f) ==
  /\ edits < MaxEdits
  /\ edits' = edits + 1
  /\ f # file
  /\ file' = f
  /\ hook' = TRUE
  /\ UNCHANGED <<db, gen, synced, spared, cmd, crashes>>

Continue(p) ==
  \/ ShareIfFileExists(p)
  \/ Snapshot(p)
  \/ Rename(p)
  \/ Fingerprint(p)
  \/ Record(p)
  \/ ReadGeneration(p)
  \/ Decide(p)
  \/ Import(p)

Next ==
  \/ \E p \in Procs :
       \/ Write(p)
       \/ StartExport(p)
       \/ \E accept \in BOOLEAN : UserSync(p, accept)
       \/ HookSync(p)
       \/ Continue(p)
       \/ Crash(p)
  \/ \E f \in GitFiles : GitEdit(f)

Spec == Init /\ [][Next]_vars

\* A command that started runs on, and git runs the hook after an edit.
Fairness == \A p \in Procs : WF_vars(Continue(p)) /\ SF_vars(HookSync(p))

FairSpec == Spec /\ Fairness

----------------------------------------------------------------------------
(* Correctness.                                                            *)

Quiet == \A p \in Procs : cmd[p] = Idle

TypeOK ==
  /\ db \in Stores
  /\ gen \in Nat
  /\ file \in File \cup {NoFile}
  /\ synced \in SyncState \cup {NoState}
  /\ synced # NoState => synced.gen <= gen
  /\ spared \in SUBSET Links
  /\ hook \in BOOLEAN
  /\ edits \in 0..MaxEdits
  /\ crashes \in 0..MaxCrashes

\* The store holds what the file says: its rules, no more and no less, and its
\* relations, beside those an import into a store without memories left there.
Holds(f) ==
  /\ db.rules = f.rules
  /\ f.links \subseteq db.links
  /\ db.links \subseteq f.links \cup spared

\* When nothing runs and a sync would skip its work because the file and the
\* generation are those it recorded, the store does hold what the file says
\* ("if the file content and database state have not changed since last
\* sync/export, bypass parsing", sync.rs:483), with the relations the file
\* lacks only if they come from an import into a store without memories
\* (sync.rs:664), which a skipping sync never removes.
NoOpIsSound ==
  Quiet /\ file # NoFile
  /\ (\E accepted \in BOOLEAN : Matches(synced, file, gen, accepted))
  => Holds(file)

\* As long as git stays away and no command fails, a rules file that exists
\* is the store's content whenever nothing runs (README.md:202, "automatically
\* update `.agent-rules` in real time").
SharedInRealTime ==
  Quiet /\ edits = 0 /\ crashes = 0 /\ file # NoFile => file = Exported(db)

\* Once git and the users leave the file alone, the store comes to hold what it
\* says and stays so, unless a conflict waits for a decision or a sync was cut
\* short.
Reconciled == file # NoFile => file.alts # {} \/ Holds(file)
Converges == <>[](Reconciled \/ crashes > 0)

Said(f) == [rules |-> f.rules, links |-> f.links]

\* What a command still has to do that its users can see: what follows a
\* rename or an import is bookkeeping.
TaskOf(c) ==
  CASE c.pc \in {"idle", "fingerprint", "record"} -> [goal |-> "nothing"]
    [] c.pc = "written" -> [goal |-> "tell"]
    [] c.pc \in {"export", "rename"} -> [goal |-> "publish"]
    [] c.pc = "import" -> [goal |-> "adopt", said |-> Said(c.file)]
    [] c.pc \in {"generation", "decide"} ->
         IF c.file.alts = {} \/ c.accept
         THEN [goal |-> "adopt", said |-> Said(c.file)]
         ELSE [goal |-> "refuse"]
Tasks == [p \in Procs |-> TaskOf(cmd[p])]

Promise == INSTANCE SharedRules WITH
  store <- db, shared <- file, kept <- spared, task <- Tasks, failed <- crashes

\* Snapshots, renames, recorded hashes and generations, and syncs that skip
\* their work by them are not to be seen: whatever fails and whatever git does
\* between two steps of a command, store and file change as if each write,
\* publication and sync were one instant, and a conflict changes nothing until
\* it is accepted (README.md:202, sync.rs:483).
SharesInOneInstant == Promise!Spec
=============================================================================
