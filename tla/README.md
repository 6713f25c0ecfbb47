# agent-mem in TLA+

Specifications, model-checking runs and machine-checked proofs for agent-mem
(`src/`), a local memory store for coding agents: a SQLite database per
project, a rules file `.agent-rules` shared through git, and the commands, git
hooks, editor configurations and MCP tools around both.

- [Components](#components)
- [Modules](#modules)
- [Runs](#runs)
- [Bounds](#bounds)
- [Fairness](#fairness)
- [Refinement](#refinement)
- [Where code and documentation disagree](#where-code-and-documentation-disagree)
- [Behaviours worth knowing](#behaviours-worth-knowing)
- [Proofs](#proofs)
- [What is not modelled](#what-is-not-modelled)
- [Plan](#plan)

Paths below are relative to `src/src/` unless they name a document or a test.

## Components

| Component | State | Operations | What makes it hard | What makes it correct |
|---|---|---|---|---|
| Store (`store/mod.rs`, `graph.rs`, `session.rs`, `schema.rs`) | `memories`, and derived from them `memories_fts`, `memory_routes`, `memory_metadata`; `relations`; `memory_revisions`; `sessions`; `store_generation`; `semantic_state.dirty` | `set_batch`, `archive`, `unarchive`, `del`, `relate`, `unrelate`, `set_trust`, `session_add`, `capture_commit`, `clean_zombies`, `clean_deleted_files` | every writer maintains each derived table by hand, with shortcuts for an empty store; the cleaner decides before its transaction; two rings at their cap | derived tables agree with memories, the supersedes graph is acyclic, nothing promotes or loses trust, history is complete |
| Team sync (`store/sync.rs`) | `.agent-rules`, `_sync_state` (path, content hash, generation) | `export_to_file`, `sync_with_file`, `--accept-conflicts` | a command commits, exports and records in separate steps with no lock over them; git changes the file; a kill between two steps | a skipped sync really had nothing to do; file and store converge; conflicts wait for a decision |
| Semantic index (`store/semantic.rs`) | `semantic.lock`, index files by generation, `semantic_state`, `semantic_records` | rebuild, refresh on search, clear | files and rows are not one transaction; rebuilds race with writers, searches and each other | the index is a copy of one instant, known to be stale from the first write after it; answers are fresh |
| Context selection and search (`store/graph.rs`, `store/mod.rs`, `store/models.rs`, `mcp.rs`, `cli.rs`) | none, reads | `ranked_anchor_keys`, `get_relations_touching`, `get_outgoing_targets`, `select_diverse_context_keys`, `mem_context`, `find`, `rrf_fuse` | integer budgets with reserves, lookups of so many rows, byte budgets counted per section, caps on routes, ties of ranks | no match lost, no class or store starved, no text cut, relations of what is shown before others |
| Post-commit hook (`hook.rs`) | none | read git, assess, `capture_commit`, `clean_deleted_files`, export | git, duplicates and sessions are read before the write; runs overlap; HEAD moves | one session per commit, stated content kept, automatic captures only add |
| Project registry (`registry.rs`) | `projects.json`, its lock | `register`, `prune`, `deregister`, `load`, `save` | whole-file rewrite by many processes; checkouts that move; several clones of one remote | no live project loses its record, none is listed twice |
| MCP server (`mcp.rs`) | registry of its start, opened stores | `run_stream`, project resolution, tools | oversized lines, read and dropped in pieces; projects that change under a running server | replies in the order of the lines; a write goes to the store and file of the project that was named |
| Editor configurations (`lifecycle.rs`, `installer.rs`) | settings of other programs and their backups | install and uninstall of session hooks and MCP servers | a write is several file operations; backups are overwritten by the next command; users edit and delete the files; five ways to keep the entry | what was last written is in the file or its backup, uninstall restores, status tells the truth |
| Command line, TUI (`cli.rs`, `tui.rs`) | none of their own | each write: store operation, then export if the file exists | several processes at once | as above |
| Migrations (`store/schema.rs`) | `PRAGMA user_version` | `configure_conn` | the version is read outside the migrating transaction | an upgrade ends with complete derived tables |
| Secret filter, output, TUI drawing, tutorial, launcher, evaluations | none | text | | not concurrent, not stateful |

The store is shared by all: commands, the MCP server and the hooks open the same
database, and meet in SQLite's immediate transactions only. The store
generation, incremented by triggers, is what `sync` uses to know that it may
skip its work. The dirty flag is what the semantic index uses to know that it
must rebuild. The registry is what the MCP server and the TUI find projects by.
The post-commit hook composes the store with git, and so does team sync with
the rules file.

## Modules

```
MemoryGraph ── MCStore, MCGuarded, MemoryGraphProofs
     └──────── PostCommit (with CommitParsing) ── MCPostCommit, PostCommitProofs
SharedRules ◁── TeamSync ─ MCTeamSync, TeamSyncProofs
CorpusIndex ◁── SemanticIndex ── MCSemantic, SemanticIndexProofs
AnchorRouting ─ ContextSelection ┐
ScopedContext ───────────────────┼ Retrieval ── MCRetrieval, RetrievalProofs
SearchFusion ────────────────────┘
Registry ────── McpServer ── MCFrontends, McpServerProofs
ClientEntries ─ EditorConfig ── MCEditor, EditorConfigProofs
Filtering (FilteringProofs) ── Lists, under the three reads; Registry; ClientEntries
```

**`MemoryGraph`** is the store. One action is one committed transaction, because
`TransactionBehavior::Immediate` serialises writers; the exception is the
cleaner, which is two actions, `ScanZombies` and `RepairZombies`, with any
transactions of other processes between them; a dry run or a kill ends in
`DropReport` instead.

| Variable | Code |
|---|---|
| `mem` | `memories`: text (value and kind), anchor (the files it names; `{}` is NULL), archived, reason |
| `fts` | rows of `memories_fts` for a key, a sequence because the table has no key constraint |
| `routes` | files from which rows of `memory_routes` lead to a key |
| `meta` | `memory_metadata.trust` |
| `rels` | `relations` |
| `revs`, `sessions` | the rings `memory_revisions` (per key) and `sessions` |
| `gen` | `store_generation` |
| `dirty` | `semantic_state.dirty` |
| `zombies` | the report a cleaner holds between scan and repair |
| `imported` | not in the code: the keys whose current version an import wrote |

`SetBatch`, `Archive`, `Unarchive`, `Del`, `Relate`, `Unrelate`, `SetTrust`,
`SessionAdd`, `CaptureEntity` are the operations of the same names;
`SyncImport` is the transaction of `sync_with_file_mode` with its two paths
`SyncEmpty` and `SyncDiff`; `SemanticRebuild` is the clearing of the flag.

Abstractions. The generation rises by one for a transaction that writes rows,
not by the number of rows. Text, kind and provenance are one value. Times are
left out, except that archiving an archived memory gives it a new `archived_at`
if the clock has moved on, which makes a revision (`later`). An anchor is a set
of files; `Routed` is the part of it that gets routes (the first eight paths,
`models.rs:144`). At most one cleaner is between its scan and its repair. A
rules file has at most one conflict, of two definitions. Inputs (`Batches`,
`Commits`, `ImportFiles`) are constants; a batch that repeats a key acts as two
batches. Refused inputs (sizes, secrets, parse errors) change nothing and are no
steps.

**`TeamSync`** is the file beside the store. Its store `db` is a map `rules` from
keys to what a row says in the file and a set `links` of relations, its step is
one transaction, one query or one file operation, and each process is in one
command at a time:

- a write: `Write` (commit, one of `Save`, `Del`, `Relate` and `Unrelate`, which
  are what the writers of `MemoryGraph` do to rows and relations),
  `ShareIfFileExists`, `Snapshot`, `Rename`,
  `Fingerprint`, `Record` (`cli.rs:1000-1105`, `sync.rs:348-438`);
- a sync: `UserSync` or `HookSync` (read the file), `ReadGeneration`, `Decide`
  (nothing to do, conflicts refused, or on), `Import`, `Fingerprint`, `Record`
  (`sync.rs:450-905`);
- `StartExport` (`sync --export`), `Crash` at any point, and `GitEdit`, git
  changing the file and starting a hook (`init.rs:226-237`).

**`SharedRules`** is its promise, see [Refinement](#refinement).

A file is the last definition of each key, the relations it lists, and the set of
keys it defines differently elsewhere. A relation is its two ends, without its
type. `Import` makes the store what the file said, but in a store without
memories it deletes nothing, so relations that are there stay (`sync.rs:664`).
`spared` is not in the code: the relations that imports have left in that way and
that are there since. `_sync_state` keeps a row for each path; all commands
use `root.join(".agent-rules")`, so one row is modelled. The content hash is
modelled as the content.

**`SemanticIndex`** is `store/semantic.rs`. `corpus` is what a rebuild reads of
the store (the text of each active memory), `state` the row of `semantic_state`
(generation, dirty, empty), `records` the rows of `semantic_records`, `files`
the index files by generation, `lock` the holder of `semantic.lock`, `cmd` what
each process does. A step is one transaction, one query or one file operation:
`Lock` (with the second look of a search under the lock), `ReadCorpus` (the
read transaction and the embeddings, reused from the old index by key and
fingerprint), `SaveIndex` (temporary file and rename), `Commit` (which reads the
memories again and gives up if they changed), `Sweep`; `Clear` and
`RemoveFiles`; and of a search `StartSearch`, `ReadAgain`, `OpenIndex`,
`FetchHit`. `Write` is any transaction of `MemoryGraph` that changes the active
memories; that all of them set the flag is `DirtyCoversCorpus` there.
`state.born` and `begun` are not in the code: the number of writes at the time
of a commit and at the start of a command, for the properties only. An embedding
is the document it was computed from, a fingerprint is the document, and the
best hit is any document of the index. **`CorpusIndex`** is its promise, see
[Refinement](#refinement).

**`AnchorRouting`**, **`ContextSelection`**, **`ScopedContext`** and
**`SearchFusion`** are the reads, pure functions of a store:

- `Routes` (`routing_entries_for_path`) and `Score` (`score_single_anchor`): two
  ways to say that a file and an anchor belong together, one hashed in a table,
  one computed;
- `Direct`, `Linked`, `Targets`, `Universal` are the classes, `Select` is
  `select_diverse_context_keys`, `Context` is `context_for_files`,
  `context_filtered` and `context_for_task`;
- every lookup holds as many rows as in the code. `RowsOf` and `Candidates` are the
  rows of one route and of all routes together, `Touching` is
  `get_relations_touching` and `Targets` is `get_outgoing_targets`, both of four
  times the limit. The numbers of the routes are constants (`ExactRows`,
  `MinRows`, `MaxRows`, `MinCandidates`, `MaxCandidates`). Which candidates are
  left out of a full set, beyond that whole paths come first, is any choice, since
  in the code it follows from the order of hashes;
- `McpContext` is the text of `mem_context` in bytes and slots, `CliContext` the
  merge of the context command;
- `Find` is `find` with `StrictHits`, `RelaxedHits`, `Clear`
  (`clear_lexical_match`) and `Fuse` (`rrf_fuse`).

**`Retrieval`** asks each of them every question of its constants, over every
store of its constants: an answer is one step. bm25 and cosine order hits in
any way. `Lists` has the helpers they share, written as recursive functions so
that their values can be reasoned about for lists of every length.

**`Registry`** is `projects.json` and the checkouts it is about: `place` says
where each clone is, `Move` is a user cloning, moving or deleting one.
`InitProject`, `Register`, `Prune`, `Deregister`, `Load` and `Save` are the
operations, each one action because all of them hold the registry's lock from
load to rename; `loaded` is a registry that a program holds without the lock.
A record keeps the second of its last access, on which the list is sorted.
**`McpServer`** adds one server and its client: `server.known` is the registry it
loaded, `server.stores` the stores it has opened by path, `wire` what the client
has written and the server has not read, `output` the replies the client has not
read, `client.pending` the replies it waits for (not in the code). `wire` is a
sequence of units: the text of a request, other text, a newline, or the first or
the second byte of a character. `Send` writes a line or the last of the input;
`Read` is one turn of `run_stream` with the whole handling of the request,
`Drain` one turn of the loop that drops the rest of a long line, which finds any
beginning of the remaining input in its buffer (`mcp.rs:1296`).

**`CommitParsing`** is what a commit says (`parse_trailers`,
`parse_conventional_commit`) on commits whose body is a sequence of tagged
lines. **`PostCommit`** extends `MemoryGraph` with runs of the hook: `Log`,
`DiffDeleted` and `DiffModified` ask git about the HEAD of the moment, `Assess`
is `assess_entity`, `LookForSession` reads the session list, `Capture` is the
transaction (`CaptureEntity` or `SessionAdd` of `MemoryGraph`), `Scan` and
`Repair` are its cleaner. `GitCommit` moves HEAD, `OtherWriter` is any command on
the same store, `Crash` ends a run anywhere. All they do to the store are actions of
`MemoryGraph`, see [Refinement](#refinement).

**`ClientEntries`** is what an editor's configuration holds of us and how it is
put in and taken out; **`EditorConfig`** is the commands: `Run` chooses clients,
`Load` reads a file and computes the new one (`Plan`), `BackUp`, `RemoveOld`,
`Rename` and `Write` are the file operations of `write_config_safely` and of the
Codex uninstall, which writes in place. A file in the middle of a copy or a
write is `Half`. `Edit` is a user or the editor changing a file, breaking it or
deleting it, `Upgrade` a new path of the binary. `touched` (where the command
was when its file was edited), `first` (the content before the first install)
and `settled` (what was last written to a file) are history variables.

**`Filtering`** has one operator, the elements of a sequence that are in a set
(`retain`, `filter` and `dedup` of the code).

The `MC` modules give the inputs for TLC, the `Proofs` modules hold the theorems:
one for each component, and `FilteringProofs` for the lemmas three of them share.

## Runs

| Run | Checks | Shows |
|---|---|---|
| `store` | `TypeOK`, `TablesMirrorMemories`, `RoutesReachAnchors`, `ImportsStayQuarantined`, `ContentBumpsGeneration`, `DirtyCoversCorpus`, `PromotionIsExplicit` | no order of operations, nor a cleaner working from an old scan, leaves a derived table, a trust or a flag behind the memories |
| `graph` | `SupersedesAcyclic`, `SupersedesEndpointsExist` | the checks of `relate` and `capture_commit`, the cascade of `del` and the import keep the graph well formed if no input carries an unchecked edge (`GuardedInputs`) |
| `history` | `HistoryComplete` | each replaced version becomes the newest revision with its trust, past the cap, after conflicts and deletion |
| `serial` | `NoOpIsSound`, `SharedInRealTime`, `SharesInOneInstant`, `Converges` | one command at a time, killed anywhere: the no-op check is sound, the file is current, each command acts as in one instant, file and store converge, all of it up to relations that an import leaves in a store without memories |
| `semantic` | `TypeOK`, `IndexMatchesRecords`, `AnswerIsTheHit`, `AnswersAreFresh`, `NoStrayIndexes`, `OnlyBuildEnables`, `KeepsPromise`, `CommandsEnd` | two processes build, clear and search while memories change and one may be killed: file and rows of a generation agree, reused vectors stand under the right id, answers come from an index at least as new as the question, no file is left over, a search does not enable what a user cleared, no command hangs |
| `retrieval` | `NoMatchLost`, `ClosestMemoryShown`, `EveryClassHasItsSlot`, `ShortOnlyByArchived`, `InnerRelationsFirst`, `TextNeverCut`, `NoStoreStarves`, `FusionKeepsBothRankings` | the routes find what the score would, the rows of a lookup go to the shown memories first, the division of slots and bytes reaches every class and both stores, fusion respects both rankings |
| `frontends` | `TypeOK`, `RepliesFollowLines`, `WritesGoHome`, `LiveProjectsStay` | two clones of one repository move between two paths while commands change the registry and a server answers lines up to and over its limit, which it reads and drops in pieces: replies follow lines, writes reach the project they name |
| `hook` | `OneSessionPerCommit`, `StatedContentIsKept`, `AutomaticCapturesOnlyAdd` | two runs of the hook overlap with each other, with other writers and with new commits: one session per commit if runs do not overlap, stated content is kept, an automatic capture changes the words of no memory and archives only what a trailer names |
| `editor` | `NothingIsLost`, `UninstallRestores`, `StatusFollows` | three commands over five editors, with an edit, a deletion, a broken file or a new version and a kill at any step: contents are in the file or its backup, uninstall restores, status tells the truth |
| `cycle`, `export_race`, `registry_twice` | one property each | a violation: see [below](#where-code-and-documentation-disagree) |

Properties that several modules name `TypeOK` are type invariants. Those of
`TeamSync`, `EditorConfig` and of the runs of `PostCommit` are proved and not run;
`Retrieval` has none.

## Bounds

- `store`, `graph`, `history`: `MaxGen` caps the writes: no writing operation
  starts at that generation. Five generations allow create, rewrite, archive or
  import, delete and create again, which is what the insert-without-delete
  shortcuts need; the graph needs create, two edges, delete and a capture. Two
  keys are enough for relations and batches, three for a cycle longer than two.
  The rings are shrunk so that they overflow; the code's cap of 20 is the same
  rule.
- `serial`: two writes and two git edits let git remove and restore the file, and
  let it bring a relation into a store without memories and take it out again; one
  crash. Two keys and the one relation between them are enough, as an import looks
  at the relations as a whole. An import may pass `MaxGen` by one.
- `semantic`: two processes, two keys, two texts, two writes, three commands,
  one crash: a rebuild with a write inside, a clear or a second rebuild waiting
  for its lock, and a search that began before either. With two keys an
  archived one shifts the id of the other, which is how an id could come to
  stand for another memory.
- `retrieval`: seven files (a shared directory of one name, of two, a generic
  name, another case, deeper files, a file without directory), each pair of them
  as question and anchor; five memories that compete for one to four slots, one
  of them archived or none, with relations: none, a few, four memories that are
  all related to each other, and parallel ones, the last two more than a lookup
  holds at the small limits. `DirRoutes` is 2 in place of 8, and a lookup of
  routes holds 2 rows for a whole path, 1 to 3 for another route and 1 to 4
  candidates in place of 64, 32 to 512 and 128 to 8192, so that the caps are
  reached; the rows of relations are the code's own, four times the limit. The
  byte budgets are the code's own numbers, and the lines are chosen to fill them
  to the byte.
- `frontends`: two clones of one remote, two paths with the same directory
  name, two moves, three changes of the registry, two seconds, two lines to the
  server. A line may have two units, a request and its newline; the other lines
  have none to five, so that they are empty, at the limit, one over it and far
  over it, and two of them end in a character that the read cuts or just does not.
  The registry changes between lines only (`BetweenLines`) and lines come early or
  one at a time (`Early`): writing, draining and receiving do not look at the
  registry, and handling a request looks at it in one step, so every order of
  handled requests and changes of the registry is still there. The clones
  are symmetric and so are the paths: no property or action orders them, and what
  is asked of one path is asked of the other.
- `hook`: six commits (two automatic captures with one key, one that supersedes
  another memory, a draft, a decision that supersedes, a gotcha with a
  deletion), two runs, one move of HEAD, three generations. A session ring of
  three is not overflowed, because a commit that has left the ring is recorded
  again, which is what the code does at twenty. The runs are symmetric.
- `editor`: the two hook clients and one client of each way to keep servers;
  `Windows` is TRUE, where a rename needs the old file removed first, which has
  every step that the other platforms have and one more. Three commands, one
  edit, deletion or new version: an install, a deletion, an install and an
  uninstall are the shortest way to an outdated backup.

The runs stop at their bounds, so deadlock is checked in `serial` only, where a
command can always be started. That no started command gets stuck is
`CommandsEnd` for the semantic index, the one component with a lock held over
several steps.

## Fairness

`Converges` assumes `WF` on the next step of a command that has started (a
running process is scheduled; SQLite waits up to ten seconds for a lock and
nothing else blocks), and `SF` on `HookSync` (git itself runs post-merge,
post-checkout and post-rewrite after it changed the file; strong, because the
hook waits while another command of the same process runs). A crash voids the
promise, so `Converges` excuses it, and conflicts wait for a user. Hand edits of
the file start no hook and are not modelled.

`CommandsEnd` assumes `WF` on `Continue(p)`: a process that started runs on, and
one that waits for `semantic.lock` gets it once it is free for good. The lock is
a file lock, which the system releases when its holder dies; what the property
shows is that every path, the refused commit included, releases it. Weak fairness
is enough because the number of commands is bounded: a waiting process cannot
be passed for ever.

No fairness is assumed of users, git or writers.

## Refinement

### Semantic index

`SemanticIndex` implements `CorpusIndex`: its property `KeepsPromise` is
`Promise!Spec` with

- `served`: no copy if there is no row, else the contents of the index file of
  the row's generation, as a map from keys to texts;
- `stale`: there is a row and it is dirty;
- `Nothing`: no row.

`CorpusIndex` only knows writes, which mark a served copy stale, a refresh,
which serves the memories of that very instant, and disabling. So a rebuild that
takes many steps, in which memories change, ids are renumbered and vectors are
reused, which may be killed or refused, is one atomic refresh or nothing. That
an index not marked stale is the active memories (`Faithful`) follows. The
mutant of the property, a commit that does not compare the memories again,
breaks it. The refinement is checked by the run `semantic` and proved for every
value of the constants (`ImplementsCorpusIndex`).

### Team sync

With one command at a time (`OneCommand`), `TeamSync` implements `SharedRules`: its
property `SharesInOneInstant` is `Promise!Spec` with

- `store`: `db`; `shared`: the file; `kept`: `spared`; `failed`: the crashes;
- `task`: what a command still has to do to one of the two (`TaskOf`). After the
  rename of an export and after the import of a sync only the record is left,
  which nobody sees, so the task is over.

`SharedRules` only knows a write that then publishes the store of that very
instant, a sync that adopts what the file said when it was asked for or leaves a
conflict alone, a failure, and git. It knows as well that a sync leaves the
relations of a store without rules (`kept`), and that a sync may find nothing to
do as long as those are all that the file lacks. So an export, which reads a
snapshot and the generation and renames a file later, is one atomic publication;
and a sync that finds by generation and content that it has nothing to do has
adopted a file that says what the store says, but for those relations. The
latter is what the no-op check is for, and is not visible in a single step: it
needs that the recorded content is that of the recorded generation, through any
crashes and git edits before. The mutant of the property is a sync that never
refuses a conflict. The run `serial` checks it, `ImplementsSharedRules` proves
it for any number of processes. Without `OneCommand` it is false: `export_race`.

### Post-commit hook

`PostCommit` extends `MemoryGraph` and shares its variables, so that it implements
the store means `HookSpec => Spec`: a run captures only what its commit
proposes, cleans only for a commit that deletes files, and a kill between scan and
repair is the end of a cleaner (`DropReport`). Hence what is proved of the store
holds with hooks beside it. That a run carries from its look to its write
what a capture may be is `RunsInv`. Proved (`HookImplementsStore`), with the
consequences `HookKeepsStore` and `HookKeepsGraph`.

## Where code and documentation disagree

Three runs are expected to fail, and TLC's trace is the explanation.

- `cycle`: README.md:174 promises that supersedes cycles are rejected. An import
  (`sync.rs:704`, `:872`) and `set_batch` (`mod.rs:276`) insert such edges
  unchecked, and with `merge=union` two branches with one edge each are enough.
- `export_race`: with two processes, an export records a generation
  newer than its content (`sync.rs:356`, `:385`), and later syncs skip a file
  that differs from the store.
- `registry_twice`: registering is idempotent by its comment (`registry.rs:200`)
  and its test (`tests/registry_test.rs:136`). A clone that is registered while
  the record of a vanished clone of its remote comes first replaces that one and
  leaves its own: the path is listed twice, under two ids (`registry.rs:262`).

Seven more follow from the models and are described only:

- `sync_with_file` is there to "Reconcile SQLite database with a plain-text rules
  file" (`sync.rs:440`). Into a store without memories it inserts only
  (`sync.rs:664`), so relations that the store has and the file lacks stay, and are
  recorded as synced: later syncs skip a file that differs from the store until
  one of the two changes. `NoOpIsSound`, `Converges` and `SharedRules` excuse these
  relations (`spared`) and no others;
- a large cluster "cannot starve" the graph by its comment (`graph.rs:129`), but
  the lookup of relations holds four times the limit, and those between the direct
  memories come first (`graph.rs:349`). At a limit of two, four direct memories
  that are related to each other fill its eight rows, and a memory they lead to
  gets no slot; at a limit of eight, seven of them have 42 relations for 32 rows,
  and seven memories are shown. `EveryClassHasItsSlot` and `ShortOnlyByArchived`
  promise what the lookup holds (`LinksFit`);
- the registration of hooks is "fully reversible" (`lifecycle.rs:7`). An install
  with `enabled` off leaves a backup that says so. If the user deletes the file,
  the next install makes no copy (`installer.rs:479`), and the uninstall after it
  restores `enabled` as off from the old backup (`lifecycle.rs:142`), where nothing
  was. After a new version or a kill the backup may hold our own entries, or
  nothing whole, and beside other events `enabled` stays on.
  `UninstallRestores` names these cases;

- clean scans, another process deletes the memory, clean
  repairs and inserts routes for it (`graph.rs:391`). The key then comes back
  without an anchor through an insert that does not delete routes (`mod.rs:263`
  in an empty store, `sync.rs:825`). The query behind the route reads the NULL
  anchor as a string (`graph.rs:583`), so context for that file fails;
- README.md:206 says clean archives only when every anchored file
  disappeared; the report is made before the transaction (`graph.rs:415`), and a
  memory anchored to a new file since is archived all the same;
- README.md:210 says a conflict waits for an edit or
  `--accept-conflicts`; the next write exports over the file (`cli.rs:1010`);
- README.md:208 offers `Decision:`, `Gotcha:` and the other trailers to state
  content explicitly. A commit that states the words a memory already has under
  another kind is skipped as a duplicate, because only the values are compared
  (`hook.rs:123`): a `Gotcha:` for what is stored as a decision leaves a decision.

## Behaviours worth knowing

Met while modelling, in the models as they are, and excused by the properties
where a property would have to exclude them.

Store. Context by anchor cannot reach a memory through the ninth file of its
anchor (`models.rs:144`).

Semantic index. A search that opened an index before another process replaced
it looks ids up in the new records: it then returns another memory than
the one it found, unchanged and active.

Context and search. The context command with both scopes and a limit of one
shows a global memory only, `mem_context` with a limit of one shows a rule of
each store. An archived memory among the linked ones wastes the reserve of its
class. A directory above or below another one scores by the depth they share
without a cap (`graph.rs:1161`), so from sixteen names on it outscores a file of
the same directory, and from forty-one an exact match. The first global memory
has its reserve less 16 bytes, since the heading of its section is counted in
it. With `--explain`, the text keeps five bytes of slack.

Registry and server. A moved checkout keeps its id, so a new clone at its old
path gets the same id. A server loads the registry once; it caches stores by
path, so with a checkout moved under it the old database is written and the
rules file of the new place exported. The project of its directory wins over a
registered one of the same name. A line over the limit whose last byte read
falls inside of a character ends the server. A read-only server may rebuild the
semantic index.

Hook. A commit that renames a file and restates its memory is skipped as a
duplicate, and the memory is then archived with the old file; a second run
captures it. A refused `Supersedes:` trailer loses the session too. An empty
`Key:` trailer makes a capture explicit. HEAD moving between the three git calls
mixes two commits. Overlapping runs record a session, or a duplicate, twice. A
failing clean skips the export.

Editor configurations. A hook that a user has put into our entry is removed with
it. A container of another shape is replaced and
the servers in it are only in the backup, until the next command writes that
again. Comments of JSON files are lost. Codex is uninstalled in place without a
backup; a header of ours in a comment counts as configured and is never removed.
A file that does not parse stops an install before the clients after it. An edit
between load and rename is lost from the file, and if it comes after the copy was
begun it is not in the backup either. Where rename cannot replace a file, a kill
after the removal leaves the backup as the only copy; the next install sees no
file and makes no copy, and the one after that overwrites the backup with what
the first wrote. Two finished commands are needed for that; `NothingIsLost`
promises what was last written, which is then the first one's work.

## Proofs

All theorems hold for every value of the constants that meets the assumptions of
the modules. TLC evaluates the assumptions in the runs. They say:

- sentinel values are not data (`SentinelsAssumption`, `TeamSyncAssumption`,
  `SemanticAssumption`, `NoStateAssumption`, `EditorAssumption`,
  `RegistryAssumption`), inputs have their types (`InputsAssumption`,
  `RequestsAssumption`, `CommitsAssumption`, `RetrievalAssumption`), caps and
  bounds are natural numbers (`BoundsAssumption`);
- `Routed` picks files of the anchor (`RoutesAssumption`); the keys of the
  semantic index are finitely many numbers, their order being the order of ids
  (`KeysAssumption`); stores and the corpora of searches are finite and a store
  selects no key twice, relations are finitely many, and every lookup of routes
  holds a row (`RetrievalAssumption`);
- the limit of a fusion has room for all semantic hits and one more
  (`FusionAssumption`; it is ten, `mod.rs:933`, and there are five,
  `semantic.rs:21`);
- `Commits` and `Summaries` have the captures and the session texts of the
  commits of the hook, and a commit that states a kind proposes a capture
  (`CommitsAssumption`);
- hook clients and server clients are different, and the settings that `Edit`
  writes are contents the client can have (`EditorAssumption`);
- what `mem_context` keeps for the notice, the explanation, the global store,
  relations and sessions is no more than its bytes, and the notice and the room
  for relations are longer than a heading (`BudgetsAssumption`; the constants
  are those of `mcp.rs:20` and `mcp.rs:956`).

### Store

- `TypeCorrect`: `TypeOK`, inductive as it stands. Lemmas give the types of what
  the helpers return (`RingType`: a ring never exceeds its cap), then there is one
  lemma for each action.
- `TablesCorrect`, `RoutesCorrect`, `QuarantineCorrect`: `TablesMirrorMemories`,
  `RoutesReachAnchors`, `ImportsStayQuarantined`, from one inductive invariant,
  `TablesInv`. It says for each key that its search row, its trust row and its
  routes are those of its memory, if there is one (`Consistent`). The three
  need each other: the inserts that skip the delete are right only because a key
  without a memory has no search row.
- `GenerationCorrect`, `DirtyCorrect`, `PromotionCorrect`: the action properties
  `ContentBumpsGeneration`, `DirtyCoversCorpus`, `PromotionIsExplicit`, action by
  action. `HistoryCorrect`: `HistoryComplete`, from what each helper does to the
  ring of a key.
- `GraphCorrect`: assuming `GuardedInputs`, `SupersedesAcyclic` and
  `SupersedesEndpointsExist`. Acyclicity is stated as: each nonempty set of keys
  has a key that supersedes none of the set. The core is one lemma: if `t` does
  not reach `s` then adding the edge from `s` to `t`, or edges from `s` to
  several such `t`, keeps that property. The two are proved together, and with
  `TypeOK`, because a deletion must remove the edges of the key and a capture
  must not find edges of a key that does not exist. `GuardedInputs` is
  necessary: `cycle` is the counterexample without it.

### Team sync

- `TeamSyncTypes`: types, for any number of processes. The inductive invariant
  adds what commands carry with them (`CmdTypes`), among it that a generation
  about to be recorded is not ahead of the store's.
- `NoOpCorrect`: assuming `OneCommand`, `NoOpIsSound`, with any number of
  crashes and git edits: a store that would be skipped holds the file, and
  beside it only relations that are `spared`. `NoOpIsSound` speaks about quiet
  states; the inductive invariant `SerialInv` says for each step of a command
  that what it carries is still what the store holds (`Agrees`), and of the
  recorded state that if its generation is the store's, its content is too, but
  for those relations (`RecordSound`). `OneCommand` is necessary: `export_race`
  is the counterexample without it.
- `SharingCorrect`: assuming `OneCommand`, `SharedInRealTime`. `ShareInv` says
  where a command stands when the file has to be the store's content, and that a
  sync imports the file that is there.
- `ImplementsSharedRules`: assuming `OneCommand`, the refinement above, from
  `SerialInv`. Each action is the one of `SharedRules` that its task names, or
  leaves store, file and task alone. `Agrees` supplies that the file about to be
  renamed is what the store would publish now, and `RecordSound` that a
  skipped sync has nothing to change but what `SharedRules` lets it leave.

### Semantic index

- `SemanticTypes` and `IndexCorrect`: `TypeOK` and `IndexMatchesRecords`, for any
  number of processes, memories, builds, clears and crashes. Neither is
  inductive: that a commit finds its file depends on what the rebuild carries
  from step to step. `IInv` adds that a process inside a rebuild or a clear has
  the lock (`CmdInv`), that what it carries is still true (`Carries`), and that
  the records are the documents of some instant (`RecordsInv`). Two lemmas have
  the content: no two documents of an instant have one id
  (`DocumentsAreDistinct`), and a vector reused by key and fingerprint is the one
  that would be computed anew (`VectorsAreDocuments`).
- `ImplementsCorpusIndex`: the refinement above, from `IInv`. Each action is
  `Write`, `Refresh` or `Disable` of `CorpusIndex`, or leaves `served` and `stale`
  alone: file steps do, because the file of the committed generation is never the
  one they add or remove.
- `FreshIndexIsFaithful`: an index that is not marked dirty is a copy of the
  active memories as they are now, from the refinement and the invariant of
  `CorpusIndex`.
- `FreshAnswers`, `AnswersCorrect`, `FilesAreSwept`, `EnablingCorrect`:
  `AnswersAreFresh`, `AnswerIsTheHit`, `NoStrayIndexes`, `OnlyBuildEnables`, from
  `IInv` and `SearchInv`, which says how old what a search carries may be
  (`Fresh`), and, as long as nothing was killed, that each index file is the
  committed one or has a process that will remove or commit it (`Claimed`).

### Context selection and search

The answers are functions of what is stored, so `RetrievalInv` says no more than
that the store has its types (`StoreInv`) and that an answer is what the
operators give for its question (`Answered`). The work is in the lemmas about
those operators, for lists of every length.

- `MatchesCorrect`: `NoMatchLost`, for routes whose memories fit the lookup
  (`RoutesFit`). `MatchIsReached`: two paths that score have a route in common
  unless `OutOfReach` excuses them, by the ways to score. `CandidateFacts`: routes
  that fit lose nobody, and whole paths come first in those that do not.
- `ClosestCorrect`, `SlotsCorrect`, `PlacesCorrect`: `ClosestMemoryShown`,
  `EveryClassHasItsSlot`, `ShortOnlyByArchived`. `ByScoreFacts` says that the
  sorted list of scored keys has each of them once and the best first;
  `SelectFacts` that `Select` takes at most the limit, a key once, the
  front of each class up to its reserve, and all keys of the classes if there is
  room; `AlternateFacts` does the same for interleaving task hits with
  anchors. The closest memory is found by routes that fit, or as the first at its
  whole path; what is linked is the whole neighbourhood of the direct memories if
  its rows fit (`LinksFit`, with `LinkedFacts` and `TargetFacts`), and what the
  lookup holds if they do not.
- `EdgesCorrect`: `InnerRelationsFirst`. `ForemostFacts` says what the first so
  many of a finite set under a strict total order are; `TouchingFacts` applies it
  twice, to the rows of a memory and to the rows of all of them.
- `TextCorrect`, `StoresCorrect`: `TextNeverCut`, `NoStoreStarves`. `FittingFacts`
  follows the running sum of a section: it never passes the budget, and the first
  line is in if it fits. The rest is arithmetic over the four sections and their
  headings.
- `FusionCorrect`: `FusionKeepsBothRankings`. `InOrder` lists each hit once, best
  first, for any strict total order (`InOrderFacts`); that `Above` is one, on sums
  of two fractions compared crosswise, is arithmetic. Only semantic hits
  can stand above the first hit of either ranking, so both are within the limit.

### Post-commit hook

- `StatedCorrect`: `StatedContentIsKept`, if nobody else wrote between the run's
  look at the store and its end and the commit deletes no file.
  `AutomaticCorrect`: `AutomaticCapturesOnlyAdd`, if nobody else wrote between the
  look and the write: over all memories, only those that a `Supersedes:` trailer
  names change, and these are archived with their content. Both are for any number
  of runs, commits and keys. `RunsInv`
  says what a run that nobody disturbed still knows at each of its steps: that
  the key it found free is free, or that what it found stated is still there.
- `SessionsCorrect`: `OneSessionPerCommit`, with a ring of any length. `RingInv`
  adds that a run that is going to record a session did not find one.
- `HookImplementsStore`: the hook implements `MemoryGraph`, from `RunsInv`.
  `HookKeepsStore`, `HookKeepsGraph`: so all invariants and action properties of
  the store hold beside any number of runs, which the run `hook` does not check.

### Registry and server

- `RecordsCorrect`, `ProjectsStay`, `WritesCorrect`: `TypeOK`,
  `LiveProjectsStay`, `WritesGoHome`, for any number of checkouts, paths, records
  and lines. `RegInv` types the registry as sequences of records of any length, in
  the file and in the hands of a program; `ServerInv` says that a server's stores
  are those of the checkouts at their paths if nothing moved since.

### Editor configurations

- `TypeCorrect`: types, for any clients and contents.
- `BackupCorrect`: `NothingIsLost`. `SavedInv` adds that only the file of Codex is
  ever half written, that what is copied is what was last written, and that a
  file about to be replaced has that in its backup unless it was edited since the
  copy was begun.
- `StatusCorrect`: `StatusFollows`. `PlanInv`: what a command is going to write is
  configured if and only if it installs.
- `UninstallCorrect`: `UninstallRestores`, with the exceptions it names: edits
  during a command or beside our entries, a new version or a kill meanwhile, a
  deletion of ZCode's file that leaves a backup, other events with hooks, and
  containers of a shape that an install replaces. `KeptInv`: at every step,
  uninstalling what is in the file, or is about to be, gives the settings of
  before the first install.

### Induction over data

The provers have no induction rule for data, and no theorem of the library that
takes one as a parameter can be used. Two facts of set theory stand in for it.
`LeastElement`: a nonempty set of natural numbers has a least element.
`NatSets`: a set of natural numbers that has 0 and with each number the next
one has all of them. A recursive function over `0..n` or over a list is then
known by the set of arguments for which a claim holds (`Recursion`, `FilteredIs`).
That is why the helpers are recursive functions with plain bodies, and not folds
or operators.

### What the proofs changed

- `OnlyByDirectory` was a bound on the score, which is wrong for deep paths: the
  code's score for directories has no cap. It is now about the paths themselves.
- `StatedContentIsKept` compared values and kinds and is false so: see the
  disagreement about trailers above.
- `NoStoreStarves` promised the first global memory all of `GlobalBytes`; it is 16
  bytes less. TLC's lines did not reach the difference.
- `EveryClassHasItsSlot` had exceptions that turned out not to be needed.
- `AutomaticCapturesOnlyAdd` spoke of the key of the capture only, and
  `NothingIsLost` of the existence of a backup only. Both now compare contents.
- `FusionKeepsBothRankings` now says as well that no hit is listed twice and that
  the first semantic hit is found.

### Only model-checked

`Converges` and `CommandsEnd`, since liveness is outside the prover's reach, and
`RepliesFollowLines`. That every line is answered in its place follows from how
what is left of `wire` was cut into lines when it was written, a claim about
sequences of sequences of any length, which is checked for lines of up to six units
instead.

## What is not modelled

- The rules text format: parsing and escaping are taken to preserve what a row
  says. Secret detection, argument parsing, output, the TUI's drawing, the
  tutorial, packaging, evaluations and benches: text or presentation without
  shared state. The TUI writes through the store, registry and installer
  operations that are modelled.
- The numbers of embeddings and vector search: the nearest document is any.
- The upgrade of old databases (`schema.rs`): it runs once per database inside
  one transaction; that two processes may begin it at once is listed as a
  hazard.
- Plain listings (`dump`, `history`, `session_list`, `stats`) change nothing.
- Protocol negotiation, tool schemas and the wording of results of the MCP
  server. The effect of its writes on a store is `MemoryGraph`, the export is
  `TeamSync`; `McpServer` decides which store and which file.
- In context selection: topics, `--explain` reasons, sessions, the filter on trust
  (`filter_trusted_context` takes memories out of an answer that is already made),
  collisions of the hashes of routes, and the files of a question beyond 256.
- Temporary paths and statistics in the registry.
- Two commands at once on the configuration of an editor; the files `init`
  creates from templates.

## Plan

Models of the upgrade of old databases by two processes, and of `init` as a whole.
