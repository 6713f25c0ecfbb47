--------------------------- MODULE SemanticIndex ---------------------------
(***************************************************************************)
(* The local semantic index (src/store/semantic.rs): a row of              *)
(* semantic_state, the rows of semantic_records, one index file per        *)
(* generation and the lock file.  Rebuilds, clears and searches run in     *)
(* several processes while other commands write memories.  A rebuild and a *)
(* clear hold the lock for all of their steps, a search takes it only to   *)
(* refresh.  A step is one transaction, one query or one file operation.   *)
(*                                                                         *)
(* An embedding is the document it was computed from, and a fingerprint is *)
(* the document.  A process keeps the view of an index file it opened; a   *)
(* file never changes under its generation, so the view is its contents.   *)
(***************************************************************************)
EXTENDS Naturals, FiniteSets

CONSTANTS
  Procs,      \* processes
  Keys,       \* memory keys, numbered in their order
  Texts,      \* what a memory is embedded from: value, anchor and kind
  NoText,     \* no active memory for a key
  NoState,    \* no row in semantic_state
  NoProc,     \* nobody holds semantic.lock
  MaxWrites,  \* bound on the writes to memories
  MaxCommands,\* bound on the builds, clears and searches started
  MaxCrashes  \* bound on the interrupted or failed commands

ASSUME KeysAssumption == Keys \subseteq Nat /\ IsFiniteSet(Keys)
ASSUME SemanticAssumption ==
  /\ NoText \notin Texts
  /\ NoProc \notin Procs
  /\ MaxWrites \in Nat /\ MaxCommands \in Nat /\ MaxCrashes \in Nat

VARIABLES
  corpus,   \* key -> text of its active memory, or NoText
  state,    \* the row of semantic_state
  records,  \* the rows of semantic_records
  files,    \* the index files
  built,    \* index files written so far: the last generation
  lock,     \* who holds semantic.lock
  cmd,      \* what each process is doing
  writes, started, crashes  \* counters of the bounds

vars == <<corpus, state, records, files, built, lock, cmd, writes, started, crashes>>

Corpora == [Keys -> Texts \cup {NoText}]
Document == [id : Nat, key : Keys, text : Texts]
State == [gen : Nat, dirty : BOOLEAN, empty : BOOLEAN, born : Nat]
File == [gen : Nat, docs : SUBSET Document]
Idle == [pc |-> "idle"]

ASSUME NoStateAssumption == NoState \notin State \cup Corpora

----------------------------------------------------------------------------
Active(c) == {k \in Keys : c[k] # NoText}

\* Documents are numbered from 1 in the order of their keys.
Documents(c) ==
  {[id |-> Cardinality({j \in Active(c) : j <= k}), key |-> k, text |-> c[k]] :
     k \in Active(c)}

HasFile(g) == \E f \in files : f.gen = g
DocsOf(g) == UNION {f.docs : f \in {x \in files : x.gen = g}}

NeedsRefresh_FileOnly(s) == ~HasFile(s.gen)

NeedsRefresh(s) == s.dirty \/ ~HasFile(s.gen)

\* The vectors of a rebuild: one of the old index if its record has the
\* same key and fingerprint, one computed anew otherwise.
Vectors_ByKeyOnly(c, old) ==
  {LET reused == {v \in old : \E r \in records : /\ r.key = d.key
                                                  /\ r.id = v.id}
   IN IF reused = {} THEN d ELSE [(CHOOSE v \in reused : TRUE) EXCEPT !.id = d.id] :
     d \in Documents(c)}

Vectors(c, old) ==
  {LET reused == {v \in old : \E r \in records : /\ r.key = d.key
                                                  /\ r.text = d.text
                                                  /\ r.id = v.id}
   IN IF reused = {} THEN d ELSE [(CHOOSE v \in reused : TRUE) EXCEPT !.id = d.id] :
     d \in Documents(c)}

Becomes(p, c) == cmd' = [cmd EXCEPT ![p] = c]

Init ==
  /\ corpus = [k \in Keys |-> NoText]
  /\ state = NoState
  /\ records = {}
  /\ files = {}
  /\ built = 0
  /\ lock = NoProc
  /\ cmd = [p \in Procs |-> Idle]
  /\ writes = 0
  /\ started = 0
  /\ crashes = 0

----------------------------------------------------------------------------
\* A transaction of the store that writes memories marks the row dirty, if
\* there is one.
Dirtied(s) == IF s = NoState THEN s ELSE [s EXCEPT !.dirty = TRUE]

Write(k, t) ==
  /\ writes < MaxWrites
  /\ writes' = writes + 1
  /\ corpus' = [corpus EXCEPT ![k] = t]
  /\ state' = Dirtied(state)
  /\ UNCHANGED <<records, files, built, lock, cmd, started, crashes>>

(* semantic_rebuild and semantic_clear, asked for by a user, and           *)
(* find_semantic: nothing without an index, a refresh if it is stale.      *)
Start(p, c) ==
  /\ cmd[p] = Idle
  /\ started < MaxCommands
  /\ started' = started + 1
  /\ Becomes(p, c)
  /\ UNCHANGED <<corpus, state, records, files, built, lock, writes, crashes>>

StartBuild(p) == Start(p, [pc |-> "lock", auto |-> FALSE, begun |-> writes])

StartClear(p) == Start(p, [pc |-> "clear"])

StartSearch(p) ==
  /\ state # NoState
  /\ Start(p, IF NeedsRefresh(state)
              THEN [pc |-> "lock", auto |-> TRUE, begun |-> writes]
              ELSE [pc |-> "open", state |-> state, begun |-> writes])

(* semantic_rebuild_inner.  Under the lock a search looks again whether    *)
(* there is still something to refresh.                                    *)
Lock_NoSecondLook(p) ==
  /\ cmd[p].pc = "lock"
  /\ lock = NoProc
  /\ lock' = p
  /\ Becomes(p, [pc |-> "read", auto |-> cmd[p].auto, begun |-> cmd[p].begun,
                 old |-> IF state = NoState THEN 0 ELSE state.gen])
  /\ UNCHANGED <<corpus, state, records, files, built, writes, started, crashes>>

Lock(p) ==
  /\ cmd[p].pc = "lock"
  /\ lock = NoProc
  /\ IF cmd[p].auto /\ (state = NoState \/ ~NeedsRefresh(state))
     THEN /\ Becomes(p, [pc |-> "again", begun |-> cmd[p].begun])
          /\ UNCHANGED lock
     ELSE /\ lock' = p
          /\ Becomes(p, [pc |-> "read", auto |-> cmd[p].auto, begun |-> cmd[p].begun,
                         old |-> IF state = NoState THEN 0 ELSE state.gen])
  /\ UNCHANGED <<corpus, state, records, files, built, writes, started, crashes>>

\* Read the active memories and prepare their vectors.
ReadCorpus(p) ==
  /\ cmd[p].pc = "read"
  /\ Becomes(p, [pc |-> "save", auto |-> cmd[p].auto, begun |-> cmd[p].begun,
                 old |-> cmd[p].old, read |-> corpus,
                 docs |-> Vectors(corpus, DocsOf(cmd[p].old))])
  /\ UNCHANGED <<corpus, state, records, files, built, lock, writes, started, crashes>>

\* Write a temporary file and rename it to a new generation.
SaveIndex_OldName(p) ==
  /\ cmd[p].pc = "save"
  /\ files' = files \cup {[gen |-> built + 1, docs |-> cmd[p].docs]}
  /\ Becomes(p, [pc |-> "commit", auto |-> cmd[p].auto, begun |-> cmd[p].begun,
                 old |-> cmd[p].old, read |-> cmd[p].read, gen |-> built + 1])
  /\ UNCHANGED <<corpus, state, records, built, lock, writes, started, crashes>>

SaveIndex(p) ==
  /\ cmd[p].pc = "save"
  /\ built' = built + 1
  /\ files' = files \cup {[gen |-> built + 1, docs |-> cmd[p].docs]}
  /\ Becomes(p, [pc |-> "commit", auto |-> cmd[p].auto, begun |-> cmd[p].begun,
                 old |-> cmd[p].old, read |-> cmd[p].read, gen |-> built + 1])
  /\ UNCHANGED <<corpus, state, records, lock, writes, started, crashes>>

\* The transaction reads the memories again and gives up if they changed.
Commit_Unverified(p) ==
  /\ cmd[p].pc = "commit"
  /\ records' = Documents(cmd[p].read)
  /\ state' = [gen |-> cmd[p].gen, dirty |-> FALSE,
               empty |-> Active(cmd[p].read) = {}, born |-> writes]
  /\ Becomes(p, [pc |-> "sweep", auto |-> cmd[p].auto, begun |-> cmd[p].begun,
                 old |-> cmd[p].old])
  /\ UNCHANGED <<corpus, files, built, lock, writes, started, crashes>>

Commit(p) ==
  /\ cmd[p].pc = "commit"
  /\ IF corpus = cmd[p].read
     THEN /\ records' = Documents(cmd[p].read)
          /\ state' = [gen |-> cmd[p].gen, dirty |-> FALSE,
                       empty |-> Active(cmd[p].read) = {}, born |-> writes]
          /\ Becomes(p, [pc |-> "sweep", auto |-> cmd[p].auto, begun |-> cmd[p].begun,
                         old |-> cmd[p].old])
          /\ UNCHANGED <<files, lock>>
     ELSE /\ files' = {f \in files : f.gen # cmd[p].gen}
          /\ lock' = NoProc
          /\ Becomes(p, Idle)
          /\ UNCHANGED <<records, state>>
  /\ UNCHANGED <<corpus, built, writes, started, crashes>>

\* Remove the file of the generation before and release the lock.
Sweep_Nothing(p) ==
  /\ cmd[p].pc = "sweep"
  /\ lock' = NoProc
  /\ Becomes(p, IF cmd[p].auto THEN [pc |-> "again", begun |-> cmd[p].begun] ELSE Idle)
  /\ UNCHANGED <<corpus, state, records, files, built, writes, started, crashes>>

Sweep_KeepsLock(p) ==
  /\ cmd[p].pc = "sweep"
  /\ files' = {f \in files : f.gen # cmd[p].old}
  /\ Becomes(p, IF cmd[p].auto THEN [pc |-> "again", begun |-> cmd[p].begun] ELSE Idle)
  /\ UNCHANGED <<corpus, state, records, built, lock, writes, started, crashes>>

Sweep(p) ==
  /\ cmd[p].pc = "sweep"
  /\ files' = {f \in files : f.gen # cmd[p].old}
  /\ lock' = NoProc
  /\ Becomes(p, IF cmd[p].auto THEN [pc |-> "again", begun |-> cmd[p].begun] ELSE Idle)
  /\ UNCHANGED <<corpus, state, records, built, writes, started, crashes>>

(* semantic_clear: the rows in a transaction, then every index file.       *)
Clear(p) ==
  /\ cmd[p].pc = "clear"
  /\ lock = NoProc
  /\ lock' = p
  /\ records' = {}
  /\ state' = NoState
  /\ Becomes(p, [pc |-> "remove"])
  /\ UNCHANGED <<corpus, files, built, writes, started, crashes>>

RemoveFiles(p) ==
  /\ cmd[p].pc = "remove"
  /\ files' = {}
  /\ lock' = NoProc
  /\ Becomes(p, Idle)
  /\ UNCHANGED <<corpus, state, records, built, writes, started, crashes>>

(* The rest of find_semantic.  After a refresh the row is read again.      *)
ReadAgain(p) ==
  /\ cmd[p].pc = "again"
  /\ Becomes(p, IF state = NoState THEN Idle
                ELSE [pc |-> "open", state |-> state, begun |-> cmd[p].begun])
  /\ UNCHANGED <<corpus, state, records, files, built, lock, writes, started, crashes>>

\* Open the file of the row, unless there is nothing in it or it is gone,
\* and let it name the best document for the query.
OpenIndex(p) ==
  /\ cmd[p].pc = "open"
  /\ LET s == cmd[p].state IN
     IF s.empty \/ ~HasFile(s.gen)
     THEN Becomes(p, Idle)
     ELSE \E hit \in DocsOf(s.gen) :
            Becomes(p, [pc |-> "fetch", state |-> s, begun |-> cmd[p].begun, hit |-> hit])
  /\ UNCHANGED <<corpus, state, records, files, built, lock, writes, started, crashes>>

\* Join the id with its record and the active memory of that key, and drop
\* it if the memory is not what the record was made from.  FetchHit
\* returns Answer(hit.id); nothing keeps it.
Found_Unchecked(id) == {r \in records : r.id = id /\ corpus[r.key] # NoText}

Found(id) == {r \in records : r.id = id /\ corpus[r.key] = r.text}

Answer(id) == {[key |-> r.key, text |-> corpus[r.key]] : r \in Found(id)}

FetchHit(p) ==
  /\ cmd[p].pc = "fetch"
  /\ Becomes(p, Idle)
  /\ UNCHANGED <<corpus, state, records, files, built, lock, writes, started, crashes>>

\* A killed process or a failed embedding or file operation: the lock file
\* is closed.
Crash(p) ==
  /\ cmd[p] # Idle
  /\ crashes < MaxCrashes
  /\ crashes' = crashes + 1
  /\ lock' = IF lock = p THEN NoProc ELSE lock
  /\ Becomes(p, Idle)
  /\ UNCHANGED <<corpus, state, records, files, built, writes, started>>

Continue(p) ==
  \/ Lock(p)
  \/ ReadCorpus(p)
  \/ SaveIndex(p)
  \/ Commit(p)
  \/ Sweep(p)
  \/ Clear(p)
  \/ RemoveFiles(p)
  \/ ReadAgain(p)
  \/ OpenIndex(p)
  \/ FetchHit(p)

Next ==
  \/ \E k \in Keys, t \in Texts \cup {NoText} : Write(k, t)
  \/ \E p \in Procs :
       \/ StartBuild(p)
       \/ StartClear(p)
       \/ StartSearch(p)
       \/ Continue(p)
       \/ Crash(p)

Spec == Init /\ [][Next]_vars

\* A command that started runs on, and gets the lock once it is free for good.
FairSpec == Spec /\ \A p \in Procs : WF_vars(Continue(p))

----------------------------------------------------------------------------
(* Correctness.                                                            *)

TypeOK ==
  /\ corpus \in Corpora
  /\ state \in State \cup {NoState}
  /\ records \subseteq Document
  /\ files \subseteq File
  /\ \A f, g \in files : f.gen = g.gen => f = g
  /\ built \in Nat
  /\ \A f \in files : f.gen \in 1..built
  /\ lock \in Procs \cup {NoProc}
  /\ writes \in 0..MaxWrites
  /\ started \in 0..MaxCommands
  /\ crashes \in 0..MaxCrashes

\* The file of the committed generation exists, and every vector in it
\* stands under the id of the record it was made from: a kill between the
\* rename and the commit, or between the commit and the removal of the old
\* file, loses nothing, and a reused vector is the right one
\* (semantic.rs:395-470).
IndexMatchesRecords ==
  state # NoState =>
    /\ HasFile(state.gen)
    /\ DocsOf(state.gen) = records
    /\ state.empty <=> records = {}

\* A hit that a search looks up while its generation is still the committed
\* one leads to the memory whose text was embedded, unchanged, or to none
\* (semantic.rs:640-660).
AnswerIsTheHit ==
  \A p \in Procs :
    cmd[p].pc = "fetch" /\ state # NoState /\ state.gen = cmd[p].state.gen
    => Answer(cmd[p].hit.id) \subseteq {[key |-> cmd[p].hit.key, text |-> cmd[p].hit.text]}

\* A search answers from an index that was current at some time after the
\* search began ("the next ambiguous or zero-hit lexical search refreshes the
\* index automatically", README.md:78).
AnswersAreFresh ==
  \A p \in Procs : cmd[p].pc = "fetch" => cmd[p].state.born >= cmd[p].begun

\* Only a build that a user asked for turns retrieval on: a search that
\* wanted to refresh while the index was cleared does not bring it back
\* ("`semantic clear` disables semantic retrieval", README.md:81).
OnlyBuildEnables ==
  [][state = NoState /\ state' # NoState =>
       \E p \in Procs : lock = p /\ cmd[p].pc = "commit" /\ ~cmd[p].auto]_vars

\* When nothing runs and nothing failed, the one index file is that of the
\* committed generation: rebuilds leave no file behind, given up or replaced.
NoStrayIndexes ==
  (\A p \in Procs : cmd[p] = Idle) /\ crashes = 0
  => {f.gen : f \in files} = IF state = NoState THEN {} ELSE {state.gen}

\* A command that started ends: the lock is given back on every path.
CommandsEnd == \A p \in Procs : cmd[p] # Idle ~> cmd[p] = Idle

\* The index and its dirty mark are the copy and the mark of CorpusIndex.
Copy(docs) ==
  [k \in Keys |-> IF \E d \in docs : d.key = k
                  THEN (CHOOSE d \in docs : d.key = k).text ELSE NoText]

Promise == INSTANCE CorpusIndex WITH
  Nothing <- NoState,
  served <- IF state = NoState THEN NoState ELSE Copy(DocsOf(state.gen)),
  stale <- state # NoState /\ state.dirty

\* Writers, rebuilds and clears, killed anywhere, do no more than write,
\* refresh from one instant and disable: an index not marked dirty is the
\* store's active memories.
KeepsPromise == Promise!Spec
=============================================================================
