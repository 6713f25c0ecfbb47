------------------------------ MODULE Registry ------------------------------
(***************************************************************************)
(* The list of projects of a user (src/registry.rs).  Checkouts of git     *)
(* repositories are cloned to paths and moved between them; commands and   *)
(* the TUI register the checkout they run in.  Every change is a load, an  *)
(* edit and a rename under one file lock, hence one action.                *)
(* Left out: temporary paths, which are not recorded, and the statistics   *)
(* of a record.                                                            *)
(***************************************************************************)
EXTENDS Integers, Sequences, SequencesExt, FiniteSets, FiniteSetsExt, Filtering

CONSTANTS
  Checkouts,  \* working copies
  Paths,      \* canonical paths they may be at
  Nowhere,    \* the place of a checkout that is not there
  RemoteOf,   \* checkout -> its remote, or NoRemote
  NoRemote,
  MaxMoves,   \* bound on clones and moves
  MaxCommands,\* bound on the changes of the registry
  MaxTime     \* bound on the clock, in seconds

ASSUME RegistryAssumption == Nowhere \notin Paths

VARIABLES
  place,      \* checkout -> path or Nowhere
  ready,      \* checkouts with a database
  projects,   \* projects.json, the records most recent first
  loaded,     \* a registry that a program has loaded and may save
  clock,
  moves,
  commands

registryVars == <<place, ready, projects, loaded, clock, moves, commands>>

Exists(p) == \E c \in Checkouts : place[c] = p
HasDb(p) == \E c \in ready : place[c] = p
At(p) == CHOOSE c \in Checkouts : place[c] = p

\* generate_id: a hash of both.
Id(remote, p) == <<remote, p>>

Records(s) == ToSet(s)

Counted == commands < MaxCommands /\ commands' = commands + 1

----------------------------------------------------------------------------
(* What users do with checkouts: external to the program.                  *)

Move(c, p) ==
  /\ moves < MaxMoves
  /\ p # place[c] /\ (p = Nowhere \/ ~Exists(p))
  /\ place' = [place EXCEPT ![c] = p]
  /\ moves' = moves + 1
  /\ UNCHANGED <<ready, projects, loaded, clock, commands>>

----------------------------------------------------------------------------
(* register.                                                               *)

\* A record is of this checkout if it has its path, or its remote and a path
\* where nothing is any more: the checkout was moved.
IsSame_AnyClone(old, rec) ==
  \/ old.path = rec.path
  \/ old.remote # NoRemote /\ old.remote = rec.remote

IsSame(old, rec) ==
  \/ old.path = rec.path
  \/ old.remote # NoRemote /\ old.remote = rec.remote /\ ~Exists(old.path)

Kept(old, rec) ==
  IF old.path # rec.path /\ ~Exists(old.path) /\ old.remote = rec.remote THEN old.id ELSE rec.id

\* The first such record is replaced; a stable sort by last access, most
\* recent first, then moves it behind the records of the same second that
\* were before it.
Registered_Unsorted(rec) ==
  LET found == {i \in DOMAIN projects : IsSame(projects[i], rec)} IN
  IF found = {} THEN Append(projects, rec) ELSE [projects EXCEPT ![Min(found)] = rec]

Registered(rec) ==
  LET found == {i \in DOMAIN projects : IsSame(projects[i], rec)}
      at == IF found = {} THEN Len(projects) + 1 ELSE Min(found)
      rest == IF found = {} THEN projects ELSE RemoveAt(projects, at)
      front == Cardinality({i \in 1..at - 1 : projects[i].accessed >= rec.accessed})
      id == IF found = {} THEN rec.id ELSE Kept(projects[at], rec)
  IN InsertAt(rest, front + 1, [rec EXCEPT !.id = id])

RecordOf(p, now) ==
  [id |-> Id(RemoteOf[At(p)], p), path |-> p, remote |-> RemoteOf[At(p)], accessed |-> now]

RegisterAt(p) ==
  \E now \in {clock, clock + 1} :
    /\ now <= MaxTime
    /\ clock' = now
    /\ projects' = Registered(RecordOf(p, now))

\* init_project creates the database and registers.
InitProject(p) ==
  /\ Exists(p)
  /\ ready' = ready \cup {At(p)}
  /\ RegisterAt(p)
  /\ Counted
  /\ UNCHANGED <<place, loaded, moves>>

\* The projects command, and the TUI when it starts or reloads.
Register(p) ==
  /\ HasDb(p)
  /\ RegisterAt(p)
  /\ Counted
  /\ UNCHANGED <<place, ready, loaded, moves>>

\* prune keeps what still has a database.
Prunable(p) == ~HasDb(p)

Prune ==
  /\ projects' = Filtered(projects, {r \in Records(projects) : ~Prunable(r.path)})
  /\ projects' # projects
  /\ Counted
  /\ UNCHANGED <<place, ready, loaded, clock, moves>>

\* deregister: every record with this id or path.
Deregister(x) ==
  /\ projects' = Filtered(projects, {r \in Records(projects) : r.id # x /\ r.path # x})
  /\ projects' # projects
  /\ Counted
  /\ UNCHANGED <<place, ready, loaded, clock, moves>>

----------------------------------------------------------------------------
(* A program that holds a registry and saves it later.                     *)

Load ==
  /\ loaded # projects
  /\ loaded' = projects
  /\ Counted
  /\ UNCHANGED <<place, ready, projects, clock, moves>>

\* save refuses if a record that is there now is not in what it would write.
MaySave ==
  \A old \in Records(projects) :
    \E r \in Records(loaded) : r.id = old.id /\ r.path = old.path

Save ==
  /\ MaySave
  /\ projects' = loaded
  /\ Counted
  /\ UNCHANGED <<place, ready, loaded, clock, moves>>

----------------------------------------------------------------------------
RegistryInit ==
  /\ place \in {f \in [Checkouts -> Paths \cup {Nowhere}] :
                  \A c, d \in Checkouts : c # d /\ f[c] # Nowhere => f[c] # f[d]}
  /\ ready = {}
  /\ projects = <<>>
  /\ loaded = <<>>
  /\ clock = 0
  /\ moves = 0
  /\ commands = 0

RegistryNext ==
  \/ \E c \in Checkouts, p \in Paths : Move(c, p)
  \/ \E c \in Checkouts : Move(c, Nowhere)
  \/ \E p \in Paths : InitProject(p) \/ Register(p)
  \/ Prune
  \/ \E r \in Records(projects) : Deregister(r.id) \/ Deregister(r.path)
  \/ Load \/ Save

----------------------------------------------------------------------------
(* Correctness.                                                            *)

\* A record of a path where the database of that repository lives.
Live(r) == HasDb(r.path) /\ RemoteOf[At(r.path)] = r.remote

\* A project that is there keeps its record: no other registration, no
\* pruning and no save of an older list removes it, only deregister with its
\* id or path (registry.rs:60-75, 293).
LiveProjectsStay ==
  [][\A r \in Records(projects) :
       Live(r) /\ place' = place =>
         \/ \E s \in Records(projects') : s.path = r.path
         \/ Deregister(r.id) \/ Deregister(r.path)]_registryVars

\* Registering again finds the record of the path ("Must not duplicate
\* existing project", tests/registry_test.rs:136).
NoPathTwice ==
  \A i, j \in DOMAIN projects : i # j => projects[i].path # projects[j].path
=============================================================================
