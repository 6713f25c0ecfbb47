--------------------------- MODULE TeamSyncProofs ---------------------------
(***************************************************************************)
(* Theorems about TeamSync: its types for any number of processes, and,    *)
(* when one command runs at a time, that the sync's no-op check is sound,  *)
(* that the file is the store's content whenever nothing runs, and that    *)
(* TeamSync implements SharedRules.                                        *)
(***************************************************************************)
EXTENDS TeamSync, TLAPS

----------------------------------------------------------------------------
(* Type correctness needs what the commands carry with them.               *)

Carries(p, steps) == cmd[p].pc \in steps

CmdTypes ==
  /\ cmd = [p \in Procs |-> cmd[p]]
  /\ \A p \in Procs :
       /\ Carries(p, {"rename", "fingerprint", "generation", "decide", "import"})
            => cmd[p].file \in File
       /\ Carries(p, {"fingerprint"}) => cmd[p].accepted \in BOOLEAN
       /\ Carries(p, {"record"}) => cmd[p].state \in SyncState /\ cmd[p].state.gen <= gen

TypeInv == TypeOK /\ CmdTypes

\* What a file is made of.
LEMMA FileParts ==
  ASSUME NEW f \in File
  PROVE  f.rules \in Content /\ f.links \in SUBSET Links /\ f.alts \in SUBSET Keys
  BY DEF File

\* Every write is a step to a store of the right type, and one that leaves the
\* generation alone leaves the store alone.
LEMMA WriteWrote ==
  ASSUME db \in Stores, NEW p \in Procs, Write(p)
  PROVE  \E d \in Stores, bumps \in BOOLEAN : Wrote(p, d, bumps) /\ (~bumps => d = db)
<1>1. db = [rules |-> db.rules, links |-> db.links]
      /\ db.rules \in [Keys -> Texts \cup {NoRule}] /\ db.links \subseteq Links
  BY DEF Stores, Content
<1>2. ASSUME NEW S \in SUBSET Keys, NEW rows \in [S -> Texts],
             NEW new \in SUBSET {l \in Links : l[1] \in S}, Save(p, rows, new)
      PROVE  \E d \in Stores, bumps \in BOOLEAN : Wrote(p, d, bumps) /\ (~bumps => d = db)
  <2> DEFINE d == [rules |-> [k \in Keys |-> IF k \in DOMAIN rows THEN rows[k] ELSE db.rules[k]],
                   links |-> db.links \cup new]
  <2>1. d \in Stores
    BY <1>1, <1>2 DEF Stores, Content
  <2>2. Wrote(p, d, TRUE)
    BY <1>2 DEF Save
  <2> QED
    BY <2>1, <2>2
<1>3. ASSUME NEW k \in Keys, Del(p, k)
      PROVE  \E d \in Stores, bumps \in BOOLEAN : Wrote(p, d, bumps) /\ (~bumps => d = db)
  <2> DEFINE d == [rules |-> [db.rules EXCEPT ![k] = NoRule],
                   links |-> IF Exists(k) THEN {l \in db.links : l[1] # k /\ l[2] # k}
                             ELSE db.links]
  <2>1. d \in Stores
    BY <1>1 DEF Stores, Content
  <2>2. Wrote(p, d, Exists(k))
    BY <1>3 DEF Del
  <2>3. ~Exists(k) => d = db
    <3>1. ~Exists(k) => [db.rules EXCEPT ![k] = NoRule] = db.rules
      BY <1>1 DEF Exists
    <3> QED
      BY <1>1, <3>1
  <2>4. Exists(k) \in BOOLEAN
    BY DEF Exists
  <2> QED
    BY <2>1, <2>2, <2>3, <2>4
<1>4. ASSUME NEW l \in Links, NEW v \in Texts, Relate(p, l, v)
      PROVE  \E d \in Stores, bumps \in BOOLEAN : Wrote(p, d, bumps) /\ (~bumps => d = db)
  <2> DEFINE d == [rules |-> [db.rules EXCEPT ![l[2]] = v], links |-> db.links \cup {l}]
  <2>1. d \in Stores
    BY <1>1 DEF Stores, Content
  <2>2. Wrote(p, d, d # db)
    BY <1>4 DEF Relate
  <2> QED
    BY <2>1, <2>2
<1>5. ASSUME NEW l \in Links, Unrelate(p, l)
      PROVE  \E d \in Stores, bumps \in BOOLEAN : Wrote(p, d, bumps) /\ (~bumps => d = db)
  <2> DEFINE d == [db EXCEPT !.links = @ \ {l}]
  <2>1. d = [rules |-> db.rules, links |-> db.links \ {l}]
    BY <1>1
  <2>2. d \in Stores /\ (l \notin db.links => d = db)
    BY <1>1, <2>1 DEF Stores, Content
  <2>3. Wrote(p, d, l \in db.links)
    BY <1>5 DEF Unrelate
  <2>4. (l \in db.links) \in BOOLEAN
    OBVIOUS
  <2> HIDE DEF d
  <2> QED
    BY <2>2, <2>3, <2>4
<1> QED
  BY <1>2, <1>3, <1>4, <1>5 DEF Write

\* A step of one process keeps what the others carry if the generation does
\* not fall.
LEMMA OthersCarry ==
  ASSUME CmdTypes, NEW p \in Procs, NEW c, Becomes(p, c),
         gen \in Nat, gen' \in Nat, gen <= gen',
         c.pc \in {"rename", "fingerprint", "generation", "decide", "import"} => c.file \in File,
         c.pc = "fingerprint" => c.accepted \in BOOLEAN,
         c.pc = "record" => c.state \in SyncState /\ c.state.gen <= gen'
  PROVE  CmdTypes'
<1>1. cmd' = [q \in Procs |-> IF q = p THEN c ELSE cmd[q]]
  BY DEF Becomes, CmdTypes
<1>2. \A q \in Procs : cmd'[q] = IF q = p THEN c ELSE cmd[q]
  BY <1>1
<1>3. ASSUME NEW q \in Procs, q # p, cmd[q].pc = "record"
      PROVE  cmd[q].state \in SyncState /\ cmd[q].state.gen <= gen'
  BY <1>3 DEF CmdTypes, Carries, SyncState
<1>4. cmd' = [q \in Procs |-> cmd'[q]]
  BY <1>1
<1>5. ASSUME NEW q \in Procs
      PROVE  /\ Carries(q, {"rename", "fingerprint", "generation", "decide", "import"})'
                  => cmd'[q].file \in File
             /\ Carries(q, {"fingerprint"})' => cmd'[q].accepted \in BOOLEAN
             /\ Carries(q, {"record"})' => cmd'[q].state \in SyncState /\ cmd'[q].state.gen <= gen'
  <2>1. CASE q = p
    BY <1>2, <2>1 DEF Carries
  <2>2. CASE q # p
    BY <1>2, <1>3, <2>2 DEF Carries, CmdTypes
  <2> QED
    BY <2>1, <2>2
<1> QED
  BY <1>4, <1>5 DEF CmdTypes

LEMMA InitTypeInv == Init => TypeInv
<1> SUFFICES ASSUME Init PROVE TypeInv
  OBVIOUS
<1>1. TypeOK
  <2>1. db \in Stores /\ spared \in SUBSET Links
    BY DEF Init, Content, Stores
  <2>2. edits \in 0..MaxEdits /\ crashes \in 0..MaxCrashes
    BY TeamSyncAssumption DEF Init
  <2> QED
    BY <2>1, <2>2 DEF Init, TypeOK
<1>2. CmdTypes
  BY DEF Init, CmdTypes, Carries, Idle
<1> QED
  BY <1>1, <1>2 DEF TypeInv

LEMMA WriteType ==
  ASSUME TypeInv, NEW p \in Procs, NEW d \in Stores, NEW bumps \in BOOLEAN,
         Wrote(p, d, bumps)
  PROVE  TypeInv'
<1>1. gen' \in Nat /\ gen <= gen' /\ db' \in Stores /\ spared' \in SUBSET Links
  BY DEF TypeInv, TypeOK, Wrote
<1>2. synced' = synced /\ (synced # NoState => synced.gen \in Nat)
  BY TeamSyncAssumption DEF TypeInv, TypeOK, Wrote, SyncState
<1>3. TypeOK'
  BY <1>1, <1>2 DEF TypeInv, TypeOK, Wrote
<1>4. CmdTypes'
  BY <1>1, OthersCarry DEF Wrote, TypeInv, TypeOK
<1> QED
  BY <1>3, <1>4 DEF TypeInv

LEMMA ImportType ==
  ASSUME TypeInv, NEW p \in Procs, Import(p)
  PROVE  TypeInv'
<1>1. cmd[p].file \in File
  BY DEF TypeInv, CmdTypes, Carries, Import
<1>2. gen' \in Nat /\ gen <= gen' /\ db' \in Stores /\ spared' \in SUBSET Links
  <2>1. Found \subseteq Links
    BY DEF Found, TypeInv, TypeOK, Stores
  <2>2. db' = [rules |-> cmd[p].file.rules, links |-> cmd[p].file.links \cup Found]
        /\ spared' = (spared \cup Found) \cap db'.links
    BY DEF Import
  <2>3. db' \in Stores /\ spared' \in SUBSET Links
    BY <1>1, <2>1, <2>2, FileParts DEF Stores, TypeInv, TypeOK
  <2>4. gen' \in Nat /\ gen <= gen'
    BY DEF TypeInv, TypeOK, Import
  <2> QED
    BY <2>3, <2>4
<1>3. synced' = synced /\ (synced # NoState => synced.gen \in Nat)
  BY TeamSyncAssumption DEF TypeInv, TypeOK, Import, SyncState
<1>4. TypeOK'
  BY <1>2, <1>3 DEF TypeInv, TypeOK, Import
<1>5. CmdTypes'
  BY <1>1, <1>2, OthersCarry DEF Import, TypeInv, TypeOK
<1> QED
  BY <1>4, <1>5 DEF TypeInv

\* Every other step of a command leaves the store alone.
LEMMA QuietStepType ==
  ASSUME TypeInv, NEW p \in Procs, NEW accept \in BOOLEAN,
         \/ ShareIfFileExists(p) \/ StartExport(p) \/ Snapshot(p) \/ Rename(p)
         \/ Fingerprint(p) \/ Record(p) \/ UserSync(p, accept) \/ HookSync(p)
         \/ ReadGeneration(p) \/ Decide(p) \/ Crash(p)
  PROVE  TypeInv'
<1>1. gen \in Nat /\ gen' = gen /\ db' = db /\ spared' = spared
  BY DEF TypeInv, TypeOK, ShareIfFileExists, StartExport, Snapshot, Rename, Fingerprint,
         Record, UserSync, HookSync, StartSync, ReadGeneration, Decide, Crash
<1>2. CASE ShareIfFileExists(p)
  BY <1>1, <1>2, OthersCarry DEF ShareIfFileExists, TypeInv, TypeOK, Idle
<1>3. CASE StartExport(p)
  BY <1>1, <1>3, OthersCarry DEF StartExport, TypeInv, TypeOK
<1>4. CASE Snapshot(p)
  <2>1. Exported(db) \in File
    BY DEF Exported, File, Stores, TypeInv, TypeOK
  <2> QED
    BY <1>1, <1>4, <2>1, OthersCarry DEF Snapshot, TypeInv, TypeOK
<1>5. CASE Rename(p)
  <2>1. cmd[p].file \in File
    BY <1>5 DEF TypeInv, CmdTypes, Carries, Rename
  <2>2. CmdTypes'
    <3> DEFINE c == [pc |-> "fingerprint", file |-> cmd[p].file, accepted |-> FALSE]
    <3>1. Becomes(p, c) /\ c.pc = "fingerprint" /\ c.file \in File /\ c.accepted \in BOOLEAN
      BY <1>5, <2>1 DEF Rename
    <3> HIDE DEF c
    <3> QED
      BY <1>1, <3>1, OthersCarry DEF TypeInv
  <2> QED
    BY <1>1, <1>5, <2>1, <2>2 DEF Rename, TypeInv, TypeOK
<1>6. CASE Fingerprint(p)
  <2>1. cmd[p].file \in File /\ cmd[p].accepted \in BOOLEAN
    BY <1>6 DEF TypeInv, CmdTypes, Carries, Fingerprint
  <2>2. [file |-> cmd[p].file, gen |-> gen, accepted |-> cmd[p].accepted] \in SyncState
    BY <1>1, <2>1 DEF SyncState
  <2> QED
    BY <1>1, <1>6, <2>2, OthersCarry DEF Fingerprint, TypeInv, TypeOK
<1>7. CASE Record(p)
  <2>1. synced' \in SyncState /\ synced'.gen <= gen'
    BY <1>1, <1>7 DEF TypeInv, CmdTypes, Carries, Record
  <2>2. CmdTypes'
    BY <1>1, <1>7, OthersCarry DEF Record, TypeInv, TypeOK, Idle
  <2> QED
    BY <1>1, <1>7, <2>1, <2>2 DEF Record, TypeInv, TypeOK
<1>8. CASE UserSync(p, accept) \/ HookSync(p)
  <2>1. \E a \in BOOLEAN : StartSync(p, a)
    BY <1>8 DEF UserSync, HookSync
  <2>2. PICK a \in BOOLEAN : StartSync(p, a)
    BY <2>1
  <2>3. CmdTypes'
    BY <1>1, <2>2, OthersCarry DEF StartSync, TypeInv, TypeOK
  <2> QED
    BY <1>1, <1>8, <2>2, <2>3 DEF StartSync, UserSync, HookSync, TypeInv, TypeOK
<1>9. CASE ReadGeneration(p)
  <2>1. cmd[p].file \in File
    BY <1>9 DEF TypeInv, CmdTypes, Carries, ReadGeneration
  <2> QED
    BY <1>1, <1>9, <2>1, OthersCarry DEF ReadGeneration, TypeInv, TypeOK
<1>10. CASE Decide(p)
  <2>1. cmd[p].file \in File
    BY <1>10 DEF TypeInv, CmdTypes, Carries, Decide
  <2> QED
    BY <1>1, <1>10, <2>1, OthersCarry DEF Decide, TypeInv, TypeOK, Idle
<1>11. CASE Crash(p)
  <2>1. CmdTypes'
    BY <1>1, <1>11, OthersCarry DEF Crash, TypeInv, TypeOK, Idle
  <2>2. crashes' \in 0..MaxCrashes
    BY <1>11, TeamSyncAssumption DEF Crash, TypeInv, TypeOK
  <2> QED
    BY <1>1, <1>11, <2>1, <2>2 DEF Crash, TypeInv, TypeOK
<1> QED
  BY <1>2, <1>3, <1>4, <1>5, <1>6, <1>7, <1>8, <1>9, <1>10, <1>11

LEMMA NextTypeInv == TypeInv /\ [Next]_vars => TypeInv'
<1> SUFFICES ASSUME TypeInv, [Next]_vars PROVE TypeInv'
  OBVIOUS
<1>1. ASSUME NEW p \in Procs, Write(p) PROVE TypeInv'
  BY <1>1, WriteWrote, WriteType DEF TypeInv, TypeOK
<1>2. ASSUME NEW p \in Procs, StartExport(p) PROVE TypeInv'
  BY <1>2, QuietStepType
<1>3. ASSUME NEW p \in Procs, NEW accept \in BOOLEAN, UserSync(p, accept) PROVE TypeInv'
  BY <1>3, QuietStepType
<1>4. ASSUME NEW p \in Procs, HookSync(p) PROVE TypeInv'
  BY <1>4, QuietStepType
<1>5. ASSUME NEW p \in Procs, Continue(p) PROVE TypeInv'
  BY <1>5, QuietStepType, ImportType DEF Continue
<1>6. ASSUME NEW p \in Procs, Crash(p) PROVE TypeInv'
  BY <1>6, QuietStepType
<1>7. ASSUME NEW f \in GitFiles, GitEdit(f) PROVE TypeInv'
  <2>1. edits' \in 0..MaxEdits /\ file' \in File \cup {NoFile}
    BY <1>7, TeamSyncAssumption DEF GitEdit, TypeInv, TypeOK
  <2> QED
    BY <1>7, <2>1 DEF GitEdit, TypeInv, TypeOK, CmdTypes, Carries
<1>8. CASE UNCHANGED vars
  BY <1>8 DEF vars, TypeInv, TypeOK, CmdTypes, Carries
<1> QED
  BY <1>1, <1>2, <1>3, <1>4, <1>5, <1>6, <1>7, <1>8 DEF Next

\* However many commands interleave, crash and race with git, the store, the
\* file and the recorded state keep their types, and the recorded generation
\* is never ahead of the store's.
THEOREM TeamSyncTypes == Spec => []TypeOK
<1>1. TypeInv => TypeOK
  BY DEF TypeInv
<1> QED
  BY <1>1, InitTypeInv, NextTypeInv, PTL DEF Spec

----------------------------------------------------------------------------
(* One command at a time.                                                  *)

OneCommand == \A p, q \in Procs : p = q

\* What the process knows of the store between two of its own steps: nobody
\* else writes it, so the content it carries is still the store's.
Agrees(p) ==
  /\ Carries(p, {"rename"}) => cmd[p].file = Exported(db)
  /\ Carries(p, {"fingerprint"}) => Holds(cmd[p].file)
  /\ Carries(p, {"decide"}) => cmd[p].gen = gen
  /\ Carries(p, {"record"}) => /\ Holds(cmd[p].state.file)
                               /\ cmd[p].state.gen = gen

\* NoOpIsSound without its condition that nothing runs and the file matches.
RecordSound == synced # NoState /\ synced.gen = gen => Holds(synced.file)

SerialInv == TypeInv /\ RecordSound /\ \A p \in Procs : Agrees(p)

LEMMA InitSerial == Init => SerialInv
  BY InitTypeInv DEF Init, SerialInv, RecordSound, Agrees, Carries, Idle

\* What a step makes of the only process.
LEMMA Becoming ==
  ASSUME OneCommand, CmdTypes, NEW p \in Procs, NEW c, Becomes(p, c)
  PROVE  \A q \in Procs : cmd'[q] = c
  BY DEF OneCommand, CmdTypes, Becomes

\* Where the store does not change, what it holds it holds on: what it was
\* spared is spared as long as it is there.
LEMMA HoldsOn ==
  ASSUME NEW f, Holds(f), db' = db, spared \cap db.links \subseteq spared'
  PROVE  db'.rules = f.rules /\ f.links \subseteq db'.links /\ db'.links \subseteq f.links \cup spared'
  BY DEF Holds

LEMMA RecordStays ==
  ASSUME TypeInv, RecordSound, synced' = synced, gen' \in Nat,
         (gen' = gen /\ db' = db /\ spared \cap db.links \subseteq spared') \/ gen' = gen + 1
  PROVE  RecordSound'
<1>1. gen \in Nat /\ (synced # NoState => synced.gen <= gen /\ synced.gen \in Nat)
  BY DEF TypeInv, TypeOK, SyncState
<1>2. CASE gen' = gen + 1
  BY <1>1, <1>2 DEF RecordSound
<1>3. CASE gen' = gen /\ db' = db /\ spared \cap db.links \subseteq spared'
  BY <1>3, HoldsOn DEF RecordSound, Holds
<1> QED
  BY <1>2, <1>3

\* A write that leaves the generation alone leaves the store alone.
LEMMA WriteSerial ==
  ASSUME OneCommand, SerialInv, NEW p \in Procs, NEW d \in Stores, NEW bumps \in BOOLEAN,
         Wrote(p, d, bumps), ~bumps => d = db
  PROVE  SerialInv'
<1>1. TypeInv'
  BY WriteType DEF SerialInv
<1>2. RecordSound'
  <2>1. gen' \in Nat /\ synced' = synced
    BY <1>1 DEF TypeInv, TypeOK, Wrote
  <2>2. (gen' = gen /\ db' = db /\ spared \cap db.links \subseteq spared') \/ gen' = gen + 1
    BY DEF Wrote
  <2> QED
    BY <2>1, <2>2, RecordStays DEF SerialInv
<1>3. \A q \in Procs : cmd'[q].pc = "written"
  BY Becoming DEF Wrote, SerialInv, TypeInv
<1> QED
  BY <1>1, <1>2, <1>3 DEF SerialInv, Agrees, Carries

LEMMA ImportSerial ==
  ASSUME OneCommand, SerialInv, NEW p \in Procs, Import(p)
  PROVE  SerialInv'
<1> DEFINE f == cmd[p].file
           c == [pc |-> "fingerprint", file |-> f, accepted |-> f.alts # {}]
<1>1. TypeInv'
  BY ImportType DEF SerialInv
<1>2. /\ db' = [rules |-> f.rules, links |-> f.links \cup Found]
      /\ spared' = (spared \cup Found) \cap db'.links
      /\ synced' = synced /\ Becomes(p, c)
      /\ (db' = db /\ gen' = gen) \/ gen' = gen + 1
  BY DEF Import
<1>3. c.pc = "fingerprint" /\ c.file = f
  OBVIOUS
<1> HIDE DEF c
<1>4. RecordSound'
  <2>1. gen' \in Nat
    BY <1>1 DEF TypeInv, TypeOK
  <2>2. db' = db => spared \cap db.links \subseteq spared'
    BY <1>2
  <2> QED
    BY <1>2, <2>1, <2>2, RecordStays DEF SerialInv
<1>5. \A q \in Procs : cmd'[q] = c
  BY <1>2, Becoming DEF SerialInv, TypeInv
<1>6. db'.rules = f.rules /\ f.links \subseteq db'.links /\ db'.links \subseteq f.links \cup spared'
  BY <1>2
<1>7. \A q \in Procs : Agrees(q)'
  BY <1>3, <1>5, <1>6 DEF Agrees, Carries, Holds
<1> QED
  BY <1>1, <1>4, <1>7 DEF SerialInv

LEMMA QuietStepSerial ==
  ASSUME OneCommand, SerialInv, NEW p \in Procs, NEW accept \in BOOLEAN,
         \/ ShareIfFileExists(p) \/ StartExport(p) \/ Snapshot(p) \/ Rename(p)
         \/ Fingerprint(p) \/ Record(p) \/ UserSync(p, accept) \/ HookSync(p)
         \/ ReadGeneration(p) \/ Decide(p) \/ Crash(p)
  PROVE  SerialInv'
<1>1. TypeInv'
  BY QuietStepType DEF SerialInv
<1>2. gen' = gen /\ db' = db /\ spared' = spared
  BY DEF ShareIfFileExists, StartExport, Snapshot, Rename, Fingerprint, Record, UserSync,
         HookSync, StartSync, ReadGeneration, Decide, Crash
<1>3. CmdTypes
  BY DEF SerialInv, TypeInv
<1>4. CASE Record(p)
  <2>1. synced' = cmd[p].state /\ Holds(cmd[p].state.file)
    BY <1>4 DEF Record, SerialInv, Agrees, Carries
  <2>2. \A q \in Procs : cmd'[q].pc = "idle"
    BY <1>3, <1>4, Becoming DEF Record, Idle
  <2> QED
    BY <1>1, <1>2, <2>1, <2>2 DEF SerialInv, RecordSound, Agrees, Carries, Holds
<1>5. CASE ~Record(p)
  <2>1. RecordSound'
    BY <1>2, <1>5 DEF SerialInv, RecordSound, Holds, ShareIfFileExists, StartExport, Snapshot, Rename,
           Fingerprint, UserSync, HookSync, StartSync, ReadGeneration, Decide, Crash
  <2>2. CASE Snapshot(p)
    <3>1. \A q \in Procs : cmd'[q] = [pc |-> "rename", file |-> Exported(db)]
      BY <1>3, <2>2, Becoming DEF Snapshot
    <3> QED
      BY <1>1, <1>2, <2>1, <3>1 DEF SerialInv, Agrees, Carries, Exported, Holds
  <2>3. CASE Rename(p)
    <3>1. \A q \in Procs : cmd'[q] = [pc |-> "fingerprint", file |-> cmd[p].file, accepted |-> FALSE]
      BY <1>3, <2>3, Becoming DEF Rename
    <3>2. Holds(cmd[p].file)
      BY <2>3 DEF Rename, SerialInv, Agrees, Carries, Exported, Holds
    <3> QED
      BY <1>1, <1>2, <2>1, <3>1, <3>2 DEF SerialInv, Agrees, Carries, Holds
  <2>4. CASE Fingerprint(p)
    <3>1. \A q \in Procs :
            cmd'[q] = [pc |-> "record",
                       state |-> [file |-> cmd[p].file, gen |-> gen, accepted |-> cmd[p].accepted]]
      BY <1>3, <2>4, Becoming DEF Fingerprint
    <3>2. Holds(cmd[p].file)
      BY <2>4 DEF Fingerprint, SerialInv, Agrees, Carries
    <3> QED
      BY <1>1, <1>2, <2>1, <3>1, <3>2 DEF SerialInv, Agrees, Carries, Holds
  <2>5. CASE ReadGeneration(p)
    <3>1. \A q \in Procs :
            cmd'[q] = [pc |-> "decide", file |-> cmd[p].file, accept |-> cmd[p].accept, gen |-> gen]
      BY <1>3, <2>5, Becoming DEF ReadGeneration
    <3> QED
      BY <1>1, <1>2, <2>1, <3>1 DEF SerialInv, Agrees, Carries
  <2>6. CASE ~(Snapshot(p) \/ Rename(p) \/ Fingerprint(p) \/ ReadGeneration(p))
    <3>1. \A q \in Procs : cmd'[q].pc \in {"idle", "export", "generation", "import"}
      BY <1>3, <1>5, <2>6, Becoming DEF ShareIfFileExists, StartExport, UserSync, HookSync,
             StartSync, Decide, Crash, Idle
    <3> QED
      BY <1>1, <2>1, <3>1 DEF SerialInv, Agrees, Carries
  <2> QED
    BY <2>2, <2>3, <2>4, <2>5, <2>6
<1> QED
  BY <1>4, <1>5

LEMMA NextSerial ==
  ASSUME OneCommand
  PROVE  SerialInv /\ [Next]_vars => SerialInv'
<1> SUFFICES ASSUME SerialInv, [Next]_vars PROVE SerialInv'
  OBVIOUS
<1>1. ASSUME NEW p \in Procs, Write(p) PROVE SerialInv'
  BY <1>1, WriteWrote, WriteSerial DEF TypeInv, TypeOK, SerialInv
<1>2. ASSUME NEW p \in Procs, StartExport(p) PROVE SerialInv'
  BY <1>2, QuietStepSerial
<1>3. ASSUME NEW p \in Procs, NEW accept \in BOOLEAN, UserSync(p, accept) PROVE SerialInv'
  BY <1>3, QuietStepSerial
<1>4. ASSUME NEW p \in Procs, HookSync(p) PROVE SerialInv'
  BY <1>4, QuietStepSerial
<1>5. ASSUME NEW p \in Procs, Continue(p) PROVE SerialInv'
  BY <1>5, QuietStepSerial, ImportSerial DEF Continue
<1>6. ASSUME NEW p \in Procs, Crash(p) PROVE SerialInv'
  BY <1>6, QuietStepSerial
<1>7. ASSUME NEW f \in GitFiles, GitEdit(f) PROVE SerialInv'
  <2>1. TypeInv'
    BY <1>7, NextTypeInv DEF SerialInv, Next
  <2> QED
    BY <1>7, <2>1 DEF GitEdit, SerialInv, RecordSound, Agrees, Carries, Holds
<1>8. CASE UNCHANGED vars
  <2>1. TypeInv'
    BY <1>8, NextTypeInv DEF SerialInv
  <2> QED
    BY <1>8, <2>1 DEF vars, SerialInv, RecordSound, Agrees, Carries, Holds
<1> QED
  BY <1>1, <1>2, <1>3, <1>4, <1>5, <1>6, <1>7, <1>8 DEF Next

\* With one command at a time, whatever crashes and whatever git does in
\* between, a sync that skips its work because file and generation are those
\* it recorded skips nothing: the store holds what the file says
\* (sync.rs:483), and nothing more but relations that it was spared when it
\* had no memories.
THEOREM NoOpCorrect ==
  ASSUME OneCommand
  PROVE  Spec => []NoOpIsSound
<1>1. SerialInv => NoOpIsSound
  BY DEF SerialInv, RecordSound, NoOpIsSound, Matches
<1> QED
  BY <1>1, InitSerial, NextSerial, PTL DEF Spec
----------------------------------------------------------------------------
(* The shared file.  Without git and without failures the file is the      *)
(* store's content but between a write's commit and its rename.            *)

\* Where a command stands when the file has to be the store's content.
Settled == {"idle", "generation", "decide", "import", "fingerprint", "record"}

ShareInv ==
  edits = 0 /\ crashes = 0 =>
    /\ (\A p \in Procs : Carries(p, Settled)) => file = NoFile \/ file = Exported(db)
    /\ \A p \in Procs :
         /\ Carries(p, {"generation", "decide", "import", "fingerprint"}) => cmd[p].file = file
         /\ Carries(p, {"rename"}) => cmd[p].file = Exported(db)

LEMMA InitShare == Init => ShareInv
  BY DEF Init, ShareInv, Carries, Idle

\* A step that git or a failure takes part in is not spoken of.
LEMMA NotSpokenOf ==
  ASSUME TypeInv, edits' = edits + 1 \/ crashes' = crashes + 1
  PROVE  ShareInv'
  BY DEF TypeInv, TypeOK, ShareInv

\* A step after which the only process has a command c.
LEMMA StepShares ==
  ASSUME OneCommand, TypeInv, NEW p \in Procs, NEW c, Becomes(p, c),
         c.pc \in Settled => file' = NoFile \/ file' = Exported(db'),
         c.pc \in {"generation", "decide", "import", "fingerprint"} => c.file = file',
         c.pc = "rename" => c.file = Exported(db')
  PROVE  ShareInv'
<1>1. \A q \in Procs : cmd'[q] = c
  BY Becoming DEF TypeInv
<1>2. Exported(db)' = Exported(db')
  BY DEF Exported
<1> QED
  BY <1>1, <1>2 DEF ShareInv, Carries

LEMMA CommandShares ==
  ASSUME OneCommand, TypeInv, ShareInv, edits = 0, crashes = 0, NEW p \in Procs,
         \/ Write(p)
         \/ StartExport(p)
         \/ \E accept \in BOOLEAN : UserSync(p, accept)
         \/ HookSync(p)
         \/ Continue(p)
  PROVE  ShareInv'
<1>1. cmd[p].pc \in Settled => file = NoFile \/ file = Exported(db)
  BY DEF ShareInv, OneCommand, Carries
<1>2. /\ cmd[p].pc \in {"generation", "decide", "import", "fingerprint"} => cmd[p].file = file
      /\ cmd[p].pc = "rename" => cmd[p].file = Exported(db)
      /\ cmd[p].pc \in {"generation", "decide", "import"} => cmd[p].file \in File
  BY DEF ShareInv, Carries, TypeInv, CmdTypes
<1>3. ASSUME Write(p)
      PROVE  ShareInv'
  <2> DEFINE c == [pc |-> "written"]
  <2>1. Becomes(p, c) /\ c.pc = "written"
    BY <1>3, WriteWrote DEF Wrote, TypeInv, TypeOK
  <2> HIDE DEF c
  <2> QED
    BY <2>1, StepShares DEF Settled
<1>4. CASE StartExport(p)
  BY <1>4, StepShares DEF StartExport, Settled
<1>5. ASSUME NEW accept \in BOOLEAN, StartSync(p, accept)
      PROVE  ShareInv'
  <2>1. cmd[p].pc = "idle" /\ UNCHANGED <<file, db>>
    BY <1>5 DEF StartSync, Idle
  <2>2. CASE file = NoFile
    BY <1>5, <2>2, StepShares DEF StartSync, Settled
  <2>3. CASE file # NoFile
    <3> DEFINE c == [pc |-> "generation", file |-> file, accept |-> accept]
    <3>1. Becomes(p, c) /\ c.pc = "generation" /\ c.file = file
      BY <1>5, <2>3 DEF StartSync
    <3> HIDE DEF c
    <3> QED
      BY <1>1, <2>1, <3>1, StepShares DEF Settled
  <2> QED
    BY <2>2, <2>3
<1>6. CASE ShareIfFileExists(p)
  <2>1. PICK c : Becomes(p, c) /\ ((c.pc = "idle" /\ file = NoFile) \/ c.pc = "export")
    BY <1>6 DEF ShareIfFileExists, Idle
  <2> QED
    BY <1>6, <2>1, StepShares DEF ShareIfFileExists, Settled
<1>7. CASE Snapshot(p)
  <2> DEFINE c == [pc |-> "rename", file |-> Exported(db)]
  <2>1. Becomes(p, c) /\ c.pc = "rename" /\ c.file = Exported(db) /\ db' = db
    BY <1>7 DEF Snapshot
  <2> HIDE DEF c
  <2> QED
    BY <2>1, StepShares DEF Settled
<1>8. CASE Rename(p)
  <2> DEFINE c == [pc |-> "fingerprint", file |-> cmd[p].file, accepted |-> FALSE]
  <2>1. /\ Becomes(p, c) /\ c.pc = "fingerprint" /\ c.file = cmd[p].file
        /\ file' = cmd[p].file /\ db' = db /\ cmd[p].pc = "rename"
    BY <1>8 DEF Rename
  <2> HIDE DEF c
  <2> QED
    BY <1>2, <2>1, StepShares DEF Settled
<1>9. CASE Fingerprint(p)
  <2>1. PICK c : Becomes(p, c) /\ c.pc = "record"
    BY <1>9 DEF Fingerprint
  <2> QED
    BY <1>1, <1>9, <2>1, StepShares DEF Fingerprint, Settled
<1>10. CASE Record(p)
  BY <1>1, <1>10, StepShares DEF Record, Settled, Idle
<1>11. CASE ReadGeneration(p)
  <2> DEFINE c == [pc |-> "decide", file |-> cmd[p].file, accept |-> cmd[p].accept, gen |-> gen]
  <2>1. /\ Becomes(p, c) /\ c.pc = "decide" /\ c.file = cmd[p].file
        /\ UNCHANGED <<file, db>> /\ cmd[p].pc = "generation"
    BY <1>11 DEF ReadGeneration
  <2> HIDE DEF c
  <2> QED
    BY <1>1, <1>2, <2>1, StepShares DEF Settled
<1>12. CASE Decide(p)
  <2>1. PICK c : Becomes(p, c) /\ (c.pc = "idle" \/ (c.pc = "import" /\ c.file = cmd[p].file))
    BY <1>12 DEF Decide, Idle
  <2>2. UNCHANGED <<file, db>> /\ cmd[p].pc = "decide"
    BY <1>12 DEF Decide
  <2> QED
    BY <1>1, <1>2, <2>1, <2>2, StepShares DEF Settled
<1>13. CASE Import(p)
  <2>1. PICK c : Becomes(p, c) /\ c.pc = "fingerprint" /\ c.file = cmd[p].file
    BY <1>13 DEF Import
  <2>2. /\ cmd[p].pc = "import" /\ file' = file
        /\ db' = [rules |-> cmd[p].file.rules, links |-> cmd[p].file.links \cup Found]
        /\ cmd[p].file = file /\ file \in File
    BY <1>2, <1>13 DEF Import
  <2>3. file = Exported(db)
    BY <1>1, <2>2, TeamSyncAssumption DEF Settled
  <2>4. db' = db
    <3>1. db = [rules |-> db.rules, links |-> db.links] /\ Found \subseteq db.links
      BY DEF TypeInv, TypeOK, Stores, Found
    <3> QED
      BY <2>2, <2>3, <3>1 DEF Exported
  <2> QED
    BY <2>1, <2>2, <2>3, <2>4, StepShares
<1>14. CASE UserSync(p, TRUE) \/ UserSync(p, FALSE) \/ HookSync(p)
  BY <1>5, <1>14 DEF UserSync, HookSync
<1> QED
  BY <1>3, <1>4, <1>6, <1>7, <1>8, <1>9, <1>10, <1>11, <1>12, <1>13, <1>14 DEF Continue

LEMMA NextShare ==
  ASSUME OneCommand
  PROVE  TypeInv /\ ShareInv /\ [Next]_vars => ShareInv'
<1> SUFFICES ASSUME TypeInv, ShareInv, [Next]_vars PROVE ShareInv'
  OBVIOUS
<1>1. ASSUME NEW p \in Procs, Crash(p) PROVE ShareInv'
  BY <1>1, NotSpokenOf DEF Crash
<1>2. ASSUME NEW f \in GitFiles, GitEdit(f) PROVE ShareInv'
  BY <1>2, NotSpokenOf DEF GitEdit
<1>3. ASSUME NEW p \in Procs,
             \/ Write(p)
             \/ StartExport(p)
             \/ \E accept \in BOOLEAN : UserSync(p, accept)
             \/ HookSync(p)
             \/ Continue(p)
      PROVE  ShareInv'
  <2>1. UNCHANGED <<edits, crashes>>
    BY <1>3, WriteWrote DEF Wrote, TypeInv, TypeOK, StartExport, UserSync, HookSync, StartSync, Continue, ShareIfFileExists,
       Snapshot, Rename, Fingerprint, Record, ReadGeneration, Decide, Import
  <2>2. CASE edits = 0 /\ crashes = 0
    BY <1>3, <2>2, CommandShares
  <2>3. CASE ~(edits = 0 /\ crashes = 0)
    BY <2>1, <2>3 DEF ShareInv
  <2> QED
    BY <2>2, <2>3
<1>4. CASE UNCHANGED vars
  BY <1>4 DEF vars, ShareInv, Carries, Exported
<1> QED
  BY <1>1, <1>2, <1>3, <1>4 DEF Next

\* With one command at a time, git away and nothing failing, the rules file
\* is the store's content whenever nothing runs (README.md:202).
THEOREM SharingCorrect ==
  ASSUME OneCommand
  PROVE  Spec => []SharedInRealTime
<1>1. ShareInv => SharedInRealTime
  BY DEF ShareInv, SharedInRealTime, Quiet, Carries, Settled, Idle
<1> QED
  BY <1>1, InitTypeInv, NextTypeInv, InitShare, NextShare, PTL DEF Spec

----------------------------------------------------------------------------
(* The promise.  A step of a command is one of SharedRules or none.        *)

\* What a step makes of a command, it makes of its task.
LEMMA TaskBecomes ==
  ASSUME CmdTypes, NEW p \in Procs, NEW c, Becomes(p, c)
  PROVE  /\ Tasks[p] = TaskOf(cmd[p])
         /\ Tasks' = [Tasks EXCEPT ![p] = TaskOf(c)]
<1>1. \A q \in Procs : cmd'[q] = IF q = p THEN c ELSE cmd[q]
  BY DEF Becomes, CmdTypes
<1>2. Tasks' = [q \in Procs |-> TaskOf(cmd'[q])]
  BY DEF Tasks, TaskOf
<1>3. \A q \in Procs : TaskOf(cmd'[q]) = IF q = p THEN TaskOf(c) ELSE TaskOf(cmd[q])
  BY <1>1
<1> QED
  BY <1>2, <1>3 DEF Tasks

\* So a step that leaves its task and all else alone is none of the promise.
LEMMA SameTask ==
  ASSUME CmdTypes, NEW p \in Procs, NEW c, Becomes(p, c), TaskOf(c) = TaskOf(cmd[p]),
         UNCHANGED <<db, spared, file, crashes>>
  PROVE  UNCHANGED Promise!vars
<1>1. Tasks' = Tasks
  BY TaskBecomes DEF Tasks
<1> QED
  BY <1>1 DEF Promise!vars

\* The task at each place of a command.
LEMMA TaskIs ==
  ASSUME NEW c
  PROVE  /\ c.pc \in {"idle", "fingerprint", "record"} => TaskOf(c) = Promise!Nothing
         /\ c.pc = "written" => TaskOf(c) = Promise!Tell
         /\ c.pc \in {"export", "rename"} => TaskOf(c) = Promise!Publish
         /\ c.pc = "import" => TaskOf(c) = Promise!Adopt(Said(c.file))
         /\ c.pc \in {"generation", "decide"} => TaskOf(c) = Promise!Sync(c.file, c.accept)
BY DEF TaskOf, Said, Promise!Nothing, Promise!Tell, Promise!Publish, Promise!Adopt,
       Promise!Sync, Promise!Refuse

LEMMA InitShared == Init => Promise!Init
<1> SUFFICES ASSUME Init PROVE Promise!Init
  OBVIOUS
<1>1. \A p \in Procs : TaskOf(cmd[p]) = Promise!Nothing
  BY TaskIs DEF Init, Idle
<1> QED
  BY <1>1 DEF Init, Tasks, Promise!Init, Promise!NoRules

LEMMA WriteIsWrite ==
  ASSUME TypeInv, NEW p \in Procs, NEW d \in Stores, NEW bumps \in BOOLEAN,
         Wrote(p, d, bumps)
  PROVE  Promise!Next
<1> DEFINE c == [pc |-> "written"]
<1>1. Becomes(p, c) /\ c.pc = "written" /\ cmd[p].pc = "idle"
  BY DEF Wrote, Idle
<1> HIDE DEF c
<1>2. Tasks[p] = Promise!Nothing /\ Tasks' = [Tasks EXCEPT ![p] = Promise!Tell]
  BY <1>1, TaskBecomes, TaskIs DEF TypeInv
<1>3. Promise!WriteRules(p)
  BY <1>2 DEF Promise!WriteRules, Promise!Turns, Promise!Stores, Stores, Content, Wrote
<1> QED
  BY <1>3 DEF Promise!Next

LEMMA StartIsAsking ==
  ASSUME TypeInv, NEW p \in Procs, NEW accept \in BOOLEAN, StartExport(p) \/ StartSync(p, accept)
  PROVE  Promise!Next
<1>1. cmd[p].pc = "idle" /\ UNCHANGED <<db, spared, file, crashes>>
  BY DEF StartExport, StartSync, Idle
<1>2. Tasks[p] = Promise!Nothing
  BY <1>1, TaskIs DEF Tasks
<1>3. CASE StartExport(p)
  <2> DEFINE c == [pc |-> "export"]
  <2>1. Becomes(p, c) /\ c.pc = "export"
    BY <1>3 DEF StartExport
  <2> HIDE DEF c
  <2>2. Tasks' = [Tasks EXCEPT ![p] = Promise!Publish]
    BY <2>1, TaskBecomes, TaskIs DEF TypeInv
  <2>3. Promise!AskToPublish(p)
    BY <1>1, <1>2, <2>2 DEF Promise!AskToPublish, Promise!Turns
  <2> QED
    BY <2>3 DEF Promise!Next
<1>4. CASE StartSync(p, accept)
  <2> DEFINE c == IF file = NoFile THEN [pc |-> "export"]
                  ELSE [pc |-> "generation", file |-> file, accept |-> accept]
  <2>1. /\ Becomes(p, c)
        /\ file = NoFile => c.pc = "export"
        /\ file # NoFile => c.pc = "generation" /\ c.file = file /\ c.accept = accept
    BY <1>4 DEF StartSync
  <2> HIDE DEF c
  <2>2. TaskOf(c) = IF file = NoFile THEN Promise!Publish ELSE Promise!Sync(file, accept)
    BY <2>1, TaskIs
  <2>3. Tasks' = [Tasks EXCEPT ![p] = TaskOf(c)]
    BY <2>1, TaskBecomes DEF TypeInv
  <2>4. Promise!AskToSync(p, accept)
    BY <1>1, <1>2, <2>2, <2>3 DEF Promise!AskToSync, Promise!Turns
  <2> QED
    BY <2>4 DEF Promise!Next
<1> QED
  BY <1>3, <1>4

LEMMA ShareIsTell ==
  ASSUME TypeInv, NEW p \in Procs, ShareIfFileExists(p)
  PROVE  Promise!Next
<1> DEFINE c == IF file = NoFile THEN Idle ELSE [pc |-> "export"]
<1>1. /\ Becomes(p, c) /\ cmd[p].pc = "written" /\ UNCHANGED <<db, spared, file, crashes>>
      /\ file = NoFile => c.pc = "idle"
      /\ file # NoFile => c.pc = "export"
  BY DEF ShareIfFileExists, Idle
<1> HIDE DEF c
<1>2. TaskOf(c) = IF file = NoFile THEN Promise!Nothing ELSE Promise!Publish
  BY <1>1, TaskIs
<1>3. Tasks[p] = Promise!Tell /\ Tasks' = [Tasks EXCEPT ![p] = TaskOf(c)]
  BY <1>1, TaskBecomes, TaskIs DEF TypeInv
<1>4. Promise!TellIfShared(p)
  BY <1>1, <1>2, <1>3 DEF Promise!TellIfShared, Promise!Turns
<1> QED
  BY <1>4 DEF Promise!Next

\* What is renamed is what the store still holds.
LEMMA RenameIsPublish ==
  ASSUME SerialInv, NEW p \in Procs, Rename(p)
  PROVE  Promise!Next
<1> DEFINE c == [pc |-> "fingerprint", file |-> cmd[p].file, accepted |-> FALSE]
<1>1. /\ Becomes(p, c) /\ c.pc = "fingerprint" /\ cmd[p].pc = "rename"
      /\ file' = cmd[p].file /\ UNCHANGED <<db, spared, crashes>>
  BY DEF Rename
<1> HIDE DEF c
<1>2. cmd[p].file = [rules |-> db.rules, links |-> db.links, alts |-> {}]
  BY <1>1 DEF SerialInv, Agrees, Carries, Exported
<1>3. Tasks[p] = Promise!Publish /\ Tasks' = [Tasks EXCEPT ![p] = Promise!Nothing]
  BY <1>1, TaskBecomes, TaskIs DEF SerialInv, TypeInv
<1>4. Promise!PublishRules(p)
  BY <1>1, <1>2, <1>3 DEF Promise!PublishRules, Promise!Turns
<1> QED
  BY <1>4 DEF Promise!Next

LEMMA ImportIsAdopt ==
  ASSUME TypeInv, NEW p \in Procs, Import(p)
  PROVE  Promise!Next
<1> DEFINE c == [pc |-> "fingerprint", file |-> cmd[p].file,
                 accepted |-> cmd[p].file.alts # {}]
<1>1. /\ Becomes(p, c) /\ c.pc = "fingerprint" /\ cmd[p].pc = "import"
      /\ db' = [rules |-> cmd[p].file.rules, links |-> cmd[p].file.links \cup Found]
      /\ spared' = (spared \cup Found) \cap db'.links
      /\ UNCHANGED <<file, crashes>>
  BY DEF Import
<1> HIDE DEF c
<1>2. /\ Tasks[p] = Promise!Adopt(Said(cmd[p].file))
      /\ Tasks' = [Tasks EXCEPT ![p] = Promise!Nothing]
  BY <1>1, TaskBecomes, TaskIs DEF TypeInv
<1>3. Found = IF db.rules = Promise!NoRules THEN db.links ELSE {}
  <2>1. db.rules \in [Keys -> Texts \cup {NoRule}]
    BY DEF TypeInv, TypeOK, Stores, Content
  <2>2. (\E k \in Keys : Exists(k)) <=> db.rules # Promise!NoRules
    BY <2>1 DEF Exists, Promise!NoRules
  <2> QED
    BY <2>2 DEF Found
<1>4. Promise!AdoptRules(p)
  BY <1>1, <1>2, <1>3 DEF Promise!AdoptRules, Promise!Turns, Promise!Adopt, Said
<1> QED
  BY <1>4 DEF Promise!Next

\* A sync that skips its work finds nothing to do; one that refuses leaves a
\* conflict; one that goes on has its task still.
LEMMA DecideIsRight ==
  ASSUME SerialInv, NEW p \in Procs, Decide(p)
  PROVE  Promise!Next \/ UNCHANGED Promise!vars
<1> DEFINE f == cmd[p].file
           a == cmd[p].accept
           noop == Matches(synced, f, cmd[p].gen, a)
           refused == f.alts # {} /\ ~a
           c == IF noop \/ refused THEN Idle ELSE [pc |-> "import", file |-> f]
<1>1. /\ Becomes(p, c) /\ cmd[p].pc = "decide" /\ UNCHANGED <<db, spared, file, crashes>>
      /\ noop \/ refused => c.pc = "idle"
      /\ ~(noop \/ refused) => c.pc = "import" /\ c.file = f
  BY DEF Decide, Idle
<1>2. noop => Holds(f)
  BY <1>1 DEF SerialInv, Agrees, Carries, RecordSound, Matches
<1> HIDE DEF c, noop
<1>3. Tasks[p] = Promise!Sync(f, a) /\ TaskOf(cmd[p]) = Promise!Sync(f, a)
  BY <1>1, TaskIs DEF Tasks
<1>4. Tasks' = [Tasks EXCEPT ![p] = TaskOf(c)]
  BY <1>1, TaskBecomes DEF SerialInv, TypeInv
<1>5. CASE refused
  <2>1. Tasks[p] = Promise!Refuse /\ TaskOf(c) = Promise!Nothing
    BY <1>1, <1>3, <1>5, TaskIs DEF Promise!Sync
  <2>2. Promise!LeaveConflict(p)
    BY <1>1, <1>4, <2>1 DEF Promise!LeaveConflict, Promise!Turns
  <2> QED
    BY <2>2 DEF Promise!Next
<1>6. CASE ~refused /\ noop
  <2>1. /\ Tasks[p] = Promise!Adopt([rules |-> f.rules, links |-> f.links])
        /\ TaskOf(c) = Promise!Nothing
    BY <1>1, <1>3, <1>6, TaskIs DEF Promise!Sync
  <2>2. Promise!FindNothingToDo(p)
    BY <1>1, <1>2, <1>4, <1>6, <2>1
       DEF Holds, Promise!FindNothingToDo, Promise!Turns, Promise!Adopt
  <2> QED
    BY <2>2 DEF Promise!Next
<1>7. CASE ~refused /\ ~noop
  <2>1. TaskOf(c) = TaskOf(cmd[p])
    BY <1>1, <1>3, <1>7, TaskIs DEF Promise!Sync, Said
  <2> QED
    BY <1>1, <2>1, SameTask DEF SerialInv, TypeInv
<1> QED
  BY <1>5, <1>6, <1>7

\* The steps that are not to be seen.
LEMMA UnseenStep ==
  ASSUME TypeInv, NEW p \in Procs,
         Snapshot(p) \/ Fingerprint(p) \/ Record(p) \/ ReadGeneration(p)
  PROVE  UNCHANGED Promise!vars
<1>1. UNCHANGED <<db, spared, file, crashes>>
  BY DEF Snapshot, Fingerprint, Record, ReadGeneration
<1>2. CmdTypes
  BY DEF TypeInv
<1>3. CASE Snapshot(p)
  <2>1. PICK c : Becomes(p, c) /\ c.pc = "rename"
    BY <1>3 DEF Snapshot
  <2>2. cmd[p].pc = "export"
    BY <1>3 DEF Snapshot
  <2> QED
    BY <1>1, <1>2, <2>1, <2>2, TaskIs, SameTask
<1>4. CASE Fingerprint(p)
  <2>1. PICK c : Becomes(p, c) /\ c.pc = "record"
    BY <1>4 DEF Fingerprint
  <2>2. cmd[p].pc = "fingerprint"
    BY <1>4 DEF Fingerprint
  <2> QED
    BY <1>1, <1>2, <2>1, <2>2, TaskIs, SameTask
<1>5. CASE Record(p)
  <2>1. PICK c : Becomes(p, c) /\ c.pc = "idle"
    BY <1>5 DEF Record, Idle
  <2>2. cmd[p].pc = "record"
    BY <1>5 DEF Record
  <2> QED
    BY <1>1, <1>2, <2>1, <2>2, TaskIs, SameTask
<1>6. CASE ReadGeneration(p)
  <2>1. PICK c : Becomes(p, c) /\ c.pc = "decide" /\ c.file = cmd[p].file
                                 /\ c.accept = cmd[p].accept
    BY <1>6 DEF ReadGeneration
  <2>2. cmd[p].pc = "generation"
    BY <1>6 DEF ReadGeneration
  <2> QED
    BY <1>1, <1>2, <2>1, <2>2, TaskIs, SameTask
<1> QED
  BY <1>3, <1>4, <1>5, <1>6

LEMMA CrashIsFail ==
  ASSUME TypeInv, NEW p \in Procs, Crash(p)
  PROVE  Promise!Next
<1>1. Becomes(p, Idle) /\ TaskOf(Idle) = Promise!Nothing
  BY TaskIs DEF Crash, Idle
<1>2. Tasks' = [Tasks EXCEPT ![p] = Promise!Nothing]
  BY <1>1, TaskBecomes DEF TypeInv
<1>3. Promise!Fail(p)
  BY <1>2 DEF Crash, Promise!Fail, Promise!Turns
<1> QED
  BY <1>3 DEF Promise!Next

LEMMA NextPromise ==
  SerialInv /\ [Next]_vars => [Promise!Next]_Promise!vars
<1> SUFFICES ASSUME SerialInv, [Next]_vars PROVE Promise!Next \/ UNCHANGED Promise!vars
  OBVIOUS
<1>1. TypeInv
  BY DEF SerialInv
<1>2. ASSUME NEW p \in Procs, Write(p) PROVE Promise!Next
  BY <1>1, <1>2, WriteWrote, WriteIsWrite DEF TypeInv, TypeOK
<1>3. ASSUME NEW p \in Procs, StartExport(p) PROVE Promise!Next
  BY <1>1, <1>3, StartIsAsking
<1>4. ASSUME NEW p \in Procs, NEW accept \in BOOLEAN, UserSync(p, accept) PROVE Promise!Next
  BY <1>1, <1>4, StartIsAsking DEF UserSync
<1>5. ASSUME NEW p \in Procs, HookSync(p) PROVE Promise!Next
  BY <1>1, <1>5, StartIsAsking DEF HookSync
<1>6. ASSUME NEW p \in Procs, Continue(p) PROVE Promise!Next \/ UNCHANGED Promise!vars
  BY <1>1, <1>6, ShareIsTell, RenameIsPublish, ImportIsAdopt, DecideIsRight, UnseenStep
     DEF Continue
<1>7. ASSUME NEW p \in Procs, Crash(p) PROVE Promise!Next
  BY <1>1, <1>7, CrashIsFail
<1>8. ASSUME NEW f \in GitFiles, GitEdit(f) PROVE Promise!Next
  <2>1. Tasks' = Tasks
    BY <1>8 DEF GitEdit, Tasks
  <2>2. Promise!GitLeaves(f)
    BY <1>8, <2>1 DEF GitEdit, Promise!GitLeaves
  <2> QED
    BY <2>2 DEF Promise!Next
<1>9. CASE UNCHANGED vars
  <2>1. Tasks' = Tasks
    BY <1>9 DEF vars, Tasks
  <2> QED
    BY <1>9, <2>1 DEF vars, Promise!vars
<1> QED
  BY <1>2, <1>3, <1>4, <1>5, <1>6, <1>7, <1>8, <1>9 DEF Next

\* With one command at a time, for all rules, files, failures and edits, store
\* and file change as SharedRules says: in one instant for each write,
\* publication and sync, however many steps it takes and wherever it is cut.
THEOREM ImplementsSharedRules ==
  ASSUME OneCommand
  PROVE  Spec => SharesInOneInstant
BY InitSerial, NextSerial, InitShared, NextPromise, PTL DEF Spec, SharesInOneInstant, Promise!Spec
=============================================================================
