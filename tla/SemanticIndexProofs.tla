------------------------ MODULE SemanticIndexProofs ------------------------
(***************************************************************************)
(* Theorems about SemanticIndex: its types, that the index file of the     *)
(* committed generation matches its records, and that the index keeps the  *)
(* promise of CorpusIndex, for any number of processes, memories, builds,  *)
(* clears and crashes.                                                     *)
(***************************************************************************)
EXTENDS SemanticIndex, FiniteSetTheorems, TLAPS

----------------------------------------------------------------------------
(* Documents.                                                              *)

Number(c, k) == Cardinality({j \in Active(c) : j <= k})

LEMMA NumberGrows ==
  ASSUME NEW c \in Corpora, NEW j \in Active(c), NEW k \in Active(c)
  PROVE  /\ Number(c, k) \in Nat
         /\ j < k => Number(c, j) < Number(c, k)
<1> DEFINE Upto(n) == {i \in Active(c) : i <= n}
<1>1. /\ Active(c) \subseteq Nat
      /\ IsFiniteSet(Active(c))
  BY KeysAssumption, FS_Subset DEF Active
<1>2. IsFiniteSet(Upto(j)) /\ IsFiniteSet(Upto(k))
  BY <1>1, FS_Subset
<1>3. Number(c, j) \in Nat /\ Number(c, k) \in Nat
  BY <1>2, FS_CardinalityType DEF Number
<1>4. ASSUME j < k
      PROVE  Number(c, j) < Number(c, k)
  <2>1. Upto(j) \in SUBSET Upto(k) /\ k \in Upto(k) /\ k \notin Upto(j)
    BY <1>1, <1>4
  <2>2. /\ Cardinality(Upto(j)) <= Cardinality(Upto(k))
        /\ Cardinality(Upto(k)) = Cardinality(Upto(j)) => Upto(k) = Upto(j)
    BY <1>2, <2>1, FS_Subset
  <2> HIDE DEF Upto
  <2>3. Cardinality(Upto(k)) # Cardinality(Upto(j))
    BY <2>1, <2>2
  <2>4. Number(c, j) = Cardinality(Upto(j)) /\ Number(c, k) = Cardinality(Upto(k))
    BY DEF Number, Upto
  <2> QED
    BY <1>3, <2>2, <2>3, <2>4
<1> QED
  BY <1>3, <1>4

\* Each active memory has one document, and no two have the same number.
LEMMA DocumentsAreDistinct ==
  ASSUME NEW c \in Corpora
  PROVE  /\ Documents(c) \subseteq Document
         /\ \A k \in Keys : c[k] # NoText => \E d \in Documents(c) : d.key = k
         /\ \A d \in Documents(c) : c[d.key] = d.text /\ d.text # NoText
         /\ \A d, e \in Documents(c) : d.id = e.id \/ d.key = e.key => d = e
<1>1. \A k \in Active(c) : k \in Keys /\ c[k] \in Texts /\ Number(c, k) \in Nat
  BY NumberGrows DEF Active, Corpora
<1>2. Documents(c) = {[id |-> Number(c, k), key |-> k, text |-> c[k]] : k \in Active(c)}
  BY DEF Documents, Number
<1>3. Documents(c) \subseteq Document
  BY <1>1, <1>2 DEF Document
<1>4. ASSUME NEW d \in Documents(c)
      PROVE  /\ d.key \in Active(c)
             /\ d = [id |-> Number(c, d.key), key |-> d.key, text |-> c[d.key]]
  BY <1>2
<1>5. \A d \in Documents(c) : c[d.key] = d.text /\ d.text # NoText
  BY <1>4 DEF Active
<1>6. ASSUME NEW k \in Keys, c[k] # NoText
      PROVE  \E d \in Documents(c) : d.key = k
  <2>1. k \in Active(c)
    BY <1>6 DEF Active
  <2>2. [id |-> Number(c, k), key |-> k, text |-> c[k]] \in Documents(c)
    BY <1>2, <2>1
  <2>3. [id |-> Number(c, k), key |-> k, text |-> c[k]].key = k
    OBVIOUS
  <2> QED
    BY <2>2, <2>3
<1>7. ASSUME NEW d \in Documents(c), NEW e \in Documents(c), d.id = e.id \/ d.key = e.key
      PROVE  d = e
  <2>1. d.id = Number(c, d.key) /\ e.id = Number(c, e.key)
    BY <1>4
  <2>2. d.key \in Nat /\ e.key \in Nat
    BY <1>4, KeysAssumption DEF Active
  <2>3. d.key = e.key
    <3>1. ASSUME d.key # e.key PROVE FALSE
      <4>1. d.key < e.key \/ e.key < d.key
        BY <2>2, <3>1
      <4>2. Number(c, d.key) \in Nat /\ Number(c, e.key) \in Nat
        BY <1>1, <1>4
      <4>3. Number(c, d.key) # Number(c, e.key)
        BY <1>4, <4>1, <4>2, NumberGrows
      <4> QED
        BY <1>7, <2>1, <3>1, <4>3
    <3> QED
      BY <3>1
  <2> QED
    BY <1>4, <2>3
<1> QED
  BY <1>3, <1>5, <1>6, <1>7

\* A reused vector is the one that would be computed anew.
LEMMA VectorsAreDocuments ==
  ASSUME NEW c \in Corpora, NEW b \in Corpora, records = Documents(b),
         NEW old \in SUBSET records
  PROVE  Vectors(c, old) = Documents(c)
<1> DEFINE Reused(d) == {v \in old : \E r \in records : /\ r.key = d.key
                                                      /\ r.text = d.text
                                                      /\ r.id = v.id}
           Vector(d) == IF Reused(d) = {} THEN d
                        ELSE [(CHOOSE v \in Reused(d) : TRUE) EXCEPT !.id = d.id]
<1>1. ASSUME NEW d \in Documents(c)
      PROVE  Vector(d) = d
  <2>1. CASE Reused(d) = {}
    BY <2>1
  <2>2. CASE Reused(d) # {}
    <3>1. PICK v \in Reused(d) : v = (CHOOSE x \in Reused(d) : TRUE)
      BY <2>2
    <3>2. v \in Document /\ d \in Document
      BY DocumentsAreDistinct
    <3>3. v.key = d.key /\ v.text = d.text
      BY DocumentsAreDistinct
    <3>4. [v EXCEPT !.id = d.id] = d
      BY <3>2, <3>3 DEF Document
    <3> QED
      BY <2>2, <3>1, <3>4
  <2> QED
    BY <2>1, <2>2
<1>2. Vectors(c, old) = {Vector(d) : d \in Documents(c)}
  BY DEF Vectors
<1> HIDE DEF Vector
<1> QED
  BY <1>1, <1>2

\* The documents of the memories say all of them.
LEMMA CopyOfDocuments ==
  ASSUME NEW c \in Corpora
  PROVE  Copy(Documents(c)) = c
<1>1. ASSUME NEW k \in Keys
      PROVE  Copy(Documents(c))[k] = c[k]
  <2>1. CASE c[k] = NoText
    <3>1. ~ \E d \in Documents(c) : d.key = k
      BY <2>1, DocumentsAreDistinct
    <3> QED
      BY <2>1, <3>1 DEF Copy
  <2>2. CASE c[k] # NoText
    <3>1. PICK d \in Documents(c) : d.key = k
      BY <2>2, DocumentsAreDistinct
    <3>2. (CHOOSE e \in Documents(c) : e.key = k) = d
      BY <3>1, DocumentsAreDistinct
    <3>3. Copy(Documents(c))[k] = d.text
      BY <3>1, <3>2 DEF Copy
    <3> QED
      BY <3>1, <3>3, DocumentsAreDistinct
  <2> QED
    BY <2>1, <2>2
<1>2. Copy(Documents(c)) = [k \in Keys |-> Copy(Documents(c))[k]]
  BY DEF Copy
<1>3. c = [k \in Keys |-> c[k]]
  BY DEF Corpora
<1> QED
  BY <1>1, <1>2, <1>3

----------------------------------------------------------------------------
(* The inductive invariant.  A process that rebuilds or clears has the     *)
(* lock for all of its steps, so what it carries is still true of state    *)
(* and files: nobody else changes them but for the dirty mark.             *)

Holds(p) == cmd[p].pc \in {"read", "save", "commit", "sweep", "remove"}

CmdInv ==
  /\ cmd = [p \in Procs |-> cmd[p]]
  /\ \A p \in Procs : Holds(p) => lock = p

LastGen == IF state = NoState THEN 0 ELSE state.gen

Carries(p) ==
  /\ cmd[p].pc \in {"read", "save", "commit"} => cmd[p].old = LastGen
  /\ cmd[p].pc = "save" => /\ cmd[p].read \in Corpora
                           /\ cmd[p].docs = Documents(cmd[p].read)
  /\ cmd[p].pc = "commit" => /\ cmd[p].read \in Corpora
                             /\ cmd[p].gen \in 1..built
                             /\ cmd[p].gen # LastGen
                             /\ HasFile(cmd[p].gen)
                             /\ DocsOf(cmd[p].gen) = Documents(cmd[p].read)
  /\ cmd[p].pc = "sweep" => cmd[p].old # LastGen
  /\ cmd[p].pc = "remove" => state = NoState

RecordsInv ==
  /\ \E c \in Corpora : records = Documents(c)
  /\ state = NoState => records = {}
  /\ IndexMatchesRecords

IInv == /\ TypeOK
        /\ CmdInv
        /\ \A p \in Procs : Carries(p)
        /\ RecordsInv

----------------------------------------------------------------------------
(* Index files.                                                            *)

HasIn(F, g) == \E f \in F : f.gen = g
DocsIn(F, g) == UNION {f.docs : f \in {x \in F : x.gen = g}}

Adds(F, h, D, G) == G = F \cup {[gen |-> h, docs |-> D]}
Removes(F, h, G) == G = {f \in F : f.gen # h}

LEMMA FileAdded ==
  ASSUME NEW F, NEW D, NEW h, NEW g, NEW G, Adds(F, h, D, G)
  PROVE  /\ HasIn(G, h)
         /\ g # h => DocsIn(G, g) = DocsIn(F, g) /\ (HasIn(G, g) <=> HasIn(F, g))
         /\ ~HasIn(F, h) => DocsIn(G, h) = D
<1> DEFINE new == [gen |-> h, docs |-> D]
<1>1. new.gen = h /\ new.docs = D /\ G = F \cup {new}
  BY DEF Adds
<1> HIDE DEF new
<1>2. HasIn(G, h)
  BY <1>1 DEF HasIn
<1>3. ASSUME g # h
      PROVE  DocsIn(G, g) = DocsIn(F, g) /\ (HasIn(G, g) <=> HasIn(F, g))
  <2>1. {x \in G : x.gen = g} = {x \in F : x.gen = g}
    BY <1>1, <1>3
  <2>2. HasIn(G, g) <=> HasIn(F, g)
    BY <1>1, <1>3 DEF HasIn
  <2> QED
    BY <2>1, <2>2 DEF DocsIn
<1>4. ASSUME ~HasIn(F, h)
      PROVE  DocsIn(G, h) = D
  <2>1. {x \in G : x.gen = h} = {new}
    BY <1>1, <1>4 DEF HasIn
  <2>2. {x.docs : x \in {new}} = {D}
    BY <1>1
  <2> QED
    BY <2>1, <2>2 DEF DocsIn
<1> QED
  BY <1>2, <1>3, <1>4

LEMMA FileRemoved ==
  ASSUME NEW F, NEW h, NEW g, NEW G, Removes(F, h, G), g # h
  PROVE  DocsIn(G, g) = DocsIn(F, g) /\ (HasIn(G, g) <=> HasIn(F, g))
<1>1. {x \in G : x.gen = g} = {x \in F : x.gen = g}
  BY DEF Removes
<1>2. HasIn(G, g) <=> HasIn(F, g)
  BY DEF HasIn, Removes
<1>3. DocsIn(G, g) = DocsIn(F, g)
  BY <1>1 DEF DocsIn
<1> QED
  BY <1>2, <1>3

----------------------------------------------------------------------------
(* Initial states and steps of nobody.                                     *)

LEMMA InitIInv == Init => IInv
<1> SUFFICES ASSUME Init PROVE IInv
  OBVIOUS
<1>1. [k \in Keys |-> NoText] \in Corpora
  BY DEF Corpora
<1>2. Documents([k \in Keys |-> NoText]) = {}
  BY DEF Documents, Active
<1>3. TypeOK
  BY <1>1, SemanticAssumption DEF Init, TypeOK
<1>4. CmdInv /\ \A p \in Procs : Carries(p)
  BY DEF Init, CmdInv, Holds, Carries, Idle
<1>5. RecordsInv
  BY <1>1, <1>2 DEF Init, RecordsInv, IndexMatchesRecords
<1> QED
  BY <1>3, <1>4, <1>5 DEF IInv

\* A step of p, that holds the lock or takes it when it is free, or that
\* leaves state, files and lock alone, does not touch what others carry.
LEMMA OthersCarry ==
  ASSUME CmdInv, \A q \in Procs : Carries(q), NEW p \in Procs, NEW c, Becomes(p, c),
         lock \in {NoProc, p} \/ UNCHANGED <<state, files, built, lock>>,
         c.pc \in {"read", "save", "commit", "sweep", "remove"} => lock' = p
  PROVE  /\ CmdInv'
         /\ cmd'[p] = c
         /\ \A q \in Procs \ {p} : Carries(q)'
<1>1. cmd' = [q \in Procs |-> IF q = p THEN c ELSE cmd[q]]
  BY DEF Becomes, CmdInv
<1>2. \A q \in Procs : cmd'[q] = IF q = p THEN c ELSE cmd[q]
  BY <1>1
<1>3. cmd' = [q \in Procs |-> cmd'[q]]
  BY <1>1
<1>4. ASSUME NEW q \in Procs, q # p
      PROVE  (Holds(q)' => lock' = q) /\ Carries(q)'
  <2>1. cmd'[q] = cmd[q]
    BY <1>2, <1>4
  <2>2. CASE lock \in {NoProc, p}
    <3>1. ~Holds(q)
      BY <1>4, <2>2, SemanticAssumption DEF CmdInv
    <3> QED
      BY <2>1, <3>1 DEF Holds, Carries
  <2>3. CASE UNCHANGED <<state, files, built, lock>>
    <3>1. Holds(q)' => lock' = q
      BY <2>1, <2>3 DEF Holds, CmdInv
    <3>2. Carries(q)
      OBVIOUS
    <3>3. Carries(q)'
      BY <2>1, <2>3, <3>2 DEF Carries, LastGen, HasFile, DocsOf
    <3> QED
      BY <3>1, <3>3
  <2> QED
    BY <2>2, <2>3
<1>5. Holds(p)' => lock' = p
  BY <1>2 DEF Holds
<1> QED
  BY <1>2, <1>3, <1>4, <1>5 DEF CmdInv

\* A step that leaves the tables and files alone.
LEMMA TablesStay ==
  ASSUME IInv, UNCHANGED <<corpus, state, records, files, built, writes>>,
         started' \in 0..MaxCommands, crashes' \in 0..MaxCrashes,
         lock' \in Procs \cup {NoProc}
  PROVE  TypeOK' /\ RecordsInv'
<1>1. TypeOK'
  BY DEF IInv, TypeOK
<1>2. RecordsInv'
  BY DEF IInv, RecordsInv, IndexMatchesRecords, HasFile, DocsOf
<1> QED
  BY <1>1, <1>2

LEMMA WriteKeeps ==
  ASSUME IInv, NEW k \in Keys, NEW t \in Texts \cup {NoText}, Write(k, t)
  PROVE  IInv'
<1>1. corpus' \in Corpora
  BY DEF IInv, TypeOK, Corpora, Write
<1>2. /\ state' \in State \cup {NoState}
      /\ state = NoState <=> state' = NoState
      /\ state # NoState => state'.gen = state.gen /\ state'.empty = state.empty
  BY NoStateAssumption DEF IInv, TypeOK, Write, Dirtied, State
<1>3. writes' \in 0..MaxWrites
  BY SemanticAssumption DEF IInv, TypeOK, Write
<1>4. TypeOK'
  BY <1>1, <1>2, <1>3 DEF IInv, TypeOK, Write
<1>5. RecordsInv'
  BY <1>2 DEF IInv, RecordsInv, IndexMatchesRecords, HasFile, DocsOf, Write
<1>6. CmdInv'
  BY DEF IInv, CmdInv, Holds, Write
<1>7. LastGen' = LastGen
  BY <1>2 DEF LastGen
<1>8. ASSUME NEW p \in Procs
      PROVE  Carries(p)'
  <2>1. Carries(p)
    BY DEF IInv
  <2> QED
    BY <1>2, <1>7, <2>1 DEF Carries, HasFile, DocsOf, Write
<1> QED
  BY <1>4, <1>5, <1>6, <1>8 DEF IInv

LEMMA StartKeeps ==
  ASSUME IInv, NEW p \in Procs, NEW c, Start(p, c),
         c.pc \in {"lock", "clear", "open"}
  PROVE  IInv'
<1>1. started' \in 0..MaxCommands
  BY SemanticAssumption DEF IInv, TypeOK, Start
<1>2. TypeOK' /\ RecordsInv'
  BY <1>1, TablesStay DEF Start, IInv, TypeOK
<1>3. CmdInv' /\ cmd'[p] = c /\ \A q \in Procs \ {p} : Carries(q)'
  BY OthersCarry DEF IInv, Start
<1>4. Carries(p)'
  BY <1>3 DEF Carries
<1> QED
  BY <1>2, <1>3, <1>4 DEF IInv

LEMMA StartsKeep ==
  ASSUME IInv, NEW p \in Procs, StartBuild(p) \/ StartClear(p) \/ StartSearch(p)
  PROVE  IInv'
<1>1. CASE StartBuild(p)
  BY <1>1, StartKeeps DEF StartBuild
<1>2. CASE StartClear(p)
  BY <1>2, StartKeeps DEF StartClear
<1>3. CASE StartSearch(p)
  <2>1. CASE NeedsRefresh(state)
    BY <1>3, <2>1, StartKeeps DEF StartSearch
  <2>2. CASE ~NeedsRefresh(state)
    BY <1>3, <2>2, StartKeeps DEF StartSearch
  <2> QED
    BY <2>1, <2>2
<1> QED
  BY <1>1, <1>2, <1>3

----------------------------------------------------------------------------
(* Steps of a rebuild.                                                     *)

LEMMA LockKeeps ==
  ASSUME IInv, NEW p \in Procs, Lock(p)
  PROVE  IInv'
<1>1. TypeOK' /\ RecordsInv'
  BY TablesStay DEF Lock, IInv, TypeOK
<1>2. CASE cmd[p].auto /\ (state = NoState \/ ~NeedsRefresh(state))
  <2> DEFINE c == [pc |-> "again", begun |-> cmd[p].begun]
  <2>1. Becomes(p, c) /\ lock' = lock
    BY <1>2 DEF Lock
  <2>2. CmdInv' /\ cmd'[p] = c /\ \A q \in Procs \ {p} : Carries(q)'
    BY <2>1, OthersCarry DEF IInv, Lock
  <2>3. Carries(p)'
    BY <2>2 DEF Carries
  <2> QED
    BY <1>1, <2>2, <2>3 DEF IInv
<1>3. CASE ~(cmd[p].auto /\ (state = NoState \/ ~NeedsRefresh(state)))
  <2> DEFINE c == [pc |-> "read", auto |-> cmd[p].auto, begun |-> cmd[p].begun,
                   old |-> IF state = NoState THEN 0 ELSE state.gen]
  <2>1. Becomes(p, c) /\ lock' = p /\ lock = NoProc
    BY <1>3 DEF Lock
  <2>2. CmdInv' /\ cmd'[p] = c /\ \A q \in Procs \ {p} : Carries(q)'
    BY <2>1, OthersCarry DEF IInv
  <2>3. LastGen' = LastGen /\ c.old = LastGen /\ c.pc = "read"
    BY DEF LastGen, Lock
  <2>4. Carries(p)'
    BY <2>2, <2>3 DEF Carries
  <2> QED
    BY <1>1, <2>2, <2>4 DEF IInv
<1> QED
  BY <1>2, <1>3

LEMMA ReadCorpusKeeps ==
  ASSUME IInv, NEW p \in Procs, ReadCorpus(p)
  PROVE  IInv'
<1> DEFINE c == [pc |-> "save", auto |-> cmd[p].auto, begun |-> cmd[p].begun,
                 old |-> cmd[p].old, read |-> corpus,
                 docs |-> Vectors(corpus, DocsOf(cmd[p].old))]
<1>1. TypeOK' /\ RecordsInv'
  BY TablesStay DEF ReadCorpus, IInv, TypeOK
<1>2. lock = p /\ cmd[p].pc = "read" /\ Carries(p)
  BY DEF ReadCorpus, IInv, CmdInv, Holds
<1>3. Becomes(p, c) /\ UNCHANGED <<state, files, built, lock>>
  BY DEF ReadCorpus
<1>4. CmdInv' /\ cmd'[p] = c /\ \A q \in Procs \ {p} : Carries(q)'
  BY <1>2, <1>3, OthersCarry DEF IInv
<1>5. DocsOf(cmd[p].old) \subseteq records
  <2>1. CASE state = NoState
    <3>1. cmd[p].old = 0
      BY <1>2, <2>1 DEF Carries, LastGen
    <3>2. \A f \in files : f.gen # 0
      BY DEF IInv, TypeOK
    <3> QED
      BY <3>1, <3>2 DEF DocsOf
  <2>2. CASE state # NoState
    <3>1. cmd[p].old = state.gen
      BY <1>2, <2>2 DEF Carries, LastGen
    <3> QED
      BY <2>2, <3>1 DEF IInv, RecordsInv, IndexMatchesRecords
  <2> QED
    BY <2>1, <2>2
<1>6. corpus \in Corpora /\ Vectors(corpus, DocsOf(cmd[p].old)) = Documents(corpus)
  <2>1. PICK b \in Corpora : records = Documents(b)
    BY DEF IInv, RecordsInv
  <2>2. corpus \in Corpora
    BY DEF IInv, TypeOK
  <2> QED
    BY <1>5, <2>1, <2>2, VectorsAreDocuments
<1>7. /\ c.pc = "save" /\ c.old = cmd[p].old /\ c.read = corpus
      /\ c.docs = Vectors(corpus, DocsOf(cmd[p].old))
  OBVIOUS
<1>8. LastGen' = LastGen /\ cmd[p].old = LastGen
  BY <1>2, <1>3 DEF LastGen, Carries
<1> HIDE DEF c
<1>9. Carries(p)'
  BY <1>4, <1>6, <1>7, <1>8 DEF Carries
<1> QED
  BY <1>1, <1>4, <1>9 DEF IInv

\* State and files as one: the row's file is there and is what it was.
LEMMA CommittedFileStays ==
  ASSUME IInv, UNCHANGED <<state, records>>,
         state # NoState => /\ HasIn(files', state.gen)
                            /\ DocsIn(files', state.gen) = DocsIn(files, state.gen)
  PROVE  RecordsInv'
<1>1. state # NoState => DocsOf(state.gen) = DocsIn(files, state.gen)
  BY DEF DocsOf, DocsIn
<1>2. state # NoState => /\ HasFile(state.gen)' <=> HasIn(files', state.gen)
                         /\ DocsOf(state.gen)' = DocsIn(files', state.gen)
  BY DEF DocsOf, DocsIn, HasFile, HasIn
<1> QED
  BY <1>1, <1>2 DEF IInv, RecordsInv, IndexMatchesRecords

LEMMA SaveIndexKeeps ==
  ASSUME IInv, NEW p \in Procs, SaveIndex(p)
  PROVE  IInv'
<1> DEFINE c == [pc |-> "commit", auto |-> cmd[p].auto, begun |-> cmd[p].begun,
                 old |-> cmd[p].old, read |-> cmd[p].read, gen |-> built + 1]
<1>1. lock = p /\ cmd[p].pc = "save" /\ Carries(p)
  BY DEF SaveIndex, IInv, CmdInv, Holds
<1>2. /\ cmd[p].read \in Corpora /\ cmd[p].docs = Documents(cmd[p].read)
      /\ cmd[p].old = LastGen
  BY <1>1 DEF Carries
<1>3. /\ built \in Nat /\ built' = built + 1
      /\ files' = files \cup {[gen |-> built + 1, docs |-> cmd[p].docs]}
      /\ Adds(files, built + 1, cmd[p].docs, files')
      /\ Becomes(p, c) /\ UNCHANGED <<corpus, state, records, lock, writes, started, crashes>>
  BY DEF SaveIndex, IInv, TypeOK, Adds
<1>4. ~HasIn(files, built + 1)
  BY <1>3 DEF IInv, TypeOK, HasIn
<1>5. state # NoState => state.gen # built + 1 /\ state.gen \in 1..built
  BY <1>3 DEF IInv, TypeOK, RecordsInv, IndexMatchesRecords, HasFile
<1>6. TypeOK'
  <2>1. [gen |-> built + 1, docs |-> cmd[p].docs] \in File
    BY <1>2, <1>3, DocumentsAreDistinct DEF File
  <2>2. files' \subseteq File
    BY <1>3, <2>1 DEF IInv, TypeOK
  <2>3. \A f \in files' : f.gen \in 1..built'
    BY <1>3 DEF IInv, TypeOK
  <2>4. \A f, g \in files' : f.gen = g.gen => f = g
    BY <1>3, <1>4 DEF IInv, TypeOK, HasIn
  <2> QED
    BY <1>3, <2>2, <2>3, <2>4 DEF IInv, TypeOK
<1>7. RecordsInv'
  <2>1. state # NoState => /\ HasIn(files', state.gen)
                           /\ DocsIn(files', state.gen) = DocsIn(files, state.gen)
    <3>1. state # NoState => HasIn(files, state.gen)
      BY DEF IInv, RecordsInv, IndexMatchesRecords, HasFile, HasIn
    <3> QED
      BY <1>3, <1>5, <3>1, FileAdded
  <2> QED
    BY <1>3, <2>1, CommittedFileStays
<1>8. CmdInv' /\ cmd'[p] = c /\ \A q \in Procs \ {p} : Carries(q)'
  BY <1>1, <1>3, OthersCarry DEF IInv
<1>9. Carries(p)'
  <2>1. HasIn(files', built + 1) /\ DocsIn(files', built + 1) = Documents(cmd[p].read)
    BY <1>2, <1>3, <1>4, FileAdded
  <2>2. LastGen' = LastGen /\ LastGen # built + 1 /\ built + 1 \in 1..built'
    BY <1>3, <1>5 DEF LastGen
  <2>3. /\ c.pc = "commit" /\ c.old = LastGen /\ c.read = cmd[p].read /\ c.gen = built + 1
    BY <1>2
  <2> HIDE DEF c
  <2>4. cmd'[p].pc = "commit" => /\ HasFile(cmd[p].gen)'
                                 /\ DocsOf(cmd[p].gen)' = Documents(cmd'[p].read)
    BY <1>8, <2>1, <2>3 DEF HasFile, HasIn, DocsOf, DocsIn
  <2>5. Documents(cmd[p].read)' = Documents(cmd'[p].read)
    BY DEF Documents, Active
  <2> QED
    BY <1>2, <1>8, <2>2, <2>3, <2>4, <2>5 DEF Carries
<1> QED
  BY <1>6, <1>7, <1>8, <1>9 DEF IInv

LEMMA CommitKeeps ==
  ASSUME IInv, NEW p \in Procs, Commit(p)
  PROVE  IInv'
<1>1. lock = p /\ cmd[p].pc = "commit" /\ Carries(p)
  BY DEF Commit, IInv, CmdInv, Holds
<1>2. /\ cmd[p].read \in Corpora
      /\ cmd[p].gen \in 1..built
      /\ cmd[p].gen # LastGen
      /\ cmd[p].old = LastGen
      /\ HasFile(cmd[p].gen)
      /\ DocsOf(cmd[p].gen) = Documents(cmd[p].read)
  BY <1>1 DEF Carries
<1>3. UNCHANGED <<corpus, built, writes, started, crashes>>
  BY DEF Commit
<1>4. CASE corpus = cmd[p].read
  <2> DEFINE c == [pc |-> "sweep", auto |-> cmd[p].auto, begun |-> cmd[p].begun,
                   old |-> cmd[p].old]
             s == [gen |-> cmd[p].gen, dirty |-> FALSE,
                   empty |-> Active(cmd[p].read) = {}, born |-> writes]
  <2>1. /\ Becomes(p, c) /\ state' = s /\ records' = Documents(cmd[p].read)
        /\ UNCHANGED <<files, lock>>
    BY <1>4 DEF Commit
  <2>2. s \in State /\ state' # NoState /\ state'.gen = cmd[p].gen
        /\ (state'.empty <=> Active(cmd[p].read) = {})
    <3>1. cmd[p].gen \in Nat /\ writes \in Nat
      BY <1>2 DEF IInv, TypeOK
    <3>2. \A e \in BOOLEAN : [gen |-> cmd[p].gen, dirty |-> FALSE, empty |-> e, born |-> writes]
                               \in State
      BY <3>1 DEF State
    <3>3. (Active(cmd[p].read) = {}) \in BOOLEAN
      OBVIOUS
    <3>4. s \in State
      BY <3>2, <3>3, Zenon
    <3>5. s.gen = cmd[p].gen
      OBVIOUS
    <3>6. s.empty <=> Active(cmd[p].read) = {}
      BY Zenon
    <3> HIDE DEF s
    <3> QED
      BY <2>1, <3>4, <3>5, <3>6, NoStateAssumption
  <2>3. TypeOK'
    BY <1>2, <1>3, <2>1, <2>2, DocumentsAreDistinct DEF IInv, TypeOK
  <2>4. RecordsInv'
    <3>1. HasFile(state'.gen) /\ DocsOf(state'.gen) = records'
      BY <1>2, <2>1, <2>2
    <3>2. HasFile(state.gen)' /\ DocsOf(state.gen)' = records'
      BY <2>1, <3>1 DEF HasFile, DocsOf
    <3>3. Active(cmd[p].read) = {} <=> Documents(cmd[p].read) = {}
      BY DEF Documents
    <3>4. \E b \in Corpora : records' = Documents(b)'
      <4>1. Documents(cmd[p].read) = {[id |-> Cardinality({j \in Active(cmd[p].read) : j <= k}),
                                       key |-> k, text |-> cmd[p].read[k]] :
                                         k \in Active(cmd[p].read)}
        BY DEF Documents
      <4> QED
        BY <1>2, <2>1 DEF Documents, Active
    <3> QED
      BY <2>1, <2>2, <3>2, <3>3, <3>4 DEF RecordsInv, IndexMatchesRecords
  <2>5. CmdInv' /\ cmd'[p] = c /\ \A q \in Procs \ {p} : Carries(q)'
    BY <1>1, <2>1, OthersCarry DEF IInv
  <2>6. Carries(p)'
    BY <1>2, <2>2, <2>5 DEF Carries, LastGen
  <2> QED
    BY <2>3, <2>4, <2>5, <2>6 DEF IInv
<1>5. CASE corpus # cmd[p].read
  <2>1. /\ files' = {f \in files : f.gen # cmd[p].gen}
        /\ lock' = NoProc
        /\ Becomes(p, Idle)
        /\ UNCHANGED <<records, state>>
    BY <1>5 DEF Commit
  <2>2. TypeOK'
    BY <1>3, <2>1 DEF IInv, TypeOK
  <2>3. RecordsInv'
    <3>1. state # NoState => HasIn(files, state.gen) /\ state.gen # cmd[p].gen
      BY <1>2 DEF IInv, RecordsInv, IndexMatchesRecords, HasFile, HasIn, LastGen
    <3>2. Removes(files, cmd[p].gen, files')
      BY <2>1 DEF Removes
    <3>3. state # NoState => /\ HasIn(files', state.gen)
                             /\ DocsIn(files', state.gen) = DocsIn(files, state.gen)
      BY <3>1, <3>2, FileRemoved
    <3> QED
      BY <2>1, <3>3, CommittedFileStays
  <2>4. CmdInv' /\ cmd'[p] = Idle /\ \A q \in Procs \ {p} : Carries(q)'
    BY <1>1, <2>1, OthersCarry DEF IInv, Idle
  <2>5. Carries(p)'
    BY <2>4 DEF Carries, Idle
  <2> QED
    BY <2>2, <2>3, <2>4, <2>5 DEF IInv
<1> QED
  BY <1>4, <1>5

LEMMA SweepKeeps ==
  ASSUME IInv, NEW p \in Procs, Sweep(p)
  PROVE  IInv'
<1> DEFINE c == IF cmd[p].auto THEN [pc |-> "again", begun |-> cmd[p].begun] ELSE Idle
<1>1. lock = p /\ cmd[p].old # LastGen
  BY DEF Sweep, IInv, CmdInv, Holds, Carries
<1>2. /\ files' = {f \in files : f.gen # cmd[p].old}
      /\ Removes(files, cmd[p].old, files')
      /\ lock' = NoProc /\ Becomes(p, c)
      /\ UNCHANGED <<corpus, state, records, built, writes, started, crashes>>
  BY DEF Sweep, Removes
<1>3. TypeOK'
  BY <1>2 DEF IInv, TypeOK
<1>4. RecordsInv'
  <2>1. state # NoState => HasIn(files, state.gen) /\ state.gen # cmd[p].old
    BY <1>1 DEF IInv, RecordsInv, IndexMatchesRecords, HasFile, HasIn, LastGen
  <2>2. state # NoState => /\ HasIn(files', state.gen)
                           /\ DocsIn(files', state.gen) = DocsIn(files, state.gen)
    BY <1>2, <2>1, FileRemoved
  <2> QED
    BY <1>2, <2>2, CommittedFileStays
<1>5. c.pc \in {"again", "idle"}
  BY DEF Idle
<1> HIDE DEF c
<1>6. CmdInv' /\ cmd'[p] = c /\ \A q \in Procs \ {p} : Carries(q)'
  BY <1>1, <1>2, <1>5, OthersCarry DEF IInv
<1>7. Carries(p)'
  BY <1>5, <1>6 DEF Carries
<1> QED
  BY <1>3, <1>4, <1>6, <1>7 DEF IInv

----------------------------------------------------------------------------
(* Steps of a clear, of a search, and a crash.                             *)

LEMMA ClearKeeps ==
  ASSUME IInv, NEW p \in Procs, Clear(p)
  PROVE  IInv'
<1> DEFINE c == [pc |-> "remove"]
<1>1. /\ lock = NoProc /\ lock' = p /\ records' = {} /\ state' = NoState /\ Becomes(p, c)
      /\ UNCHANGED <<corpus, files, built, writes, started, crashes>>
  BY DEF Clear
<1>2. TypeOK'
  BY <1>1 DEF IInv, TypeOK
<1>3. RecordsInv'
  <2>1. [k \in Keys |-> NoText] \in Corpora
    BY DEF Corpora
  <2>2. Documents([k \in Keys |-> NoText]) = {}
    BY DEF Documents, Active
  <2> QED
    BY <1>1, <2>1, <2>2 DEF RecordsInv, IndexMatchesRecords
<1>4. CmdInv' /\ cmd'[p] = c /\ \A q \in Procs \ {p} : Carries(q)'
  BY <1>1, OthersCarry DEF IInv
<1>5. Carries(p)'
  BY <1>1, <1>4 DEF Carries
<1> QED
  BY <1>2, <1>3, <1>4, <1>5 DEF IInv

LEMMA RemoveFilesKeeps ==
  ASSUME IInv, NEW p \in Procs, RemoveFiles(p)
  PROVE  IInv'
<1>1. lock = p /\ state = NoState
  BY DEF RemoveFiles, IInv, CmdInv, Holds, Carries
<1>2. /\ files' = {} /\ lock' = NoProc /\ Becomes(p, Idle)
      /\ UNCHANGED <<corpus, state, records, built, writes, started, crashes>>
  BY DEF RemoveFiles
<1>3. TypeOK'
  BY <1>2 DEF IInv, TypeOK
<1>4. RecordsInv'
  BY <1>1, <1>2 DEF IInv, RecordsInv, IndexMatchesRecords
<1>5. CmdInv' /\ cmd'[p] = Idle /\ \A q \in Procs \ {p} : Carries(q)'
  BY <1>1, <1>2, OthersCarry DEF IInv, Idle
<1>6. Carries(p)'
  BY <1>5 DEF Carries, Idle
<1> QED
  BY <1>3, <1>4, <1>5, <1>6 DEF IInv

\* A search only reads.
LEMMA SearchKeeps ==
  ASSUME IInv, NEW p \in Procs, NEW c, Becomes(p, c), c.pc \in {"idle", "open", "fetch"},
         UNCHANGED <<corpus, state, records, files, built, lock, writes, started, crashes>>
  PROVE  IInv'
<1>1. TypeOK' /\ RecordsInv'
  BY TablesStay DEF IInv, TypeOK
<1>2. CmdInv' /\ cmd'[p] = c /\ \A q \in Procs \ {p} : Carries(q)'
  BY OthersCarry DEF IInv
<1>3. Carries(p)'
  BY <1>2 DEF Carries
<1> QED
  BY <1>1, <1>2, <1>3 DEF IInv

LEMMA SearchesKeep ==
  ASSUME IInv, NEW p \in Procs, ReadAgain(p) \/ OpenIndex(p) \/ FetchHit(p)
  PROVE  IInv'
<1>1. Idle.pc = "idle"
  BY DEF Idle
<1>2. CASE ReadAgain(p)
  <2>1. PICK c : Becomes(p, c) /\ c.pc \in {"idle", "open"}
    BY <1>1, <1>2 DEF ReadAgain
  <2> QED
    BY <1>2, <2>1, SearchKeeps DEF ReadAgain
<1>3. CASE OpenIndex(p)
  <2>1. PICK c : Becomes(p, c) /\ c.pc \in {"idle", "fetch"}
    <3> DEFINE s == cmd[p].state
    <3>1. CASE s.empty \/ ~HasFile(s.gen)
      BY <1>1, <1>3, <3>1 DEF OpenIndex
    <3>2. CASE ~(s.empty \/ ~HasFile(s.gen))
      <4>1. PICK hit \in DocsOf(s.gen) :
              Becomes(p, [pc |-> "fetch", state |-> s, begun |-> cmd[p].begun, hit |-> hit])
        BY <1>3, <3>2 DEF OpenIndex
      <4> QED
        BY <4>1
    <3> QED
      BY <3>1, <3>2
  <2> QED
    BY <1>3, <2>1, SearchKeeps DEF OpenIndex
<1>4. CASE FetchHit(p)
  BY <1>1, <1>4, SearchKeeps DEF FetchHit
<1> QED
  BY <1>2, <1>3, <1>4

LEMMA CrashKeeps ==
  ASSUME IInv, NEW p \in Procs, Crash(p)
  PROVE  IInv'
<1>1. /\ Becomes(p, Idle) /\ lock' = IF lock = p THEN NoProc ELSE lock
      /\ UNCHANGED <<corpus, state, records, files, built, writes, started>>
  BY DEF Crash
<1>2. crashes' \in 0..MaxCrashes
  BY SemanticAssumption DEF IInv, TypeOK, Crash
<1>3. TypeOK' /\ RecordsInv'
  BY <1>1, <1>2, TablesStay DEF IInv, TypeOK
<1>4. CmdInv' /\ cmd'[p] = Idle /\ \A q \in Procs \ {p} : Carries(q)'
  BY <1>1, OthersCarry DEF IInv, Idle
<1>5. Carries(p)'
  BY <1>4 DEF Carries, Idle
<1> QED
  BY <1>3, <1>4, <1>5 DEF IInv

LEMMA StutterKeeps ==
  ASSUME IInv, UNCHANGED vars
  PROVE  IInv'
  BY DEF IInv, TypeOK, CmdInv, Holds, Carries, LastGen, RecordsInv, IndexMatchesRecords,
         HasFile, DocsOf, vars

LEMMA NextIInv == IInv /\ [Next]_vars => IInv'
<1> SUFFICES ASSUME IInv, [Next]_vars PROVE IInv'
  OBVIOUS
<1>1. ASSUME NEW k \in Keys, NEW t \in Texts \cup {NoText}, Write(k, t) PROVE IInv'
  BY <1>1, WriteKeeps
<1>2. ASSUME NEW p \in Procs, StartBuild(p) \/ StartClear(p) \/ StartSearch(p) PROVE IInv'
  BY <1>2, StartsKeep
<1>3. ASSUME NEW p \in Procs, Continue(p) PROVE IInv'
  BY <1>3, LockKeeps, ReadCorpusKeeps, SaveIndexKeeps, CommitKeeps, SweepKeeps, ClearKeeps,
     RemoveFilesKeeps, SearchesKeep DEF Continue
<1>4. ASSUME NEW p \in Procs, Crash(p) PROVE IInv'
  BY <1>4, CrashKeeps
<1> QED
  BY <1>1, <1>2, <1>3, <1>4, StutterKeeps DEF Next

LEMMA Invariance == Spec => []IInv
  BY InitIInv, NextIInv, PTL DEF Spec

\* Rows, files, counters and the lock keep their types, and a generation
\* has one file (semantic.rs:174), whatever builds, clears and searches do.
THEOREM SemanticTypes == Spec => []TypeOK
<1>1. IInv => TypeOK
  BY DEF IInv
<1> QED
  BY <1>1, Invariance, PTL

\* For any number of processes and crashes, the index file of the committed
\* generation exists and has each vector under the id of its record
\* (semantic.rs:395-470).
THEOREM IndexCorrect == Spec => []IndexMatchesRecords
<1>1. IInv => IndexMatchesRecords
  BY DEF IInv, RecordsInv
<1> QED
  BY <1>1, Invariance, PTL

----------------------------------------------------------------------------
(* The promise.  A step of the index is one of CorpusIndex or none.        *)

Served == IF state = NoState THEN NoState ELSE Copy(DocsOf(state.gen))
Stale == state # NoState /\ state.dirty

LEMMA PromiseVars == Promise!vars = <<corpus, Served, Stale>>
  BY DEF Promise!vars, Served, Stale

\* What is served is a copy of memories, never nothing.
LEMMA ServesMemories ==
  ASSUME IInv, state # NoState
  PROVE  Served \in Corpora /\ Served # NoState
<1>1. PICK c \in Corpora : DocsOf(state.gen) = Documents(c)
  BY DEF IInv, RecordsInv, IndexMatchesRecords
<1>2. Served = c
  BY <1>1, CopyOfDocuments DEF Served
<1> QED
  BY <1>2, NoStateAssumption

LEMMA ServedStays ==
  ASSUME state' = state,
         state # NoState => DocsIn(files', state.gen) = DocsIn(files, state.gen)
  PROVE  Served' = Served /\ Stale' = Stale
<1>1. CASE state = NoState
  BY <1>1 DEF Served, Stale
<1>2. CASE state # NoState
  <2>1. DocsOf(state.gen) = DocsIn(files, state.gen)
    BY DEF DocsOf, DocsIn
  <2>2. DocsOf(state.gen)' = DocsIn(files', state.gen)
    BY DEF DocsOf, DocsIn
  <2>3. DocsOf(state.gen)' = DocsOf(state.gen)
    BY <1>2, <2>1, <2>2
  <2>4. Copy(DocsOf(state.gen))' = Copy(DocsOf(state.gen))
    BY <2>3 DEF Copy
  <2> QED
    BY <2>4 DEF Served, Stale
<1> QED
  BY <1>1, <1>2

LEMMA InitPromise == Init => Promise!Init
<1> SUFFICES ASSUME Init PROVE Promise!Init
  OBVIOUS
<1>1. corpus \in Corpora
  BY DEF Init, Corpora
<1>2. state = NoState
  BY DEF Init
<1> QED
  BY <1>1, <1>2 DEF Promise!Init

LEMMA WriteIsWrite ==
  ASSUME IInv, NEW k \in Keys, NEW t \in Texts \cup {NoText}, Write(k, t)
  PROVE  Promise!Next
<1>1. corpus' \in Corpora
  BY DEF IInv, TypeOK, Corpora, Write
<1>2. CASE state = NoState
  <2>1. state' = NoState
    BY <1>2 DEF Write, Dirtied
  <2>2. Promise!Write(corpus')
    BY <1>2, <2>1 DEF Promise!Write
  <2> QED
    BY <1>1, <2>2 DEF Promise!Next
<1>3. CASE state # NoState
  <2>1. state' = [state EXCEPT !.dirty = TRUE] /\ state \in State
    BY <1>3 DEF IInv, TypeOK, Write, Dirtied
  <2>2. state' \in State /\ state'.dirty = TRUE /\ state'.gen = state.gen
    BY <2>1 DEF State
  <2>3. state' # NoState
    BY <2>2, NoStateAssumption
  <2>4. Copy(DocsOf(state.gen))' = Copy(DocsOf(state.gen))
    BY <2>2 DEF Copy, DocsOf, Write
  <2>5. Served' = Served /\ Stale' = TRUE
    BY <1>3, <2>2, <2>3, <2>4 DEF Served, Stale
  <2>6. Served # NoState
    BY <1>3, ServesMemories
  <2>7. Promise!Write(corpus')
    BY <2>5, <2>6 DEF Promise!Write, Served, Stale
  <2> QED
    BY <1>1, <2>7 DEF Promise!Next
<1> QED
  BY <1>2, <1>3

LEMMA CommitIsRefresh ==
  ASSUME IInv, NEW p \in Procs, Commit(p)
  PROVE  Promise!Next \/ UNCHANGED Promise!vars
<1>1. cmd[p].pc = "commit" /\ Carries(p)
  BY DEF Commit, IInv
<1>2. /\ cmd[p].read \in Corpora
      /\ cmd[p].gen # LastGen
      /\ DocsOf(cmd[p].gen) = Documents(cmd[p].read)
  BY <1>1 DEF Carries
<1>3. CASE corpus = cmd[p].read
  <2>1. /\ state' = [gen |-> cmd[p].gen, dirty |-> FALSE,
                     empty |-> Active(cmd[p].read) = {}, born |-> writes]
        /\ files' = files /\ corpus' = corpus
    BY <1>3 DEF Commit
  <2>2. state'.gen = cmd[p].gen /\ state'.dirty = FALSE
    BY <2>1
  <2>3. state' # NoState
    <3>1. cmd[p].gen \in Nat /\ writes \in Nat
      BY <1>1 DEF Carries, IInv, TypeOK
    <3>2. \A e \in BOOLEAN : [gen |-> cmd[p].gen, dirty |-> FALSE, empty |-> e, born |-> writes]
                               \in State
      BY <3>1 DEF State
    <3>3. (Active(cmd[p].read) = {}) \in BOOLEAN
      OBVIOUS
    <3>4. state' \in State
      BY <2>1, <3>2, <3>3, Zenon
    <3> QED
      BY <3>4, NoStateAssumption
  <2>4. DocsOf(state.gen)' = Documents(corpus)
    BY <1>2, <1>3, <2>1, <2>2 DEF DocsOf
  <2>5. Copy(DocsOf(state.gen))' = corpus
    <3>1. Copy(DocsOf(state.gen))' = Copy(Documents(corpus))
      BY <2>4 DEF Copy
    <3> QED
      BY <1>2, <1>3, <3>1, CopyOfDocuments
  <2>6. Served' = corpus /\ Stale' = FALSE
    BY <2>2, <2>3, <2>5 DEF Served, Stale
  <2>7. Promise!Refresh
    BY <2>1, <2>6 DEF Promise!Refresh, Served, Stale
  <2> QED
    BY <2>7 DEF Promise!Next
<1>4. CASE corpus # cmd[p].read
  <2>1. Removes(files, cmd[p].gen, files') /\ corpus' = corpus /\ state' = state
    BY <1>4 DEF Commit, Removes
  <2>2. state # NoState => state.gen # cmd[p].gen
    BY <1>2 DEF LastGen
  <2>3. Served' = Served /\ Stale' = Stale
    BY <2>1, <2>2, FileRemoved, ServedStays
  <2> QED
    BY <2>1, <2>3, PromiseVars DEF Promise!vars, Served, Stale
<1> QED
  BY <1>3, <1>4

LEMMA ClearIsDisable ==
  ASSUME NEW p \in Procs, Clear(p)
  PROVE  Promise!Next
<1>1. state' = NoState /\ corpus' = corpus
  BY DEF Clear
<1>2. Promise!Disable
  BY <1>1 DEF Promise!Disable
<1> QED
  BY <1>2 DEF Promise!Next

LEMMA FileStepsAreSilent ==
  ASSUME IInv, NEW p \in Procs, SaveIndex(p) \/ Sweep(p) \/ RemoveFiles(p)
  PROVE  UNCHANGED <<corpus, Served, Stale>>
<1>1. CASE SaveIndex(p)
  <2>1. /\ Adds(files, built + 1, cmd[p].docs, files')
        /\ corpus' = corpus /\ state' = state
    BY <1>1 DEF SaveIndex, Adds
  <2>2. state # NoState => state.gen # built + 1
    BY DEF IInv, TypeOK, RecordsInv, IndexMatchesRecords, HasFile
  <2> QED
    BY <2>1, <2>2, FileAdded, ServedStays
<1>2. CASE Sweep(p)
  <2>1. Removes(files, cmd[p].old, files') /\ corpus' = corpus /\ state' = state
    BY <1>2 DEF Sweep, Removes
  <2>2. state # NoState => state.gen # cmd[p].old
    BY <1>2 DEF Sweep, IInv, Carries, LastGen
  <2> QED
    BY <2>1, <2>2, FileRemoved, ServedStays
<1>3. CASE RemoveFiles(p)
  <2>1. state = NoState /\ corpus' = corpus /\ state' = state
    BY <1>3 DEF RemoveFiles, IInv, Carries
  <2> QED
    BY <2>1, ServedStays
<1> QED
  BY <1>1, <1>2, <1>3

LEMMA ReadersAreSilent ==
  ASSUME UNCHANGED <<corpus, state, files>>
  PROVE  UNCHANGED <<corpus, Served, Stale>>
  BY ServedStays

LEMMA NextPromise == IInv /\ [Next]_vars => [Promise!Next]_(Promise!vars)
<1> SUFFICES ASSUME IInv, [Next]_vars PROVE Promise!Next \/ UNCHANGED Promise!vars
  OBVIOUS
<1>1. UNCHANGED <<corpus, Served, Stale>> => UNCHANGED Promise!vars
  BY DEF Promise!vars, Served, Stale
<1>2. ASSUME NEW k \in Keys, NEW t \in Texts \cup {NoText}, Write(k, t)
      PROVE  Promise!Next
  BY <1>2, WriteIsWrite
<1>3. ASSUME NEW p \in Procs, \/ StartBuild(p) \/ StartClear(p) \/ StartSearch(p)
                              \/ Lock(p) \/ ReadCorpus(p) \/ ReadAgain(p) \/ OpenIndex(p)
                              \/ FetchHit(p) \/ Crash(p)
      PROVE  UNCHANGED <<corpus, state, files>>
  BY <1>3 DEF StartBuild, StartClear, StartSearch, Start, Lock, ReadCorpus, ReadAgain,
              OpenIndex, FetchHit, Crash
<1>4. ASSUME NEW p \in Procs, Continue(p)
      PROVE  Promise!Next \/ UNCHANGED Promise!vars
  BY <1>1, <1>3, <1>4, ReadersAreSilent, FileStepsAreSilent, CommitIsRefresh, ClearIsDisable
     DEF Continue
<1>5. UNCHANGED vars => UNCHANGED <<corpus, state, files>>
  BY DEF vars
<1> QED
  BY <1>1, <1>2, <1>3, <1>4, <1>5, ReadersAreSilent DEF Next

\* The index implements CorpusIndex: writers, builds and clears of any number
\* of processes, killed anywhere, do no more than write, refresh from one
\* instant and disable (semantic.rs:286-484).
THEOREM ImplementsCorpusIndex == Spec => KeepsPromise
  BY InitPromise, NextPromise, Invariance, PTL DEF Spec, KeepsPromise, Promise!Spec

\* So an index that is not marked dirty is the active memories: a search that
\* finds no need to refresh misses no write (semantic_needs_refresh,
\* semantic.rs:274).
THEOREM FreshIndexIsFaithful == Spec => []Promise!Faithful
<1>1. Promise!Init => Promise!Faithful
  BY DEF Promise!Init, Promise!Faithful
<1>2. Promise!Faithful /\ [Promise!Next]_(Promise!vars) => Promise!Faithful'
  BY DEF Promise!Faithful, Promise!Next, Promise!Write, Promise!Refresh, Promise!Disable,
         Promise!vars
<1> QED
  BY <1>1, <1>2, ImplementsCorpusIndex, PTL DEF KeepsPromise, Promise!Spec
----------------------------------------------------------------------------
(* Searches.  What a search carries from the row it read: its age, and a   *)
(* generation that is not committed a second time.                         *)

Asks(p) == cmd[p].pc \in {"lock", "read", "save", "commit", "sweep", "again", "open", "fetch"}
Searches(p) == cmd[p].pc \in {"open", "fetch"}

\* An index that is not dirty is of now, and a process that refreshed or saw
\* a fresh row has an index made after it began.
BornInv == state # NoState => /\ state.born \in 0..writes
                              /\ ~state.dirty => state.born = writes

Fresh(p) ==
  /\ Asks(p) => cmd[p].begun \in 0..writes
  /\ cmd[p].pc \in {"sweep", "again"} /\ state # NoState => state.born >= cmd[p].begun
  /\ Searches(p) => cmd[p].state.born >= cmd[p].begun

\* A rebuild that a search asked for runs only over an index that is there.
Enabled(p) == cmd[p].pc \in {"read", "save", "commit"} /\ cmd[p].auto => state # NoState

\* A generation about to be committed is newer than any that was.
Newest(g) == \A q \in Procs : cmd[q].pc = "commit" => g < cmd[q].gen

Hit(p) ==
  /\ Searches(p) => cmd[p].state.gen \in 0..built /\ Newest(cmd[p].state.gen)
  /\ cmd[p].pc = "fetch" /\ state # NoState /\ state.gen = cmd[p].state.gen
     => cmd[p].hit \in records

\* An index file is the committed one, or a rebuild or a clear will name or
\* remove it.
Claimed(f) ==
  \/ state # NoState /\ f.gen = state.gen
  \/ \E p \in Procs : \/ cmd[p].pc = "commit" /\ f.gen = cmd[p].gen
                      \/ cmd[p].pc = "sweep" /\ f.gen = cmd[p].old
                      \/ cmd[p].pc = "remove"

SearchInv ==
  /\ BornInv
  /\ \A p \in Procs : Fresh(p) /\ Enabled(p) /\ Hit(p)
  /\ Newest(LastGen)
  /\ crashes = 0 => \A f \in files : Claimed(f)

LEMMA InitSearch == Init => SearchInv
  BY DEF Init, SearchInv, BornInv, Fresh, Asks, Searches, Enabled, Newest, Hit, Idle

\* A step of p that does not touch the rows: what concerns the others holds
\* on, also when p names a new generation.
LEMMA RowsStay ==
  ASSUME IInv, SearchInv, NEW p \in Procs, NEW c, Becomes(p, c),
         UNCHANGED <<state, records, writes>>, built' \in Nat, built' >= built,
         c.pc = "commit" => c.gen \in Nat /\ c.gen > built
  PROVE  /\ BornInv' /\ Newest(LastGen)'
         /\ cmd'[p] = c /\ \A q \in Procs \ {p} : cmd'[q] = cmd[q]
         /\ \A q \in Procs \ {p} : Fresh(q)' /\ Enabled(q)' /\ Hit(q)'
<1>1. cmd' = [q \in Procs |-> IF q = p THEN c ELSE cmd[q]]
  BY DEF Becomes, IInv, CmdInv
<1>2. cmd'[p] = c /\ \A q \in Procs \ {p} : cmd'[q] = cmd[q]
  BY <1>1
<1>3. BornInv'
  BY DEF SearchInv, BornInv
<1>4. ASSUME NEW g \in 0..built, Newest(g)
      PROVE  Newest(g)'
  BY <1>2, <1>4 DEF Newest, IInv, TypeOK
<1>5. LastGen \in 0..built /\ LastGen' = LastGen
  BY DEF LastGen, IInv, TypeOK, RecordsInv, IndexMatchesRecords, HasFile
<1>6. Newest(LastGen)'
  BY <1>4, <1>5 DEF SearchInv, Newest
<1>7. ASSUME NEW q \in Procs \ {p}
      PROVE  Fresh(q)' /\ Enabled(q)' /\ Hit(q)'
  <2>1. Fresh(q) /\ Enabled(q) /\ Hit(q)
    BY DEF SearchInv
  <2>2. Fresh(q)' /\ Enabled(q)'
    BY <1>2, <2>1 DEF Fresh, Asks, Searches, Enabled
  <2>3. Searches(q)' => cmd[q].state.gen \in 0..built' /\ Newest(cmd[q].state.gen)'
    BY <1>2, <1>4, <2>1 DEF Hit, Searches, IInv, TypeOK
  <2>4. Hit(q)'
    BY <1>2, <2>1, <2>3 DEF Hit, Searches, Newest
  <2> QED
    BY <2>2, <2>4
<1> QED
  BY <1>2, <1>3, <1>6, <1>7

\* A step of p that touches neither rows nor files.
LEMMA OnlyCommand ==
  ASSUME IInv, SearchInv, NEW p \in Procs, NEW c, Becomes(p, c),
         UNCHANGED <<state, records, writes, files, built, crashes>>,
         cmd[p].pc \notin {"commit", "sweep", "remove"}, c.pc # "commit",
         cmd'[p] = c => Fresh(p)' /\ Enabled(p)' /\ Hit(p)'
  PROVE  SearchInv'
<1>1. /\ BornInv' /\ Newest(LastGen)'
      /\ cmd'[p] = c /\ \A q \in Procs \ {p} : cmd'[q] = cmd[q]
      /\ \A q \in Procs \ {p} : Fresh(q)' /\ Enabled(q)' /\ Hit(q)'
  BY RowsStay DEF IInv, TypeOK
<1>2. ASSUME NEW f, Claimed(f)
      PROVE  Claimed(f)'
  BY <1>1, <1>2 DEF Claimed
<1> QED
  BY <1>1, <1>2 DEF SearchInv

\* A process that is idle or takes up a command, or loses it.
LEMMA NothingCarried ==
  ASSUME NEW p \in Procs, cmd'[p].pc \in {"idle", "clear", "remove"}
  PROVE  Fresh(p)' /\ Enabled(p)' /\ Hit(p)'
  BY DEF Fresh, Asks, Searches, Enabled, Hit

\* Nothing is newer than the committed generation but one being committed.
LEMMA CommittedIsOld ==
  ASSUME IInv
  PROVE  LastGen \in 0..built /\ (state # NoState => state.gen = LastGen /\ state.gen \in 0..built)
  BY DEF LastGen, IInv, TypeOK, RecordsInv, IndexMatchesRecords, HasFile

LEMMA WriteSearch ==
  ASSUME IInv, SearchInv, NEW k \in Keys, NEW t \in Texts \cup {NoText}, Write(k, t)
  PROVE  SearchInv'
<1>1. /\ state = NoState <=> state' = NoState
      /\ state # NoState => state'.gen = state.gen /\ state'.born = state.born /\ state'.dirty
  BY NoStateAssumption DEF IInv, TypeOK, Write, Dirtied, State
<1>2. writes \in Nat /\ writes' = writes + 1
  BY DEF IInv, TypeOK, Write
<1>3. UNCHANGED <<records, files, built, cmd, crashes>> /\ LastGen' = LastGen
  BY <1>1 DEF Write, LastGen
<1>4. BornInv'
  BY <1>1, <1>2 DEF SearchInv, BornInv
<1>5. ASSUME NEW p \in Procs
      PROVE  Fresh(p)' /\ Enabled(p)' /\ Hit(p)'
  <2>1. Fresh(p) /\ Enabled(p) /\ Hit(p)
    BY DEF SearchInv
  <2>2. Fresh(p)'
    BY <1>1, <1>2, <1>3, <2>1 DEF Fresh, Asks, Searches
  <2>3. Enabled(p)' /\ Hit(p)'
    BY <1>1, <1>3, <2>1 DEF Enabled, Hit, Searches, Newest
  <2> QED
    BY <2>2, <2>3
<1>6. ASSUME NEW f, Claimed(f)
      PROVE  Claimed(f)'
  BY <1>1, <1>3, <1>6 DEF Claimed
<1> QED
  BY <1>3, <1>4, <1>5, <1>6 DEF SearchInv, Newest

LEMMA StartsSearch ==
  ASSUME IInv, SearchInv, NEW p \in Procs, StartBuild(p) \/ StartClear(p) \/ StartSearch(p)
  PROVE  SearchInv'
<1>1. PICK c : /\ Start(p, c)
               /\ \/ c.pc = "clear"
                  \/ c.pc = "lock" /\ c.begun = writes
                  \/ /\ c.pc = "open" /\ c.begun = writes /\ c.state = state
                     /\ state # NoState /\ ~NeedsRefresh(state)
  BY DEF StartBuild, StartClear, StartSearch
<1>2. /\ cmd[p].pc = "idle" /\ Becomes(p, c)
      /\ UNCHANGED <<state, records, writes, files, built, crashes>>
  BY <1>1 DEF Start, Idle
<1>3. writes \in 0..writes
  BY DEF IInv, TypeOK
<1>4. c.pc = "open" => /\ c.state.born = writes
                       /\ c.state.gen \in 0..built /\ Newest(c.state.gen)
  BY <1>1, CommittedIsOld DEF NeedsRefresh, SearchInv, BornInv
<1>5. ASSUME cmd'[p] = c
      PROVE  Fresh(p)' /\ Enabled(p)' /\ Hit(p)'
  <2>1. c.pc = "open" => Newest(c.state.gen)'
    BY <1>1, <1>2, <1>4, RowsStay DEF SearchInv, Newest, LastGen, NeedsRefresh, IInv, TypeOK
  <2> QED
    BY <1>1, <1>2, <1>3, <1>4, <1>5, <2>1 DEF Fresh, Asks, Searches, Enabled, Hit
<1> QED
  BY <1>1, <1>2, <1>5, OnlyCommand

LEMMA LockSearch ==
  ASSUME IInv, SearchInv, NEW p \in Procs, Lock(p)
  PROVE  SearchInv'
<1>1. PICK c : /\ Becomes(p, c)
               /\ \/ /\ c.pc = "again" /\ c.begun = cmd[p].begun
                     /\ state = NoState \/ ~NeedsRefresh(state)
                  \/ /\ c.pc = "read" /\ c.begun = cmd[p].begun /\ c.auto = cmd[p].auto
                     /\ cmd[p].auto => state # NoState
  BY DEF Lock
<1>2. /\ cmd[p].pc = "lock"
      /\ UNCHANGED <<state, records, writes, files, built, crashes>>
  BY DEF Lock
<1>3. cmd[p].begun \in 0..writes
  BY <1>2 DEF SearchInv, Fresh, Asks
<1>4. c.pc = "again" /\ state # NoState => state.born >= c.begun
  BY <1>1, <1>3 DEF NeedsRefresh, SearchInv, BornInv
<1>5. ASSUME cmd'[p] = c
      PROVE  Fresh(p)' /\ Enabled(p)' /\ Hit(p)'
  BY <1>1, <1>2, <1>3, <1>4, <1>5 DEF Fresh, Asks, Searches, Enabled, Hit
<1> QED
  BY <1>1, <1>2, <1>5, OnlyCommand

LEMMA ReadCorpusSearch ==
  ASSUME IInv, SearchInv, NEW p \in Procs, ReadCorpus(p)
  PROVE  SearchInv'
<1>1. PICK c : /\ Becomes(p, c)
               /\ c.pc = "save" /\ c.begun = cmd[p].begun /\ c.auto = cmd[p].auto
  BY DEF ReadCorpus
<1>2. /\ cmd[p].pc = "read" /\ Fresh(p) /\ Enabled(p)
      /\ UNCHANGED <<state, records, writes, files, built, crashes>>
  BY DEF ReadCorpus, SearchInv
<1>3. ASSUME cmd'[p] = c
      PROVE  Fresh(p)' /\ Enabled(p)' /\ Hit(p)'
  BY <1>1, <1>2, <1>3 DEF Fresh, Asks, Searches, Enabled, Hit
<1> QED
  BY <1>1, <1>2, <1>3, OnlyCommand

LEMMA SaveIndexSearch ==
  ASSUME IInv, SearchInv, NEW p \in Procs, SaveIndex(p)
  PROVE  SearchInv'
<1>1. PICK c : /\ Becomes(p, c) /\ c.gen = built + 1
               /\ c.pc = "commit" /\ c.begun = cmd[p].begun /\ c.auto = cmd[p].auto
  BY DEF SaveIndex
<1>2. /\ cmd[p].pc = "save" /\ Fresh(p) /\ Enabled(p)
      /\ built \in Nat /\ built' = built + 1
      /\ files' = files \cup {[gen |-> built + 1, docs |-> cmd[p].docs]}
      /\ UNCHANGED <<state, records, writes, crashes>>
  BY DEF SaveIndex, SearchInv, IInv, TypeOK
<1>3. /\ BornInv' /\ Newest(LastGen)'
      /\ cmd'[p] = c /\ \A q \in Procs \ {p} : cmd'[q] = cmd[q]
      /\ \A q \in Procs \ {p} : Fresh(q)' /\ Enabled(q)' /\ Hit(q)'
  BY <1>1, <1>2, RowsStay
<1>4. Fresh(p)' /\ Enabled(p)' /\ Hit(p)'
  BY <1>1, <1>2, <1>3 DEF Fresh, Asks, Searches, Enabled, Hit
<1>5. ASSUME NEW f \in files', crashes = 0
      PROVE  Claimed(f)'
  <2>1. CASE f \in files
    BY <1>1, <1>2, <1>3, <1>5, <2>1 DEF SearchInv, Claimed
  <2>2. CASE f.gen = built + 1
    BY <1>1, <1>3, <2>2 DEF Claimed
  <2> QED
    BY <1>2, <2>1, <2>2
<1> QED
  BY <1>2, <1>3, <1>4, <1>5 DEF SearchInv
\* A commit or a clear, holding the lock or taking it when it is free: nobody
\* else rebuilds or clears, and no search has the generation it commits.
LEMMA RowsChange ==
  ASSUME IInv, SearchInv, NEW p \in Procs, NEW c, Becomes(p, c), lock \in {NoProc, p},
         c.pc # "commit", UNCHANGED <<writes, built>>,
         \/ state' = NoState
         \/ /\ cmd[p].pc = "commit" /\ state'.gen = cmd[p].gen
            /\ state'.born = writes
  PROVE  /\ BornInv' /\ Newest(LastGen)'
         /\ cmd'[p] = c /\ \A q \in Procs \ {p} : cmd'[q] = cmd[q]
         /\ \A q \in Procs \ {p} : Fresh(q)' /\ Enabled(q)' /\ Hit(q)'
<1>1. cmd' = [q \in Procs |-> IF q = p THEN c ELSE cmd[q]]
  BY DEF Becomes, IInv, CmdInv
<1>2. cmd'[p] = c /\ \A q \in Procs \ {p} : cmd'[q] = cmd[q]
  BY <1>1
<1>3. writes \in Nat
  BY DEF IInv, TypeOK
<1>4. BornInv'
  BY <1>3 DEF BornInv
<1>5. \A q \in Procs \ {p} : ~Holds(q)
  BY SemanticAssumption DEF IInv, CmdInv
<1>6. \A q \in Procs : cmd'[q].pc # "commit"
  BY <1>2, <1>5 DEF Holds
<1>7. ASSUME NEW q \in Procs \ {p}
      PROVE  Fresh(q)' /\ Enabled(q)' /\ Hit(q)'
  <2>1. Fresh(q) /\ Hit(q) /\ ~Holds(q)
    BY <1>5 DEF SearchInv
  <2>2. Fresh(q)'
    BY <1>2, <1>3, <2>1 DEF Fresh, Asks, Searches
  <2>3. Enabled(q)'
    BY <1>2, <2>1 DEF Enabled, Holds
  <2>4. Hit(q)'
    <3>1. Searches(q)' => cmd[q].state.gen \in 0..built' /\ Newest(cmd[q].state.gen)'
      BY <1>2, <1>6, <2>1 DEF Hit, Searches, Newest
    <3>2. cmd[q].pc = "fetch" /\ state' # NoState => state'.gen # cmd[q].state.gen
      <4>1. SUFFICES ASSUME cmd[q].pc = "fetch", cmd[p].pc = "commit", state'.gen = cmd[p].gen
                     PROVE  state'.gen # cmd[q].state.gen
        OBVIOUS
      <4>2. cmd[q].state.gen \in Nat /\ cmd[q].state.gen < cmd[p].gen
        BY <2>1, <4>1 DEF Hit, Searches, Newest, IInv, TypeOK
      <4>3. cmd[p].gen \in Nat
        BY <4>1 DEF IInv, Carries, TypeOK
      <4> QED
        BY <4>1, <4>2, <4>3
    <3> QED
      BY <1>2, <3>1, <3>2 DEF Hit, Searches
  <2> QED
    BY <2>2, <2>3, <2>4
<1>8. Newest(LastGen)'
  BY <1>6 DEF Newest
<1> QED
  BY <1>2, <1>4, <1>7, <1>8

LEMMA RowIsThere ==
  ASSUME NEW g \in Nat, NEW e \in BOOLEAN, NEW w \in Nat
  PROVE  [gen |-> g, dirty |-> FALSE, empty |-> e, born |-> w] # NoState
<1>1. [gen |-> g, dirty |-> FALSE, empty |-> e, born |-> w] \in State
  BY DEF State
<1> QED
  BY <1>1, NoStateAssumption

LEMMA CommitSearch ==
  ASSUME IInv, SearchInv, NEW p \in Procs, Commit(p)
  PROVE  SearchInv'
<1>1. /\ cmd[p].pc = "commit" /\ lock = p /\ Carries(p) /\ Fresh(p)
      /\ UNCHANGED <<writes, built, crashes>>
  BY DEF Commit, IInv, CmdInv, Holds, SearchInv
<1>2. \A q \in Procs \ {p} : ~Holds(q)
  BY <1>1, SemanticAssumption DEF IInv, CmdInv
<1>3. ASSUME NEW f \in files, crashes = 0
      PROVE  (state # NoState /\ f.gen = state.gen) \/ f.gen = cmd[p].gen
  BY <1>1, <1>2, <1>3 DEF SearchInv, Claimed, Holds
<1>4. CASE corpus = cmd[p].read
  <2> DEFINE c == [pc |-> "sweep", auto |-> cmd[p].auto, begun |-> cmd[p].begun,
                   old |-> cmd[p].old]
             s == [gen |-> cmd[p].gen, dirty |-> FALSE,
                   empty |-> Active(cmd[p].read) = {}, born |-> writes]
  <2>1. /\ Becomes(p, c) /\ state' = s /\ s.gen = cmd[p].gen /\ s.born = writes
        /\ c.pc = "sweep" /\ c.begun = cmd[p].begun /\ c.old = cmd[p].old
        /\ files' = files
    BY <1>4 DEF Commit
  <2> HIDE DEF c, s
  <2>2. /\ BornInv' /\ Newest(LastGen)'
        /\ cmd'[p] = c /\ \A q \in Procs \ {p} : cmd'[q] = cmd[q]
        /\ \A q \in Procs \ {p} : Fresh(q)' /\ Enabled(q)' /\ Hit(q)'
    BY <1>1, <2>1, RowsChange
  <2>3. Fresh(p)' /\ Enabled(p)' /\ Hit(p)'
    BY <1>1, <2>1, <2>2 DEF Fresh, Asks, Searches, Enabled, Hit, IInv, TypeOK
  <2>4. state' # NoState
    <3>1. cmd[p].gen \in Nat /\ writes \in Nat /\ (Active(cmd[p].read) = {}) \in BOOLEAN
      BY <1>1 DEF Carries, IInv, TypeOK
    <3>2. s # NoState
      BY <3>1, RowIsThere, Zenon DEF s
    <3> QED
      BY <2>1, <3>2
  <2>5. ASSUME NEW f \in files', crashes = 0
        PROVE  Claimed(f)'
    <3>1. CASE f.gen = cmd[p].gen
      BY <2>1, <2>4, <3>1 DEF Claimed
    <3>2. CASE state # NoState /\ f.gen = state.gen
      <4>1. f.gen = cmd[p].old
        BY <1>1, <3>2 DEF Carries, LastGen
      <4> QED
        BY <2>1, <2>2, <4>1 DEF Claimed
    <3> QED
      BY <1>3, <2>1, <2>5, <3>1, <3>2
  <2> QED
    BY <1>1, <2>2, <2>3, <2>5 DEF SearchInv
<1>5. CASE corpus # cmd[p].read
  <2>1. /\ Becomes(p, Idle) /\ UNCHANGED <<records, state>>
        /\ files' = {f \in files : f.gen # cmd[p].gen}
    BY <1>5 DEF Commit
  <2>2. Idle.pc = "idle"
    BY DEF Idle
  <2>3. /\ BornInv' /\ Newest(LastGen)'
        /\ cmd'[p] = Idle /\ \A q \in Procs \ {p} : cmd'[q] = cmd[q]
        /\ \A q \in Procs \ {p} : Fresh(q)' /\ Enabled(q)' /\ Hit(q)'
    BY <1>1, <2>1, <2>2, RowsStay DEF IInv, TypeOK
  <2>4. ASSUME NEW f \in files', crashes = 0
        PROVE  Claimed(f)'
    BY <1>3, <2>1, <2>4 DEF Claimed
  <2> QED
    BY <1>1, <2>2, <2>3, <2>4, NothingCarried DEF SearchInv
<1> QED
  BY <1>4, <1>5

LEMMA SweepSearch ==
  ASSUME IInv, SearchInv, NEW p \in Procs, Sweep(p)
  PROVE  SearchInv'
<1>1. PICK c : /\ Becomes(p, c)
               /\ \/ c.pc = "again" /\ c.begun = cmd[p].begun
                  \/ c.pc = "idle"
  BY DEF Sweep, Idle
<1>2. /\ cmd[p].pc = "sweep" /\ lock = p /\ Fresh(p)
      /\ files' = {f \in files : f.gen # cmd[p].old}
      /\ UNCHANGED <<state, records, writes, built, crashes>>
  BY DEF Sweep, IInv, CmdInv, Holds, SearchInv
<1>3. /\ BornInv' /\ Newest(LastGen)'
      /\ cmd'[p] = c /\ \A q \in Procs \ {p} : cmd'[q] = cmd[q]
      /\ \A q \in Procs \ {p} : Fresh(q)' /\ Enabled(q)' /\ Hit(q)'
  BY <1>1, <1>2, RowsStay DEF IInv, TypeOK
<1>4. Fresh(p)' /\ Enabled(p)' /\ Hit(p)'
  BY <1>1, <1>2, <1>3 DEF Fresh, Asks, Searches, Enabled, Hit
<1>5. ASSUME NEW f \in files', crashes = 0
      PROVE  Claimed(f)'
  <2>1. \A q \in Procs \ {p} : ~Holds(q)
    BY <1>2, SemanticAssumption DEF IInv, CmdInv
  <2>2. state # NoState /\ f.gen = state.gen
    BY <1>2, <1>5, <2>1 DEF SearchInv, Claimed, Holds
  <2> QED
    BY <1>2, <2>2 DEF Claimed
<1> QED
  BY <1>2, <1>3, <1>4, <1>5 DEF SearchInv

LEMMA ClearSearch ==
  ASSUME IInv, SearchInv, NEW p \in Procs, Clear(p)
  PROVE  SearchInv'
<1> DEFINE c == [pc |-> "remove"]
<1>1. /\ Becomes(p, c) /\ c.pc = "remove" /\ lock = NoProc /\ state' = NoState
      /\ UNCHANGED <<writes, built, crashes>>
  BY DEF Clear
<1> HIDE DEF c
<1>2. /\ BornInv' /\ Newest(LastGen)'
      /\ cmd'[p] = c /\ \A q \in Procs \ {p} : cmd'[q] = cmd[q]
      /\ \A q \in Procs \ {p} : Fresh(q)' /\ Enabled(q)' /\ Hit(q)'
  BY <1>1, RowsChange
<1>3. \A f \in files' : Claimed(f)'
  BY <1>1, <1>2 DEF Claimed
<1> QED
  BY <1>1, <1>2, <1>3, NothingCarried DEF SearchInv

LEMMA RemoveFilesSearch ==
  ASSUME IInv, SearchInv, NEW p \in Procs, RemoveFiles(p)
  PROVE  SearchInv'
<1>1. /\ Becomes(p, Idle) /\ Idle.pc = "idle" /\ files' = {}
      /\ UNCHANGED <<state, records, writes, built, crashes>>
  BY DEF RemoveFiles, Idle
<1>2. /\ BornInv' /\ Newest(LastGen)'
      /\ cmd'[p] = Idle /\ \A q \in Procs \ {p} : cmd'[q] = cmd[q]
      /\ \A q \in Procs \ {p} : Fresh(q)' /\ Enabled(q)' /\ Hit(q)'
  BY <1>1, RowsStay DEF IInv, TypeOK
<1> QED
  BY <1>1, <1>2, NothingCarried DEF SearchInv

LEMMA ReadAgainSearch ==
  ASSUME IInv, SearchInv, NEW p \in Procs, ReadAgain(p)
  PROVE  SearchInv'
<1>1. PICK c : /\ Becomes(p, c)
               /\ \/ c.pc = "idle"
                  \/ /\ c.pc = "open" /\ c.begun = cmd[p].begun /\ c.state = state
                     /\ state # NoState
  BY DEF ReadAgain, Idle
<1>2. /\ cmd[p].pc = "again" /\ Fresh(p)
      /\ UNCHANGED <<state, records, writes, files, built, crashes>>
  BY DEF ReadAgain, SearchInv
<1>3. ASSUME cmd'[p] = c
      PROVE  Fresh(p)' /\ Enabled(p)' /\ Hit(p)'
  <2>1. c.pc = "open" => c.state.gen \in 0..built /\ c.state.gen = LastGen
    BY <1>1, CommittedIsOld
  <2>2. c.pc = "open" => Newest(c.state.gen)'
    BY <1>1, <1>2, <2>1, RowsStay DEF Newest, LastGen, IInv, TypeOK
  <2> QED
    BY <1>1, <1>2, <1>3, <2>1, <2>2 DEF Fresh, Asks, Searches, Enabled, Hit
<1> QED
  BY <1>1, <1>2, <1>3, OnlyCommand

LEMMA OpenIndexSearch ==
  ASSUME IInv, SearchInv, NEW p \in Procs, OpenIndex(p)
  PROVE  SearchInv'
<1>1. PICK c : /\ Becomes(p, c)
               /\ \/ c.pc = "idle"
                  \/ /\ c.pc = "fetch" /\ c.begun = cmd[p].begun /\ c.state = cmd[p].state
                     /\ c.hit \in DocsOf(cmd[p].state.gen)
  <2> DEFINE s == cmd[p].state
  <2>1. CASE s.empty \/ ~HasFile(s.gen)
    BY <2>1 DEF OpenIndex, Idle
  <2>2. CASE ~(s.empty \/ ~HasFile(s.gen))
    <3>1. PICK hit \in DocsOf(s.gen) :
            Becomes(p, [pc |-> "fetch", state |-> s, begun |-> cmd[p].begun, hit |-> hit])
      BY <2>2 DEF OpenIndex
    <3> QED
      BY <3>1
  <2> QED
    BY <2>1, <2>2
<1>2. /\ cmd[p].pc = "open" /\ Fresh(p) /\ Hit(p)
      /\ UNCHANGED <<state, records, writes, files, built, crashes>>
  BY DEF OpenIndex, SearchInv
<1>3. ASSUME cmd'[p] = c
      PROVE  Fresh(p)' /\ Enabled(p)' /\ Hit(p)'
  <2>1. c.pc = "fetch" => Newest(c.state.gen)'
    BY <1>1, <1>2, RowsStay DEF Newest, Hit, Searches, IInv, TypeOK
  <2>2. c.pc = "fetch" /\ state # NoState /\ state.gen = c.state.gen => c.hit \in records
    BY <1>1 DEF IInv, RecordsInv, IndexMatchesRecords
  <2> QED
    BY <1>1, <1>2, <1>3, <2>1, <2>2 DEF Fresh, Asks, Searches, Enabled, Hit
<1> QED
  BY <1>1, <1>2, <1>3, OnlyCommand

LEMMA FetchHitSearch ==
  ASSUME IInv, SearchInv, NEW p \in Procs, FetchHit(p)
  PROVE  SearchInv'
<1>1. /\ Becomes(p, Idle) /\ Idle.pc = "idle" /\ cmd[p].pc = "fetch"
      /\ UNCHANGED <<state, records, writes, files, built, crashes>>
  BY DEF FetchHit, Idle
<1> QED
  BY <1>1, NothingCarried, OnlyCommand

LEMMA CrashSearch ==
  ASSUME IInv, SearchInv, NEW p \in Procs, Crash(p)
  PROVE  SearchInv'
<1>1. /\ Becomes(p, Idle) /\ Idle.pc = "idle" /\ crashes' = crashes + 1
      /\ UNCHANGED <<state, records, writes, files, built>>
  BY DEF Crash, Idle
<1>2. /\ BornInv' /\ Newest(LastGen)'
      /\ cmd'[p] = Idle /\ \A q \in Procs \ {p} : cmd'[q] = cmd[q]
      /\ \A q \in Procs \ {p} : Fresh(q)' /\ Enabled(q)' /\ Hit(q)'
  BY <1>1, RowsStay DEF IInv, TypeOK
<1>3. crashes' # 0
  BY <1>1 DEF IInv, TypeOK
<1> QED
  BY <1>1, <1>2, <1>3, NothingCarried DEF SearchInv

LEMMA StutterSearch ==
  ASSUME SearchInv, UNCHANGED vars
  PROVE  SearchInv'
  BY DEF SearchInv, BornInv, Fresh, Asks, Searches, Enabled, Newest, Hit, Claimed, LastGen, vars

LEMMA NextSearch == IInv /\ SearchInv /\ [Next]_vars => SearchInv'
<1> SUFFICES ASSUME IInv, SearchInv, [Next]_vars PROVE SearchInv'
  OBVIOUS
<1>1. ASSUME NEW k \in Keys, NEW t \in Texts \cup {NoText}, Write(k, t) PROVE SearchInv'
  BY <1>1, WriteSearch
<1>2. ASSUME NEW p \in Procs, StartBuild(p) \/ StartClear(p) \/ StartSearch(p)
      PROVE  SearchInv'
  BY <1>2, StartsSearch
<1>3. ASSUME NEW p \in Procs, Continue(p) PROVE SearchInv'
  BY <1>3, LockSearch, ReadCorpusSearch, SaveIndexSearch, CommitSearch, SweepSearch,
     ClearSearch, RemoveFilesSearch, ReadAgainSearch, OpenIndexSearch, FetchHitSearch
     DEF Continue
<1>4. ASSUME NEW p \in Procs, Crash(p) PROVE SearchInv'
  BY <1>4, CrashSearch
<1> QED
  BY <1>1, <1>2, <1>3, <1>4, StutterSearch DEF Next

LEMMA SearchInvariance == Spec => [](IInv /\ SearchInv)
  BY InitIInv, InitSearch, NextIInv, NextSearch, PTL DEF Spec

\* A search answers from an index made after the search began, for any
\* number of writers, builds, clears and searches (README.md:78).
THEOREM FreshAnswers == Spec => []AnswersAreFresh
<1>1. SearchInv => AnswersAreFresh
  BY DEF SearchInv, Fresh, Searches, AnswersAreFresh
<1> QED
  BY <1>1, SearchInvariance, PTL

\* A hit looked up while its generation is the committed one is the memory
\* that was embedded, unchanged, or nothing (semantic.rs:640-660).
THEOREM AnswersCorrect == Spec => []AnswerIsTheHit
<1>1. ASSUME IInv, SearchInv, NEW p \in Procs, cmd[p].pc = "fetch", state # NoState,
             state.gen = cmd[p].state.gen
      PROVE  Answer(cmd[p].hit.id) \subseteq {[key |-> cmd[p].hit.key, text |-> cmd[p].hit.text]}
  <2>1. cmd[p].hit \in records
    BY <1>1 DEF SearchInv, Hit
  <2>2. PICK c \in Corpora : records = Documents(c)
    BY <1>1 DEF IInv, RecordsInv
  <2>3. \A r \in Found(cmd[p].hit.id) : r = cmd[p].hit /\ corpus[r.key] = r.text
    BY <2>1, <2>2, DocumentsAreDistinct DEF Found
  <2> QED
    BY <2>3 DEF Answer
<1>2. IInv /\ SearchInv => AnswerIsTheHit
  BY <1>1 DEF AnswerIsTheHit
<1> QED
  BY <1>2, SearchInvariance, PTL

\* When nothing runs and nothing failed, only the committed generation has a
\* file (semantic.rs:395-470).
THEOREM FilesAreSwept == Spec => []NoStrayIndexes
<1>1. ASSUME IInv, SearchInv, \A p \in Procs : cmd[p] = Idle, crashes = 0
      PROVE  {f.gen : f \in files} = IF state = NoState THEN {} ELSE {state.gen}
  <2>1. \A f \in files : state # NoState /\ f.gen = state.gen
    BY <1>1 DEF SearchInv, Claimed, Idle
  <2>2. state # NoState => \E f \in files : f.gen = state.gen
    BY <1>1 DEF IInv, RecordsInv, IndexMatchesRecords, HasFile
  <2> QED
    BY <2>1, <2>2
<1>2. IInv /\ SearchInv => NoStrayIndexes
  BY <1>1 DEF NoStrayIndexes
<1> QED
  BY <1>2, SearchInvariance, PTL

\* Only a build that a user asked for brings the index into being
\* (README.md:81).
THEOREM EnablingCorrect == Spec => OnlyBuildEnables
<1> DEFINE ByBuild == state = NoState /\ state' # NoState =>
                        \E p \in Procs : lock = p /\ cmd[p].pc = "commit" /\ ~cmd[p].auto
<1>1. ASSUME IInv, SearchInv, [Next]_vars, state = NoState, state' # NoState
      PROVE  \E p \in Procs : lock = p /\ cmd[p].pc = "commit" /\ ~cmd[p].auto
  <2>1. PICK p \in Procs : Commit(p)
    BY <1>1 DEF Next, Continue, Write, Dirtied, StartBuild, StartClear, StartSearch, Start, Lock,
       ReadCorpus, SaveIndex, Sweep, Clear, RemoveFiles, ReadAgain, OpenIndex, FetchHit, Crash,
       vars
  <2>2. lock = p /\ cmd[p].pc = "commit" /\ Enabled(p)
    BY <1>1, <2>1 DEF Commit, IInv, CmdInv, Holds, SearchInv
  <2> QED
    BY <1>1, <2>2 DEF Enabled
<1>2. IInv /\ SearchInv /\ [Next]_vars => [ByBuild]_vars
  BY <1>1
<1> QED
  BY <1>2, SearchInvariance, PTL DEF Spec, OnlyBuildEnables
=============================================================================
