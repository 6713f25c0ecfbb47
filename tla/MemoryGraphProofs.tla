------------------------- MODULE MemoryGraphProofs -------------------------
(***************************************************************************)
(* Theorems about MemoryGraph for every set of keys, texts, files and      *)
(* inputs and every cap.                                                   *)
(***************************************************************************)
EXTENDS MemoryGraph, SequenceTheorems, TLAPS

----------------------------------------------------------------------------
(* What the helpers return.                                                *)

\* A ring of at most cap entries stays one when an entry is pushed.
LEMMA RingType ==
  ASSUME NEW T, NEW s \in Seq(T), NEW x \in T, NEW cap \in Nat, Len(s) <= cap
  PROVE  Ring(s, x, cap) \in Seq(T) /\ Len(Ring(s, x, cap)) <= cap
<1> DEFINE t == <<x>> \o s
<1>1. t \in Seq(T) /\ Len(t) = Len(s) + 1
  <2>1. <<x>> \in Seq(T) /\ Len(<<x>>) = 1
    OBVIOUS
  <2> QED
    BY <2>1, ConcatProperties
<1>2. CASE Len(s) < cap
  BY <1>1, <1>2, LenProperties DEF Ring
<1>3. CASE ~(Len(s) < cap)
  <2>1. cap = Len(s)
    BY <1>3, LenProperties
  <2>2. \A i \in 1..cap : t[i] \in T
    BY <1>1, <2>1, ElementOfSeq
  <2> HIDE DEF t
  <2>3. 1 \in Int /\ cap \in Int
    OBVIOUS
  <2>4. /\ SubSeq(t, 1, cap) \in Seq(T)
        /\ Len(SubSeq(t, 1, cap)) = IF 1 <= cap THEN cap - 1 + 1 ELSE 0
    BY <2>2, <2>3, SubSeqProperties
  <2>5. Len(SubSeq(t, 1, cap)) <= cap
    BY <2>4
  <2> QED
    BY <1>3, <2>4, <2>5 DEF Ring, t
<1> QED
  BY <1>2, <1>3

\* An input that is a partial function maps keys to rows.
LEMMA PartialOnFacts ==
  ASSUME NEW S, NEW x \in PartialOn(S)
  PROVE  DOMAIN x \subseteq Keys /\ \A k \in DOMAIN x : x[k] \in S
  BY DEF PartialOn

Memories == [Keys -> Row \cup {NoMemory}]
Histories == {h \in [Keys -> Seq(Revision)] : \A k \in Keys : Len(h[k]) <= RevCap}
Metadata == [Keys -> Trusts \cup {NoMeta}]

\* A value of memories that is not NoMemory is a row.
LEMMA RowOf ==
  ASSUME NEW m \in Memories, NEW k \in Keys, m[k] # NoMemory
  PROVE  m[k] \in Row
  BY DEF Memories

\* The full-text rows of a memory have their type.
LEMMA FtsRowsType ==
  ASSUME NEW m \in Row \cup {NoMemory}
  PROVE  FtsRows(m) \in Seq(FtsRow)
<1>1. CASE m = NoMemory
  BY <1>1 DEF FtsRows
<1>2. CASE m # NoMemory
  <2>1. m \in Row
    BY <1>2
  <2>2. [text |-> m.text, anchor |-> m.anchor, reason |-> m.reason] \in FtsRow
    BY <2>1 DEF Row, FtsRow
  <2> QED
    BY <1>2, <2>2 DEF FtsRows
<1> QED
  BY <1>1, <1>2

LEMMA FtsTypes ==
  ASSUME NEW new \in Memories, NEW S, fts \in [Keys -> Seq(FtsRow)]
  PROVE  /\ FtsRefreshed(S, new) \in [Keys -> Seq(FtsRow)]
         /\ FtsAppended(S, new) \in [Keys -> Seq(FtsRow)]
<1>1. \A k \in Keys : FtsRows(new[k]) \in Seq(FtsRow)
  BY FtsRowsType DEF Memories
<1>2. \A k \in Keys : fts[k] \o FtsRows(new[k]) \in Seq(FtsRow)
  BY <1>1, ConcatProperties
<1> QED
  BY <1>1, <1>2 DEF FtsRefreshed, FtsAppended

\* The revision triggers add typed revisions and keep every ring in bounds.
LEMMA RevisedType ==
  ASSUME NEW old \in Memories, NEW new \in Memories, NEW restamped,
         NEW history \in Histories, meta \in Metadata
  PROVE  Revised(old, new, restamped, history) \in Histories
<1> DEFINE rev(k) == [row |-> old[k], trust |-> meta[k],
                      change |-> IF new[k] = NoMemory THEN "deleted" ELSE "updated"]
<1>1. ASSUME NEW k \in Keys, old[k] # NoMemory
      PROVE  Ring(history[k], rev(k), RevCap) \in Seq(Revision)
             /\ Len(Ring(history[k], rev(k), RevCap)) <= RevCap
  <2>1. rev(k) \in Revision
    BY <1>1, RowOf DEF Revision, Metadata
  <2>2. history[k] \in Seq(Revision) /\ Len(history[k]) <= RevCap
    BY DEF Histories
  <2> HIDE DEF rev
  <2> QED
    BY <2>1, <2>2, RingType, BoundsAssumption
<1>2. \A k \in Keys : history[k] \in Seq(Revision) /\ Len(history[k]) <= RevCap
  BY DEF Histories
<1> QED
  BY <1>1, <1>2 DEF Revised, Histories

\* The files that get routes are files of the anchor.
LEMMA RoutedType ==
  ASSUME NEW x \in Anchors PROVE Routed[x] \in Anchors /\ Routed[x] \subseteq x
  BY RoutesAssumption

\* A local write leaves typed metadata.
LEMMA LocalTrustType ==
  ASSUME NEW t PROVE LocalTrust(t) \in Trusts
  BY DEF LocalTrust, Trusts

\* Archiving superseded memories leaves rows.
LEMMA SupersededType ==
  ASSUME NEW m \in Memories, NEW s \in Keys, NEW targets
  PROVE  Superseded(m, s, targets) \in Memories
<1>1. ASSUME NEW k \in Keys, m[k] # NoMemory
      PROVE  [m[k] EXCEPT !.archived = TRUE, !.reason = s] \in Row
  BY <1>1, RowOf DEF Row, Reasons
<1> QED
  BY <1>1 DEF Superseded, Memories

----------------------------------------------------------------------------
(* Type correctness.                                                       *)

\* The same invariant with the named sets.
LEMMA TypeParts ==
  TypeOK <=> /\ mem \in Memories
             /\ fts \in [Keys -> Seq(FtsRow)]
             /\ routes \in [Keys -> Anchors]
             /\ meta \in Metadata
             /\ rels \subseteq Rel
             /\ revs \in Histories
             /\ sessions \in Seq(Summaries \cup {Conflict})
             /\ Len(sessions) <= SessCap
             /\ gen \in Nat
             /\ dirty \in BOOLEAN
             /\ zombies \subseteq Zombie
             /\ \A y, z \in zombies : y.key = z.key => y = z
             /\ imported \subseteq Keys
  BY DEF TypeOK, Memories, Metadata, Histories

LEMMA InitTypeOK == Init => TypeOK
  BY BoundsAssumption DEF Init, TypeOK, Anchors

\* A step of a component that calls Bump keeps the generation a number.
LEMMA BumpType == gen \in Nat /\ Bump => gen' \in Nat
  BY DEF Bump

LEMMA SetBatchType ==
  ASSUME TypeOK, NEW b \in Batches, SetBatch(b)
  PROVE  TypeOK'
<1> DEFINE S == DOMAIN b
           new == [k \in Keys |->
                     IF k \in S
                     THEN [text |-> b[k].text, anchor |-> b[k].anchor,
                           archived |-> FALSE, reason |-> NoReason]
                     ELSE mem[k]]
<1>1. S \subseteq Keys /\ \A k \in S : b[k] \in Rule
  BY InputsAssumption, PartialOnFacts
<1>2. \A k \in S : new[k] \in Row /\ new[k].anchor \in Anchors
  BY <1>1 DEF Row, Rule, Reasons
<1>3. new \in Memories
  BY <1>2, TypeParts DEF Memories
<1>4. mem' \in Memories
  BY <1>3 DEF SetBatch
<1>5. revs' \in Histories
  <2>1. revs' = Revised(mem, new, {}, revs)
    BY DEF SetBatch
  <2> HIDE DEF new
  <2> QED
    BY <2>1, <1>3, RevisedType, TypeParts
<1>6. fts' \in [Keys -> Seq(FtsRow)]
  <2>1. fts' = IF StoreEmpty THEN FtsAppended(S, new) ELSE FtsRefreshed(S, new)
    BY DEF SetBatch
  <2> HIDE DEF new, S
  <2> QED
    BY <2>1, <1>3, FtsTypes, TypeParts
<1>7. routes' \in [Keys -> Anchors]
  <2>1. routes' = IF StoreEmpty THEN RoutesAdded(S, new) ELSE RoutesReplaced(S, new)
    BY DEF SetBatch
  <2>2. routes \in [Keys -> Anchors]
    BY TypeParts
  <2> HIDE DEF new, S
  <2> QED
    BY <2>1, <2>2, <1>2, RoutedType DEF RoutesAdded, RoutesReplaced, Anchors
<1>8. meta' \in Metadata
  BY LocalTrustType, TypeParts DEF SetBatch, Metadata
<1>9. rels' \subseteq Rel
  BY <1>1, TypeParts DEF SetBatch, Rel, Rule
<1>10. gen' \in Nat /\ dirty' \in BOOLEAN /\ imported' \subseteq Keys
  BY BumpType, TypeParts DEF SetBatch, MarkSemanticDirty
<1>11. UNCHANGED <<sessions, zombies>>
  BY DEF SetBatch
<1> QED
  BY <1>4, <1>5, <1>6, <1>7, <1>8, <1>9, <1>10, <1>11 DEF TypeOK, Memories, Histories, Metadata

\* Archive, unarchive and the supersede side of relate write one kind of
\* step: new rows, their revisions and their full-text rows.
LEMMA RowsType ==
  ASSUME TypeOK, NEW new \in Memories, NEW restamped, NEW S,
         mem' = new, revs' = Revised(mem, new, restamped, revs),
         fts' = FtsRefreshed(S, new)
  PROVE  mem' \in Memories /\ revs' \in Histories /\ fts' \in [Keys -> Seq(FtsRow)]
  BY RevisedType, FtsTypes, TypeParts

LEMMA ArchiveType ==
  ASSUME TypeOK, NEW k \in Keys, NEW r \in UserReasons \cup {NoReason}, NEW later \in BOOLEAN,
         Archive(k, r, later)
  PROVE  TypeOK'
<1> DEFINE new == [mem EXCEPT ![k].archived = TRUE, ![k].reason = r]
<1>1. mem[k] \in Row /\ mem \in Memories
  BY RowOf, TypeParts DEF Archive, Exists
<1>2. new \in Memories
  BY <1>1 DEF Memories, Row, Reasons
<1>3. mem' \in Memories /\ revs' \in Histories /\ fts' \in [Keys -> Seq(FtsRow)]
  <2>1. /\ mem' = new
        /\ revs' = Revised(mem, new, IF later THEN {k} ELSE {}, revs)
        /\ fts' = FtsRefreshed({k}, new)
    BY DEF Archive
  <2> HIDE DEF new
  <2> QED
    BY <1>2, <2>1, RowsType
<1>4. gen' \in Nat /\ dirty' \in BOOLEAN
      /\ UNCHANGED <<routes, meta, rels, sessions, zombies, imported>>
  BY BumpType, TypeParts DEF Archive, MarkSemanticDirty
<1> QED
  BY <1>3, <1>4 DEF TypeOK, Memories, Histories

LEMMA UnarchiveType ==
  ASSUME TypeOK, NEW k \in Keys, Unarchive(k)
  PROVE  TypeOK'
<1> DEFINE new == [mem EXCEPT ![k].archived = FALSE, ![k].reason = NoReason]
<1>1. mem[k] \in Row /\ mem \in Memories
  BY RowOf, TypeParts DEF Unarchive, Exists
<1>2. new \in Memories
  BY <1>1 DEF Memories, Row, Reasons
<1>3. mem' \in Memories /\ revs' \in Histories /\ fts' \in [Keys -> Seq(FtsRow)]
  <2>1. /\ mem' = new
        /\ revs' = Revised(mem, new, {}, revs)
        /\ fts' = FtsRefreshed({k}, new)
    BY DEF Unarchive
  <2> HIDE DEF new
  <2> QED
    BY <1>2, <2>1, RowsType
<1>4. gen' \in Nat /\ dirty' \in BOOLEAN
      /\ UNCHANGED <<routes, meta, rels, sessions, zombies, imported>>
  BY BumpType, TypeParts DEF Unarchive, MarkSemanticDirty
<1> QED
  BY <1>3, <1>4 DEF TypeOK, Memories, Histories

LEMMA DelType ==
  ASSUME TypeOK, NEW k \in Keys, Del(k)
  PROVE  TypeOK'
<1> DEFINE new == [mem EXCEPT ![k] = NoMemory]
<1>1. new \in Memories
  BY TypeParts DEF Memories
<1>2. mem' \in Memories /\ revs' \in Histories /\ fts' \in [Keys -> Seq(FtsRow)]
  <2>1. /\ mem' = new
        /\ revs' = Revised(mem, new, {}, revs)
        /\ fts' = FtsRefreshed({k}, new)
    BY DEF Del
  <2> HIDE DEF new
  <2> QED
    BY <1>1, <2>1, RowsType
<1>3. routes' \in [Keys -> Anchors] /\ meta' \in Metadata
  BY TypeParts DEF Del, Anchors, Metadata
<1>4. rels' \subseteq Rel /\ imported' \subseteq Keys
  BY TypeParts DEF Del, RelationsWithout
<1>5. gen' \in Nat /\ dirty' \in BOOLEAN /\ UNCHANGED <<sessions, zombies>>
  BY BumpType, TypeParts DEF Del, MarkSemanticDirty
<1> QED
  BY <1>2, <1>3, <1>4, <1>5 DEF TypeOK, Memories, Histories, Metadata

LEMMA RelateType ==
  ASSUME TypeOK, NEW s \in Keys, NEW ty \in RelTypes, NEW t \in Keys, Relate(s, ty, t)
  PROVE  TypeOK'
<1> DEFINE targets == IF ty = "supersedes" THEN {t} ELSE {}
           new == Superseded(mem, s, targets)
<1>1. new \in Memories
  BY SupersededType, TypeParts
<1>2. mem' \in Memories /\ revs' \in Histories /\ fts' \in [Keys -> Seq(FtsRow)]
  <2>1. /\ mem' = new
        /\ revs' = Revised(mem, new, {}, revs)
        /\ fts' = FtsRefreshed(targets, new)
    BY DEF Relate
  <2> HIDE DEF new, targets
  <2> QED
    BY <1>1, <2>1, RowsType
<1>3. rels' \subseteq Rel
  BY TypeParts DEF Relate, Rel
<1>4. gen' \in Nat
  BY BumpType, TypeParts DEF Relate
<1>5. dirty' \in BOOLEAN /\ UNCHANGED <<routes, meta, sessions, zombies, imported>>
  BY TypeParts DEF Relate, MarkSemanticDirty
<1> QED
  BY <1>2, <1>3, <1>4, <1>5 DEF TypeOK, Memories, Histories

LEMMA SessionType ==
  ASSUME TypeOK, NEW x \in Summaries \cup {Conflict}
  PROVE  /\ Ring(sessions, x, SessCap) \in Seq(Summaries \cup {Conflict})
         /\ Len(Ring(sessions, x, SessCap)) <= SessCap
  BY RingType, BoundsAssumption, TypeParts

LEMMA CaptureType ==
  ASSUME TypeOK, NEW c \in Commits, NEW x \in Summaries \cup {NoSession}, CaptureEntity(c, x)
  PROVE  TypeOK'
<1> DEFINE targets == {r[2] : r \in {p \in c.rels : p[1] = "supersedes"}}
           upserted == [mem EXCEPT ![c.key] =
                          [text |-> c.text, anchor |-> c.anchor,
                           archived |-> FALSE, reason |-> NoReason]]
           new == Superseded(upserted, c.key, targets)
<1>1. /\ c.key \in Keys /\ c.text \in Texts /\ c.anchor \in Anchors
      /\ c.rels \subseteq RelTypes \X Keys
  BY InputsAssumption DEF Commit
<1>2. upserted \in Memories
  BY <1>1, TypeParts DEF Memories, Row, Reasons
<1>3. new \in Memories
  <2> HIDE DEF upserted, targets
  <2> QED
    BY <1>1, <1>2, SupersededType
<1>4. c.key \notin targets
  BY DEF CaptureEntity
<1>5. new[c.key].anchor \in Anchors
  BY <1>1, <1>4, TypeParts DEF Superseded, Memories
<1>6. mem' \in Memories /\ revs' \in Histories /\ fts' \in [Keys -> Seq(FtsRow)]
  <2>1. /\ mem' = new
        /\ revs' = Revised(mem, new, {}, revs)
        /\ fts' = FtsRefreshed(targets \cup {c.key}, new)
    BY DEF CaptureEntity
  <2> HIDE DEF new, targets
  <2> QED
    BY <1>3, <2>1, RowsType
<1>7. routes' \in [Keys -> Anchors]
  <2>1. routes' = RoutesReplaced({c.key}, new) /\ routes \in [Keys -> Anchors]
    BY TypeParts DEF CaptureEntity
  <2> HIDE DEF new
  <2> QED
    BY <2>1, <1>5, RoutedType DEF RoutesReplaced
<1>8. meta' \in Metadata
  <2>1. meta' = [meta EXCEPT ![c.key] = LocalTrust(@)] /\ meta \in Metadata
    BY TypeParts DEF CaptureEntity
  <2>2. LocalTrust(meta[c.key]) \in Trusts
    BY LocalTrustType
  <2> QED
    BY <2>1, <2>2 DEF Metadata
<1>9. rels' \subseteq Rel
  BY <1>1, TypeParts DEF CaptureEntity, Rel
<1>10. sessions' \in Seq(Summaries \cup {Conflict}) /\ Len(sessions') <= SessCap
  BY SessionType, TypeParts DEF CaptureEntity
<1>11. gen' \in Nat /\ dirty' \in BOOLEAN /\ imported' \subseteq Keys /\ zombies' = zombies
  BY BumpType, TypeParts DEF CaptureEntity, MarkSemanticDirty
<1> QED
  BY <1>6, <1>7, <1>8, <1>9, <1>10, <1>11 DEF TypeOK, Memories, Histories, Metadata

LEMMA ScanType ==
  ASSUME TypeOK, NEW missing \in Anchors, ScanZombies(missing)
  PROVE  TypeOK'
<1>1. \A k \in Keys : Exists(k) => mem[k].anchor \in Anchors
  BY RowOf, TypeParts DEF Exists, Row
<1>2. zombies' \subseteq Zombie /\ \A y, z \in zombies' : y.key = z.key => y = z
  <2> DEFINE found == {x \in Keys : /\ Exists(x)
                                    /\ ~mem[x].archived
                                    /\ mem[x].anchor \cap missing # {}}
             report(k) == [key |-> k, missing |-> mem[k].anchor \cap missing,
                           remaining |-> mem[k].anchor \ missing]
  <2>1. zombies' = {report(k) : k \in found}
    BY DEF ScanZombies
  <2>2. \A k \in found : report(k) \in Zombie /\ report(k).key = k
    BY <1>1 DEF Zombie, Anchors
  <2> HIDE DEF report, found
  <2> QED
    BY <2>1, <2>2
<1>3. UNCHANGED <<mem, fts, routes, meta, rels, revs, sessions, gen, dirty, imported>>
  BY DEF ScanZombies
<1> QED
  BY <1>2, <1>3 DEF TypeOK

LEMMA RepairType ==
  ASSUME TypeOK, NEW later \in BOOLEAN, RepairZombies(later)
  PROVE  TypeOK'
<1> DEFINE reported == {z.key : z \in zombies}
           report(k) == CHOOSE z \in zombies : z.key = k
           new == [k \in Keys |-> IF k \in reported /\ Exists(k)
                                  THEN RepairedRow(mem[k], report(k)) ELSE mem[k]]
           restamped == IF later THEN {k \in reported : /\ Exists(k)
                                                        /\ mem[k].archived
                                                        /\ report(k).remaining = {}}
                        ELSE {}
<1>1. \A k \in reported : report(k) \in Zombie
  BY TypeParts
<1>2. \A k \in reported : report(k).remaining \in Anchors
  <2> HIDE DEF reported, report
  <2> QED
    BY <1>1 DEF Zombie
<1>3. new \in Memories
  <2>1. ASSUME NEW k \in Keys, k \in reported, Exists(k)
        PROVE  RepairedRow(mem[k], report(k)) \in Row
    <3>1. mem[k] \in Row
      BY <2>1, RowOf, TypeParts DEF Exists
    <3>2. [mem[k] EXCEPT !.archived = TRUE, !.reason = FileDeleted] \in Row
      BY <3>1 DEF Row, Reasons
    <3>3. [mem[k] EXCEPT !.anchor = report(k).remaining] \in Row
      <4> HIDE DEF report, reported
      <4> QED
        BY <3>1, <2>1, <1>2 DEF Row
    <3> QED
      BY <3>2, <3>3 DEF RepairedRow
  <2> QED
    BY <2>1, TypeParts DEF Memories
<1>4. mem' \in Memories /\ revs' \in Histories /\ fts' \in [Keys -> Seq(FtsRow)]
  <2>1. /\ mem' = new
        /\ revs' = Revised(mem, new, restamped, revs)
        /\ fts' = FtsRefreshed(reported, new)
    BY DEF RepairZombies
  <2> HIDE DEF new, restamped, reported
  <2> QED
    BY <1>3, <2>1, RowsType
<1>5. routes' \in [Keys -> Anchors]
  <2>1. routes' = [k \in Keys |-> IF k \in reported /\ report(k).remaining # {}
                                  THEN Routed[report(k).remaining] ELSE routes[k]]
    BY DEF RepairZombies
  <2>2. routes \in [Keys -> Anchors]
    BY TypeParts
  <2> HIDE DEF report, reported
  <2> QED
    BY <2>1, <2>2, <1>2, RoutedType
<1>6. gen' \in Nat
  BY BumpType, TypeParts DEF RepairZombies
<1>7. /\ dirty' \in BOOLEAN /\ zombies' = {}
      /\ UNCHANGED <<meta, rels, sessions, imported>>
  BY DEF RepairZombies, MarkSemanticDirty
<1> QED
  BY <1>4, <1>5, <1>6, <1>7 DEF TypeOK, Memories, Histories

\* What a conflicting file adds to the history.
LEMMA ConflictsType ==
  ASSUME TypeOK, NEW f \in ImportFiles
  PROVE  ConflictsRecorded(f) \in Histories
<1> DEFINE rev(k) == [row |-> f.alts[k], trust |-> "untrusted", change |-> "conflict"]
<1>1. \A k \in DOMAIN f.alts : f.alts[k] \in Row
  BY InputsAssumption, PartialOnFacts DEF ImportFile
<1>2. ASSUME NEW k \in Keys, k \in DOMAIN f.alts
      PROVE  Ring(revs[k], rev(k), RevCap) \in Seq(Revision)
             /\ Len(Ring(revs[k], rev(k), RevCap)) <= RevCap
  <2>1. rev(k) \in Revision
    BY <1>1, <1>2 DEF Revision, Trusts
  <2>2. revs[k] \in Seq(Revision) /\ Len(revs[k]) <= RevCap
    BY DEF TypeOK
  <2> HIDE DEF rev
  <2> QED
    BY <2>1, <2>2, RingType, BoundsAssumption
<1>3. \A k \in Keys : revs[k] \in Seq(Revision) /\ Len(revs[k]) <= RevCap
  BY DEF TypeOK
<1> QED
  BY <1>2, <1>3 DEF ConflictsRecorded, Histories

\* The rows a file brings.
LEMMA FileFacts ==
  ASSUME NEW f \in ImportFiles
  PROVE  /\ DOMAIN f.rules \subseteq Keys
         /\ \A k \in DOMAIN f.rules : f.rules[k] \in Row /\ f.rules[k].anchor \in Anchors
         /\ f.rels \subseteq Rel
<1>1. f.rules \in PartialOn(Row) /\ f.rels \subseteq Rel
  BY InputsAssumption DEF ImportFile
<1>2. DOMAIN f.rules \subseteq Keys /\ \A k \in DOMAIN f.rules : f.rules[k] \in Row
  BY <1>1, PartialOnFacts
<1>3. \A k \in DOMAIN f.rules : f.rules[k].anchor \in Anchors
  BY <1>2 DEF Row
<1> QED
  BY <1>1, <1>2, <1>3

LEMMA SyncEmptyType ==
  ASSUME TypeOK, NEW f \in ImportFiles, SyncEmpty(f)
  PROVE  /\ mem' \in Memories /\ fts' \in [Keys -> Seq(FtsRow)]
         /\ routes' \in [Keys -> Anchors] /\ meta' \in Metadata
         /\ rels' \subseteq Rel /\ revs' \in Histories
         /\ gen' \in Nat /\ imported' \subseteq Keys
<1> DEFINE S == DOMAIN f.rules
           new == [k \in Keys |-> IF k \in S THEN f.rules[k] ELSE NoMemory]
<1>1. new \in Memories
  BY FileFacts DEF Memories
<1>2. /\ mem' = new /\ fts' = FtsAppended(S, new) /\ routes' = RoutesAdded(S, new)
      /\ revs' = ConflictsRecorded(f)
  BY DEF SyncEmpty
<1>3. mem' \in Memories /\ revs' \in Histories
  BY <1>1, <1>2, ConflictsType
<1>4. fts' \in [Keys -> Seq(FtsRow)]
  <2> HIDE DEF new, S
  <2> QED
    BY <1>1, <1>2, FtsTypes, TypeParts
<1>5. routes' \in [Keys -> Anchors]
  <2>1. \A k \in S : new[k].anchor \in Anchors
    BY FileFacts
  <2> HIDE DEF new, S
  <2> QED
    BY <2>1, <1>2, RoutedType, TypeParts DEF RoutesAdded, Anchors
<1>6. meta' \in Metadata
  BY TypeParts DEF SyncEmpty, Metadata, Trusts
<1>7. rels' \subseteq Rel /\ imported' \subseteq Keys
  BY FileFacts, TypeParts DEF SyncEmpty
<1>8. gen' \in Nat
  BY BumpType, TypeParts DEF SyncEmpty
<1> QED
  BY <1>3, <1>4, <1>5, <1>6, <1>7, <1>8

LEMMA SyncDiffType ==
  ASSUME TypeOK, NEW f \in ImportFiles, SyncDiff(f)
  PROVE  /\ mem' \in Memories /\ fts' \in [Keys -> Seq(FtsRow)]
         /\ routes' \in [Keys -> Anchors] /\ meta' \in Metadata
         /\ rels' \subseteq Rel /\ revs' \in Histories
         /\ gen' \in Nat /\ imported' \subseteq Keys
<1> DEFINE S == DOMAIN f.rules
           new == [k \in Keys |-> IF k \in S THEN f.rules[k] ELSE NoMemory]
           written == {k \in S : mem[k] # f.rules[k]}
           removed == {k \in Keys \ S : Exists(k)}
<1>1. new \in Memories /\ \A k \in written : new[k].anchor \in Anchors
  BY FileFacts DEF Memories
<1>2. mem' \in Memories /\ revs' \in Histories
  <2>1. mem' = new /\ revs' = Revised(mem, new, {}, ConflictsRecorded(f))
    BY DEF SyncDiff
  <2>2. ConflictsRecorded(f) \in Histories
    BY ConflictsType
  <2> HIDE DEF new
  <2> QED
    BY <1>1, <2>1, <2>2, RevisedType, TypeParts
<1>3. fts' \in [Keys -> Seq(FtsRow)]
  <2>1. fts' = [k \in Keys |->
                  IF k \in written /\ ~Exists(k) THEN fts[k] \o FtsRows(new[k])
                  ELSE FtsRefreshed(written \cup removed, new)[k]]
    BY DEF SyncDiff
  <2>2. \A k \in Keys : fts[k] \o FtsRows(new[k]) \in Seq(FtsRow)
    <3>1. \A k \in Keys : FtsRows(new[k]) \in Seq(FtsRow) /\ fts[k] \in Seq(FtsRow)
      <4> HIDE DEF new
      <4> QED
        BY <1>1, FtsRowsType, TypeParts DEF Memories
    <3> HIDE DEF new
    <3> QED
      BY <3>1, ConcatProperties
  <2>3. FtsRefreshed(written \cup removed, new) \in [Keys -> Seq(FtsRow)]
    <3> HIDE DEF new, written, removed
    <3> QED
      BY <1>1, FtsTypes, TypeParts
  <2> HIDE DEF new, written, removed
  <2> QED
    BY <2>1, <2>2, <2>3
<1>4. routes' \in [Keys -> Anchors]
  <2>1. routes' = [k \in Keys |->
                     IF k \in written
                     THEN (IF Exists(k) THEN {} ELSE routes[k]) \cup Routed[new[k].anchor]
                     ELSE IF k \in removed THEN {} ELSE routes[k]]
    BY DEF SyncDiff
  <2>2. routes \in [Keys -> Anchors]
    BY TypeParts
  <2> HIDE DEF new, written, removed
  <2> QED
    BY <1>1, <2>1, <2>2, RoutedType DEF Anchors
<1>5. meta' \in Metadata
  BY TypeParts DEF SyncDiff, SyncedTrust, Metadata, Trusts
<1>6. rels' \subseteq Rel /\ imported' \subseteq Keys
  BY FileFacts, TypeParts DEF SyncDiff
<1>7. gen' \in Nat
  BY BumpType, TypeParts DEF SyncDiff
<1> QED
  BY <1>2, <1>3, <1>4, <1>5, <1>6, <1>7

LEMMA SyncType ==
  ASSUME TypeOK, NEW f \in ImportFiles, NEW accept \in BOOLEAN, SyncImport(f, accept)
  PROVE  TypeOK'
<1>1. /\ mem' \in Memories /\ fts' \in [Keys -> Seq(FtsRow)]
      /\ routes' \in [Keys -> Anchors] /\ meta' \in Metadata
      /\ rels' \subseteq Rel /\ revs' \in Histories
      /\ gen' \in Nat /\ imported' \subseteq Keys
  BY SyncEmptyType, SyncDiffType DEF SyncImport
<1>2. sessions' \in Seq(Summaries \cup {Conflict}) /\ Len(sessions') <= SessCap
  BY SessionType, TypeParts DEF SyncImport, ConflictSessions
<1>3. dirty' \in BOOLEAN /\ zombies' = zombies
  BY DEF SyncImport, MarkSemanticDirty
<1> QED
  BY <1>1, <1>2, <1>3 DEF TypeOK, Memories, Histories, Metadata

\* Every step keeps the types, one case for each action.
LEMMA NextTypeOK == TypeOK /\ [Next]_vars => TypeOK'
<1> SUFFICES ASSUME TypeOK, [Next]_vars PROVE TypeOK'
  OBVIOUS
<1>1. ASSUME NEW b \in Batches, SetBatch(b) PROVE TypeOK'
  BY <1>1, SetBatchType
<1>2. ASSUME NEW k \in Keys, NEW r \in UserReasons \cup {NoReason}, NEW later \in BOOLEAN,
             Archive(k, r, later)
      PROVE  TypeOK'
  BY <1>2, ArchiveType
<1>3. ASSUME NEW k \in Keys, Unarchive(k) PROVE TypeOK'
  BY <1>3, UnarchiveType
<1>4. ASSUME NEW k \in Keys, Del(k) PROVE TypeOK'
  BY <1>4, DelType
<1>5. ASSUME NEW s \in Keys, NEW t \in Keys, NEW ty \in RelTypes, Relate(s, ty, t) PROVE TypeOK'
  BY <1>5, RelateType
<1>6. ASSUME NEW e \in rels, Unrelate(e) PROVE TypeOK'
  BY <1>6, BumpType DEF Unrelate, TypeOK
<1>7. ASSUME NEW k \in Keys, NEW t \in {"reviewed", "untrusted"}, SetTrust(k, t) PROVE TypeOK'
  BY <1>7 DEF SetTrust, TypeOK, Trusts
<1>8. ASSUME NEW x \in Summaries, SessionAdd(x) PROVE TypeOK'
  BY <1>8, SessionType DEF SessionAdd, TypeOK
<1>9. ASSUME NEW c \in Commits, NEW x \in Summaries \cup {NoSession}, CaptureEntity(c, x)
      PROVE  TypeOK'
  BY <1>9, CaptureType
<1>10. ASSUME NEW missing \in Anchors \ {{}}, ScanZombies(missing) PROVE TypeOK'
  BY <1>10, ScanType
<1>11. ASSUME NEW later \in BOOLEAN, RepairZombies(later) PROVE TypeOK'
  BY <1>11, RepairType
<1>12. ASSUME NEW f \in ImportFiles, NEW accept \in BOOLEAN, SyncImport(f, accept) PROVE TypeOK'
  BY <1>12, SyncType
<1>13. CASE SemanticRebuild \/ DropReport
  BY <1>13 DEF SemanticRebuild, DropReport, TypeOK
<1>14. CASE UNCHANGED vars
  BY <1>14 DEF vars, TypeOK
<1> QED
  BY <1>1, <1>2, <1>3, <1>4, <1>5, <1>6, <1>7, <1>8, <1>9, <1>10, <1>11, <1>12, <1>13, <1>14
  DEF Next

\* The tables of the store keep their types and the history and session rings
\* their caps, in every reachable state (schema.rs, session.rs).
THEOREM TypeCorrect == Spec => []TypeOK
<1>1. Init => TypeOK
  BY InitTypeOK
<1>2. TypeOK /\ [Next]_vars => TypeOK'
  BY NextTypeOK
<1> QED
  BY <1>1, <1>2, PTL DEF Spec

----------------------------------------------------------------------------
(* The derived tables.  Each key of a consistent store has its one full-   *)
(* text row, its trust row and its routes, and an import its mark.         *)

Consistent(k) ==
  /\ fts[k] = FtsRows(mem[k])
  /\ Exists(k) <=> meta[k] # NoMeta
  /\ Exists(k) => Routed[mem[k].anchor] \subseteq routes[k]
  /\ k \in imported => meta[k] = "untrusted"

TablesInv == TypeOK /\ \A k \in Keys : Consistent(k)

\* A row is a memory.
LEMMA RowIsMemory == \A m \in Row : m # NoMemory
  BY SentinelsAssumption

\* What is inserted without a delete is the whole content if nothing was
\* there.
LEMMA AppendToNothing ==
  ASSUME NEW m \in Row \cup {NoMemory}
  PROVE  <<>> \o FtsRows(m) = FtsRows(m)
<1>1. FtsRows(m) \in Seq(FtsRow)
  BY FtsRowsType
<1> QED
  BY <1>1, ConcatEmptySeq

\* A step that touches no key leaves each as consistent as it was.
LEMMA UntouchedKey ==
  ASSUME NEW k \in Keys, Consistent(k),
         mem'[k] = mem[k], fts'[k] = fts[k], routes'[k] = routes[k], meta'[k] = meta[k],
         k \in imported' => k \in imported
  PROVE  Consistent(k)'
  BY DEF Consistent, Exists

LEMMA SetBatchConsistent ==
  ASSUME TablesInv, NEW b \in Batches, SetBatch(b), NEW k \in Keys
  PROVE  Consistent(k)'
<1> DEFINE S == DOMAIN b
           new == [j \in Keys |->
                     IF j \in S
                     THEN [text |-> b[j].text, anchor |-> b[j].anchor,
                           archived |-> FALSE, reason |-> NoReason]
                     ELSE mem[j]]
<1>1. Consistent(k)
  BY DEF TablesInv
<1>2. \A j \in S : b[j] \in Rule
  BY InputsAssumption, PartialOnFacts
<1>3. CASE k \in S
  <2>1. new[k] \in Row
    BY <1>2, <1>3 DEF Row, Rule, Reasons
  <2>2. mem' = new
    BY DEF SetBatch
  <2>3. mem'[k] \in Row /\ mem'[k] # NoMemory
    BY <2>1, <2>2, RowIsMemory
  <2>4. fts'[k] = FtsRows(mem'[k])
    <3>1. fts' = IF StoreEmpty THEN FtsAppended(S, new) ELSE FtsRefreshed(S, new)
      BY DEF SetBatch
    <3>2. CASE StoreEmpty
      <4>1. fts[k] = <<>>
        BY <1>1, <3>2 DEF Consistent, StoreEmpty, FtsRows, Exists
      <4>2. fts'[k] = fts[k] \o FtsRows(new[k])
        BY <1>3, <3>1, <3>2 DEF FtsAppended
      <4> HIDE DEF new
      <4> QED
        BY <4>1, <4>2, <2>2, <2>3, AppendToNothing
    <3>3. CASE ~StoreEmpty
      BY <1>3, <2>2, <3>1, <3>3 DEF FtsRefreshed
    <3> QED
      BY <3>2, <3>3
  <2>5. Routed[mem'[k].anchor] \subseteq routes'[k]
    <3>1. routes' = IF StoreEmpty THEN RoutesAdded(S, new) ELSE RoutesReplaced(S, new)
      BY DEF SetBatch
    <3> HIDE DEF new, S
    <3> QED
      BY <1>3, <2>2, <3>1 DEF RoutesAdded, RoutesReplaced
  <2>6. meta'[k] # NoMeta /\ k \notin imported'
    BY <1>3 DEF SetBatch, LocalTrust, NoMeta
  <2> QED
    BY <2>3, <2>4, <2>5, <2>6 DEF Consistent, Exists
<1>4. CASE k \notin S
  BY <1>1, <1>4, UntouchedKey
     DEF SetBatch, FtsAppended, FtsRefreshed, RoutesAdded, RoutesReplaced
<1> QED
  BY <1>3, <1>4

\* Archive, unarchive and superseding keep the anchor and what is known of
\* the trust, and write the full-text row anew.
LEMMA RewrittenKey ==
  ASSUME NEW k \in Keys, Consistent(k), Exists(k), mem'[k] # NoMemory,
         mem'[k].anchor = mem[k].anchor, fts'[k] = FtsRows(mem'[k]),
         routes' = routes, meta' = meta, imported' = imported
  PROVE  Consistent(k)'
  BY DEF Consistent, Exists

LEMMA ArchiveConsistent ==
  ASSUME TablesInv, NEW k \in Keys, NEW r \in UserReasons \cup {NoReason}, NEW later \in BOOLEAN,
         Archive(k, r, later), NEW j \in Keys
  PROVE  Consistent(j)'
<1> DEFINE new == [mem EXCEPT ![k].archived = TRUE, ![k].reason = r]
<1>1. /\ Consistent(j) /\ mem \in Memories
      /\ mem' = new /\ fts' = FtsRefreshed({k}, new)
      /\ UNCHANGED <<routes, meta, imported>>
  BY TypeParts DEF TablesInv, Archive
<1>2. CASE j = k
  <2>1. mem[k] \in Row /\ Exists(k)
    BY <1>1, RowOf DEF Archive, Exists
  <2>2. new[k] \in Row /\ new[k].anchor = mem[k].anchor
    BY <1>1, <2>1 DEF Memories, Row, Reasons
  <2>3. fts'[k] = FtsRows(mem'[k])
    BY <1>1 DEF FtsRefreshed
  <2> QED
    BY <1>1, <1>2, <2>1, <2>2, <2>3, RowIsMemory, RewrittenKey
<1>3. CASE j # k
  BY <1>1, <1>3, UntouchedKey DEF FtsRefreshed, Memories
<1> QED
  BY <1>2, <1>3

LEMMA UnarchiveConsistent ==
  ASSUME TablesInv, NEW k \in Keys, Unarchive(k), NEW j \in Keys
  PROVE  Consistent(j)'
<1> DEFINE new == [mem EXCEPT ![k].archived = FALSE, ![k].reason = NoReason]
<1>1. /\ Consistent(j) /\ mem \in Memories
      /\ mem' = new /\ fts' = FtsRefreshed({k}, new)
      /\ UNCHANGED <<routes, meta, imported>>
  BY TypeParts DEF TablesInv, Unarchive
<1>2. CASE j = k
  <2>1. mem[k] \in Row /\ Exists(k)
    BY <1>1, RowOf DEF Unarchive, Exists
  <2>2. new[k] \in Row /\ new[k].anchor = mem[k].anchor
    BY <1>1, <2>1 DEF Memories, Row, Reasons
  <2>3. fts'[k] = FtsRows(mem'[k])
    BY <1>1 DEF FtsRefreshed
  <2> QED
    BY <1>1, <1>2, <2>1, <2>2, <2>3, RowIsMemory, RewrittenKey
<1>3. CASE j # k
  BY <1>1, <1>3, UntouchedKey DEF FtsRefreshed, Memories
<1> QED
  BY <1>2, <1>3

LEMMA DelConsistent ==
  ASSUME TablesInv, NEW k \in Keys, Del(k), NEW j \in Keys
  PROVE  Consistent(j)'
<1>1. Consistent(j) /\ TypeOK
  BY DEF TablesInv
<1>2. CASE j = k
  <2>1. mem'[k] = NoMemory /\ fts'[k] = <<>> /\ meta'[k] = NoMeta /\ k \notin imported'
    BY <1>1 DEF Del, FtsRefreshed, FtsRows, TypeOK
  <2> QED
    BY <1>2, <2>1 DEF Consistent, FtsRows, Exists
<1>3. CASE j # k
  BY <1>1, <1>3, UntouchedKey DEF Del, FtsRefreshed, TypeOK
<1> QED
  BY <1>2, <1>3

\* What superseding leaves of a memory.
LEMMA SupersededRow ==
  ASSUME NEW m \in Memories, NEW s \in Keys, NEW targets, NEW k \in Keys
  PROVE  LET new == Superseded(m, s, targets) IN
         /\ new[k] # NoMemory <=> m[k] # NoMemory
         /\ m[k] # NoMemory => new[k] \in Row /\ new[k].anchor = m[k].anchor
         /\ k \notin targets => new[k] = m[k]
<1> DEFINE new == Superseded(m, s, targets)
           archived == [m[k] EXCEPT !.archived = TRUE, !.reason = s]
<1>1. new \in Memories
  BY SupersededType
<1>2. new[k] = IF k \in targets /\ m[k] # NoMemory /\ ~m[k].archived THEN archived ELSE m[k]
  BY DEF Superseded
<1>3. m[k] # NoMemory => /\ m[k] \in Row
                         /\ archived \in Row /\ archived.anchor = m[k].anchor
  BY RowOf DEF Row, Reasons
<1> HIDE DEF new, archived
<1>4. new[k] # NoMemory <=> m[k] # NoMemory
  BY <1>2, <1>3, RowIsMemory
<1>5. m[k] # NoMemory => new[k] \in Row /\ new[k].anchor = m[k].anchor
  BY <1>2, <1>3
<1>6. k \notin targets => new[k] = m[k]
  BY <1>2
<1> QED
  BY <1>4, <1>5, <1>6 DEF new

LEMMA RelateConsistent ==
  ASSUME TablesInv, NEW s \in Keys, NEW ty \in RelTypes, NEW t \in Keys, Relate(s, ty, t),
         NEW k \in Keys
  PROVE  Consistent(k)'
<1> DEFINE targets == IF ty = "supersedes" THEN {t} ELSE {}
           new == Superseded(mem, s, targets)
<1>1. /\ Consistent(k) /\ mem \in Memories
      /\ mem' = new /\ fts' = FtsRefreshed(targets, new)
      /\ UNCHANGED <<routes, meta, imported>>
  BY TypeParts DEF TablesInv, Relate
<1>2. /\ new[k] # NoMemory <=> mem[k] # NoMemory
      /\ mem[k] # NoMemory => new[k] \in Row /\ new[k].anchor = mem[k].anchor
      /\ k \notin targets => new[k] = mem[k]
  BY <1>1, SupersededRow
<1>3. k \in targets => Exists(k)
  BY DEF Relate
<1> HIDE DEF new, targets
<1>4. CASE k \in targets
  BY <1>1, <1>2, <1>3, <1>4, RewrittenKey DEF FtsRefreshed, Exists
<1>5. CASE k \notin targets
  BY <1>1, <1>2, <1>5, UntouchedKey DEF FtsRefreshed
<1> QED
  BY <1>4, <1>5

LEMMA CaptureConsistent ==
  ASSUME TablesInv, NEW c \in Commits, NEW x \in Summaries \cup {NoSession},
         CaptureEntity(c, x), NEW k \in Keys
  PROVE  Consistent(k)'
<1> DEFINE targets == {r[2] : r \in {p \in c.rels : p[1] = "supersedes"}}
           upserted == [mem EXCEPT ![c.key] =
                          [text |-> c.text, anchor |-> c.anchor,
                           archived |-> FALSE, reason |-> NoReason]]
           new == Superseded(upserted, c.key, targets)
<1>1. Consistent(k) /\ mem \in Memories /\ meta \in Metadata
  BY TypeParts DEF TablesInv
<1>2. /\ c.key \in Keys /\ c.text \in Texts /\ c.anchor \in Anchors
      /\ c.rels \subseteq RelTypes \X Keys
  BY InputsAssumption DEF Commit
<1>3. /\ upserted \in Memories
      /\ upserted[c.key] # NoMemory
      /\ k # c.key => upserted[k] = mem[k]
  BY <1>1, <1>2, RowIsMemory DEF Memories, Row, Reasons
<1>4. /\ mem' = new /\ fts' = FtsRefreshed(targets \cup {c.key}, new)
      /\ routes' = RoutesReplaced({c.key}, new)
      /\ meta' = [meta EXCEPT ![c.key] = LocalTrust(@)]
      /\ imported' = imported \ {c.key}
      /\ \A t \in targets : t # c.key /\ Exists(t)
  BY DEF CaptureEntity
<1>5. meta'[k] = IF k = c.key THEN LocalTrust(meta[k]) ELSE meta[k]
  BY <1>1, <1>4 DEF Metadata
<1> HIDE DEF upserted
<1>6. /\ new[k] # NoMemory <=> upserted[k] # NoMemory
      /\ upserted[k] # NoMemory => new[k] \in Row /\ new[k].anchor = upserted[k].anchor
      /\ k \notin targets => new[k] = upserted[k]
  BY <1>2, <1>3, SupersededRow
<1> HIDE DEF new, targets
<1>7. CASE k = c.key
  <2>1. mem'[k] # NoMemory /\ fts'[k] = FtsRows(mem'[k])
    BY <1>3, <1>4, <1>6, <1>7 DEF FtsRefreshed
  <2>2. Routed[mem'[k].anchor] \subseteq routes'[k]
    BY <1>4, <1>7 DEF RoutesReplaced
  <2>3. meta'[k] # NoMeta /\ k \notin imported'
    BY <1>4, <1>5, <1>7 DEF LocalTrust, NoMeta
  <2> QED
    BY <2>1, <2>2, <2>3 DEF Consistent, Exists
<1>8. CASE k # c.key /\ k \in targets
  <2>1. mem'[k] # NoMemory /\ mem'[k].anchor = mem[k].anchor /\ Exists(k)
    BY <1>3, <1>4, <1>6, <1>8 DEF Exists
  <2>2. fts'[k] = FtsRows(mem'[k])
    BY <1>4, <1>8 DEF FtsRefreshed
  <2>3. routes'[k] = routes[k] /\ meta'[k] = meta[k] /\ (k \in imported' => k \in imported)
    BY <1>4, <1>5, <1>8 DEF RoutesReplaced
  <2> QED
    BY <1>1, <2>1, <2>2, <2>3 DEF Consistent, Exists
<1>9. CASE k # c.key /\ k \notin targets
  BY <1>1, <1>3, <1>4, <1>5, <1>6, <1>9, UntouchedKey DEF FtsRefreshed, RoutesReplaced
<1> QED
  BY <1>7, <1>8, <1>9

\* The report of a scan is applied to memories that may have changed since.
LEMMA RepairConsistent ==
  ASSUME TablesInv, NEW later \in BOOLEAN, RepairZombies(later), NEW k \in Keys
  PROVE  Consistent(k)'
<1> DEFINE reported == {z.key : z \in zombies}
           report(j) == CHOOSE z \in zombies : z.key = j
           new == [j \in Keys |-> IF j \in reported /\ Exists(j)
                                  THEN RepairedRow(mem[j], report(j)) ELSE mem[j]]
<1>1. /\ Consistent(k) /\ mem \in Memories
      /\ mem' = new /\ fts' = FtsRefreshed(reported, new)
      /\ routes' = [j \in Keys |-> IF j \in reported /\ report(j).remaining # {}
                                   THEN Routed[report(j).remaining] ELSE routes[j]]
      /\ UNCHANGED <<meta, imported>>
  BY TypeParts DEF TablesInv, RepairZombies
<1>2. mem'[k] = IF k \in reported /\ Exists(k) THEN RepairedRow(mem[k], report(k)) ELSE mem[k]
  BY <1>1
<1>3. fts'[k] = IF k \in reported THEN FtsRows(mem'[k]) ELSE fts[k]
  <2> HIDE DEF new, reported
  <2> QED
    BY <1>1 DEF FtsRefreshed
<1>4. routes'[k] = IF k \in reported /\ report(k).remaining # {}
                   THEN Routed[report(k).remaining] ELSE routes[k]
  BY <1>1
<1> HIDE DEF new, reported, report
<1>5. CASE k \notin reported
  BY <1>1, <1>2, <1>3, <1>4, <1>5, UntouchedKey
<1>6. CASE k \in reported /\ ~Exists(k)
  BY <1>1, <1>2, <1>3, <1>6 DEF Consistent, Exists
<1>7. CASE k \in reported /\ Exists(k)
  <2>1. mem[k] \in Row
    BY <1>1, <1>7, RowOf DEF Exists
  <2>2. CASE report(k).remaining = {}
    <3>1. /\ mem'[k] = [mem[k] EXCEPT !.archived = TRUE, !.reason = FileDeleted]
          /\ routes'[k] = routes[k]
      BY <1>2, <1>4, <1>7, <2>2 DEF RepairedRow
    <3>2. mem'[k] \in Row /\ mem'[k].anchor = mem[k].anchor
      BY <2>1, <3>1 DEF Row, Reasons
    <3> QED
      BY <1>1, <1>3, <1>7, <3>1, <3>2, RowIsMemory DEF Consistent, Exists
  <2>3. CASE report(k).remaining # {}
    <3>1. /\ mem'[k] = [mem[k] EXCEPT !.anchor = report(k).remaining]
          /\ routes'[k] = Routed[report(k).remaining]
      BY <1>2, <1>4, <1>7, <2>3 DEF RepairedRow
    <3>2. mem'[k].anchor = report(k).remaining
      BY <2>1, <3>1 DEF Row
    <3>3. mem'[k] # NoMemory
      <4>1. mem' \in Memories
        BY RepairType DEF TablesInv, TypeOK, Memories
      <4>2. report(k).remaining \in Anchors
        BY <1>1, <1>7 DEF TablesInv, TypeOK, Zombie, reported, report
      <4>3. mem'[k] \in Row
        BY <2>1, <3>1, <4>2 DEF Row
      <4> QED
        BY <4>3, RowIsMemory
    <3> QED
      BY <1>1, <1>3, <1>7, <3>1, <3>2, <3>3 DEF Consistent, Exists
  <2> QED
    BY <2>2, <2>3
<1> QED
  BY <1>5, <1>6, <1>7

\* The fast path of a sync deletes nothing: nothing is there to be deleted.
LEMMA SyncEmptyConsistent ==
  ASSUME TablesInv, NEW f \in ImportFiles, SyncEmpty(f), NEW k \in Keys
  PROVE  Consistent(k)'
<1> DEFINE S == DOMAIN f.rules
           new == [j \in Keys |-> IF j \in S THEN f.rules[j] ELSE NoMemory]
<1>1. /\ mem' = new /\ fts' = FtsAppended(S, new) /\ routes' = RoutesAdded(S, new)
      /\ meta' = [j \in Keys |-> IF j \in S THEN "untrusted" ELSE meta[j]]
      /\ imported' = imported \cup S
      /\ ~Exists(k)
  BY DEF SyncEmpty, StoreEmpty
<1>2. Consistent(k) /\ fts[k] = <<>> /\ meta[k] = NoMeta
  BY <1>1 DEF TablesInv, Consistent, FtsRows, Exists
<1>3. CASE k \in S
  <2>1. mem'[k] = f.rules[k] /\ mem'[k] \in Row
    BY <1>1, <1>3, FileFacts
  <2>2. fts'[k] = FtsRows(mem'[k])
    <3>1. fts'[k] = <<>> \o FtsRows(mem'[k])
      BY <1>1, <1>2, <1>3 DEF FtsAppended
    <3> QED
      BY <2>1, <3>1, AppendToNothing
  <2>3. Routed[mem'[k].anchor] \subseteq routes'[k]
    <3> HIDE DEF new, S
    <3> QED
      BY <1>1, <1>3 DEF RoutesAdded
  <2>4. meta'[k] = "untrusted"
    BY <1>1, <1>3
  <2> QED
    BY <2>1, <2>2, <2>3, <2>4, RowIsMemory DEF Consistent, Exists, NoMeta
<1>4. CASE k \notin S
  BY <1>1, <1>2, <1>4, UntouchedKey DEF FtsAppended, RoutesAdded, Exists
<1> QED
  BY <1>3, <1>4

LEMMA SyncDiffConsistent ==
  ASSUME TablesInv, NEW f \in ImportFiles, SyncDiff(f), NEW k \in Keys
  PROVE  Consistent(k)'
<1> DEFINE S == DOMAIN f.rules
           new == [j \in Keys |-> IF j \in S THEN f.rules[j] ELSE NoMemory]
           written == {j \in S : mem[j] # f.rules[j]}
           removed == {j \in Keys \ S : Exists(j)}
<1>1. /\ mem' = new
      /\ fts' = [j \in Keys |->
                   IF j \in written /\ ~Exists(j) THEN fts[j] \o FtsRows(new[j])
                   ELSE FtsRefreshed(written \cup removed, new)[j]]
      /\ routes' = [j \in Keys |->
                      IF j \in written
                      THEN (IF Exists(j) THEN {} ELSE routes[j]) \cup Routed[new[j].anchor]
                      ELSE IF j \in removed THEN {} ELSE routes[j]]
      /\ meta' = SyncedTrust(written, removed)
      /\ imported' = (imported \cup written) \ removed
  BY DEF SyncDiff
<1>2. Consistent(k)
  BY DEF TablesInv
<1>3. mem'[k] = new[k] /\ (k \in written => mem'[k] \in Row)
  BY <1>1, FileFacts
<1>4. fts'[k] = IF k \in written /\ ~Exists(k) THEN fts[k] \o FtsRows(mem'[k])
                ELSE IF k \in written \cup removed THEN FtsRows(mem'[k]) ELSE fts[k]
  BY <1>1 DEF FtsRefreshed
<1>5. /\ k \in written => Routed[mem'[k].anchor] \subseteq routes'[k]
      /\ k \notin written \cup removed => routes'[k] = routes[k]
  <2> HIDE DEF new, written, removed
  <2> QED
    BY <1>1, <1>3
<1>6. meta'[k] = IF k \in written THEN "untrusted" ELSE IF k \in removed THEN NoMeta ELSE meta[k]
  BY <1>1 DEF SyncedTrust
<1>7. /\ k \in removed => mem'[k] = NoMemory /\ k \notin written
      /\ k \notin written \cup removed => mem'[k] = mem[k]
  BY <1>1 DEF Exists
<1> HIDE DEF new, written, removed
<1>8. CASE k \in written
  <2>1. fts'[k] = FtsRows(mem'[k])
    <3>1. CASE Exists(k)
      BY <1>4, <1>8, <3>1
    <3>2. CASE ~Exists(k)
      <4>1. fts[k] = <<>>
        BY <1>2, <3>2 DEF Consistent, Exists, FtsRows
      <4> QED
        BY <1>3, <1>4, <1>8, <3>2, <4>1, AppendToNothing
    <3> QED
      BY <3>1, <3>2
  <2> QED
    BY <1>3, <1>5, <1>6, <1>8, <2>1, RowIsMemory DEF Consistent, Exists, NoMeta
<1>9. CASE k \in removed
  BY <1>1, <1>4, <1>6, <1>7, <1>9 DEF Consistent, Exists
<1>10. CASE k \notin written \cup removed
  BY <1>1, <1>2, <1>4, <1>5, <1>6, <1>7, <1>10, UntouchedKey
<1> QED
  BY <1>8, <1>9, <1>10

LEMMA InitTablesInv == Init => TablesInv
  BY InitTypeOK DEF Init, TablesInv, Consistent, Exists, FtsRows

LEMMA NextTablesInv == TablesInv /\ [Next]_vars => TablesInv'
<1> SUFFICES ASSUME TablesInv, [Next]_vars, NEW k \in Keys PROVE Consistent(k)'
  BY NextTypeOK DEF TablesInv
<1>1. ASSUME UNCHANGED <<mem, fts, routes, meta, imported>> PROVE Consistent(k)'
  BY <1>1, UntouchedKey DEF TablesInv
<1>2. ASSUME NEW b \in Batches, SetBatch(b) PROVE Consistent(k)'
  BY <1>2, SetBatchConsistent
<1>3. ASSUME NEW j \in Keys, NEW r \in UserReasons \cup {NoReason}, NEW later \in BOOLEAN,
             Archive(j, r, later)
      PROVE  Consistent(k)'
  BY <1>3, ArchiveConsistent
<1>4. ASSUME NEW j \in Keys, Unarchive(j) PROVE Consistent(k)'
  BY <1>4, UnarchiveConsistent
<1>5. ASSUME NEW j \in Keys, Del(j) PROVE Consistent(k)'
  BY <1>5, DelConsistent
<1>6. ASSUME NEW s \in Keys, NEW t \in Keys, NEW ty \in RelTypes, Relate(s, ty, t)
      PROVE  Consistent(k)'
  BY <1>6, RelateConsistent
<1>7. ASSUME NEW e \in rels, Unrelate(e) PROVE Consistent(k)'
  BY <1>1, <1>7 DEF Unrelate
<1>8. ASSUME NEW j \in Keys, NEW t \in {"reviewed", "untrusted"}, SetTrust(j, t)
      PROVE  Consistent(k)'
  <2>1. Consistent(k) /\ meta \in Metadata
    BY TypeParts DEF TablesInv
  <2>2. /\ meta[j] # NoMeta /\ meta' = [meta EXCEPT ![j] = t]
        /\ imported' = IF t = "reviewed" THEN imported \ {j} ELSE imported
        /\ UNCHANGED <<mem, fts, routes>>
    BY <1>8 DEF SetTrust
  <2>3. meta'[k] = IF k = j THEN t ELSE meta[k]
    BY <2>1, <2>2 DEF Metadata
  <2> QED
    BY <1>8, <2>1, <2>2, <2>3 DEF Consistent, Exists, NoMeta
<1>9. ASSUME NEW x \in Summaries, SessionAdd(x) PROVE Consistent(k)'
  BY <1>1, <1>9 DEF SessionAdd
<1>10. ASSUME NEW c \in Commits, NEW x \in Summaries \cup {NoSession}, CaptureEntity(c, x)
       PROVE  Consistent(k)'
  BY <1>10, CaptureConsistent
<1>11. ASSUME NEW missing \in Anchors \ {{}}, ScanZombies(missing) PROVE Consistent(k)'
  BY <1>1, <1>11 DEF ScanZombies
<1>12. ASSUME NEW later \in BOOLEAN, RepairZombies(later) PROVE Consistent(k)'
  BY <1>12, RepairConsistent
<1>13. ASSUME NEW f \in ImportFiles, NEW accept \in BOOLEAN, SyncImport(f, accept)
       PROVE  Consistent(k)'
  BY <1>13, SyncEmptyConsistent, SyncDiffConsistent DEF SyncImport
<1>14. CASE SemanticRebuild \/ DropReport
  BY <1>1, <1>14 DEF SemanticRebuild, DropReport
<1>15. CASE UNCHANGED vars
  BY <1>1, <1>15 DEF vars
<1> QED
  BY <1>2, <1>3, <1>4, <1>5, <1>6, <1>7, <1>8, <1>9, <1>10, <1>11, <1>12, <1>13, <1>14, <1>15
  DEF Next

LEMMA TablesInvariance == Spec => []TablesInv
  BY InitTablesInv, NextTablesInv, PTL DEF Spec

\* Every memory has exactly one full-text row, with its current content, and
\* exactly one trust row, whichever of the shortcuts of set_batch and sync
\* wrote it (store/mod.rs, sync.rs).
THEOREM TablesCorrect == Spec => []TablesMirrorMemories
<1>1. TablesInv => TablesMirrorMemories
  BY DEF TablesInv, Consistent, TablesMirrorMemories, FtsMirrorsMemories, MetadataMatches
<1> QED
  BY <1>1, TablesInvariance, PTL

\* A route leads to every memory from each routed file of its anchor, the
\* cleaner's repairs from an old report included (graph.rs:561).
THEOREM RoutesCorrect == Spec => []RoutesReachAnchors
<1>1. TablesInv => RoutesReachAnchors
  BY DEF TablesInv, Consistent, RoutesReachAnchors
<1> QED
  BY <1>1, TablesInvariance, PTL

\* What an import wrote is untrusted until it is reviewed or written anew.
THEOREM QuarantineCorrect == Spec => []ImportsStayQuarantined
<1>1. TablesInv => ImportsStayQuarantined
  BY DEF TablesInv, Consistent, ImportsStayQuarantined, TypeOK
<1> QED
  BY <1>1, TablesInvariance, PTL
----------------------------------------------------------------------------
(* What a step may do.                                                     *)

\* Whatever writes memories or relations bumps the generation.
LEMMA StepBumps ==
  ASSUME TypeOK, Next
  PROVE  (gen' = gen => mem' = mem /\ rels' = rels) /\ gen' >= gen
<1> DEFINE Bumps == (gen' = gen => mem' = mem /\ rels' = rels) /\ gen' >= gen
<1>1. gen \in Nat /\ mem \in Memories
  BY TypeParts
<1>2. Bump => Bumps
  BY <1>1 DEF Bump
<1>3. UNCHANGED <<mem, rels, gen>> => Bumps
  BY <1>1
<1> HIDE DEF Bumps
<1>4. ASSUME NEW b \in Batches, SetBatch(b) PROVE Bumps
  BY <1>2, <1>4 DEF SetBatch
<1>5. ASSUME NEW k \in Keys, NEW r \in UserReasons \cup {NoReason}, NEW later \in BOOLEAN,
             Archive(k, r, later)
      PROVE  Bumps
  BY <1>2, <1>5 DEF Archive
<1>6. ASSUME NEW k \in Keys, Unarchive(k) \/ Del(k) PROVE Bumps
  BY <1>2, <1>6 DEF Unarchive, Del
<1>7. ASSUME NEW s \in Keys, NEW t \in Keys, NEW ty \in RelTypes, Relate(s, ty, t) PROVE Bumps
  <2> DEFINE new == Superseded(mem, s, IF ty = "supersedes" THEN {t} ELSE {})
  <2>1. /\ mem' = new /\ rels' = rels \cup {<<s, ty, t>>}
        /\ IF new = mem /\ <<s, ty, t>> \in rels THEN UNCHANGED gen ELSE Bump
    BY <1>7 DEF Relate
  <2> HIDE DEF new
  <2>2. CASE new = mem /\ <<s, ty, t>> \in rels
    BY <1>3, <2>1, <2>2
  <2> QED
    BY <1>2, <2>1, <2>2
<1>8. ASSUME NEW e \in rels, Unrelate(e) PROVE Bumps
  BY <1>2, <1>8 DEF Unrelate
<1>9. ASSUME NEW k \in Keys, NEW t \in {"reviewed", "untrusted"}, SetTrust(k, t) PROVE Bumps
  BY <1>3, <1>9 DEF SetTrust
<1>10. ASSUME NEW x \in Summaries, SessionAdd(x) PROVE Bumps
  BY <1>3, <1>10 DEF SessionAdd
<1>11. ASSUME NEW c \in Commits, NEW x \in Summaries \cup {NoSession}, CaptureEntity(c, x)
       PROVE  Bumps
  BY <1>2, <1>11 DEF CaptureEntity
<1>12. ASSUME NEW missing \in Anchors \ {{}}, ScanZombies(missing) PROVE Bumps
  BY <1>3, <1>12 DEF ScanZombies
<1>13. ASSUME NEW later \in BOOLEAN, RepairZombies(later) PROVE Bumps
  <2> DEFINE reported == {z.key : z \in zombies}
             report(k) == CHOOSE z \in zombies : z.key = k
             new == [k \in Keys |-> IF k \in reported /\ Exists(k)
                                    THEN RepairedRow(mem[k], report(k)) ELSE mem[k]]
  <2>1. /\ mem' = new /\ rels' = rels
        /\ IF \E k \in reported : Exists(k) THEN Bump ELSE UNCHANGED gen
    BY <1>13 DEF RepairZombies
  <2>2. CASE ~ \E k \in reported : Exists(k)
    <3>1. new = [k \in Keys |-> mem[k]]
      BY <2>2
    <3> QED
      BY <1>1, <1>3, <2>1, <2>2, <3>1 DEF Memories
  <2> QED
    BY <1>2, <2>1, <2>2
<1>14. ASSUME NEW f \in ImportFiles, SyncEmpty(f) PROVE Bumps
  <2> DEFINE S == DOMAIN f.rules
             new == [k \in Keys |-> IF k \in S THEN f.rules[k] ELSE NoMemory]
  <2>1. /\ mem' = new /\ rels' = rels \cup f.rels /\ \A k \in Keys : mem[k] = NoMemory
        /\ IF S # {} \/ ~(f.rels \subseteq rels) THEN Bump ELSE UNCHANGED gen
    BY <1>14 DEF SyncEmpty, StoreEmpty, Exists
  <2>2. CASE S = {} /\ f.rels \subseteq rels
    <3>1. new = [k \in Keys |-> mem[k]]
      BY <2>1, <2>2
    <3> QED
      BY <1>1, <1>3, <2>1, <2>2, <3>1 DEF Memories
  <2> QED
    BY <1>2, <2>1, <2>2
<1>15. ASSUME NEW f \in ImportFiles, SyncDiff(f) PROVE Bumps
  BY <1>2, <1>3, <1>15 DEF SyncDiff
<1>16. ASSUME SemanticRebuild \/ DropReport PROVE Bumps
  BY <1>3, <1>16 DEF SemanticRebuild, DropReport
<1>17. Bumps
  BY <1>4, <1>5, <1>6, <1>7, <1>8, <1>9, <1>10, <1>11, <1>12, <1>13, <1>14, <1>15, <1>16
  DEF Next, SyncImport
<1> QED
  BY <1>17 DEF Bumps

\* The generation tells apart any two contents of memories and relations that
\* follow each other, which is all that the sync's no-op check looks at
\* (sync.rs:483).
THEOREM GenerationCorrect == Spec => ContentBumpsGeneration
<1>1. TypeOK /\ [Next]_vars
      => [(gen' = gen => mem' = mem /\ rels' = rels) /\ gen' >= gen]_vars
  BY StepBumps
<1> QED
  BY <1>1, TypeCorrect, PTL DEF Spec, ContentBumpsGeneration

\* A transaction that leaves the index unmarked leaves the memories alone.
LEMMA StepMarksDirty ==
  ASSUME TypeOK, Next, ~dirty'
  PROVE  mem' = mem
<1>1. \/ \E k \in Keys, t \in {"reviewed", "untrusted"} : SetTrust(k, t)
      \/ \E s, t \in Keys, ty \in RelTypes : ty # "supersedes" /\ Relate(s, ty, t)
      \/ \E e \in rels : Unrelate(e)
      \/ \E x \in Summaries : SessionAdd(x)
      \/ \E missing \in Anchors \ {{}} : ScanZombies(missing)
      \/ SemanticRebuild
      \/ DropReport
  BY DEF Next, SetBatch, Archive, Unarchive, Del, Relate, CaptureEntity, RepairZombies,
         SyncImport, MarkSemanticDirty
<1>2. ASSUME NEW s \in Keys, NEW t \in Keys, NEW ty \in RelTypes, ty # "supersedes",
             Relate(s, ty, t)
      PROVE  mem' = mem
  <2>1. mem' = Superseded(mem, s, {})
    BY <1>2 DEF Relate
  <2>2. Superseded(mem, s, {}) = [k \in Keys |-> mem[k]]
    BY DEF Superseded
  <2> QED
    BY <2>1, <2>2, TypeParts DEF Memories
<1> QED
  BY <1>1, <1>2 DEF SetTrust, Unrelate, SessionAdd, ScanZombies, SemanticRebuild, DropReport

\* No transaction changes what the semantic index embeds and leaves it
\* unmarked (store/mod.rs, mark_semantic_dirty).
THEOREM DirtyCorrect == Spec => DirtyCoversCorpus
<1>1. TypeOK /\ [Next]_vars => [Corpus' # Corpus => dirty']_vars
  <2> SUFFICES ASSUME TypeOK, Next, ~dirty' PROVE Corpus' = Corpus
    OBVIOUS
  <2> QED
    BY StepMarksDirty DEF Corpus, Exists
<1> QED
  BY <1>1, TypeCorrect, PTL DEF Spec, DirtyCoversCorpus

\* Only set_trust gives the mark "reviewed" to a memory that has it not.
LEMMA StepPromotesNothingElse ==
  ASSUME TypeOK, Next, NEW k \in Keys, meta[k] # "reviewed", meta'[k] = "reviewed"
  PROVE  UNCHANGED <<mem, fts, routes, rels, revs, sessions, gen>>
<1>1. meta \in Metadata
  BY TypeParts
<1>2. ASSUME NEW b \in Batches, SetBatch(b) PROVE FALSE
  BY <1>2 DEF SetBatch, LocalTrust
<1>3. ASSUME NEW j \in Keys, Del(j) PROVE FALSE
  BY <1>1, <1>3 DEF Del, Metadata, NoMeta
<1>4. ASSUME NEW c \in Commits, NEW x \in Summaries \cup {NoSession}, CaptureEntity(c, x)
      PROVE  FALSE
  BY <1>1, <1>4 DEF CaptureEntity, LocalTrust, Metadata
<1>5. ASSUME NEW f \in ImportFiles, SyncEmpty(f) \/ SyncDiff(f) PROVE FALSE
  BY <1>5 DEF SyncEmpty, SyncDiff, SyncedTrust, NoMeta
<1>6. meta' # meta
  OBVIOUS
<1>7. \E j \in Keys, t \in {"reviewed", "untrusted"} : SetTrust(j, t)
  BY <1>2, <1>3, <1>4, <1>5, <1>6
     DEF Next, Archive, Unarchive, Relate, Unrelate, SessionAdd, ScanZombies, RepairZombies,
         DropReport, SyncImport, SemanticRebuild
<1> QED
  BY <1>7 DEF SetTrust

\* No write, import, hook or repair promotes what it touches
\* (THREAT_MODEL.md:34).
THEOREM PromotionCorrect == Spec => PromotionIsExplicit
<1>1. TypeOK /\ [Next]_vars
      => [\A k \in Keys :
            meta[k] # "reviewed" /\ meta'[k] = "reviewed"
            => UNCHANGED <<mem, fts, routes, rels, revs, sessions, gen>>]_vars
  BY StepPromotesNothingElse
<1> QED
  BY <1>1, TypeCorrect, PTL DEF Spec, PromotionIsExplicit
----------------------------------------------------------------------------
(* The history of a memory.  `new' is `old' behind n newer revisions, cut  *)
(* to the newest cap.                                                      *)

Behind(old, new, n, cap) ==
  /\ n <= Len(new)
  /\ Len(new) - n <= Len(old)
  /\ \A i \in 1..Len(new) - n : new[i + n] = old[i]
  /\ Len(new) < cap => Len(new) = Len(old) + n

\* A ring puts what is pushed first and keeps the rest behind it.
LEMMA RingPushes ==
  ASSUME NEW T, NEW s \in Seq(T), NEW x \in T, NEW cap \in Nat \ {0}, Len(s) <= cap
  PROVE  LET r == Ring(s, x, cap) IN
         r \in Seq(T) /\ Len(r) > 0 /\ r[1] = x /\ Behind(s, r, 1, cap)
<1> DEFINE t == <<x>> \o s
<1>1. <<x>> \in Seq(T) /\ Len(<<x>>) = 1 /\ <<x>>[1] = x
  OBVIOUS
<1>2. /\ t \in Seq(T) /\ Len(t) = Len(s) + 1 /\ Len(s) \in Nat
      /\ t[1] = x /\ \A i \in 1..Len(s) : t[i + 1] = s[i]
  <2>1. /\ t \in Seq(T) /\ Len(t) = 1 + Len(s) /\ Len(s) \in Nat
        /\ \A i \in 1..1 + Len(s) : t[i] = IF i <= 1 THEN <<x>>[i] ELSE s[i - 1]
    BY <1>1, ConcatProperties, LenProperties
  <2>2. \A i \in 1..Len(s) : i + 1 \in 1..1 + Len(s) /\ ~(i + 1 <= 1) /\ (i + 1) - 1 = i
    BY <2>1
  <2> HIDE DEF t
  <2> QED
    BY <1>1, <2>1, <2>2
<1> HIDE DEF t
<1>3. CASE Len(s) < cap
  <2>1. Ring(s, x, cap) = t
    BY <1>3 DEF Ring, t
  <2> QED
    BY <1>2, <2>1 DEF Behind
<1>4. CASE ~(Len(s) < cap)
  <2> DEFINE r == SubSeq(t, 1, cap)
  <2>1. Len(s) = cap /\ Ring(s, x, cap) = r
    BY <1>2, <1>4 DEF Ring, t
  <2>2. \A i \in 1..cap : t[i] \in T
    BY <1>2, <2>1, ElementOfSeq
  <2>3. /\ r \in Seq(T)
        /\ Len(r) = IF 1 <= cap THEN cap - 1 + 1 ELSE 0
        /\ \A i \in 1..cap - 1 + 1 : r[i] = t[1 + i - 1]
    <3>1. 1 \in Int /\ cap \in Int
      OBVIOUS
    <3> QED
      BY <2>2, <3>1, SubSeqProperties
  <2> HIDE DEF r
  <2>4. Len(r) = cap /\ \A i \in 1..cap : r[i] = t[i]
    BY <2>3
  <2> QED
    BY <1>2, <2>1, <2>3, <2>4 DEF Behind
<1> QED
  BY <1>3, <1>4

LEMMA BehindItself ==
  ASSUME NEW T, NEW s \in Seq(T), NEW cap \in Nat
  PROVE  Behind(s, s, 0, cap)
  BY LenProperties DEF Behind

\* Two pushes, of which a ring of one entry keeps the second only.
LEMMA BehindTwice ==
  ASSUME NEW T, NEW r \in Seq(T), NEW s \in Seq(T), NEW t \in Seq(T), NEW cap \in Nat \ {0},
         Behind(r, s, 1, cap), Behind(s, t, 1, cap), Len(s) <= cap
  PROVE  \E n \in 1..2 : Behind(r, t, n, cap)
<1>1. Len(r) \in Nat /\ Len(s) \in Nat /\ Len(t) \in Nat
  BY LenProperties
<1>0. cap \in Nat /\ cap >= 1
  OBVIOUS
<1>2. CASE Len(t) >= 2
  <2>1. \A i \in 1..Len(t) - 2 : i + 1 \in 1..Len(t) - 1 /\ i \in 1..Len(s) - 1
                               /\ (i + 1) + 1 = i + 2
    BY <1>1, <1>2 DEF Behind
  <2>2. \A i \in 1..Len(t) - 2 : t[i + 2] = r[i]
    BY <2>1 DEF Behind
  <2>3. Behind(r, t, 2, cap)
    BY <1>1, <1>2, <2>2 DEF Behind
  <2> QED
    BY <2>3
<1>3. CASE Len(t) < 2
  <2>1. 1 <= Len(t) /\ 1 <= Len(s) /\ (Len(t) < cap => Len(t) = Len(s) + 1)
    BY DEF Behind
  <2>2. Len(t) = 1 /\ cap = 1
    BY <1>0, <1>1, <1>3, <2>1
  <2>3. Behind(r, t, 1, cap)
    BY <1>1, <2>1, <2>2 DEF Behind
  <2> QED
    BY <2>3
<1> QED
  BY <1>1, <1>2, <1>3

\* The same with subsequences.
LEMMA BehindIsSubSeq ==
  ASSUME NEW T, NEW s \in Seq(T), NEW t \in Seq(T), NEW n \in 0..2, NEW cap \in Nat,
         Behind(s, t, n, cap)
  PROVE  SubSeq(t, n + 1, Len(t)) = SubSeq(s, 1, Len(t) - n)
<1> DEFINE a == SubSeq(t, n + 1, Len(t))
           b == SubSeq(s, 1, Len(t) - n)
<1>1. /\ Len(s) \in Nat /\ Len(t) \in Nat
      /\ n \in Int /\ n + 1 \in Int /\ Len(t) \in Int /\ Len(t) - n \in Int /\ 1 \in Int
      /\ Len(t) - n >= 0 /\ Len(t) - n <= Len(s)
  BY LenProperties DEF Behind
<1>2. \A i \in n + 1..Len(t) : t[i] \in T
  BY <1>1, ElementOfSeq
<1>3. \A i \in 1..Len(t) - n : s[i] \in T
  BY <1>1, ElementOfSeq
<1>4. /\ a \in Seq(T)
      /\ Len(a) = IF n + 1 <= Len(t) THEN Len(t) - (n + 1) + 1 ELSE 0
      /\ \A i \in 1..Len(t) - (n + 1) + 1 : a[i] = t[(n + 1) + i - 1]
  BY <1>1, <1>2, SubSeqProperties
<1>5. /\ b \in Seq(T)
      /\ Len(b) = IF 1 <= Len(t) - n THEN (Len(t) - n) - 1 + 1 ELSE 0
      /\ \A i \in 1..(Len(t) - n) - 1 + 1 : b[i] = s[1 + i - 1]
  BY <1>1, <1>3, SubSeqProperties
<1> HIDE DEF a, b
<1>6. Len(a) = Len(t) - n /\ Len(b) = Len(t) - n
  BY <1>1, <1>4, <1>5
<1>7. \A i \in 1..Len(t) - n : a[i] = b[i]
  <2> TAKE i \in 1..Len(t) - n
  <2>1. a[i] = t[i + n]
    <3>1. i \in 1..Len(t) - (n + 1) + 1 /\ (n + 1) + i - 1 = i + n
      BY <1>1
    <3> QED
      BY <1>4, <3>1
  <2>2. b[i] = s[i]
    <3>1. i \in 1..(Len(t) - n) - 1 + 1 /\ 1 + i - 1 = i
      BY <1>1
    <3> QED
      BY <1>5, <3>1
  <2> QED
    BY <2>1, <2>2 DEF Behind
<1>8. a = b
  BY <1>4, <1>5, <1>6, <1>7, SeqEqual
<1> QED
  BY <1>8 DEF a, b

\* What a step does to the history of a key.
Replaced(k) ==
  Exists(k) /\ mem'[k] # mem[k] => /\ Len(revs'[k]) > 0
                                   /\ revs'[k][1].row = mem[k]
                                   /\ revs'[k][1].trust = meta[k]

KeptBehind(k) == \E n \in 0..2 : Behind(revs[k], revs'[k], n, RevCap)

LEMMA HistoryOf ==
  ASSUME NEW h \in Histories, NEW k \in Keys
  PROVE  h[k] \in Seq(Revision) /\ Len(h[k]) <= RevCap
  BY DEF Histories

\* The triggers.
LEMMA RevisedPushes ==
  ASSUME mem \in Memories, meta \in Metadata, RevCap > 0, NEW new \in Memories, NEW restamped,
         NEW h \in Histories, NEW k \in Keys
  PROVE  LET r == Revised(mem, new, restamped, h)[k] IN
         /\ Exists(k) /\ new[k] # mem[k]
            => Len(r) > 0 /\ r[1].row = mem[k] /\ r[1].trust = meta[k]
         /\ r = h[k] \/ Behind(h[k], r, 1, RevCap)
<1> DEFINE rev == [row |-> mem[k], trust |-> meta[k],
                   change |-> IF new[k] = NoMemory THEN "deleted" ELSE "updated"]
           r == Revised(mem, new, restamped, h)[k]
<1>1. r = IF mem[k] # NoMemory /\ (new[k] # mem[k] \/ k \in restamped)
          THEN Ring(h[k], rev, RevCap) ELSE h[k]
  BY DEF Revised
<1>2. CASE mem[k] # NoMemory /\ (new[k] # mem[k] \/ k \in restamped)
  <2>1. rev \in Revision /\ rev.row = mem[k] /\ rev.trust = meta[k]
    BY <1>2, RowOf DEF Revision, Metadata
  <2>2. h[k] \in Seq(Revision) /\ Len(h[k]) <= RevCap /\ RevCap \in Nat \ {0}
    BY HistoryOf, BoundsAssumption
  <2> HIDE DEF rev
  <2>3. LET q == Ring(h[k], rev, RevCap) IN
        Len(q) > 0 /\ q[1] = rev /\ Behind(h[k], q, 1, RevCap)
    BY <2>1, <2>2, RingPushes
  <2> HIDE DEF r
  <2> QED
    BY <1>1, <1>2, <2>1, <2>3 DEF r
<1>3. CASE ~(mem[k] # NoMemory /\ (new[k] # mem[k] \/ k \in restamped))
  BY <1>1, <1>3 DEF Exists
<1> QED
  BY <1>2, <1>3

LEMMA ConflictsPush ==
  ASSUME TypeOK, RevCap > 0, NEW f \in ImportFiles, NEW k \in Keys
  PROVE  LET h == ConflictsRecorded(f) IN
         h[k] = revs[k] \/ Behind(revs[k], h[k], 1, RevCap)
<1> DEFINE rev == [row |-> f.alts[k], trust |-> "untrusted", change |-> "conflict"]
           h == ConflictsRecorded(f)
<1>1. h[k] = IF k \in DOMAIN f.alts THEN Ring(revs[k], rev, RevCap) ELSE revs[k]
  BY DEF ConflictsRecorded
<1>2. ASSUME k \in DOMAIN f.alts
      PROVE  Behind(revs[k], Ring(revs[k], rev, RevCap), 1, RevCap)
  <2>1. f.alts[k] \in Row
    BY <1>2, InputsAssumption, PartialOnFacts DEF ImportFile
  <2>2. rev \in Revision
    BY <2>1 DEF Revision, Trusts
  <2>3. revs[k] \in Seq(Revision) /\ Len(revs[k]) <= RevCap /\ RevCap \in Nat \ {0}
    BY BoundsAssumption DEF TypeOK
  <2> HIDE DEF rev
  <2> QED
    BY <2>2, <2>3, RingPushes
<1> HIDE DEF rev, h
<1> QED
  BY <1>1, <1>2 DEF h

\* Most steps only fire the triggers.
LEMMA TriggersKeep ==
  ASSUME TypeOK, TypeOK', RevCap > 0, NEW restamped,
         revs' = Revised(mem, mem', restamped, revs), NEW k \in Keys
  PROVE  Replaced(k) /\ KeptBehind(k)
<1>1. /\ mem \in Memories /\ mem' \in Memories /\ meta \in Metadata /\ revs \in Histories
      /\ revs' \in Histories
  BY TypeParts DEF TypeOK, Memories, Histories
<1>2. /\ Exists(k) /\ mem'[k] # mem[k]
         => Len(revs'[k]) > 0 /\ revs'[k][1].row = mem[k] /\ revs'[k][1].trust = meta[k]
      /\ revs'[k] = revs[k] \/ Behind(revs[k], revs'[k], 1, RevCap)
  BY <1>1, RevisedPushes
<1>3. Behind(revs[k], revs[k], 0, RevCap)
  BY <1>1, HistoryOf, BehindItself, BoundsAssumption
<1> QED
  BY <1>2, <1>3 DEF Replaced, KeptBehind

LEMMA NoHistoryStep ==
  ASSUME TypeOK, UNCHANGED <<mem, revs>>, NEW k \in Keys
  PROVE  Replaced(k) /\ KeptBehind(k)
<1>1. Behind(revs[k], revs[k], 0, RevCap)
  BY HistoryOf, BehindItself, BoundsAssumption, TypeParts
<1> QED
  BY <1>1 DEF Replaced, KeptBehind

LEMMA StepKeepsHistory ==
  ASSUME TypeOK, TypeOK', RevCap > 0, Next, NEW k \in Keys
  PROVE  Replaced(k) /\ KeptBehind(k)
<1> DEFINE Keeps == Replaced(k) /\ KeptBehind(k)
<1>1. ASSUME UNCHANGED <<mem, revs>> PROVE Keeps
  BY <1>1, NoHistoryStep
<1>2. ASSUME NEW restamped, revs' = Revised(mem, mem', restamped, revs) PROVE Keeps
  BY <1>2, TriggersKeep
<1> HIDE DEF Keeps
<1>3. ASSUME NEW b \in Batches, SetBatch(b) PROVE Keeps
  BY <1>2, <1>3 DEF SetBatch
<1>4. ASSUME NEW j \in Keys, NEW r \in UserReasons \cup {NoReason}, NEW later \in BOOLEAN,
             Archive(j, r, later)
      PROVE  Keeps
  <2>1. revs' = Revised(mem, mem', IF later THEN {j} ELSE {}, revs)
    BY <1>4 DEF Archive
  <2> QED
    BY <1>2, <2>1
<1>5. ASSUME NEW j \in Keys, Unarchive(j) \/ Del(j) PROVE Keeps
  <2>1. revs' = Revised(mem, mem', {}, revs)
    BY <1>5 DEF Unarchive, Del
  <2> QED
    BY <1>2, <2>1
<1>6. ASSUME NEW s \in Keys, NEW t \in Keys, NEW ty \in RelTypes, Relate(s, ty, t) PROVE Keeps
  BY <1>2, <1>6 DEF Relate
<1>7. ASSUME NEW c \in Commits, NEW x \in Summaries \cup {NoSession}, CaptureEntity(c, x)
      PROVE  Keeps
  BY <1>2, <1>7 DEF CaptureEntity
<1>8. ASSUME NEW later \in BOOLEAN, RepairZombies(later) PROVE Keeps
  <2>1. \E restamped : revs' = Revised(mem, mem', restamped, revs)
    BY <1>8 DEF RepairZombies
  <2> QED
    BY <1>2, <2>1
<1>9. ASSUME NEW f \in ImportFiles, SyncEmpty(f) PROVE Keeps
  <2>1. revs' = ConflictsRecorded(f) /\ ~Exists(k)
    BY <1>9 DEF SyncEmpty, StoreEmpty
  <2>2. revs'[k] = revs[k] \/ Behind(revs[k], revs'[k], 1, RevCap)
    BY <2>1, ConflictsPush
  <2>3. Behind(revs[k], revs[k], 0, RevCap)
    BY HistoryOf, BehindItself, BoundsAssumption, TypeParts
  <2> QED
    BY <2>1, <2>2, <2>3 DEF Keeps, Replaced, KeptBehind
<1>10. ASSUME NEW f \in ImportFiles, SyncDiff(f) PROVE Keeps
  <2> DEFINE h == ConflictsRecorded(f)
  <2>1. revs' = Revised(mem, mem', {}, h) /\ h \in Histories
    BY <1>10, ConflictsType DEF SyncDiff
  <2>2. mem \in Memories /\ mem' \in Memories /\ meta \in Metadata
    BY TypeParts DEF TypeOK, Memories
  <2>3. h[k] = revs[k] \/ Behind(revs[k], h[k], 1, RevCap)
    BY ConflictsPush
  <2>4. /\ revs[k] \in Seq(Revision) /\ revs'[k] \in Seq(Revision)
        /\ h[k] \in Seq(Revision) /\ Len(h[k]) <= RevCap /\ RevCap \in Nat \ {0}
    BY <2>1, HistoryOf, BoundsAssumption DEF TypeOK
  <2> HIDE DEF h
  <2>5. /\ Exists(k) /\ mem'[k] # mem[k]
           => Len(revs'[k]) > 0 /\ revs'[k][1].row = mem[k] /\ revs'[k][1].trust = meta[k]
        /\ revs'[k] = h[k] \/ Behind(h[k], revs'[k], 1, RevCap)
    BY <2>1, <2>2, RevisedPushes
  <2>6. Behind(revs[k], revs[k], 0, RevCap)
    BY <2>4, BehindItself
  <2>7. Behind(revs[k], h[k], 1, RevCap) /\ Behind(h[k], revs'[k], 1, RevCap)
        => \E n \in 1..2 : Behind(revs[k], revs'[k], n, RevCap)
    BY <2>4, BehindTwice
  <2>8. KeptBehind(k)
    BY <2>3, <2>5, <2>6, <2>7 DEF KeptBehind
  <2> QED
    BY <2>5, <2>8 DEF Keeps, Replaced
<1>11. Keeps
  BY <1>1, <1>3, <1>4, <1>5, <1>6, <1>7, <1>8, <1>9, <1>10
  DEF Next, Unrelate, SetTrust, SessionAdd, ScanZombies, DropReport, SyncImport,
      SemanticRebuild
<1> QED
  BY <1>11 DEF Keeps

\* Every version of a memory that a transaction replaces, archives or deletes
\* becomes its newest revision with the trust it had, and pushes out none but
\* the oldest, also where a sync records a conflict and fires the triggers in
\* one transaction (schema.rs:394, sync.rs).
THEOREM HistoryCorrect == Spec => HistoryComplete
<1>1. TypeOK /\ [Next]_vars => [HistoryStep]_vars
  <2> SUFFICES ASSUME TypeOK, Next, RevCap > 0, NEW k \in Keys
               PROVE  /\ Exists(k) /\ mem'[k] # mem[k] =>
                           /\ revs'[k] # <<>>
                           /\ revs'[k][1].row = mem[k]
                           /\ revs'[k][1].trust = meta[k]
                      /\ \E n \in 0..2 : /\ n <= Len(revs'[k])
                                         /\ Len(revs'[k]) - n <= Len(revs[k])
                                         /\ SubSeq(revs'[k], n + 1, Len(revs'[k])) =
                                              SubSeq(revs[k], 1, Len(revs'[k]) - n)
                                         /\ Len(revs'[k]) < RevCap
                                              => Len(revs'[k]) = Len(revs[k]) + n
    BY DEF HistoryStep
  <2> TypeOK'
    BY NextTypeOK
  <2>1. Replaced(k) /\ KeptBehind(k)
    BY StepKeepsHistory
  <2>2. Len(revs'[k]) > 0 => revs'[k] # <<>>
    OBVIOUS
  <2>3. PICK n \in 0..2 : Behind(revs[k], revs'[k], n, RevCap)
    BY <2>1 DEF KeptBehind
  <2>4. SubSeq(revs'[k], n + 1, Len(revs'[k])) = SubSeq(revs[k], 1, Len(revs'[k]) - n)
    <3>1. revs[k] \in Seq(Revision) /\ revs'[k] \in Seq(Revision) /\ RevCap \in Nat
      BY BoundsAssumption DEF TypeOK
    <3> QED
      BY <2>3, <3>1, BehindIsSubSeq
  <2>5. /\ n <= Len(revs'[k]) /\ Len(revs'[k]) - n <= Len(revs[k])
        /\ Len(revs'[k]) < RevCap => Len(revs'[k]) = Len(revs[k]) + n
    BY <2>3 DEF Behind
  <2> QED
    BY <2>1, <2>2, <2>4, <2>5 DEF Replaced
<1> QED
  BY <1>1, TypeCorrect, PTL DEF Spec, HistoryComplete

----------------------------------------------------------------------------
(* The supersedes graph, when no batch and no file brings an edge that the *)
(* code would insert unchecked (GuardedInputs).                            *)

\* Dropping supersedes edges keeps a graph acyclic, whatever other relations
\* come or go.
LEMMA AcyclicShrink ==
  ASSUME NEW R, NEW Q, AcyclicRels(R), \A e \in Q : e[2] = "supersedes" => e \in R
  PROVE  AcyclicRels(Q)
  BY DEF AcyclicRels

\* Edges from s into a set that is closed under supersedes and does not hold
\* s keep a graph acyclic.
LEMMA AcyclicExtend ==
  ASSUME NEW R, NEW Q, NEW s \in Keys, NEW C \in SUBSET Keys,
         AcyclicRels(R), s \notin C,
         \A e \in R : e[2] = "supersedes" /\ e[1] \in C => e[3] \in C,
         \A e \in Q : e[2] = "supersedes" => e \in R \/ (e[1] = s /\ e[3] \in C)
  PROVE  AcyclicRels(Q)
<1> SUFFICES ASSUME NEW S \in SUBSET Keys, S # {}
             PROVE  \E k \in S : \A e \in Q : e[2] = "supersedes" /\ e[1] = k => e[3] \notin S
  BY DEF AcyclicRels
<1>1. CASE S \cap C # {}
  <2>1. PICK k \in S \cap C :
          \A e \in R : e[2] = "supersedes" /\ e[1] = k => e[3] \notin S \cap C
    BY <1>1 DEF AcyclicRels
  <2>2. \A e \in Q : e[2] = "supersedes" /\ e[1] = k => e[3] \notin S
    BY <2>1
  <2> QED
    BY <2>1, <2>2
<1>2. CASE S \cap C = {}
  <2>1. PICK k \in S : \A e \in R : e[2] = "supersedes" /\ e[1] = k => e[3] \notin S
    BY DEF AcyclicRels
  <2>2. \A e \in Q : e[2] = "supersedes" /\ e[1] = k => e[3] \notin S
    BY <1>2, <2>1
  <2> QED
    BY <2>1, <2>2
<1> QED
  BY <1>1, <1>2

\* The keys that some target reaches contain the targets and are closed.
Reached(targets) == {k \in Keys : \E t \in targets : Reaches(t, k)}

LEMMA ReachedClosed ==
  ASSUME NEW targets \in SUBSET Keys, rels \subseteq Rel
  PROVE  /\ targets \subseteq Reached(targets)
         /\ \A e \in rels : e[2] = "supersedes" /\ e[1] \in Reached(targets)
                            => e[3] \in Reached(targets)
<1>1. targets \subseteq Reached(targets)
  BY DEF Reached, Reaches
<1>2. ASSUME NEW e \in rels, e[2] = "supersedes", NEW t \in targets, Reaches(t, e[1])
      PROVE  Reaches(t, e[3])
  BY <1>2 DEF Reaches
<1>3. \A e \in rels : e[3] \in Keys
  BY DEF Rel
<1> QED
  BY <1>1, <1>2, <1>3 DEF Reached

----------------------------------------------------------------------------
(* Memories that stay.                                                     *)

\* What a step must do to keep the endpoints of the supersedes edges alive.
LEMMA EndpointsKept ==
  ASSUME SupersedesEndpointsExist, rels \subseteq Rel,
         \A k \in Keys : Exists(k) => mem'[k] # NoMemory,
         \A e \in rels' : e[2] = "supersedes" =>
            e \in rels \/ (mem'[e[1]] # NoMemory /\ mem'[e[3]] # NoMemory)
  PROVE  SupersedesEndpointsExist'
<1>1. \A e \in rels : e[1] \in Keys /\ e[3] \in Keys
  BY DEF Rel
<1> QED
  BY <1>1 DEF SupersedesEndpointsExist, Exists

LEMMA SupersededKeeps ==
  ASSUME NEW m \in Memories, NEW s \in Keys, NEW targets
  PROVE  \A k \in Keys : m[k] # NoMemory => Superseded(m, s, targets)[k] # NoMemory
<1>1. ASSUME NEW k \in Keys, m[k] # NoMemory
      PROVE  [m[k] EXCEPT !.archived = TRUE, !.reason = s] \in Row
  BY <1>1, RowOf DEF Row, Reasons
<1>2. NoMemory \notin Row
  BY SentinelsAssumption
<1> QED
  BY <1>1, <1>2 DEF Superseded

LEMMA RepairedKeeps ==
  ASSUME NEW m \in Row, NEW z, z.remaining \in Anchors
  PROVE  RepairedRow(m, z) # NoMemory
<1>1. [m EXCEPT !.archived = TRUE, !.reason = FileDeleted] \in Row
  BY DEF Row, Reasons
<1>2. [m EXCEPT !.anchor = z.remaining] \in Row
  BY DEF Row
<1> QED
  BY <1>1, <1>2, SentinelsAssumption DEF RepairedRow

----------------------------------------------------------------------------
GraphOK == SupersedesAcyclic /\ SupersedesEndpointsExist

LEMMA SetBatchGraph ==
  ASSUME GuardedInputs, TypeOK, GraphOK, NEW b \in Batches, SetBatch(b)
  PROVE  GraphOK'
<1>1. DOMAIN b \subseteq Keys /\ \A k \in DOMAIN b : b[k] \in Rule
  BY InputsAssumption, PartialOnFacts
<1>2. \A e \in rels' : e[2] = "supersedes" => e \in rels
  BY DEF SetBatch, GuardedInputs
<1>3. \A k \in Keys : Exists(k) => mem'[k] # NoMemory
  <2>1. \A k \in DOMAIN b : [text |-> b[k].text, anchor |-> b[k].anchor,
                             archived |-> FALSE, reason |-> NoReason] \in Row
    BY <1>1 DEF Row, Rule, Reasons
  <2>2. mem' = [k \in Keys |-> IF k \in DOMAIN b
                               THEN [text |-> b[k].text, anchor |-> b[k].anchor,
                                     archived |-> FALSE, reason |-> NoReason]
                               ELSE mem[k]]
    BY DEF SetBatch
  <2> QED
    BY <2>1, <2>2, SentinelsAssumption DEF Exists
<1>4. SupersedesEndpointsExist'
  BY <1>2, <1>3, EndpointsKept, TypeParts DEF GraphOK
<1> QED
  BY <1>2, <1>4, AcyclicShrink DEF GraphOK, SupersedesAcyclic

\* A step that leaves the relations alone and deletes no memory.
LEMMA SameRelsGraph ==
  ASSUME TypeOK, GraphOK, rels' = rels,
         \A k \in Keys : Exists(k) => mem'[k] # NoMemory
  PROVE  GraphOK'
  BY EndpointsKept, TypeParts DEF GraphOK, SupersedesAcyclic

LEMMA ArchiveGraph ==
  ASSUME TypeOK, GraphOK, NEW k \in Keys, NEW r \in UserReasons \cup {NoReason},
         NEW later \in BOOLEAN, Archive(k, r, later)
  PROVE  GraphOK'
<1>1. mem[k] \in Row /\ mem \in Memories
  BY RowOf, TypeParts DEF Archive, Exists
<1>2. [mem EXCEPT ![k].archived = TRUE, ![k].reason = r][k] \in Row
  BY <1>1 DEF Memories, Row, Reasons
<1>3. \A j \in Keys : Exists(j) => mem'[j] # NoMemory
  BY <1>1, <1>2, SentinelsAssumption DEF Archive, Exists, Memories
<1> QED
  BY <1>3, SameRelsGraph DEF Archive

LEMMA UnarchiveGraph ==
  ASSUME TypeOK, GraphOK, NEW k \in Keys, Unarchive(k)
  PROVE  GraphOK'
<1>1. mem[k] \in Row /\ mem \in Memories
  BY RowOf, TypeParts DEF Unarchive, Exists
<1>2. [mem EXCEPT ![k].archived = FALSE, ![k].reason = NoReason][k] \in Row
  BY <1>1 DEF Memories, Row, Reasons
<1>3. \A j \in Keys : Exists(j) => mem'[j] # NoMemory
  BY <1>1, <1>2, SentinelsAssumption DEF Unarchive, Exists, Memories
<1> QED
  BY <1>3, SameRelsGraph DEF Unarchive

LEMMA DelGraph ==
  ASSUME TypeOK, GraphOK, NEW k \in Keys, Del(k)
  PROVE  GraphOK'
<1>1. \A e \in rels' : e \in rels /\ e[1] # k /\ e[3] # k
  BY DEF Del, RelationsWithout
<1>2. \A j \in Keys : j # k => mem'[j] = mem[j]
  BY TypeParts DEF Del, Memories
<1>3. \A e \in rels : e[1] \in Keys /\ e[3] \in Keys
  BY TypeParts DEF Rel
<1>4. SupersedesEndpointsExist'
  BY <1>1, <1>2, <1>3 DEF GraphOK, SupersedesEndpointsExist, Exists
<1> QED
  BY <1>1, <1>4, AcyclicShrink DEF GraphOK, SupersedesAcyclic

LEMMA RelateGraph ==
  ASSUME TypeOK, GraphOK, NEW s \in Keys, NEW ty \in RelTypes, NEW t \in Keys, Relate(s, ty, t)
  PROVE  GraphOK'
<1>1. rels' = rels \cup {<<s, ty, t>>} /\ rels \subseteq Rel /\ mem \in Memories
  BY TypeParts DEF Relate
<1>2. \A k \in Keys : Exists(k) => mem'[k] # NoMemory
  <2> DEFINE targets == IF ty = "supersedes" THEN {t} ELSE {}
  <2>1. mem' = Superseded(mem, s, targets)
    BY DEF Relate
  <2> HIDE DEF targets
  <2> QED
    BY <1>1, <2>1, SupersededKeeps DEF Exists
<1>3. SupersedesEndpointsExist'
  <2>1. mem'[s] # NoMemory /\ mem'[t] # NoMemory
    BY <1>2 DEF Relate
  <2>2. \A e \in rels' : e \in rels \/ (e[1] = s /\ e[3] = t)
    BY <1>1
  <2> QED
    BY <1>1, <1>2, <2>1, <2>2, EndpointsKept DEF GraphOK
<1>4. CASE ty = "supersedes"
  <2>1. s \notin Reached({t})
    BY <1>4 DEF Relate, Reached
  <2>2. \A e \in rels' : e \in rels \/ (e[1] = s /\ e[3] \in Reached({t}))
    BY <1>1, ReachedClosed
  <2>3. Reached({t}) \in SUBSET Keys
    BY DEF Reached
  <2>4. AcyclicRels(rels')
    BY <1>1, <2>1, <2>2, <2>3, ReachedClosed, AcyclicExtend DEF GraphOK, SupersedesAcyclic
  <2> QED
    BY <1>3, <2>4 DEF GraphOK, SupersedesAcyclic, AcyclicRels
<1>5. CASE ty # "supersedes"
  <2>1. \A e \in rels' : e[2] = "supersedes" => e \in rels
    BY <1>1, <1>5
  <2>2. AcyclicRels(rels')
    BY <2>1, AcyclicShrink DEF GraphOK, SupersedesAcyclic
  <2> QED
    BY <1>3, <2>2 DEF GraphOK, SupersedesAcyclic, AcyclicRels
<1> QED
  BY <1>4, <1>5

LEMMA CaptureGraph ==
  ASSUME TypeOK, GraphOK, NEW c \in Commits, NEW x \in Summaries \cup {NoSession},
         CaptureEntity(c, x)
  PROVE  GraphOK'
<1> DEFINE targets == {r[2] : r \in {p \in c.rels : p[1] = "supersedes"}}
           upserted == [mem EXCEPT ![c.key] =
                          [text |-> c.text, anchor |-> c.anchor,
                           archived |-> FALSE, reason |-> NoReason]]
           C == Reached(targets)
<1>1. /\ c.key \in Keys /\ c.text \in Texts /\ c.anchor \in Anchors
      /\ c.rels \subseteq RelTypes \X Keys
  BY InputsAssumption DEF Commit
<1>2. targets \subseteq Keys /\ rels \subseteq Rel /\ mem \in Memories
  BY <1>1, TypeParts
<1>3. rels' = rels \cup {<<c.key, r[1], r[2]>> : r \in c.rels}
  BY DEF CaptureEntity
<1>4. \A e \in rels' : e[2] = "supersedes" => e \in rels \/ (e[1] = c.key /\ e[3] \in targets)
  BY <1>1, <1>3
<1>5. \A t \in targets : t # c.key /\ Exists(t) /\ ~Reaches(t, c.key)
  BY DEF CaptureEntity
<1>6. /\ upserted \in Memories
      /\ upserted[c.key] # NoMemory
      /\ \A k \in Keys : Exists(k) => upserted[k] # NoMemory
  <2>1. [text |-> c.text, anchor |-> c.anchor, archived |-> FALSE, reason |-> NoReason] \in Row
    BY <1>1 DEF Row, Reasons
  <2> QED
    BY <1>1, <1>2, <2>1, SentinelsAssumption DEF Memories, Exists
<1>7. /\ \A k \in Keys : Exists(k) => mem'[k] # NoMemory
      /\ mem'[c.key] # NoMemory
  <2>1. mem' = Superseded(upserted, c.key, targets)
    BY DEF CaptureEntity
  <2> HIDE DEF upserted, targets
  <2> QED
    BY <1>1, <1>6, <2>1, SupersededKeeps
<1>8. SupersedesEndpointsExist'
  <2>1. \A t \in targets : mem'[t] # NoMemory
    BY <1>2, <1>5, <1>7
  <2> HIDE DEF targets
  <2> QED
    BY <1>2, <1>4, <1>7, <2>1, EndpointsKept DEF GraphOK
<1>9. AcyclicRels(rels')
  <2>1. c.key \notin C /\ C \in SUBSET Keys
    BY <1>5 DEF Reached
  <2>2. /\ targets \subseteq C
        /\ \A e \in rels : e[2] = "supersedes" /\ e[1] \in C => e[3] \in C
    <3> HIDE DEF targets
    <3> QED
      BY <1>2, ReachedClosed
  <2>3. \A e \in rels' : e[2] = "supersedes" => e \in rels \/ (e[1] = c.key /\ e[3] \in C)
    BY <1>4, <2>2
  <2> HIDE DEF C, targets
  <2> QED
    BY <1>1, <2>1, <2>2, <2>3, AcyclicExtend DEF GraphOK, SupersedesAcyclic
<1> QED
  BY <1>8, <1>9 DEF GraphOK, SupersedesAcyclic, AcyclicRels

LEMMA RepairGraph ==
  ASSUME TypeOK, GraphOK, NEW later \in BOOLEAN, RepairZombies(later)
  PROVE  GraphOK'
<1> DEFINE reported == {z.key : z \in zombies}
           report(k) == CHOOSE z \in zombies : z.key = k
<1>1. mem' = [k \in Keys |-> IF k \in reported /\ Exists(k)
                             THEN RepairedRow(mem[k], report(k)) ELSE mem[k]]
  BY DEF RepairZombies
<1>2. \A k \in reported : report(k).remaining \in Anchors
  <2>1. \A k \in reported : report(k) \in Zombie
    BY TypeParts
  <2> HIDE DEF reported, report
  <2> QED
    BY <2>1 DEF Zombie
<1>3. ASSUME NEW k \in Keys, Exists(k) PROVE mem'[k] # NoMemory
  <2>1. mem[k] \in Row
    BY <1>3, RowOf, TypeParts DEF Exists
  <2>2. CASE k \in reported
    <3>1. RepairedRow(mem[k], report(k)) # NoMemory
      <4> HIDE DEF reported, report
      <4> QED
        BY <1>2, <2>1, <2>2, RepairedKeeps
    <3> HIDE DEF reported, report
    <3> QED
      BY <1>1, <1>3, <2>2, <3>1
  <2>3. CASE k \notin reported
    <3> HIDE DEF reported, report
    <3> QED
      BY <1>1, <1>3, <2>3 DEF Exists
  <2> QED
    BY <2>2, <2>3
<1>4. rels' = rels
  BY DEF RepairZombies
<1> QED
  BY <1>3, <1>4, SameRelsGraph

\* The import puts the file's graph in place; into an empty store it adds
\* the file's graph to relations none of which is a supersedes edge.
LEMMA SyncGraph ==
  ASSUME GuardedInputs, TypeOK, GraphOK, NEW f \in ImportFiles, NEW accept \in BOOLEAN,
         SyncImport(f, accept)
  PROVE  GraphOK'
<1>1. mem' = [k \in Keys |-> IF k \in DOMAIN f.rules THEN f.rules[k] ELSE NoMemory]
  BY DEF SyncImport, SyncEmpty, SyncDiff
<1>2. \A e \in rels' : e[2] = "supersedes" => e \in f.rels
  <2>1. CASE SyncEmpty(f)
    <3>1. rels' = rels \cup f.rels /\ StoreEmpty
      BY <2>1 DEF SyncEmpty
    <3>2. \A e \in rels : e[1] \in Keys
      BY TypeParts DEF Rel
    <3>3. \A e \in rels : e[2] # "supersedes"
      BY <3>1, <3>2 DEF GraphOK, SupersedesEndpointsExist, StoreEmpty
    <3> QED
      BY <3>1, <3>3
  <2>2. CASE SyncDiff(f)
    BY <2>2 DEF SyncDiff
  <2> QED
    BY <2>1, <2>2 DEF SyncImport
<1>3. AcyclicRels(rels')
  BY <1>2, AcyclicShrink DEF GuardedInputs
<1>4. SupersedesEndpointsExist'
  <2>1. \A k \in DOMAIN f.rules : k \in Keys /\ f.rules[k] # NoMemory
    BY FileFacts, SentinelsAssumption
  <2>2. \A k \in DOMAIN f.rules : mem'[k] # NoMemory
    BY <1>1, <2>1
  <2>3. \A e \in f.rels : e[2] = "supersedes" => {e[1], e[3]} \subseteq DOMAIN f.rules
    BY DEF GuardedInputs
  <2> QED
    BY <1>2, <2>2, <2>3 DEF SupersedesEndpointsExist, Exists
<1> QED
  BY <1>3, <1>4 DEF GraphOK, SupersedesAcyclic, AcyclicRels

----------------------------------------------------------------------------
LEMMA InitGraph == Init => GraphOK
  BY DEF Init, GraphOK, SupersedesAcyclic, SupersedesEndpointsExist, AcyclicRels

LEMMA NextGraph ==
  ASSUME GuardedInputs
  PROVE  TypeOK /\ GraphOK /\ [Next]_vars => GraphOK'
<1> SUFFICES ASSUME TypeOK, GraphOK, [Next]_vars PROVE GraphOK'
  OBVIOUS
<1>1. ASSUME NEW b \in Batches, SetBatch(b) PROVE GraphOK'
  BY <1>1, SetBatchGraph
<1>2. ASSUME NEW k \in Keys, NEW r \in UserReasons \cup {NoReason}, NEW later \in BOOLEAN,
             Archive(k, r, later)
      PROVE  GraphOK'
  BY <1>2, ArchiveGraph
<1>3. ASSUME NEW k \in Keys, Unarchive(k) PROVE GraphOK'
  BY <1>3, UnarchiveGraph
<1>4. ASSUME NEW k \in Keys, Del(k) PROVE GraphOK'
  BY <1>4, DelGraph
<1>5. ASSUME NEW s \in Keys, NEW t \in Keys, NEW ty \in RelTypes, Relate(s, ty, t) PROVE GraphOK'
  BY <1>5, RelateGraph
<1>6. ASSUME NEW e \in rels, Unrelate(e) PROVE GraphOK'
  <2>1. mem' = mem /\ rels' \subseteq rels
    BY <1>6 DEF Unrelate
  <2>2. AcyclicRels(rels')
    BY <2>1, AcyclicShrink DEF GraphOK, SupersedesAcyclic
  <2> QED
    BY <2>1, <2>2 DEF GraphOK, SupersedesAcyclic, AcyclicRels, SupersedesEndpointsExist, Exists
<1>7. ASSUME NEW k \in Keys, NEW t \in {"reviewed", "untrusted"}, SetTrust(k, t) PROVE GraphOK'
  BY <1>7, SameRelsGraph DEF SetTrust, Exists
<1>8. ASSUME NEW x \in Summaries, SessionAdd(x) PROVE GraphOK'
  BY <1>8, SameRelsGraph DEF SessionAdd, Exists
<1>9. ASSUME NEW c \in Commits, NEW x \in Summaries \cup {NoSession}, CaptureEntity(c, x)
      PROVE  GraphOK'
  BY <1>9, CaptureGraph
<1>10. ASSUME NEW missing \in Anchors \ {{}}, ScanZombies(missing) PROVE GraphOK'
  BY <1>10, SameRelsGraph DEF ScanZombies, Exists
<1>11. ASSUME NEW later \in BOOLEAN, RepairZombies(later) PROVE GraphOK'
  BY <1>11, RepairGraph
<1>12. ASSUME NEW f \in ImportFiles, NEW accept \in BOOLEAN, SyncImport(f, accept) PROVE GraphOK'
  BY <1>12, SyncGraph
<1>13. CASE SemanticRebuild \/ DropReport
  BY <1>13, SameRelsGraph DEF SemanticRebuild, DropReport, Exists
<1>14. CASE UNCHANGED vars
  BY <1>14, SameRelsGraph DEF vars, Exists
<1> QED
  BY <1>1, <1>2, <1>3, <1>4, <1>5, <1>6, <1>7, <1>8, <1>9, <1>10, <1>11, <1>12, <1>13, <1>14
  DEF Next

\* For guarded inputs no memory ever supersedes itself through a chain, and
\* both ends of every supersedes edge exist ("both endpoints must exist,
\* cycles are rejected", README.md:174).
THEOREM GraphCorrect ==
  ASSUME GuardedInputs
  PROVE  Spec => [](SupersedesAcyclic /\ SupersedesEndpointsExist)
<1>1. Init => TypeOK /\ GraphOK
  BY InitTypeOK, InitGraph
<1>2. TypeOK /\ GraphOK /\ [Next]_vars => (TypeOK /\ GraphOK)'
  BY NextTypeOK, NextGraph
<1>3. TypeOK /\ GraphOK => SupersedesAcyclic /\ SupersedesEndpointsExist
  BY DEF GraphOK
<1> QED
  BY <1>1, <1>2, <1>3, PTL DEF Spec
=============================================================================
