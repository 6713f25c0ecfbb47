-------------------------- MODULE McpServerProofs --------------------------
(***************************************************************************)
(* Proofs about McpServer and the Registry that it extends, for any        *)
(* checkouts, paths, requests and bounds.  The inductive invariant Inv     *)
(* says of the registry that it lists well-formed records, most recent     *)
(* first and none from the future, of checkouts of which no two are at one *)
(* path; of the server that the stores it keeps are of the checkouts at    *)
(* their paths if nothing moved since it started, and that it replies to   *)
(* requests or with errors of its own.                                     *)
(***************************************************************************)
EXTENDS McpServer, FilteringProofs, FiniteSetTheorems

----------------------------------------------------------------------------
(* Lists: prefixes, insertion and removal.                                 *)

LEMMA PrefixCount ==
  ASSUME NEW n \in Nat, NEW S \in SUBSET 1..n,
         \A i \in S : \A j \in 1..i : j \in S
  PROVE  Cardinality(S) \in 0..n /\ S = 1..Cardinality(S)
<1> DEFINE T == {i \in Nat : i >= 1 /\ i \notin S}
<1>1. T \in SUBSET Nat /\ n + 1 \in T
  OBVIOUS
<1>2. PICK m \in T : \A x \in T : m <= x
  BY <1>1, LeastElement
<1>3. S = 1..m - 1
  <2>1. m \in Nat /\ m >= 1 /\ m \notin S
    OBVIOUS
  <2>2. \A j \in 1..m - 1 : j \in S
    BY <1>2, <2>1
  <2>3. \A i \in S : i \in 1..m - 1
    <3> SUFFICES ASSUME NEW i \in S, i >= m PROVE FALSE
      BY <2>1
    <3>1. m \in 1..i
      BY <2>1
    <3> QED
      BY <2>1, <3>1
  <2> QED
    BY <2>2, <2>3
<1>4. m - 1 \in 0..n
  BY <1>1, <1>2
<1>5. Cardinality(1..m - 1) = m - 1
  <2> DEFINE k == m - 1
  <2>1. k \in Nat /\ 1 \in Int
    BY <1>4
  <2> HIDE DEF k
  <2>2. Cardinality(1..k) = IF 1 > k THEN 0 ELSE k - 1 + 1
    BY <2>1, FS_Interval
  <2>3. Cardinality(1..k) = k
    BY <2>1, <2>2
  <2> QED
    BY <2>3 DEF k
<1> QED
  BY <1>3, <1>4, <1>5

LEMMA InsertFacts ==
  ASSUME NEW A, NEW s \in Seq(A), NEW e \in A, NEW i \in 1..Len(s) + 1
  PROVE  /\ InsertAt(s, i, e) \in Seq(A)
         /\ Len(InsertAt(s, i, e)) = Len(s) + 1
         /\ \A j \in 1..Len(s) + 1 :
              InsertAt(s, i, e)[j] = IF j < i THEN s[j] ELSE IF j = i THEN e ELSE s[j - 1]
<1> DEFINE f == SubSeq(s, 1, i - 1)
           g == SubSeq(s, i, Len(s))
           h == f \o <<e>>
<1>0. Len(s) \in Nat /\ i \in Nat
  OBVIOUS
<1>1. f \in Seq(A) /\ Len(f) = i - 1 /\ \A j \in 1..i - 1 : f[j] = s[j]
  OBVIOUS
<1>2. g \in Seq(A) /\ Len(g) = Len(s) - i + 1 /\ \A j \in 1..Len(s) - i + 1 : g[j] = s[i + j - 1]
  OBVIOUS
<1>3. <<e>> \in Seq(A) /\ Len(<<e>>) = 1 /\ <<e>>[1] = e
  OBVIOUS
<1> HIDE DEF f, g
<1>4. h \in Seq(A) /\ Len(h) = i /\ \A j \in 1..i : h[j] = IF j < i THEN s[j] ELSE e
  BY <1>1, <1>3
<1>5. InsertAt(s, i, e) = h \o g
  BY DEF InsertAt, f, g
<1> HIDE DEF h
<1>6. h \o g \in Seq(A) /\ Len(h \o g) = Len(s) + 1
  BY <1>2, <1>4
<1>7. ASSUME NEW j \in 1..Len(s) + 1
      PROVE  (h \o g)[j] = IF j < i THEN s[j] ELSE IF j = i THEN e ELSE s[j - 1]
  <2>1. CASE j <= i
    <3>1. (h \o g)[j] = h[j]
      BY <1>0, <1>2, <1>4, <2>1, ConcatFacts
    <3> QED
      BY <1>0, <1>4, <2>1, <3>1
  <2>2. CASE j > i
    <3>1. j - i \in 1..Len(s) - i + 1 /\ i + (j - i) - 1 = j - 1 /\ i + (j - i) = j
      BY <1>0, <2>2
    <3>2. (h \o g)[j] = g[j - i]
      BY <1>2, <1>4, <3>1, ConcatFacts
    <3> QED
      BY <1>2, <2>2, <3>1, <3>2
  <2>3. j <= i \/ j > i
    BY <1>0
  <2> QED
    BY <2>1, <2>2, <2>3
<1> QED
  BY <1>5, <1>6, <1>7

LEMMA RemoveFacts ==
  ASSUME NEW A, NEW s \in Seq(A), NEW i \in 1..Len(s)
  PROVE  /\ RemoveAt(s, i) \in Seq(A)
         /\ Len(RemoveAt(s, i)) = Len(s) - 1
         /\ \A j \in 1..Len(s) - 1 : RemoveAt(s, i)[j] = IF j < i THEN s[j] ELSE s[j + 1]
<1> DEFINE f == SubSeq(s, 1, i - 1)
           g == SubSeq(s, i + 1, Len(s))
<1>0. Len(s) \in Nat /\ i \in Nat
  OBVIOUS
<1>1. f \in Seq(A) /\ Len(f) = i - 1 /\ \A j \in 1..i - 1 : f[j] = s[j]
  OBVIOUS
<1>2. g \in Seq(A) /\ Len(g) = Len(s) - i /\ \A j \in 1..Len(s) - i : g[j] = s[i + j]
  OBVIOUS
<1>3. RemoveAt(s, i) = f \o g
  BY DEF RemoveAt
<1> HIDE DEF f, g
<1>4. f \o g \in Seq(A) /\ Len(f \o g) = Len(s) - 1
  <2>0. f \in Seq(A) /\ g \in Seq(A)
    BY <1>1, <1>2
  <2>1. f \o g \in Seq(A) /\ Len(f \o g) = Len(f) + Len(g)
    BY <2>0
  <2> QED
    BY <1>0, <1>1, <1>2, <2>1
<1>5. ASSUME NEW j \in 1..Len(s) - 1
      PROVE  (f \o g)[j] = IF j < i THEN s[j] ELSE s[j + 1]
  <2>1. CASE j < i
    <3>1. j \in 1..i - 1
      BY <1>0, <2>1
    <3>2. (f \o g)[j] = f[j]
      BY <1>1, <1>2, <3>1, ConcatFacts
    <3> QED
      BY <1>1, <2>1, <3>1, <3>2
  <2>2. CASE j >= i
    <3> DEFINE k == j - (i - 1)
    <3>1. k \in 1..Len(s) - i /\ i + k = j + 1 /\ j = i - 1 + k
      BY <1>0, <2>2
    <3> HIDE DEF k
    <3>2. (f \o g)[j] = g[k]
      BY <1>1, <1>2, <3>1, ConcatFacts
    <3> QED
      BY <1>2, <2>2, <3>1, <3>2
  <2>3. j < i \/ j >= i
    BY <1>0
  <2> QED
    BY <2>1, <2>2, <2>3
<1> QED
  BY <1>3, <1>4, <1>5

LEMMA InsertSet ==
  ASSUME NEW A, NEW s \in Seq(A), NEW e \in A, NEW i \in 1..Len(s) + 1
  PROVE  ToSet(InsertAt(s, i, e)) = ToSet(s) \cup {e}
<1> DEFINE t == InsertAt(s, i, e)
<1>0. Len(s) \in Nat
  OBVIOUS
<1>1. /\ t \in Seq(A) /\ Len(t) = Len(s) + 1
      /\ \A j \in 1..Len(s) + 1 : t[j] = IF j < i THEN s[j] ELSE IF j = i THEN e ELSE s[j - 1]
  BY <1>0, InsertFacts, SMTT(30)
<1> HIDE DEF t
<1>2. DOMAIN s = 1..Len(s) /\ DOMAIN t = 1..Len(s) + 1
  BY <1>0, <1>1
<1>3. e \in ToSet(t)
  BY <1>0, <1>1, <1>2 DEF ToSet
<1>4. ASSUME NEW k \in 1..Len(s) PROVE s[k] \in ToSet(t)
  <2>1. CASE k < i
    <3>1. k \in 1..Len(s) + 1 /\ t[k] = s[k]
      BY <1>0, <1>1, <2>1
    <3> QED
      BY <1>2, <3>1 DEF ToSet
  <2>2. CASE k >= i
    <3>1. k + 1 \in 1..Len(s) + 1 /\ t[k + 1] = s[k]
      BY <1>0, <1>1, <2>2
    <3> QED
      BY <1>2, <3>1 DEF ToSet
  <2>3. k < i \/ k >= i
    BY <1>0
  <2> QED
    BY <2>1, <2>2, <2>3
<1>5. ASSUME NEW j \in 1..Len(s) + 1 PROVE t[j] \in ToSet(s) \cup {e}
  <2>1. t[j] = e \/ \E k \in 1..Len(s) : t[j] = s[k]
    <3>1. CASE j < i
      BY <1>0, <1>1, <3>1
    <3>2. CASE j > i
      <4>1. j - 1 \in 1..Len(s) /\ t[j] = s[j - 1]
        BY <1>0, <1>1, <3>2
      <4> QED
        BY <4>1
    <3>3. CASE j = i
      BY <1>1, <3>3
    <3> QED
      BY <1>0, <3>1, <3>2, <3>3
  <2> QED
    BY <1>2, <2>1 DEF ToSet
<1> QED
  BY <1>2, <1>3, <1>4, <1>5 DEF ToSet, t

LEMMA RemoveSet ==
  ASSUME NEW A, NEW s \in Seq(A), NEW i \in 1..Len(s)
  PROVE  /\ ToSet(RemoveAt(s, i)) \subseteq ToSet(s)
         /\ ToSet(s) \subseteq ToSet(RemoveAt(s, i)) \cup {s[i]}
<1> DEFINE t == RemoveAt(s, i)
<1>0. Len(s) \in Nat
  OBVIOUS
<1>1. /\ t \in Seq(A) /\ Len(t) = Len(s) - 1
      /\ \A j \in 1..Len(s) - 1 : t[j] = IF j < i THEN s[j] ELSE s[j + 1]
  BY RemoveFacts, Zenon
<1> HIDE DEF t
<1>2. DOMAIN s = 1..Len(s) /\ DOMAIN t = 1..Len(s) - 1
  BY <1>1
<1>3. ASSUME NEW j \in 1..Len(s) - 1 PROVE t[j] \in ToSet(s)
  BY <1>0, <1>1, <1>2 DEF ToSet
<1>4. ASSUME NEW k \in 1..Len(s), k # i PROVE s[k] \in ToSet(t)
  <2>1. CASE k < i
    <3>1. k \in 1..Len(s) - 1 /\ t[k] = s[k]
      BY <1>0, <1>1, <2>1
    <3> QED
      BY <1>2, <3>1 DEF ToSet
  <2>2. CASE k > i
    <3>1. k - 1 \in 1..Len(s) - 1 /\ t[k - 1] = s[k]
      BY <1>0, <1>1, <2>2
    <3> QED
      BY <1>2, <3>1 DEF ToSet
  <2>3. k < i \/ k > i
    BY <1>0, <1>4
  <2> QED
    BY <2>1, <2>2, <2>3
<1> QED
  BY <1>2, <1>3, <1>4 DEF ToSet, t

----------------------------------------------------------------------------
(* The records.                                                            *)

Remotes == {RemoteOf[c] : c \in Checkouts}
Record == [id : Remotes \X Paths, path : Paths, remote : Remotes, accessed : Nat]

\* The most recent first.
Sorted(s) == \A i, j \in 1..Len(s) : i < j => s[i].accessed >= s[j].accessed

LEMMA SortedInsert ==
  ASSUME NEW s \in Seq(Record), NEW e \in Record, NEW f \in 0..Len(s), Sorted(s),
         \A i \in 1..Len(s) :
           IF i <= f THEN s[i].accessed >= e.accessed ELSE s[i].accessed <= e.accessed
  PROVE  Sorted(InsertAt(s, f + 1, e))
<1> DEFINE t == InsertAt(s, f + 1, e)
           a(i) == IF i < f + 1 THEN s[i].accessed
                   ELSE IF i = f + 1 THEN e.accessed ELSE s[i - 1].accessed
<1>0. Len(s) \in Nat /\ f + 1 \in 1..Len(s) + 1 /\ f \in Nat
  OBVIOUS
<1>1. /\ Len(t) = Len(s) + 1
      /\ \A j \in 1..Len(s) + 1 :
           t[j] = IF j < f + 1 THEN s[j] ELSE IF j = f + 1 THEN e ELSE s[j - 1]
  BY <1>0, InsertFacts, SMTT(30)
<1>2. \A i \in 1..Len(s) : s[i].accessed \in Nat
  <2>1. \A i \in 1..Len(s) : s[i] \in Record
    OBVIOUS
  <2> QED
    BY <2>1 DEF Record
<1>3. e.accessed \in Nat
  BY DEF Record
<1> HIDE DEF t
<1>4. ASSUME NEW i \in 1..Len(s) + 1, NEW j \in 1..Len(s) + 1, i < j
      PROVE  a(i) >= a(j)
  <2>0. i \in Nat /\ j \in Nat /\ f + 1 \in Nat
    BY <1>0
  <2>1. CASE j < f + 1
    <3>1. i \in 1..Len(s) /\ j \in 1..Len(s)
      BY <1>0, <1>4, <2>0, <2>1
    <3> QED
      BY <1>4, <2>0, <2>1, <3>1 DEF Sorted
  <2>2. CASE j = f + 1
    <3>1. i \in 1..Len(s) /\ i <= f
      BY <1>0, <1>4, <2>0, <2>2
    <3> QED
      BY <1>0, <1>4, <2>0, <2>2, <3>1
  <2>3. CASE j > f + 1 /\ i < f + 1
    <3>1. i \in 1..Len(s) /\ j - 1 \in 1..Len(s) /\ i < j - 1
      BY <1>0, <1>4, <2>0, <2>3
    <3> QED
      BY <2>0, <2>3, <3>1 DEF Sorted
  <2>4. CASE j > f + 1 /\ i = f + 1
    <3>1. j - 1 \in 1..Len(s) /\ ~(j - 1 <= f)
      BY <1>0, <1>4, <2>0, <2>4
    <3>2. s[j - 1].accessed <= e.accessed
      BY <3>1
    <3>3. a(i) = e.accessed /\ a(j) = s[j - 1].accessed
      BY <1>0, <2>0, <2>4
    <3> QED
      BY <1>2, <1>3, <3>1, <3>2, <3>3
  <2>5. CASE j > f + 1 /\ i > f + 1
    <3>1. i - 1 \in 1..Len(s) /\ j - 1 \in 1..Len(s) /\ i - 1 < j - 1
      BY <1>0, <1>4, <2>0, <2>5
    <3>2. s[i - 1].accessed >= s[j - 1].accessed
      BY <3>1 DEF Sorted
    <3>3. a(i) = s[i - 1].accessed /\ a(j) = s[j - 1].accessed
      BY <1>0, <2>0, <2>5
    <3> QED
      BY <3>2, <3>3
  <2> QED
    BY <1>4, <2>0, <2>1, <2>2, <2>3, <2>4, <2>5
<1>5. ASSUME NEW i \in 1..Len(s) + 1 PROVE t[i].accessed = a(i)
  <2>1. t[i] = IF i < f + 1 THEN s[i] ELSE IF i = f + 1 THEN e ELSE s[i - 1]
    BY <1>1
  <2> QED
    BY <2>1
<1> HIDE DEF a
<1> QED
  BY <1>1, <1>4, <1>5 DEF Sorted, t

LEMMA SortedRemove ==
  ASSUME NEW s \in Seq(Record), NEW k \in 1..Len(s), Sorted(s)
  PROVE  Sorted(RemoveAt(s, k))
<1> DEFINE t == RemoveAt(s, k)
           at(j) == IF j < k THEN j ELSE j + 1
<1>0. Len(s) \in Nat
  OBVIOUS
<1>1. /\ Len(t) = Len(s) - 1
      /\ \A j \in 1..Len(s) - 1 : t[j] = IF j < k THEN s[j] ELSE s[j + 1]
  BY RemoveFacts, Zenon
<1> HIDE DEF t
<1>2. \A j \in 1..Len(s) - 1 : at(j) \in 1..Len(s) /\ t[j] = s[at(j)]
  BY <1>0, <1>1
<1>3. \A i, j \in 1..Len(s) - 1 : i < j => at(i) < at(j)
  BY <1>0
<1> HIDE DEF at
<1> QED
  BY <1>1, <1>2, <1>3 DEF Sorted, t

\* A list of records as the registry keeps it.
Recorded(s, now) ==
  s \in Seq(Record) /\ Sorted(s) /\ \A r \in Records(s) : r.accessed <= now

LEMMA RecordedFacts ==
  ASSUME NEW s, NEW now \in Nat, Recorded(s, now)
  PROVE  /\ Len(s) \in Nat /\ Records(s) = {s[i] : i \in 1..Len(s)} /\ Records(s) \subseteq Record
         /\ \A i \in 1..Len(s) : s[i] \in Record /\ s[i] \in Records(s)
         /\ \A later \in Nat : now <= later => Recorded(s, later)
<1>1. s \in Seq(Record) /\ Len(s) \in Nat /\ \A i \in 1..Len(s) : s[i] \in Record
  BY DEF Recorded
<1>2. Records(s) = {s[i] : i \in 1..Len(s)}
  BY <1>1 DEF Records, ToSet
<1>3. \A r \in Records(s) : r.accessed \in Nat
  BY <1>1, <1>2 DEF Record
<1> QED
  BY <1>1, <1>2, <1>3 DEF Recorded

LEMMA RecordedFiltered ==
  ASSUME NEW s, NEW now \in Nat, Recorded(s, now), NEW S
  PROVE  Recorded(Filtered(s, S), now) /\ Records(Filtered(s, S)) = Records(s) \cap S
<1> DEFINE t == Filtered(s, S)
<1>1. s \in Seq(Record)
  BY DEF Recorded
<1>2. /\ t \in Seq(Record \cap S) /\ ToSet(t) = ToSet(s) \cap S
      /\ \A j, k \in 1..Len(t) : j < k =>
           \E m, n \in 1..Len(s) : m < n /\ s[m] = t[j] /\ s[n] = t[k]
  BY <1>1, FilteredFacts
<1> HIDE DEF t
<1>3. t \in Seq(Record)
  BY <1>2
<1>4. Sorted(t)
  BY <1>2 DEF Recorded, Sorted
<1> QED
  BY <1>2, <1>3, <1>4 DEF Recorded, Records, t

\* Registering: the new record is in the list, with all others but those
\* that are of the same checkout.
LEMMA RegisteredFacts ==
  ASSUME NEW rec \in Record, Recorded(projects, clock), clock \in Nat, clock <= rec.accessed
  PROVE  /\ Recorded(Registered(rec), rec.accessed)
         /\ \E r \in Records(Registered(rec)) : r.path = rec.path
         /\ \A r \in Records(projects) : ~IsSame(r, rec) => r \in Records(Registered(rec))
<1> DEFINE n == Len(projects)
           found == {i \in DOMAIN projects : IsSame(projects[i], rec)}
           at == IF found = {} THEN n + 1 ELSE Min(found)
           rest == IF found = {} THEN projects ELSE RemoveAt(projects, at)
           S == {i \in 1..at - 1 : projects[i].accessed >= rec.accessed}
           front == Cardinality(S)
           id == IF found = {} THEN rec.id ELSE Kept(projects[at], rec)
           new == [rec EXCEPT !.id = id]
<1>0. Registered(rec) = InsertAt(rest, front + 1, new)
  BY DEF Registered
<1>1. /\ projects \in Seq(Record) /\ n \in Nat /\ DOMAIN projects = 1..n /\ Sorted(projects)
      /\ \A i \in 1..n : projects[i] \in Record /\ projects[i] \in Records(projects)
      /\ \A r \in Records(projects) : r.accessed <= clock
  BY RecordedFacts DEF Recorded
<1>2. found # {} => at \in found
  <2>1. found \in SUBSET Nat
    BY <1>1
  <2> HIDE DEF found
  <2> QED
    BY <2>1, MinFacts
<1>3. at \in 1..n + 1 /\ (found # {} => at \in 1..n /\ IsSame(projects[at], rec))
  <2>1. found # {} => at \in 1..n /\ IsSame(projects[at], rec)
    BY <1>1, <1>2
  <2>2. found = {} => at = n + 1
    OBVIOUS
  <2> HIDE DEF found, at
  <2> QED
    BY <1>1, <2>1, <2>2
<1> HIDE DEF found, at
<1>4. new \in Record /\ new.path = rec.path /\ new.accessed = rec.accessed
  <2>1. id \in Remotes \X Paths
    <3>1. found # {} => projects[at].id \in Remotes \X Paths
      BY <1>1, <1>3 DEF Record
    <3>2. rec.id \in Remotes \X Paths
      BY DEF Record
    <3> QED
      BY <3>1, <3>2 DEF Kept
  <2> HIDE DEF id
  <2> QED
    BY <2>1 DEF Record
<1> HIDE DEF n, id, new
<1>5. /\ rest \in Seq(Record) /\ Sorted(rest) /\ Len(rest) \in Nat
      /\ Len(rest) = IF found = {} THEN n ELSE n - 1
      /\ Records(rest) \subseteq Records(projects)
      /\ Records(projects) \subseteq
           Records(rest) \cup (IF found = {} THEN {} ELSE {projects[at]})
      /\ \A i \in 1..at - 1 : i \in 1..Len(rest) /\ rest[i] = projects[i]
  <2>1. CASE found = {}
    <3>1. at = n + 1
      BY <2>1 DEF at, n
    <3> QED
      BY <1>1, <2>1, <3>1 DEF n
  <2>2. CASE found # {}
    <3>1. at \in 1..Len(projects)
      BY <1>3, <2>2 DEF n
    <3>2. /\ RemoveAt(projects, at) \in Seq(Record) /\ Len(RemoveAt(projects, at)) = n - 1
          /\ \A j \in 1..n - 1 : RemoveAt(projects, at)[j] =
                                   IF j < at THEN projects[j] ELSE projects[j + 1]
      BY <1>1, <3>1, RemoveFacts DEF n
    <3>3. Sorted(RemoveAt(projects, at))
      BY <1>1, <3>1, SortedRemove
    <3>4. /\ ToSet(RemoveAt(projects, at)) \subseteq ToSet(projects)
          /\ ToSet(projects) \subseteq ToSet(RemoveAt(projects, at)) \cup {projects[at]}
      BY <1>1, <3>1, RemoveSet
    <3>5. n - 1 \in Nat /\ \A i \in 1..at - 1 : i \in 1..n - 1 /\ i < at
      BY <1>1, <1>3, <2>2
    <3>6. \A i \in 1..at - 1 : i \in 1..n - 1 /\ RemoveAt(projects, at)[i] = projects[i]
      BY <3>2, <3>5
    <3> QED
      BY <2>2, <3>2, <3>3, <3>4, <3>5, <3>6 DEF Records
  <2> QED
    BY <2>1, <2>2
<1>6. front \in 0..at - 1 /\ S = 1..front
  <2>1. at - 1 \in Nat /\ at - 1 <= n
    BY <1>1, <1>3
  <2>2. \A i \in 1..n : projects[i].accessed \in Nat
    BY <1>1 DEF Record
  <2>3. ASSUME NEW i \in S, NEW j \in 1..i PROVE j \in S
    <3>1. i \in 1..at - 1 /\ i \in 1..n /\ j \in 1..n /\ j \in 1..at - 1 /\ (j < i \/ j = i)
      BY <1>1, <2>1
    <3>2. projects[j].accessed >= projects[i].accessed
      BY <1>1, <2>2, <3>1 DEF Sorted, n
    <3>3. projects[i].accessed >= rec.accessed /\ rec.accessed \in Nat
      BY DEF Record
    <3> QED
      BY <2>2, <3>1, <3>2, <3>3
  <2>4. S \in SUBSET 1..at - 1
    OBVIOUS
  <2> HIDE DEF S
  <2> QED
    BY <2>1, <2>3, <2>4, PrefixCount
<1> HIDE DEF front
<1>7. front \in 0..Len(rest)
  BY <1>1, <1>3, <1>5, <1>6 DEF at, n
<1>8. ASSUME NEW i \in 1..Len(rest)
      PROVE  IF i <= front THEN rest[i].accessed >= new.accessed
             ELSE rest[i].accessed <= new.accessed
  <2>1. CASE i <= front
    <3>1. i \in S /\ i \in 1..at - 1
      BY <1>5, <1>6, <2>1
    <3>2. projects[i].accessed >= rec.accessed
      BY <3>1
    <3> QED
      BY <1>4, <1>5, <2>1, <3>1, <3>2
  <2>2. CASE ~(i <= front)
    <3>1. rest[i] \in Records(projects) /\ rest[i] \in Record
      BY <1>5 DEF Records, ToSet
    <3>2. rest[i].accessed <= clock /\ rest[i].accessed \in Nat /\ rec.accessed \in Nat
      BY <1>1, <3>1 DEF Record
    <3> QED
      BY <1>4, <2>2, <3>2
  <2> QED
    BY <2>1, <2>2
<1> HIDE DEF rest, S
<1>9. /\ InsertAt(rest, front + 1, new) \in Seq(Record)
      /\ Sorted(InsertAt(rest, front + 1, new))
      /\ ToSet(InsertAt(rest, front + 1, new)) = ToSet(rest) \cup {new}
  <2>1. front + 1 \in 1..Len(rest) + 1
    BY <1>5, <1>7
  <2>2. Sorted(InsertAt(rest, front + 1, new))
    BY <1>4, <1>5, <1>7, <1>8, SortedInsert
  <2>3. InsertAt(rest, front + 1, new) \in Seq(Record)
    BY <1>4, <1>5, <2>1, InsertFacts
  <2>4. ToSet(InsertAt(rest, front + 1, new)) = ToSet(rest) \cup {new}
    BY <1>4, <1>5, <2>1, InsertSet
  <2> QED
    BY <2>2, <2>3, <2>4
<1>10. \A r \in ToSet(rest) \cup {new} : r.accessed <= rec.accessed
  <2>1. \A r \in ToSet(rest) : r \in Record /\ r.accessed <= clock
    BY <1>1, <1>5 DEF Records, ToSet
  <2> QED
    BY <1>4, <2>1 DEF Record
<1> QED
  BY <1>0, <1>3, <1>4, <1>5, <1>9, <1>10 DEF Recorded, Records

----------------------------------------------------------------------------
(* The registry.                                                           *)

RegInv ==
  /\ place \in [Checkouts -> Paths \cup {Nowhere}]
  /\ \A c, d \in Checkouts : c # d /\ place[c] # Nowhere => place[c] # place[d]
  /\ ready \subseteq Checkouts
  /\ clock \in Nat /\ moves \in Nat
  /\ Recorded(projects, clock) /\ Recorded(loaded, clock)

LEMMA AtFacts ==
  ASSUME NEW p, Exists(p)
  PROVE  At(p) \in Checkouts /\ place[At(p)] = p
BY DEF Exists, At

\* Of a path there is one checkout.
LEMMA AtIsUnique ==
  ASSUME RegInv, NEW p \in Paths, NEW c \in Checkouts, place[c] = p
  PROVE  c = At(p)
<1>1. Exists(p)
  BY DEF Exists
<1>2. At(p) \in Checkouts /\ place[At(p)] = p
  BY <1>1, AtFacts
<1> QED
  BY <1>2, RegistryAssumption DEF RegInv

LEMMA RecordOfFacts ==
  ASSUME NEW p \in Paths, Exists(p), NEW now \in Nat
  PROVE  /\ RecordOf(p, now) \in Record
         /\ RecordOf(p, now).path = p /\ RecordOf(p, now).accessed = now
<1>1. RemoteOf[At(p)] \in Remotes
  BY AtFacts DEF Remotes
<1> QED
  BY <1>1 DEF RecordOf, Id, Record

LEMMA HasDbExists ==
  ASSUME RegInv, NEW p, HasDb(p)
  PROVE  Exists(p)
BY DEF RegInv, HasDb, Exists

\* A step of register, for the record of the checkout at p.
LEMMA RegisterStep ==
  ASSUME RegInv, NEW p \in Paths, Exists(p), RegisterAt(p)
  PROVE  /\ clock' \in Nat /\ clock <= clock' /\ Recorded(projects', clock')
         /\ \A r \in Records(projects) : HasDb(r.path) =>
              \E s \in Records(projects') : s.path = r.path
<1>1. PICK now \in {clock, clock + 1} : clock' = now /\ projects' = Registered(RecordOf(p, now))
  BY DEF RegisterAt
<1> DEFINE rec == RecordOf(p, now)
<1>2. clock \in Nat /\ now \in Nat /\ clock <= now /\ Recorded(projects, clock)
  BY DEF RegInv
<1>3. rec \in Record /\ rec.path = p /\ rec.accessed = now
  BY <1>2, RecordOfFacts
<1> HIDE DEF rec
<1>4. /\ Recorded(Registered(rec), rec.accessed)
      /\ \E r \in Records(Registered(rec)) : r.path = rec.path
      /\ \A r \in Records(projects) : ~IsSame(r, rec) => r \in Records(Registered(rec))
  BY <1>2, <1>3, RegisteredFacts
<1>5. projects' = Registered(rec)
  BY <1>1 DEF rec
<1>6. ASSUME NEW r \in Records(projects), HasDb(r.path)
      PROVE  \E s \in Records(projects') : s.path = r.path
  <2>1. Exists(r.path)
    BY <1>6, HasDbExists
  <2>2. CASE IsSame(r, rec)
    <3>1. r.path = rec.path
      BY <2>1, <2>2 DEF IsSame
    <3> QED
      BY <1>4, <1>5, <3>1
  <2>3. CASE ~IsSame(r, rec)
    BY <1>4, <1>5, <2>3
  <2> QED
    BY <2>2, <2>3
<1> QED
  BY <1>1, <1>2, <1>3, <1>4, <1>5, <1>6

LEMMA RegistryStart ==
  ASSUME RegistryInit
  PROVE  RegInv
<1>1. <<>> \in Seq(Record) /\ Records(<<>>) = {} /\ Len(<<>>) = 0
  BY DEF Records, ToSet
<1>2. Recorded(<<>>, 0)
  BY <1>1 DEF Recorded, Sorted
<1> QED
  BY <1>2 DEF RegistryInit, RegInv

LEMMA RegistryStep ==
  ASSUME RegInv, RegistryNext
  PROVE  RegInv' /\ moves' >= moves /\ (moves' = moves => place' = place)
<1>1. ASSUME NEW c \in Checkouts, NEW p \in Paths \cup {Nowhere}, Move(c, p)
      PROVE  RegInv' /\ moves' >= moves /\ (moves' = moves => place' = place)
  <2>1. place' \in [Checkouts -> Paths \cup {Nowhere}]
    BY <1>1 DEF Move, RegInv
  <2>2. ASSUME NEW a \in Checkouts, NEW b \in Checkouts, a # b, place'[a] # Nowhere
        PROVE  place'[a] # place'[b]
    BY <1>1, <2>2 DEF Move, RegInv, Exists
  <2> QED
    BY <1>1, <2>1, <2>2 DEF Move, RegInv
<1>2. ASSUME NEW p \in Paths, InitProject(p)
      PROVE  RegInv' /\ moves' = moves /\ place' = place
  <2>1. Exists(p) /\ At(p) \in Checkouts
    BY <1>2, AtFacts DEF InitProject
  <2>2. clock' \in Nat /\ clock <= clock' /\ Recorded(projects', clock')
    BY <1>2, <2>1, RegisterStep DEF InitProject
  <2>3. Recorded(loaded, clock')
    BY <2>2, RecordedFacts DEF RegInv
  <2> QED
    BY <1>2, <2>1, <2>2, <2>3 DEF InitProject, RegInv
<1>3. ASSUME NEW p \in Paths, Register(p)
      PROVE  RegInv' /\ moves' = moves /\ place' = place
  <2>1. Exists(p)
    BY <1>3, HasDbExists DEF Register
  <2>2. clock' \in Nat /\ clock <= clock' /\ Recorded(projects', clock')
    BY <1>3, <2>1, RegisterStep DEF Register
  <2>3. Recorded(loaded, clock')
    BY <2>2, RecordedFacts DEF RegInv
  <2> QED
    BY <1>3, <2>1, <2>2, <2>3 DEF Register, RegInv
<1>4. CASE Prune
  <2>1. Recorded(projects', clock)
    BY <1>4, RecordedFiltered DEF Prune, RegInv
  <2> QED
    BY <1>4, <2>1 DEF Prune, RegInv
<1>5. ASSUME NEW x, Deregister(x)
      PROVE  RegInv' /\ moves' = moves /\ place' = place
  <2>1. Recorded(projects', clock)
    BY <1>5, RecordedFiltered DEF Deregister, RegInv
  <2> QED
    BY <1>5, <2>1 DEF Deregister, RegInv
<1>6. CASE Load
  BY <1>6 DEF Load, RegInv
<1>7. CASE Save
  BY <1>7 DEF Save, RegInv
<1>8. moves \in Nat
  BY DEF RegInv
<1>9. RegInv' /\ moves' = moves => moves' >= moves
  BY <1>8
<1> QED
  BY <1>1, <1>2, <1>3, <1>4, <1>5, <1>6, <1>7, <1>9 DEF RegistryNext, Prune, Load, Save

----------------------------------------------------------------------------
(* The server.                                                             *)

Whom == Requests \cup {TooLongError, ParseError}

Refusal == [to : Whom, kind : {"error", "too long", "parse error"}]
Service == [to : Whom, kind : {"wrote", "not found", "read"}, path : Paths,
            db : Checkouts, file : Checkouts]
Reply == Refusal \cup Service

ServerInv ==
  /\ server \in [up : BOOLEAN, draining : BOOLEAN, root : Paths \cup {None},
                 known : Seq(Record), stores : [Paths -> Checkouts \cup {None}], since : Nat]
  /\ server.since <= moves
  /\ server.since = moves =>
       \A p \in Paths : server.stores[p] # None => place[server.stores[p]] = p
  /\ output \in Seq(Reply)

Inv == RegInv /\ ServerInv

LEMMA RecordsFiltered ==
  ASSUME NEW s \in Seq(Record), NEW S
  PROVE  Filtered(s, S) \in Seq(Record) /\ Records(Filtered(s, S)) = Records(s) \cap S
<1>1. /\ Filtered(s, S) \in Seq(Record \cap S)
      /\ ToSet(Filtered(s, S)) = ToSet(s) \cap S
  BY FilteredFacts
<1> DEFINE t == Filtered(s, S)
<1>2. t \in Seq(Record \cap S)
  BY <1>1
<1> HIDE DEF t
<1>3. t \in Seq(Record)
  BY <1>2
<1> QED
  BY <1>1, <1>3 DEF Records, t

LEMMA LiveKnownFacts ==
  ASSUME ServerInv
  PROVE  /\ LiveKnown \in Seq(Record)
         /\ \A r \in Records(LiveKnown) : HasDb(r.path)
<1>1. server.known \in Seq(Record)
  BY DEF ServerInv
<1> DEFINE S == {r \in Records(server.known) : HasDb(r.path)}
<1>2. \A r \in S : HasDb(r.path)
  OBVIOUS
<1> HIDE DEF S
<1>3. Filtered(server.known, S) \in Seq(Record) /\ Records(Filtered(server.known, S)) \subseteq S
  BY <1>1, RecordsFiltered
<1>4. LiveKnown = Filtered(server.known, S)
  BY DEF LiveKnown, S
<1> QED
  BY <1>2, <1>3, <1>4

LEMMA NamedFacts ==
  ASSUME ServerInv, NEW sel
  PROVE  /\ Named(sel) \in Seq(Record)
         /\ Records(Named(sel)) = {r \in Records(LiveKnown) : sel = None \/ Answers(r, sel)}
<1>1. LiveKnown \in Seq(Record)
  BY LiveKnownFacts
<1> DEFINE S == {r \in Records(LiveKnown) : sel = None \/ Answers(r, sel)}
<1>2. S \subseteq Records(LiveKnown)
  OBVIOUS
<1>3. Named(sel) = Filtered(LiveKnown, S)
  BY DEF Named
<1> HIDE DEF S
<1>4. /\ Filtered(LiveKnown, S) \in Seq(Record)
      /\ Records(Filtered(LiveKnown, S)) = Records(LiveKnown) \cap S
  BY <1>1, RecordsFiltered
<1>5. Records(Named(sel)) = S
  BY <1>2, <1>3, <1>4
<1> QED
  BY <1>3, <1>4, <1>5 DEF S

\* The path that a tool works at: the project of the server, or the only one
\* of those it knows that answers to the name.
LEMMA ResolveFacts ==
  ASSUME ServerInv, NEW sel
  PROVE  /\ Resolve(sel) \in Paths \cup {None}
         /\ Resolve(sel) # server.root /\ Resolve(sel) # None =>
              \A r \in Records(LiveKnown) :
                r.path # Resolve(sel) => sel # None /\ ~Answers(r, sel)
<1> DEFINE named == Named(sel)
<1>1. /\ named \in Seq(Record)
      /\ Records(named) = {r \in Records(LiveKnown) : sel = None \/ Answers(r, sel)}
  BY NamedFacts
<1>2. server.root \in Paths \cup {None}
  BY DEF ServerInv
<1>3. Resolve(sel) = IF server.root # None /\ sel \in {None, server.root, NameOf[server.root]}
                     THEN server.root ELSE IF Len(named) = 1 THEN named[1].path ELSE None
  BY DEF Resolve
<1> HIDE DEF named
<1>4. Len(named) = 1 =>
        /\ named[1] \in Record /\ named[1].path \in Paths
        /\ Records(named) = {named[1]}
  <2>1. SUFFICES ASSUME Len(named) = 1
                 PROVE  named[1] \in Record /\ named[1].path \in Paths /\ Records(named) = {named[1]}
    OBVIOUS
  <2>2. named[1] \in Record /\ DOMAIN named = {1}
    BY <1>1, <2>1
  <2> QED
    BY <2>2 DEF Record, Records, ToSet
<1> QED
  BY <1>1, <1>2, <1>3, <1>4

\* The store that a tool gets at a path.
LEMMA OpenedFacts ==
  ASSUME RegInv, ServerInv, NEW p \in Paths, Opened(p) # None
  PROVE  /\ Opened(p) \in Checkouts
         /\ server.since = moves => place[Opened(p)] = p /\ Opened(p) = At(p)
<1>1. HasDb(p) /\ Exists(p)
  BY HasDbExists DEF Opened
<1>2. At(p) \in Checkouts /\ place[At(p)] = p
  BY <1>1, AtFacts
<1>3. CASE server.stores[p] # None
  <2>1. Opened(p) = server.stores[p]
    BY <1>1, <1>3 DEF Opened
  <2>2. server.stores[p] \in Checkouts
    BY <1>3 DEF ServerInv
  <2>3. server.since = moves => place[Opened(p)] = p
    BY <1>3, <2>1 DEF ServerInv
  <2> QED
    BY <2>1, <2>2, <2>3, AtIsUnique
<1>4. CASE server.stores[p] = None
  <2>1. Opened(p) = At(p)
    BY <1>1, <1>4 DEF Opened
  <2> QED
    BY <1>2, <2>1
<1> QED
  BY <1>3, <1>4

LEMMA AppendFacts ==
  ASSUME NEW A, NEW s \in Seq(A), NEW e \in A
  PROVE  /\ Append(s, e) \in Seq(A)
         /\ Append(s, e)[Len(Append(s, e))] = e
OBVIOUS

\* A tool: it refuses, or it works at the store of a path.
Told(r, done) ==
  LET p == Resolve(r.sel) IN
  [to |-> r, kind |-> done, path |-> p, db |-> Opened(p),
   file |-> IF done = "wrote" THEN At(p) ELSE Opened(p)]

Works(r, done) ==
  LET p == Resolve(r.sel) IN
  /\ p \in Paths /\ p # None /\ Opened(p) # None
  /\ server' = [server EXCEPT !.stores[p] = Opened(p)]
  /\ output' = Append(output, Told(r, done))

LEMMA WithStoreFacts ==
  ASSUME ServerInv, NEW r, NEW done, WithStore(r, done)
  PROVE  Refuse(r, "error") \/ Works(r, done)
BY ResolveFacts DEF WithStore, Works, Told, Replies

LEMMA ToldFacts ==
  ASSUME RegInv, ServerInv, NEW r \in Whom, NEW done \in {"wrote", "not found", "read"},
         Works(r, done)
  PROVE  Told(r, done) \in Reply
<1> DEFINE p == Resolve(r.sel)
           d == Opened(p)
           f == IF done = "wrote" THEN At(p) ELSE d
<1>1. p \in Paths /\ d # None
  BY DEF Works
<1>2. d \in Checkouts
  BY <1>1, OpenedFacts
<1>3. At(p) \in Checkouts
  <2>1. HasDb(p)
    BY <1>1 DEF Opened
  <2> QED
    BY <2>1, HasDbExists, AtFacts
<1>4. Told(r, done) = [to |-> r, kind |-> done, path |-> p, db |-> d, file |-> f]
  BY DEF Told
<1>5. f \in Checkouts
  BY <1>2, <1>3
<1> HIDE DEF p, d, f
<1>6. [to |-> r, kind |-> done, path |-> p, db |-> d, file |-> f] \in Service
  BY <1>1, <1>2, <1>5 DEF Service
<1> QED
  BY <1>4, <1>6 DEF Reply

LEMMA WorksFacts ==
  ASSUME RegInv, ServerInv, NEW r \in Whom, NEW done \in {"wrote", "not found", "read"},
         Works(r, done), UNCHANGED registryVars
  PROVE  ServerInv'
<1> DEFINE p == Resolve(r.sel)
           d == Opened(p)
<1>1. p \in Paths /\ d # None /\ server' = [server EXCEPT !.stores[p] = d]
  BY DEF Works
<1>2. d \in Checkouts /\ (server.since = moves => place[d] = p)
  BY <1>1, OpenedFacts
<1> HIDE DEF p, d
<1>3. output' = Append(output, Told(r, done)) /\ output \in Seq(Reply)
  BY DEF Works, ServerInv
<1>4. output' \in Seq(Reply)
  BY <1>3, ToldFacts, AppendFacts, Zenon
<1>5. /\ server' \in [up : BOOLEAN, draining : BOOLEAN, root : Paths \cup {None},
                      known : Seq(Record), stores : [Paths -> Checkouts \cup {None}],
                      since : Nat]
      /\ server'.since = server.since
      /\ server'.stores = [server.stores EXCEPT ![p] = d]
      /\ server.stores \in [Paths -> Checkouts \cup {None}]
  BY <1>1, <1>2 DEF ServerInv
<1> QED
  BY <1>1, <1>2, <1>4, <1>5 DEF ServerInv, registryVars

\* A server that has ended holds nothing.
LEMMA DownFacts ==
  ASSUME RegInv, ServerInv, UNCHANGED <<registryVars, output>>, server' = Down
  PROVE  ServerInv'
<1>1. <<>> \in Seq(Record) /\ moves \in Nat
  BY DEF RegInv
<1>2. /\ Down \in [up : BOOLEAN, draining : BOOLEAN, root : Paths \cup {None},
                   known : Seq(Record), stores : [Paths -> Checkouts \cup {None}],
                   since : Nat]
      /\ Down.since = 0 /\ Down.stores = [p \in Paths |-> None]
  BY <1>1 DEF Down
<1> QED
  BY <1>1, <1>2 DEF ServerInv, registryVars

\* What comes of a line or of a part of one.
Fails == server' = Down /\ UNCHANGED output
Turns == UNCHANGED output /\ \E b \in BOOLEAN : server' = [server EXCEPT !.draining = b]
Refuses ==
  /\ \E b \in BOOLEAN : server' = [server EXCEPT !.draining = b]
  /\ \E to \in Whom, why \in {"error", "too long", "parse error"} :
       output' = Append(output, [to |-> to, kind |-> why])
Serves ==
  \E r \in Requests, done \in {"wrote", "not found", "read"} : Works(r, done)

Outcome == Fails \/ Turns \/ Refuses \/ Serves

LEMMA SameServer ==
  ASSUME ServerInv, UNCHANGED server
  PROVE  \E b \in BOOLEAN : server' = [server EXCEPT !.draining = b]
<1>1. server.draining \in BOOLEAN /\ server' = [server EXCEPT !.draining = server.draining]
  BY DEF ServerInv
<1> QED
  BY <1>1

LEMMA RefuseFacts ==
  ASSUME ServerInv, NEW to \in Whom, NEW why \in {"error", "too long", "parse error"},
         Refuse(to, why)
  PROVE  Refuses
BY SameServer DEF Refuse, Replies, Refuses

LEMMA HandledFacts ==
  ASSUME ServerInv, NEW r \in Requests, Handled(r)
  PROVE  Outcome
<1>0. r \in Whom
  BY DEF Whom
<1>1. CASE r.kind = "mem_set"
  <2>1. MemSet(r)
    BY <1>1 DEF Handled
  <2>2. Refuse(r, "error") \/ Works(r, "wrote")
    BY <2>1, WithStoreFacts DEF MemSet
  <2> QED
    BY <1>0, <2>2, RefuseFacts DEF Outcome, Serves
<1>2. CASE r.kind = "mem_manage"
  <2>1. MemManage(r)
    BY <1>2 DEF Handled
  <2>2. Refuse(r, "error") \/ Works(r, "wrote") \/ Works(r, "not found")
    BY <2>1, WithStoreFacts DEF MemManage
  <2> QED
    BY <1>0, <2>2, RefuseFacts DEF Outcome, Serves
<1>3. CASE r.kind = "mem_find"
  <2>1. MemFind(r)
    BY <1>3 DEF Handled
  <2>2. Refuse(r, "error") \/ Works(r, "read")
    BY <2>1, WithStoreFacts DEF MemFind
  <2> QED
    BY <1>0, <2>2, RefuseFacts DEF Outcome, Serves
<1>4. CASE r.kind = "notification"
  <2>1. UNCHANGED output /\ UNCHANGED server
    BY <1>4 DEF Handled
  <2> QED
    BY <2>1, SameServer DEF Outcome, Turns
<1> QED
  BY <1>1, <1>2, <1>3, <1>4, RequestsAssumption

LEMMA TakeOutcome ==
  ASSUME ServerInv, NEW line, Take(line)
  PROVE  Outcome
<1> DEFINE last == line[Len(line)]
<1>0. TooLongError \in Whom /\ ParseError \in Whom
  BY DEF Whom
<1>1. CASE last = Lead
  BY <1>1 DEF Take, Outcome, Fails
<1>2. CASE last # Lead /\ TooLong(line) /\ last # Newline
  <2>1. server' = [server EXCEPT !.draining = TRUE] /\ UNCHANGED output
    BY <1>2 DEF Take
  <2> QED
    BY <2>1 DEF Outcome, Turns
<1>3. CASE last # Lead /\ TooLong(line) /\ last = Newline
  <2>1. Refuse(TooLongError, "too long")
    BY <1>3 DEF Take
  <2> QED
    BY <1>0, <2>1, RefuseFacts DEF Outcome
<1>4. CASE last # Lead /\ ~TooLong(line) /\ line = <<Newline>>
  <2>1. UNCHANGED output /\ UNCHANGED server
    BY <1>4 DEF Take
  <2> QED
    BY <2>1, SameServer DEF Outcome, Turns
<1>5. CASE last # Lead /\ ~TooLong(line) /\ line # <<Newline>> /\ line[1] \in Requests
  <2>1. Handled(line[1])
    BY <1>5 DEF Take
  <2> QED
    BY <1>5, <2>1, HandledFacts
<1>6. CASE last # Lead /\ ~TooLong(line) /\ line # <<Newline>> /\ line[1] \notin Requests
  <2>1. Refuse(ParseError, "parse error")
    BY <1>6 DEF Take
  <2> QED
    BY <1>0, <2>1, RefuseFacts DEF Outcome
<1> QED
  BY <1>1, <1>2, <1>3, <1>4, <1>5, <1>6

LEMMA DrainOutcome ==
  ASSUME ServerInv, Drain
  PROVE  Outcome
<1>0. TooLongError \in Whom
  BY DEF Whom
<1>1. ASSUME server' = [server EXCEPT !.draining = FALSE],
             Replies([to |-> TooLongError, kind |-> "too long"])
      PROVE  Outcome
  BY <1>0, <1>1 DEF Replies, Outcome, Refuses
<1>2. CASE DrainSome
  <2>1. PICK n \in 1..Len(wire) :
          IF NewlinesIn(n) = {} THEN UNCHANGED output /\ UNCHANGED server
          ELSE /\ server' = [server EXCEPT !.draining = FALSE]
               /\ Replies([to |-> TooLongError, kind |-> "too long"])
    BY <1>2 DEF DrainSome
  <2> QED
    BY <1>1, <2>1, SameServer DEF Outcome, Turns
<1>3. CASE DrainEnd
  BY <1>1, <1>3 DEF DrainEnd
<1> QED
  BY <1>2, <1>3 DEF Drain

LEMMA OutcomeStep ==
  ASSUME RegInv, ServerInv, Outcome, UNCHANGED registryVars
  PROVE  ServerInv'
<1>0. output \in Seq(Reply)
  BY DEF ServerInv
<1>1. ASSUME NEW b \in BOOLEAN, server' = [server EXCEPT !.draining = b],
             output' \in Seq(Reply)
      PROVE  ServerInv'
  <2>1. /\ server' \in [up : BOOLEAN, draining : BOOLEAN, root : Paths \cup {None},
                        known : Seq(Record), stores : [Paths -> Checkouts \cup {None}],
                        since : Nat]
        /\ server'.since = server.since /\ server'.stores = server.stores
    BY <1>1 DEF ServerInv
  <2> QED
    BY <1>1, <2>1 DEF ServerInv, registryVars
<1>2. CASE Fails
  BY <1>2, DownFacts DEF Fails
<1>3. CASE Turns
  BY <1>0, <1>1, <1>3 DEF Turns
<1>4. CASE Refuses
  <2>1. PICK to \in Whom, why \in {"error", "too long", "parse error"} :
          output' = Append(output, [to |-> to, kind |-> why])
    BY <1>4 DEF Refuses
  <2>2. [to |-> to, kind |-> why] \in Reply
    BY DEF Refusal, Reply
  <2>3. output' \in Seq(Reply)
    BY <1>0, <2>1, <2>2, AppendFacts, Zenon
  <2> QED
    BY <1>1, <1>4, <2>3 DEF Refuses
<1>5. CASE Serves
  BY <1>5, WorksFacts DEF Serves, Whom
<1> QED
  BY <1>2, <1>3, <1>4, <1>5 DEF Outcome

LEMMA RegInvSame ==
  ASSUME RegInv, UNCHANGED registryVars
  PROVE  RegInv'
BY DEF RegInv, registryVars, Recorded, Sorted, Records

LEMMA InvStart == Init => Inv
<1> SUFFICES ASSUME Init PROVE Inv
  OBVIOUS
<1>1. RegInv
  BY RegistryStart DEF Init
<1>2. <<>> \in Seq(Record)
  OBVIOUS
<1>3. server = Down /\ output = <<>> /\ moves = 0
  BY DEF Init, RegistryInit
<1>4. /\ Down \in [up : BOOLEAN, draining : BOOLEAN, root : Paths \cup {None},
                   known : Seq(Record), stores : [Paths -> Checkouts \cup {None}],
                   since : Nat]
      /\ Down.since = 0 /\ Down.stores = [p \in Paths |-> None]
  BY <1>2 DEF Down
<1>5. ServerInv
  BY <1>3, <1>4 DEF ServerInv
<1> QED
  BY <1>1, <1>5 DEF Inv

LEMMA InvStep == Inv /\ [Next]_vars => Inv'
<1> SUFFICES ASSUME Inv, [Next]_vars PROVE Inv'
  OBVIOUS
<1>0. RegInv /\ ServerInv
  BY DEF Inv
<1>1. CASE RegistryNext /\ UNCHANGED <<server, wire, output, client>>
  <2>1. RegInv' /\ moves' >= moves /\ (moves' = moves => place' = place)
    BY <1>0, <1>1, RegistryStep
  <2>2. ServerInv'
    <3>1. server.since \in Nat /\ moves \in Nat /\ moves' \in Nat
      BY <1>0, <2>1 DEF ServerInv, RegInv
    <3>2. server.since <= moves' /\ (server.since = moves' => moves' = moves)
      BY <1>0, <2>1, <3>1 DEF ServerInv
    <3>3. server.since = moves' =>
            \A p \in Paths : server.stores[p] # None => place'[server.stores[p]] = p
      BY <1>0, <2>1, <3>2 DEF ServerInv
    <3>4. server' = server /\ output' = output
      BY <1>1
    <3> QED
      BY <1>0, <3>2, <3>3, <3>4 DEF ServerInv
  <2> QED
    BY <2>1, <2>2 DEF Inv
<1>2. ASSUME NEW cwd \in Paths \cup {None}, Start(cwd)
      PROVE  Inv'
  <2>1. RegInv'
    BY <1>0, <1>2, RegInvSame DEF Start
  <2>2. /\ server' = [Down EXCEPT !.up = TRUE,
                        !.root = IF cwd # None /\ HasDb(cwd) THEN cwd ELSE None,
                        !.known = projects, !.since = moves]
        /\ UNCHANGED <<registryVars, wire, output, client>>
    BY <1>2 DEF Start
  <2>3. projects \in Seq(Record) /\ moves \in Nat
    BY <1>0 DEF RegInv, Recorded
  <2>4. /\ server' \in [up : BOOLEAN, draining : BOOLEAN, root : Paths \cup {None},
                        known : Seq(Record), stores : [Paths -> Checkouts \cup {None}],
                        since : Nat]
        /\ server'.since = moves /\ server'.stores = [p \in Paths |-> None]
    BY <2>2, <2>3 DEF Down
  <2>5. ServerInv'
    BY <1>0, <2>2, <2>3, <2>4 DEF ServerInv, registryVars
  <2> QED
    BY <2>1, <2>5 DEF Inv
<1>3. ASSUME NEW text, NEW last, Send(text, last)
      PROVE  Inv'
  BY <1>0, <1>3, RegInvSame DEF Inv, Send, ServerInv, registryVars
<1>4. CASE Receive
  <2>1. output \in Seq(Reply) /\ output # <<>> /\ output' = Tail(output)
    BY <1>0, <1>4 DEF Receive, ServerInv
  <2>2. output' \in Seq(Reply)
    BY <2>1
  <2> QED
    BY <1>0, <1>4, <2>2, RegInvSame DEF Inv, Receive, ServerInv, registryVars
<1>5. CASE Read
  <2>1. UNCHANGED registryVars /\ \E n \in 1..Len(wire) : Take(SubSeq(wire, 1, n))
    BY <1>5 DEF Read
  <2> QED
    BY <1>0, <2>1, RegInvSame, TakeOutcome, OutcomeStep DEF Inv
<1>6. CASE Drain
  <2>1. UNCHANGED registryVars
    BY <1>6 DEF Drain
  <2> QED
    BY <1>0, <1>6, <2>1, RegInvSame, DrainOutcome, OutcomeStep DEF Inv
<1>7. CASE Hangup
  BY <1>0, <1>7, RegInvSame, DownFacts DEF Inv, Hangup
<1>8. CASE UNCHANGED vars
  BY <1>0, <1>8, RegInvSame DEF Inv, vars, registryVars, ServerInv
<1> QED
  BY <1>1, <1>2, <1>3, <1>4, <1>5, <1>6, <1>7, <1>8 DEF Next

\* Inv holds in every state that the program can be in.
LEMMA InvCorrect == Spec => []Inv
BY InvStart, InvStep, PTL DEF Spec

\* The records are of known checkouts, none is from the future and the most
\* recent come first; what the server holds are paths and checkouts.
THEOREM RecordsCorrect == Spec => []TypeOK
<1>1. Inv => TypeOK
  <2> SUFFICES ASSUME Inv PROVE TypeOK
    OBVIOUS
  <2>0. RegInv /\ ServerInv
    BY DEF Inv
  <2>1. ASSUME NEW s, Recorded(s, clock), NEW r \in Records(s)
        PROVE  r.id[2] \in Paths /\ r.path \in Paths /\ r.accessed \in 0..clock
    <3>1. clock \in Nat
      BY <2>0 DEF RegInv
    <3>2. r \in Record /\ r.accessed <= clock
      BY <2>1, <3>1, RecordedFacts DEF Recorded
    <3> QED
      BY <3>1, <3>2 DEF Record
  <2>2. \A i \in 1..Len(projects) - 1 : projects[i].accessed >= projects[i + 1].accessed
    <3>1. Len(projects) \in Nat /\ Sorted(projects)
      BY <2>0 DEF RegInv, Recorded
    <3> QED
      BY <3>1 DEF Sorted
  <2> QED
    BY <2>0, <2>1, <2>2 DEF TypeOK, RegInv, ServerInv
<1> QED
  BY <1>1, InvCorrect, PTL

LEMMA LiveStaysStep ==
  ASSUME RegInv, RegistryNext, NEW r \in Records(projects), Live(r), place' = place,
         ~Deregister(r.id), ~Deregister(r.path)
  PROVE  \E s \in Records(projects') : s.path = r.path
<1>0. HasDb(r.path)
  BY DEF Live
<1>1. CASE projects' = projects
  BY <1>1 DEF Records
<1>2. ASSUME NEW p \in Paths, InitProject(p) \/ Register(p)
      PROVE  \E s \in Records(projects') : s.path = r.path
  <2>1. Exists(p) /\ RegisterAt(p)
    BY <1>2, HasDbExists DEF InitProject, Register
  <2> QED
    BY <1>0, <2>1, RegisterStep
<1>3. CASE Prune
  <2> DEFINE S == {q \in Records(projects) : ~Prunable(q.path)}
  <2>1. r \in S /\ projects' = Filtered(projects, S)
    BY <1>0, <1>3 DEF Prune, Prunable
  <2> HIDE DEF S
  <2>2. Records(Filtered(projects, S)) = Records(projects) \cap S
    BY RecordsFiltered DEF RegInv, Recorded
  <2>3. Records(projects') = Records(projects) \cap S
    BY <2>1, <2>2
  <2> QED
    BY <2>1, <2>3
<1>4. ASSUME NEW x, Deregister(x)
      PROVE  \E s \in Records(projects') : s.path = r.path
  <2> DEFINE S == {q \in Records(projects) : q.id # x /\ q.path # x}
  <2>1. r.id # x /\ r.path # x
    BY <1>4
  <2>2. r \in S /\ projects' = Filtered(projects, S)
    BY <1>4, <2>1 DEF Deregister
  <2> HIDE DEF S
  <2>3. Records(Filtered(projects, S)) = Records(projects) \cap S
    BY RecordsFiltered DEF RegInv, Recorded
  <2>4. Records(projects') = Records(projects) \cap S
    BY <2>2, <2>3
  <2> QED
    BY <2>2, <2>4
<1>5. CASE Save
  <2>1. PICK q \in Records(loaded) : q.path = r.path
    BY <1>5 DEF Save, MaySave
  <2> QED
    BY <1>5, <2>1 DEF Save, Records
<1> QED
  BY <1>1, <1>2, <1>3, <1>4, <1>5 DEF RegistryNext, Move, Load

\* A project that is there keeps its record, through registrations of other
\* checkouts, pruning and the saving of older lists.
THEOREM ProjectsStay == Spec => LiveProjectsStay
<1> DEFINE Step == \A r \in Records(projects) :
       Live(r) /\ place' = place =>
         \/ \E s \in Records(projects') : s.path = r.path
         \/ Deregister(r.id) \/ Deregister(r.path)
<1>1. Inv /\ [Next]_vars => [Step]_registryVars
  <2> SUFFICES ASSUME Inv, Next, ~UNCHANGED registryVars PROVE Step
    BY DEF vars
  <2>1. RegInv /\ RegistryNext
    BY DEF Inv, Next, Start, Send, Receive, Read, Drain, Hangup
  <2> QED
    BY <2>1, LiveStaysStep
<1> QED
  BY <1>1, InvCorrect, PTL DEF Spec, LiveProjectsStay

\* As long as nothing moves, a write is made to the store and the file of
\* one checkout, the only one it knows that answers to the name.
THEOREM WritesCorrect == Spec => WritesGoHome
<1> DEFINE Latest == output'[Len(output')]
           Home(r) ==
             /\ r.db = r.file
             /\ place[r.db] = r.path
             /\ r.path # server.root => \A x \in Records(LiveKnown) :
                  x.path # r.path => r.to.sel # None /\ ~Answers(x, r.to.sel)
           Step == Len(output') > Len(output) /\ Latest.kind = "wrote" /\ server.since = moves =>
                     Home(Latest)
<1>1. Inv /\ [Next]_vars => [Step]_vars
  <2> SUFFICES ASSUME Inv, Next, Len(output') > Len(output), Latest.kind = "wrote",
                      server.since = moves
               PROVE  Home(Latest)
    OBVIOUS
  <2>0. RegInv /\ ServerInv /\ output \in Seq(Reply) /\ Len(output) \in Nat
    BY DEF Inv, ServerInv
  <2>1. output' # output
    BY <2>0
  <2>2. CASE Receive
    <3>1. output # <<>> /\ output' = Tail(output)
      BY <2>2 DEF Receive
    <3>2. Len(output') = Len(output) - 1
      BY <2>0, <3>1
    <3> QED
      BY <2>0, <3>2
  <2>3. Outcome \/ Receive
    <3>1. ASSUME Read PROVE Outcome
      BY <2>0, <3>1, TakeOutcome DEF Read
    <3>2. ASSUME Drain PROVE Outcome
      BY <2>0, <3>2, DrainOutcome
    <3> QED
      BY <2>1, <3>1, <3>2 DEF Next, Start, Send, Hangup
  <2>4. CASE Refuses
    <3>1. PICK to \in Whom, why \in {"error", "too long", "parse error"} :
            output' = Append(output, [to |-> to, kind |-> why])
      BY <2>4 DEF Refuses
    <3>2. [to |-> to, kind |-> why] \in Reply
      BY DEF Refusal, Reply
    <3>3. Latest = [to |-> to, kind |-> why]
      BY <2>0, <3>1, <3>2, AppendFacts, Zenon
    <3> QED
      BY <3>3
  <2>5. ASSUME NEW r \in Requests, NEW done \in {"wrote", "not found", "read"}, Works(r, done)
        PROVE  Home(Latest)
    <3> DEFINE p == Resolve(r.sel)
    <3>1. output' = Append(output, Told(r, done)) /\ p \in Paths /\ p # None /\ Opened(p) # None
      BY <2>5 DEF Works
    <3>2. Latest = Told(r, done)
      <4>1. Told(r, done) \in Reply
        BY <2>0, <2>5, ToldFacts DEF Whom
      <4> QED
        BY <2>0, <3>1, <4>1, AppendFacts, Zenon
    <3>3. /\ Latest.to = r /\ Latest.path = p /\ Latest.db = Opened(p)
          /\ Latest.file = IF done = "wrote" THEN At(p) ELSE Opened(p)
          /\ Latest.kind = done
      BY <3>2 DEF Told
    <3>4. place[Opened(p)] = p /\ Opened(p) = At(p)
      BY <2>0, <3>1, OpenedFacts
    <3>5. p # server.root =>
            \A x \in Records(LiveKnown) : x.path # p => r.sel # None /\ ~Answers(x, r.sel)
      BY <2>0, <3>1, ResolveFacts
    <3> HIDE DEF p, Latest
    <3> QED
      BY <3>3, <3>4, <3>5
  <2> QED
    BY <2>1, <2>2, <2>3, <2>4, <2>5 DEF Outcome, Fails, Turns, Serves
<1> QED
  BY <1>1, InvCorrect, PTL DEF Spec, WritesGoHome
=============================================================================
