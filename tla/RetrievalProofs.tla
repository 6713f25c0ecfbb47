-------------------------- MODULE RetrievalProofs --------------------------
(***************************************************************************)
(* Proofs about Retrieval: the routes lose no match, the memories closest  *)
(* to the files and one of every class are shown, relations of what is     *)
(* shown come first, the lines of two stores share their bytes as they     *)
(* should, and a fusion keeps what both rankings of a search say.          *)
(* The answers are computed in one step, so the work is in the lemmas      *)
(* about the operators, for lists of every length; the induction over      *)
(* their recursive functions is Recursion and NatSets.                     *)
(***************************************************************************)
EXTENDS Retrieval, FilteringProofs, FiniteSetTheorems, TLAPS

----------------------------------------------------------------------------
(* Routes.                                                                 *)

\* The first n elements of a list.
LEMMA PrefixFacts ==
  ASSUME NEW A, NEW s \in Seq(A), NEW n \in 0..Len(s)
  PROVE  /\ SubSeq(s, 1, n) \in Seq(A)
         /\ Len(SubSeq(s, 1, n)) = n
         /\ \A i \in 1..n : SubSeq(s, 1, n)[i] = s[i]
<1>1. Len(s) \in Nat /\ n \in Nat
  OBVIOUS
<1> QED
  BY <1>1

\* A path and one that ends with it have the same last name.
LEMMA SuffixFacts ==
  ASSUME NEW A, NEW s \in Seq(A), NEW t \in Seq(A), s # <<>>, IsSuffix(s, t)
  PROVE  t # <<>> /\ Last(s) = Last(t)
<1>1. Len(s) \in Nat /\ Len(t) \in Nat /\ Len(s) >= 1
  OBVIOUS
<1> DEFINE r == Reverse(s)
           u == Reverse(t)
<1>2. /\ r \in Seq(A) /\ Len(r) = Len(s) /\ r[1] = s[Len(s)]
      /\ u \in Seq(A) /\ Len(u) = Len(t) /\ (Len(t) >= 1 => u[1] = t[Len(t)])
  BY <1>1 DEF Reverse
<1> HIDE DEF r, u
<1>3. Len(r) <= Len(u) /\ SubSeq(r, 1, Len(r)) = SubSeq(u, 1, Len(r))
  BY DEF IsSuffix, IsPrefix, r, u
<1>4. Len(t) >= 1
  BY <1>1, <1>2, <1>3
<1>5. SubSeq(r, 1, Len(r))[1] = r[1] /\ SubSeq(u, 1, Len(r))[1] = u[1]
  BY <1>1, <1>2, <1>3
<1> QED
  BY <1>1, <1>2, <1>3, <1>4, <1>5 DEF Last

\* What the assumptions say of paths.
LEMMA PathFacts ==
  /\ DirRoutes \in Nat \ {0}
  /\ IsFiniteSet(Paths)
  /\ \A p \in Paths : p \in Seq(DOMAIN Folded) /\ p # <<>>
  BY RetrievalAssumption

\* The directory of a path is the path without its last name.
LEMMA DirFacts ==
  ASSUME NEW p \in Paths
  PROVE  /\ Len(p) \in Nat \ {0}
         /\ Len(Dir(p)) = Len(p) - 1
         /\ \A n \in 0..Len(p) - 1 : SubSeq(Dir(p), 1, n) = SubSeq(p, 1, n)
<1> DEFINE A == DOMAIN Folded
           d == Len(p) - 1
<1>1. p \in Seq(A) /\ p # <<>>
  BY PathFacts
<1> HIDE DEF A
<1>2. Len(p) \in Nat \ {0} /\ d \in 0..Len(p)
  BY <1>1
<1>3. Dir(p) = SubSeq(p, 1, d)
  BY DEF Dir, Front
<1> HIDE DEF d
<1>4. /\ Dir(p) \in Seq(A) /\ Len(Dir(p)) = d
      /\ \A i \in 1..d : Dir(p)[i] = p[i]
  BY <1>1, <1>2, <1>3, PrefixFacts
<1>5. ASSUME NEW n \in 0..d PROVE SubSeq(Dir(p), 1, n) = SubSeq(p, 1, n)
  <2>1. n \in 0..Len(p) /\ n \in 0..Len(Dir(p)) /\ \A i \in 1..n : i \in 1..d
    BY <1>2, <1>4
  <2> DEFINE u == SubSeq(Dir(p), 1, n)
             v == SubSeq(p, 1, n)
  <2>2. u \in Seq(A) /\ Len(u) = n /\ \A i \in 1..n : u[i] = Dir(p)[i]
    BY <1>4, <2>1, PrefixFacts
  <2>3. v \in Seq(A) /\ Len(v) = n /\ \A i \in 1..n : v[i] = p[i]
    BY <1>1, <2>1, PrefixFacts
  <2> HIDE DEF u, v
  <2>4. u = v
    BY <1>4, <2>1, <2>2, <2>3
  <2> QED
    BY <2>4 DEF u, v
<1> QED
  BY <1>2, <1>4, <1>5 DEF d

\* A file whose directory is an anchor's, or lies above or below it, shares
\* the route of the higher directory, if that has two names or more and the
\* deeper path keeps it.
LEMMA SharedDirectory ==
  ASSUME NEW q \in Paths, NEW a \in Paths, IsPrefix(Dir(q), Dir(a)),
         Len(Dir(q)) >= 2, Len(Dir(a)) - Len(Dir(q)) < DirRoutes
  PROVE  Reached(q, a)
<1> DEFINE d == Len(q) - 1
           e == Len(a) - 1
<1>1. Len(q) \in Nat \ {0} /\ Len(a) \in Nat \ {0} /\ DirRoutes \in Nat \ {0}
  BY DirFacts, PathFacts
<1>2. Len(Dir(q)) = d /\ Len(Dir(a)) = e
  BY DirFacts
<1>3. /\ d \in 2..d /\ d > d - DirRoutes /\ d \in 0..d
      /\ d \in 2..e /\ d > e - DirRoutes /\ d \in 0..e
  BY <1>1, <1>2 DEF IsPrefix
<1>4. SubSeq(q, 1, d) = SubSeq(a, 1, d)
  <2>1. SubSeq(Dir(q), 1, d) = SubSeq(Dir(a), 1, d)
    BY <1>2 DEF IsPrefix
  <2>2. SubSeq(Dir(q), 1, d) = SubSeq(q, 1, d) /\ SubSeq(Dir(a), 1, d) = SubSeq(a, 1, d)
    BY <1>3, DirFacts
  <2> QED
    BY <2>1, <2>2
<1>5. <<"dir", SubSeq(q, 1, d)>> \in Routes(q)
  BY <1>3 DEF Routes
<1>6. <<"dir", SubSeq(a, 1, d)>> \in Routes(a)
  BY <1>3 DEF Routes
<1> QED
  BY <1>4, <1>5, <1>6 DEF Reached

\* Two paths of one file name have a route.
LEMMA SharedBase ==
  ASSUME NEW q, NEW a, Base(q) = Base(a)
  PROVE  Reached(q, a)
<1>1. <<"base", <<Base(q)>> >> \in Routes(q) /\ <<"base", <<Base(a)>> >> \in Routes(a)
  BY DEF Routes
<1> QED
  BY <1>1 DEF Reached

\* What matches is reached, but for what the routes give up on purpose.
LEMMA MatchIsReached ==
  ASSUME NEW q \in Paths, NEW a \in Paths, Score(q, a) # NoMatch, ~OutOfReach(q, a)
  PROVE  Reached(q, a)
<1>1. /\ q \in Seq(DOMAIN Folded) /\ a \in Seq(DOMAIN Folded)
      /\ q # <<>> /\ a # <<>> /\ Len(q) \in Nat \ {0} /\ Len(a) \in Nat \ {0}
      /\ DirRoutes \in Nat
  BY PathFacts, DirFacts
<1>2. CASE q = a
  BY <1>2, SharedBase
<1>3. CASE IsStrictSuffix(a, q) \/ IsStrictSuffix(q, a)
  <2>1. Last(q) = Last(a)
    BY <1>1, <1>3, SuffixFacts DEF IsStrictSuffix
  <2> QED
    BY <2>1, SharedBase DEF Base
<1> DEFINE Apart == q # a /\ ~IsStrictSuffix(a, q) /\ ~IsStrictSuffix(q, a)
<1>4. CASE Apart /\ Qualified(q) /\ Qualified(a)
           /\ (IsPrefix(Dir(q), Dir(a)) \/ IsPrefix(Dir(a), Dir(q)))
  <2>1. OnlyByDirectory(q, a)
    BY <1>4 DEF OnlyByDirectory
  <2>2. /\ Len(Dir(q)) = Len(q) - 1 /\ Len(Dir(a)) = Len(a) - 1
        /\ Len(q) > 1 /\ Len(a) > 1
    BY <1>1, <1>4, DirFacts DEF Qualified
  <2>3. CASE Len(q) < Len(a)
    <3>1. IsPrefix(Dir(q), Dir(a))
      BY <1>1, <1>4, <2>2, <2>3 DEF IsPrefix
    <3>2. Len(Dir(q)) # 1 /\ ~(Len(Dir(a)) - Len(Dir(q)) >= DirRoutes)
      BY <2>1, <2>3 DEF OutOfReach
    <3> QED
      BY <1>1, <2>2, <3>1, <3>2, SharedDirectory
  <2>4. CASE ~(Len(q) < Len(a))
    <3>1. IsPrefix(Dir(a), Dir(q))
      <4>1. CASE IsPrefix(Dir(q), Dir(a))
        BY <1>1, <2>2, <2>4, <4>1 DEF IsPrefix
      <4> QED
        BY <1>4, <4>1
    <3>2. Len(Dir(a)) # 1 /\ ~(Len(Dir(q)) - Len(Dir(a)) >= DirRoutes)
      BY <2>1, <2>4 DEF OutOfReach
    <3>3. Reached(a, q)
      BY <1>1, <2>2, <3>1, <3>2, SharedDirectory
    <3> QED
      BY <3>3 DEF Reached
  <2> QED
    BY <2>3, <2>4
<1>5. CASE Apart /\ ~(Qualified(q) /\ Qualified(a))
  BY <1>5, SharedBase DEF Score
<1>6. CASE Apart /\ Qualified(q) /\ Qualified(a)
           /\ ~IsPrefix(Dir(q), Dir(a)) /\ ~IsPrefix(Dir(a), Dir(q))
  <2>1. Dir(q) # Dir(a)
    BY <1>1, <1>6 DEF IsPrefix
  <2>2. Score(q, a) = IF Base(q) = Base(a) /\ Last(q) \notin Generic THEN 50 ELSE NoMatch
    BY <1>6, <2>1 DEF Score, IsStrictPrefix
  <2>3. Base(q) = Base(a)
    BY <2>2
  <2> QED
    BY <2>3, SharedBase
<1> QED
  BY <1>2, <1>3, <1>4, <1>5, <1>6

----------------------------------------------------------------------------
(* Lists of keys.                                                          *)

Distinct(s) == \A i, j \in 1..Len(s) : s[i] = s[j] => i = j
Rising(s) == \A i, j \in 1..Len(s) : i < j => s[i] < s[j]

\* The first n elements of a list, or all if there are fewer.
LEMMA TakeFacts ==
  ASSUME NEW A, NEW s \in Seq(A), NEW n \in Nat
  PROVE  /\ Take(s, n) \in Seq(A)
         /\ Len(Take(s, n)) = IF n < Len(s) THEN n ELSE Len(s)
         /\ \A i \in 1..Len(Take(s, n)) : Take(s, n)[i] = s[i]
         /\ ToSet(Take(s, n)) \subseteq ToSet(s)
         /\ Len(s) <= n => Take(s, n) = s
         /\ Distinct(s) => Distinct(Take(s, n))
<1> DEFINE m == IF n < Len(s) THEN n ELSE Len(s)
<1>1. Len(s) \in Nat /\ m \in 0..Len(s) /\ m \in Nat
  OBVIOUS
<1>2. Take(s, n) = SubSeq(s, 1, m)
  BY DEF Take
<1> HIDE DEF m
<1> DEFINE t == Take(s, n)
<1>3. t \in Seq(A) /\ Len(t) = m /\ \A i \in 1..m : t[i] = s[i]
  BY <1>1, <1>2, PrefixFacts
<1> HIDE DEF t
<1>4. ToSet(t) \subseteq ToSet(s)
  <2>1. DOMAIN t = 1..m /\ DOMAIN s = 1..Len(s) /\ \A i \in 1..m : i \in 1..Len(s)
    BY <1>1, <1>3
  <2> QED
    BY <1>3, <2>1 DEF ToSet
<1>5. Distinct(s) => Distinct(t)
  <2>1. \A i \in 1..m : i \in 1..Len(s)
    BY <1>1
  <2> QED
    BY <1>3, <2>1 DEF Distinct
<1>6. Len(s) <= n => t = s
  <2>1. Len(s) <= n => m = Len(s)
    BY <1>1 DEF m
  <2> QED
    BY <1>3, <2>1
<1> QED
  BY <1>3, <1>4, <1>5, <1>6 DEF t, m

\* The elements of a list are what is at its places.
LEMMA Members ==
  ASSUME NEW A, NEW s \in Seq(A)
  PROVE  /\ Len(s) \in Nat
         /\ \A x : x \in ToSet(s) <=> \E i \in 1..Len(s) : s[i] = x
         /\ ToSet(s) \subseteq A
         /\ s = <<>> <=> Len(s) = 0
         /\ s = <<>> <=> ToSet(s) = {}
         /\ s # <<>> => Head(s) = s[1] /\ s[1] \in ToSet(s) /\ 1 \in 1..Len(s)
<1>1. Len(s) \in Nat /\ DOMAIN s = 1..Len(s) /\ \A i \in 1..Len(s) : s[i] \in A
  OBVIOUS
<1>2. \A x : x \in ToSet(s) <=> \E i \in 1..Len(s) : s[i] = x
  BY <1>1 DEF ToSet
<1>3. ToSet(s) \subseteq A
  BY <1>1, <1>2
<1>4. s = <<>> <=> Len(s) = 0
  OBVIOUS
<1>5. s # <<>> => Head(s) = s[1] /\ s[1] \in ToSet(s) /\ 1 \in 1..Len(s)
  <2>1. s # <<>> => Head(s) = s[1] /\ 1 \in 1..Len(s)
    BY <1>1, <1>4
  <2> QED
    BY <1>2, <2>1
<1>6. s = <<>> <=> ToSet(s) = {}
  <2>1. s = <<>> => ToSet(s) = {}
    BY <1>1 DEF ToSet
  <2> QED
    BY <1>5, <2>1
<1> QED
  BY <1>1, <1>2, <1>3, <1>4, <1>5, <1>6

\* To extend a list keeps it in front, adds what is missing and repeats nothing.
LEMMA ExtendFacts ==
  ASSUME NEW A, NEW s \in Seq(A), NEW t \in Seq(A)
  PROVE  /\ Extend(s, t) \in Seq(A)
         /\ ToSet(Extend(s, t)) = ToSet(s) \cup ToSet(t)
         /\ Len(s) <= Len(Extend(s, t))
         /\ \A i \in 1..Len(s) : Extend(s, t)[i] = s[i]
         /\ s = <<>> => Extend(s, t) = t
         /\ Distinct(s) /\ Distinct(t) => Distinct(Extend(s, t))
<1> DEFINE S == ToSet(t) \ ToSet(s)
<1> HIDE DEF S
<1> DEFINE f == Filtered(t, S)
<1>1. /\ f \in Seq(A \cap S) /\ ToSet(f) = ToSet(t) \cap S
      /\ (ToSet(t) \subseteq S => f = t)
      /\ \A j, k \in 1..Len(f) : j < k =>
           \E m, n \in 1..Len(t) : m < n /\ t[m] = f[j] /\ t[n] = f[k]
  BY FilteredFacts
<1>2. Extend(s, t) = s \o f
  BY DEF Extend, S
<1> HIDE DEF f
<1>3. f \in Seq(A) /\ Len(f) \in Nat /\ Len(s) \in Nat
  <2>1. Seq(A \cap S) \subseteq Seq(A)
    OBVIOUS
  <2> QED
    BY <1>1, <2>1
<1> DEFINE e == s \o f
<1>4. /\ e \in Seq(A) /\ Len(e) = Len(s) + Len(f)
      /\ \A i \in 1..Len(s) : e[i] = s[i]
      /\ \A i \in 1..Len(f) : e[Len(s) + i] = f[i]
      /\ ToSet(e) = ToSet(s) \cup ToSet(f)
  BY <1>3, ConcatFacts
<1>5. ToSet(e) = ToSet(s) \cup ToSet(t)
  BY <1>1, <1>4 DEF S
<1>6. s = <<>> => e = t
  <2> SUFFICES ASSUME s = <<>> PROVE e = t
    OBVIOUS
  <2>1. ToSet(s) = {}
    BY Members
  <2>2. f = t
    BY <1>1, <2>1 DEF S
  <2> QED
    BY <2>2
<1> HIDE DEF e
<1>7. ASSUME Distinct(s), Distinct(t) PROVE Distinct(e)
  <2>1. ASSUME NEW j \in 1..Len(f), NEW k \in 1..Len(f), j < k
        PROVE  f[j] # f[k]
    BY <1>1, <1>7, <2>1 DEF Distinct
  <2>2. ASSUME NEW i \in 1..Len(s), NEW j \in 1..Len(f) PROVE s[i] # f[j]
    <3>1. f[j] \in ToSet(f)
      BY <1>3, Members
    <3>2. f[j] \notin ToSet(s)
      BY <1>1, <3>1 DEF S
    <3> QED
      BY <3>2, Members
  <2>3. ASSUME NEW i \in 1..Len(e), NEW j \in 1..Len(e), i < j
        PROVE  e[i] # e[j]
    <3>1. CASE j <= Len(s)
      <4>1. i \in 1..Len(s) /\ j \in 1..Len(s)
        BY <1>3, <2>3, <3>1
      <4> QED
        BY <1>4, <1>7, <2>3, <4>1 DEF Distinct
    <3>2. CASE j > Len(s) /\ i <= Len(s)
      <4>1. i \in 1..Len(s) /\ j - Len(s) \in 1..Len(f) /\ Len(s) + (j - Len(s)) = j
        BY <1>3, <1>4, <3>2
      <4>2. e[i] = s[i] /\ e[Len(s) + (j - Len(s))] = f[j - Len(s)]
        BY <1>4, <4>1
      <4>3. s[i] # f[j - Len(s)]
        BY <2>2, <4>1
      <4> QED
        BY <4>1, <4>2, <4>3
    <3>3. CASE i > Len(s)
      <4>1. /\ i - Len(s) \in 1..Len(f) /\ j - Len(s) \in 1..Len(f)
            /\ Len(s) + (i - Len(s)) = i /\ Len(s) + (j - Len(s)) = j
            /\ i - Len(s) < j - Len(s)
        BY <1>3, <1>4, <2>3, <3>3
      <4> QED
        BY <1>4, <2>1, <4>1
    <3> QED
      BY <1>3, <3>1, <3>2, <3>3
  <2>4. ASSUME NEW i \in 1..Len(e), NEW j \in 1..Len(e), e[i] = e[j]
        PROVE  i = j
    <3>1. i < j \/ j < i \/ i = j
      BY <1>4
    <3> QED
      BY <2>3, <2>4, <3>1
  <2> QED
    BY <2>4 DEF Distinct
<1> QED
  BY <1>2, <1>3, <1>4, <1>5, <1>6, <1>7 DEF e

\* A list has at least as many places as elements, and as many if it repeats
\* none.
LEMMA Counted ==
  ASSUME NEW A, NEW s \in Seq(A)
  PROVE  /\ IsFiniteSet(ToSet(s))
         /\ Cardinality(ToSet(s)) \in Nat
         /\ Cardinality(ToSet(s)) <= Len(s)
         /\ Distinct(s) => Cardinality(ToSet(s)) = Len(s)
<1> DEFINE S == ToSet(s)
           n == Len(s)
<1>1. n \in Nat /\ s \in [1..n -> S] /\ \A x \in S : \E i \in 1..n : s[i] = x
  <2>1. n \in Nat /\ s \in [1..n -> A]
    OBVIOUS
  <2> HIDE DEF n
  <2>2. \A i \in 1..n : s[i] \in S
    BY Members DEF n
  <2> QED
    BY <2>1, <2>2, Members DEF n
<1> HIDE DEF S, n
<1>2. s \in Surjection(1..n, S)
  BY <1>1 DEF Surjection
<1>3. ExistsSurjection(1..n, S)
  BY <1>2 DEF ExistsSurjection
<1>4. IsFiniteSet(S) /\ Cardinality(S) <= n
  BY <1>1, <1>3, FS_NatSurjection, FS_SurjCardinalityBound
<1>5. Cardinality(S) \in Nat
  BY <1>4, FS_CardinalityType
<1>6. Distinct(s) => Cardinality(S) = n
  <2> SUFFICES ASSUME Distinct(s) PROVE Cardinality(S) = n
    OBVIOUS
  <2>1. s \in Injection(1..n, S)
    BY <1>1 DEF Distinct, Injection, IsInjective, n
  <2>2. ExistsBijection(1..n, S)
    BY <1>2, <2>1 DEF ExistsBijection, Bijection
  <2> QED
    BY <1>1, <2>2, FS_CountingElements
<1> QED
  BY <1>4, <1>5, <1>6 DEF S, n

\* Finitely many numbers have a greatest one.
LEMMA Bounded ==
  ASSUME NEW S \in SUBSET Nat, IsFiniteSet(S)
  PROVE  \E b \in Nat : \A x \in S : x <= b
<1> DEFINE Has(T) == \E b \in Nat : \A x \in T : x <= b
           P == {n \in Nat : \A T \in SUBSET Nat :
                               IsFiniteSet(T) /\ Cardinality(T) = n => Has(T)}
<1>1. 0 \in P
  <2> SUFFICES ASSUME NEW T \in SUBSET Nat, IsFiniteSet(T), Cardinality(T) = 0
               PROVE  Has(T)
    OBVIOUS
  <2>1. T = {}
    BY FS_EmptySet
  <2> QED
    BY <2>1
<1>2. ASSUME NEW n \in P PROVE n + 1 \in P
  <2> SUFFICES ASSUME NEW T \in SUBSET Nat, IsFiniteSet(T), Cardinality(T) = n + 1
               PROVE  Has(T)
    OBVIOUS
  <2>1. T # {}
    BY FS_EmptySet
  <2>2. PICK y \in T : TRUE
    BY <2>1
  <2>3. IsFiniteSet(T \ {y}) /\ Cardinality(T \ {y}) = n /\ T \ {y} \in SUBSET Nat
    <3>1. IsFiniteSet(T \ {y}) /\ Cardinality(T \ {y}) = Cardinality(T) - 1
      BY <2>2, FS_RemoveElement
    <3> HIDE DEF P, Has
    <3>2. n \in Nat
      BY DEF P
    <3> QED
      BY <3>1, <3>2
  <2>4. PICK b \in Nat : \A x \in T \ {y} : x <= b
    <3> DEFINE U == T \ {y}
    <3> HIDE DEF U
    <3>1. Has(U)
      BY <2>3 DEF U
    <3> QED
      BY <3>1 DEF U
  <2> DEFINE c == IF b <= y THEN y ELSE b
  <2>5. c \in Nat /\ y <= c /\ b <= c
    BY <2>2
  <2> HIDE DEF c
  <2>6. \A x \in T : x <= c
    BY <2>4, <2>5
  <2> QED
    BY <2>5, <2>6
<1> HIDE DEF Has
<1>3. P = Nat
  <2>1. P \in SUBSET Nat
    OBVIOUS
  <2> HIDE DEF P
  <2> QED
    BY <1>1, <1>2, <2>1, NatSets
<1>4. Cardinality(S) \in Nat
  BY FS_CardinalityType
<1>5. Has(S)
  BY <1>3, <1>4
<1> QED
  BY <1>5 DEF Has

\* The greatest of finitely many numbers.
LEMMA MaxFacts ==
  ASSUME NEW S \in SUBSET Nat, IsFiniteSet(S), S # {}
  PROVE  Max(S) \in S /\ \A x \in S : x <= Max(S)
<1> DEFINE T == {b \in Nat : \A x \in S : x <= b}
<1>1. T # {} /\ T \in SUBSET Nat
  BY Bounded
<1>2. PICK m \in T : \A b \in T : m <= b
  BY <1>1, LeastElement
<1>3. m \in S
  <2> SUFFICES ASSUME m \notin S PROVE FALSE
    OBVIOUS
  <2>1. \A x \in S : x < m
    BY <1>2
  <2>2. PICK x \in S : TRUE
    OBVIOUS
  <2>3. m - 1 \in T
    BY <2>1, <2>2
  <2> QED
    BY <1>2, <2>3
<1>4. \A x \in S : m >= x
  OBVIOUS
<1>5. \E y \in S : \A x \in S : y >= x
  BY <1>3, <1>4
<1>6. Max(S) \in S /\ \A x \in S : Max(S) >= x
  BY <1>5 DEF Max
<1> QED
  BY <1>6

\* The keys of a set as a list that has each once, in their order.
LEMMA InKeyOrderFacts ==
  ASSUME NEW S \in SUBSET (Nat \ {0}), IsFiniteSet(S)
  PROVE  /\ InKeyOrder(S) \in Seq(S)
         /\ ToSet(InKeyOrder(S)) = S
         /\ Distinct(InKeyOrder(S)) /\ Rising(InKeyOrder(S))
<1> DEFINE m == Max(S \cup {0})
           s == [i \in 1..m |-> i]
<1>1. m \in Nat /\ \A x \in S : x <= m
  <2>1. IsFiniteSet(S \cup {0}) /\ S \cup {0} \in SUBSET Nat /\ S \cup {0} # {}
    BY FS_AddElement
  <2> QED
    BY <2>1, MaxFacts
<1> HIDE DEF m
<1>2. s \in Seq(Nat) /\ Len(s) = m /\ \A i \in 1..m : s[i] = i
  BY <1>1
<1>3. S \subseteq ToSet(s)
  <2>1. DOMAIN s = 1..m /\ \A x \in S : x \in 1..m
    BY <1>1
  <2> QED
    BY <1>2, <2>1 DEF ToSet
<1>4. InKeyOrder(S) = Filtered(s, S)
  BY DEF InKeyOrder, m
<1> HIDE DEF s
<1> DEFINE f == Filtered(s, S)
<1>5. /\ f \in Seq(Nat \cap S) /\ ToSet(f) = ToSet(s) \cap S
      /\ \A j, k \in 1..Len(f) : j < k =>
           \E p, n \in 1..Len(s) : p < n /\ s[p] = f[j] /\ s[n] = f[k]
  BY <1>2, FilteredFacts
<1> HIDE DEF f
<1>6. Nat \cap S = S
  OBVIOUS
<1>7. ASSUME NEW j \in 1..Len(f), NEW k \in 1..Len(f), j < k
      PROVE  f[j] < f[k]
  <2>1. PICK p, n \in 1..Len(s) : p < n /\ s[p] = f[j] /\ s[n] = f[k]
    BY <1>5, <1>7
  <2> QED
    BY <1>1, <1>2, <2>1
<1>8. Distinct(f)
  <2>1. Len(f) \in Nat
    BY <1>5, Members
  <2>2. \A i, j \in 1..Len(f) : i < j \/ j < i \/ i = j
    BY <2>1
  <2>3. \A i \in 1..Len(f) : f[i] \in Nat
    BY <1>5, <1>6
  <2>4. \A i, j \in 1..Len(f) : i < j => f[i] # f[j]
    BY <1>7, <2>3
  <2> QED
    BY <2>2, <2>4 DEF Distinct
<1>9. Rising(f)
  BY <1>7 DEF Rising
<1> QED
  BY <1>3, <1>4, <1>5, <1>6, <1>8, <1>9 DEF f

\* Which of two scored keys comes first.
First(S) == CHOOSE x \in S : \A y \in S : x[1] > y[1] \/ (x[1] = y[1] /\ x[2] <= y[2])

\* The pair of the highest score and the lowest key.
LEMMA FirstFacts ==
  ASSUME NEW S \in SUBSET (Nat \X Nat), IsFiniteSet(S), S # {}
  PROVE  /\ First(S) \in S
         /\ \A y \in S : First(S)[1] > y[1] \/ (First(S)[1] = y[1] /\ First(S)[2] <= y[2])
<1> DEFINE T == {x[1] : x \in S}
           U == {x[2] : x \in {y \in S : y[1] = Max(T)}}
<1>1. T \in SUBSET Nat /\ T # {} /\ IsFiniteSet(T)
  <2> DEFINE f == [x \in S |-> x[1]]
  <2>1. f \in Surjection(S, T)
    BY DEF Surjection
  <2>2. IsFiniteSet(T)
    BY <2>1, FS_Surjection
  <2> QED
    BY <2>2
<1>2. Max(T) \in T /\ \A t \in T : t <= Max(T)
  BY <1>1, MaxFacts
<1>3. U \in SUBSET Nat /\ U # {}
  BY <1>2
<1>4. PICK u \in U : \A v \in U : u <= v
  BY <1>3, LeastElement
<1>5. PICK x \in S : x[1] = Max(T) /\ x[2] = u
  OBVIOUS
<1>6. ASSUME NEW y \in S
      PROVE  x[1] > y[1] \/ (x[1] = y[1] /\ x[2] <= y[2])
  <2>1. y[1] \in T /\ y[1] \in Nat /\ y[2] \in Nat /\ x[1] \in Nat
    OBVIOUS
  <2>2. CASE y[1] = Max(T)
    <3>1. y[2] \in U
      BY <2>2
    <3> QED
      BY <1>4, <1>5, <2>2, <3>1
  <2>3. CASE y[1] # Max(T)
    <3>1. y[1] <= Max(T)
      BY <1>2, <2>1
    <3> HIDE DEF T
    <3> QED
      BY <1>5, <2>1, <2>3, <3>1
  <2> QED
    BY <2>2, <2>3
<1>7. \E z \in S : \A y \in S : z[1] > y[1] \/ (z[1] = y[1] /\ z[2] <= y[2])
  BY <1>6
<1> QED
  BY <1>7 DEF First

\* f starts at x and goes by the steps of g.
Follows(f, x, n, g) == f[0] = x /\ \A i \in 1..n : f[i] = g[i][f[i - 1]]

\* A function of steps exists if every step leads from D to D.
LEMMA Recursion ==
  ASSUME NEW D, NEW x \in D, NEW n \in Nat, NEW g \in [1..n -> [D -> D]]
  PROVE  \E f \in [0..n -> D] : Follows(f, x, n, g)
<1> DEFINE Is(f, m) == f \in [0..m -> D] /\ f[0] = x /\ \A i \in 1..m : f[i] = g[i][f[i - 1]]
           P == {m \in Nat : m <= n => \E f : Is(f, m)}
<1>1. 0 \in P
  <2> DEFINE f == [i \in 0..0 |-> x]
  <2>1. Is(f, 0)
    OBVIOUS
  <2> HIDE DEF Is, f
  <2> QED
    BY <2>1
<1>2. ASSUME NEW m \in P PROVE m + 1 \in P
  <2>0. m \in Nat /\ (m <= n => \E f : Is(f, m))
    <3> HIDE DEF Is
    <3> QED
      OBVIOUS
  <2> HIDE DEF P
  <2> SUFFICES ASSUME m + 1 <= n PROVE \E f : Is(f, m + 1)
    <3> HIDE DEF Is
    <3> QED
      BY <2>0 DEF P
  <2>1. m \in Nat /\ m + 1 \in 1..n /\ m <= n
    BY <2>0
  <2>2. PICK f : Is(f, m)
    <3> HIDE DEF Is
    <3> QED
      BY <2>0, <2>1
  <2> DEFINE h == [i \in 0..m + 1 |-> IF i = m + 1 THEN g[m + 1][f[m]] ELSE f[i]]
  <2>3. h \in [0..m + 1 -> D]
    <3>1. f[m] \in D /\ g[m + 1] \in [D -> D] /\ \A i \in 0..m + 1 : i # m + 1 => i \in 0..m
      BY <2>1, <2>2
    <3> QED
      BY <2>2, <3>1
  <2>4. h[0] = x
    BY <2>1, <2>2
  <2>5. ASSUME NEW i \in 1..m + 1 PROVE h[i] = g[i][h[i - 1]]
    <3>1. CASE i = m + 1
      BY <2>1, <3>1
    <3>2. CASE i # m + 1
      <4>1. i \in 1..m /\ i \in 0..m + 1 /\ i - 1 \in 0..m + 1 /\ i - 1 # m + 1
        BY <2>1, <3>2
      <4>2. h[i] = f[i] /\ h[i - 1] = f[i - 1]
        BY <3>2, <4>1
      <4> QED
        BY <2>2, <4>1, <4>2
    <3> QED
      BY <3>1, <3>2
  <2> HIDE DEF h
  <2>6. Is(h, m + 1)
    BY <2>3, <2>4, <2>5
  <2> HIDE DEF Is
  <2> QED
    BY <2>6
<1>3. P = Nat
  <2>1. P \in SUBSET Nat
    OBVIOUS
  <2> HIDE DEF P
  <2> QED
    BY <1>1, <1>2, <2>1, NatSets
<1>4. \E f : Is(f, n)
  <2> HIDE DEF Is
  <2> QED
    BY <1>3
<1> QED
  BY <1>4 DEF Follows

\* What ByScore is made of: the pairs that are left after i keys.
Rest(scored, f, i) == IF i = 0 THEN scored ELSE f[i - 1] \ {First(f[i - 1])}

\* The recursive function in ByScore exists, so what its definition says holds.
LEMMA ByScoreIs ==
  ASSUME NEW S, IsFiniteSet(S)
  PROVE  \E f : /\ f = [i \in 0..Cardinality(S) |-> Rest(S, f, i)]
                /\ ByScore(S) = [i \in 1..Cardinality(S) |-> First(f[i - 1])[2]]
<1> DEFINE n == Cardinality(S)
           first(T) == CHOOSE x \in T : \A y \in T : x[1] > y[1] \/ (x[1] = y[1] /\ x[2] <= y[2])
           Is(f) == f = [i \in 0..n |-> IF i = 0 THEN S
                                        ELSE LET T == f[i - 1] IN T \ {first(T)}]
           left == CHOOSE f : Is(f)
<1>1. n \in Nat
  BY FS_CardinalityType
<1>2. \A T : first(T) = First(T)
  BY DEF First
<1>3. \E f : Is(f)
  <2> DEFINE g == [i \in 1..n |-> [T \in SUBSET S |-> T \ {first(T)}]]
  <2>1. g \in [1..n -> [SUBSET S -> SUBSET S]]
    OBVIOUS
  <2> HIDE DEF n, first
  <2>2. \A i \in 1..n : \A T \in SUBSET S : g[i][T] = T \ {first(T)}
    OBVIOUS
  <2> HIDE DEF g
  <2>3. PICK f \in [0..n -> SUBSET S] : f[0] = S /\ \A i \in 1..n : f[i] = g[i][f[i - 1]]
    <3>1. S \in SUBSET S
      OBVIOUS
    <3> DEFINE D == SUBSET S
    <3>2. S \in D /\ g \in [1..n -> [D -> D]]
      BY <2>1, <3>1
    <3> HIDE DEF D
    <3>3. \E f \in [0..n -> D] : Follows(f, S, n, g)
      BY <1>1, <3>2, Recursion
    <3> QED
      BY <3>3 DEF D, Follows
  <2>4. ASSUME NEW i \in 0..n
        PROVE  f[i] = IF i = 0 THEN S ELSE LET T == f[i - 1] IN T \ {first(T)}
    <3>1. CASE i # 0
      <4>1. i \in 1..n /\ i - 1 \in 0..n
        BY <1>1, <3>1
      <4> QED
        BY <2>2, <2>3, <3>1, <4>1
    <3> QED
      BY <2>3, <3>1
  <2>5. Is(f)
    BY <2>3, <2>4
  <2> QED
    BY <2>5
<1>4. Is(left)
  BY <1>3
<1>5. ByScore(S) = [i \in 1..n |-> first(left[i - 1])[2]]
  BY DEF ByScore
<1>6. left = [i \in 0..n |-> Rest(S, left, i)]
  <2> HIDE DEF first, left
  <2> QED
    BY <1>2, <1>4 DEF Rest
<1>7. ByScore(S) = [i \in 1..n |-> First(left[i - 1])[2]]
  <2> HIDE DEF first, left
  <2> QED
    BY <1>2, <1>5
<1> HIDE DEF left
<1> QED
  BY <1>6, <1>7

\* The keys of scored pairs as a list that has each once.
LEMMA ByScoreFacts ==
  ASSUME NEW S \in SUBSET (Nat \X Nat), IsFiniteSet(S)
  PROVE  /\ ByScore(S) \in Seq(Nat)
         /\ ToSet(ByScore(S)) = {x[2] : x \in S}
         /\ (\A x, y \in S : x[2] = y[2] => x = y) => Distinct(ByScore(S))
<1> DEFINE n == Cardinality(S)
<1>1. n \in Nat
  BY FS_CardinalityType
<1>2. PICK f : /\ f = [i \in 0..n |-> Rest(S, f, i)]
               /\ ByScore(S) = [i \in 1..n |-> First(f[i - 1])[2]]
  BY ByScoreIs
<1> HIDE DEF n
<1> DEFINE Left(i) == /\ f[i] \in SUBSET S /\ Cardinality(f[i]) = n - i
                      /\ \A j \in 1..i : First(f[j - 1]) \notin f[i]
                      /\ \A x \in S \ f[i] : \E j \in 1..i : x = First(f[j - 1])
           P == {i \in Nat : i <= n => Left(i)}
<1>3. 0 \in P
  <2>1. f[0] = S
    BY <1>1, <1>2 DEF Rest
  <2>2. Left(0)
    BY <1>1, <2>1 DEF n
  <2> QED
    BY <2>2
<1>4. ASSUME NEW i \in 0..n, i # n, Left(i)
      PROVE  /\ First(f[i]) \in f[i]
             /\ f[i + 1] = f[i] \ {First(f[i])}
  <2>1. IsFiniteSet(f[i])
    BY <1>4, FS_Subset
  <2>2. Cardinality(f[i]) # 0
    BY <1>1, <1>4
  <2>3. f[i] # {}
    BY <2>1, <2>2, FS_EmptySet
  <2>4. f[i] \in SUBSET (Nat \X Nat)
    BY <1>4
  <2>5. i + 1 \in 0..n /\ i + 1 # 0 /\ (i + 1) - 1 = i
    BY <1>1, <1>4
  <2>6. f[i + 1] = Rest(S, f, i + 1)
    BY <1>2, <2>5
  <2> QED
    BY <2>1, <2>3, <2>4, <2>5, <2>6, FirstFacts DEF Rest
<1>5. ASSUME NEW i \in P PROVE i + 1 \in P
  <2> SUFFICES ASSUME i + 1 <= n PROVE Left(i + 1)
    OBVIOUS
  <2>0. i \in 0..n /\ i # n
    BY <1>1
  <2>1. Left(i)
    <3> HIDE DEF Left
    <3> QED
      BY <1>1, <2>0
  <2>2. First(f[i]) \in f[i] /\ f[i + 1] = f[i] \ {First(f[i])}
    <3> HIDE DEF Left, P
    <3> QED
      BY <1>4, <2>0, <2>1
  <2> HIDE DEF P
  <2>3. f[i + 1] \in SUBSET S
    BY <2>1, <2>2
  <2>4. Cardinality(f[i + 1]) = n - (i + 1)
    <3>1. IsFiniteSet(f[i])
      BY <2>1, FS_Subset
    <3>2. Cardinality(f[i] \ {First(f[i])}) = Cardinality(f[i]) - 1
      BY <2>2, <3>1, FS_RemoveElement
    <3> QED
      BY <1>1, <2>0, <2>1, <2>2, <3>2
  <2>5. \A j \in 1..i + 1 : j \in 1..i \/ (j = i + 1 /\ j - 1 = i)
    BY <2>0
  <2>6. i + 1 \in 1..i + 1 /\ (i + 1) - 1 = i /\ \A j \in 1..i : j \in 1..i + 1
    BY <2>0
  <2>7. \A j \in 1..i + 1 : First(f[j - 1]) \notin f[i + 1]
    BY <2>1, <2>2, <2>5
  <2>8. ASSUME NEW x \in S \ f[i + 1] PROVE \E j \in 1..i + 1 : x = First(f[j - 1])
    <3>1. CASE x \in f[i]
      BY <2>2, <2>6, <3>1
    <3>2. CASE x \notin f[i]
      BY <2>1, <2>6, <3>2
    <3> QED
      BY <3>1, <3>2
  <2> QED
    BY <2>3, <2>4, <2>7, <2>8
<1> HIDE DEF Left
<1>6. P = Nat
  <2>1. P \in SUBSET Nat
    OBVIOUS
  <2> HIDE DEF P
  <2> QED
    BY <1>3, <1>5, <2>1, NatSets
<1>7. \A i \in 0..n : Left(i)
  BY <1>1, <1>6
<1> DEFINE b == ByScore(S)
<1>8. ASSUME NEW i \in 1..n
      PROVE  First(f[i - 1]) \in f[i - 1] /\ First(f[i - 1]) \in S
  <2>1. i - 1 \in 0..n /\ i - 1 # n
    BY <1>1
  <2>2. First(f[i - 1]) \in f[i - 1]
    BY <1>4, <1>7, <2>1
  <2> QED
    BY <1>7, <2>1, <2>2 DEF Left
<1>9. b \in Seq(Nat) /\ Len(b) = n /\ \A i \in 1..n : b[i] = First(f[i - 1])[2]
  <2>1. \A i \in 1..n : First(f[i - 1])[2] \in Nat
    BY <1>8
  <2>2. b = [i \in 1..n |-> First(f[i - 1])[2]]
    BY <1>2
  <2> HIDE DEF b
  <2>3. b \in [1..n -> Nat]
    BY <2>1, <2>2
  <2>4. b \in Seq(Nat) /\ Len(b) = n
    BY <1>1, <2>3
  <2> QED
    BY <2>2, <2>4
<1> HIDE DEF b
<1>10. ToSet(b) = {x[2] : x \in S}
  <2>1. f[n] = {}
    <3>1. n \in 0..n /\ Left(n)
      BY <1>1, <1>7
    <3>2. IsFiniteSet(f[n]) /\ Cardinality(f[n]) = 0
      BY <1>1, <3>1, FS_Subset DEF Left
    <3> QED
      BY <3>2, FS_EmptySet
  <2>2. ASSUME NEW x \in S PROVE \E j \in 1..n : x = First(f[j - 1])
    <3>1. n \in 0..n /\ Left(n)
      BY <1>1, <1>7
    <3> QED
      BY <2>1, <3>1 DEF Left
  <2>3. ASSUME NEW k, k \in ToSet(b) PROVE k \in {x[2] : x \in S}
    <3>1. PICK i \in 1..n : b[i] = k
      BY <1>9, <2>3, Members
    <3> QED
      BY <1>8, <1>9, <3>1
  <2>4. ASSUME NEW x \in S PROVE x[2] \in ToSet(b)
    <3>1. PICK j \in 1..n : x = First(f[j - 1])
      BY <2>2
    <3>2. b[j] = x[2]
      BY <1>9, <3>1
    <3> QED
      BY <1>9, <3>2, Members
  <2> QED
    BY <2>3, <2>4
<1>11. ASSUME \A x, y \in S : x[2] = y[2] => x = y PROVE Distinct(b)
  <2>1. ASSUME NEW j \in 1..n, NEW k \in 1..n, j < k
        PROVE  b[j] # b[k]
    <3>1. j \in 1..k - 1 /\ k - 1 \in 0..n
      BY <1>1, <2>1
    <3>2. First(f[j - 1]) \notin f[k - 1]
      BY <1>7, <3>1 DEF Left
    <3>3. First(f[j - 1]) # First(f[k - 1])
      BY <1>8, <3>2
    <3> QED
      BY <1>8, <1>9, <1>11, <3>3
  <2>2. \A i, j \in 1..n : i < j \/ j < i \/ i = j
    BY <1>1
  <2> QED
    BY <1>9, <2>1, <2>2 DEF Distinct
<1> QED
  BY <1>9, <1>10, <1>11 DEF b

\* The list starts with the pair of the highest score and the lowest key.
LEMMA ByScoreFirst ==
  ASSUME NEW S \in SUBSET (Nat \X Nat), IsFiniteSet(S), NEW x \in S,
         \A y \in S : x[1] > y[1] \/ (x[1] = y[1] /\ x[2] <= y[2])
  PROVE  ByScore(S) # <<>> /\ ByScore(S)[1] = x[2]
<1> DEFINE n == Cardinality(S)
<1>1. n \in Nat /\ n # 0
  BY FS_CardinalityType, FS_EmptySet
<1>2. PICK f : /\ f = [i \in 0..n |-> Rest(S, f, i)]
               /\ ByScore(S) = [i \in 1..n |-> First(f[i - 1])[2]]
  BY ByScoreIs
<1> HIDE DEF n
<1>3. 0 \in 0..n /\ 1 \in 1..n /\ 1 - 1 = 0
  BY <1>1
<1>4. f[0] = S
  BY <1>2, <1>3 DEF Rest
<1>5. DOMAIN ByScore(S) = 1..n /\ ByScore(S)[1] = First(S)[2]
  BY <1>2, <1>3, <1>4
<1>6. /\ First(S) \in S
      /\ First(S)[1] > x[1] \/ (First(S)[1] = x[1] /\ First(S)[2] <= x[2])
  BY FirstFacts
<1>7. x[1] > First(S)[1] \/ (x[1] = First(S)[1] /\ x[2] <= First(S)[2])
  BY <1>6
<1>8. /\ x[1] \in Nat /\ x[2] \in Nat
      /\ First(S)[1] \in Nat /\ First(S)[2] \in Nat
  BY <1>6
<1>9. First(S)[2] = x[2]
  BY <1>6, <1>7, <1>8
<1>10. DOMAIN ByScore(S) # DOMAIN <<>>
  BY <1>3, <1>5
<1> QED
  BY <1>5, <1>9, <1>10

----------------------------------------------------------------------------
(* Numbers and sets.                                                       *)

\* The greater and the smaller of two numbers.
LEMMA PairFacts ==
  ASSUME NEW a \in Int, NEW b \in Int
  PROVE  /\ Max({a, b}) = IF a <= b THEN b ELSE a
         /\ Min({a, b}) = IF a <= b THEN a ELSE b
<1> DEFINE S == {a, b}
           m == IF a <= b THEN b ELSE a
           l == IF a <= b THEN a ELSE b
<1>1. m \in S /\ (\A y \in S : m >= y) /\ \A x \in S : (\A y \in S : x >= y) => x = m
  OBVIOUS
<1>2. l \in S /\ (\A y \in S : l <= y) /\ \A x \in S : (\A y \in S : x <= y) => x = l
  OBVIOUS
<1> HIDE DEF S, m, l
<1>3. Max(S) = m
  BY <1>1 DEF Max
<1>4. Min(S) = l
  BY <1>2 DEF Min
<1> QED
  BY <1>3, <1>4 DEF S, m, l

\* What comes first in an order: all if there are no more, the first one if
\* there is room for one, and what comes before something that does.
LEMMA ForemostFacts ==
  ASSUME NEW S, IsFiniteSet(S), NEW n \in Nat, NEW before
  PROVE  /\ Foremost(S, n, before) \subseteq S
         /\ Cardinality(S) <= n /\ (\A x \in S : <<x, x>> \notin before)
              => Foremost(S, n, before) = S
         /\ n # 0 => \A x \in S : (\A y \in S : <<y, x>> \notin before)
                                  => x \in Foremost(S, n, before)
         /\ (\A x, y, z \in S : <<x, y>> \in before /\ <<y, z>> \in before
                                  => <<x, z>> \in before)
              => \A x \in Foremost(S, n, before), y \in S :
                   <<y, x>> \in before => y \in Foremost(S, n, before)
<1> DEFINE F == Foremost(S, n, before)
           Up(x) == {y \in S : <<y, x>> \in before}
<1>1. F = {x \in S : Cardinality(Up(x)) < n}
  BY DEF Foremost
<1>2. \A x : Up(x) \in SUBSET S /\ \A y : y \in Up(x) <=> y \in S /\ <<y, x>> \in before
  OBVIOUS
<1> HIDE DEF F, Up
<1>3. \A x : IsFiniteSet(Up(x)) /\ Cardinality(Up(x)) \in Nat
             /\ Cardinality(Up(x)) <= Cardinality(S)
             /\ (Cardinality(Up(x)) = Cardinality(S) => Up(x) = S)
  BY <1>2, FS_Subset, FS_CardinalityType
<1>4. Cardinality(S) \in Nat
  BY FS_CardinalityType
<1>5. ASSUME Cardinality(S) <= n, \A x \in S : <<x, x>> \notin before PROVE F = S
  <2>1. ASSUME NEW x \in S PROVE Cardinality(Up(x)) < n
    <3>1. Up(x) # S
      BY <1>2, <1>5, <2>1
    <3>2. Cardinality(Up(x)) # Cardinality(S)
      BY <1>3, <3>1
    <3> QED
      BY <1>3, <1>4, <1>5, <3>2
  <2> QED
    BY <1>1, <2>1
<1>6. ASSUME n # 0, NEW x \in S, \A y \in S : <<y, x>> \notin before PROVE x \in F
  <2>1. Up(x) = {}
    BY <1>2, <1>6
  <2>2. Cardinality(Up(x)) = 0
    BY <2>1, FS_EmptySet
  <2> QED
    BY <1>1, <1>6, <2>2
<1>7. ASSUME \A x, y, z \in S : <<x, y>> \in before /\ <<y, z>> \in before => <<x, z>> \in before,
             NEW x \in F, NEW y \in S, <<y, x>> \in before
      PROVE  y \in F
  <2>1. Up(y) \in SUBSET Up(x)
    BY <1>1, <1>2, <1>7
  <2>2. Cardinality(Up(y)) <= Cardinality(Up(x))
    BY <1>3, <2>1, FS_Subset
  <2>3. Cardinality(Up(x)) < n
    BY <1>1, <1>7
  <2>4. Cardinality(Up(x)) \in Nat /\ Cardinality(Up(y)) \in Nat
    BY <1>3
  <2> QED
    BY <1>1, <2>2, <2>3, <2>4
<1> QED
  BY <1>1, <1>5, <1>6, <1>7 DEF F

\* A finite set has a subset of every smaller size.
LEMMA SubsetOfSize ==
  ASSUME NEW S, IsFiniteSet(S), NEW m \in Nat, m <= Cardinality(S)
  PROVE  \E D \in SUBSET S : IsFiniteSet(D) /\ Cardinality(D) = m
<1> DEFINE c == Cardinality(S)
<1>1. c \in Nat /\ ExistsBijection(1..c, S)
  BY FS_CardinalityType
<1>2. PICK f : f \in Bijection(1..c, S)
  BY <1>1 DEF ExistsBijection
<1> HIDE DEF c
<1>3. f \in [1..c -> S] /\ \A i, j \in 1..c : f[i] = f[j] => i = j
  BY <1>2 DEF Bijection, Injection, IsInjective
<1> DEFINE g == [i \in 1..m |-> f[i]]
           D == {f[i] : i \in 1..m}
<1>4. \A i \in 1..m : i \in 1..c
  BY <1>1 DEF c
<1>5. g \in [1..m -> D] /\ D \in SUBSET S
  BY <1>3, <1>4
<1>6. g \in Surjection(1..m, D)
  BY <1>5 DEF Surjection
<1>7. g \in Injection(1..m, D)
  BY <1>3, <1>4, <1>5 DEF Injection, IsInjective
<1>8. ExistsBijection(1..m, D)
  BY <1>6, <1>7 DEF ExistsBijection, Bijection
<1>9. IsFiniteSet(1..m) /\ Cardinality(1..m) = m
  BY FS_Interval
<1> HIDE DEF D, g
<1>10. IsFiniteSet(D) /\ Cardinality(D) = m
  BY <1>8, <1>9, FS_Bijection
<1> QED
  BY <1>5, <1>10

----------------------------------------------------------------------------
(* The memories of files.                                                  *)

\* A store and its relations, whose ends it has.
StoreInv ==
  /\ IsFiniteSet(DOMAIN memories) /\ DOMAIN memories \subseteq Nat \ {0}
  /\ \A k \in DOMAIN memories : memories[k] \in [anchor : SUBSET Paths, archived : BOOLEAN]
  /\ IsFiniteSet(relations) /\ relations \subseteq Nat \X Nat \X Nat
  /\ \A e \in relations : {e[1], e[3]} \subseteq DOMAIN memories

\* A score is a number.
LEMMA ScoreFacts ==
  ASSUME NEW q \in Paths, NEW a \in Paths
  PROVE  Score(q, a) \in Nat /\ Scores[<<q, a>>] = Score(q, a)
<1>1. Len(Dir(q)) \in Nat /\ Len(Dir(a)) \in Nat
  BY DirFacts
<1>2. Score(q, a) \in Nat
  <2> HIDE DEF Dir, Qualified, Base
  <2>1. (200 + 20 * Len(Dir(q))) \in Nat /\ (200 + 20 * Len(Dir(a))) \in Nat
    BY <1>1
  <2> QED
    BY <2>1 DEF Score, NoMatch
<1>3. Scores[<<q, a>>] = Score(q, a)
  BY DEF Scores
<1> QED
  BY <1>2, <1>3

\* The best score of a memory is that of no pair or above all of its pairs.
LEMMA BestFacts ==
  ASSUME StoreInv, NEW files \in SUBSET Paths, NEW k \in DOMAIN memories
  PROVE  /\ Best(files, k) \in Nat
         /\ \A q \in files, a \in memories[k].anchor : Score(q, a) <= Best(files, k)
<1> DEFINE pairs == files \X memories[k].anchor
           S == {NoMatch} \cup {Scores[p] : p \in pairs}
<1>1. memories[k].anchor \in SUBSET Paths
  BY DEF StoreInv
<1>2. IsFiniteSet(files) /\ IsFiniteSet(memories[k].anchor)
  BY <1>1, PathFacts, FS_Subset
<1>3. IsFiniteSet(pairs)
  BY <1>2, FS_Product
<1>4. ASSUME NEW p \in pairs PROVE Scores[p] \in Nat
  <2>1. PICK q \in files, a \in memories[k].anchor : p = <<q, a>>
    OBVIOUS
  <2> QED
    BY <1>1, <2>1, ScoreFacts
<1>5. IsFiniteSet(S)
  <2>1. IsFiniteSet({Scores[p] : p \in pairs})
    <3> DEFINE T == {Scores[p] : p \in pairs}
               f == [p \in pairs |-> Scores[p]]
    <3>1. f \in Surjection(pairs, T)
      BY DEF Surjection
    <3> HIDE DEF T, f
    <3>2. IsFiniteSet(T)
      BY <1>3, <3>1, FS_Surjection
    <3> QED
      BY <3>2 DEF T
  <2> QED
    BY <2>1, FS_AddElement
<1>6. S \in SUBSET Nat /\ S # {}
  BY <1>4 DEF NoMatch
<1>7. Max(S) \in S /\ \A x \in S : x <= Max(S)
  <2> HIDE DEF S
  <2> QED
    BY <1>5, <1>6, MaxFacts
<1>8. Best(files, k) = Max(S)
  BY DEF Best
<1>9. ASSUME NEW q \in files, NEW a \in memories[k].anchor
      PROVE  Score(q, a) \in S
  <2>1. <<q, a>> \in pairs /\ Scores[<<q, a>>] = Score(q, a)
    BY <1>1, ScoreFacts
  <2> QED
    BY <2>1
<1> HIDE DEF S
<1> QED
  BY <1>6, <1>7, <1>8, <1>9

\* The rows of lookups are numbers, of some memories if any are asked for.
LEMMA RowFacts ==
  ASSUME NEW files \in SUBSET Paths, NEW n \in Nat
  PROVE  /\ WholeRows(n) \in Nat /\ (n # 0 => WholeRows(n) # 0)
         /\ CandidateBudget(files, n) \in Nat
         /\ RouteRows(files, n) \in Nat
         /\ \A r : RowsOf(r, files, n) \in Nat
<1>1. /\ ExactRows \in Nat \ {0} /\ MinRows \in Nat /\ MaxRows \in Nat
      /\ MinCandidates \in Nat /\ MaxCandidates \in Nat
  BY RetrievalAssumption
<1>2. \A x, low, high \in Nat : Clamp(x, low, high) \in Nat
  <2> TAKE x, low, high \in Nat
  <2> DEFINE m == Min({x, high})
  <2>1. m = IF x <= high THEN x ELSE high
    BY PairFacts
  <2>2. m \in Nat /\ m \in Int /\ low \in Int
    BY <2>1
  <2>3. Clamp(x, low, high) = Max({low, m})
    BY DEF Clamp
  <2> HIDE DEF m
  <2>4. Max({low, m}) = IF low <= m THEN m ELSE low
    BY <2>2, PairFacts
  <2> QED
    BY <2>2, <2>3, <2>4
<1>3. WholeRows(n) \in Nat /\ (n # 0 => WholeRows(n) # 0)
  <2>1. ExactRows \in Int /\ n \in Int
    BY <1>1
  <2>2. WholeRows(n) = IF n <= ExactRows THEN n ELSE ExactRows
    BY <2>1, PairFacts DEF WholeRows
  <2> QED
    BY <1>1, <2>2
<1>4. CandidateBudget(files, n) \in Nat
  <2> DEFINE c == Cardinality(files) * WholeRows(n)
             x == 32 * n
  <2>1. Cardinality(files) \in Nat
    BY PathFacts, FS_Subset, FS_CardinalityType
  <2>2. c \in Nat /\ x \in Nat
    BY <1>3, <2>1
  <2>3. CandidateBudget(files, n) = Clamp(Max({x, c}), MinCandidates, MaxCandidates)
    BY DEF CandidateBudget
  <2> HIDE DEF c, x
  <2>4. Max({x, c}) = IF x <= c THEN c ELSE x
    BY <2>2, PairFacts
  <2>5. Max({x, c}) \in Nat
    BY <2>2, <2>4
  <2> QED
    BY <1>1, <1>2, <2>3, <2>5
<1>5. RouteRows(files, n) \in Nat
  <2> DEFINE x == 4 * n
  <2>1. x \in Nat
    OBVIOUS
  <2>2. RouteRows(files, n) = Min({Clamp(x, MinRows, MaxRows), CandidateBudget(files, n)})
    BY DEF RouteRows
  <2> HIDE DEF x
  <2> DEFINE y == Clamp(x, MinRows, MaxRows)
             b == CandidateBudget(files, n)
  <2>3. y \in Nat /\ b \in Nat
    BY <1>1, <1>2, <1>4, <2>1
  <2> HIDE DEF y, b
  <2>4. Min({y, b}) = IF y <= b THEN y ELSE b
    BY <2>3, PairFacts
  <2> QED
    BY <2>2, <2>3, <2>4 DEF y, b
<1> QED
  BY <1>3, <1>4, <1>5 DEF RowsOf

\* A route leads to usable memories, and a lookup holds some of them: all if
\* they fit, and the first one.
LEMMA LedFacts ==
  ASSUME StoreInv, NEW files \in SUBSET Paths, NEW n \in Nat, NEW r
  PROVE  /\ Led(r) \subseteq {k \in DOMAIN memories : Usable(k)} /\ IsFiniteSet(Led(r))
         /\ Rows(r, files, n) \subseteq Led(r)
         /\ Cardinality(Led(r)) <= RowsOf(r, files, n) => Rows(r, files, n) = Led(r)
         /\ RowsOf(r, files, n) # 0 =>
              \A k \in Led(r) : (\A j \in Led(r) : k <= j) => k \in Rows(r, files, n)
<1>1. Led(r) \subseteq {k \in DOMAIN memories : Usable(k)} /\ Led(r) \in SUBSET DOMAIN memories
  BY DEF Led
<1>2. IsFiniteSet(Led(r))
  BY <1>1, FS_Subset DEF StoreInv
<1>3. RowsOf(r, files, n) \in Nat
  BY RowFacts
<1>4. Rows(r, files, n) = Foremost(Led(r), RowsOf(r, files, n), ByKey)
  BY DEF Rows
<1>5. \A j, k \in Led(r) : <<j, k>> \in ByKey <=> j < k
  BY <1>1 DEF ByKey
<1>6. Led(r) \subseteq Nat
  BY <1>1 DEF StoreInv
<1>7. \A j, k \in Nat : (j < k => j <= k /\ j # k) /\ (k <= j => ~(j < k))
  OBVIOUS
<1>8. \A k \in Led(r) : <<k, k>> \notin ByKey
  BY <1>5, <1>6, <1>7
<1>9. \A k \in Led(r) : (\A j \in Led(r) : k <= j) => \A j \in Led(r) : <<j, k>> \notin ByKey
  BY <1>5, <1>6, <1>7
<1> DEFINE m == RowsOf(r, files, n)
           L == Led(r)
<1> HIDE DEF m, L
<1>10. /\ Foremost(L, m, ByKey) \subseteq L
       /\ Cardinality(L) <= m /\ (\A x \in L : <<x, x>> \notin ByKey)
            => Foremost(L, m, ByKey) = L
       /\ m # 0 => \A x \in L : (\A y \in L : <<y, x>> \notin ByKey)
                                => x \in Foremost(L, m, ByKey)
  BY <1>2, <1>3, ForemostFacts DEF m, L
<1> QED
  BY <1>1, <1>2, <1>4, <1>8, <1>9, <1>10 DEF m, L

\* The candidates of a lookup: usable memories of its routes, all of them if
\* they fit, and those of whole paths if they do.
LEMMA CandidateFacts ==
  ASSUME StoreInv, NEW files \in SUBSET Paths, NEW n \in Nat
  PROVE  /\ Candidates(files, n) \subseteq {k \in DOMAIN memories : Usable(k)}
         /\ Candidates(files, n) # {} => files # {}
         /\ RoutesFit(files, n) =>
              Candidates(files, n) = UNION {Led(r) : r \in RoutesOf(files)}
         /\ Cardinality(ExactHits(files, n)) <= CandidateBudget(files, n) =>
              ExactHits(files, n) \subseteq Candidates(files, n)
<1> DEFINE hits == RouteHits(files, n)
           exact == ExactHits(files, n)
           b == CandidateBudget(files, n)
           C == Candidates(files, n)
           U == {k \in DOMAIN memories : Usable(k)}
           Fits(D) == Cardinality(D) = b /\ (D \subseteq exact \/ exact \subseteq D)
<1>1. Wholes(files) \subseteq RoutesOf(files)
  BY DEF Wholes, RoutesOf, RoutesAt, Routes
<1>2. hits \in SUBSET U /\ exact \in SUBSET hits
  <2>1. \A r : Rows(r, files, n) \subseteq U
    BY LedFacts
  <2> QED
    BY <1>1, <2>1 DEF RouteHits, ExactHits
<1>3. IsFiniteSet(hits) /\ IsFiniteSet(exact) /\ IsFiniteSet(U)
  <2>1. IsFiniteSet(U)
    BY FS_Subset DEF StoreInv
  <2> HIDE DEF U, hits, exact
  <2>2. IsFiniteSet(hits)
    BY <1>2, <2>1, FS_Subset
  <2> QED
    BY <1>2, <2>1, <2>2, FS_Subset
<1>4. b \in Nat
  BY RowFacts
<1>5. C = IF Cardinality(hits) <= b THEN hits ELSE CHOOSE D \in SUBSET hits : Fits(D)
  BY DEF Candidates
<1>6. files = {} => hits = {}
  BY DEF RouteHits, RoutesOf
<1>7. RoutesFit(files, n) => /\ hits = UNION {Led(r) : r \in RoutesOf(files)}
                             /\ Cardinality(hits) <= b
  <2> SUFFICES ASSUME RoutesFit(files, n)
               PROVE  /\ hits = UNION {Led(r) : r \in RoutesOf(files)}
                      /\ Cardinality(hits) <= b
    OBVIOUS
  <2>1. \A r \in RoutesOf(files) : Rows(r, files, n) = Led(r)
    BY LedFacts DEF RoutesFit
  <2>2. hits = UNION {Led(r) : r \in RoutesOf(files)}
    BY <2>1 DEF RouteHits
  <2> QED
    BY <2>2 DEF RoutesFit
<1> HIDE DEF hits, exact, b, C, U
<1>8. Cardinality(hits) \in Nat /\ Cardinality(exact) \in Nat
  BY <1>3, FS_CardinalityType
<1>9. ASSUME ~(Cardinality(hits) <= b) PROVE \E D \in SUBSET hits : Fits(D)
  <2>1. CASE b <= Cardinality(exact)
    <3>1. PICK D \in SUBSET exact : IsFiniteSet(D) /\ Cardinality(D) = b
      BY <1>3, <1>4, <2>1, SubsetOfSize
    <3>2. D \in SUBSET hits
      BY <1>2
    <3> QED
      BY <3>1, <3>2
  <2>2. CASE ~(b <= Cardinality(exact))
    <3> DEFINE rest == hits \ exact
               m == b - Cardinality(exact)
    <3>1. IsFiniteSet(rest) /\ Cardinality(rest) = Cardinality(hits) - Cardinality(exact)
      <4>1. IsFiniteSet(rest)
        BY <1>3, FS_Subset
      <4>2. rest \cup exact = hits /\ rest \cap exact = {}
        BY <1>2
      <4> HIDE DEF rest
      <4>3. Cardinality(rest) \in Nat /\ Cardinality({}) = 0
        BY <4>1, FS_CardinalityType, FS_EmptySet
      <4>4. Cardinality(rest \cup exact) =
              Cardinality(rest) + Cardinality(exact) - Cardinality(rest \cap exact)
        BY <1>3, <4>1, FS_Union
      <4>5. Cardinality(rest \cap exact) = 0
        BY <4>2, <4>3
      <4>6. Cardinality(hits) = Cardinality(rest) + Cardinality(exact) - 0
        BY <4>2, <4>4, <4>5
      <4> QED
        BY <1>8, <4>1, <4>3, <4>6
    <3>2. m \in Nat /\ m <= Cardinality(hits) - Cardinality(exact)
      BY <1>4, <1>8, <1>9, <2>2
    <3>3. \A x \in rest : x \in hits /\ x \notin exact
      OBVIOUS
    <3> HIDE DEF rest, m
    <3>4. PICK D \in SUBSET rest : IsFiniteSet(D) /\ Cardinality(D) = m
      BY <3>1, <3>2, SubsetOfSize
    <3> DEFINE E == D \cup exact
    <3>5. D \cap exact = {} /\ E \in SUBSET hits /\ exact \subseteq E
      BY <1>2, <3>3
    <3>6. Cardinality(E) = Cardinality(D) + Cardinality(exact) - Cardinality(D \cap exact)
      BY <1>3, <3>4, FS_Union
    <3>7. Cardinality(D \cap exact) = 0
      BY <3>5, FS_EmptySet
    <3>8. Cardinality(E) = b
      BY <1>4, <1>8, <3>4, <3>6, <3>7 DEF m
    <3> HIDE DEF E
    <3> QED
      BY <3>5, <3>8
  <2> QED
    BY <2>1, <2>2
<1>10. C \in SUBSET hits /\ (Cardinality(hits) <= b => C = hits)
       /\ (~(Cardinality(hits) <= b) => Fits(C))
  <2> HIDE DEF Fits
  <2> QED
    BY <1>5, <1>9
<1>11. ASSUME Cardinality(exact) <= b PROVE exact \subseteq C
  <2>1. CASE Cardinality(hits) <= b
    BY <1>2, <1>10, <2>1
  <2>2. CASE Fits(C) /\ C \subseteq exact
    <3>1. Cardinality(C) <= Cardinality(exact) /\ (Cardinality(exact) = Cardinality(C) => exact = C)
      BY <1>3, <2>2, FS_Subset
    <3> QED
      BY <1>4, <1>8, <1>11, <2>2, <3>1
  <2>3. CASE exact \subseteq C
    BY <2>3
  <2> QED
    BY <1>10, <2>1, <2>2, <2>3
<1>12. C # {} => files # {}
  BY <1>6, <1>10
<1> QED
  BY <1>2, <1>7, <1>10, <1>11, <1>12 DEF hits, exact, b, C, U

\* Direct has candidates once each, all that match if the limit is large
\* enough, and the best one first.
LEMMA DirectFacts ==
  ASSUME StoreInv, NEW files \in SUBSET Paths, NEW limit \in Nat
  PROVE  LET found == {k \in Candidates(files, limit) : Best(files, k) # NoMatch} IN
         /\ Direct(files, limit) \in Seq(Nat)
         /\ Distinct(Direct(files, limit))
         /\ ToSet(Direct(files, limit)) \subseteq Candidates(files, limit)
         /\ Cardinality(DOMAIN memories) <= limit => ToSet(Direct(files, limit)) = found
         /\ \A k \in found :
              /\ limit # 0
              /\ \A j \in found : \/ Best(files, j) < Best(files, k)
                                  \/ Best(files, j) = Best(files, k) /\ k <= j
              => Direct(files, limit) # <<>> /\ Direct(files, limit)[1] = k
<1> DEFINE T == {x \in {<<Best(files, k), k>> : k \in Candidates(files, limit)} : x[1] # NoMatch}
           K == {k \in Candidates(files, limit) : Best(files, k) # NoMatch}
           d == DOMAIN memories
<1>1. Direct(files, limit) = Take(ByScore(T), limit)
  BY DEF Direct
<1>2. K \subseteq {k \in d : Usable(k)} /\ IsFiniteSet(d) /\ d \subseteq Nat \ {0}
  BY CandidateFacts DEF StoreInv
<1>3. \A k \in d : Best(files, k) \in Nat
  BY BestFacts
<1>4. T = {<<Best(files, k), k>> : k \in K}
  OBVIOUS
<1>5. IsFiniteSet(K)
  BY <1>2, FS_Subset
<1> HIDE DEF K, d
<1>6. IsFiniteSet(T)
  <2> DEFINE f == [k \in K |-> <<Best(files, k), k>>]
  <2>1. f \in Surjection(K, T)
    BY <1>4 DEF Surjection
  <2> HIDE DEF T, f
  <2> QED
    BY <1>5, <2>1, FS_Surjection
<1>7. T \in SUBSET (Nat \X Nat)
  BY <1>2, <1>3, <1>4
<1>8. {x[2] : x \in T} = K /\ \A x, y \in T : x[2] = y[2] => x = y
  <2> HIDE DEF T
  <2>1. \A x \in T : x[2] \in K /\ x = <<Best(files, x[2]), x[2]>>
    BY <1>4
  <2>2. ASSUME NEW k \in K PROVE <<Best(files, k), k>> \in T /\ <<Best(files, k), k>>[2] = k
    BY <1>4
  <2>3. \A k \in K : k \in {x[2] : x \in T}
    BY <2>2
  <2> QED
    BY <2>1, <2>3
<1> HIDE DEF T
<1>9. ByScore(T) \in Seq(Nat) /\ ToSet(ByScore(T)) = K /\ Distinct(ByScore(T))
  BY <1>6, <1>7, <1>8, ByScoreFacts
<1>10. Len(ByScore(T)) <= Cardinality(d)
  <2>1. Cardinality(K) = Len(ByScore(T))
    BY <1>9, Counted
  <2>2. K \subseteq d
    BY <1>2
  <2>3. Cardinality(K) <= Cardinality(d)
    BY <1>2, <2>2, FS_Subset
  <2> QED
    BY <2>1, <2>3
<1>11. Cardinality(d) <= limit => Take(ByScore(T), limit) = ByScore(T)
  <2>1. Len(ByScore(T)) \in Nat /\ Cardinality(d) \in Nat
    BY <1>2, <1>9, FS_CardinalityType
  <2>2. Len(ByScore(T)) <= limit => Take(ByScore(T), limit) = ByScore(T)
    BY <1>9, TakeFacts
  <2> QED
    BY <1>10, <2>1, <2>2
<1>12. /\ Take(ByScore(T), limit) \in Seq(Nat) /\ Distinct(Take(ByScore(T), limit))
       /\ ToSet(Take(ByScore(T), limit)) \subseteq K
  BY <1>9, TakeFacts
<1>13. K \subseteq Candidates(files, limit)
  BY DEF K
<1>14. ASSUME NEW k \in K, limit # 0,
              \A j \in K : \/ Best(files, j) < Best(files, k)
                           \/ Best(files, j) = Best(files, k) /\ k <= j
       PROVE  Take(ByScore(T), limit) # <<>> /\ Take(ByScore(T), limit)[1] = k
  <2> DEFINE x == <<Best(files, k), k>>
  <2>1. x \in T /\ x[1] = Best(files, k) /\ x[2] = k
    BY <1>4
  <2>2. ASSUME NEW y \in T PROVE x[1] > y[1] \/ (x[1] = y[1] /\ x[2] <= y[2])
    <3>1. PICK j \in K : y = <<Best(files, j), j>>
      BY <1>4
    <3>2. y[1] = Best(files, j) /\ y[2] = j /\ Best(files, j) \in Nat /\ Best(files, k) \in Nat
      BY <1>2, <1>3, <3>1
    <3> HIDE DEF x
    <3> QED
      BY <1>14, <2>1, <3>2
  <2> HIDE DEF x
  <2>3. ByScore(T) # <<>> /\ ByScore(T)[1] = k
    BY <1>6, <1>7, <2>1, <2>2, ByScoreFirst
  <2> DEFINE s == ByScore(T)
             t == Take(s, limit)
  <2> HIDE DEF s
  <2>4. s \in Seq(Nat) /\ s # <<>> /\ s[1] = k
    BY <1>9, <2>3 DEF s
  <2>5. Len(s) \in Nat /\ Len(s) # 0
    BY <2>4
  <2>6. /\ Len(t) = IF limit < Len(s) THEN limit ELSE Len(s)
        /\ t \in Seq(Nat) /\ \A i \in 1..Len(t) : t[i] = s[i]
    BY <2>4, TakeFacts
  <2>7. 1 \in 1..Len(t)
    BY <1>14, <2>5, <2>6
  <2> HIDE DEF t
  <2>8. t # <<>> /\ t[1] = k
    BY <2>4, <2>6, <2>7
  <2> QED
    BY <2>8 DEF s, t
<1> QED
  BY <1>1, <1>9, <1>11, <1>12, <1>13, <1>14 DEF K, d

\* The first memory that is anchored at one of the files is a candidate, as
\* long as the memories anchored there fit the lookup.
LEMMA ExactFound ==
  ASSUME StoreInv, NEW files \in SUBSET Paths, NEW n \in Nat, n # 0,
         NEW k \in DOMAIN memories, Usable(k), NEW f \in files \cap memories[k].anchor,
         \A j \in DOMAIN memories : Usable(j) /\ f \in memories[j].anchor => k <= j,
         Cardinality(ExactHits(files, n)) <= CandidateBudget(files, n)
  PROVE  k \in Candidates(files, n) /\ Best(files, k) # NoMatch
<1> DEFINE r == <<"path", f>>
<1>1. r \in Wholes(files) /\ RowsOf(r, files, n) # 0
  BY RowFacts DEF Wholes, RowsOf
<1>2. ASSUME NEW j \in Led(r) PROVE Usable(j) /\ j \in DOMAIN memories /\ f \in memories[j].anchor
  <2>1. PICK a \in memories[j].anchor : r \in RoutesAt[a] /\ j \in DOMAIN memories /\ Usable(j)
    BY DEF Led
  <2>2. a \in Paths
    BY <2>1 DEF StoreInv
  <2>3. r \in Routes(a)
    BY <2>1, <2>2 DEF RoutesAt
  <2>4. a = f
    BY <2>3 DEF Routes
  <2> QED
    BY <2>1, <2>4
<1>3. k \in Led(r)
  <2>1. f \in Paths
    OBVIOUS
  <2>2. r \in RoutesAt[f]
    BY <2>1 DEF RoutesAt, Routes
  <2> QED
    BY <2>2 DEF Led
<1>4. \A j \in Led(r) : k <= j
  BY <1>2
<1> HIDE DEF r
<1>5. k \in Rows(r, files, n)
  BY <1>1, <1>3, <1>4, LedFacts
<1>6. k \in ExactHits(files, n)
  BY <1>1, <1>5 DEF ExactHits
<1>7. k \in Candidates(files, n)
  BY <1>6, CandidateFacts
<1>8. Score(f, f) = 1000 /\ Score(f, f) <= Best(files, k) /\ Best(files, k) \in Nat
  BY BestFacts DEF Score
<1> QED
  BY <1>7, <1>8 DEF NoMatch

\* A memory that is close to the files is a candidate, as long as the routes
\* fit the lookup.
LEMMA CloseFound ==
  ASSUME StoreInv, NEW files \in SUBSET Paths, NEW n \in Nat,
         NEW k \in DOMAIN memories, Usable(k), Close(files, k), RoutesFit(files, n)
  PROVE  k \in Candidates(files, n) /\ Best(files, k) # NoMatch
<1>1. PICK q \in files, a \in memories[k].anchor :
        Scores[<<q, a>>] # NoMatch /\ ~OutOfReach(q, a)
  BY DEF Close
<1>2. q \in Paths /\ a \in Paths
  BY DEF StoreInv
<1>3. Score(q, a) # NoMatch /\ Score(q, a) \in Nat
  BY <1>1, <1>2, ScoreFacts
<1>4. Reached(q, a)
  BY <1>1, <1>2, <1>3, MatchIsReached
<1>5. PICK r : r \in Routes(q) /\ r \in Routes(a)
  BY <1>4 DEF Reached
<1>6. r \in RoutesAt[q] /\ r \in RoutesAt[a]
  BY <1>2, <1>5 DEF RoutesAt
<1>7. k \in Led(r) /\ r \in RoutesOf(files)
  BY <1>1, <1>6 DEF Led, RoutesOf
<1>8. k \in Candidates(files, n)
  BY <1>7, CandidateFacts
<1>9. Score(q, a) <= Best(files, k) /\ Best(files, k) \in Nat
  BY BestFacts
<1> QED
  BY <1>3, <1>8, <1>9 DEF NoMatch

\* NoMatchLost for the store as it is.
LEMMA MatchesFound ==
  ASSUME StoreInv
  PROVE  NoMatchLost
<1> DEFINE n == Cardinality(DOMAIN memories)
<1> SUFFICES ASSUME NEW q \in Paths, NEW k \in DOMAIN memories,
                    Usable(k), Close({q}, k), RoutesFit({q}, n)
             PROVE  k \in ToSet(Direct({q}, n))
  BY DEF NoMatchLost
<1>1. n \in Nat /\ {q} \in SUBSET Paths /\ Cardinality(DOMAIN memories) = n
  BY FS_CardinalityType DEF StoreInv
<1> HIDE DEF n
<1>2. k \in Candidates({q}, n) /\ Best({q}, k) # NoMatch
  BY <1>1, CloseFound
<1>3. n <= n
  BY <1>1
<1> QED
  BY <1>1, <1>2, <1>3, DirectFacts

\* What a list is extended by is at most the other list.
LEMMA ExtendLength ==
  ASSUME NEW A, NEW s \in Seq(A), NEW t \in Seq(A), Distinct(s), Distinct(t)
  PROVE  /\ Len(Extend(s, t)) = Cardinality(ToSet(s) \cup ToSet(t))
         /\ Len(Extend(s, t)) <= Len(s) + Len(t)
<1> DEFINE e == Extend(s, t)
<1>1. e \in Seq(A) /\ ToSet(e) = ToSet(s) \cup ToSet(t) /\ Distinct(e)
  BY ExtendFacts
<1> HIDE DEF e
<1>2. Cardinality(ToSet(e)) = Len(e)
  BY <1>1, Counted
<1>3. /\ IsFiniteSet(ToSet(s)) /\ Cardinality(ToSet(s)) = Len(s)
      /\ IsFiniteSet(ToSet(t)) /\ Cardinality(ToSet(t)) = Len(t)
  BY Counted
<1>4. Cardinality(ToSet(s) \cup ToSet(t)) = Len(s) + Len(t) - Cardinality(ToSet(s) \cap ToSet(t))
  BY <1>3, FS_Union
<1>5. Cardinality(ToSet(s) \cap ToSet(t)) \in Nat /\ Len(s) \in Nat /\ Len(t) \in Nat
  BY <1>3, FS_Intersection, FS_CardinalityType, Members
<1> QED
  BY <1>1, <1>2, <1>4, <1>5 DEF e

\* A filter repeats nothing that its list does not repeat.
LEMMA FilteredDistinct ==
  ASSUME NEW A, NEW s \in Seq(A), NEW S, Distinct(s)
  PROVE  Distinct(Filtered(s, S))
<1> DEFINE f == Filtered(s, S)
<1>1. /\ f \in Seq(A \cap S)
      /\ \A j, k \in 1..Len(f) : j < k =>
           \E m, n \in 1..Len(s) : m < n /\ s[m] = f[j] /\ s[n] = f[k]
  BY FilteredFacts
<1> HIDE DEF f
<1>2. Len(f) \in Nat /\ Len(s) \in Nat
  BY <1>1
<1>3. ASSUME NEW j \in 1..Len(f), NEW k \in 1..Len(f), j < k PROVE f[j] # f[k]
  <2>1. PICK m \in 1..Len(s), n \in 1..Len(s) : m < n /\ s[m] = f[j] /\ s[n] = f[k]
    BY <1>1, <1>3
  <2>2. m # n
    BY <1>2, <2>1
  <2> QED
    BY <2>1, <2>2 DEF Distinct
<1>4. \A j, k \in 1..Len(f) : j < k \/ k < j \/ j = k
  BY <1>2
<1> QED
  BY <1>3, <1>4 DEF Distinct, f

----------------------------------------------------------------------------
(* The slots of the classes.                                               *)

Slots(n, class, limit, budget) ==
  IF class = <<>> THEN 0 ELSE Min({Max({limit \div n, 1}), Len(class), budget})

\* A class that is not empty has a slot if there is one, and never more than given.
LEMMA SlotsFacts ==
  ASSUME NEW n \in Nat \ {0}, NEW class \in Seq(Nat), NEW limit \in Nat, NEW budget \in Nat
  PROVE  /\ Slots(n, class, limit, budget) \in Nat
         /\ Slots(n, class, limit, budget) <= budget
         /\ Slots(n, class, limit, budget) <= limit \div n
              \/ Slots(n, class, limit, budget) <= 1
         /\ class = <<>> => Slots(n, class, limit, budget) = 0
         /\ class # <<>> /\ budget >= 1 => Slots(n, class, limit, budget) >= 1
<1>1. CASE class = <<>>
  <2>1. Slots(n, class, limit, budget) = 0
    BY <1>1 DEF Slots
  <2> QED
    BY <1>1, <2>1
<1>2. CASE class # <<>>
  <2> DEFINE share == limit \div n
             m == Max({share, 1})
             S == {m, Len(class), budget}
             x == Min(S)
  <2>1. share \in Nat
    OBVIOUS
  <2> HIDE DEF share
  <2>2. m = IF share <= 1 THEN 1 ELSE share
    BY <2>1, PairFacts
  <2> HIDE DEF m
  <2>3. m \in Nat /\ m >= 1 /\ (m <= share \/ m <= 1)
    BY <2>1, <2>2
  <2>4. Len(class) \in Nat /\ Len(class) >= 1
    BY <1>2, Members
  <2>5. S \in SUBSET Nat /\ S # {}
    BY <2>3, <2>4
  <2>6. x \in S /\ \A y \in S : x <= y
    <3> HIDE DEF S
    <3> QED
      BY <2>5, MinFacts
  <2>7. /\ x = m \/ x = Len(class) \/ x = budget
        /\ x <= m /\ x <= budget
    BY <2>6
  <2>8. Slots(n, class, limit, budget) = x
    BY <1>2 DEF Slots, m, share
  <2> HIDE DEF x, S
  <2>9. /\ x \in Nat /\ x <= budget /\ (x <= share \/ x <= 1)
        /\ budget >= 1 => x >= 1
    BY <2>1, <2>3, <2>4, <2>7
  <2> QED
    BY <1>2, <2>8, <2>9 DEF share
<1> QED
  BY <1>1, <1>2

Given(class) == IF class = <<>> THEN 0 ELSE 1
SlotsLinked(d, r, limit) == Slots(4, r, limit, limit - Given(d))
SlotsUniversal(d, r, u, limit) ==
  Slots(10, u, limit, limit - Given(d) - SlotsLinked(d, r, limit))

\* The slots of both classes leave one to the direct memories, two of four.
LEMMA ShareFacts ==
  ASSUME NEW d \in Seq(Nat), NEW r \in Seq(Nat), NEW u \in Seq(Nat), NEW limit \in Nat \ {0}
  PROVE  /\ SlotsLinked(d, r, limit) \in Nat /\ SlotsUniversal(d, r, u, limit) \in Nat
         /\ SlotsLinked(d, r, limit) + SlotsUniversal(d, r, u, limit) <= limit - Given(d)
         /\ limit >= 4 => SlotsLinked(d, r, limit) + SlotsUniversal(d, r, u, limit) <= limit - 2
         /\ r # <<>> /\ limit > Given(d) => SlotsLinked(d, r, limit) >= 1
         /\ u # <<>> /\ limit > Given(d) + Given(r) => SlotsUniversal(d, r, u, limit) >= 1
<1> DEFINE others == limit - Given(d)
           x == SlotsLinked(d, r, limit)
           y == SlotsUniversal(d, r, u, limit)
<1>1. Given(d) \in {0, 1} /\ Given(r) \in {0, 1} /\ others \in Nat
  BY DEF Given
<1>2. x = Slots(4, r, limit, others) /\ y = Slots(10, u, limit, others - x)
  BY DEF SlotsLinked, SlotsUniversal
<1>3. 4 \in Nat \ {0} /\ 10 \in Nat \ {0}
  OBVIOUS
<1> HIDE DEF x, y, others
<1>4. /\ x \in Nat /\ x <= others /\ (x <= limit \div 4 \/ x <= 1)
      /\ r = <<>> => x = 0
      /\ r # <<>> /\ others >= 1 => x >= 1
  BY <1>1, <1>2, <1>3, SlotsFacts
<1>5. others - x \in Nat
  BY <1>1, <1>4
<1>6. /\ y \in Nat /\ y <= others - x /\ (y <= limit \div 10 \/ y <= 1)
      /\ u # <<>> /\ others - x >= 1 => y >= 1
  BY <1>2, <1>3, <1>5, SlotsFacts
<1>7. x + y <= others
  BY <1>1, <1>4, <1>6
<1>8. limit >= 4 => x + y <= limit - 2
  <2>1. limit \div 4 <= limit /\ 4 * (limit \div 4) <= limit /\ limit \div 4 \in Nat
    OBVIOUS
  <2>2. 10 * (limit \div 10) <= limit /\ limit \div 10 \in Nat
    OBVIOUS
  <2> QED
    BY <1>4, <1>6, <2>1, <2>2
<1>9. r # <<>> /\ limit > Given(d) => x >= 1
  BY <1>1, <1>4 DEF others
<1>10. ASSUME u # <<>>, limit > Given(d) + Given(r) PROVE y >= 1
  <2>1. 4 * (limit \div 4) <= limit /\ limit \div 4 \in Nat
    OBVIOUS
  <2>2. r = <<>> => Given(r) = 0
    BY DEF Given
  <2>3. r # <<>> => Given(r) = 1
    BY DEF Given
  <2>4. others - x >= 1
    <3>1. CASE r = <<>>
      BY <1>1, <1>4, <1>10, <2>2, <3>1 DEF others
    <3>2. CASE r # <<>>
      BY <1>1, <1>4, <1>10, <2>1, <2>3, <3>2 DEF others
    <3> QED
      BY <3>1, <3>2
  <2> QED
    BY <1>6, <1>10, <2>4
<1> QED
  BY <1>4, <1>6, <1>7, <1>8, <1>9, <1>10 DEF x, y, others

Reserved(d, r, u, limit) ==
  Extend(Extend(Take(d, limit - SlotsLinked(d, r, limit) - SlotsUniversal(d, r, u, limit)),
                Take(r, SlotsLinked(d, r, limit))),
         Take(u, SlotsUniversal(d, r, u, limit)))

All(d, r, u, limit) == Extend(Extend(Extend(Reserved(d, r, u, limit), d), r), u)

\* The selection fills up its reserve.
LEMMA SelectIs ==
  ASSUME NEW d, NEW r, NEW u, NEW limit
  PROVE  Select(d, r, u, limit) =
           IF limit = 0 THEN <<>> ELSE Take(All(d, r, u, limit), limit)
BY DEF Select, All, Reserved, SlotsLinked, SlotsUniversal, Slots, Given

\* The reserve keeps a slot for each class, and is within the limit.
LEMMA ReservedFacts ==
  ASSUME NEW d \in Seq(Nat), NEW r \in Seq(Nat), NEW u \in Seq(Nat), NEW limit \in Nat \ {0},
         Distinct(d), Distinct(r), Distinct(u)
  PROVE  /\ Reserved(d, r, u, limit) \in Seq(Nat)
         /\ Distinct(Reserved(d, r, u, limit))
         /\ Len(Reserved(d, r, u, limit)) <= limit
         /\ ToSet(Reserved(d, r, u, limit)) \subseteq ToSet(d) \cup ToSet(r) \cup ToSet(u)
         /\ d # <<>> => Reserved(d, r, u, limit) # <<>> /\ Reserved(d, r, u, limit)[1] = d[1]
         /\ limit >= 4 /\ Len(d) >= 2 => d[2] \in ToSet(Reserved(d, r, u, limit))
         /\ r # <<>> /\ limit > Given(d) => r[1] \in ToSet(Reserved(d, r, u, limit))
         /\ u # <<>> /\ limit > Given(d) + Given(r) => u[1] \in ToSet(Reserved(d, r, u, limit))
<1> DEFINE x == SlotsLinked(d, r, limit)
           y == SlotsUniversal(d, r, u, limit)
           n == limit - x - y
           a == Take(d, n)
           b == Take(r, x)
           c == Take(u, y)
           ab == Extend(a, b)
           abc == Extend(ab, c)
<1>1. Reserved(d, r, u, limit) = abc
  BY DEF Reserved
<1>2. /\ x \in Nat /\ y \in Nat /\ x + y <= limit - Given(d)
      /\ limit >= 4 => x + y <= limit - 2
      /\ r # <<>> /\ limit > Given(d) => x >= 1
      /\ u # <<>> /\ limit > Given(d) + Given(r) => y >= 1
  BY ShareFacts
<1>3. Given(d) \in {0, 1} /\ (d # <<>> => Given(d) = 1)
  BY DEF Given
<1> HIDE DEF x, y
<1>4. /\ n \in Nat /\ n + x + y = limit
      /\ limit >= 4 => n >= 2
      /\ d # <<>> => n >= 1
  BY <1>2, <1>3
<1> HIDE DEF n
<1>5. /\ a \in Seq(Nat) /\ Distinct(a) /\ ToSet(a) \subseteq ToSet(d)
      /\ Len(a) = (IF n < Len(d) THEN n ELSE Len(d))
      /\ \A i \in 1..Len(a) : a[i] = d[i]
  BY <1>4, TakeFacts
<1>6. /\ b \in Seq(Nat) /\ Distinct(b) /\ ToSet(b) \subseteq ToSet(r)
      /\ Len(b) = (IF x < Len(r) THEN x ELSE Len(r))
      /\ \A i \in 1..Len(b) : b[i] = r[i]
  BY <1>2, TakeFacts
<1>7. /\ c \in Seq(Nat) /\ Distinct(c) /\ ToSet(c) \subseteq ToSet(u)
      /\ Len(c) = (IF y < Len(u) THEN y ELSE Len(u))
      /\ \A i \in 1..Len(c) : c[i] = u[i]
  BY <1>2, TakeFacts
<1> HIDE DEF a, b, c
<1>8. /\ ab \in Seq(Nat) /\ Distinct(ab) /\ ToSet(ab) = ToSet(a) \cup ToSet(b)
      /\ Len(a) <= Len(ab) /\ \A i \in 1..Len(a) : ab[i] = a[i]
  BY <1>5, <1>6, ExtendFacts
<1>9. Len(ab) <= Len(a) + Len(b)
  BY <1>5, <1>6, ExtendLength
<1> HIDE DEF ab
<1>10. /\ abc \in Seq(Nat) /\ Distinct(abc) /\ ToSet(abc) = ToSet(ab) \cup ToSet(c)
       /\ Len(ab) <= Len(abc) /\ \A i \in 1..Len(ab) : abc[i] = ab[i]
  BY <1>7, <1>8, ExtendFacts
<1>11. Len(abc) <= Len(ab) + Len(c)
  BY <1>7, <1>8, ExtendLength
<1> HIDE DEF abc
<1>12. /\ Len(d) \in Nat /\ Len(r) \in Nat /\ Len(u) \in Nat /\ Len(a) \in Nat
       /\ Len(b) \in Nat /\ Len(c) \in Nat /\ Len(ab) \in Nat /\ Len(abc) \in Nat
  BY <1>5, <1>6, <1>7, <1>8, <1>10, Members
<1>13. Len(abc) <= limit
  <2>1. Len(a) <= n /\ Len(b) <= x /\ Len(c) <= y
    <3>1. Len(a) <= n
      BY <1>4, <1>5, <1>12
    <3>2. Len(b) <= x
      BY <1>2, <1>6, <1>12
    <3>3. Len(c) <= y
      BY <1>2, <1>7, <1>12
    <3> QED
      BY <3>1, <3>2, <3>3
  <2>2. Len(abc) <= Len(a) + Len(b) + Len(c)
    BY <1>9, <1>11, <1>12
  <2>3. limit \in Nat /\ n \in Nat /\ x \in Nat /\ y \in Nat /\ n + x + y = limit
    BY <1>2, <1>4
  <2> QED
    BY <1>12, <2>1, <2>2, <2>3
<1>14. ToSet(abc) \subseteq ToSet(d) \cup ToSet(r) \cup ToSet(u)
  BY <1>5, <1>6, <1>7, <1>8, <1>10
<1>15. ASSUME d # <<>> PROVE abc # <<>> /\ abc[1] = d[1]
  <2>1. Len(d) >= 1 /\ Len(a) >= 1
    <3>1. Len(d) # 0
      BY <1>15, Members
    <3> QED
      BY <1>4, <1>5, <1>12, <1>15, <3>1
  <2>2. 1 \in 1..Len(a) /\ 1 \in 1..Len(ab) /\ Len(abc) # 0
    BY <1>8, <1>10, <1>12, <2>1
  <2> QED
    BY <1>5, <1>8, <1>10, <2>2, Members
<1>16. ASSUME limit >= 4, Len(d) >= 2 PROVE d[2] \in ToSet(abc)
  <2>1. Len(a) >= 2
    BY <1>4, <1>5, <1>12, <1>16
  <2>2. 2 \in 1..Len(a)
    BY <1>12, <2>1
  <2>3. a[2] = d[2] /\ a[2] \in ToSet(a)
    BY <1>5, <2>2, Members
  <2> QED
    BY <1>8, <1>10, <2>3
<1>17. ASSUME r # <<>>, limit > Given(d) PROVE r[1] \in ToSet(abc)
  <2>1. Len(b) >= 1
    <3>1. Len(r) # 0 /\ x >= 1
      BY <1>2, <1>17, Members
    <3> QED
      BY <1>2, <1>6, <1>12, <3>1
  <2>2. 1 \in 1..Len(b)
    BY <1>12, <2>1
  <2>3. b[1] = r[1] /\ b[1] \in ToSet(b)
    BY <1>6, <2>2, Members
  <2> QED
    BY <1>8, <1>10, <2>3
<1>18. ASSUME u # <<>>, limit > Given(d) + Given(r) PROVE u[1] \in ToSet(abc)
  <2>1. Len(c) >= 1
    <3>1. Len(u) # 0 /\ y >= 1
      BY <1>2, <1>18, Members
    <3> QED
      BY <1>2, <1>7, <1>12, <3>1
  <2>2. 1 \in 1..Len(c)
    BY <1>12, <2>1
  <2>3. c[1] = u[1] /\ c[1] \in ToSet(c)
    BY <1>7, <2>2, Members
  <2> QED
    BY <1>10, <2>3
<1> QED
  BY <1>1, <1>10, <1>13, <1>14, <1>15, <1>16, <1>17, <1>18

\* What the selection shows of the reserve, and that it misses nothing else.
LEMMA SelectFacts ==
  ASSUME NEW d \in Seq(Nat), NEW r \in Seq(Nat), NEW u \in Seq(Nat), NEW limit \in Nat,
         Distinct(d), Distinct(r), Distinct(u)
  PROVE  /\ Select(d, r, u, limit) \in Seq(Nat)
         /\ Distinct(Select(d, r, u, limit))
         /\ Len(Select(d, r, u, limit)) <= limit
         /\ ToSet(Select(d, r, u, limit)) \subseteq ToSet(d) \cup ToSet(r) \cup ToSet(u)
         /\ Len(Select(d, r, u, limit)) < limit =>
              ToSet(Select(d, r, u, limit)) = ToSet(d) \cup ToSet(r) \cup ToSet(u)
         /\ d # <<>> /\ limit >= 1 => d[1] \in ToSet(Select(d, r, u, limit))
         /\ limit >= 4 /\ Len(d) >= 2 => d[2] \in ToSet(Select(d, r, u, limit))
         /\ r # <<>> /\ limit > Given(d) => r[1] \in ToSet(Select(d, r, u, limit))
         /\ u # <<>> /\ limit > Given(d) + Given(r) => u[1] \in ToSet(Select(d, r, u, limit))
<1> DEFINE s == Select(d, r, u, limit)
<1>1. CASE limit = 0
  <2>1. s = <<>>
    BY <1>1, SelectIs
  <2>2. s \in Seq(Nat) /\ Len(s) = 0
    BY <2>1
  <2> HIDE DEF s
  <2>3. ToSet(s) = {} /\ Distinct(s)
    <3>1. ToSet(s) = {}
      BY <2>1, <2>2, Members
    <3>2. Distinct(s)
      BY <2>2 DEF Distinct
    <3> QED
      BY <3>1, <3>2
  <2>4. Given(d) \in {0, 1} /\ Given(r) \in {0, 1}
    BY DEF Given
  <2> QED
    BY <1>1, <2>2, <2>3, <2>4 DEF s
<1>2. CASE limit # 0
  <2> DEFINE R == Reserved(d, r, u, limit)
             Rd == Extend(R, d)
             Rdr == Extend(Rd, r)
             A == Extend(Rdr, u)
  <2>1. limit \in Nat \ {0}
    BY <1>2
  <2>2. /\ R \in Seq(Nat) /\ Distinct(R) /\ Len(R) <= limit
        /\ ToSet(R) \subseteq ToSet(d) \cup ToSet(r) \cup ToSet(u)
        /\ d # <<>> => R # <<>> /\ R[1] = d[1]
        /\ limit >= 4 /\ Len(d) >= 2 => d[2] \in ToSet(R)
        /\ r # <<>> /\ limit > Given(d) => r[1] \in ToSet(R)
        /\ u # <<>> /\ limit > Given(d) + Given(r) => u[1] \in ToSet(R)
    BY <2>1, ReservedFacts
  <2>3. s = Take(A, limit)
    BY <1>2, SelectIs DEF All
  <2> HIDE DEF R, s
  <2>4. /\ Rd \in Seq(Nat) /\ Distinct(Rd) /\ ToSet(Rd) = ToSet(R) \cup ToSet(d)
        /\ Len(R) <= Len(Rd) /\ \A i \in 1..Len(R) : Rd[i] = R[i]
    <3>1. R \in Seq(Nat) /\ Distinct(R)
      BY <2>2
    <3> QED
      BY <3>1, ExtendFacts
  <2> HIDE DEF Rd
  <2>5. /\ Rdr \in Seq(Nat) /\ Distinct(Rdr) /\ ToSet(Rdr) = ToSet(Rd) \cup ToSet(r)
        /\ Len(Rd) <= Len(Rdr) /\ \A i \in 1..Len(Rd) : Rdr[i] = Rd[i]
    BY <2>4, ExtendFacts
  <2> HIDE DEF Rdr
  <2>6. /\ A \in Seq(Nat) /\ Distinct(A) /\ ToSet(A) = ToSet(Rdr) \cup ToSet(u)
        /\ Len(Rdr) <= Len(A) /\ \A i \in 1..Len(Rdr) : A[i] = Rdr[i]
    BY <2>5, ExtendFacts
  <2> HIDE DEF A
  <2>7. /\ s \in Seq(Nat) /\ Distinct(s) /\ ToSet(s) \subseteq ToSet(A)
        /\ Len(s) = (IF limit < Len(A) THEN limit ELSE Len(A))
        /\ \A i \in 1..Len(s) : s[i] = A[i]
        /\ Len(A) <= limit => s = A
    BY <2>3, <2>6, TakeFacts
  <2>8. /\ Len(R) \in Nat /\ Len(Rd) \in Nat /\ Len(Rdr) \in Nat /\ Len(A) \in Nat
    BY <2>2, <2>4, <2>5, <2>6, Members
  <2>9. ToSet(A) = ToSet(d) \cup ToSet(r) \cup ToSet(u)
    BY <2>2, <2>4, <2>5, <2>6
  <2>10. Len(s) <= limit /\ (Len(s) < limit => s = A)
    BY <2>7, <2>8
  <2>11. ToSet(R) \subseteq ToSet(s)
    <3> SUFFICES ASSUME NEW i \in 1..Len(R) PROVE R[i] \in ToSet(s)
      <4>1. \A x : x \in ToSet(R) => \E i \in 1..Len(R) : R[i] = x
        BY <2>2, Members
      <4> QED
        BY <4>1
    <3>1. i \in 1..Len(Rd) /\ i \in 1..Len(Rdr) /\ i \in 1..Len(A) /\ i <= limit
      <4>1. Len(R) <= limit /\ Len(R) <= Len(Rd) /\ Len(Rd) <= Len(Rdr) /\ Len(Rdr) <= Len(A)
        BY <2>2, <2>4, <2>5, <2>6
      <4> QED
        BY <2>8, <4>1
    <3>2. i \in 1..Len(s)
      BY <2>7, <2>8, <3>1
    <3>3. s[i] = R[i]
      BY <2>4, <2>5, <2>6, <2>7, <3>1, <3>2
    <3> QED
      BY <2>7, <3>2, <3>3, Members
  <2>12. d # <<>> => d[1] \in ToSet(s)
    BY <2>2, <2>11, Members
  <2> QED
    BY <2>2, <2>7, <2>9, <2>10, <2>11, <2>12 DEF s
<1> QED
  BY <1>1, <1>2

----------------------------------------------------------------------------
(* The hits of a task and the memories of its files, in turns.             *)

\* The end of a list.
LEMMA SegmentFacts ==
  ASSUME NEW A, NEW s \in Seq(A), NEW m \in Nat \ {0}
  PROVE  /\ SubSeq(s, m, Len(s)) \in Seq(A)
         /\ ToSet(SubSeq(s, m, Len(s))) \subseteq ToSet(s)
         /\ m = 1 => SubSeq(s, m, Len(s)) = s
<1> DEFINE t == SubSeq(s, m, Len(s))
<1>1. Len(s) \in Nat
  OBVIOUS
<1>2. t \in Seq(A)
  BY <1>1
<1>3. \A i \in 1..Len(t) : m + i - 1 \in 1..Len(s) /\ t[i] = s[m + i - 1]
  BY <1>1
<1>4. m = 1 => t = s
  BY <1>1
<1> HIDE DEF t
<1>5. ToSet(t) \subseteq ToSet(s)
  <2> SUFFICES ASSUME NEW x \in ToSet(t) PROVE x \in ToSet(s)
    OBVIOUS
  <2>1. PICK i \in 1..Len(t) : t[i] = x
    BY <1>2, Members
  <2>2. m + i - 1 \in 1..Len(s) /\ s[m + i - 1] = x
    BY <1>3, <2>1
  <2> QED
    BY <2>2, Members
<1> QED
  BY <1>2, <1>4, <1>5 DEF t

Turn(s, t, i) == IF i % 2 = 1 THEN Take(SubSeq(s, (i + 1) \div 2, Len(s)), 1)
                              ELSE Take(SubSeq(t, i \div 2, Len(t)), 1)

Turns(s, t, f, i) == IF i = 0 THEN <<>> ELSE Extend(f[i - 1], Turn(s, t, i))

\* The first element of a list as a list.
LEMMA TakeOne ==
  ASSUME NEW A, NEW s \in Seq(A)
  PROVE  /\ Take(s, 1) \in Seq(A) /\ ToSet(Take(s, 1)) \subseteq ToSet(s)
         /\ Distinct(Take(s, 1))
         /\ s = <<>> => Take(s, 1) = <<>>
         /\ s # <<>> => Len(Take(s, 1)) = 1 /\ Take(s, 1)[1] = s[1]
<1> DEFINE t == Take(s, 1)
<1>1. /\ t \in Seq(A) /\ ToSet(t) \subseteq ToSet(s)
      /\ Len(t) = (IF 1 < Len(s) THEN 1 ELSE Len(s))
      /\ \A i \in 1..Len(t) : t[i] = s[i]
      /\ Len(s) <= 1 => t = s
  BY TakeFacts
<1> HIDE DEF t
<1>2. Len(s) \in Nat /\ (s = <<>> <=> Len(s) = 0)
  BY Members
<1>3. Len(t) \in Nat /\ Len(t) <= 1
  BY <1>1, <1>2
<1>4. \A i, j \in 1..Len(t) : i = j
  BY <1>3
<1>5. Distinct(t)
  BY <1>4 DEF Distinct
<1>6. s = <<>> => t = <<>>
  BY <1>1, <1>2
<1>7. ASSUME s # <<>> PROVE Len(t) = 1 /\ t[1] = s[1]
  <2>1. Len(t) = 1
    <3>1. Len(s) # 0 /\ Len(t) = (IF 1 < Len(s) THEN 1 ELSE Len(s))
      BY <1>1, <1>2, <1>7
    <3> QED
      BY <1>2, <3>1
  <2>2. 1 \in 1..Len(t)
    BY <2>1
  <2> QED
    BY <1>1, <2>1, <2>2
<1> QED
  BY <1>1, <1>5, <1>6, <1>7 DEF t

\* A turn adds at most one key, the first two the first keys of the lists.
LEMMA TurnFacts ==
  ASSUME NEW s \in Seq(Nat), NEW t \in Seq(Nat), NEW i \in Nat \ {0}
  PROVE  /\ Turn(s, t, i) \in Seq(Nat) /\ Distinct(Turn(s, t, i))
         /\ ToSet(Turn(s, t, i)) \subseteq ToSet(s) \cup ToSet(t)
         /\ i = 1 => Turn(s, t, i) = Take(s, 1)
         /\ i = 2 => Turn(s, t, i) = Take(t, 1)
<1>1. CASE i % 2 = 1
  <2> DEFINE m == (i + 1) \div 2
             u == SubSeq(s, m, Len(s))
  <2>1. m \in Nat \ {0} /\ (i = 1 => m = 1) /\ i # 2
    BY <1>1
  <2> HIDE DEF m
  <2>2. u \in Seq(Nat) /\ ToSet(u) \subseteq ToSet(s) /\ (m = 1 => u = s)
    BY <2>1, SegmentFacts
  <2>3. Turn(s, t, i) = Take(u, 1)
    BY <1>1 DEF Turn, m
  <2> HIDE DEF u
  <2>4. Take(u, 1) \in Seq(Nat) /\ ToSet(Take(u, 1)) \subseteq ToSet(u) /\ Distinct(Take(u, 1))
    BY <2>2, TakeOne
  <2> QED
    BY <2>1, <2>2, <2>3, <2>4
<1>2. CASE i % 2 # 1
  <2> DEFINE m == i \div 2
             u == SubSeq(t, m, Len(t))
  <2>1. m \in Nat \ {0} /\ (i = 2 => m = 1) /\ i # 1
    BY <1>2
  <2> HIDE DEF m
  <2>2. u \in Seq(Nat) /\ ToSet(u) \subseteq ToSet(t) /\ (m = 1 => u = t)
    BY <2>1, SegmentFacts
  <2>3. Turn(s, t, i) = Take(u, 1)
    BY <1>2 DEF Turn, m
  <2> HIDE DEF u
  <2>4. Take(u, 1) \in Seq(Nat) /\ ToSet(Take(u, 1)) \subseteq ToSet(u) /\ Distinct(Take(u, 1))
    BY <2>2, TakeOne
  <2> QED
    BY <2>1, <2>2, <2>3, <2>4
<1> QED
  BY <1>1, <1>2

\* The recursive function in Alternate exists.
LEMMA AlternateIs ==
  ASSUME NEW s \in Seq(Nat), NEW t \in Seq(Nat)
  PROVE  LET n == 2 * Max({Len(s), Len(t)}) IN
         /\ n \in Nat /\ n >= 2 * Len(t)
         /\ \E f : /\ f = [i \in 0..n |-> Turns(s, t, f, i)]
                   /\ Alternate(s, t) = f[n]
<1> DEFINE n == 2 * Max({Len(s), Len(t)})
<1>1. n \in Nat /\ n >= 2 * Len(t)
  <2> DEFINE a == Len(s)
             b == Len(t)
             m == Max({a, b})
  <2>1. a \in Nat /\ b \in Nat
    OBVIOUS
  <2> HIDE DEF a, b
  <2>2. m = IF a <= b THEN b ELSE a
    BY <2>1, PairFacts
  <2>3. n = 2 * m
    BY DEF a, b
  <2> HIDE DEF m, n
  <2>4. n \in Nat /\ n >= 2 * b
    BY <2>1, <2>2, <2>3
  <2> QED
    BY <2>4 DEF b
<1> DEFINE at(i) == IF i % 2 = 1 THEN Take(SubSeq(s, (i + 1) \div 2, Len(s)), 1)
                                 ELSE Take(SubSeq(t, i \div 2, Len(t)), 1)
           Is(f) == f = [i \in 0..n |-> IF i = 0 THEN <<>> ELSE Extend(f[i - 1], at(i))]
           upTo == CHOOSE f : Is(f)
<1>2. Alternate(s, t) = upTo[n]
  BY DEF Alternate
<1>3. \A i : at(i) = Turn(s, t, i)
  BY DEF Turn
<1> HIDE DEF n, at
<1>4. \E f : Is(f)
  <2> DEFINE D == Seq(Nat)
             g == [i \in 1..n |-> [x \in D |-> Extend(x, at(i))]]
  <2>1. g \in [1..n -> [D -> D]]
    <3>1. ASSUME NEW i \in 1..n, NEW x \in D PROVE Extend(x, at(i)) \in D
      <4>1. i \in Nat \ {0}
        OBVIOUS
      <4>2. at(i) \in Seq(Nat)
        BY <1>3, <4>1, TurnFacts
      <4> QED
        BY <4>2, ExtendFacts
    <3> QED
      BY <3>1
  <2> DEFINE e == <<>>
  <2>3. e \in D
    OBVIOUS
  <2> HIDE DEF D, e
  <2>2. \A i \in 1..n : \A x \in D : g[i][x] = Extend(x, at(i))
    OBVIOUS
  <2> HIDE DEF g
  <2>4. \E f \in [0..n -> D] : Follows(f, e, n, g)
    <3>1. n \in Nat
      BY <1>1
    <3> QED
      BY <2>1, <2>3, <3>1, Recursion
  <2>5. PICK f : f \in [0..n -> D] /\ f[0] = e /\ \A i \in 1..n : f[i] = g[i][f[i - 1]]
    BY <2>4 DEF Follows
  <2>6. ASSUME NEW i \in 0..n
        PROVE  f[i] = IF i = 0 THEN <<>> ELSE Extend(f[i - 1], at(i))
    <3>1. CASE i # 0
      <4>1. i \in 1..n /\ i - 1 \in 0..n
        BY <1>1, <3>1
      <4>2. f[i] = g[i][f[i - 1]] /\ f[i - 1] \in D
        BY <2>5, <4>1
      <4> QED
        BY <2>2, <3>1, <4>1, <4>2
    <3> QED
      BY <2>5, <3>1 DEF e
  <2>7. Is(f)
    BY <2>5, <2>6
  <2> HIDE DEF Is
  <2> QED
    BY <2>7
<1>5. Is(upTo)
  <2> HIDE DEF Is
  <2> QED
    BY <1>4
<1>6. upTo = [i \in 0..n |-> Turns(s, t, upTo, i)]
  <2> HIDE DEF upTo
  <2> QED
    BY <1>3, <1>5 DEF Turns
<1> HIDE DEF upTo
<1>7. \E f : f = [i \in 0..n |-> Turns(s, t, f, i)] /\ Alternate(s, t) = f[n]
  BY <1>2, <1>6
<1> QED
  BY <1>1, <1>7 DEF n

\* The first memory of the files is first or second.
LEMMA AlternateFacts ==
  ASSUME NEW s \in Seq(Nat), NEW t \in Seq(Nat)
  PROVE  /\ Alternate(s, t) \in Seq(Nat) /\ Distinct(Alternate(s, t))
         /\ ToSet(Alternate(s, t)) \subseteq ToSet(s) \cup ToSet(t)
         /\ t # <<>> => /\ Alternate(s, t) # <<>>
                        /\ \/ Alternate(s, t)[1] = t[1]
                           \/ /\ s # <<>> /\ Len(Alternate(s, t)) >= 2
                              /\ Alternate(s, t)[2] = t[1]
<1> DEFINE n == 2 * Max({Len(s), Len(t)})
<1>1. n \in Nat /\ n >= 2 * Len(t)
  BY AlternateIs
<1>2. PICK f : /\ f = [i \in 0..n |-> Turns(s, t, f, i)]
               /\ Alternate(s, t) = f[n]
  BY AlternateIs
<1> HIDE DEF n
<1> DEFINE Good(i) == /\ f[i] \in Seq(Nat) /\ Distinct(f[i])
                      /\ ToSet(f[i]) \subseteq ToSet(s) \cup ToSet(t)
           Kept(i) == Len(f[2]) \in Nat /\ Len(f[2]) <= Len(f[i]) /\ \A j \in 1..Len(f[2]) : f[i][j] = f[2][j]
           P == {i \in Nat : i <= n => Good(i) /\ (i >= 2 => Kept(i))}
<1>3. f[0] = <<>>
  BY <1>1, <1>2 DEF Turns
<1>4. ASSUME NEW i \in Nat, i + 1 <= n PROVE f[i + 1] = Extend(f[i], Turn(s, t, i + 1))
  <2>1. i + 1 \in 0..n /\ i + 1 # 0 /\ (i + 1) - 1 = i
    BY <1>1, <1>4
  <2> QED
    BY <1>2, <2>1 DEF Turns
<1>5. 0 \in P
  <2>1. f[0] \in Seq(Nat) /\ Len(f[0]) = 0
    BY <1>3
  <2>2. Distinct(f[0])
    BY <2>1 DEF Distinct
  <2>3. ToSet(f[0]) = {}
    BY <1>3, <2>1, Members
  <2>4. Good(0)
    BY <2>1, <2>2, <2>3
  <2> HIDE DEF Good, Kept
  <2> QED
    BY <2>4
<1>6. ASSUME NEW i \in P PROVE i + 1 \in P
  <2>1. i \in Nat /\ (i <= n => Good(i) /\ (i >= 2 => Kept(i)))
    <3> HIDE DEF Good, Kept
    <3> QED
      OBVIOUS
  <2> HIDE DEF P
  <2> SUFFICES ASSUME i + 1 <= n PROVE Good(i + 1) /\ (i + 1 >= 2 => Kept(i + 1))
    <3> HIDE DEF Good, Kept
    <3> QED
      BY <2>1 DEF P
  <2>2. i <= n /\ Good(i) /\ (i >= 2 => Kept(i))
    BY <1>1, <2>1
  <2>3. f[i + 1] = Extend(f[i], Turn(s, t, i + 1))
    BY <1>4, <2>1
  <2> DEFINE u == Turn(s, t, i + 1)
  <2>4. u \in Seq(Nat) /\ Distinct(u) /\ ToSet(u) \subseteq ToSet(s) \cup ToSet(t)
    <3>1. i + 1 \in Nat \ {0}
      BY <2>1
    <3> QED
      BY <3>1, TurnFacts
  <2> HIDE DEF u
  <2>5. /\ f[i + 1] \in Seq(Nat) /\ Distinct(f[i + 1])
        /\ ToSet(f[i + 1]) = ToSet(f[i]) \cup ToSet(u)
        /\ Len(f[i]) <= Len(f[i + 1]) /\ \A j \in 1..Len(f[i]) : f[i + 1][j] = f[i][j]
    <3>1. f[i] \in Seq(Nat) /\ Distinct(f[i]) /\ f[i + 1] = Extend(f[i], u)
      BY <2>2, <2>3 DEF u
    <3> QED
      BY <2>4, <3>1, ExtendFacts
  <2>6. Good(i + 1)
    BY <2>2, <2>4, <2>5
  <2>7. ASSUME i + 1 >= 2 PROVE Kept(i + 1)
    <3>1. CASE i + 1 = 2
      <4>1. f[i + 1] = f[2] /\ Len(f[2]) \in Nat
        BY <2>5, <3>1
      <4> QED
        BY <4>1
    <3>2. CASE i + 1 # 2
      <4>1. i >= 2 /\ Kept(i)
        BY <2>1, <2>2, <2>7, <3>2
      <4>2. Len(f[i]) \in Nat /\ Len(f[i + 1]) \in Nat
        BY <2>2, <2>5
      <4>3. 2 <= n /\ 1 <= n /\ 0 <= n
        BY <1>1, <2>1, <4>1
      <4> DEFINE l == Len(f[2])
      <4>4. ASSUME NEW j \in 1..l PROVE f[i + 1][j] = f[2][j]
        <5>1. j \in 1..Len(f[i])
          <6>1. l \in Nat /\ l <= Len(f[i])
            BY <4>1
          <6> HIDE DEF l
          <6> QED
            BY <4>2, <6>1
        <5> QED
          BY <2>5, <4>1, <5>1
      <4> QED
        BY <2>5, <4>1, <4>2, <4>4
    <3> QED
      BY <3>1, <3>2
  <2> HIDE DEF Good, Kept
  <2> QED
    BY <2>6, <2>7
<1>7. P = Nat
  <2>1. P \in SUBSET Nat
    OBVIOUS
  <2> HIDE DEF P
  <2> QED
    BY <1>5, <1>6, <2>1, NatSets
<1>8. Good(n) /\ (n >= 2 => Kept(n))
  <2> HIDE DEF Good, Kept
  <2> QED
    BY <1>1, <1>7
<1>9. ASSUME t # <<>>
      PROVE  /\ f[n] # <<>>
             /\ f[n][1] = t[1] \/ (s # <<>> /\ Len(f[n]) >= 2 /\ f[n][2] = t[1])
  <2> DEFINE a == Take(s, 1)
             b == Take(t, 1)
  <2>1. Len(t) >= 1 /\ n >= 2
    <3>1. Len(t) # 0 /\ Len(t) \in Nat
      BY <1>9, Members
    <3> QED
      BY <1>1, <3>1
  <2>2. a \in Seq(Nat) /\ Distinct(a) /\ (s = <<>> => a = <<>>) /\ (s # <<>> => Len(a) = 1)
    BY TakeOne
  <2>3. b \in Seq(Nat) /\ Distinct(b) /\ Len(b) = 1 /\ b[1] = t[1]
    BY <1>9, TakeOne
  <2>4. Turn(s, t, 1) = a /\ Turn(s, t, 2) = b
    BY TurnFacts
  <2> HIDE DEF a, b
  <2>5. f[1] = a
    <3>1. f[0 + 1] = Extend(f[0], Turn(s, t, 0 + 1))
      BY <1>1, <1>4, <2>1
    <3>2. f[1] = Extend(<<>>, a) /\ <<>> \in Seq(Nat)
      BY <1>3, <2>4, <3>1
    <3> QED
      BY <2>2, <3>2, ExtendFacts
  <2>6. f[2] = Extend(a, b)
    <3>1. f[1 + 1] = Extend(f[1], Turn(s, t, 1 + 1))
      BY <1>1, <1>4, <2>1
    <3> QED
      BY <2>4, <2>5, <3>1
  <2>7. /\ f[2] \in Seq(Nat) /\ ToSet(f[2]) = ToSet(a) \cup ToSet(b)
        /\ Len(a) <= Len(f[2]) /\ \A i \in 1..Len(a) : f[2][i] = a[i]
        /\ a = <<>> => f[2] = b
    BY <2>2, <2>3, <2>6, ExtendFacts
  <2>8. Len(f[2]) <= Len(a) + Len(b)
    BY <2>2, <2>3, <2>6, ExtendLength
  <2>13. Kept(n) /\ f[n] \in Seq(Nat)
    BY <1>8, <2>1
  <2> DEFINE k == f[2]
             m == f[n]
  <2>14. /\ Len(k) <= Len(m) /\ (\A j \in 1..Len(k) : m[j] = k[j])
         /\ m \in Seq(Nat) /\ k \in Seq(Nat) /\ ToSet(k) = ToSet(a) \cup ToSet(b)
         /\ Len(k) <= Len(a) + Len(b) /\ (a = <<>> => k = b)
    BY <2>7, <2>8, <2>13
  <2> HIDE DEF k, m
  <2>9. t[1] \in ToSet(k)
    <3>1. b[1] \in ToSet(b)
      <4>1. 1 \in 1..Len(b)
        BY <2>3
      <4> QED
        BY <2>3, <4>1, Members
    <3> QED
      BY <2>3, <2>14, <3>1
  <2>10. PICK i \in 1..Len(k) : k[i] = t[1]
    BY <2>9, <2>14, Members
  <2>11. Len(k) \in Nat /\ Len(k) <= 2 /\ (s = <<>> => Len(k) = 1)
    <3>1. Len(k) \in Nat /\ Len(a) \in Nat /\ Len(b) \in Nat
      BY <2>2, <2>3, <2>14, Members
    <3>2. s = <<>> => Len(k) = 1
      BY <2>2, <2>3, <2>14
    <3>3. Len(a) <= 1
      <4>1. CASE s = <<>>
        <5>1. Len(a) = 0
          BY <2>2, <4>1, Members
        <5> QED
          BY <5>1
      <4>2. CASE s # <<>>
        <5>1. Len(a) = 1
          BY <2>2, <4>2
        <5> QED
          BY <5>1
      <4> QED
        BY <4>1, <4>2
    <3>4. Len(k) <= 2
      BY <2>3, <2>14, <3>1, <3>3
    <3> QED
      BY <3>1, <3>2, <3>4
  <2> DEFINE l == Len(k)
  <2>12. i = 1 \/ (i = 2 /\ Len(k) >= 2 /\ s # <<>>)
    <3>1. i \in 1..l /\ l \in Nat /\ l <= 2 /\ (s = <<>> => l = 1)
      BY <2>11
    <3> HIDE DEF l
    <3>2. i = 1 \/ (i = 2 /\ l >= 2 /\ s # <<>>)
      BY <3>1
    <3> QED
      BY <3>2 DEF l
  <2>15. Len(m) \in Nat /\ m[i] = t[1] /\ Len(k) <= Len(m) /\ Len(m) # 0
    <3>1. Len(m) \in Nat
      BY <2>14, Members
    <3>2. Len(k) >= 1
      BY <2>11, <2>12
    <3> QED
      BY <2>10, <2>11, <2>14, <3>1, <3>2
  <2>16. m # <<>>
    BY <2>14, <2>15, Members
  <2>17. m[1] = t[1] \/ (s # <<>> /\ Len(m) >= 2 /\ m[2] = t[1])
    <3>1. CASE i = 1
      BY <2>15, <3>1
    <3>2. CASE i = 2 /\ Len(k) >= 2 /\ s # <<>>
      BY <2>11, <2>15, <3>2
    <3> QED
      BY <2>12, <3>1, <3>2
  <2> QED
    BY <2>16, <2>17 DEF m
<1> QED
  BY <1>2, <1>8, <1>9

----------------------------------------------------------------------------
(* The classes of a question.                                              *)

\* A filter keeps an order.
LEMMA FilteredRising ==
  ASSUME NEW A, NEW s \in Seq(A), NEW S, Rising(s)
  PROVE  Rising(Filtered(s, S))
<1> DEFINE f == Filtered(s, S)
<1>1. /\ f \in Seq(A \cap S)
      /\ \A j, k \in 1..Len(f) : j < k =>
           \E m, n \in 1..Len(s) : m < n /\ s[m] = f[j] /\ s[n] = f[k]
  BY FilteredFacts
<1> HIDE DEF f
<1>2. Rising(f)
  BY <1>1 DEF Rising
<1> QED
  BY <1>2 DEF f

\* Only usable memories are materialised, and all of them.
LEMMA MaterializeFacts ==
  ASSUME NEW keys \in Seq(Nat)
  PROVE  /\ Materialize(keys) \in Seq(Nat)
         /\ ToSet(Materialize(keys)) = {k \in ToSet(keys) : Usable(k)}
         /\ Distinct(keys) => Distinct(Materialize(keys))
         /\ Rising(keys) => Rising(Materialize(keys))
<1> DEFINE S == {k \in ToSet(keys) : Usable(k)}
<1>1. S \subseteq ToSet(keys)
  OBVIOUS
<1>2. Materialize(keys) = Filtered(keys, S)
  BY DEF Materialize
<1> HIDE DEF S
<1>3. Filtered(keys, S) \in Seq(Nat \cap S) /\ ToSet(Filtered(keys, S)) = ToSet(keys) \cap S
  BY FilteredFacts
<1>4. Filtered(keys, S) \in Seq(Nat)
  BY <1>3
<1>5. Distinct(keys) => Distinct(Filtered(keys, S))
  BY FilteredDistinct
<1>6. ASSUME Rising(keys) PROVE Rising(Filtered(keys, S))
  BY <1>6, FilteredRising
<1> QED
  BY <1>1, <1>2, <1>3, <1>4, <1>5, <1>6 DEF S

\* Some memories of the store in the order of their keys.
LEMMA OrderedKeys ==
  ASSUME StoreInv, NEW S \in SUBSET DOMAIN memories
  PROVE  /\ InKeyOrder(S) \in Seq(Nat) /\ Distinct(InKeyOrder(S))
         /\ ToSet(InKeyOrder(S)) = S /\ Rising(InKeyOrder(S))
<1>1. S \in SUBSET (Nat \ {0}) /\ IsFiniteSet(S)
  BY FS_Subset DEF StoreInv
<1>2. /\ InKeyOrder(S) \in Seq(S) /\ Distinct(InKeyOrder(S)) /\ Rising(InKeyOrder(S))
      /\ ToSet(InKeyOrder(S)) = S
  BY <1>1, InKeyOrderFacts
<1>3. InKeyOrder(S) \in Seq(Nat)
  BY <1>1, <1>2
<1> QED
  BY <1>2, <1>3

\* The order of rows is one.
LEMMA RowOrder ==
  ASSUME StoreInv
  PROVE  /\ \A e \in relations : <<e, e>> \notin ByRow
         /\ \A e, f, g \in relations :
              <<e, f>> \in ByRow /\ <<f, g>> \in ByRow => <<e, g>> \in ByRow
<1>1. \A e \in relations : e[1] \in Nat /\ e[2] \in Nat /\ e[3] \in Nat
  BY DEF StoreInv
<1>2. \A e, f \in relations :
        <<e, f>> \in ByRow <=> \/ e[1] < f[1]
                               \/ e[1] = f[1] /\ e[2] < f[2]
                               \/ e[1] = f[1] /\ e[2] = f[2] /\ e[3] < f[3]
  BY DEF ByRow
<1>3. ASSUME NEW e \in relations PROVE <<e, e>> \notin ByRow
  BY <1>1, <1>2
<1>4. ASSUME NEW e \in relations, NEW f \in relations, NEW g \in relations,
             <<e, f>> \in ByRow, <<f, g>> \in ByRow
      PROVE  <<e, g>> \in ByRow
  <2> DEFINE a == e[1] b == e[2] c == e[3] h == f[1] i == f[2] j == f[3]
             k == g[1] l == g[2] m == g[3]
  <2>1. {a, b, c, h, i, j, k, l, m} \subseteq Nat
    BY <1>1
  <2>2. /\ a < h \/ (a = h /\ b < i) \/ (a = h /\ b = i /\ c < j)
        /\ h < k \/ (h = k /\ i < l) \/ (h = k /\ i = l /\ j < m)
    BY <1>2, <1>4
  <2> HIDE DEF a, b, c, h, i, j, k, l, m
  <2>3. a < k \/ (a = k /\ b < l) \/ (a = k /\ b = l /\ c < m)
    BY <2>1, <2>2
  <2> QED
    BY <1>2, <2>3 DEF a, b, c, h, i, j, k, l, m
<1> QED
  BY <1>3, <1>4

Meets(keys) == {e \in relations : {e[1], e[3]} \cap keys # {}}
At(k) == {e \in relations : k \in {e[1], e[3]}}

\* A lookup of relations holds some that touch the memories, all if there is
\* room for them, and those between the memories before the others.
LEMMA TouchingFacts ==
  ASSUME StoreInv, NEW keys, NEW n \in Nat
  PROVE  /\ Touching(keys, n) \subseteq Meets(keys)
         /\ Cardinality(Meets(keys)) <= n => Touching(keys, n) = Meets(keys)
         /\ \A e \in relations, f \in Touching(keys, n) :
              /\ Between(e, keys) /\ ~Between(f, keys)
              /\ Cardinality(At(e[1])) <= n \/ Cardinality(At(e[3])) <= n
              => e \in Touching(keys, n)
<1> DEFINE rows == UNION {Foremost(At(k), n, ByRow) : k \in keys}
           before == InnerFirst(keys)
           M == Meets(keys)
<1>1. Touching(keys, n) = Foremost(rows, n, before)
  BY DEF Touching, At
<1>2. \A k : At(k) \in SUBSET relations /\ IsFiniteSet(At(k))
  <2>1. \A k : At(k) \in SUBSET relations
    BY DEF At
  <2> QED
    BY <2>1, FS_Subset DEF StoreInv
<1>3. \A k : /\ Foremost(At(k), n, ByRow) \subseteq At(k)
             /\ Cardinality(At(k)) <= n => Foremost(At(k), n, ByRow) = At(k)
  <2> TAKE k
  <2> DEFINE A == At(k)
  <2>1. IsFiniteSet(A) /\ \A x \in A : <<x, x>> \notin ByRow
    BY <1>2, RowOrder
  <2> HIDE DEF A
  <2>2. /\ Foremost(A, n, ByRow) \subseteq A
        /\ Cardinality(A) <= n => Foremost(A, n, ByRow) = A
    BY <2>1, ForemostFacts
  <2> QED
    BY <2>2 DEF A
<1>4. M = UNION {At(k) : k \in keys} /\ M \in SUBSET relations
  BY DEF Meets, At
<1>5. rows \in SUBSET M
  BY <1>3, <1>4
<1>6. IsFiniteSet(M) /\ IsFiniteSet(rows)
  <2> HIDE DEF M, rows
  <2>1. IsFiniteSet(relations)
    BY DEF StoreInv
  <2>2. IsFiniteSet(M)
    BY <1>4, <2>1, FS_Subset
  <2> QED
    BY <1>5, <2>2, FS_Subset
<1>7. ASSUME Cardinality(M) <= n PROVE rows = M
  <2>1. ASSUME NEW k \in keys PROVE Cardinality(At(k)) <= n
    <3>1. At(k) \in SUBSET M
      BY <1>4
    <3> HIDE DEF M
    <3>2. Cardinality(At(k)) <= Cardinality(M)
      BY <1>6, <3>1, FS_Subset
    <3>3. Cardinality(At(k)) \in Nat /\ Cardinality(M) \in Nat
      BY <1>2, <1>6, FS_CardinalityType
    <3> QED
      BY <1>7, <3>2, <3>3
  <2> QED
    BY <1>3, <1>4, <2>1
<1>8. ASSUME NEW e \in relations, Between(e, keys),
             Cardinality(At(e[1])) <= n \/ Cardinality(At(e[3])) <= n
      PROVE  e \in rows
  <2>1. e[1] \in keys /\ e[3] \in keys /\ e \in At(e[1]) /\ e \in At(e[3])
    BY <1>8 DEF Between, At
  <2> QED
    BY <1>3, <1>8, <2>1
<1>9. \A e, f \in relations :
        <<e, f>> \in before <=> IF Between(e, keys) <=> Between(f, keys) THEN <<e, f>> \in ByRow
                                ELSE Between(e, keys)
  BY DEF InnerFirst
<1> HIDE DEF rows, before, M
<1>10. \A e \in rows : <<e, e>> \notin before
  BY <1>4, <1>5, <1>9, RowOrder
<1>11. \A e, f, g \in rows :
         <<e, f>> \in before /\ <<f, g>> \in before => <<e, g>> \in before
  <2> HIDE DEF Between
  <2> TAKE e, f, g \in rows
  <2> HAVE <<e, f>> \in before /\ <<f, g>> \in before
  <2>1. e \in relations /\ f \in relations /\ g \in relations
    BY <1>4, <1>5
  <2>2. <<e, f>> \in ByRow /\ <<f, g>> \in ByRow => <<e, g>> \in ByRow
    BY <2>1, RowOrder
  <2> QED
    BY <1>9, <2>1, <2>2
<1>12. /\ Foremost(rows, n, before) \subseteq rows
       /\ Cardinality(rows) <= n => Foremost(rows, n, before) = rows
       /\ \A f \in Foremost(rows, n, before), e \in rows :
            <<e, f>> \in before => e \in Foremost(rows, n, before)
  BY <1>6, <1>10, <1>11, ForemostFacts
<1>13. ASSUME NEW e \in relations, NEW f \in Touching(keys, n), Between(e, keys),
              ~Between(f, keys), Cardinality(At(e[1])) <= n \/ Cardinality(At(e[3])) <= n
       PROVE  e \in Touching(keys, n)
  <2>1. e \in rows /\ f \in rows /\ f \in relations
    BY <1>1, <1>4, <1>5, <1>8, <1>12, <1>13
  <2>2. <<e, f>> \in before
    BY <1>9, <1>13, <2>1
  <2> QED
    BY <1>1, <1>12, <1>13, <2>1, <2>2
<1> QED
  BY <1>1, <1>5, <1>7, <1>12, <1>13 DEF M

Out(keys) == {e[3] : e \in {x \in relations : x[1] \in keys}}
Into(keys) == {e[1] : e \in {x \in relations : x[1] \notin keys /\ x[3] \in keys}}

\* Links lead to memories of the store, each once, and to all that are one hop
\* away if the lookup has room for their relations.
LEMMA LinkedFacts ==
  ASSUME StoreInv, NEW direct, NEW n \in Nat
  PROVE  LET keys == ToSet(direct)
             out == {e[3] : e \in {x \in relations : x[1] \in keys}}
             into == {e[1] : e \in {x \in relations : x[1] \notin keys /\ x[3] \in keys}}
         IN /\ Linked(direct, n) \in Seq(Nat) /\ Distinct(Linked(direct, n))
            /\ Rising(Linked(direct, n))
            /\ Cardinality({e \in relations : {e[1], e[3]} \cap keys # {}}) <= n
                 => ToSet(Linked(direct, n)) = out \cup into
<1> DEFINE keys == ToSet(direct)
           S == {IF e[1] \in keys THEN e[3] ELSE e[1] : e \in Touching(keys, n)}
<1>1. Linked(direct, n) = InKeyOrder(S)
  BY DEF Linked
<1>2. Touching(keys, n) \subseteq relations
  BY TouchingFacts DEF Meets
<1>3. S \in SUBSET DOMAIN memories
  BY <1>2 DEF StoreInv
<1>4. ASSUME Cardinality(Meets(keys)) <= n PROVE S = Out(keys) \cup Into(keys)
  <2> HIDE DEF keys
  <2>1. Touching(keys, n) = Meets(keys)
    BY <1>4, TouchingFacts
  <2>2. S = {IF e[1] \in keys THEN e[3] ELSE e[1] : e \in Meets(keys)}
    BY <2>1
  <2>3. ASSUME NEW e \in Meets(keys)
        PROVE  (IF e[1] \in keys THEN e[3] ELSE e[1]) \in Out(keys) \cup Into(keys)
    <3>1. e \in relations /\ (e[1] \in keys \/ e[3] \in keys)
      BY DEF Meets
    <3> QED
      BY <3>1 DEF Out, Into
  <2>4. ASSUME NEW x \in Out(keys) PROVE x \in S
    <3>1. PICK e \in relations : e[1] \in keys /\ x = e[3]
      BY DEF Out
    <3>2. e \in Meets(keys)
      BY <3>1 DEF Meets
    <3> QED
      BY <2>2, <3>1, <3>2
  <2>5. ASSUME NEW x \in Into(keys) PROVE x \in S
    <3>1. PICK e \in relations : e[1] \notin keys /\ e[3] \in keys /\ x = e[1]
      BY DEF Into
    <3>2. e \in Meets(keys)
      BY <3>1 DEF Meets
    <3> QED
      BY <2>2, <3>1, <3>2
  <2> HIDE DEF S
  <2>6. S \subseteq Out(keys) \cup Into(keys)
    BY <2>2, <2>3
  <2> QED
    BY <2>4, <2>5, <2>6
<1> HIDE DEF S
<1>5. /\ InKeyOrder(S) \in Seq(Nat) /\ Distinct(InKeyOrder(S)) /\ Rising(InKeyOrder(S))
      /\ ToSet(InKeyOrder(S)) = S
  BY <1>3, OrderedKeys
<1> QED
  BY <1>1, <1>4, <1>5 DEF Meets, Out, Into, keys

\* The same of the targets of the direct memories.
LEMMA TargetFacts ==
  ASSUME StoreInv, NEW direct \in Seq(Nat), NEW n \in Nat
  PROVE  LET keys == ToSet(direct)
             out == {e[3] : e \in {x \in relations : x[1] \in keys}}
         IN /\ Targets(direct, n) \in Seq(Nat) /\ Distinct(Targets(direct, n))
            /\ Rising(Targets(direct, n))
            /\ /\ Cardinality(out) <= n
               /\ \A k \in keys : Cardinality({e \in relations : e[1] = k}) <= n
               => ToSet(Targets(direct, n)) = out
<1> DEFINE keys == ToSet(direct)
           from(k) == {e \in relations : e[1] = k}
           rows == UNION {Foremost(from(k), n, ByRow) : k \in keys}
           earlier(e, f) == \/ RankIn(e[1], direct) < RankIn(f[1], direct)
                            \/ e[1] = f[1] /\ <<e, f>> \in ByRow
           met == {e[3] : e \in rows}
           before == {p \in met \X met :
                        \E e \in rows : /\ e[3] = p[1]
                                        /\ \A f \in rows : f[3] = p[2] => earlier(e, f)}
           S == Foremost(met, n, before)
<1>1. Targets(direct, n) = InKeyOrder(S)
  BY DEF Targets
<1>2. \A k : /\ Foremost(from(k), n, ByRow) \subseteq from(k)
             /\ Cardinality(from(k)) <= n => Foremost(from(k), n, ByRow) = from(k)
  <2> TAKE k
  <2> DEFINE A == from(k)
  <2>1. A \in SUBSET relations /\ IsFiniteSet(relations)
    BY DEF StoreInv
  <2> HIDE DEF A
  <2>2. IsFiniteSet(A) /\ \A x \in A : <<x, x>> \notin ByRow
    BY <2>1, FS_Subset, RowOrder
  <2>3. /\ Foremost(A, n, ByRow) \subseteq A
        /\ Cardinality(A) <= n => Foremost(A, n, ByRow) = A
    BY <2>2, ForemostFacts
  <2> QED
    BY <2>3 DEF A
<1>3. rows \subseteq relations /\ \A e \in rows : e[1] \in keys
  <2>1. \A k : \A e \in from(k) : e \in relations /\ e[1] = k
    OBVIOUS
  <2> HIDE DEF from, keys
  <2>2. ASSUME NEW e \in rows PROVE e \in relations /\ e[1] \in keys
    <3>1. PICK k \in keys : e \in Foremost(from(k), n, ByRow)
      OBVIOUS
    <3> QED
      BY <1>2, <2>1, <3>1
  <2> HIDE DEF rows
  <2> QED
    BY <2>2
<1>4. met \in SUBSET DOMAIN memories
  BY <1>3 DEF StoreInv
<1>5. IsFiniteSet(met)
  <2> HIDE DEF met
  <2> QED
    BY <1>4, FS_Subset DEF StoreInv
<1>6. \A x \in met : <<x, x>> \notin before
  <2> SUFFICES ASSUME NEW x \in met, <<x, x>> \in before PROVE FALSE
    OBVIOUS
  <2> HIDE DEF rows, met, earlier
  <2>1. PICK e \in rows : e[3] = x /\ \A f \in rows : f[3] = x => earlier(e, f)
    OBVIOUS
  <2>2. earlier(e, e)
    BY <2>1
  <2>3. <<e, e>> \notin ByRow
    BY <1>3, RowOrder
  <2>4. RankIn(e[1], direct) \in Nat
    <3>1. e[1] \in ToSet(direct)
      BY <1>3
    <3>2. \E i \in DOMAIN direct : direct[i] = e[1]
      BY <3>1 DEF ToSet
    <3>3. DOMAIN direct \subseteq Nat
      OBVIOUS
    <3> QED
      BY <3>1, <3>2, <3>3 DEF RankIn
  <2> QED
    BY <2>2, <2>3, <2>4 DEF earlier
<1>7. ASSUME \A k \in keys : Cardinality(from(k)) <= n PROVE met = Out(keys)
  <2>1. ASSUME NEW e \in relations, e[1] \in keys PROVE e \in rows
    <3>1. e \in from(e[1])
      OBVIOUS
    <3> HIDE DEF from, keys
    <3>2. e \in Foremost(from(e[1]), n, ByRow)
      BY <1>2, <1>7, <2>1, <3>1
    <3> QED
      BY <2>1, <3>2
  <2> HIDE DEF rows, keys
  <2>2. rows = {x \in relations : x[1] \in keys}
    BY <1>3, <2>1
  <2> QED
    BY <2>2 DEF Out
<1> HIDE DEF before
<1>8. S \subseteq met /\ (Cardinality(met) <= n => S = met)
  <2> HIDE DEF met
  <2> QED
    BY <1>5, <1>6, ForemostFacts
<1> HIDE DEF S
<1>9. S \in SUBSET DOMAIN memories
  BY <1>4, <1>8
<1>10. /\ InKeyOrder(S) \in Seq(Nat) /\ Distinct(InKeyOrder(S)) /\ Rising(InKeyOrder(S))
       /\ ToSet(InKeyOrder(S)) = S
  BY <1>9, OrderedKeys
<1> HIDE DEF met
<1>11. ASSUME Cardinality(Out(keys)) <= n, \A k \in keys : Cardinality(from(k)) <= n
       PROVE  S = Out(keys)
  BY <1>7, <1>8, <1>11
<1> QED
  BY <1>1, <1>10, <1>11 DEF Out

\* Repository-wide memories are usable.
LEMMA UniversalFacts ==
  ASSUME StoreInv, NEW limit \in Nat
  PROVE  /\ Universal(limit) \in Seq(Nat) /\ Distinct(Universal(limit))
         /\ \A k \in ToSet(Universal(limit)) : Usable(k)
<1> DEFINE S == {k \in DOMAIN memories : Usable(k) /\ memories[k].anchor = {}}
<1>1. S \in SUBSET DOMAIN memories /\ \A k \in S : Usable(k)
  OBVIOUS
<1>2. Universal(limit) = Take(InKeyOrder(S), limit)
  BY DEF Universal
<1> HIDE DEF S
<1>3. /\ InKeyOrder(S) \in Seq(Nat) /\ Distinct(InKeyOrder(S))
      /\ ToSet(InKeyOrder(S)) = S
  BY <1>1, OrderedKeys
<1>4. /\ Take(InKeyOrder(S), limit) \in Seq(Nat) /\ Distinct(Take(InKeyOrder(S), limit))
      /\ ToSet(Take(InKeyOrder(S), limit)) \subseteq S
  BY <1>3, TakeFacts
<1> QED
  BY <1>1, <1>2, <1>4

\* More candidates than the limit are looked at.
LEMMA CandidateLimitType ==
  ASSUME NEW limit \in Nat
  PROVE  CandidateLimit(limit) \in Nat /\ (limit >= 1 => CandidateLimit(limit) # 0)
<1> DEFINE S == {4 * limit, 512}
           m == Min(S)
<1>1. S \in SUBSET Nat /\ S # {}
  OBVIOUS
<1>2. m \in S
  <2> HIDE DEF S
  <2> QED
    BY <1>1, MinFacts
<1>3. m \in Nat
  BY <1>1, <1>2
<1>4. CandidateLimit(limit) = Max({limit, m})
  BY DEF CandidateLimit
<1> HIDE DEF m
<1>5. Max({limit, m}) = IF limit <= m THEN m ELSE limit
  BY <1>3, PairFacts
<1> QED
  BY <1>3, <1>4, <1>5

FileOf(q) == Direct(q.files, CandidateLimit(q.limit))

\* The parts of a question.
LEMMA QuestionType ==
  ASSUME NEW q \in Questions
  PROVE  /\ q.way \in {"files", "anchor", "task"} /\ q.files \in SUBSET Paths
         /\ q.hits \in Seq(Nat) /\ q.limit \in Nat
BY RetrievalAssumption

\* The memories of the files of a question, and the hits of its task.
LEMMA FileFacts ==
  ASSUME StoreInv, NEW q \in Questions
  PROVE  /\ FileOf(q) \in Seq(Nat) /\ Distinct(FileOf(q))
         /\ \A k \in ToSet(FileOf(q)) : Usable(k)
         /\ FileOf(q) # <<>> => q.files # {} /\ Head(FileOf(q)) = FileOf(q)[1]
                                /\ Usable(FileOf(q)[1])
         /\ Hits(q) \in Seq(Nat) /\ \A k \in ToSet(Hits(q)) : Usable(k)
<1>1. q.files \in SUBSET Paths /\ CandidateLimit(q.limit) \in Nat
  BY QuestionType, CandidateLimitType
<1>2. /\ FileOf(q) \in Seq(Nat) /\ Distinct(FileOf(q))
      /\ ToSet(FileOf(q)) \subseteq Candidates(q.files, CandidateLimit(q.limit))
  BY <1>1, DirectFacts DEF FileOf
<1>3. \A k \in Candidates(q.files, CandidateLimit(q.limit)) : Usable(k) /\ q.files # {}
  BY <1>1, CandidateFacts
<1>4. Hits(q) \in Seq(Nat) /\ \A k \in ToSet(Hits(q)) : Usable(k)
  BY QuestionType, MaterializeFacts DEF Hits
<1>5. FileOf(q) # <<>> => Head(FileOf(q)) = FileOf(q)[1] /\ FileOf(q)[1] \in ToSet(FileOf(q))
  BY <1>2, Members
<1> QED
  BY <1>2, <1>3, <1>4, <1>5

\* The three classes of a question.
LEMMA ClassFacts ==
  ASSUME StoreInv, NEW q \in Questions
  PROVE  /\ DirectOf(q) \in Seq(Nat) /\ Distinct(DirectOf(q))
         /\ \A k \in ToSet(DirectOf(q)) : Usable(k)
         /\ RelatedOf(q) \in Seq(Nat) /\ Distinct(RelatedOf(q)) /\ Rising(RelatedOf(q))
         /\ OneHop(q) = ToSet(RelatedOf(q))
         /\ UniversalOf(q) \in Seq(Nat) /\ Distinct(UniversalOf(q))
         /\ \A k \in ToSet(UniversalOf(q)) : Usable(k)
<1>1. /\ FileOf(q) \in Seq(Nat) /\ Distinct(FileOf(q))
      /\ \A k \in ToSet(FileOf(q)) : Usable(k)
      /\ Hits(q) \in Seq(Nat) /\ \A k \in ToSet(Hits(q)) : Usable(k)
  BY FileFacts
<1>2. DirectOf(q) = IF q.way = "task" THEN Alternate(Hits(q), FileOf(q)) ELSE FileOf(q)
  BY DEF DirectOf, FileOf
<1>3. /\ Alternate(Hits(q), FileOf(q)) \in Seq(Nat) /\ Distinct(Alternate(Hits(q), FileOf(q)))
      /\ ToSet(Alternate(Hits(q), FileOf(q))) \subseteq ToSet(Hits(q)) \cup ToSet(FileOf(q))
  BY <1>1, AlternateFacts
<1>4. /\ DirectOf(q) \in Seq(Nat) /\ Distinct(DirectOf(q))
      /\ \A k \in ToSet(DirectOf(q)) : Usable(k)
  BY <1>1, <1>2, <1>3
<1> DEFINE n == CandidateLimit(q.limit)
           l == Linked(DirectOf(q), n)
           t == Targets(DirectOf(q), n)
<1>5. n \in Nat
  BY QuestionType, CandidateLimitType
<1> HIDE DEF n
<1>6. /\ l \in Seq(Nat) /\ Distinct(l) /\ Rising(l)
      /\ t \in Seq(Nat) /\ Distinct(t) /\ Rising(t)
  BY <1>4, <1>5, LinkedFacts, TargetFacts
<1>7. /\ RelatedOf(q) \in Seq(Nat) /\ Distinct(RelatedOf(q)) /\ Rising(RelatedOf(q))
      /\ LinksFit(q, ToSet(DirectOf(q))) => ToSet(RelatedOf(q)) = Neighbours(q, ToSet(DirectOf(q)))
  <2>1. /\ (q.way = "files" => RelatedOf(q) = l) /\ (q.way = "anchor" => RelatedOf(q) = t)
        /\ (q.way = "task" => RelatedOf(q) = Materialize(l))
    BY DEF RelatedOf, n
  <2> DEFINE keys == ToSet(DirectOf(q))
             out == {e[3] : e \in {x \in relations : x[1] \in keys}}
             into == {e[1] : e \in {x \in relations : x[1] \notin keys /\ x[3] \in keys}}
             touching == {e \in relations : {e[1], e[3]} \cap keys # {}}
             from(k) == {e \in relations : e[1] = k}
  <2>2. /\ (q.way = "files" => Neighbours(q, keys) = out \cup into)
        /\ (q.way = "anchor" => Neighbours(q, keys) = out)
        /\ (q.way = "task" => Neighbours(q, keys) = {k \in out \cup into : Usable(k)})
    BY DEF Neighbours
  <2>3. LinksFit(q, keys) =>
           IF q.way = "anchor"
           THEN Cardinality(out) <= n /\ \A k \in keys : Cardinality(from(k)) <= n
           ELSE Cardinality(touching) <= n
    BY <2>2 DEF LinksFit, n
  <2>4. Cardinality(touching) <= n => ToSet(l) = out \cup into
    BY <1>5, LinkedFacts
  <2>5. Cardinality(out) <= n /\ (\A k \in keys : Cardinality(from(k)) <= n) => ToSet(t) = out
    BY <1>4, <1>5, TargetFacts
  <2> HIDE DEF l, t, out, into, touching, from, keys
  <2>6. CASE q.way = "files"
    BY <1>6, <2>1, <2>2, <2>3, <2>4, <2>6 DEF keys
  <2>7. CASE q.way = "anchor"
    BY <1>6, <2>1, <2>2, <2>3, <2>5, <2>7 DEF keys
  <2>8. CASE q.way = "task"
    BY <1>6, <2>1, <2>2, <2>3, <2>4, <2>8, MaterializeFacts DEF keys
  <2> QED
    BY <2>6, <2>7, <2>8, QuestionType
<1>8. /\ UniversalOf(q) \in Seq(Nat) /\ Distinct(UniversalOf(q))
      /\ \A k \in ToSet(UniversalOf(q)) : Usable(k)
  BY QuestionType, CandidateLimitType, UniversalFacts DEF UniversalOf
<1>9. OneHop(q) = ToSet(RelatedOf(q))
  BY <1>7 DEF OneHop
<1> QED
  BY <1>4, <1>7, <1>8, <1>9

Selected(q) == Select(DirectOf(q), RelatedOf(q), UniversalOf(q), q.limit)

Classes(q) == ToSet(DirectOf(q)) \cup ToSet(RelatedOf(q)) \cup ToSet(UniversalOf(q))

\* The first memory of the files is selected, but from a task with fewer
\* than four places.
LEMMA FileSelected ==
  ASSUME StoreInv, NEW q \in Questions, FileOf(q) # <<>>
  PROVE  /\ FileOf(q)[1] \in ToSet(DirectOf(q))
         /\ q.way # "task" /\ q.limit >= 1 => FileOf(q)[1] \in ToSet(Selected(q))
         /\ q.limit >= 4 => FileOf(q)[1] \in ToSet(Selected(q))
         /\ q.limit >= 1 /\ Hits(q) = <<>> => FileOf(q)[1] \in ToSet(Selected(q))
<1> DEFINE d == DirectOf(q)
           f == FileOf(q)
<1>1. /\ d \in Seq(Nat) /\ Distinct(d)
      /\ RelatedOf(q) \in Seq(Nat) /\ Distinct(RelatedOf(q))
      /\ UniversalOf(q) \in Seq(Nat) /\ Distinct(UniversalOf(q))
      /\ q.limit \in Nat
  BY ClassFacts, QuestionType
<1>2. /\ d # <<>>
      /\ \/ d[1] = f[1]
         \/ q.way = "task" /\ Hits(q) # <<>> /\ Len(d) >= 2 /\ d[2] = f[1]
  <2>1. CASE q.way = "task"
    <3>1. d = Alternate(Hits(q), f) /\ f \in Seq(Nat) /\ Hits(q) \in Seq(Nat)
      BY <2>1, FileFacts DEF DirectOf, FileOf
    <3> HIDE DEF d, f
    <3>2. f # <<>>
      BY DEF f
    <3> QED
      BY <2>1, <3>1, <3>2, AlternateFacts
  <2>2. CASE q.way # "task"
    <3>1. d = f
      BY <2>2 DEF DirectOf, FileOf
    <3> QED
      BY <3>1
  <2> QED
    BY <2>1, <2>2
<1> HIDE DEF d
<1>3. /\ q.limit >= 1 => d[1] \in ToSet(Selected(q))
      /\ q.limit >= 4 /\ Len(d) >= 2 => d[2] \in ToSet(Selected(q))
  BY <1>1, <1>2, SelectFacts DEF Selected, d
<1>4. f[1] \in ToSet(d)
  <2>1. CASE d[1] = f[1]
    BY <1>1, <1>2, <2>1, Members
  <2>2. CASE Len(d) >= 2 /\ d[2] = f[1]
    <3>1. 2 \in 1..Len(d)
      BY <1>1, <2>2, Members
    <3> QED
      BY <1>1, <2>2, <3>1, Members
  <2> QED
    BY <1>2, <2>1, <2>2
<1>5. q.limit >= 4 => q.limit >= 1
  BY <1>1
<1> QED
  BY <1>2, <1>3, <1>4, <1>5 DEF d

----------------------------------------------------------------------------
(* What is shown.                                                          *)

Kept(q) == KeepFile(q, Selected(q))

\* A task trades its last place for the memory of its files.
LEMMA KeepIs ==
  ASSUME NEW q
  PROVE  Kept(q) =
    IF /\ q.way = "task" /\ q.limit >= 2 /\ Hits(q) # <<>> /\ FileOf(q) # <<>>
       /\ Head(FileOf(q)) \notin ToSet(Selected(q))
    THEN Append(Take(Selected(q), q.limit - 1), Head(FileOf(q)))
    ELSE Selected(q)
BY DEF Kept, KeepFile, FileOf

\* A list with one more element.
LEMMA AppendFacts ==
  ASSUME NEW A, NEW s \in Seq(A), NEW x \in A
  PROVE  /\ Append(s, x) \in Seq(A)
         /\ Len(Append(s, x)) = Len(s) + 1
         /\ ToSet(Append(s, x)) = ToSet(s) \cup {x}
         /\ Distinct(s) /\ x \notin ToSet(s) => Distinct(Append(s, x))
<1> DEFINE t == Append(s, x)
<1>1. /\ Len(s) \in Nat /\ t \in Seq(A) /\ Len(t) = Len(s) + 1
      /\ t[Len(s) + 1] = x /\ \A i \in 1..Len(s) : t[i] = s[i]
  OBVIOUS
<1> HIDE DEF t
<1>2. /\ \A i \in 1..Len(t) : i \in 1..Len(s) \/ i = Len(s) + 1
      /\ \A i \in 1..Len(s) : i \in 1..Len(t)
      /\ Len(s) + 1 \in 1..Len(t)
  BY <1>1
<1>3. \A y : y \in ToSet(t) <=> \E i \in 1..Len(t) : t[i] = y
  BY <1>1, Members
<1>4. \A y : y \in ToSet(s) <=> \E i \in 1..Len(s) : s[i] = y
  BY Members
<1>5. ASSUME NEW y PROVE y \in ToSet(t) <=> (y \in ToSet(s) \/ y = x)
  <2>1. ASSUME y \in ToSet(t) PROVE y \in ToSet(s) \/ y = x
    <3>1. PICK i \in 1..Len(t) : t[i] = y
      BY <1>3, <2>1
    <3> QED
      BY <1>1, <1>2, <1>4, <3>1
  <2>2. ASSUME y \in ToSet(s) PROVE y \in ToSet(t)
    <3>1. PICK i \in 1..Len(s) : s[i] = y
      BY <1>4, <2>2
    <3>2. i \in 1..Len(t) /\ t[i] = y
      BY <1>1, <1>2, <3>1
    <3> QED
      BY <1>3, <3>2
  <2>3. x \in ToSet(t)
    BY <1>1, <1>2, <1>3
  <2> QED
    BY <2>1, <2>2, <2>3
<1>6. ToSet(t) = ToSet(s) \cup {x}
  BY <1>5
<1>7. ASSUME Distinct(s), x \notin ToSet(s) PROVE Distinct(t)
  <2>1. ASSUME NEW i \in 1..Len(t), NEW j \in 1..Len(t), t[i] = t[j] PROVE i = j
    <3>1. CASE i \in 1..Len(s) /\ j \in 1..Len(s)
      BY <1>1, <1>7, <2>1, <3>1 DEF Distinct
    <3>2. \A k \in 1..Len(s) : t[k] # x
      BY <1>1, <1>4, <1>7
    <3>3. CASE i = Len(s) + 1 /\ j \in 1..Len(s)
      BY <1>1, <2>1, <3>2, <3>3
    <3>4. CASE j = Len(s) + 1 /\ i \in 1..Len(s)
      BY <1>1, <2>1, <3>2, <3>4
    <3>5. CASE i = Len(s) + 1 /\ j = Len(s) + 1
      BY <3>5
    <3> QED
      BY <1>2, <3>1, <3>3, <3>4, <3>5
  <2> QED
    BY <2>1 DEF Distinct
<1> QED
  BY <1>1, <1>6, <1>7 DEF t

\* The trade loses no place and repeats nothing.
LEMMA KeptFacts ==
  ASSUME StoreInv, NEW q \in Questions
  PROVE  /\ Kept(q) \in Seq(Nat) /\ Distinct(Kept(q))
         /\ ToSet(Kept(q)) \subseteq Classes(q)
         /\ Len(Kept(q)) < q.limit => ToSet(Kept(q)) = Classes(q)
         /\ FileOf(q) # <<>> /\ q.limit >= (IF q.way = "task" THEN 2 ELSE 1)
              => FileOf(q)[1] \in ToSet(Kept(q))
         /\ q.way # "task" \/ q.limit >= 4 => Kept(q) = Selected(q)
<1> DEFINE s == Selected(q)
           f == FileOf(q)
           C == Classes(q)
<1>1. q.limit \in Nat
  BY QuestionType
<1>2. /\ s \in Seq(Nat) /\ Distinct(s) /\ Len(s) <= q.limit
      /\ ToSet(s) \subseteq C /\ (Len(s) < q.limit => ToSet(s) = C)
  <2>1. /\ DirectOf(q) \in Seq(Nat) /\ Distinct(DirectOf(q))
        /\ RelatedOf(q) \in Seq(Nat) /\ Distinct(RelatedOf(q))
        /\ UniversalOf(q) \in Seq(Nat) /\ Distinct(UniversalOf(q))
    BY ClassFacts
  <2> QED
    BY <1>1, <2>1, SelectFacts DEF Selected, Classes
<1>3. /\ f \in Seq(Nat) /\ (f # <<>> => Head(f) = f[1] /\ f[1] \in Nat)
  <2>1. f \in Seq(Nat) /\ (f # <<>> => Head(f) = f[1])
    BY FileFacts
  <2>2. f # <<>> => f[1] \in Nat
    BY <2>1, Members
  <2> QED
    BY <2>1, <2>2
<1>4. f # <<>> =>
      /\ f[1] \in C
      /\ q.way # "task" /\ q.limit >= 1 => f[1] \in ToSet(s)
      /\ q.limit >= 4 => f[1] \in ToSet(s)
      /\ q.limit >= 1 /\ Hits(q) = <<>> => f[1] \in ToSet(s)
  BY FileSelected DEF Classes
<1> HIDE DEF s, f, C
<1>5. CASE /\ q.way = "task" /\ q.limit >= 2 /\ Hits(q) # <<>> /\ f # <<>>
           /\ Head(f) \notin ToSet(s)
  <2> DEFINE t == Take(s, q.limit - 1)
             u == Append(t, f[1])
  <2>1. Kept(q) = u
    <3>1. Head(f) = f[1]
      BY <1>3, <1>5
    <3> QED
      BY <1>5, <3>1, KeepIs DEF s, f
  <2>2. q.limit - 1 \in Nat
    BY <1>1, <1>5
  <2>3. /\ t \in Seq(Nat) /\ Distinct(t) /\ ToSet(t) \subseteq ToSet(s)
        /\ Len(t) = IF q.limit - 1 < Len(s) THEN q.limit - 1 ELSE Len(s)
    BY <1>2, <2>2, TakeFacts
  <2>4. f[1] \in Nat /\ f[1] \notin ToSet(s) /\ f[1] \in C
    BY <1>3, <1>4, <1>5
  <2>5. f[1] \notin ToSet(t)
    BY <2>3, <2>4
  <2> HIDE DEF t
  <2>6. /\ u \in Seq(Nat) /\ Distinct(u) /\ ToSet(u) = ToSet(t) \cup {f[1]}
        /\ Len(u) = Len(t) + 1
    BY <2>3, <2>4, <2>5, AppendFacts
  <2> HIDE DEF u
  <2>7. Len(s) = q.limit
    <3>1. ~(Len(s) < q.limit)
      BY <1>2, <2>4
    <3>2. Len(s) \in Nat /\ Len(s) <= q.limit
      BY <1>2, Members
    <3> QED
      BY <1>1, <3>1, <3>2
  <2>8. ~(Len(u) < q.limit)
    BY <1>1, <2>3, <2>6, <2>7
  <2>9. ToSet(u) \subseteq C /\ f[1] \in ToSet(u)
    BY <1>2, <2>3, <2>4, <2>6
  <2>10. ~(q.way # "task" \/ q.limit >= 4)
    BY <1>4, <1>5, <2>4
  <2> QED
    BY <2>1, <2>6, <2>8, <2>9, <2>10 DEF f, C
<1>6. CASE ~ (/\ q.way = "task" /\ q.limit >= 2 /\ Hits(q) # <<>> /\ f # <<>>
              /\ Head(f) \notin ToSet(s))
  <2>1. Kept(q) = s
    BY <1>6, KeepIs DEF s, f
  <2>2. ASSUME f # <<>>, q.limit >= (IF q.way = "task" THEN 2 ELSE 1)
        PROVE  f[1] \in ToSet(s)
    <3>1. CASE q.way # "task"
      BY <1>4, <2>2, <3>1
    <3>2. CASE q.way = "task" /\ Hits(q) = <<>>
      BY <1>1, <1>4, <2>2, <3>2
    <3>3. CASE q.way = "task" /\ Hits(q) # <<>>
      <4>1. Head(f) \in ToSet(s)
        BY <1>6, <2>2, <3>3
      <4> QED
        BY <1>3, <2>2, <4>1
    <3> QED
      BY <3>1, <3>2, <3>3
  <2> QED
    BY <1>2, <2>1, <2>2 DEF s, f, C
<1> QED
  BY <1>5, <1>6

\* With files, what is shown is what is kept and can be used.
LEMMA ContextIs ==
  ASSUME NEW q \in Questions, q.files # {} \/ Hits(q) # <<>>
  PROVE  Context(q) = Materialize(Kept(q))
BY DEF Context, Kept, Selected

\* A candidate that no usable memory is closer than is the first of the files,
\* and shown.
LEMMA ClosestIsShown ==
  ASSUME StoreInv, NEW q \in Questions, q.limit >= (IF q.way = "task" THEN 2 ELSE 1),
         NEW k \in Candidates(q.files, CandidateLimit(q.limit)), Best(q.files, k) # NoMatch,
         \A j \in {x \in DOMAIN memories : Usable(x)} :
           \/ Best(q.files, j) < Best(q.files, k)
           \/ Best(q.files, j) = Best(q.files, k) /\ k <= j
  PROVE  k \in ToSet(Context(q))
<1> DEFINE n == CandidateLimit(q.limit)
<1>1. q.files \in SUBSET Paths /\ q.limit \in Nat /\ n \in Nat /\ n # 0
  <2>1. q.files \in SUBSET Paths /\ q.limit \in Nat /\ q.limit >= 1
    BY QuestionType
  <2> QED
    BY <2>1, CandidateLimitType
<1>2. Candidates(q.files, n) \subseteq {x \in DOMAIN memories : Usable(x)}
  BY <1>1, CandidateFacts
<1>3. FileOf(q) # <<>> /\ FileOf(q)[1] = k
  BY <1>1, <1>2, DirectFacts DEF FileOf
<1>4. q.files # {} /\ Usable(k)
  BY <1>3, FileFacts
<1>5. Context(q) = Materialize(Kept(q))
  BY <1>4, ContextIs
<1>6. Kept(q) \in Seq(Nat) /\ k \in ToSet(Kept(q))
  BY <1>3, KeptFacts
<1> QED
  BY <1>4, <1>5, <1>6, MaterializeFacts

\* The first memories of the other classes are shown.
LEMMA SlotIsShown ==
  ASSUME StoreInv, NEW q \in Questions, q.files # {}, q.way # "task" \/ q.limit >= 4
  PROVE  /\ \A k \in OneHop(q) :
              /\ \A j \in OneHop(q) : k <= j
              /\ q.limit > Given(DirectOf(q)) /\ Usable(k)
              => k \in ToSet(Context(q))
         /\ UniversalOf(q) # <<>> /\ q.limit > Given(DirectOf(q)) + Given(RelatedOf(q))
              => Head(UniversalOf(q)) \in ToSet(Context(q))
<1> DEFINE d == DirectOf(q)
           r == RelatedOf(q)
           u == UniversalOf(q)
           s == Selected(q)
<1>1. /\ d \in Seq(Nat) /\ Distinct(d) /\ r \in Seq(Nat) /\ Distinct(r)
      /\ u \in Seq(Nat) /\ Distinct(u) /\ (\A k \in ToSet(u) : Usable(k))
      /\ q.limit \in Nat
  BY ClassFacts, QuestionType
<1>2. Context(q) = Materialize(s)
  BY ContextIs, KeptFacts
<1> HIDE DEF d, r, u
<1>3. /\ s \in Seq(Nat)
      /\ r # <<>> /\ q.limit > Given(d) => r[1] \in ToSet(s)
      /\ u # <<>> /\ q.limit > Given(d) + Given(r) => u[1] \in ToSet(s)
  BY <1>1, SelectFacts DEF Selected, d, r, u
<1>4. /\ r # <<>> => Head(r) = r[1]
      /\ u # <<>> => Head(u) = u[1] /\ u[1] \in ToSet(u)
  BY <1>1, Members
<1> HIDE DEF s
<1>5. ToSet(Context(q)) = {k \in ToSet(s) : Usable(k)}
  BY <1>2, <1>3, MaterializeFacts
<1>6. ASSUME NEW k \in ToSet(r), \A j \in ToSet(r) : k <= j PROVE r # <<>> /\ r[1] = k
  <2>1. PICK i \in 1..Len(r) : r[i] = k
    BY <1>1, Members
  <2>2. Len(r) \in Nat /\ 1 \in 1..Len(r) /\ (i = 1 \/ 1 < i)
    BY <1>1, <2>1
  <2>3. r[1] \in ToSet(r) /\ r[1] \in Nat /\ k \in Nat
    BY <1>1, <2>1, <2>2, Members
  <2>4. Rising(r)
    BY ClassFacts DEF r
  <2>5. 1 < i => r[1] < k
    BY <2>1, <2>2, <2>4 DEF Rising
  <2>6. k <= r[1]
    BY <1>6, <2>3
  <2> QED
    BY <1>1, <2>1, <2>2, <2>3, <2>5, <2>6
<1>7. OneHop(q) = ToSet(r)
  BY ClassFacts DEF r
<1>8. ASSUME NEW k \in ToSet(r), \A j \in ToSet(r) : k <= j, q.limit > Given(d), Usable(k)
      PROVE  k \in ToSet(Context(q))
  BY <1>3, <1>5, <1>6, <1>8
<1> QED
  BY <1>1, <1>3, <1>4, <1>5, <1>7, <1>8 DEF d, r, u

\* Places are lost only to the archived memories that links lead to.
LEMMA ShortByArchived ==
  ASSUME StoreInv, NEW q \in Questions, q.files # {}, Len(Context(q)) < q.limit
  PROVE  LET archived == {k \in ToSet(RelatedOf(q)) : ~Usable(k)} IN
         \/ Classes(q) \ archived \subseteq ToSet(Context(q))
         \/ Len(Context(q)) + Cardinality(archived) >= q.limit
<1> DEFINE k == Kept(q)
           c == Context(q)
           archived == {x \in ToSet(RelatedOf(q)) : ~Usable(x)}
           lost == {x \in ToSet(k) : ~Usable(x)}
<1>1. /\ RelatedOf(q) \in Seq(Nat)
      /\ \A x \in ToSet(DirectOf(q)) : Usable(x)
      /\ \A x \in ToSet(UniversalOf(q)) : Usable(x)
      /\ q.limit \in Nat
  BY ClassFacts, QuestionType
<1>2. /\ k \in Seq(Nat) /\ Distinct(k) /\ ToSet(k) \subseteq Classes(q)
      /\ Len(k) < q.limit => ToSet(k) = Classes(q)
  BY KeptFacts
<1>3. c = Materialize(k)
  BY ContextIs
<1> HIDE DEF k, c
<1>4. c \in Seq(Nat) /\ ToSet(c) = {x \in ToSet(k) : Usable(x)} /\ Distinct(c)
  BY <1>2, <1>3, MaterializeFacts
<1>5. Len(k) \in Nat /\ Len(c) \in Nat
  BY <1>2, <1>4, Members
<1>6. \A x \in Classes(q) \ archived : Usable(x)
  BY <1>1 DEF Classes
<1>7. CASE Len(k) < q.limit
  BY <1>2, <1>4, <1>6, <1>7 DEF c
<1>8. CASE Len(k) >= q.limit
  <2>1. lost \subseteq archived
    BY <1>2, <1>6
  <2>2. IsFiniteSet(archived)
    <3>1. IsFiniteSet(ToSet(RelatedOf(q))) /\ archived \subseteq ToSet(RelatedOf(q))
      BY <1>1, Counted
    <3> QED
      BY <3>1, FS_Subset
  <2>3. ToSet(k) = ToSet(c) \cup lost /\ ToSet(c) \cap lost = {}
    BY <1>4
  <2> HIDE DEF lost, archived
  <2>4. IsFiniteSet(lost) /\ Cardinality(lost) <= Cardinality(archived)
    BY <2>1, <2>2, FS_Subset
  <2>5. IsFiniteSet(ToSet(c)) /\ Cardinality(ToSet(c)) = Len(c) /\ Cardinality(ToSet(k)) = Len(k)
    BY <1>2, <1>4, Counted
  <2>6. Cardinality(ToSet(c) \cup lost) =
          Cardinality(ToSet(c)) + Cardinality(lost) - Cardinality(ToSet(c) \cap lost)
    BY <2>4, <2>5, FS_Union
  <2>7. Cardinality(ToSet(c) \cap lost) = 0
    BY <2>3, FS_EmptySet
  <2>8. Cardinality(lost) \in Nat /\ Cardinality(archived) \in Nat
    BY <2>2, <2>4, FS_CardinalityType
  <2>9. Len(k) = Len(c) + Cardinality(lost)
    BY <1>5, <2>3, <2>5, <2>6, <2>7, <2>8
  <2>10. Len(c) + Cardinality(archived) >= q.limit
    BY <1>1, <1>5, <1>8, <2>4, <2>8, <2>9
  <2> QED
    BY <2>10 DEF c, archived
<1> QED
  BY <1>1, <1>5, <1>7, <1>8

----------------------------------------------------------------------------
(* The lines that fit.                                                     *)

FitStep(costs, used, budget, f, i) ==
  IF i = 0 THEN [used |-> used, lines |-> {}]
  ELSE IF f[i - 1].used + costs[i] <= budget
  THEN [used |-> f[i - 1].used + costs[i], lines |-> f[i - 1].lines \cup {i}]
  ELSE f[i - 1]

Sections == [used : Nat, lines : SUBSET Nat]

\* The recursive function in Fitting exists.
LEMMA FittingIs ==
  ASSUME NEW costs \in Seq(Nat), NEW used \in Nat, NEW budget \in Int
  PROVE  \E f : /\ f \in [0..Len(costs) -> Sections]
                /\ \A i \in 0..Len(costs) : f[i] = FitStep(costs, used, budget, f, i)
                /\ Fitting(costs, used, budget) = f[Len(costs)]
<1> DEFINE n == Len(costs)
           Is(f) == f = [i \in 0..n |->
                     IF i = 0 THEN [used |-> used, lines |-> {}]
                     ELSE LET p == f[i - 1] IN
                          IF p.used + costs[i] <= budget
                          THEN [used |-> p.used + costs[i], lines |-> p.lines \cup {i}]
                          ELSE p]
           fit == CHOOSE f : Is(f)
<1>1. n \in Nat
  OBVIOUS
<1>2. Fitting(costs, used, budget) = fit[n]
  BY DEF Fitting
<1> HIDE DEF n
<1>3. \E f : f \in [0..n -> Sections] /\ Is(f)
  <2> DEFINE e == [used |-> used, lines |-> {}]
             next(i, x) == IF x.used + costs[i] <= budget
                           THEN [used |-> x.used + costs[i], lines |-> x.lines \cup {i}]
                           ELSE x
             D == Sections
             g == [i \in 1..n |-> [x \in D |-> next(i, x)]]
  <2>1. e \in D
    BY DEF Sections
  <2>2. ASSUME NEW i \in 1..n, NEW x \in D PROVE next(i, x) \in D
    <3>1. costs[i] \in Nat /\ i \in Nat
      BY DEF n
    <3>2. x.used \in Nat /\ x.lines \in SUBSET Nat
      BY DEF Sections
    <3>3. x.used + costs[i] \in Nat /\ x.lines \cup {i} \in SUBSET Nat
      BY <3>1, <3>2
    <3> QED
      BY <3>3 DEF Sections
  <2> HIDE DEF D, e, next
  <2>3. g \in [1..n -> [D -> D]]
    BY <2>2
  <2>4. \A i \in 1..n : \A x \in D : g[i][x] = next(i, x)
    OBVIOUS
  <2> HIDE DEF g
  <2>5. \E f \in [0..n -> D] : Follows(f, e, n, g)
    BY <1>1, <2>1, <2>3, Recursion
  <2>6. PICK f \in [0..n -> D] : f[0] = e /\ \A i \in 1..n : f[i] = g[i][f[i - 1]]
    BY <2>5 DEF Follows
  <2>7. ASSUME NEW i \in 0..n PROVE f[i] = IF i = 0 THEN e ELSE next(i, f[i - 1])
    <3>1. CASE i # 0
      <4>1. i \in 1..n /\ i - 1 \in 0..n
        BY <1>1, <3>1
      <4>2. f[i] = g[i][f[i - 1]] /\ f[i - 1] \in D
        BY <2>6, <4>1
      <4> QED
        BY <2>4, <3>1, <4>1, <4>2
    <3> QED
      BY <2>6, <3>1
  <2>8. f = [i \in 0..n |-> IF i = 0 THEN e ELSE next(i, f[i - 1])]
    BY <2>7
  <2>9. Is(f)
    BY <2>8 DEF e, next
  <2> HIDE DEF Is
  <2> QED
    BY <2>9 DEF D
<1>4. \E f : Is(f)
  <2> HIDE DEF Is
  <2> QED
    BY <1>3
<1>5. Is(fit)
  <2> HIDE DEF Is
  <2> QED
    BY <1>4
<1>6. \A i \in 0..n : fit[i] = FitStep(costs, used, budget, fit, i)
  <2> HIDE DEF fit
  <2> QED
    BY <1>5 DEF FitStep
<1> HIDE DEF fit
<1> DEFINE P == {i \in Nat : i <= n => fit[i] \in Sections}
<1>7. 0 \in P
  <2>1. fit[0] = [used |-> used, lines |-> {}]
    <3>1. 0 \in 0..n
      BY <1>1
    <3>2. fit[0] = FitStep(costs, used, budget, fit, 0)
      BY <1>6, <3>1
    <3> QED
      BY <3>2 DEF FitStep
  <2>2. fit[0] \in Sections
    BY <2>1 DEF Sections
  <2> QED
    BY <2>2
<1>8. ASSUME NEW i \in P PROVE i + 1 \in P
  <2> SUFFICES ASSUME i + 1 <= n PROVE fit[i + 1] \in Sections
    OBVIOUS
  <2>1. i \in Nat /\ fit[i] \in Sections /\ i + 1 \in 0..n /\ i + 1 # 0 /\ (i + 1) - 1 = i
    BY <1>1
  <2>2. costs[i + 1] \in Nat
    BY <2>1 DEF n
  <2>3. fit[i + 1] = FitStep(costs, used, budget, fit, i + 1)
    BY <1>6, <2>1
  <2>4. fit[i].used + costs[i + 1] \in Nat /\ fit[i].lines \cup {i + 1} \in SUBSET Nat
    BY <2>1, <2>2 DEF Sections
  <2> QED
    BY <2>1, <2>3, <2>4 DEF FitStep, Sections
<1>9. P = Nat
  <2>1. P \in SUBSET Nat
    OBVIOUS
  <2> HIDE DEF P
  <2> QED
    BY <1>7, <1>8, <2>1, NatSets
<1>10. \A i \in 0..n : fit[i] \in Sections
  BY <1>1, <1>9
<1>11. fit \in [0..n -> Sections]
  <2>1. fit = [i \in 0..n |-> fit[i]]
    BY <1>5
  <2> QED
    BY <1>10, <2>1
<1> QED
  BY <1>2, <1>6, <1>11 DEF n

\* A section is empty or within the budget, and has its first line if that
\* fits.
LEMMA FittingFacts ==
  ASSUME NEW costs \in Seq(Nat), NEW used \in Nat, NEW budget \in Int
  PROVE  /\ Fitting(costs, used, budget) \in Sections
         /\ Fitting(costs, used, budget).lines = {} => Fitting(costs, used, budget).used = used
         /\ Fitting(costs, used, budget).lines # {} => Fitting(costs, used, budget).used <= budget
         /\ costs # <<>> /\ used + Head(costs) <= budget => 1 \in Fitting(costs, used, budget).lines
<1> DEFINE n == Len(costs)
<1>1. n \in Nat
  OBVIOUS
<1>2. PICK f : /\ f \in [0..n -> Sections]
               /\ \A i \in 0..n : f[i] = FitStep(costs, used, budget, f, i)
               /\ Fitting(costs, used, budget) = f[n]
  BY FittingIs
<1> HIDE DEF n
<1> DEFINE Within(i) == /\ f[i].lines = {} => f[i].used = used
                        /\ f[i].lines # {} => f[i].used <= budget
                        /\ i >= 1 /\ used + costs[1] <= budget => 1 \in f[i].lines
           P == {i \in Nat : i <= n => Within(i)}
<1>3. f[0] = [used |-> used, lines |-> {}]
  BY <1>1, <1>2 DEF FitStep
<1>4. 0 \in P
  BY <1>3
<1>5. ASSUME NEW i \in P PROVE i + 1 \in P
  <2>1. i \in Nat /\ (i <= n => Within(i))
    <3> HIDE DEF Between
    <3> QED
      OBVIOUS
  <2> HIDE DEF P
  <2> SUFFICES ASSUME i + 1 <= n PROVE Within(i + 1)
    <3> HIDE DEF Between
    <3> QED
      BY <2>1 DEF P
  <2>2. Within(i) /\ i \in 0..n /\ i + 1 \in 0..n /\ i + 1 # 0 /\ (i + 1) - 1 = i
    BY <1>1, <2>1
  <2>3. f[i + 1] = FitStep(costs, used, budget, f, i + 1)
    BY <1>2, <2>2
  <2>4. f[i] \in Sections
    BY <1>2, <2>2
  <2>5. CASE f[i].used + costs[i + 1] <= budget
    <3>1. f[i + 1].used = f[i].used + costs[i + 1] /\ f[i + 1].lines = f[i].lines \cup {i + 1}
      BY <2>2, <2>3, <2>5 DEF FitStep
    <3>2. i + 1 >= 1 /\ used + costs[1] <= budget => 1 \in f[i + 1].lines
      BY <2>1, <2>2, <3>1
    <3> QED
      BY <2>5, <3>1, <3>2
  <2>6. CASE ~(f[i].used + costs[i + 1] <= budget)
    <3>1. f[i + 1] = f[i]
      BY <2>2, <2>3, <2>6 DEF FitStep
    <3>2. i = 0 => f[i].used = used
      BY <1>3
    <3> QED
      BY <2>1, <2>2, <2>6, <3>1, <3>2
  <2> QED
    BY <2>5, <2>6
<1>6. P = Nat
  <2>1. P \in SUBSET Nat
    OBVIOUS
  <2> HIDE DEF P
  <2> QED
    BY <1>4, <1>5, <2>1, NatSets
<1>7. Within(n) /\ f[n] \in Sections
  <2> HIDE DEF Between
  <2> QED
    BY <1>1, <1>2, <1>6
<1>8. costs # <<>> => Head(costs) = costs[1] /\ n >= 1
  BY DEF n
<1> QED
  BY <1>2, <1>7, <1>8

----------------------------------------------------------------------------
(* The context of two stores.                                              *)

Section(costs, used, budget, header) == Headed(Fitting(costs, used, budget), header)

\* What McpContext puts together, section by section.
Here(q) == q.scope \in {"all", "project"}
RuleCosts(q) ==
  IF Here(q) THEN Take(q.rules, IF q.scope = "all" THEN ProjectLimit(q.limit) ELSE q.limit)
  ELSE <<>>
RuleSection(q) == Headed(FittingRules(RuleCosts(q), MetaBudget(q) - MetaBytes), 20)
LinkSection(q) ==
  Section(IF Here(q) THEN q.relations ELSE <<>>, RuleSection(q).used, MetaBudget(q), 16)
RunSection(q) ==
  Section(IF Here(q) THEN q.sessions ELSE <<>>, LinkSection(q).used, MetaBudget(q), 15)
GlobalSlots(q) ==
  CASE q.scope = "all" -> GlobalLimit(q.limit, Len(RuleCosts(q)))
    [] q.scope = "global" -> q.limit
    [] q.scope = "project" -> 0
GlobalSection(q) ==
  Section(Take(q.globals, GlobalSlots(q)), RunSection(q).used, Budget(q.explain), 25)

\* The sections, one below the other.
LEMMA McpContextIs ==
  ASSUME NEW q
  PROVE  McpContext(q) =
    [rules |-> RuleSection(q).lines, relations |-> LinkSection(q).lines,
     sessions |-> RunSection(q).lines, globals |-> GlobalSection(q).lines,
     slots |-> Len(RuleCosts(q)) + Len(Take(q.globals, GlobalSlots(q))),
     bytes |-> Max({GlobalSection(q).used + (IF q.explain THEN q.why + 1 ELSE 0) - 1, 0})]
BY DEF McpContext, Here, RuleCosts, RuleSection, LinkSection, RunSection, GlobalSlots,
       GlobalSection, Section

\* The parts of a question to both stores.
LEMMA ScopedType ==
  ASSUME NEW q \in Scoped
  PROVE  /\ q.scope \in {"all", "project", "global"} /\ q.limit \in Nat
         /\ q.explain \in BOOLEAN /\ q.why \in 0..ExplainBytes
         /\ q.rules \in Seq(Nat) /\ q.relations \in Seq(Nat)
         /\ q.sessions \in Seq(Nat) /\ q.globals \in Seq(Nat)
BY RetrievalAssumption

\* No budget is negative.
LEMMA BudgetFacts ==
  ASSUME NEW q \in Scoped
  PROVE  /\ MaxBytes \in Nat /\ NoticeBytes \in Nat /\ ExplainBytes \in Nat
         /\ GlobalBytes \in Nat /\ MetaBytes \in Nat /\ NoticeBytes >= 25 /\ MetaBytes >= 20
         /\ Budget(q.explain) \in Nat /\ MetaBudget(q) \in Nat
         /\ MetaBytes <= MetaBudget(q) /\ MetaBudget(q) <= Budget(q.explain)
         /\ q.scope = "all" => Budget(q.explain) = MetaBudget(q) + GlobalBytes
         /\ Budget(q.explain) = MaxBytes - NoticeBytes - (IF q.explain THEN ExplainBytes ELSE 0)
         /\ ExplainBytes <= MaxBytes
<1>1. /\ MaxBytes \in Nat /\ NoticeBytes \in Nat /\ ExplainBytes \in Nat
      /\ GlobalBytes \in Nat /\ MetaBytes \in Nat /\ NoticeBytes >= 25 /\ MetaBytes >= 20
      /\ NoticeBytes + ExplainBytes + GlobalBytes + MetaBytes <= MaxBytes
  BY BudgetsAssumption
<1>2. Budget(q.explain) = MaxBytes - NoticeBytes - (IF q.explain THEN ExplainBytes ELSE 0)
  BY DEF Budget
<1>3. MetaBudget(q) = Budget(q.explain) - (IF q.scope = "all" THEN GlobalBytes ELSE 0)
  BY DEF MetaBudget
<1>4. /\ Budget(q.explain) \in Nat /\ MetaBudget(q) \in Nat
      /\ MetaBytes <= MetaBudget(q) /\ MetaBudget(q) <= Budget(q.explain)
  BY <1>1, <1>2, <1>3
<1> QED
  BY <1>1, <1>2, <1>3, <1>4

\* A section that is not empty has a header.
LEMMA HeadedFacts ==
  ASSUME NEW s \in Sections, NEW header \in Nat
  PROVE  /\ Headed(s, header) \in Sections /\ Headed(s, header).lines = s.lines
         /\ s.lines = {} => Headed(s, header).used = s.used
         /\ s.lines # {} => Headed(s, header).used = s.used + header
BY DEF Headed, Sections

\* A section that is put below others is empty or keeps to its budget.
LEMMA SectionFacts ==
  ASSUME NEW costs \in Seq(Nat), NEW used \in Nat, NEW budget \in Int, NEW header \in Nat
  PROVE  /\ Section(costs, used, budget, header) \in Sections
         /\ Section(costs, used, budget, header).lines = {}
              => Section(costs, used, budget, header).used = used
         /\ Section(costs, used, budget, header).lines # {}
              => Section(costs, used, budget, header).used <= budget + header
         /\ costs # <<>> /\ used + Head(costs) <= budget
              => 1 \in Section(costs, used, budget, header).lines
<1> DEFINE f == Fitting(costs, used, budget)
           s == Headed(f, header)
<1>1. /\ f \in Sections
      /\ f.lines = {} => f.used = used
      /\ f.lines # {} => f.used <= budget
      /\ costs # <<>> /\ used + Head(costs) <= budget => 1 \in f.lines
  BY FittingFacts
<1> HIDE DEF f
<1>2. /\ s \in Sections /\ s.lines = f.lines
      /\ f.lines = {} => s.used = f.used
      /\ f.lines # {} => s.used = f.used + header
  BY <1>1, HeadedFacts
<1> HIDE DEF s
<1>3. f.used \in Nat
  BY <1>1 DEF Sections
<1>4. f.lines # {} => f.used + header <= budget + header
  BY <1>1, <1>3
<1> QED
  BY <1>1, <1>2, <1>4 DEF f, s, Section

\* The slots of the two stores.
LEMMA LimitFacts ==
  ASSUME NEW limit \in Nat
  PROVE  /\ GlobalReserve(limit) \in Nat /\ GlobalReserve(limit) >= 1
         /\ limit >= 2 => limit - GlobalReserve(limit) >= 1
         /\ ProjectLimit(limit) \in Nat /\ ProjectLimit(limit) >= 1
         /\ limit >= 2 => ProjectLimit(limit) = limit - GlobalReserve(limit)
<1> DEFINE R == GlobalReserve(limit)
<1>1. R \in Nat /\ R >= 1 /\ (limit >= 2 => limit - R >= 1)
  <2>1. CASE limit >= 4
    <3> DEFINE x == limit \div 4
               m == Max({x, 2})
    <3>1. x \in Nat /\ 4 * x <= limit
      OBVIOUS
    <3> HIDE DEF x
    <3>2. m = IF x <= 2 THEN 2 ELSE x
      BY <3>1, PairFacts
    <3> HIDE DEF m
    <3>3. m \in Nat
      BY <3>1, <3>2
    <3>4. Min({m, 10}) = IF m <= 10 THEN m ELSE 10
      <4>1. m \in Int /\ 10 \in Int
        BY <3>3
      <4> QED
        BY <4>1, PairFacts
    <3>5. R = Min({m, 10})
      BY <2>1 DEF GlobalReserve, m, x
    <3> HIDE DEF R
    <3> QED
      BY <2>1, <3>1, <3>2, <3>3, <3>4, <3>5
  <2>2. CASE ~(limit >= 4)
    BY <2>2 DEF GlobalReserve
  <2> QED
    BY <2>1, <2>2
<1> HIDE DEF R
<1>2. limit - R \in Int
  BY <1>1
<1>3. Max({limit - R, 1}) = IF limit - R <= 1 THEN 1 ELSE limit - R
  BY <1>2, PairFacts
<1>4. ProjectLimit(limit) = Max({limit - R, 1})
  BY DEF ProjectLimit, R
<1>5. /\ ProjectLimit(limit) \in Nat /\ ProjectLimit(limit) >= 1
      /\ limit >= 2 => ProjectLimit(limit) = limit - R
  BY <1>1, <1>3, <1>4
<1> QED
  BY <1>1, <1>5 DEF R

\* The rule that is too long to share: the text is cut after it.
LongRule(q) == q.rules # <<>> /\ Head(q.rules) > MetaBudget(q) - MetaBytes

\* The rules keep to their budget unless one is too long.
LEMMA RuleFacts ==
  ASSUME NEW q \in Scoped
  PROVE  /\ RuleCosts(q) \in Seq(Nat)
         /\ RuleSection(q) \in Sections
         /\ ~LongRule(q) => RuleSection(q).used <= MetaBudget(q) - MetaBytes + 20
<1> DEFINE n == IF q.scope = "all" THEN ProjectLimit(q.limit) ELSE q.limit
           c == RuleCosts(q)
           b == MetaBudget(q) - MetaBytes
<1>1. q.rules \in Seq(Nat) /\ q.limit \in Nat
  BY ScopedType
<1>2. b \in Nat
  BY BudgetFacts
<1>3. c \in Seq(Nat) /\ (c # <<>> => q.rules # <<>> /\ Head(c) = Head(q.rules) /\ Head(c) \in Nat)
  <2>1. CASE ~Here(q)
    <3>1. c = <<>>
      BY <2>1 DEF RuleCosts
    <3> QED
      BY <3>1
  <2>2. CASE Here(q)
    <3>1. c = Take(q.rules, n)
      BY <2>2 DEF RuleCosts
    <3> HIDE DEF c
    <3>2. n \in Nat
      <4>1. ProjectLimit(q.limit) \in Nat
        BY <1>1, LimitFacts
      <4> QED
        BY <1>1, <4>1
    <3> HIDE DEF n
    <3>3. /\ c \in Seq(Nat) /\ Len(c) = (IF n < Len(q.rules) THEN n ELSE Len(q.rules))
          /\ \A i \in 1..Len(c) : c[i] = q.rules[i]
      BY <1>1, <3>1, <3>2, TakeFacts
    <3>4. ASSUME c # <<>> PROVE q.rules # <<>> /\ Head(c) = Head(q.rules) /\ Head(c) \in Nat
      <4>1. Head(c) = c[1] /\ 1 \in 1..Len(c) /\ c[1] \in ToSet(c) /\ ToSet(c) \subseteq Nat
        BY <3>3, <3>4, Members
      <4>2. c[1] = q.rules[1] /\ Len(q.rules) # 0
        BY <1>1, <3>2, <3>3, <4>1
      <4>3. q.rules # <<>> /\ Head(q.rules) = q.rules[1]
        BY <1>1, <4>2, Members
      <4> QED
        BY <4>1, <4>2, <4>3
    <3> QED
      BY <3>3, <3>4
  <2> QED
    BY <2>1, <2>2
<1> HIDE DEF c, b
<1>4. CASE c # <<>> /\ Head(c) > b
  <2> DEFINE s == [used |-> Head(c), lines |-> {1}]
  <2>1. RuleSection(q) = Headed(s, 20)
    BY <1>4 DEF RuleSection, FittingRules, c, b
  <2>2. s \in Sections
    BY <1>3, <1>4 DEF Sections
  <2>3. Headed(s, 20) \in Sections
    BY <2>2, HeadedFacts
  <2>4. LongRule(q)
    BY <1>3, <1>4 DEF LongRule, b
  <2> QED
    BY <1>3, <2>1, <2>3, <2>4 DEF c
<1>5. CASE ~(c # <<>> /\ Head(c) > b)
  <2> DEFINE s == Section(c, 0, b, 20)
  <2>1. RuleSection(q) = s
    BY <1>5 DEF RuleSection, FittingRules, Section, c, b
  <2>2. s \in Sections /\ (s.lines = {} => s.used = 0) /\ (s.lines # {} => s.used <= b + 20)
    <3>1. c \in Seq(Nat) /\ 0 \in Nat /\ b \in Int /\ 20 \in Nat
      BY <1>2, <1>3
    <3> QED
      BY <3>1, SectionFacts
  <2> HIDE DEF s
  <2>3. s.used <= b + 20
    BY <1>2, <2>2
  <2> QED
    BY <1>3, <2>1, <2>2, <2>3 DEF c, b
<1> QED
  BY <1>4, <1>5

\* The lines of the project, if it is asked.
LEMMA OrNone ==
  ASSUME NEW q \in Scoped
  PROVE  /\ (IF Here(q) THEN q.relations ELSE <<>>) \in Seq(Nat)
         /\ (IF Here(q) THEN q.sessions ELSE <<>>) \in Seq(Nat)
<1>1. q.relations \in Seq(Nat) /\ q.sessions \in Seq(Nat)
  BY ScopedType
<1>2. <<>> \in Seq(Nat)
  OBVIOUS
<1>3. CASE Here(q)
  BY <1>1, <1>3
<1>4. CASE ~Here(q)
  BY <1>2, <1>4
<1> QED
  BY <1>3, <1>4

\* The slots of the global store.
LEMMA GlobalFacts ==
  ASSUME NEW q \in Scoped
  PROVE  /\ RuleCosts(q) \in Seq(Nat) /\ Len(RuleCosts(q)) \in Nat
         /\ GlobalSlots(q) \in Nat
         /\ Take(q.globals, GlobalSlots(q)) \in Seq(Nat)
         /\ q.scope = "all" =>
              GlobalSlots(q) = IF q.limit - Len(RuleCosts(q)) <= GlobalReserve(q.limit)
                               THEN GlobalReserve(q.limit) ELSE q.limit - Len(RuleCosts(q))
<1> DEFINE c == Len(RuleCosts(q))
           R == GlobalReserve(q.limit)
           n == GlobalSlots(q)
<1>1. q.limit \in Nat /\ R \in Nat /\ q.globals \in Seq(Nat)
  BY ScopedType, LimitFacts
<1>2. RuleCosts(q) \in Seq(Nat) /\ c \in Nat
  BY RuleFacts
<1> HIDE DEF c, R
<1>3. q.limit - c \in Int /\ R \in Int
  BY <1>1, <1>2
<1>4. Max({q.limit - c, R}) = IF q.limit - c <= R THEN R ELSE q.limit - c
  BY <1>3, PairFacts
<1>5. q.scope = "all" => n = Max({q.limit - c, R})
  BY DEF GlobalSlots, GlobalLimit, c, R
<1>6. n \in Nat
  <2>1. CASE q.scope = "all"
    BY <1>1, <1>2, <1>4, <1>5, <2>1
  <2>2. CASE q.scope = "global"
    BY <1>1, <2>2 DEF GlobalSlots
  <2>3. CASE q.scope = "project"
    BY <2>3 DEF GlobalSlots
  <2> QED
    BY <2>1, <2>2, <2>3, ScopedType
<1> HIDE DEF n
<1>7. Take(q.globals, n) \in Seq(Nat)
  BY <1>1, <1>6, TakeFacts
<1> QED
  BY <1>2, <1>4, <1>5, <1>6, <1>7 DEF c, R, n

\* What the sections have used, if no rule is too long.
LEMMA UsedFacts ==
  ASSUME NEW q \in Scoped, ~LongRule(q)
  PROVE  /\ RuleSection(q).used \in Nat
         /\ RuleSection(q).used <= MetaBudget(q) - MetaBytes + 20
         /\ RunSection(q).used \in Nat /\ RunSection(q).used <= MetaBudget(q) + 16
         /\ GlobalSection(q).used \in Nat /\ GlobalSection(q).used <= Budget(q.explain) + 25
         /\ q.relations # <<>> /\ Here(q) /\ Head(q.relations) <= MetaBytes - 20
              => 1 \in LinkSection(q).lines
         /\ q.scope = "all" /\ Take(q.globals, GlobalSlots(q)) # <<>>
              /\ Head(Take(q.globals, GlobalSlots(q))) <= GlobalBytes - 16
              => 1 \in GlobalSection(q).lines
<1> DEFINE mb == MetaBudget(q)
           b == Budget(q.explain)
           rels == IF Here(q) THEN q.relations ELSE <<>>
           runs == IF Here(q) THEN q.sessions ELSE <<>>
           g == Take(q.globals, GlobalSlots(q))
           s1 == RuleSection(q)
           s2 == LinkSection(q)
           s3 == RunSection(q)
           s4 == GlobalSection(q)
<1>1. /\ b \in Nat /\ mb \in Nat /\ MetaBytes \in Nat /\ GlobalBytes \in Nat
      /\ MetaBytes >= 20 /\ MetaBytes <= mb /\ mb <= b
      /\ q.scope = "all" => b = mb + GlobalBytes
  BY BudgetFacts
<1>2. s1 \in Sections /\ s1.used <= mb - MetaBytes + 20
  BY RuleFacts
<1>3. rels \in Seq(Nat) /\ runs \in Seq(Nat) /\ g \in Seq(Nat)
  BY OrNone, GlobalFacts
<1>4. /\ s2 = Section(rels, s1.used, mb, 16) /\ s3 = Section(runs, s2.used, mb, 15)
      /\ s4 = Section(g, s3.used, b, 25)
  BY DEF LinkSection, RunSection, GlobalSection
<1>5. Here(q) => rels = q.relations
  OBVIOUS
<1> HIDE DEF rels, runs, g, s1, s2, s3, s4, mb, b
<1>6. 16 \in Nat /\ 15 \in Nat /\ 25 \in Nat /\ mb \in Int /\ b \in Int
  BY <1>1
<1>7. s1.used \in Nat /\ s1.used <= mb
  BY <1>1, <1>2 DEF Sections
<1>8. /\ s2 \in Sections /\ (s2.lines = {} => s2.used = s1.used)
      /\ s2.lines # {} => s2.used <= mb + 16
      /\ rels # <<>> /\ s1.used + Head(rels) <= mb => 1 \in s2.lines
  BY <1>3, <1>4, <1>6, <1>7, SectionFacts
<1>9. s2.used \in Nat /\ s2.used <= mb + 16
  <2>1. s2.used \in Nat
    BY <1>8 DEF Sections
  <2> QED
    BY <1>1, <1>7, <1>8, <2>1
<1>10. /\ s3 \in Sections /\ (s3.lines = {} => s3.used = s2.used)
       /\ s3.lines # {} => s3.used <= mb + 15
  BY <1>3, <1>4, <1>6, <1>9, SectionFacts
<1>11. s3.used \in Nat /\ s3.used <= mb + 16
  <2>1. s3.used \in Nat
    BY <1>10 DEF Sections
  <2> QED
    BY <1>1, <1>9, <1>10, <2>1
<1>12. /\ s4 \in Sections /\ (s4.lines = {} => s4.used = s3.used)
       /\ s4.lines # {} => s4.used <= b + 25
       /\ g # <<>> /\ s3.used + Head(g) <= b => 1 \in s4.lines
  BY <1>3, <1>4, <1>6, <1>11, SectionFacts
<1>13. s4.used \in Nat /\ s4.used <= b + 25
  <2>1. s4.used \in Nat
    BY <1>12 DEF Sections
  <2> QED
    BY <1>1, <1>11, <1>12, <2>1
<1>14. ASSUME rels # <<>>, Head(rels) <= MetaBytes - 20 PROVE 1 \in s2.lines
  <2>1. Head(rels) \in Nat
    BY <1>3, <1>14
  <2>2. s1.used + Head(rels) <= mb
    BY <1>1, <1>2, <1>7, <1>14, <2>1
  <2> QED
    BY <1>8, <1>14, <2>2
<1>15. ASSUME q.scope = "all", g # <<>>, Head(g) <= GlobalBytes - 16 PROVE 1 \in s4.lines
  <2>1. Head(g) \in Nat
    BY <1>3, <1>15
  <2>2. s3.used + Head(g) <= b
    BY <1>1, <1>11, <1>15, <2>1
  <2> QED
    BY <1>12, <1>15, <2>2
<1>16. q.relations # <<>> /\ Here(q) /\ Head(q.relations) <= MetaBytes - 20 => 1 \in s2.lines
  BY <1>5, <1>14
<1>17. q.scope = "all" /\ g # <<>> /\ Head(g) <= GlobalBytes - 16 => 1 \in s4.lines
  BY <1>15
<1>18. /\ s1.used \in Nat /\ s1.used <= mb - MetaBytes + 20
       /\ s3.used \in Nat /\ s3.used <= mb + 16
       /\ s4.used \in Nat /\ s4.used <= b + 25
  BY <1>2, <1>7, <1>11, <1>13
<1> QED
  BY <1>16, <1>17, <1>18, Zenon DEF mb, b, g, s1, s2, s3, s4

\* The text is never cut unless its first rule alone is too long.
LEMMA TextFits ==
  ASSUME NEW q \in Scoped, ~LongRule(q)
  PROVE  McpContext(q).bytes <= MaxBytes
<1> DEFINE u == GlobalSection(q).used
           w == IF q.explain THEN q.why + 1 ELSE 0
<1>1. u \in Nat /\ u <= Budget(q.explain) + 25
  BY UsedFacts
<1>2. /\ MaxBytes \in Nat /\ NoticeBytes \in Nat /\ ExplainBytes \in Nat /\ NoticeBytes >= 25
      /\ ExplainBytes <= MaxBytes
      /\ Budget(q.explain) = MaxBytes - NoticeBytes - (IF q.explain THEN ExplainBytes ELSE 0)
  BY BudgetFacts
<1>3. q.explain \in BOOLEAN /\ q.why \in Nat /\ q.why <= ExplainBytes
  BY <1>2, ScopedType
<1>4. w \in Nat /\ u + w - 1 <= MaxBytes
  <2>1. CASE q.explain
    BY <1>1, <1>2, <1>3, <2>1
  <2>2. CASE ~q.explain
    BY <1>1, <1>2, <1>3, <2>2
  <2> QED
    BY <2>1, <2>2
<1>5. McpContext(q).bytes = Max({u + w - 1, 0})
  BY McpContextIs
<1> HIDE DEF u, w
<1>6. u + w - 1 \in Int /\ 0 \in Int
  BY <1>1, <1>4
<1>7. Max({u + w - 1, 0}) = IF u + w - 1 <= 0 THEN 0 ELSE u + w - 1
  BY <1>6, PairFacts
<1> QED
  BY <1>2, <1>4, <1>5, <1>7

\* No store and no class of lines is starved.
LEMMA StoresShown ==
  ASSUME NEW q \in Scoped, q.scope = "all", ~LongRule(q)
  PROVE  /\ q.globals # <<>> /\ Head(q.globals) <= GlobalBytes - 16
              => 1 \in McpContext(q).globals
         /\ q.relations # <<>> /\ Head(q.relations) <= MetaBytes - 20
              => 1 \in McpContext(q).relations
         /\ q.limit >= 2 => McpContext(q).slots <= q.limit
         /\ Len(q.globals) >= q.limit => McpContext(q).slots >= q.limit
<1> DEFINE c == Len(RuleCosts(q))
           R == GlobalReserve(q.limit)
           n == GlobalSlots(q)
           g == Take(q.globals, n)
           m == Len(q.globals)
<1>1. q.limit \in Nat /\ q.globals \in Seq(Nat) /\ m \in Nat /\ q.rules \in Seq(Nat)
  BY ScopedType
<1>2. /\ R \in Nat /\ R >= 1 /\ (q.limit >= 2 => q.limit - R >= 1)
      /\ ProjectLimit(q.limit) \in Nat
      /\ q.limit >= 2 => ProjectLimit(q.limit) = q.limit - R
  BY <1>1, LimitFacts
<1>3. c \in Nat /\ n \in Nat /\ n = IF q.limit - c <= R THEN R ELSE q.limit - c
  BY GlobalFacts
<1>4. c <= ProjectLimit(q.limit)
  <2>1. RuleCosts(q) = Take(q.rules, ProjectLimit(q.limit))
    BY DEF RuleCosts, Here
  <2>2. Len(Take(q.rules, ProjectLimit(q.limit))) =
          IF ProjectLimit(q.limit) < Len(q.rules) THEN ProjectLimit(q.limit) ELSE Len(q.rules)
    BY <1>1, <1>2, TakeFacts
  <2>3. Len(q.rules) \in Nat
    BY <1>1
  <2> QED
    BY <1>2, <2>1, <2>2, <2>3
<1>5. /\ McpContext(q).slots = c + Len(g)
      /\ McpContext(q).globals = GlobalSection(q).lines
      /\ McpContext(q).relations = LinkSection(q).lines
  BY McpContextIs
<1> HIDE DEF c, R, n
<1>6. /\ g \in Seq(Nat) /\ Len(g) = (IF n < m THEN n ELSE m)
      /\ \A i \in 1..Len(g) : g[i] = q.globals[i]
  <2> DEFINE s == q.globals
  <2>1. n \in Nat /\ s \in Seq(Nat)
    BY <1>1, <1>3
  <2>2. g = Take(s, n) /\ m = Len(s)
    OBVIOUS
  <2> HIDE DEF s, m, g
  <2>3. /\ g \in Seq(Nat) /\ Len(g) = (IF n < m THEN n ELSE m)
        /\ \A i \in 1..Len(g) : g[i] = s[i]
    BY <2>1, <2>2, TakeFacts
  <2> QED
    BY <2>3 DEF s
<1> HIDE DEF g
<1>7. n >= 1 /\ n >= q.limit - c
  BY <1>1, <1>2, <1>3
<1>8. ASSUME q.globals # <<>> PROVE g # <<>> /\ Head(g) = Head(q.globals)
  <2>1. m # 0 /\ Head(q.globals) = q.globals[1]
    BY <1>1, <1>8, Members
  <2>2. Len(g) \in Nat /\ Len(g) >= 1
    BY <1>1, <1>3, <1>6, <1>7, <2>1
  <2>3. g # <<>> /\ Head(g) = g[1] /\ 1 \in 1..Len(g)
    BY <1>6, <2>2, Members
  <2> QED
    BY <1>6, <2>1, <2>3
<1> HIDE DEF m
<1>9. q.limit >= 2 => c + Len(g) <= q.limit
  <2>1. SUFFICES ASSUME q.limit >= 2 PROVE c + Len(g) <= q.limit
    OBVIOUS
  <2>2. c <= q.limit - R
    BY <1>2, <1>4, <2>1
  <2>3. Len(g) <= n /\ Len(g) \in Nat
    BY <1>1, <1>3, <1>6
  <2> QED
    BY <1>1, <1>2, <1>3, <2>2, <2>3
<1>10. m >= q.limit => c + Len(g) >= q.limit
  BY <1>1, <1>3, <1>6, <1>7
<1>11. Here(q)
  BY DEF Here
<1>12. ASSUME q.globals # <<>>, Head(q.globals) <= GlobalBytes - 16
       PROVE  1 \in GlobalSection(q).lines
  BY <1>8, <1>12, UsedFacts DEF g, n
<1>13. ASSUME q.relations # <<>>, Head(q.relations) <= MetaBytes - 20
       PROVE  1 \in LinkSection(q).lines
  BY <1>11, <1>13, UsedFacts
<1> QED
  BY <1>5, <1>9, <1>10, <1>12, <1>13 DEF m

----------------------------------------------------------------------------
(* The context command.                                                    *)

\* The context command fills its limit and shows a global memory.
LEMMA CliContextFacts ==
  ASSUME NEW project \in KeyLists, NEW global \in KeyLists, NEW limit \in 1..MaxLimit
  PROVE  /\ Len(CliContext(project, global, limit)) =
              Min({limit, Cardinality(ToSet(project) \cup ToSet(global))})
         /\ global # <<>> => ToSet(CliContext(project, global, limit)) \cap ToSet(global) # {}
<1> DEFINE share == Max({limit \div 4, Min({limit, 1})})
           P == Take(project, limit - share)
           G == Take(global, share)
           PG == Extend(P, G)
           E == Extend(PG, project)
           F == Extend(E, global)
           keys == Take(F, limit)
           all == ToSet(project) \cup ToSet(global)
<1>1. CliContext(project, global, limit) = keys
  BY DEF CliContext
<1>2. limit \in Nat /\ limit >= 1
  BY RetrievalAssumption
<1>3. share \in Nat /\ share >= 1 /\ limit - share \in Nat
  <2> DEFINE x == limit \div 4
             m == Min({limit, 1})
  <2>1. x \in Nat /\ 4 * x <= limit
    BY <1>2
  <2> HIDE DEF x
  <2>2. m = IF limit <= 1 THEN limit ELSE 1
    <3>1. limit \in Int /\ 1 \in Int
      BY <1>2
    <3> QED
      BY <3>1, PairFacts
  <2> HIDE DEF m
  <2>3. m = 1
    BY <1>2, <2>2
  <2>4. Max({x, m}) = IF x <= 1 THEN 1 ELSE x
    BY <2>1, <2>3, PairFacts
  <2>5. share = Max({x, m})
    BY DEF x, m
  <2> HIDE DEF share
  <2> QED
    BY <1>2, <2>1, <2>4, <2>5
<1> HIDE DEF share
<1>4. /\ project \in Seq(Nat) /\ Distinct(project) /\ global \in Seq(Nat) /\ Distinct(global)
  <2>1. /\ project \in Seq(Nat) /\ IsInjective(project)
        /\ global \in Seq(Nat) /\ IsInjective(global)
    BY RetrievalAssumption
  <2>2. DOMAIN project = 1..Len(project) /\ DOMAIN global = 1..Len(global)
    BY <2>1
  <2> QED
    BY <2>1, <2>2 DEF IsInjective, Distinct
<1>5. /\ P \in Seq(Nat) /\ Distinct(P) /\ ToSet(P) \subseteq ToSet(project)
      /\ Len(P) <= limit - share
  <2>1. /\ P \in Seq(Nat) /\ Distinct(P) /\ ToSet(P) \subseteq ToSet(project)
        /\ Len(P) = IF limit - share < Len(project) THEN limit - share ELSE Len(project)
    BY <1>3, <1>4, TakeFacts
  <2>2. Len(project) \in Nat
    BY <1>4
  <2> HIDE DEF P
  <2> QED
    BY <1>3, <2>1, <2>2
<1>6. /\ G \in Seq(Nat) /\ Distinct(G) /\ ToSet(G) \subseteq ToSet(global)
      /\ Len(G) <= share
      /\ global # <<>> => G # <<>>
  <2>1. /\ G \in Seq(Nat) /\ Distinct(G) /\ ToSet(G) \subseteq ToSet(global)
        /\ Len(G) = IF share < Len(global) THEN share ELSE Len(global)
    BY <1>3, <1>4, TakeFacts
  <2>2. Len(global) \in Nat /\ (global = <<>> <=> Len(global) = 0)
    BY <1>4, Members
  <2> HIDE DEF G
  <2>3. G = <<>> <=> Len(G) = 0
    BY <2>1, Members
  <2> QED
    BY <1>3, <2>1, <2>2, <2>3
<1> HIDE DEF P, G
<1>7. /\ PG \in Seq(Nat) /\ Distinct(PG) /\ ToSet(PG) = ToSet(P) \cup ToSet(G)
      /\ Len(PG) <= Len(P) + Len(G)
  BY <1>5, <1>6, ExtendFacts, ExtendLength
<1> HIDE DEF PG
<1>8. /\ E \in Seq(Nat) /\ Distinct(E) /\ ToSet(E) = ToSet(PG) \cup ToSet(project)
      /\ Len(PG) <= Len(E) /\ \A i \in 1..Len(PG) : E[i] = PG[i]
  BY <1>4, <1>7, ExtendFacts
<1> HIDE DEF E
<1>9. /\ F \in Seq(Nat) /\ Distinct(F) /\ ToSet(F) = ToSet(E) \cup ToSet(global)
      /\ Len(E) <= Len(F) /\ \A i \in 1..Len(E) : F[i] = E[i]
  BY <1>4, <1>8, ExtendFacts
<1> HIDE DEF F
<1>10. /\ Len(P) \in Nat /\ Len(G) \in Nat /\ Len(PG) \in Nat /\ Len(E) \in Nat /\ Len(F) \in Nat
  BY <1>5, <1>6, <1>7, <1>8, <1>9, Members
<1>11. /\ keys \in Seq(Nat)
       /\ Len(keys) = (IF limit < Len(F) THEN limit ELSE Len(F))
       /\ \A i \in 1..Len(keys) : keys[i] = F[i]
  BY <1>2, <1>9, TakeFacts
<1> HIDE DEF keys
<1>12. ToSet(F) = all
  BY <1>5, <1>6, <1>7, <1>8, <1>9
<1>13. Len(keys) = Min({limit, Cardinality(all)})
  <2>1. Cardinality(all) = Len(F)
    BY <1>9, <1>12, Counted
  <2>2. limit \in Int /\ Len(F) \in Int
    BY <1>2, <1>10
  <2>3. Min({limit, Len(F)}) = IF limit <= Len(F) THEN limit ELSE Len(F)
    BY <2>2, PairFacts
  <2> HIDE DEF all
  <2> QED
    BY <1>2, <1>10, <1>11, <2>1, <2>3
<1>14. ASSUME global # <<>> PROVE ToSet(keys) \cap ToSet(global) # {}
  <2>1. G # <<>>
    BY <1>6, <1>14
  <2>2. G[1] \in ToSet(G)
    BY <1>6, <2>1, Members
  <2>3. G[1] \in ToSet(PG)
    BY <1>7, <2>2
  <2>4. PICK i \in 1..Len(PG) : PG[i] = G[1]
    BY <1>7, <2>3, Members
  <2>5. Len(PG) <= limit
    BY <1>2, <1>3, <1>5, <1>6, <1>7, <1>10
  <2>6. Len(PG) <= Len(E) /\ Len(E) <= Len(F)
    BY <1>8, <1>9
  <2>7. i \in 1..Len(E) /\ i \in 1..Len(F) /\ i <= limit
    BY <1>2, <1>10, <2>5, <2>6
  <2>8. i \in 1..Len(keys)
    BY <1>2, <1>10, <1>11, <2>7
  <2>9. keys[i] = G[1]
    BY <1>8, <1>9, <1>11, <2>4, <2>7, <2>8
  <2>10. G[1] \in ToSet(keys)
    BY <1>11, <2>8, <2>9, Members
  <2> QED
    BY <1>6, <2>2, <2>10
<1> QED
  BY <1>1, <1>13, <1>14

----------------------------------------------------------------------------
(* Fusion of two rankings.                                                 *)

\* Where a key is in a list without repeats.
LEMMA RankFacts ==
  ASSUME NEW A, NEW s \in Seq(A), Distinct(s)
  PROVE  /\ \A k \in ToSet(s) : RankIn(k, s) \in 1..Len(s) /\ s[RankIn(k, s)] = k
         /\ \A i \in 1..Len(s) : s[i] \in ToSet(s) /\ RankIn(s[i], s) = i
<1>1. DOMAIN s = 1..Len(s) /\ ToSet(s) = {s[i] : i \in 1..Len(s)}
  BY DEF ToSet
<1>2. ASSUME NEW k \in ToSet(s)
      PROVE  RankIn(k, s) \in 1..Len(s) /\ s[RankIn(k, s)] = k
  <2>1. \E i \in DOMAIN s : s[i] = k
    BY <1>1
  <2>2. RankIn(k, s) = CHOOSE i \in DOMAIN s : s[i] = k
    BY DEF RankIn
  <2> QED
    BY <1>1, <2>1, <2>2
<1>3. ASSUME NEW i \in 1..Len(s)
      PROVE  s[i] \in ToSet(s) /\ RankIn(s[i], s) = i
  <2>1. s[i] \in ToSet(s)
    BY <1>1
  <2> QED
    BY <1>2, <2>1 DEF Distinct
<1> QED
  BY <1>2, <1>3

\* The pairs of a strict total order on S.
Orders(before, S) ==
  /\ \A j \in S : <<j, j>> \notin before
  /\ \A i, j, k \in S : <<i, j>> \in before /\ <<j, k>> \in before => <<i, k>> \in before
  /\ \A j, k \in S : j # k => <<j, k>> \in before \/ <<k, j>> \in before

Below(k, S, before) == {j \in S : <<j, k>> \in before}

\* How many are below an element grows with the order.
LEMMA BelowFacts ==
  ASSUME NEW S, IsFiniteSet(S), NEW before, Orders(before, S)
  PROVE  /\ \A k \in S : Cardinality(Below(k, S, before)) \in 0..Cardinality(S) - 1
         /\ \A j, k \in S : <<j, k>> \in before =>
              Cardinality(Below(j, S, before)) < Cardinality(Below(k, S, before))
         /\ \A j, k \in S :
              Cardinality(Below(j, S, before)) = Cardinality(Below(k, S, before)) => j = k
<1>1. Cardinality(S) \in Nat
  BY FS_CardinalityType
<1>2. ASSUME NEW k \in S
      PROVE  /\ IsFiniteSet(Below(k, S, before))
             /\ Cardinality(Below(k, S, before)) \in 0..Cardinality(S) - 1
  <2>1. Below(k, S, before) \in SUBSET (S \ {k})
    BY DEF Orders, Below
  <2>2. IsFiniteSet(S \ {k}) /\ Cardinality(S \ {k}) = Cardinality(S) - 1
    BY FS_RemoveElement
  <2>3. /\ IsFiniteSet(Below(k, S, before))
        /\ Cardinality(Below(k, S, before)) <= Cardinality(S) - 1
    BY <2>1, <2>2, FS_Subset
  <2>4. Cardinality(Below(k, S, before)) \in Nat
    BY <2>3, FS_CardinalityType
  <2> QED
    BY <1>1, <2>3, <2>4
<1>3. ASSUME NEW j \in S, NEW k \in S, <<j, k>> \in before
      PROVE  Cardinality(Below(j, S, before)) < Cardinality(Below(k, S, before))
  <2>1. /\ Below(j, S, before) \in SUBSET Below(k, S, before)
        /\ j \in Below(k, S, before) /\ j \notin Below(j, S, before)
    BY <1>3 DEF Orders, Below
  <2>2. /\ Cardinality(Below(j, S, before)) <= Cardinality(Below(k, S, before))
        /\ Cardinality(Below(k, S, before)) = Cardinality(Below(j, S, before))
             => Below(k, S, before) = Below(j, S, before)
    BY <1>2, <2>1, FS_Subset
  <2>3. /\ Cardinality(Below(j, S, before)) \in Int
        /\ Cardinality(Below(k, S, before)) \in Int
    BY <1>1, <1>2
  <2> QED
    BY <2>1, <2>2, <2>3
<1>4. ASSUME NEW j \in S, NEW k \in S,
             Cardinality(Below(j, S, before)) = Cardinality(Below(k, S, before))
      PROVE  j = k
  <2>1. Cardinality(Below(j, S, before)) \in Int
    BY <1>1, <1>2
  <2>2. <<j, k>> \notin before /\ <<k, j>> \notin before
    BY <1>3, <1>4, <2>1
  <2> QED
    BY <2>2 DEF Orders
<1> QED
  BY <1>2, <1>3, <1>4

\* InOrder is what it says: it has every element of the set once, and one
\* stands before another if the order says so.
LEMMA InOrderFacts ==
  ASSUME NEW S, IsFiniteSet(S), NEW before, Orders(before, S)
  PROVE  /\ InOrder(S, before) \in Seq(S)
         /\ Len(InOrder(S, before)) = Cardinality(S)
         /\ ToSet(InOrder(S, before)) = S
         /\ Distinct(InOrder(S, before))
         /\ \A i, j \in 1..Cardinality(S) :
              <<InOrder(S, before)[i], InOrder(S, before)[j]>> \in before => i < j
         /\ \A k \in S :
              /\ Cardinality(Below(k, S, before)) + 1 \in 1..Cardinality(S)
              /\ InOrder(S, before)[Cardinality(Below(k, S, before)) + 1] = k
<1> DEFINE n == Cardinality(S)
           C(k) == Cardinality(Below(k, S, before))
           f == InOrder(S, before)
<1>1. n \in Nat
  BY FS_CardinalityType
<1>2. ASSUME NEW k \in S PROVE C(k) \in 0..n - 1
  BY BelowFacts
<1>3. ASSUME NEW j \in S, NEW k \in S, <<j, k>> \in before PROVE C(j) < C(k)
  BY <1>3, BelowFacts
<1>4. ASSUME NEW j \in S, NEW k \in S, C(j) = C(k) PROVE j = k
  BY <1>4, BelowFacts
<1>5. ASSUME NEW i \in 1..n PROVE \E k \in S : C(k) = i - 1
  <2> SUFFICES ASSUME \A k \in S : C(k) # i - 1 PROVE FALSE
    OBVIOUS
  <2> DEFINE T == (0..n - 1) \ {i - 1}
             g == [k \in S |-> C(k)]
  <2> HIDE DEF n, C
  <2>1. IsFiniteSet(0..n - 1) /\ Cardinality(0..n - 1) = n /\ i - 1 \in 0..n - 1
    <3>1. 0 \in Int /\ n - 1 \in Int /\ ~(0 > n - 1)
      BY <1>1
    <3> QED
      BY <1>1, <3>1, FS_Interval
  <2>2. IsFiniteSet(T) /\ Cardinality(T) = n - 1
    BY <2>1, FS_RemoveElement
  <2>3. g \in [S -> T]
    BY <1>2
  <2>4. \E x, y \in S : x # y /\ g[x] = g[y]
    <3>1. Cardinality(T) < Cardinality(S)
      BY <1>1, <2>2 DEF n
    <3> HIDE DEF T, g
    <3> QED
      BY <2>2, <2>3, <3>1, FS_PigeonHole
  <2> QED
    BY <1>4, <2>4
<1>6. f = [i \in 1..n |-> CHOOSE k \in S : C(k) = i - 1]
  BY DEF InOrder, Below
<1> HIDE DEF f, n, C
<1>7. ASSUME NEW i \in 1..n PROVE f[i] \in S /\ C(f[i]) = i - 1
  <2>1. f[i] = CHOOSE k \in S : C(k) = i - 1
    BY <1>6
  <2> QED
    BY <1>5, <2>1
<1>8. f \in Seq(S) /\ Len(f) = n
  <2>1. f \in [1..n -> S]
    BY <1>6, <1>7
  <2> QED
    BY <1>1, <2>1
<1>9. Distinct(f)
  BY <1>1, <1>7, <1>8 DEF Distinct
<1>10. ASSUME NEW k \in S PROVE C(k) + 1 \in 1..n /\ f[C(k) + 1] = k
  <2>1. C(k) + 1 \in 1..n /\ C(k) \in Int
    BY <1>1, <1>2
  <2>2. f[C(k) + 1] \in S /\ C(f[C(k) + 1]) = C(k)
    BY <1>7, <2>1
  <2> QED
    BY <1>4, <2>1, <2>2
<1>11. ToSet(f) = S
  <2>1. \A k \in S : \E i \in 1..n : f[i] = k
    BY <1>10
  <2> QED
    BY <1>7, <1>8, <2>1 DEF ToSet
<1>12. ASSUME NEW i \in 1..n, NEW j \in 1..n, <<f[i], f[j]>> \in before PROVE i < j
  <2>1. C(f[i]) < C(f[j])
    BY <1>3, <1>7, <1>12
  <2> QED
    BY <1>1, <1>7, <2>1
<1> QED
  BY <1>8, <1>9, <1>10, <1>11, <1>12 DEF f, n, C

Pos == Nat \ {0}

\* Fractions are ordered transitively, by products across.
LEMMA Across ==
  ASSUME NEW a \in Pos, NEW b \in Pos, NEW c \in Pos, NEW d \in Pos, NEW e \in Pos, NEW f \in Pos,
         a * d >= c * b, c * f >= e * d
  PROVE  /\ a * f >= e * b
         /\ a * d > c * b \/ c * f > e * d => a * f > e * b
<1>1. /\ (a * d) * f >= (c * b) * f /\ (c * f) * b >= (e * d) * b
      /\ a * d > c * b => (a * d) * f > (c * b) * f
      /\ c * f > e * d => (c * f) * b > (e * d) * b
  BY DEF Pos
<1>2. (a * d) * f = (a * f) * d /\ (c * b) * f = (c * f) * b /\ (e * d) * b = (e * b) * d
  BY DEF Pos
<1>3. /\ a * f \in Int /\ e * b \in Int /\ d \in Int /\ d > 0
      /\ (a * f) * d \in Int /\ (e * b) * d \in Int /\ (c * f) * b \in Int
  BY DEF Pos
<1>4. a * f < e * b => (a * f) * d < (e * b) * d
  BY <1>3
<1>5. a * f <= e * b => (a * f) * d <= (e * b) * d
  BY <1>3
<1> QED
  BY <1>1, <1>2, <1>3, <1>4, <1>5

\* The sum of 1/a and 1/b, each at least as large as its other.
LEMMA Sums ==
  ASSUME NEW a \in Pos, NEW b \in Pos, NEW c \in Pos, NEW d \in Pos, a <= c, b <= d
  PROVE  /\ (a + b) * (c * d) >= (c + d) * (a * b)
         /\ a # c \/ b # d => (a + b) * (c * d) > (c + d) * (a * b)
BY DEF Pos

LEMMA SumOverOne ==
  ASSUME NEW a \in Pos, NEW b \in Pos, NEW c \in Pos, a <= c \/ b <= c
  PROVE  (a + b) * c > 1 * (a * b)
BY DEF Pos

\* Lists to fuse: without repeats, of numbers.
Fusible(s, l) ==
  /\ s \in Seq(Nat) /\ l \in Seq(Nat) /\ Distinct(s) /\ Distinct(l)
  /\ Len(s) <= MaxNear /\ Len(l) <= MaxFound

Sem(k, s) == IF k \in ToSet(s) THEN RankIn(k, s) ELSE Len(s) + 1

LEMMA WeightFacts ==
  ASSUME NEW s, NEW l, Fusible(s, l), NEW k \in ToSet(s) \cup ToSet(l)
  PROVE  /\ k \in Nat
         /\ Weight(k, s, l)[1] \in Pos /\ Weight(k, s, l)[2] \in Pos
         /\ Sem(k, s) \in 1..Len(s) + 1
         /\ k \in ToSet(s) => Sem(k, s) = RankIn(k, s) /\ RankIn(k, s) \in 1..Len(s)
         /\ k \in ToSet(l) => RankIn(k, l) \in 1..Len(l)
         /\ k \in ToSet(s) \cap ToSet(l) =>
              Weight(k, s, l) = <<60 + RankIn(k, s) + (60 + RankIn(k, l)),
                                  (60 + RankIn(k, s)) * (60 + RankIn(k, l))>>
         /\ k \in ToSet(s) \ ToSet(l) => Weight(k, s, l) = <<1, 60 + RankIn(k, s)>>
         /\ k \in ToSet(l) \ ToSet(s) => Weight(k, s, l) = <<1, 60 + RankIn(k, l)>>
<1>1. s \in Seq(Nat) /\ l \in Seq(Nat) /\ Distinct(s) /\ Distinct(l)
  BY DEF Fusible
<1>2. ToSet(s) \subseteq Nat /\ ToSet(l) \subseteq Nat /\ Len(s) \in Nat /\ Len(l) \in Nat
  BY <1>1 DEF ToSet
<1>3. k \in ToSet(s) => RankIn(k, s) \in 1..Len(s)
  BY <1>1, RankFacts
<1>4. k \in ToSet(l) => RankIn(k, l) \in 1..Len(l)
  BY <1>1, RankFacts
<1>5. Sem(k, s) \in 1..Len(s) + 1
  BY <1>2, <1>3 DEF Sem
<1>6. /\ k \in ToSet(s) \cap ToSet(l) =>
           Weight(k, s, l) = <<60 + RankIn(k, s) + (60 + RankIn(k, l)),
                               (60 + RankIn(k, s)) * (60 + RankIn(k, l))>>
      /\ k \in ToSet(s) \ ToSet(l) => Weight(k, s, l) = <<1, 60 + RankIn(k, s)>>
      /\ k \in ToSet(l) \ ToSet(s) => Weight(k, s, l) = <<1, 60 + RankIn(k, l)>>
  BY DEF Weight
<1>7. Weight(k, s, l)[1] \in Pos /\ Weight(k, s, l)[2] \in Pos
  <2>1. CASE k \in ToSet(s) \cap ToSet(l)
    <3>1. 60 + RankIn(k, s) \in Pos /\ 60 + RankIn(k, l) \in Pos
      BY <1>2, <1>3, <1>4, <2>1 DEF Pos
    <3>2. ASSUME NEW a \in Pos, NEW b \in Pos PROVE a + b \in Pos /\ a * b \in Pos
      BY DEF Pos
    <3> QED
      BY <1>6, <2>1, <3>1, <3>2
  <2>2. CASE k \in ToSet(s) \ ToSet(l)
    BY <1>2, <1>3, <1>6, <2>2 DEF Pos
  <2>3. CASE k \in ToSet(l) \ ToSet(s)
    BY <1>2, <1>4, <1>6, <2>3 DEF Pos
  <2> QED
    BY <2>1, <2>2, <2>3
<1> QED
  BY <1>2, <1>3, <1>4, <1>5, <1>6, <1>7 DEF Sem

\* Above without its abbreviations.
Heavier(x, y) == x[1] * y[2] > y[1] * x[2]
AsHeavy(x, y) == x[1] * y[2] = y[1] * x[2]

LEMMA HeavierFacts ==
  ASSUME NEW x, NEW y, NEW z,
         x[1] \in Pos, x[2] \in Pos, y[1] \in Pos, y[2] \in Pos, z[1] \in Pos, z[2] \in Pos
  PROVE  /\ Heavier(x, y) /\ (Heavier(y, z) \/ AsHeavy(y, z)) => Heavier(x, z)
         /\ AsHeavy(x, y) /\ Heavier(y, z) => Heavier(x, z)
         /\ AsHeavy(x, y) /\ AsHeavy(y, z) => AsHeavy(x, z)
<1>1. PICK a \in Pos, b \in Pos, c \in Pos, d \in Pos, e \in Pos, f \in Pos :
        a = x[1] /\ b = x[2] /\ c = y[1] /\ d = y[2] /\ e = z[1] /\ f = z[2]
  OBVIOUS
<1>2. /\ a * d \in Int /\ c * b \in Int /\ c * f \in Int /\ e * d \in Int
      /\ a * f \in Int /\ e * b \in Int
  BY DEF Pos
<1>3. a * d >= c * b /\ c * f >= e * d =>
        /\ a * f >= e * b
        /\ a * d > c * b \/ c * f > e * d => a * f > e * b
  BY Across
<1>4. e * d >= c * f /\ c * b >= a * d => e * b >= a * f
  BY Across
<1>5. /\ Heavier(x, y) <=> a * d > c * b
      /\ AsHeavy(x, y) <=> a * d = c * b
      /\ Heavier(y, z) <=> c * f > e * d
      /\ AsHeavy(y, z) <=> c * f = e * d
      /\ Heavier(x, z) <=> a * f > e * b
      /\ AsHeavy(x, z) <=> a * f = e * b
  BY <1>1 DEF Heavier, AsHeavy
<1> QED
  BY <1>2, <1>3, <1>4, <1>5

LEMMA AboveIs ==
  ASSUME NEW s, NEW l, NEW j, NEW k
  PROVE  Above(j, k, s, l) <=>
           \/ Heavier(Weight(j, s, l), Weight(k, s, l))
           \/ /\ AsHeavy(Weight(j, s, l), Weight(k, s, l))
              /\ Sem(j, s) < Sem(k, s) \/ (Sem(j, s) = Sem(k, s) /\ j < k)
BY DEF Above, Heavier, AsHeavy, Sem

\* Above is a strict total order of the hits.
LEMMA AboveOrders ==
  ASSUME NEW s, NEW l, Fusible(s, l)
  PROVE  LET hits == ToSet(s) \cup ToSet(l)
         IN Orders({p \in hits \X hits : Above(p[1], p[2], s, l)}, hits)
<1> DEFINE hits == ToSet(s) \cup ToSet(l)
           W(k) == Weight(k, s, l)
<1>1. \A k \in hits : /\ k \in Nat /\ W(k)[1] \in Pos /\ W(k)[2] \in Pos
                      /\ Sem(k, s) \in Int
  <2>1. Len(s) \in Nat
    BY DEF Fusible
  <2> QED
    BY <2>1, WeightFacts
<1>2. \A j, k \in hits : /\ W(j)[1] * W(k)[2] \in Int
                         /\ Above(j, k, s, l) <=>
                              \/ Heavier(W(j), W(k))
                              \/ /\ AsHeavy(W(j), W(k))
                                 /\ Sem(j, s) < Sem(k, s) \/ (Sem(j, s) = Sem(k, s) /\ j < k)
  BY <1>1, AboveIs DEF Pos
<1>3. ASSUME NEW i \in hits, NEW j \in hits, NEW k \in hits
      PROVE  /\ Heavier(W(i), W(j)) /\ (Heavier(W(j), W(k)) \/ AsHeavy(W(j), W(k)))
                  => Heavier(W(i), W(k))
             /\ AsHeavy(W(i), W(j)) /\ Heavier(W(j), W(k)) => Heavier(W(i), W(k))
             /\ AsHeavy(W(i), W(j)) /\ AsHeavy(W(j), W(k)) => AsHeavy(W(i), W(k))
  <2> HIDE DEF W, hits
  <2> QED
    BY <1>1, HeavierFacts
<1>4. \A j, k \in hits : Heavier(W(j), W(k)) \/ AsHeavy(W(j), W(k)) \/ Heavier(W(k), W(j))
  BY <1>2 DEF Heavier, AsHeavy
<1>5. \A j, k \in hits : /\ Heavier(W(j), W(k)) => ~AsHeavy(W(j), W(k)) /\ ~Heavier(W(k), W(j))
                         /\ AsHeavy(W(j), W(k)) => AsHeavy(W(k), W(j))
  BY <1>2 DEF Heavier, AsHeavy
<1> HIDE DEF W
<1>6. \A j \in hits : ~Above(j, j, s, l)
  BY <1>1, <1>2, <1>5
<1>7. \A i, j, k \in hits : Above(i, j, s, l) /\ Above(j, k, s, l) => Above(i, k, s, l)
  BY <1>1, <1>2, <1>3
<1>8. \A j, k \in hits : j # k => Above(j, k, s, l) \/ Above(k, j, s, l)
  BY <1>1, <1>2, <1>4, <1>5
<1> HIDE DEF hits
<1>9. Orders({p \in hits \X hits : Above(p[1], p[2], s, l)}, hits)
  BY <1>6, <1>7, <1>8 DEF Orders
<1> QED
  BY <1>9 DEF hits

\* Where a key is in a list, or behind every list.
Rank(k, list) == IF k \in ToSet(list) THEN RankIn(k, list) ELSE MaxFound + 1

\* What the weights make of two rankings.
LEMMA AboveWhen ==
  ASSUME NEW s, NEW l, Fusible(s, l),
         NEW j \in ToSet(s) \cup ToSet(l), NEW k \in ToSet(s) \cup ToSet(l)
  PROVE  /\ j # k /\ Rank(j, s) <= Rank(k, s) /\ Rank(j, l) <= Rank(k, l) => Above(j, k, s, l)
         /\ j \in ToSet(l) /\ k \in ToSet(s) \ ToSet(l) /\ RankIn(j, l) < RankIn(k, s)
              => Above(j, k, s, l)
         /\ j \in ToSet(s) /\ k \in ToSet(l) \ ToSet(s) /\ RankIn(j, s) <= RankIn(k, l)
              => Above(j, k, s, l)
<1> DEFINE a == 60 + RankIn(j, s)
           b == 60 + RankIn(j, l)
           c == 60 + RankIn(k, s)
           d == 60 + RankIn(k, l)
<1>1. /\ Len(s) \in Nat /\ Len(l) \in Nat /\ Len(s) <= MaxFound /\ Len(l) <= MaxFound
      /\ MaxFound \in Nat
  <2>1. MaxFound \in Nat /\ MaxNear \in Nat /\ MaxNear < MaxFound
    BY FusionAssumption
  <2> QED
    BY <2>1 DEF Fusible
<1>2. /\ j \in ToSet(s) => RankIn(j, s) \in 1..Len(s) /\ a \in Pos /\ Sem(j, s) = RankIn(j, s)
      /\ k \in ToSet(s) => RankIn(k, s) \in 1..Len(s) /\ c \in Pos /\ Sem(k, s) = RankIn(k, s)
      /\ j \in ToSet(l) => RankIn(j, l) \in 1..Len(l) /\ b \in Pos
      /\ k \in ToSet(l) => RankIn(k, l) \in 1..Len(l) /\ d \in Pos
      /\ k \notin ToSet(s) => Sem(k, s) = Len(s) + 1
  <2>1. /\ j \in ToSet(s) => RankIn(j, s) \in 1..Len(s)
        /\ k \in ToSet(s) => RankIn(k, s) \in 1..Len(s)
        /\ j \in ToSet(l) => RankIn(j, l) \in 1..Len(l)
        /\ k \in ToSet(l) => RankIn(k, l) \in 1..Len(l)
    BY WeightFacts
  <2>2. \A n \in Nat : \A i \in 1..n : 60 + i \in Pos
    BY DEF Pos
  <2> QED
    BY <1>1, <2>1, <2>2 DEF Sem
<1>3. /\ j \in ToSet(s) \cap ToSet(l) => Weight(j, s, l) = <<a + b, a * b>>
      /\ j \in ToSet(s) \ ToSet(l) => Weight(j, s, l) = <<1, a>>
      /\ j \in ToSet(l) \ ToSet(s) => Weight(j, s, l) = <<1, b>>
      /\ k \in ToSet(s) \cap ToSet(l) => Weight(k, s, l) = <<c + d, c * d>>
      /\ k \in ToSet(s) \ ToSet(l) => Weight(k, s, l) = <<1, c>>
      /\ k \in ToSet(l) \ ToSet(s) => Weight(k, s, l) = <<1, d>>
  BY WeightFacts
<1>4. /\ j # k /\ j \in ToSet(s) /\ k \in ToSet(s) => RankIn(j, s) # RankIn(k, s)
      /\ j # k /\ j \in ToSet(l) /\ k \in ToSet(l) => RankIn(j, l) # RankIn(k, l)
  <2>1. /\ j \in ToSet(s) => s[RankIn(j, s)] = j
        /\ k \in ToSet(s) => s[RankIn(k, s)] = k
        /\ j \in ToSet(l) => l[RankIn(j, l)] = j
        /\ k \in ToSet(l) => l[RankIn(k, l)] = k
    BY RankFacts DEF Fusible
  <2> QED
    BY <2>1
<1>5. ASSUME Heavier(Weight(j, s, l), Weight(k, s, l)) PROVE Above(j, k, s, l)
  BY <1>5, AboveIs
<1> HIDE DEF a, b, c, d
<1>6. ASSUME j \in ToSet(s) \cap ToSet(l), k \in ToSet(s) \ ToSet(l), a <= c \/ b <= c
      PROVE  Heavier(Weight(j, s, l), Weight(k, s, l))
  <2>1. (a + b) * c > 1 * (a * b)
    BY <1>2, <1>6, SumOverOne
  <2> QED
    BY <1>3, <1>6, <2>1 DEF Heavier
<1>7. ASSUME j \in ToSet(s) \cap ToSet(l), k \in ToSet(l) \ ToSet(s), a <= d \/ b <= d
      PROVE  Heavier(Weight(j, s, l), Weight(k, s, l))
  <2>1. (a + b) * d > 1 * (a * b)
    BY <1>2, <1>7, SumOverOne
  <2> QED
    BY <1>3, <1>7, <2>1 DEF Heavier
<1>8. /\ j \in ToSet(l) \ ToSet(s) /\ k \in ToSet(s) \ ToSet(l) /\ b < c
           => Heavier(Weight(j, s, l), Weight(k, s, l))
      /\ j \in ToSet(l) \ ToSet(s) /\ k \in ToSet(l) \ ToSet(s) /\ b < d
           => Heavier(Weight(j, s, l), Weight(k, s, l))
      /\ j \in ToSet(s) \ ToSet(l) /\ k \in ToSet(s) \ ToSet(l) /\ a < c
           => Heavier(Weight(j, s, l), Weight(k, s, l))
      /\ j \in ToSet(s) \ ToSet(l) /\ k \in ToSet(l) \ ToSet(s) /\ a < d
           => Heavier(Weight(j, s, l), Weight(k, s, l))
  BY <1>2, <1>3 DEF Heavier, Pos
<1>9. ASSUME j # k, Rank(j, s) <= Rank(k, s), Rank(j, l) <= Rank(k, l)
      PROVE  Above(j, k, s, l)
  <2>1. /\ k \in ToSet(s) => j \in ToSet(s) /\ RankIn(j, s) < RankIn(k, s)
        /\ k \in ToSet(l) => j \in ToSet(l) /\ RankIn(j, l) < RankIn(k, l)
    BY <1>1, <1>2, <1>4, <1>9 DEF Rank
  <2>2. /\ k \in ToSet(s) => a < c
        /\ k \in ToSet(l) => b < d
    BY <1>2, <2>1 DEF a, b, c, d
  <2>3. CASE k \in ToSet(s) \cap ToSet(l)
    <3>1. /\ a \in Pos /\ b \in Pos /\ c \in Pos /\ d \in Pos
          /\ a <= c /\ b <= d /\ a # c
      BY <1>2, <2>1, <2>2, <2>3 DEF Pos
    <3>2. (a + b) * (c * d) > (c + d) * (a * b)
      BY <3>1, Sums
    <3>3. Heavier(Weight(j, s, l), Weight(k, s, l))
      BY <1>3, <2>1, <2>3, <3>2 DEF Heavier
    <3> QED
      BY <1>5, <3>3
  <2>4. CASE k \in ToSet(s) \ ToSet(l)
    <3>1. j \in ToSet(s) /\ a <= c
      BY <1>2, <2>1, <2>2, <2>4 DEF Pos
    <3> QED
      BY <1>5, <1>6, <1>8, <2>2, <2>4, <3>1
  <2>5. CASE k \in ToSet(l) \ ToSet(s)
    <3>1. j \in ToSet(l) /\ b <= d
      BY <1>2, <2>1, <2>2, <2>5 DEF Pos
    <3> QED
      BY <1>5, <1>7, <1>8, <2>2, <2>5, <3>1
  <2> QED
    BY <2>3, <2>4, <2>5
<1>10. ASSUME j \in ToSet(l), k \in ToSet(s) \ ToSet(l), RankIn(j, l) < RankIn(k, s)
       PROVE  Above(j, k, s, l)
  <2>1. b < c /\ b <= c
    BY <1>1, <1>2, <1>10 DEF b, c
  <2> QED
    BY <1>5, <1>6, <1>8, <1>10, <2>1
<1>11. ASSUME j \in ToSet(s), k \in ToSet(l) \ ToSet(s), RankIn(j, s) <= RankIn(k, l)
       PROVE  Above(j, k, s, l)
  <2>1. a <= d
    BY <1>1, <1>2, <1>11 DEF a, d
  <2>2. CASE j \in ToSet(l)
    BY <1>5, <1>7, <1>11, <2>1, <2>2
  <2>3. CASE j \notin ToSet(l) /\ a < d
    BY <1>5, <1>8, <1>11, <2>3
  <2>4. CASE j \notin ToSet(l) /\ ~(a < d)
    <3>1. a = d
      BY <1>2, <1>11, <2>1, <2>4 DEF Pos
    <3>2. AsHeavy(Weight(j, s, l), Weight(k, s, l))
      BY <1>3, <1>11, <2>4, <3>1 DEF AsHeavy
    <3>3. Sem(j, s) < Sem(k, s)
      BY <1>1, <1>2, <1>11
    <3> QED
      BY <3>2, <3>3, AboveIs
  <2> QED
    BY <2>2, <2>3, <2>4
<1> QED
  BY <1>9, <1>10, <1>11

AboveIn(s, l) ==
  LET hits == ToSet(s) \cup ToSet(l) IN {p \in hits \X hits : Above(p[1], p[2], s, l)}

\* A fusion has hits of both lists, each once and the higher ones first, and
\* every hit that fewer are above of than it has room for.
LEMMA FuseFacts ==
  ASSUME NEW s, NEW l, Fusible(s, l)
  PROVE  LET hits == ToSet(s) \cup ToSet(l)
             f == Fuse(s, l)
         IN /\ f \in Seq(Nat) /\ Distinct(f) /\ ToSet(f) \subseteq hits
            /\ \A j, k \in ToSet(f) : Above(j, k, s, l) => RankIn(j, f) < RankIn(k, f)
            /\ \A k \in hits :
                 Cardinality(Below(k, hits, AboveIn(s, l))) < MaxFound => k \in ToSet(f)
<1> DEFINE hits == ToSet(s) \cup ToSet(l)
           f == Fuse(s, l)
           o == InOrder(hits, AboveIn(s, l))
<1>1. /\ s \in Seq(Nat) /\ l \in Seq(Nat) /\ MaxFound \in Nat
      /\ f = Take(o, MaxFound)
  BY FusionAssumption DEF Fusible, Fuse, AboveIn
<1>2. IsFiniteSet(hits) /\ hits \subseteq Nat
  <2>1. IsFiniteSet(ToSet(s)) /\ IsFiniteSet(ToSet(l))
    BY <1>1, Counted
  <2>2. ToSet(s) \subseteq Nat /\ ToSet(l) \subseteq Nat
    BY <1>1, Members
  <2> QED
    BY <2>1, <2>2, FS_Union
<1>3. Orders(AboveIn(s, l), hits)
  BY AboveOrders DEF AboveIn
<1>4. \A j, k \in hits : <<j, k>> \in AboveIn(s, l) <=> Above(j, k, s, l)
  BY DEF AboveIn
<1> HIDE DEF f, o, hits
<1>5. /\ o \in Seq(hits) /\ Len(o) = Cardinality(hits) /\ ToSet(o) = hits /\ Distinct(o)
      /\ \A i, j \in 1..Cardinality(hits) : <<o[i], o[j]>> \in AboveIn(s, l) => i < j
      /\ \A k \in hits :
           /\ Cardinality(Below(k, hits, AboveIn(s, l))) + 1 \in 1..Cardinality(hits)
           /\ o[Cardinality(Below(k, hits, AboveIn(s, l))) + 1] = k
  BY <1>2, <1>3, InOrderFacts DEF o
<1>6. Cardinality(hits) \in Nat /\ o \in Seq(Nat)
  <2>1. Cardinality(hits) \in Nat
    BY <1>2, FS_CardinalityType
  <2>2. o \in [1..Cardinality(hits) -> hits]
    BY <1>5
  <2>3. o \in [1..Cardinality(hits) -> Nat]
    BY <1>2, <2>2
  <2> QED
    BY <2>1, <2>3
<1>7. /\ f \in Seq(Nat) /\ Distinct(f) /\ ToSet(f) \subseteq hits
      /\ Len(f) = IF MaxFound < Len(o) THEN MaxFound ELSE Len(o)
      /\ \A i \in 1..Len(f) : f[i] = o[i]
  BY <1>1, <1>5, <1>6, TakeFacts
<1>8. /\ \A k \in ToSet(f) : RankIn(k, f) \in 1..Len(f) /\ f[RankIn(k, f)] = k
      /\ \A i \in 1..Len(f) : f[i] \in ToSet(f)
  BY <1>7, RankFacts
<1>9. 1..Len(f) \subseteq 1..Cardinality(hits)
  BY <1>1, <1>5, <1>6, <1>7
<1>10. ASSUME NEW j \in ToSet(f), NEW k \in ToSet(f), Above(j, k, s, l)
       PROVE  RankIn(j, f) < RankIn(k, f)
  <2>1. o[RankIn(j, f)] = j /\ o[RankIn(k, f)] = k
    BY <1>7, <1>8
  <2>2. <<j, k>> \in AboveIn(s, l)
    BY <1>4, <1>7, <1>10
  <2> QED
    BY <1>5, <1>8, <1>9, <2>1, <2>2
<1>11. ASSUME NEW k \in hits, Cardinality(Below(k, hits, AboveIn(s, l))) < MaxFound
       PROVE  k \in ToSet(f)
  <2> DEFINE n == Cardinality(Below(k, hits, AboveIn(s, l)))
  <2>1. n + 1 \in 1..Cardinality(hits) /\ o[n + 1] = k
    BY <1>5
  <2>2. IsFiniteSet(Below(k, hits, AboveIn(s, l)))
    BY <1>2, FS_Subset DEF Below
  <2>3. n \in Nat /\ n < MaxFound
    BY <1>11, <2>2, FS_CardinalityType
  <2> HIDE DEF n
  <2>4. n + 1 \in 1..Len(f)
    BY <1>1, <1>5, <1>6, <1>7, <2>1, <2>3
  <2> QED
    BY <1>7, <1>8, <2>1, <2>4
<1> QED
  BY <1>7, <1>10, <1>11 DEF hits, f

\* Nothing passes the first of a list but hits of the semantic one.
LEMMA FirstsAreHigh ==
  ASSUME NEW s, NEW l, Fusible(s, l)
  PROVE  LET hits == ToSet(s) \cup ToSet(l) IN
         /\ l # <<>> => Below(Head(l), hits, AboveIn(s, l)) \subseteq ToSet(s)
         /\ s # <<>> => Below(Head(s), hits, AboveIn(s, l)) \subseteq ToSet(s)
<1> DEFINE hits == ToSet(s) \cup ToSet(l)
<1>1. Orders(AboveIn(s, l), hits)
  BY AboveOrders DEF AboveIn
<1>2. ASSUME NEW j \in hits, NEW k \in hits, Above(j, k, s, l)
      PROVE  k \notin Below(j, hits, AboveIn(s, l))
  BY <1>1, <1>2 DEF Orders, Below, AboveIn
<1>3. /\ s \in Seq(Nat) /\ l \in Seq(Nat) /\ Distinct(s) /\ Distinct(l)
      /\ MaxFound \in Nat /\ Len(s) <= MaxFound /\ Len(l) <= MaxFound
  <2>1. MaxFound \in Nat /\ MaxNear \in Nat /\ MaxNear < MaxFound
    BY FusionAssumption
  <2>2. /\ s \in Seq(Nat) /\ l \in Seq(Nat) /\ Distinct(s) /\ Distinct(l)
        /\ Len(s) <= MaxNear /\ Len(l) <= MaxFound
    BY DEF Fusible
  <2> QED
    BY <2>1, <2>2
<1>4. /\ s # <<>> => Head(s) \in ToSet(s) /\ Head(s) = s[1] /\ 1 \in 1..Len(s)
      /\ l # <<>> => Head(l) \in ToSet(l) /\ Head(l) = l[1] /\ 1 \in 1..Len(l)
  BY <1>3, Members
<1>5. /\ s # <<>> => RankIn(Head(s), s) = 1
      /\ l # <<>> => RankIn(Head(l), l) = 1
  BY <1>3, <1>4, RankFacts
<1>6. \A k \in ToSet(l) : RankIn(k, l) \in 1..Len(l) /\ Len(l) \in Nat
  BY <1>3, RankFacts
<1>7. \A k \in ToSet(s) : RankIn(k, s) \in 1..Len(s) /\ Len(s) \in Nat
  BY <1>3, RankFacts
<1>8. ASSUME l # <<>>, NEW k \in Below(Head(l), hits, AboveIn(s, l)), k \notin ToSet(s)
      PROVE  FALSE
  <2>1. k \in ToSet(l) /\ k # Head(l) /\ Head(l) \in hits
    BY <1>1, <1>4, <1>8 DEF Below, Orders
  <2>2. Rank(Head(l), s) <= Rank(k, s)
    BY <1>3, <1>7, <1>8 DEF Rank
  <2>3. Rank(Head(l), l) <= Rank(k, l)
    BY <1>4, <1>5, <1>6, <1>8, <2>1 DEF Rank
  <2>4. Above(Head(l), k, s, l)
    BY <2>1, <2>2, <2>3, AboveWhen
  <2> QED
    BY <1>2, <1>8, <2>1, <2>4
<1>9. ASSUME s # <<>>, NEW k \in Below(Head(s), hits, AboveIn(s, l)), k \notin ToSet(s)
      PROVE  FALSE
  <2>1. k \in ToSet(l) /\ k # Head(s) /\ Head(s) \in hits
    BY <1>1, <1>4, <1>9 DEF Below, Orders
  <2>2. RankIn(Head(s), s) <= RankIn(k, l)
    BY <1>5, <1>6, <1>9, <2>1
  <2>3. Above(Head(s), k, s, l)
    BY <1>4, <1>9, <2>1, <2>2, AboveWhen
  <2> QED
    BY <1>2, <1>9, <2>1, <2>3
<1> QED
  BY <1>8, <1>9

\* So the first of each list is in the fusion.
LEMMA FirstsAreFused ==
  ASSUME NEW s, NEW l, Fusible(s, l)
  PROVE  /\ l # <<>> => Head(l) \in ToSet(Fuse(s, l))
         /\ s # <<>> => Head(s) \in ToSet(Fuse(s, l))
<1> DEFINE hits == ToSet(s) \cup ToSet(l)
<1>1. s \in Seq(Nat) /\ l \in Seq(Nat) /\ Distinct(s) /\ Distinct(l) /\ Len(s) <= MaxNear
  BY DEF Fusible
<1>2. MaxFound \in Nat /\ MaxNear \in Nat /\ MaxNear < MaxFound
  BY FusionAssumption
<1>3. IsFiniteSet(ToSet(s)) /\ Cardinality(ToSet(s)) \in Nat /\ Cardinality(ToSet(s)) <= Len(s)
  BY <1>1, Counted
<1>4. ASSUME NEW k, Below(k, hits, AboveIn(s, l)) \subseteq ToSet(s)
      PROVE  Cardinality(Below(k, hits, AboveIn(s, l))) < MaxFound
  <2>1. /\ IsFiniteSet(Below(k, hits, AboveIn(s, l)))
        /\ Cardinality(Below(k, hits, AboveIn(s, l))) <= Cardinality(ToSet(s))
    BY <1>3, <1>4, FS_Subset
  <2>2. Cardinality(Below(k, hits, AboveIn(s, l))) \in Nat /\ Len(s) \in Nat
    BY <1>1, <2>1, FS_CardinalityType
  <2> QED
    BY <1>1, <1>2, <1>3, <2>1, <2>2
<1>5. /\ s # <<>> => Head(s) \in hits
      /\ l # <<>> => Head(l) \in hits
  BY <1>1, Members
<1> QED
  BY <1>4, <1>5, FuseFacts, FirstsAreHigh

\* A ranking is a list without repeats, no longer than it is cut at.
LEMMA RankingFacts ==
  ASSUME NEW S \in SUBSET Nat, IsFiniteSet(S), NEW n \in Nat, NEW r \in RankingsOf(S, n)
  PROVE  r \in Seq(Nat) /\ Distinct(r) /\ Len(r) <= n
<1>1. PICK q \in SetToSeqs(S) : r = Take(q, n)
  BY DEF RankingsOf
<1>2. Cardinality(S) \in Nat
  BY FS_CardinalityType
<1>3. q \in [1..Cardinality(S) -> S] /\ \A i, j \in 1..Cardinality(S) : i # j => q[i] # q[j]
  BY DEF SetToSeqs
<1>4. q \in Seq(Nat) /\ Len(q) = Cardinality(S)
  <2>1. q \in [1..Cardinality(S) -> Nat]
    BY <1>3
  <2> QED
    BY <1>2, <2>1
<1>5. Distinct(q)
  BY <1>3, <1>4 DEF Distinct
<1> QED
  BY <1>1, <1>2, <1>4, <1>5, TakeFacts

\* What FusionKeepsBothRankings says of what is found by two rankings.
KeepsBoth(s, l, f) ==
  /\ IsInjective(f)
  /\ l # <<>> => Head(l) \in ToSet(f)
  /\ s # <<>> => f = l \/ Head(s) \in ToSet(f)
  /\ \A j, k \in ToSet(f) :
       Rank(j, s) <= Rank(k, s) /\ Rank(j, l) <= Rank(k, l) /\ j # k
       => RankIn(j, f) < RankIn(k, f)
  /\ l # <<>> => \A k \in ToSet(f) \cap (ToSet(s) \ ToSet(l)) :
                   Rank(k, s) > 1 => RankIn(Head(l), f) < RankIn(k, f)
  /\ \A j \in ToSet(f) \ ToSet(l), k \in ToSet(f) \ ToSet(s) :
       Rank(j, s) = Rank(k, l) => RankIn(j, f) < RankIn(k, f)

LEMMA FusedKeepsBoth ==
  ASSUME NEW s, NEW l, Fusible(s, l), NEW f, f = l \/ f = Fuse(s, l)
  PROVE  KeepsBoth(s, l, f)
<1>1. /\ s \in Seq(Nat) /\ l \in Seq(Nat) /\ Distinct(s) /\ Distinct(l)
      /\ Len(s) <= MaxNear /\ Len(l) <= MaxFound
  BY DEF Fusible
<1>2. /\ s # <<>> => Head(s) \in ToSet(s)
      /\ l # <<>> => Head(l) \in ToSet(l) /\ Head(l) = l[1] /\ 1 \in 1..Len(l)
  BY <1>1, Members
<1>3. ASSUME f = l PROVE KeepsBoth(s, l, f)
  <2>1. IsInjective(f)
    BY <1>1, <1>3 DEF IsInjective, Distinct
  <2>2. ASSUME NEW j \in ToSet(f), NEW k \in ToSet(f), j # k, Rank(j, l) <= Rank(k, l)
        PROVE  RankIn(j, f) < RankIn(k, f)
    <3>1. RankIn(j, l) <= RankIn(k, l)
      BY <1>3, <2>2 DEF Rank
    <3>2. /\ RankIn(j, l) \in 1..Len(l) /\ RankIn(k, l) \in 1..Len(l)
          /\ l[RankIn(j, l)] = j /\ l[RankIn(k, l)] = k
      BY <1>1, <1>3, RankFacts
    <3>3. RankIn(j, l) # RankIn(k, l)
      BY <2>2, <3>2
    <3> QED
      BY <1>1, <1>3, <3>1, <3>2, <3>3
  <2>3. ToSet(f) \ ToSet(l) = {} /\ ToSet(f) \cap (ToSet(s) \ ToSet(l)) = {}
    BY <1>3
  <2> QED
    BY <1>2, <1>3, <2>1, <2>2, <2>3 DEF KeepsBoth
<1>4. ASSUME f = Fuse(s, l) PROVE KeepsBoth(s, l, f)
  <2>1. /\ f \in Seq(Nat) /\ Distinct(f) /\ ToSet(f) \subseteq ToSet(s) \cup ToSet(l)
        /\ \A j, k \in ToSet(f) : Above(j, k, s, l) => RankIn(j, f) < RankIn(k, f)
    BY <1>4, FuseFacts
  <2>2. IsInjective(f)
    BY <2>1 DEF IsInjective, Distinct
  <2>3. /\ l # <<>> => Head(l) \in ToSet(f)
        /\ s # <<>> => Head(s) \in ToSet(f)
    BY <1>4, FirstsAreFused
  <2>4. ASSUME NEW j \in ToSet(f), NEW k \in ToSet(f), j # k,
               Rank(j, s) <= Rank(k, s), Rank(j, l) <= Rank(k, l)
        PROVE  RankIn(j, f) < RankIn(k, f)
    BY <2>1, <2>4, AboveWhen
  <2>5. ASSUME l # <<>>, NEW k \in ToSet(f) \cap (ToSet(s) \ ToSet(l)), Rank(k, s) > 1
        PROVE  RankIn(Head(l), f) < RankIn(k, f)
    <3>1. RankIn(Head(l), l) = 1
      BY <1>1, <1>2, <2>5, RankFacts
    <3>2. RankIn(Head(l), l) < RankIn(k, s)
      BY <1>1, <2>5, <3>1, RankFacts DEF Rank
    <3>3. Above(Head(l), k, s, l)
      BY <1>2, <2>1, <2>5, <3>2, AboveWhen
    <3> QED
      BY <2>1, <2>3, <2>5, <3>3
  <2>6. ASSUME NEW j \in ToSet(f) \ ToSet(l), NEW k \in ToSet(f) \ ToSet(s),
               Rank(j, s) = Rank(k, l)
        PROVE  RankIn(j, f) < RankIn(k, f)
    <3>1. j \in ToSet(s) /\ k \in ToSet(l) \ ToSet(s)
      BY <2>1, <2>6
    <3>2. RankIn(j, s) <= RankIn(k, l)
      <4>1. RankIn(j, s) = RankIn(k, l) /\ RankIn(j, s) \in 1..Len(s)
        BY <1>1, <2>6, <3>1, RankFacts DEF Rank
      <4> QED
        BY <1>1, <4>1
    <3>3. Above(j, k, s, l)
      BY <3>1, <3>2, AboveWhen
    <3> QED
      BY <2>1, <2>6, <3>3
  <2> QED
    BY <2>2, <2>3, <2>4, <2>5, <2>6 DEF KeepsBoth
<1> QED
  BY <1>3, <1>4

\* Rankings of the hits of a search can be fused.
LEMMA SearchFusible ==
  ASSUME NEW c \in Corpora, NEW query,
         NEW strict \in RankingsOf(StrictHits(c, query), MaxFound),
         NEW relaxed \in IF StrictHits(c, query) = {}
                         THEN RankingsOf(RelaxedHits(c, query), MaxFound) ELSE {<<>>},
         NEW S \in SUBSET DOMAIN c, NEW semantic \in RankingsOf(S, MaxNear)
  PROVE  Fusible(semantic, IF strict # <<>> THEN strict ELSE relaxed)
<1>1. MaxFound \in Nat /\ MaxNear \in Nat
  BY FusionAssumption
<1>2. IsFiniteSet(DOMAIN c) /\ DOMAIN c \in SUBSET Nat
  BY RetrievalAssumption
<1>3. \A H \in SUBSET DOMAIN c : IsFiniteSet(H) /\ H \in SUBSET Nat
  BY <1>2, FS_Subset
<1>4. StrictHits(c, query) \in SUBSET DOMAIN c /\ RelaxedHits(c, query) \in SUBSET DOMAIN c
  BY DEF StrictHits, RelaxedHits
<1>5. strict \in Seq(Nat) /\ Distinct(strict) /\ Len(strict) <= MaxFound
  BY <1>1, <1>3, <1>4, RankingFacts
<1>6. semantic \in Seq(Nat) /\ Distinct(semantic) /\ Len(semantic) <= MaxNear
  BY <1>1, <1>3, RankingFacts
<1>7. relaxed \in Seq(Nat) /\ Distinct(relaxed) /\ Len(relaxed) <= MaxFound
  <2>1. CASE StrictHits(c, query) = {}
    BY <1>1, <1>3, <1>4, <2>1, RankingFacts
  <2>2. CASE StrictHits(c, query) # {}
    <3>1. relaxed = <<>>
      BY <2>2
    <3>2. <<>> \in Seq(Nat) /\ Len(<<>>) = 0
      OBVIOUS
    <3> QED
      BY <1>1, <3>1, <3>2 DEF Distinct
  <2> QED
    BY <2>1, <2>2
<1> QED
  BY <1>5, <1>6, <1>7 DEF Fusible

----------------------------------------------------------------------------
(* The answers.                                                            *)

\* The relations of a context.
EdgesOf(q) == Touching(ToSet(Context(q)), 4 * q.limit)

\* A context is computed from the store as it is and stays with it.
LEMMA SameAnswers ==
  ASSUME UNCHANGED <<memories, relations>>, NEW q
  PROVE  /\ Context(q)' = Context(q)
         /\ EdgesOf(q)' = EdgesOf(q)
<1>1. memories' = memories /\ relations' = relations
  OBVIOUS
<1>2. \A keys, n : Touching(keys, n)' = Touching(keys, n)
  BY <1>1 DEF Touching, InnerFirst, ByRow
<1>3. \A direct, n : Linked(direct, n)' = Linked(direct, n)
  BY <1>1 DEF Linked, Touching, InnerFirst, ByRow
<1>4. \A direct, n : Targets(direct, n)' = Targets(direct, n)
  BY <1>1 DEF Targets, ByRow
<1>5. \A files, n : Candidates(files, n)' = Candidates(files, n)
  BY <1>1 DEF Candidates, ExactHits, RouteHits, Rows, ByKey, Led, Usable
<1>6. \A files, n : Direct(files, n)' = Direct(files, n)
  BY <1>1 DEF Direct, Best, Candidates, ExactHits, RouteHits, Rows, ByKey, Led, Usable
<1>7. \A keys : Materialize(keys)' = Materialize(keys)
  BY <1>1 DEF Materialize, Usable
<1>8. \A limit : Universal(limit)' = Universal(limit)
  BY <1>1 DEF Universal, Usable
<1>9. Hits(q)' = Hits(q)
  BY <1>7 DEF Hits
<1>10. DirectOf(q)' = DirectOf(q) /\ UniversalOf(q)' = UniversalOf(q)
  BY <1>6, <1>8, <1>9 DEF DirectOf, UniversalOf
<1>11. RelatedOf(q)' = RelatedOf(q)
  BY <1>3, <1>4, <1>7, <1>10 DEF RelatedOf
<1>12. \A s : KeepFile(q, s)' = KeepFile(q, s)
  BY <1>6, <1>9 DEF KeepFile
<1>13. Context(q)' = Context(q)
  BY <1>1, <1>7, <1>9, <1>10, <1>11, <1>12 DEF Context, Usable
<1>14. EdgesOf(q)' = EdgesOf(q)
  BY <1>2, <1>13 DEF EdgesOf
<1> QED
  BY <1>13, <1>14

\* Every answer is what the store gives to what was asked of it.
Lexical(a) == IF a.strict # <<>> THEN a.strict ELSE a.relaxed

\* What a search finds is its lexical ranking or a fusion with the semantic one.
FromRankings(a) ==
  /\ Fusible(a.semantic, Lexical(a))
  /\ a.found \in {Lexical(a), Fuse(a.semantic, Lexical(a))}

Answered ==
  \/ answer = NoAnswer
  \/ \E q \in Questions :
       answer = [kind |-> "context", asked |-> q, rules |-> Context(q), edges |-> EdgesOf(q)]
  \/ \E q \in Scoped : answer = [kind |-> "both", asked |-> q, shown |-> McpContext(q)]
  \/ \E p, g \in KeyLists, limit \in 1..MaxLimit :
       answer = [kind |-> "merged", project |-> p, global |-> g, limit |-> limit,
                 keys |-> CliContext(p, g, limit)]
  \/ answer.kind = "search" /\ FromRankings(answer)

RetrievalInv == StoreInv /\ Answered

\* A search answers from its rankings.
LEMMA FoundFromRankings ==
  ASSUME NEW c \in Corpora, NEW query, Search(c, query)
  PROVE  FromRankings(answer')
<1>1. PICK strict \in RankingsOf(StrictHits(c, query), MaxFound),
           relaxed \in IF StrictHits(c, query) = {}
                       THEN RankingsOf(RelaxedHits(c, query), MaxFound) ELSE {<<>>},
           S \in SUBSET DOMAIN c :
        \E semantic \in RankingsOf(S, MaxNear) :
          answer' = [kind |-> "search", corpus |-> c, query |-> query,
                     strict |-> strict, relaxed |-> relaxed, semantic |-> semantic,
                     found |-> Find(c, query, strict, relaxed, semantic)]
  BY DEF Search
<1>2. PICK semantic \in RankingsOf(S, MaxNear) :
        answer' = [kind |-> "search", corpus |-> c, query |-> query,
                   strict |-> strict, relaxed |-> relaxed, semantic |-> semantic,
                   found |-> Find(c, query, strict, relaxed, semantic)]
  BY <1>1
<1> DEFINE l == IF strict # <<>> THEN strict ELSE relaxed
<1>3. Fusible(semantic, l)
  BY SearchFusible
<1>4. Find(c, query, strict, relaxed, semantic) \in {l, Fuse(semantic, l)}
  BY DEF Find
<1>5. /\ Lexical(answer') = l /\ answer'.semantic = semantic
      /\ answer'.found = Find(c, query, strict, relaxed, semantic)
  BY <1>2 DEF Lexical
<1> QED
  BY <1>3, <1>4, <1>5 DEF FromRankings

\* An empty store is one, and there is no answer yet.
LEMMA InitInv ==
  Init => RetrievalInv
<1> SUFFICES ASSUME Init PROVE RetrievalInv
  OBVIOUS
<1>1. DOMAIN memories = {} /\ relations = {} /\ answer = NoAnswer
  BY DEF Init
<1>2. IsFiniteSet(DOMAIN memories) /\ IsFiniteSet(relations)
  BY <1>1, FS_EmptySet
<1> QED
  BY <1>1, <1>2 DEF RetrievalInv, StoreInv, Answered

\* What is stored and answered stays so.
LEMMA StepInv ==
  RetrievalInv /\ [Next]_vars => RetrievalInv'
<1> SUFFICES ASSUME RetrievalInv, [Next]_vars PROVE RetrievalInv'
  OBVIOUS
<1>1. StoreInv /\ Answered
  BY DEF RetrievalInv
<1>2. ASSUME UNCHANGED <<memories, relations>> PROVE StoreInv'
  BY <1>1, <1>2 DEF StoreInv
<1>3. ASSUME NEW q \in Questions, Ask(q) PROVE RetrievalInv'
  <2>1. /\ UNCHANGED <<memories, relations>>
        /\ answer' = [kind |-> "context", asked |-> q, rules |-> Context(q), edges |-> EdgesOf(q)]
    BY <1>3 DEF Ask, EdgesOf
  <2>2. answer' = [kind |-> "context", asked |-> q, rules |-> Context(q)', edges |-> EdgesOf(q)']
    <3>1. Context(q)' = Context(q) /\ EdgesOf(q)' = EdgesOf(q)
      BY <2>1, SameAnswers
    <3> QED
      BY <2>1, <3>1
  <2>3. Answered'
    BY <2>2 DEF Answered
  <2> QED
    BY <1>2, <2>1, <2>3 DEF RetrievalInv
<1>4. ASSUME NEW m \in Stores, NEW r \in Links, Load(m, r), answer = NoAnswer
      PROVE  RetrievalInv'
  <2>1. /\ \A e \in r : {e[1], e[3]} \subseteq DOMAIN m
        /\ memories' = m /\ relations' = r /\ answer' = NoAnswer
    BY <1>4 DEF Load
  <2>2. /\ IsFiniteSet(DOMAIN m) /\ DOMAIN m \subseteq Nat \ {0}
        /\ \A k \in DOMAIN m : m[k] \in [anchor : SUBSET Paths, archived : BOOLEAN]
        /\ IsFiniteSet(r) /\ r \subseteq Nat \X Nat \X Nat
    BY RetrievalAssumption
  <2>3. StoreInv'
    BY <2>1, <2>2 DEF StoreInv
  <2>4. Answered'
    BY <2>1 DEF Answered, NoAnswer
  <2> QED
    BY <2>3, <2>4 DEF RetrievalInv
<1>5. ASSUME NEW q \in Scoped, AskBoth(q) PROVE RetrievalInv'
  <2>1. UNCHANGED <<memories, relations>> /\ Answered'
    BY <1>5 DEF AskBoth, Answered
  <2> QED
    BY <1>2, <2>1 DEF RetrievalInv
<1>6. ASSUME NEW p \in KeyLists, NEW g \in KeyLists, NEW limit \in 1..MaxLimit,
             Merge(p, g, limit)
      PROVE  RetrievalInv'
  <2>1. UNCHANGED <<memories, relations>> /\ Answered'
    BY <1>6 DEF Merge, Answered
  <2> QED
    BY <1>2, <2>1 DEF RetrievalInv
<1>7. ASSUME NEW c \in Corpora, NEW query, Search(c, query) PROVE RetrievalInv'
  <2>1. UNCHANGED <<memories, relations>> /\ answer'.kind = "search"
    BY <1>7 DEF Search
  <2>2. FromRankings(answer')
    BY <1>7, FoundFromRankings
  <2>3. Answered'
    BY <2>1, <2>2 DEF Answered
  <2> QED
    BY <1>2, <2>1, <2>3 DEF RetrievalInv
<1>8. ASSUME UNCHANGED vars PROVE RetrievalInv'
  <2>1. UNCHANGED <<memories, relations>> /\ answer' = answer
    BY <1>8 DEF vars
  <2>2. ASSUME NEW q \in Questions,
               answer = [kind |-> "context", asked |-> q, rules |-> Context(q),
                         edges |-> EdgesOf(q)]
        PROVE  Answered'
    <3>1. answer' = [kind |-> "context", asked |-> q, rules |-> Context(q)',
                     edges |-> EdgesOf(q)']
      <4>1. Context(q)' = Context(q) /\ EdgesOf(q)' = EdgesOf(q)
        BY <2>1, SameAnswers
      <4> QED
        BY <2>1, <2>2, <4>1
    <3> QED
      BY <3>1 DEF Answered
  <2>3. ASSUME \/ answer = NoAnswer
               \/ \E q \in Scoped :
                    answer = [kind |-> "both", asked |-> q, shown |-> McpContext(q)]
               \/ \E p, g \in KeyLists, limit \in 1..MaxLimit :
                    answer = [kind |-> "merged", project |-> p, global |-> g,
                              limit |-> limit, keys |-> CliContext(p, g, limit)]
               \/ answer.kind = "search" /\ FromRankings(answer)
        PROVE  Answered'
    BY <2>1, <2>3 DEF Answered, NoAnswer
  <2>4. Answered'
    BY <1>1, <2>2, <2>3 DEF Answered
  <2> QED
    BY <1>2, <2>1, <2>4 DEF RetrievalInv
<1>9. CASE Next
  BY <1>3, <1>4, <1>5, <1>6, <1>7, <1>9 DEF Next
<1> QED
  BY <1>8, <1>9

\* The invariant of Retrieval.
LEMMA AlwaysInv ==
  Spec => []RetrievalInv
BY InitInv, StepInv, PTL DEF Spec

----------------------------------------------------------------------------
(* The theorems.                                                           *)

\* A context is an answer from the store.
LEMMA ContextAnswer ==
  ASSUME RetrievalInv, IsContext
  PROVE  /\ StoreInv /\ Asked \in Questions
         /\ answer.rules = Context(Asked)
         /\ answer.edges = EdgesOf(Asked)
BY DEF RetrievalInv, Answered, IsContext, Asked, NoAnswer

\* A context is a list of keys.
LEMMA ContextType ==
  ASSUME StoreInv, NEW q \in Questions
  PROVE  Context(q) \in Seq(Nat)
<1>1. CASE q.files # {} \/ Hits(q) # <<>>
  <2>1. Context(q) = Materialize(Kept(q)) /\ Kept(q) \in Seq(Nat)
    BY <1>1, ContextIs, KeptFacts
  <2> QED
    BY <2>1, MaterializeFacts
<1>2. CASE ~(q.files # {} \/ Hits(q) # <<>>)
  <2> DEFINE S == {k \in DOMAIN memories : Usable(k)}
  <2>1. Context(q) = Take(InKeyOrder(S), q.limit)
    BY <1>2 DEF Context
  <2>2. S \in SUBSET DOMAIN memories
    OBVIOUS
  <2> HIDE DEF S
  <2>3. InKeyOrder(S) \in Seq(Nat) /\ q.limit \in Nat
    BY <2>2, OrderedKeys, QuestionType
  <2> QED
    BY <2>1, <2>3, TakeFacts
<1> QED
  BY <1>1, <1>2

\* A memory anchored at a path that scores for a file is found from the file,
\* if the memories of its routes fit the lookup, but for directories of one name
\* and those too far above: the hashed routes are a sound index for the score
\* (routing_entries_for_path).
THEOREM MatchesCorrect == Spec => []NoMatchLost
<1>1. RetrievalInv => NoMatchLost
  BY MatchesFound DEF RetrievalInv
<1> QED
  BY <1>1, AlwaysInv, PTL

\* The usable memory closest to the files is in the context, whatever else
\* competes for the limit, if its exact path or routes that fit the lookup lead
\* to it (ranked_anchor_keys, select_diverse_context_keys, context_for_task).
THEOREM ClosestCorrect == Spec => []ClosestMemoryShown
<1>1. RetrievalInv => ClosestMemoryShown
  <2> DEFINE files == Asked.files
             n == CandidateLimit(Asked.limit)
             usable == {k \in DOMAIN memories : Usable(k)}
             closest(k) == \A j \in usable : \/ Best(files, j) < Best(files, k)
                                             \/ Best(files, j) = Best(files, k) /\ k <= j
             first(k) == \E f \in files \cap memories[k].anchor :
                           \A j \in usable : f \in memories[j].anchor => k <= j
             exactFit == Cardinality(ExactHits(files, n)) <= CandidateBudget(files, n)
             found(k) == (first(k) /\ exactFit) \/ (Close(files, k) /\ RoutesFit(files, n))
  <2> SUFFICES ASSUME RetrievalInv, IsContext,
                      Asked.limit >= (IF Asked.way = "task" THEN 2 ELSE 1),
                      NEW k \in usable, closest(k), found(k)
               PROVE  k \in Shown
    BY DEF ClosestMemoryShown
  <2>1. StoreInv /\ Asked \in Questions /\ answer.rules = Context(Asked)
    BY ContextAnswer
  <2>2. files \in SUBSET Paths /\ n \in Nat /\ n # 0
    <3>1. files \in SUBSET Paths /\ Asked.limit \in Nat /\ Asked.limit >= 1
      BY <2>1, QuestionType
    <3> QED
      BY <3>1, CandidateLimitType
  <2>3. k \in DOMAIN memories /\ Usable(k)
    OBVIOUS
  <2>4. k \in Candidates(files, n) /\ Best(files, k) # NoMatch
    <3>1. CASE first(k) /\ exactFit
      <4>1. PICK f \in files \cap memories[k].anchor :
              \A j \in DOMAIN memories : Usable(j) /\ f \in memories[j].anchor => k <= j
        BY <3>1
      <4> HIDE DEF files, n
      <4> QED
        BY <2>1, <2>2, <2>3, <3>1, <4>1, ExactFound
    <3>2. CASE Close(files, k) /\ RoutesFit(files, n)
      <4> HIDE DEF files, n
      <4> QED
        BY <2>1, <2>2, <2>3, <3>2, CloseFound
    <3> QED
      BY <3>1, <3>2
  <2>5. k \in ToSet(Context(Asked))
    BY <2>1, <2>4, ClosestIsShown
  <2> QED
    BY <2>1, <2>5 DEF Shown
<1> QED
  BY <1>1, AlwaysInv, PTL

\* The first linked memory, if it is usable, and the first repository-wide one
\* are in the context if the limit has a slot for their class; of the linked
\* ones, those that the lookup of relations holds if it cannot hold them all.
THEOREM SlotsCorrect == Spec => []EveryClassHasItsSlot
<1>1. RetrievalInv => EveryClassHasItsSlot
  <2> SUFFICES ASSUME RetrievalInv, IsContext, Asked.files # {},
                      Asked.way # "task" \/ Asked.limit >= 4
               PROVE
      /\ \A k \in OneHop(Asked) :
           (\A j \in OneHop(Asked) : k <= j) /\ Asked.limit > Given(DirectOf(Asked)) /\ Usable(k)
           => k \in Shown
      /\ /\ UniversalOf(Asked) # <<>>
         /\ Asked.limit > Given(DirectOf(Asked)) + (IF OneHop(Asked) = {} THEN 0 ELSE 1)
         => Head(UniversalOf(Asked)) \in Shown
    BY DEF EveryClassHasItsSlot, Given
  <2>1. StoreInv /\ Asked \in Questions /\ answer.rules = Context(Asked)
    BY ContextAnswer
  <2>2. (IF OneHop(Asked) = {} THEN 0 ELSE 1) = Given(RelatedOf(Asked))
    <3>1. OneHop(Asked) = ToSet(RelatedOf(Asked)) /\ RelatedOf(Asked) \in Seq(Nat)
      BY <2>1, ClassFacts
    <3>2. RelatedOf(Asked) = <<>> <=> ToSet(RelatedOf(Asked)) = {}
      BY <3>1, Members
    <3> QED
      BY <3>1, <3>2 DEF Given
  <2> QED
    BY <2>1, <2>2, SlotIsShown DEF Shown
<1> QED
  BY <1>1, AlwaysInv, PTL

\* A context is short of its limit only if there is nothing more to show, or by
\* the archived memories that links lead to, as far as the lookup of
\* relations holds them.
THEOREM PlacesCorrect == Spec => []ShortOnlyByArchived
<1>1. RetrievalInv => ShortOnlyByArchived
  <2> DEFINE classes == ToSet(DirectOf(Asked)) \cup OneHop(Asked) \cup ToSet(UniversalOf(Asked))
             archived == {k \in OneHop(Asked) : ~Usable(k)}
  <2> SUFFICES ASSUME RetrievalInv, IsContext, Asked.files # {},
                      Len(answer.rules) < Asked.limit
               PROVE  \/ classes \ archived \subseteq Shown
                      \/ Len(answer.rules) + Cardinality(archived) >= Asked.limit
    BY DEF ShortOnlyByArchived
  <2>1. StoreInv /\ Asked \in Questions /\ answer.rules = Context(Asked)
    BY ContextAnswer
  <2>2. Len(Context(Asked)) < Asked.limit /\ Shown = ToSet(Context(Asked))
    BY <2>1 DEF Shown
  <2>3. OneHop(Asked) = ToSet(RelatedOf(Asked))
    BY <2>1, ClassFacts
  <2>4. classes = Classes(Asked) /\ archived = {k \in ToSet(RelatedOf(Asked)) : ~Usable(k)}
    BY <2>3 DEF Classes
  <2> HIDE DEF classes, archived
  <2> QED
    BY <2>1, <2>2, <2>4, ShortByArchived
<1> QED
  BY <1>1, AlwaysInv, PTL

\* Relations between shown memories are given before those that lead out of
\* them (get_relations_touching).
THEOREM EdgesCorrect == Spec => []InnerRelationsFirst
<1>1. RetrievalInv => InnerRelationsFirst
  <2> DEFINE n == 4 * Asked.limit
             inner == {e \in relations : Between(e, Shown)}
             few(k) == Cardinality({e \in relations : k \in {e[1], e[3]}}) <= n
  <2> SUFFICES ASSUME RetrievalInv, IsContext, NEW e \in inner, NEW f \in answer.edges \ inner,
                      few(e[1]) \/ few(e[3])
               PROVE  e \in answer.edges
    BY DEF InnerRelationsFirst
  <2>1. /\ StoreInv /\ Asked \in Questions
        /\ answer.rules = Context(Asked) /\ answer.edges = EdgesOf(Asked)
    BY ContextAnswer
  <2>2. n \in Nat
    BY <2>1, QuestionType
  <2>3. answer.edges = Touching(Shown, n)
    BY <2>1 DEF EdgesOf, Shown
  <2> HIDE DEF n
  <2>4. f \in relations
    <3>1. Touching(Shown, n) \subseteq Meets(Shown)
      BY <2>1, <2>2, TouchingFacts
    <3> QED
      BY <2>3, <3>1 DEF Meets
  <2>5. e \in relations /\ Between(e, Shown) /\ ~Between(f, Shown)
    BY <2>4
  <2>6. Cardinality(At(e[1])) <= n \/ Cardinality(At(e[3])) <= n
    BY DEF At
  <2> QED
    BY <2>1, <2>2, <2>3, <2>5, <2>6, TouchingFacts
<1> QED
  BY <1>1, AlwaysInv, PTL

\* The text of mem_context is within its bytes unless one rule alone is too
\* long for them.
THEOREM TextCorrect == Spec => []TextNeverCut
<1>1. RetrievalInv => TextNeverCut
  <2> SUFFICES ASSUME RetrievalInv, answer.kind = "both", ~LongRule(answer.asked)
               PROVE  answer.shown.bytes <= MaxBytes
    BY DEF TextNeverCut, LongRule
  <2>1. answer.asked \in Scoped /\ answer.shown = McpContext(answer.asked)
    BY DEF RetrievalInv, Answered, NoAnswer
  <2> QED
    BY <2>1, TextFits
<1> QED
  BY <1>1, AlwaysInv, PTL

\* Neither store loses its place in mem_context or in the context command, and
\* no slot is lost.
THEOREM StoresCorrect == Spec => []NoStoreStarves
<1>1. ASSUME RetrievalInv, answer.kind = "both", answer.asked.scope = "all",
             ~LongRule(answer.asked)
      PROVE  LET q == answer.asked IN
             /\ q.globals # <<>> /\ Head(q.globals) <= GlobalBytes - 16
                  => 1 \in answer.shown.globals
             /\ q.relations # <<>> /\ Head(q.relations) <= MetaBytes - 20
                  => 1 \in answer.shown.relations
             /\ q.limit >= 2 => answer.shown.slots <= q.limit
             /\ Len(q.globals) >= q.limit => answer.shown.slots >= q.limit
  <2>1. answer.asked \in Scoped /\ answer.shown = McpContext(answer.asked)
    BY <1>1 DEF RetrievalInv, Answered, NoAnswer
  <2> QED
    BY <1>1, <2>1, StoresShown
<1>2. ASSUME RetrievalInv, answer.kind = "merged"
      PROVE  LET all == ToSet(answer.project) \cup ToSet(answer.global) IN
             /\ Len(answer.keys) = Min({answer.limit, Cardinality(all)})
             /\ answer.global # <<>> => ToSet(answer.keys) \cap ToSet(answer.global) # {}
  <2>1. PICK p \in KeyLists, g \in KeyLists, limit \in 1..MaxLimit :
          answer = [kind |-> "merged", project |-> p, global |-> g, limit |-> limit,
                    keys |-> CliContext(p, g, limit)]
    BY <1>2 DEF RetrievalInv, Answered, NoAnswer
  <2>2. /\ answer.project = p /\ answer.global = g /\ answer.limit = limit
        /\ answer.keys = CliContext(p, g, limit)
    BY <2>1
  <2>3. /\ Len(CliContext(p, g, limit)) = Min({limit, Cardinality(ToSet(p) \cup ToSet(g))})
        /\ g # <<>> => ToSet(CliContext(p, g, limit)) \cap ToSet(g) # {}
    BY CliContextFacts
  <2> QED
    BY <2>2, <2>3
<1>3. RetrievalInv => NoStoreStarves
  BY <1>1, <1>2 DEF NoStoreStarves, LongRule
<1> QED
  BY <1>3, AlwaysInv, PTL

\* Nothing is found twice, and what both rankings of a search say is kept,
\* whatever they are.
THEOREM FusionCorrect == Spec => []FusionKeepsBothRankings
<1>1. RetrievalInv => FusionKeepsBothRankings
  <2> SUFFICES ASSUME RetrievalInv, answer.kind = "search"
               PROVE  FusionKeepsBothRankings
    BY DEF FusionKeepsBothRankings
  <2>1. FromRankings(answer)
    BY DEF RetrievalInv, Answered, NoAnswer
  <2>2. KeepsBoth(answer.semantic, Lexical(answer), answer.found)
    BY <2>1, FusedKeepsBoth DEF FromRankings
  <2> QED
    BY <2>2 DEF KeepsBoth, Rank, Lexical, FusionKeepsBothRankings
<1> QED
  BY <1>1, AlwaysInv, PTL

=============================================================================
