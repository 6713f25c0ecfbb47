-------------------------- MODULE FilteringProofs --------------------------
(***************************************************************************)
(* What Filtering keeps of a list.  These are facts about a recursive      *)
(* function, proved by induction: the set of lengths for which a fact      *)
(* holds has 0 and every successor (NatSets).                              *)
(***************************************************************************)
EXTENDS Filtering, SequencesExt, WellFoundedInduction, TLAPS

----------------------------------------------------------------------------
LEMMA NatSets ==
  ASSUME NEW P \in SUBSET Nat, 0 \in P, \A n \in P : n + 1 \in P
  PROVE  P = Nat
<1> SUFFICES ASSUME Nat \ P # {} PROVE FALSE
  OBVIOUS
<1>1. PICK m \in Nat \ P : \A k \in Nat \ P : <<k, m>> \notin OpToRel(<, Nat)
  BY WFMin, NatLessThanWellFounded, Zenon
<1>2. \A k \in Nat \ P : ~(k < m)
  BY <1>1, Zenon DEF OpToRel
<1>3. m - 1 \in Nat
  OBVIOUS
<1> QED
  BY <1>2, <1>3

\* Numbers have a least one.
LEMMA LeastElement ==
  ASSUME NEW S \in SUBSET Nat, S # {}
  PROVE  \E m \in S : \A x \in S : m <= x
<1>1. PICK m \in S : \A k \in S : <<k, m>> \notin OpToRel(<, Nat)
  BY WFMin, NatLessThanWellFounded, Zenon
<1>2. \A k \in S : ~(k < m)
  BY <1>1, Zenon DEF OpToRel
<1> QED
  BY <1>2

LEMMA MinFacts ==
  ASSUME NEW S \in SUBSET Nat, S # {}
  PROVE  Min(S) \in S /\ \A x \in S : Min(S) <= x
<1>1. \E m \in S : \A x \in S : m <= x
  BY LeastElement
<1> QED
  BY <1>1 DEF Min

\* s followed by t.
LEMMA ConcatFacts ==
  ASSUME NEW A, NEW s \in Seq(A), NEW t \in Seq(A)
  PROVE  /\ s \o t \in Seq(A)
         /\ Len(s \o t) = Len(s) + Len(t)
         /\ \A i \in 1..Len(s) : (s \o t)[i] = s[i]
         /\ \A i \in 1..Len(t) : (s \o t)[Len(s) + i] = t[i]
         /\ ToSet(s \o t) = ToSet(s) \cup ToSet(t)
<1>1. Len(s) \in Nat /\ Len(t) \in Nat /\ s \o t \in Seq(A) /\ Len(s \o t) = Len(s) + Len(t)
  OBVIOUS
<1>2. \A i \in 1..Len(s) : (s \o t)[i] = s[i]
  OBVIOUS
<1>3. \A i \in 1..Len(t) : (s \o t)[Len(s) + i] = t[i]
  OBVIOUS
<1>4. /\ \A x : x \in ToSet(s \o t) <=> \E i \in 1..Len(s) + Len(t) : (s \o t)[i] = x
      /\ \A x : x \in ToSet(s) <=> \E i \in 1..Len(s) : s[i] = x
      /\ \A x : x \in ToSet(t) <=> \E i \in 1..Len(t) : t[i] = x
  BY <1>1 DEF ToSet
<1>5. ASSUME NEW i \in 1..Len(s) + Len(t)
      PROVE  i \in 1..Len(s) \/ \E j \in 1..Len(t) : i = Len(s) + j
  <2>1. CASE i <= Len(s)
    BY <1>1, <2>1
  <2>2. CASE ~(i <= Len(s))
    <3>1. i - Len(s) \in 1..Len(t) /\ i = Len(s) + (i - Len(s))
      BY <1>1, <2>2
    <3> QED
      BY <3>1
  <2> QED
    BY <2>1, <2>2
<1>6. ASSUME NEW i \in 1..Len(t) PROVE Len(s) + i \in 1..Len(s) + Len(t)
  BY <1>1
<1>7. \A i \in 1..Len(s) : i \in 1..Len(s) + Len(t)
  BY <1>1
<1> DEFINE u == s \o t
<1> HIDE DEF u
<1>8. \A x : x \in ToSet(u) <=> x \in ToSet(s) \/ x \in ToSet(t)
  <2>1. ASSUME NEW x, x \in ToSet(u) PROVE x \in ToSet(s) \/ x \in ToSet(t)
    <3>1. PICK i \in 1..Len(s) + Len(t) : u[i] = x
      BY <1>4, <2>1 DEF u
    <3> QED
      BY <1>2, <1>3, <1>4, <1>5, <3>1 DEF u
  <2>2. ASSUME NEW x, x \in ToSet(s) PROVE x \in ToSet(u)
    BY <1>2, <1>4, <1>7, <2>2 DEF u
  <2>3. ASSUME NEW x, x \in ToSet(t) PROVE x \in ToSet(u)
    <3>1. PICK i \in 1..Len(t) : t[i] = x
      BY <1>4, <2>3
    <3>2. u[Len(s) + i] = x
      BY <1>3, <3>1 DEF u
    <3> QED
      BY <1>4, <1>6, <3>2 DEF u
  <2> QED
    BY <2>1, <2>2, <2>3
<1> QED
  BY <1>1, <1>2, <1>3, <1>8 DEF u

\* How a filter builds its result.
FilterStep(s, S, f, i) ==
  IF i = 0 THEN <<>> ELSE IF s[i] \in S THEN Append(f[i - 1], s[i]) ELSE f[i - 1]

LEMMA LeftExists ==
  ASSUME NEW s, NEW S, NEW n \in Nat
  PROVE  \E f : f = [i \in 0..n |-> FilterStep(s, S, f, i)]
<1> DEFINE P == {m \in Nat : \E f : f = [i \in 0..m |-> FilterStep(s, S, f, i)]}
<1>1. 0 \in P
  <2> DEFINE f == [i \in 0..0 |-> <<>>]
  <2>1. f = [i \in 0..0 |-> FilterStep(s, S, f, i)]
    BY DEF FilterStep
  <2> QED
    BY <2>1
<1>2. ASSUME NEW m \in P PROVE m + 1 \in P
  <2>1. PICK f : f = [i \in 0..m |-> FilterStep(s, S, f, i)]
    OBVIOUS
  <2> DEFINE g == [i \in 0..m + 1 |-> IF i = m + 1 THEN FilterStep(s, S, f, m + 1) ELSE f[i]]
  <2>2. ASSUME NEW i \in 0..m + 1
        PROVE  g[i] = FilterStep(s, S, g, i)
    <3>1. CASE i = m + 1
      BY <3>1 DEF FilterStep
    <3>2. CASE i # m + 1
      <4>1. i \in 0..m
        BY <3>2
      <4>2. f[i] = FilterStep(s, S, f, i)
        BY <2>1, <4>1
      <4> QED
        BY <3>2, <4>1, <4>2 DEF FilterStep
    <3> QED
      BY <3>1, <3>2
  <2>3. g = [i \in 0..m + 1 |-> FilterStep(s, S, g, i)]
    BY <2>2
  <2> HIDE DEF g
  <2>4. \E h : h = [i \in 0..m + 1 |-> FilterStep(s, S, h, i)]
    BY <2>3
  <2> QED
    BY <2>4
<1>3. P = Nat
  BY <1>1, <1>2, NatSets
<1> QED
  BY <1>3

LEMMA FilteredIs ==
  ASSUME NEW s, NEW S, Len(s) \in Nat
  PROVE  \E f : /\ f = [i \in 0..Len(s) |-> FilterStep(s, S, f, i)]
                /\ Filtered(s, S) = f[Len(s)]
<1> DEFINE Is(f) == f = [i \in 0..Len(s) |->
                           IF i = 0 THEN <<>>
                           ELSE IF s[i] \in S THEN Append(f[i - 1], s[i]) ELSE f[i - 1]]
           left == CHOOSE f : Is(f)
<1>1. \E f : Is(f)
  <2>1. PICK f : f = [i \in 0..Len(s) |-> FilterStep(s, S, f, i)]
    BY LeftExists
  <2>2. Is(f)
    BY <2>1 DEF FilterStep
  <2> QED
    BY <2>2
<1>2. Is(left)
  BY <1>1
<1>3. Filtered(s, S) = left[Len(s)]
  BY DEF Filtered
<1> QED
  BY <1>2, <1>3 DEF FilterStep

----------------------------------------------------------------------------
(* Facts.                                                                  *)

\* What is left is made of the elements in S, all of them, in their order.
LEMMA FilteredFacts ==
  ASSUME NEW A, NEW s \in Seq(A), NEW S
  PROVE  /\ Filtered(s, S) \in Seq(A \cap S)
         /\ ToSet(Filtered(s, S)) = ToSet(s) \cap S
         /\ ToSet(s) \subseteq S => Filtered(s, S) = s
         /\ \A j, k \in 1..Len(Filtered(s, S)) : j < k =>
              \E m, n \in 1..Len(s) : m < n /\ s[m] = Filtered(s, S)[j]
                                           /\ s[n] = Filtered(s, S)[k]
<1>1. Len(s) \in Nat /\ s \in [1..Len(s) -> A]
  OBVIOUS
<1>2. PICK f : /\ f = [i \in 0..Len(s) |-> FilterStep(s, S, f, i)]
               /\ Filtered(s, S) = f[Len(s)]
  BY <1>1, FilteredIs
<1> DEFINE First(x, i) == \E j \in 1..i : s[j] = x
           Elements(t, i) == \A x : (\E j \in 1..Len(t) : t[j] = x) <=> x \in S /\ First(x, i)
           All(t, i) == (\A j \in 1..i : s[j] \in S) => t = SubSeq(s, 1, i)
           Order(t, i) == \A j, k \in 1..Len(t) : j < k =>
                            \E m, n \in 1..i : m < n /\ s[m] = t[j] /\ s[n] = t[k]
           P == {i \in Nat : i <= Len(s) =>
                   f[i] \in Seq(A \cap S) /\ Elements(f[i], i) /\ All(f[i], i) /\ Order(f[i], i)}
<1>3. 0 \in P
  <2>1. f[0] = <<>>
    BY <1>1, <1>2 DEF FilterStep
  <2>2. f[0] \in Seq(A \cap S) /\ Len(f[0]) = 0 /\ SubSeq(s, 1, 0) = <<>>
    BY <1>1, <2>1
  <2>3. Elements(f[0], 0) /\ Order(f[0], 0)
    BY <2>2
  <2> QED
    BY <2>1, <2>2, <2>3
<1>4. ASSUME NEW i \in P PROVE i + 1 \in P
  <2> SUFFICES ASSUME i + 1 <= Len(s)
               PROVE  /\ f[i + 1] \in Seq(A \cap S)
                      /\ Elements(f[i + 1], i + 1) /\ All(f[i + 1], i + 1) /\ Order(f[i + 1], i + 1)
    OBVIOUS
  <2>1. i \in Nat /\ i + 1 \in 1..Len(s)
    BY <1>1
  <2>2. f[i + 1] = IF s[i + 1] \in S THEN Append(f[i], s[i + 1]) ELSE f[i]
    <3> HIDE DEF P
    <3>1. i + 1 \in 0..Len(s) /\ i + 1 # 0 /\ (i + 1) - 1 = i
      BY <1>1, <2>1
    <3>2. f[i + 1] = FilterStep(s, S, f, i + 1)
      BY <1>2, <3>1
    <3> QED
      BY <3>1, <3>2 DEF FilterStep
  <2>3. s[i + 1] \in A
    BY <1>1, <2>1
  <2>4. f[i] \in Seq(A \cap S) /\ Elements(f[i], i) /\ All(f[i], i) /\ Order(f[i], i)
    BY <2>1
  <2>5. 1..i + 1 = 1..i \cup {i + 1}
    BY <2>1
  <2> DEFINE t == f[i]
             e == s[i + 1]
  <2>6. t \in Seq(A \cap S) /\ e \in A /\ Len(t) \in Nat
    BY <2>3, <2>4
  <2>7. CASE s[i + 1] \in S
    <3>1. f[i + 1] = Append(t, e)
      BY <2>2, <2>7
    <3>2. /\ f[i + 1] \in Seq(A \cap S) /\ Len(f[i + 1]) = Len(t) + 1
          /\ \A j \in 1..Len(t) : f[i + 1][j] = t[j]
          /\ f[i + 1][Len(t) + 1] = e
      BY <2>6, <2>7, <3>1
    <3>3. 1..Len(f[i + 1]) = 1..Len(t) \cup {Len(t) + 1}
      BY <2>6, <3>2
    <3>4. Elements(f[i + 1], i + 1)
      <4> SUFFICES ASSUME NEW x
                   PROVE  (\E j \in 1..Len(f[i + 1]) : f[i + 1][j] = x)
                            <=> x \in S /\ First(x, i + 1)
        OBVIOUS
      <4>1. (\E j \in 1..Len(f[i + 1]) : f[i + 1][j] = x)
              <=> (\E j \in 1..Len(t) : t[j] = x) \/ x = e
        BY <3>2, <3>3
      <4>2. First(x, i + 1) <=> First(x, i) \/ x = e
        BY <2>5
      <4> QED
        BY <2>4, <2>7, <4>1, <4>2
    <3>5. All(f[i + 1], i + 1)
      <4> SUFFICES ASSUME \A j \in 1..i + 1 : s[j] \in S
                   PROVE  f[i + 1] = SubSeq(s, 1, i + 1)
        OBVIOUS
      <4>1. t = SubSeq(s, 1, i)
        BY <2>4, <2>5
      <4> QED
        BY <1>1, <2>1, <2>6, <3>1, <4>1
    <3>6. Order(f[i + 1], i + 1)
      <4> SUFFICES ASSUME NEW j \in 1..Len(f[i + 1]), NEW k \in 1..Len(f[i + 1]), j < k
                   PROVE  \E m, n \in 1..i + 1 : /\ m < n /\ s[m] = f[i + 1][j]
                                                 /\ s[n] = f[i + 1][k]
        OBVIOUS
      <4>1. CASE k \in 1..Len(t)
        <5>1. j \in 1..Len(t)
          BY <2>6, <4>1
        <5>2. \E m, n \in 1..i : m < n /\ s[m] = t[j] /\ s[n] = t[k]
          BY <2>4, <4>1, <5>1
        <5> QED
          BY <2>5, <3>2, <4>1, <5>1, <5>2
      <4>2. CASE k = Len(t) + 1
        <5>1. j \in 1..Len(t)
          BY <2>6, <3>2, <4>2
        <5>2. PICK m \in 1..i : s[m] = t[j]
          BY <2>4, <5>1
        <5>3. m < i + 1 /\ m \in 1..i + 1 /\ i + 1 \in 1..i + 1
          BY <2>1
        <5> QED
          BY <3>2, <4>2, <5>1, <5>2, <5>3
      <4> QED
        BY <3>3, <4>1, <4>2
    <3> QED
      BY <3>2, <3>4, <3>5, <3>6
  <2>8. CASE s[i + 1] \notin S
    <3>1. f[i + 1] = t
      BY <2>2, <2>8
    <3>2. Elements(f[i + 1], i + 1)
      <4> SUFFICES ASSUME NEW x
                   PROVE  (\E j \in 1..Len(t) : t[j] = x) <=> x \in S /\ First(x, i + 1)
        BY <3>1
      <4>1. First(x, i + 1) <=> First(x, i) \/ x = e
        BY <2>5
      <4> QED
        BY <2>4, <2>8, <4>1
    <3>3. All(f[i + 1], i + 1)
      BY <2>1, <2>5, <2>8
    <3>4. Order(f[i + 1], i + 1)
      BY <2>4, <2>5, <3>1
    <3> QED
      BY <2>4, <3>1, <3>2, <3>3, <3>4
  <2> QED
    BY <2>7, <2>8
<1> HIDE DEF P
<1>5. P = Nat
  <2>1. P \in SUBSET Nat
    BY DEF P
  <2> QED
    BY <1>3, <1>4, <2>1, NatSets
<1> USE DEF P
<1>6. /\ f[Len(s)] \in Seq(A \cap S)
      /\ Elements(f[Len(s)], Len(s)) /\ All(f[Len(s)], Len(s)) /\ Order(f[Len(s)], Len(s))
  BY <1>1, <1>5
<1> DEFINE r == Filtered(s, S)
<1>7. /\ r \in Seq(A \cap S)
      /\ Elements(r, Len(s)) /\ All(r, Len(s)) /\ Order(r, Len(s))
  <2> HIDE DEF Elements, All, Order, P
  <2> QED
    BY <1>2, <1>6
<1> HIDE DEF r, P
<1>8. DOMAIN s = 1..Len(s) /\ DOMAIN r = 1..Len(r) /\ SubSeq(s, 1, Len(s)) = s
  BY <1>1, <1>7
<1>9. ToSet(r) = ToSet(s) \cap S
  <2>1. \A x : x \in ToSet(r) <=> \E j \in 1..Len(r) : r[j] = x
    BY <1>8 DEF ToSet
  <2>2. \A x : x \in ToSet(s) <=> First(x, Len(s))
    BY <1>8 DEF ToSet
  <2> HIDE DEF First
  <2> QED
    BY <1>7, <2>1, <2>2
<1>10. ToSet(s) \subseteq S => r = s
  <2>1. \A j \in 1..Len(s) : s[j] \in ToSet(s)
    BY <1>8 DEF ToSet
  <2> QED
    BY <1>7, <1>8, <2>1
<1> QED
  BY <1>7, <1>9, <1>10 DEF r
\* Only which elements of the list are in the set counts.
LEMMA FilteredSame ==
  ASSUME NEW A, NEW s \in Seq(A), NEW S, NEW T,
         \A x \in ToSet(s) : x \in S <=> x \in T
  PROVE  Filtered(s, S) = Filtered(s, T)
<1>1. Len(s) \in Nat /\ \A i \in 1..Len(s) : s[i] \in S <=> s[i] \in T
  BY DEF ToSet
<1>2. PICK f : /\ f = [i \in 0..Len(s) |-> FilterStep(s, S, f, i)]
               /\ Filtered(s, S) = f[Len(s)]
  BY <1>1, FilteredIs
<1>3. PICK g : /\ g = [i \in 0..Len(s) |-> FilterStep(s, T, g, i)]
               /\ Filtered(s, T) = g[Len(s)]
  BY <1>1, FilteredIs
<1> DEFINE P == {i \in Nat : i <= Len(s) => f[i] = g[i]}
<1>4. 0 \in P
  BY <1>1, <1>2, <1>3 DEF FilterStep
<1>5. ASSUME NEW i \in Nat, i \in P, i + 1 <= Len(s)
      PROVE  f[i + 1] = g[i + 1]
  <2>1. f[i] = g[i]
    BY <1>1, <1>5
  <2> HIDE DEF P
  <2>2. i + 1 \in 0..Len(s) /\ i + 1 \in 1..Len(s) /\ i + 1 # 0 /\ (i + 1) - 1 = i
    BY <1>1, <1>5
  <2>3. f[i + 1] = FilterStep(s, S, f, i + 1) /\ g[i + 1] = FilterStep(s, T, g, i + 1)
    BY <1>2, <1>3, <2>2
  <2> QED
    BY <1>1, <2>1, <2>2, <2>3 DEF FilterStep
<1>6. P = Nat
  <2>1. P \in SUBSET Nat /\ \A i \in P : i + 1 \in P
    BY <1>5
  <2> HIDE DEF P
  <2> QED
    BY <1>4, <2>1, NatSets
<1>7. f[Len(s)] = g[Len(s)]
  BY <1>1, <1>6
<1> QED
  BY <1>2, <1>3, <1>7

\* One more element is one more in the result, or none.
LEMMA FilteredAppend ==
  ASSUME NEW A, NEW s \in Seq(A), NEW e \in A, NEW S
  PROVE  Filtered(Append(s, e), S) =
           IF e \in S THEN Append(Filtered(s, S), e) ELSE Filtered(s, S)
<1> DEFINE t == Append(s, e)
<1>1. /\ Len(s) \in Nat /\ Len(t) = Len(s) + 1 /\ Len(t) \in Nat
      /\ \A i \in 1..Len(s) : t[i] = s[i]
      /\ t[Len(t)] = e
  OBVIOUS
<1> HIDE DEF t
<1>2. PICK f : /\ f = [i \in 0..Len(s) |-> FilterStep(s, S, f, i)]
               /\ Filtered(s, S) = f[Len(s)]
  BY <1>1, FilteredIs
<1>3. PICK g : /\ g = [i \in 0..Len(t) |-> FilterStep(t, S, g, i)]
               /\ Filtered(t, S) = g[Len(t)]
  BY <1>1, FilteredIs
<1> DEFINE P == {i \in Nat : i <= Len(s) => f[i] = g[i]}
<1>4. 0 \in P
  BY <1>1, <1>2, <1>3 DEF FilterStep
<1>5. ASSUME NEW i \in Nat, i \in P, i + 1 <= Len(s)
      PROVE  f[i + 1] = g[i + 1]
  <2>1. f[i] = g[i]
    BY <1>1, <1>5
  <2> HIDE DEF P
  <2>2. /\ i + 1 \in 0..Len(s) /\ i + 1 \in 0..Len(t) /\ i + 1 \in 1..Len(s)
        /\ i + 1 # 0 /\ (i + 1) - 1 = i
    BY <1>1, <1>5
  <2>3. f[i + 1] = FilterStep(s, S, f, i + 1) /\ g[i + 1] = FilterStep(t, S, g, i + 1)
    BY <1>2, <1>3, <2>2
  <2> QED
    BY <1>1, <2>1, <2>2, <2>3 DEF FilterStep
<1>6. P = Nat
  <2>1. P \in SUBSET Nat /\ \A i \in P : i + 1 \in P
    BY <1>5
  <2> HIDE DEF P
  <2> QED
    BY <1>4, <2>1, NatSets
<1>7. f[Len(s)] = g[Len(s)]
  BY <1>1, <1>6
<1>8. g[Len(t)] = FilterStep(t, S, g, Len(t)) /\ Len(t) - 1 = Len(s) /\ Len(t) # 0
  BY <1>1, <1>3
<1>9. g[Len(t)] = IF e \in S THEN Append(g[Len(s)], e) ELSE g[Len(s)]
  BY <1>1, <1>8 DEF FilterStep
<1> QED
  BY <1>2, <1>3, <1>7, <1>9 DEF t
=============================================================================
