-------------------------- MODULE SortedSetsProofs --------------------------
(***************************************************************************)
(* Facts about Ascending, and the principles that take the place of        *)
(* induction where a proof needs one.                                      *)
(***************************************************************************)
EXTENDS SortedSets, FiniteSetTheorems, NaturalsInduction, SequenceTheorems,
        WellFoundedInduction, TLAPS

\* A set of naturals that is not empty has a least element.
LEMMA LeastNatural ==
  ASSUME NEW T, T \subseteq Nat, T # {}
  PROVE  \E x \in T : \A y \in T : x <= y
  <1>1. PICK x \in T : \A y \in T : <<y, x>> \notin OpToRel(<, Nat)
    BY WFMin, NatLessThanWellFounded, Zenon
  <1>2. \A y \in T : ~ (y < x)
    BY <1>1, Zenon DEF OpToRel
  <1> QED BY <1>2

(* The values of a loop over 1..N that starts from `first' and takes F[n]  *)
(* in its round n.                                                         *)
Iterated(N, S, first, F) ==
  CHOOSE f \in [0..N -> S] : f[0] = first /\ \A n \in 1..N : f[n] = F[n][f[n - 1]]

\* A loop has such values: what a function defined by recursion up to N needs in
\* order to exist.
LEMMA Recursion ==
  ASSUME NEW N \in Nat, NEW S, NEW first \in S, NEW F \in [1..N -> [S -> S]]
  PROVE  /\ Iterated(N, S, first, F) \in [0..N -> S]
         /\ Iterated(N, S, first, F)[0] = first
         /\ \A n \in 1..N : Iterated(N, S, first, F)[n] = F[n][Iterated(N, S, first, F)[n - 1]]
  <1> DEFINE Good(m) == \E f \in [0..m -> S] :
                          f[0] = first /\ \A n \in 1..m : f[n] = F[n][f[n - 1]]
  <1>1. Good(0)
    <2> DEFINE g == [n \in 0..0 |-> first]
    <2>1. g \in [0..0 -> S] /\ g[0] = first
      OBVIOUS
    <2> HIDE DEF g
    <2> QED BY <2>1
  <1>2. ASSUME NEW m \in Nat, m < N, Good(m) PROVE Good(m + 1)
    <2>1. PICK f \in [0..m -> S] : f[0] = first /\ \A n \in 1..m : f[n] = F[n][f[n - 1]]
      BY <1>2
    <2> DEFINE g == [n \in 0..(m + 1) |-> IF n = m + 1 THEN F[n][f[m]] ELSE f[n]]
    <2>2. F[m + 1] \in [S -> S] /\ f[m] \in S
      BY <1>2
    <2>3. g \in [0..(m + 1) -> S]
      BY <2>2
    <2>4. \A n \in 0..m : g[n] = f[n]
      OBVIOUS
    <2>5. g[m + 1] = F[m + 1][g[m]]
      BY <2>4
    <2> HIDE DEF g
    <2>6. \A n \in 1..(m + 1) : g[n] = F[n][g[n - 1]]
      <3> TAKE n \in 1..(m + 1)
      <3>1. CASE n = m + 1
        BY <2>5, <3>1
      <3>2. CASE n # m + 1
        <4>1. n \in 1..m /\ n \in 0..m /\ n - 1 \in 0..m
          BY <3>2
        <4> QED BY <2>1, <2>4, <4>1
      <3> QED BY <3>1, <3>2
    <2>7. g[0] = first
      BY <2>1, <2>4
    <2> QED BY <2>3, <2>6, <2>7
  <1> HIDE DEF Good
  <1>3. SUFFICES ASSUME ~ Good(N) PROVE FALSE
    <2> USE DEF Good
    <2>1. SUFFICES ASSUME Good(N)
                   PROVE  /\ Iterated(N, S, first, F) \in [0..N -> S]
                          /\ Iterated(N, S, first, F)[0] = first
                          /\ \A n \in 1..N : Iterated(N, S, first, F)[n]
                                               = F[n][Iterated(N, S, first, F)[n - 1]]
      OBVIOUS
    <2> DEFINE P(f) == f \in [0..N -> S] /\ f[0] = first /\ \A n \in 1..N : f[n] = F[n][f[n - 1]]
               g == CHOOSE f \in [0..N -> S] : f[0] = first /\ \A n \in 1..N : f[n] = F[n][f[n - 1]]
    <2>2. g = Iterated(N, S, first, F)
      BY DEF Iterated
    <2>3. P(g)
      BY <2>1
    <2> HIDE DEF g
    <2> QED BY <2>2, <2>3
  <1> DEFINE Bad == {m \in 0..N : ~ Good(m)}
  <1>4. PICK m \in Bad : \A k \in Bad : m <= k
    <2>1. Bad \in SUBSET Nat /\ Bad # {}
      BY <1>3
    <2> HIDE DEF Bad
    <2> QED BY <2>1, LeastNatural
  <1>5. m \in 1..N /\ ~ Good(m)
    BY <1>1, <1>4
  <1>6. Good(m - 1)
    <2>1. m - 1 \in 0..N /\ ~ (m <= m - 1)
      BY <1>5
    <2> QED BY <1>4, <2>1
  <1> QED BY <1>2, <1>5, <1>6

Rank(S, i) == Cardinality({j \in S : j <= i})

\* The rank of an element is its place in the order, and every place is taken.
LEMMA RankIsPlace ==
  ASSUME NEW S \in SUBSET Int, IsFiniteSet(S)
  PROVE  /\ Cardinality(S) \in Nat
         /\ \A i \in S : Rank(S, i) \in 1..Cardinality(S)
         /\ \A i, j \in S : i < j <=> Rank(S, i) < Rank(S, j)
         /\ \A k \in 1..Cardinality(S) : \E i \in S : Rank(S, i) = k
  <1> DEFINE Upto(i) == {j \in S : j <= i}
             rank == [i \in S |-> Cardinality(Upto(i))]
  <1>0. \A i \in S : Rank(S, i) = Cardinality(Upto(i))
    BY DEF Rank
  <1>1. ASSUME NEW i \in S
        PROVE  /\ IsFiniteSet(Upto(i)) /\ Cardinality(Upto(i)) \in Nat
               /\ Cardinality(Upto(i)) <= Cardinality(S) /\ Cardinality(Upto(i)) >= 1
    <2>1. Upto(i) \in SUBSET S /\ i \in Upto(i)
      OBVIOUS
    <2>2. Upto(i) # {}
      BY <2>1
    <2> HIDE DEF Upto
    <2> QED BY <2>1, <2>2, FS_Subset, FS_CardinalityType, FS_EmptySet
  <1>3. ASSUME NEW i \in S, NEW j \in S, i < j
        PROVE  Cardinality(Upto(i)) < Cardinality(Upto(j))
    <2>1. Upto(i) \in SUBSET Upto(j)
      <3>1. i \in Int /\ j \in Int /\ \A k \in S : k \in Int
        OBVIOUS
      <3>2. \A k \in S : k <= i => k <= j
        BY <1>3, <3>1
      <3> QED BY <3>2
    <2>2. j \in Upto(j) /\ j \notin Upto(i)
      BY <1>3
    <2>3. Upto(i) # Upto(j)
      BY <2>2
    <2> HIDE DEF Upto
    <2> QED BY <2>1, <2>3, <1>1, FS_Subset
  <1>4. Cardinality(S) \in Nat
    BY FS_CardinalityType
  <1> HIDE DEF Upto
  <1>5. rank \in [S -> 1..Cardinality(S)]
    BY <1>1, <1>4
  <1>6. \A i, j \in S : i < j <=> rank[i] < rank[j]
    BY <1>3, <1>1
  <1>7. rank \in Injection(S, 1..Cardinality(S))
    BY <1>5, <1>6 DEF Injection, IsInjective
  <1>8. IsFiniteSet(1..Cardinality(S)) /\ Cardinality(1..Cardinality(S)) = Cardinality(S)
    BY <1>4, FS_Interval
  <1>9. rank \in Surjection(S, 1..Cardinality(S))
    BY <1>7, <1>8, FS_Injection
  <1>10. \A k \in 1..Cardinality(S) : \E i \in S : rank[i] = k
    <2> HIDE DEF rank
    <2> QED BY <1>9 DEF Surjection
  <1>11. \A i \in S : rank[i] = Rank(S, i)
    BY <1>0
  <1> HIDE DEF rank
  <1> QED BY <1>4, <1>5, <1>6, <1>10, <1>11

\* A sequence that increases has no element twice.
LEMMA IncreasesOnce ==
  ASSUME NEW n \in Nat, NEW s \in [1..n -> Int], Increases(s)
  PROVE  /\ \A a, b \in 1..n : s[a] = s[b] => a = b
         /\ \A a, b \in 1..n : s[a] < s[b] <=> a < b
  <1> SUFFICES ASSUME NEW a \in 1..n, NEW b \in 1..n
               PROVE  (s[a] = s[b] => a = b) /\ (s[a] < s[b] <=> a < b)
    OBVIOUS
  <1>1. s[a] \in Int /\ s[b] \in Int
    OBVIOUS
  <1>2. (a < b => s[a] < s[b]) /\ (b < a => s[b] < s[a])
    BY DEF Increases
  <1> QED BY <1>1, <1>2

\* Ascending lists a finite set of integers in order: every element, once.
LEMMA AscendingLists ==
  ASSUME NEW S \in SUBSET Int, IsFiniteSet(S)
  PROVE  /\ Cardinality(S) \in Nat
         /\ Ascending(S) \in [1..Cardinality(S) -> S]
         /\ Increases(Ascending(S))
         /\ \A i \in S : \E k \in 1..Cardinality(S) : Ascending(S)[k] = i
  <1> DEFINE n == Cardinality(S)
             at == [k \in 1..n |-> CHOOSE i \in S : Rank(S, i) = k]
  <1>1. /\ n \in Nat
        /\ \A i \in S : Rank(S, i) \in 1..n
        /\ \A i, j \in S : i < j <=> Rank(S, i) < Rank(S, j)
        /\ \A k \in 1..n : \E i \in S : Rank(S, i) = k
    BY RankIsPlace
  <1>2. \A k \in 1..n : at[k] \in S /\ Rank(S, at[k]) = k
    BY <1>1
  <1>3. at \in [1..n -> S] /\ Increases(at)
    <2>1. at \in [1..n -> S]
      BY <1>2
    <2> HIDE DEF at
    <2> QED BY <1>1, <1>2, <2>1 DEF Increases
  <1>4. Ascending(S) \in [1..n -> S] /\ Increases(Ascending(S))
    <2> HIDE DEF at
    <2> QED BY <1>3 DEF Ascending
  <1> HIDE DEF at
  <1>5. Ascending(S) \in Injection(1..n, S)
    <2> DEFINE s == Ascending(S)
    <2> HIDE DEF s
    <2>1. s \in [1..n -> S] /\ Increases(s)
      BY <1>4 DEF s
    <2>2. \A a, b \in 1..n : s[a] = s[b] => a = b
      <3>1. s \in [1..n -> Int]
        BY <2>1
      <3> QED BY <2>1, <3>1, <1>1, IncreasesOnce
    <2>3. s \in Injection(1..n, S)
      BY <2>1, <2>2 DEF Injection, IsInjective
    <2> QED BY <2>3 DEF s
  <1>6. IsFiniteSet(1..n) /\ Cardinality(1..n) = n
    BY <1>1, FS_Interval
  <1>7. Ascending(S) \in Surjection(1..n, S)
    BY <1>5, <1>6, FS_Injection
  <1> QED BY <1>1, <1>4, <1>7 DEF Surjection

\* There is no other such list.
LEMMA AscendingUnique ==
  ASSUME NEW S \in SUBSET Int, IsFiniteSet(S),
         NEW n \in Nat, NEW s \in [1..n -> S], Increases(s),
         \A i \in S : \E k \in 1..n : s[k] = i
  PROVE  n = Cardinality(S) /\ s = Ascending(S)
  <1>1. ASSUME NEW m \in Nat, NEW t \in [1..m -> S], Increases(t),
               \A i \in S : \E k \in 1..m : t[k] = i, NEW k \in 1..m
        PROVE  k = Rank(S, t[k])
    <2> DEFINE first == [a \in 1..k |-> t[a]]
               Upto == {j \in S : j <= t[k]}
    <2>0. t \in [1..m -> Int]
      BY <1>1
    <2>1. first \in [1..k -> Upto] /\ \A a, b \in 1..k : first[a] = first[b] => a = b
      <3>1. \A a \in 1..k : a \in 1..m /\ t[a] \in S /\ t[a] \in Int
        BY <1>1, <2>0
      <3>2. \A a \in 1..k : a = k \/ t[a] < t[k]
        BY <1>1, <2>0, <3>1 DEF Increases
      <3>3. \A a \in 1..k : t[a] <= t[k]
        BY <3>1, <3>2
      <3>4. \A a, b \in 1..m : t[a] = t[b] => a = b
        BY <1>1, <2>0, IncreasesOnce
      <3> QED BY <3>1, <3>3, <3>4
    <2>2. ASSUME NEW j \in Upto PROVE \E a \in 1..k : first[a] = j
      <3>1. PICK a \in 1..m : t[a] = j
        BY <1>1
      <3>2. ~ (k < a)
        <4>1. j \in Int /\ t[k] \in Int /\ j <= t[k]
          BY <2>0
        <4>2. k < a => t[k] < t[a]
          BY <1>1 DEF Increases
        <4> QED BY <3>1, <4>1, <4>2
      <3> QED BY <3>1, <3>2
    <2>3. first \in Bijection(1..k, Upto)
      BY <2>1, <2>2 DEF Bijection, Injection, Surjection, IsInjective
    <2>4. IsFiniteSet(1..k) /\ Cardinality(1..k) = k
      BY FS_Interval
    <2>5. Cardinality(Upto) = k
      <3> HIDE DEF first, Upto
      <3> QED BY <2>3, <2>4, FS_Bijection DEF ExistsBijection
    <2> QED BY <2>5 DEF Rank
  <1>2. n = Cardinality(S)
    <2>1. s \in Bijection(1..n, S)
      <3>1. \A a, b \in 1..n : s[a] = s[b] => a = b
        <4>1. s \in [1..n -> Int]
          OBVIOUS
        <4> QED BY <4>1, IncreasesOnce
      <3> QED BY <3>1 DEF Bijection, Injection, Surjection, IsInjective
    <2>2. IsFiniteSet(1..n) /\ Cardinality(1..n) = n
      BY FS_Interval
    <2> QED BY <2>1, <2>2, FS_Bijection DEF ExistsBijection
  <1> DEFINE t == Ascending(S)
  <1>3. t \in [1..n -> S] /\ Increases(t) /\ \A i \in S : \E k \in 1..n : t[k] = i
    BY <1>2, AscendingLists
  <1> HIDE DEF t
  <1>4. ASSUME NEW k \in 1..n PROVE s[k] = t[k]
    <2>1. Rank(S, s[k]) = k /\ Rank(S, t[k]) = k
      BY <1>1, <1>3
    <2>2. \A i, j \in S : i < j <=> Rank(S, i) < Rank(S, j)
      BY RankIsPlace
    <2>3. s[k] \in S /\ t[k] \in S /\ s[k] \in Int /\ t[k] \in Int
      BY <1>3
    <2>4. ~ (s[k] < t[k]) /\ ~ (t[k] < s[k])
      <3>1. Rank(S, s[k]) < Rank(S, t[k]) <=> k < k
        BY <2>1
      <3>2. Rank(S, t[k]) < Rank(S, s[k]) <=> k < k
        BY <2>1
      <3> QED BY <2>2, <2>3, <3>1, <3>2
    <2> QED BY <2>3, <2>4
  <1> QED BY <1>2, <1>3, <1>4 DEF t

\* A new largest element goes to the end.
LEMMA AscendingAppend ==
  ASSUME NEW S \in SUBSET Int, IsFiniteSet(S), NEW x \in Int, \A i \in S : i < x
  PROVE  Ascending(S \cup {x}) = Append(Ascending(S), x)
  <1> DEFINE n == Cardinality(S)
             t == Ascending(S)
             s == [k \in 1..(n + 1) |-> IF k <= n THEN t[k] ELSE x]
             U == S \cup {x}
  <1>1. n \in Nat /\ t \in [1..n -> S] /\ Increases(t) /\ \A i \in S : \E k \in 1..n : t[k] = i
    BY AscendingLists
  <1>2. U \in SUBSET Int /\ IsFiniteSet(U)
    BY FS_AddElement
  <1> HIDE DEF t, n
  <1>3. Append(t, x) = s
    <2>1. t \in Seq(U) /\ Len(t) = n /\ x \in U
      BY <1>1
    <2> HIDE DEF U
    <2>2. /\ Append(t, x) \in Seq(U) /\ Len(Append(t, x)) = n + 1
          /\ \A k \in 1..n : Append(t, x)[k] = t[k]
          /\ Append(t, x)[n + 1] = x
      BY <2>1, AppendProperties
    <2>3. Append(t, x) \in [1..(n + 1) -> U]
      BY <2>2, LenProperties
    <2>4. \A k \in 1..(n + 1) : Append(t, x)[k] = s[k]
      BY <1>1, <2>2
    <2> QED BY <2>3, <2>4
  <1>4. s \in [1..(n + 1) -> U]
    BY <1>1
  <1>5. Increases(s)
    <2> SUFFICES ASSUME NEW a \in 1..(n + 1), NEW b \in 1..(n + 1), a < b PROVE s[a] < s[b]
      BY <1>4 DEF Increases
    <2>0. a \in 1..n
      BY <1>1
    <2>1. s[a] = t[a] /\ t[a] \in S
      BY <1>1, <2>0
    <2>9. t[a] < x /\ t[a] \in Int
      BY <2>1
    <2>2. CASE b <= n
      BY <1>1, <2>0, <2>1, <2>2 DEF Increases
    <2>3. CASE b = n + 1
      BY <1>1, <2>1, <2>9, <2>3
    <2> QED BY <1>1, <2>2, <2>3
  <1>6. \A i \in U : \E k \in 1..(n + 1) : s[k] = i
    <2>1. s[n + 1] = x /\ n + 1 \in 1..(n + 1)
      BY <1>1
    <2>2. \A k \in 1..n : s[k] = t[k] /\ k \in 1..(n + 1)
      BY <1>1
    <2> HIDE DEF s
    <2> QED BY <1>1, <2>1, <2>2
  <1> HIDE DEF s, U
  <1>7. s = Ascending(U)
    BY <1>1, <1>2, <1>4, <1>5, <1>6, AscendingUnique
  <1> QED BY <1>3, <1>7 DEF t, U
=============================================================================
