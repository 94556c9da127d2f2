-------------------------- MODULE Ascending_proofs --------------------------
(***************************************************************************)
(* Lemmas about numbers in ascending order that the proofs of several      *)
(* modules cite. Where they need induction, they take the least number     *)
(* that fails (theorem WFMin of the library).                              *)
(***************************************************************************)
EXTENDS Ascending, FiniteSetsExt, FiniteSetTheorems, FunctionTheorems, WellFoundedInduction, TLAPS

\* A nonempty set of naturals has a least member.
LEMMA LeastOf ==
    ASSUME NEW S \in SUBSET Nat, S # {}
    PROVE  \E m \in S : \A n \in S : m <= n
<1> DEFINE Below == {p \in Nat \X Nat : p[1] < p[2]}
<1>1. IsWellFoundedOn(Below, Nat)
  BY NatLessThanWellFounded DEF OpToRel
<1>2. \E m \in S : \A n \in S : <<n, m>> \notin Below
  BY <1>1, WFMin
<1>3. \A m, n \in Nat : <<n, m>> \in Below <=> n < m
  OBVIOUS
<1> HIDE DEF Below
<1>4. PICK m \in S : \A n \in S : <<n, m>> \notin Below
  BY <1>2
<1>5. ASSUME NEW n \in S
      PROVE  m <= n
  <2>1. m \in Nat /\ n \in Nat
    OBVIOUS
  <2>2. ~(n < m)
    BY <1>3, <1>4, <2>1
  <2>3. QED
    BY <2>1, <2>2
<1>6. QED
  BY <1>5

\* Min of the community modules is the least member.
LEMMA MinOf ==
    ASSUME NEW S \in SUBSET Nat, S # {}
    PROVE  Min(S) \in S /\ \A n \in S : Min(S) <= n
  BY LeastOf DEF Min

\* Max of the community modules is the greatest member of a set that has a bound.
LEMMA MaxOf ==
    ASSUME NEW S \in SUBSET Nat, S # {}, NEW n \in Nat, \A x \in S : x <= n
    PROVE  Max(S) \in S /\ \A x \in S : x <= Max(S)
<1> DEFINE Bounds == {m \in Nat : \A x \in S : x <= m}
<1>1. Bounds \in SUBSET Nat /\ Bounds # {}
  OBVIOUS
<1>2. \A m \in Bounds : m \in Nat /\ \A x \in S : x <= m
  OBVIOUS
<1>3. \A m \in Nat : (\A x \in S : x <= m) => m \in Bounds
  OBVIOUS
<1> HIDE DEF Bounds
<1>4. PICK m \in Bounds : \A k \in Bounds : m <= k
  BY <1>1, LeastOf
<1>5. m \in S
  <2> SUFFICES ASSUME m \notin S PROVE FALSE
    OBVIOUS
  <2>1. PICK x \in S : TRUE
    OBVIOUS
  <2>2. m \in Nat /\ \A y \in S : y <= m - 1
    BY <1>2
  <2>3. m - 1 \in Nat
    BY <1>2, <2>1, <2>2
  <2>4. m - 1 \in Bounds
    BY <1>3, <2>2, <2>3
  <2>5. QED
    BY <1>4, <2>2, <2>4
<1>6. \E x \in S : \A y \in S : x >= y
  BY <1>2, <1>5
<1>7. Max(S) \in S /\ \A y \in S : Max(S) >= y
  BY <1>6 DEF Max
<1>8. QED
  BY <1>7

\* A set of naturals has one ascending list at most.
LEMMA OneList ==
    ASSUME NEW S \in SUBSET Nat, NEW n \in Nat,
           NEW f \in [1..n -> S], \A x \in S : \E i \in 1..n : f[i] = x, Ascends(f),
           NEW g \in [1..n -> S], \A x \in S : \E i \in 1..n : g[i] = x, Ascends(g)
    PROVE  f = g
<1> DEFINE Differ == {i \in 1..n : f[i] # g[i]}
<1>0. ASSUME Differ = {} PROVE f = g
  <2>1. \A i \in 1..n : f[i] = g[i]
    BY <1>0
  <2>2. f = [i \in 1..n |-> f[i]] /\ g = [i \in 1..n |-> g[i]]
    OBVIOUS
  <2>3. QED
    BY <2>1, <2>2
<1>1. SUFFICES ASSUME Differ # {} PROVE FALSE
  BY <1>0
<1>2. PICK i \in Differ : \A j \in Differ : i <= j
  <2>1. Differ \in SUBSET Nat
    OBVIOUS
  <2> HIDE DEF Differ
  <2>2. QED
    BY <1>1, <2>1, LeastOf
<1>3. i \in 1..n /\ f[i] # g[i] /\ \A j \in 1..n : j < i => f[j] = g[j]
  BY <1>2
<1>4. /\ f[i] \in Nat /\ g[i] \in Nat
      /\ \A j \in 1..n : (i < j => f[i] < f[j]) /\ (i < j => g[i] < g[j])
      /\ \A j \in 1..n : (j < i => f[j] < f[i]) /\ (j < i => g[j] < g[i])
      /\ \A j \in 1..n : f[j] \in Nat /\ g[j] \in Nat
  BY <1>3 DEF Ascends
<1>5. CASE f[i] < g[i]
  <2>1. PICK k \in 1..n : g[k] = f[i]
    BY <1>3
  <2>2. CASE k < i
    BY <1>3, <1>4, <2>1, <2>2
  <2>3. CASE k = i
    BY <1>3, <2>1, <2>3
  <2>4. CASE i < k
    BY <1>4, <1>5, <2>1, <2>4
  <2>5. QED
    BY <1>3, <2>2, <2>3, <2>4
<1>6. CASE g[i] < f[i]
  <2>1. PICK k \in 1..n : f[k] = g[i]
    BY <1>3
  <2>2. CASE k < i
    BY <1>3, <1>4, <2>1, <2>2
  <2>3. CASE k = i
    BY <1>3, <2>1, <2>3
  <2>4. CASE i < k
    BY <1>4, <1>6, <2>1, <2>4
  <2>5. QED
    BY <1>3, <2>2, <2>3, <2>4
<1>7. QED
  BY <1>3, <1>4, <1>5, <1>6

\* InOrder is the ascending list, if there is one.
LEMMA InOrderIs ==
    ASSUME NEW S \in SUBSET Nat, NEW n \in Nat,
           NEW f \in [1..n -> S], \A x \in S : \E i \in 1..n : f[i] = x, Ascends(f)
    PROVE  InOrder(S) = f /\ Cardinality(S) = n
<1>1. \A i, j \in 1..n : f[i] = f[j] => i = j
  <2> SUFFICES ASSUME NEW i \in 1..n, NEW j \in 1..n, i # j PROVE f[i] # f[j]
    OBVIOUS
  <2>1. f[i] \in S /\ f[j] \in S
    OBVIOUS
  <2>2. f[i] \in Nat /\ f[j] \in Nat
    BY <2>1
  <2>3. DOMAIN f = 1..n
    OBVIOUS
  <2>4. i < j \/ j < i
    OBVIOUS
  <2>5. f[i] < f[j] \/ f[j] < f[i]
    BY <2>3, <2>4 DEF Ascends
  <2>6. QED
    BY <2>2, <2>5
<1>2. ExistsBijection(1..n, S)
  <2>1. f \in Bijection(1..n, S)
    BY <1>1, Fun_IsBij
  <2>2. QED
    BY <2>1 DEF ExistsBijection
<1>3. Cardinality(S) = n
  BY <1>2, FS_CountingElements
<1>4. Lists(f, S)
  BY <1>3 DEF Lists
<1>5. InOrder(S) \in [1..n -> S] /\ Lists(InOrder(S), S)
  BY <1>3, <1>4 DEF InOrder
<1>6. \A x \in S : \E i \in 1..n : InOrder(S)[i] = x
  BY <1>5 DEF Lists
<1>7. QED
  BY <1>3, <1>5, <1>6, OneList DEF Lists

\* A set of places has an ascending list: a least bound with a set that has none
\* cannot be.
LEMMA ListExists ==
    ASSUME NEW n \in Nat, NEW S \in SUBSET (1..n)
    PROVE  \E k \in Nat : \E f \in [1..k -> S] : (\A x \in S : \E i \in 1..k : f[i] = x) /\ Ascends(f)
<1> DEFINE Listed(T) == \E k \in Nat : \E f \in [1..k -> T] :
                            (\A x \in T : \E i \in 1..k : f[i] = x) /\ Ascends(f)
           Bad == {m \in Nat : \E T \in SUBSET (1..m) : ~Listed(T)}
<1>1. SUFFICES ASSUME Bad # {} PROVE FALSE
  <2>1. ASSUME Bad = {} PROVE Listed(S)
    BY <2>1
  <2>2. QED
    BY <2>1
<1>2. PICK m \in Bad : \A b \in Bad : m <= b
  <2>1. Bad \in SUBSET Nat
    OBVIOUS
  <2> HIDE DEF Bad
  <2>2. QED
    BY <1>1, <2>1, LeastOf
<1>3. PICK T \in SUBSET (1..m) : ~Listed(T)
  BY <1>2
<1>4. m \in Nat
  BY <1>2
<1>5. \A b \in Nat : b < m => b \notin Bad
  <2> HIDE DEF Bad
  <2>1. QED
    BY <1>2, <1>4
<1>6. m # 0
  <2>1. ASSUME m = 0 PROVE FALSE
    <3>1. T = {}
      BY <2>1
    <3> DEFINE e == [i \in 1..0 |-> 0]
    <3>2. e \in [1..0 -> T] /\ (\A x \in T : \E i \in 1..0 : e[i] = x) /\ Ascends(e)
      BY <3>1 DEF Ascends
    <3>3. Listed(T)
      BY <3>2
    <3>4. QED
      BY <1>3, <3>3
  <2>2. QED
    BY <2>1
<1>7. m - 1 \in Nat /\ m - 1 < m
  BY <1>4, <1>6
<1>8. \A U \in SUBSET (1..(m - 1)) : Listed(U)
  <2>1. m - 1 \notin Bad
    BY <1>5, <1>7
  <2> HIDE DEF Listed
  <2>2. QED
    BY <1>7, <2>1
<1>9. T \ {m} \in SUBSET (1..(m - 1))
  BY <1>4, <1>7
<1>10. PICK k \in Nat : \E g \in [1..k -> T \ {m}] :
           (\A x \in T \ {m} : \E i \in 1..k : g[i] = x) /\ Ascends(g)
  BY <1>8, <1>9
<1>11. PICK g \in [1..k -> T \ {m}] : (\A x \in T \ {m} : \E i \in 1..k : g[i] = x) /\ Ascends(g)
  BY <1>10
<1> HIDE DEF Bad
<1>12. CASE m \notin T
  <2>1. T \ {m} = T
    BY <1>12
  <2>2. QED
    BY <1>3, <1>11, <2>1
<1>13. CASE m \in T
  <2> DEFINE f == [i \in 1..(k + 1) |-> IF i <= k THEN g[i] ELSE m]
  <2>1. \A i \in 1..k : i \in 1..(k + 1) /\ f[i] = g[i] /\ g[i] \in T \ {m}
    OBVIOUS
  <2>2. k + 1 \in 1..(k + 1) /\ f[k + 1] = m /\ \A i \in 1..(k + 1) : i \in 1..k \/ i = k + 1
    OBVIOUS
  <2>3. DOMAIN f = 1..(k + 1) /\ DOMAIN g = 1..k
    OBVIOUS
  <2>4. f \in [1..(k + 1) -> T]
    BY <1>13
  <2> HIDE DEF f
  <2>5. \A x \in T : \E i \in 1..(k + 1) : f[i] = x
    BY <1>11, <2>1, <2>2
  <2>6. Ascends(f)
    <3> SUFFICES ASSUME NEW i \in 1..(k + 1), NEW j \in 1..(k + 1), i < j PROVE f[i] < f[j]
      BY <2>3 DEF Ascends
    <3>1. i \in 1..k
      OBVIOUS
    <3>2. CASE j \in 1..k
      BY <1>11, <2>1, <2>3, <3>1, <3>2 DEF Ascends
    <3>3. CASE j = k + 1
      <4>1. g[i] \in 1..(m - 1)
        BY <1>9, <2>1, <3>1
      <4>2. QED
        BY <1>4, <2>1, <2>2, <3>1, <3>3, <4>1
    <3>4. QED
      BY <2>2, <3>2, <3>3
  <2>7. k + 1 \in Nat
    OBVIOUS
  <2>8. QED
    BY <1>3, <2>4, <2>5, <2>6, <2>7
<1>14. QED
  BY <1>12, <1>13

\* So InOrder lists every set of places.
LEMMA InOrderLists ==
    ASSUME NEW n \in Nat, NEW S \in SUBSET (1..n)
    PROVE  /\ Cardinality(S) \in Nat
           /\ InOrder(S) \in [1..Cardinality(S) -> S]
           /\ \A x \in S : \E i \in 1..Cardinality(S) : InOrder(S)[i] = x
           /\ Ascends(InOrder(S))
<1>1. PICK k \in Nat : \E f \in [1..k -> S] : (\A x \in S : \E i \in 1..k : f[i] = x) /\ Ascends(f)
  BY ListExists
<1>2. PICK f \in [1..k -> S] : (\A x \in S : \E i \in 1..k : f[i] = x) /\ Ascends(f)
  BY <1>1
<1>3. S \in SUBSET Nat
  OBVIOUS
<1>4. InOrder(S) = f /\ Cardinality(S) = k
  BY <1>2, <1>3, InOrderIs
<1>5. QED
  BY <1>2, <1>4

=============================================================================
