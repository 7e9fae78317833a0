---------------------------- MODULE NumberLemmas ----------------------------
(* Facts about numbers that the proofs need.  Every non-empty set of naturals *)
(* has a least element, a finite one a greatest, which is FiniteSetsExt's Max; *)
(* and the sum of a function, Functions' SumFunction, does not depend on the   *)
(* order in which it is taken.  The library's induction theorems take a        *)
(* predicate as a parameter and cannot be used: the proofs take a minimal      *)
(* element of a well-founded relation instead.                                 *)
EXTENDS Integers, FiniteSetsExt, Functions, FiniteSetTheorems, WellFoundedInduction, TLAPS

Below == {ss \in Nat \X Nat : ss[1] < ss[2]}

\* A set of naturals has a least element.
LEMMA LeastNumber ==
    ASSUME NEW S \in SUBSET Nat, S # {}
    PROVE  \E m \in S : \A n \in S : m <= n
<1>1. IsWellFoundedOn(Below, Nat)
  BY NatLessThanWellFounded DEF OpToRel, Below
<1>2. PICK m \in S : \A n \in S : <<n, m>> \notin Below
  BY <1>1, WFMin
<1>3. \A n \in S : ~(n < m)
  BY <1>2 DEF Below
<1>4. \A n \in S : m <= n
  <2> TAKE n \in S
  <2>1. m \in Nat /\ n \in Nat
    OBVIOUS
  <2> QED BY <1>3, <2>1
<1> QED BY <1>4

\* The maximum of a finite set of naturals is in it, and nothing in it is larger:
\* it is the element with the fewest elements above it.
LEMMA MaxOfNaturals ==
    ASSUME NEW S \in SUBSET Nat, IsFiniteSet(S), S # {}
    PROVE  Max(S) \in S /\ \A n \in S : n <= Max(S)
<1> DEFINE Above(x) == {y \in S : y > x}
           T == {U \in SUBSET S : \E x \in S : U = Above(x)}
<1>1. T \subseteq FiniteSubsetsOf(S) /\ T # {}
  <2>1. \A U \in SUBSET S : IsFiniteSet(U)
    BY FS_Subset
  <2>2. PICK x \in S : TRUE
    OBVIOUS
  <2>3. Above(x) \in T
    OBVIOUS
  <2> QED BY <2>1, <2>3 DEF FiniteSubsetsOf
<1>2. PICK U \in T : \A V \in T : <<V, U>> \notin StrictSubsetOrdering(S)
  <2> HIDE DEF T
  <2> QED BY <1>1, FS_StrictSubsetOrderingWellFounded, WFMin
<1>3. PICK x \in S : U = Above(x)
  OBVIOUS
<1>4. ASSUME NEW y \in S, y > x PROVE FALSE
  <2>1. Above(y) \in T
    OBVIOUS
  <2>2. Above(y) \subseteq Above(x)
    <3>1. x \in Nat /\ y \in Nat /\ S \subseteq Nat
      OBVIOUS
    <3>2. ASSUME NEW z \in S, z > y PROVE z > x
      BY <1>4, <3>1, <3>2
    <3> QED BY <3>2
  <2>3. y \in Above(x) /\ y \notin Above(y)
    BY <1>4
  <2> QED BY <2>1, <2>2, <2>3, <1>2, <1>3 DEF StrictSubsetOrdering
<1>5. \A y \in S : x >= y
  <2> TAKE y \in S
  <2>1. x \in Nat /\ y \in Nat
    OBVIOUS
  <2> QED BY <1>4, <2>1
<1> QED BY <1>5 DEF Max

-----------------------------------------------------------------------------
(* Sums.                                                                     *)

\* G gives the sum of f over each subset of S, whichever element is taken first.
IsMeasure(G, f, S) ==
    /\ G \in [SUBSET S -> Nat] /\ G[{}] = 0
    /\ \A T \in SUBSET S : \A x \in T : G[T] = f[x] + G[T \ {x}]

\* A set of finite subsets has a minimal one.
LEMMA SmallestSubset ==
    ASSUME NEW S, IsFiniteSet(S), NEW W \in SUBSET SUBSET S, W # {}
    PROVE  \E T \in W : \A U \in W : ~(U \subseteq T /\ U # T)
<1>1. W \subseteq FiniteSubsetsOf(S)
  BY FS_Subset DEF FiniteSubsetsOf
<1>2. PICK T \in W : \A U \in W : <<U, T>> \notin StrictSubsetOrdering(S)
  BY <1>1, FS_StrictSubsetOrderingWellFounded, WFMin
<1> QED BY <1>2 DEF StrictSubsetOrdering

\* A measure of a set less an element, and the value of that element, give a measure
\* of the set.
LEMMA MeasureGrows ==
    ASSUME NEW S, NEW f \in [S -> Nat], NEW z \in S, NEW H, IsMeasure(H, f, S \ {z})
    PROVE  \E G : IsMeasure(G, f, S)
<1> DEFINE G == [T \in SUBSET S |-> H[T \ {z}] + IF z \in T THEN f[z] ELSE 0]
<1>1. \A T \in SUBSET S : T \ {z} \in SUBSET (S \ {z}) /\ H[T \ {z}] \in Nat
  BY DEF IsMeasure
<1>2. G \in [SUBSET S -> Nat] /\ G[{}] = 0
  <2>1. {} \ {z} = {} /\ H[{}] = 0 /\ {} \in SUBSET S
    BY DEF IsMeasure
  <2>2. f[z] \in Nat
    OBVIOUS
  <2>3. \A T \in SUBSET S : H[T \ {z}] + (IF z \in T THEN f[z] ELSE 0) \in Nat
    <3> TAKE T \in SUBSET S
    <3>1. \A k, l \in Nat : k + l \in Nat
      OBVIOUS
    <3>2. H[T \ {z}] \in Nat /\ (IF z \in T THEN f[z] ELSE 0) \in Nat
      BY <1>1, <2>2
    <3> QED BY <3>1, <3>2
  <2>4. G[{}] = H[{} \ {z}] + 0
    BY <2>1
  <2>5. G[{}] = 0
    BY <2>1, <2>4
  <2> QED BY <2>3, <2>5
<1>3. ASSUME NEW T \in SUBSET S, NEW x \in T PROVE G[T] = f[x] + G[T \ {x}]
  <2>1. G[T] = H[T \ {z}] + (IF z \in T THEN f[z] ELSE 0)
    OBVIOUS
  <2>2. G[T \ {x}] = H[(T \ {x}) \ {z}] + (IF z \in T \ {x} THEN f[z] ELSE 0)
    OBVIOUS
  <2> HIDE DEF G
  <2>3. CASE x = z
    <3>1. (T \ {x}) \ {z} = T \ {z} /\ z \in T /\ z \notin T \ {x}
      BY <2>3
    <3>2. f[z] \in Nat /\ H[T \ {z}] \in Nat
      BY <1>1
    <3>3. G[T] = H[T \ {z}] + f[z]
      BY <2>1, <3>1
    <3>4. G[T \ {x}] = H[T \ {z}] + 0
      BY <2>2, <3>1
    <3> QED BY <2>3, <3>2, <3>3, <3>4
  <2>4. CASE x # z
    <3>1. x \in T \ {z} /\ (T \ {x}) \ {z} = (T \ {z}) \ {x} /\ (z \in T <=> z \in T \ {x})
      BY <2>4
    <3>2. H[T \ {z}] = f[x] + H[(T \ {z}) \ {x}]
      BY <1>1, <3>1 DEF IsMeasure
    <3>3. f[x] \in Nat /\ f[z] \in Nat /\ H[(T \ {x}) \ {z}] \in Nat
      BY <1>1
    <3> QED BY <2>1, <2>2, <3>1, <3>2, <3>3
  <2> QED BY <2>3, <2>4
<1> HIDE DEF G
<1>4. IsMeasure(G, f, S)
  BY <1>2, <1>3 DEF IsMeasure
<1> QED BY <1>4

\* Every finite set has a measure: a smallest subset without one cannot be.
LEMMA MeasureExists ==
    ASSUME NEW S, IsFiniteSet(S), NEW f \in [S -> Nat]
    PROVE  \E G : IsMeasure(G, f, S)
<1> DEFINE W == {T \in SUBSET S : \A G : ~IsMeasure(G, f, T)}
<1>1. SUFFICES ASSUME S \in W PROVE FALSE
  OBVIOUS
<1>2. PICK T \in W : \A U \in W : ~(U \subseteq T /\ U # T)
  <2>1. W \in SUBSET SUBSET S /\ W # {}
    BY <1>1
  <2> HIDE DEF W
  <2> QED BY <2>1, SmallestSubset
<1>3. T # {}
  <2>1. IsMeasure([U \in SUBSET {} |-> 0], f, {})
    BY DEF IsMeasure
  <2> QED BY <2>1
<1>4. PICK z \in T : TRUE
  BY <1>3
<1>5. T \ {z} \notin W
  BY <1>2
<1>6. PICK H : IsMeasure(H, f, T \ {z})
  BY <1>5
<1>7. PICK g \in [T -> Nat] : \A x \in T : g[x] = f[x]
  <2>1. [x \in T |-> f[x]] \in [T -> Nat]
    OBVIOUS
  <2> QED BY <2>1
<1>8. IsMeasure(H, g, T \ {z})
  BY <1>6, <1>7 DEF IsMeasure
<1>9. PICK G : IsMeasure(G, g, T)
  BY <1>7, <1>8, MeasureGrows
<1>10. IsMeasure(G, f, T)
  BY <1>7, <1>9 DEF IsMeasure
<1> QED BY <1>10

\* The sum of a function is what its measure says.
LEMMA SumIsMeasure ==
    ASSUME NEW S, IsFiniteSet(S), NEW f \in [S -> Nat], NEW G, IsMeasure(G, f, S)
    PROVE  SumFunction(f) = G[S] /\ SumFunction(f) \in Nat
<1> DEFINE First(T) == CHOOSE x \in T : TRUE
           Fold(F) == [T \in SUBSET S |-> IF T = {} THEN 0 ELSE f[First(T)] + F[T \ {First(T)}]]
           It == CHOOSE F : F = Fold(F)
<1>1. \A T \in SUBSET S : T # {} => First(T) \in T
  OBVIOUS
<1>2. SumFunction(f) = It[S]
  BY DEF SumFunction, SumFunctionOnSet, FoldFunctionOnSet, MapThenFoldSet
<1>3. G = Fold(G)
  <2>1. DOMAIN G = SUBSET S /\ G = [T \in SUBSET S |-> G[T]]
    BY DEF IsMeasure
  <2>2. \A T \in SUBSET S : G[T] = IF T = {} THEN 0 ELSE f[First(T)] + G[T \ {First(T)}]
    <3> HIDE DEF First
    <3> QED BY <1>1 DEF IsMeasure
  <2> HIDE DEF First
  <2> QED BY <2>1, <2>2
<1>4. It = Fold(It)
  <2> HIDE DEF Fold
  <2> QED BY <1>3
<1> HIDE DEF It, First
<1>5. \A T \in SUBSET S : It[T] = IF T = {} THEN 0 ELSE f[First(T)] + It[T \ {First(T)}]
  BY <1>4
<1>6. \A T \in SUBSET S : It[T] = G[T]
  <2> DEFINE W == {T \in SUBSET S : It[T] # G[T]}
  <2>1. SUFFICES ASSUME W # {} PROVE FALSE
    OBVIOUS
  <2>2. PICK T \in W : \A U \in W : ~(U \subseteq T /\ U # T)
    <3>1. W \in SUBSET SUBSET S
      OBVIOUS
    <3> HIDE DEF W
    <3> QED BY <2>1, <3>1, SmallestSubset
  <2>3. T # {}
    BY <1>5 DEF IsMeasure
  <2>4. PICK x : x = First(T) /\ x \in T
    BY <1>1, <2>3
  <2>5. T \ {x} \notin W /\ T \ {x} \in SUBSET S
    BY <2>2, <2>4
  <2>6. It[T \ {x}] = G[T \ {x}]
    BY <2>5
  <2>7. It[T] = f[x] + It[T \ {x}]
    BY <1>5, <2>3, <2>4
  <2>8. G[T] = f[x] + G[T \ {x}]
    BY <2>4 DEF IsMeasure
  <2> QED BY <2>6, <2>7, <2>8
<1> QED BY <1>2, <1>6 DEF IsMeasure

\* The sum of naturals is a natural.
LEMMA SumTyped ==
    ASSUME NEW S, IsFiniteSet(S), NEW f \in [S -> Nat]
    PROVE  SumFunction(f) \in Nat
BY MeasureExists, SumIsMeasure

\* Nothing added up is nothing.
LEMMA SumOfZeros ==
    ASSUME NEW S, IsFiniteSet(S), NEW f \in [S -> Nat], \A x \in S : f[x] = 0
    PROVE  SumFunction(f) = 0
<1> DEFINE G == [T \in SUBSET S |-> 0]
<1>1. IsMeasure(G, f, S)
  BY DEF IsMeasure
<1>2. G[S] = 0
  OBVIOUS
<1> HIDE DEF G
<1> QED BY <1>1, <1>2, SumIsMeasure

\* One value that grows lets the sum grow by as much.
LEMMA SumGrows ==
    ASSUME NEW S, IsFiniteSet(S), NEW f \in [S -> Nat], NEW z \in S, NEW d \in Nat
    PROVE  SumFunction([f EXCEPT ![z] = f[z] + d]) = SumFunction(f) + d
<1> DEFINE h == [f EXCEPT ![z] = f[z] + d]
<1>a. f[z] + d \in Nat
  OBVIOUS
<1>b. h \in [S -> Nat] /\ h[z] = f[z] + d /\ \A x \in S \ {z} : h[x] = f[x]
  BY <1>a
<1> HIDE DEF h
<1> PICK g \in [S -> Nat] : g = h
  BY <1>b
<1>0. g[z] = f[z] + d /\ \A x \in S \ {z} : g[x] = f[x]
  BY <1>b
<1>1. PICK G : IsMeasure(G, f, S)
  BY MeasureExists
<1> DEFINE H == [T \in SUBSET S |-> G[T] + IF z \in T THEN d ELSE 0]
<1>2. \A T \in SUBSET S : G[T] \in Nat
  BY <1>1 DEF IsMeasure
<1>3. H \in [SUBSET S -> Nat]
  BY <1>2
<1>4. H[{}] = 0
  <2>1. H[{}] = G[{}] + 0 /\ G[{}] = 0
    BY <1>1 DEF IsMeasure
  <2> QED BY <2>1
<1>5. ASSUME NEW T \in SUBSET S, NEW x \in T PROVE H[T] = g[x] + H[T \ {x}]
  <2>1. H[T] = G[T] + (IF z \in T THEN d ELSE 0)
    OBVIOUS
  <2>2. H[T \ {x}] = G[T \ {x}] + (IF z \in T \ {x} THEN d ELSE 0)
    OBVIOUS
  <2> HIDE DEF H
  <2>3. G[T] = f[x] + G[T \ {x}] /\ f[x] \in Nat /\ G[T \ {x}] \in Nat
    BY <1>1, <1>2 DEF IsMeasure
  <2>4. CASE x = z
    <3>1. H[T] = G[T] + d /\ H[T \ {x}] = G[T \ {x}] + 0 /\ g[x] = f[x] + d
      BY <1>0, <2>1, <2>2, <2>4
    <3> QED BY <2>3, <3>1
  <2>5. CASE x # z
    <3>1. (z \in T <=> z \in T \ {x}) /\ g[x] = f[x]
      BY <1>0, <2>5
    <3> QED BY <2>1, <2>2, <2>3, <3>1
  <2> QED BY <2>4, <2>5
<1>6. H[S] = G[S] + d
  OBVIOUS
<1> HIDE DEF H
<1>7. IsMeasure(H, g, S)
  BY <1>3, <1>4, <1>5 DEF IsMeasure
<1> QED BY <1>1, <1>6, <1>7, SumIsMeasure DEF h

\* A sequence of values that moves up by one place loses its first.
LEMMA SumShrinks ==
    ASSUME NEW n \in Nat \ {0}, NEW f \in [1..n -> Nat], NEW g \in [1..n -> Nat],
           g[n] = 0, \A i \in 1..(n - 1) : g[i] = f[i + 1]
    PROVE  SumFunction(g) <= SumFunction(f)
<1>1. IsFiniteSet(1..n)
  BY FS_Interval
<1>2. PICK G : IsMeasure(G, f, 1..n)
  BY <1>1, MeasureExists
<1> DEFINE Up(T) == {i \in 2..n : i - 1 \in T}
           H == [T \in SUBSET (1..n) |-> G[Up(T)]]
<1>3. \A T \in SUBSET (1..n) : Up(T) \in SUBSET (1..n)
  OBVIOUS
<1>4. H \in [SUBSET (1..n) -> Nat]
  BY <1>2, <1>3 DEF IsMeasure
<1>5. H[{}] = 0
  <2>1. H[{}] = G[Up({})] /\ Up({}) = {}
    OBVIOUS
  <2> QED BY <1>2, <2>1 DEF IsMeasure
<1>6. ASSUME NEW T \in SUBSET (1..n), NEW x \in T PROVE H[T] = g[x] + H[T \ {x}]
  <2>1. H[T] = G[Up(T)] /\ H[T \ {x}] = G[Up(T \ {x})]
    OBVIOUS
  <2>2. G[Up(T \ {x})] \in Nat
    BY <1>2, <1>3 DEF IsMeasure
  <2>3. CASE x = n
    <3>1. Up(T \ {x}) = Up(T)
      BY <2>3
    <3> HIDE DEF Up, H
    <3> QED BY <2>1, <2>2, <2>3, <3>1
  <2>4. CASE x # n
    <3>1. x + 1 \in Up(T) /\ Up(T \ {x}) = Up(T) \ {x + 1}
      BY <2>4
    <3>2. g[x] = f[x + 1]
      BY <2>4
    <3> HIDE DEF H
    <3>3. G[Up(T)] = f[x + 1] + G[Up(T) \ {x + 1}]
      <4> HIDE DEF Up
      <4> QED BY <1>2, <1>3, <3>1 DEF IsMeasure
    <3> HIDE DEF Up
    <3> QED BY <2>1, <3>1, <3>2, <3>3
  <2> QED BY <2>3, <2>4
<1>7. H[1..n] = G[2..n] /\ G[1..n] = f[1] + G[2..n]
  <2>1. Up(1..n) = 2..n /\ 1 \in 1..n /\ (1..n) \ {1} = 2..n
    OBVIOUS
  <2>2. H[1..n] = G[Up(1..n)]
    OBVIOUS
  <2>3. \A T \in SUBSET (1..n) : 1 \in T => G[T] = f[1] + G[T \ {1}]
    BY <1>2 DEF IsMeasure
  <2>4. G[1..n] = f[1] + G[(1..n) \ {1}]
    BY <2>1, <2>3
  <2> HIDE DEF Up, H
  <2>5. H[1..n] = G[2..n]
    BY <2>1, <2>2
  <2> QED BY <2>1, <2>4, <2>5
<1>8. f[1] \in Nat /\ G[2..n] \in Nat
  <2>1. 1 \in 1..n /\ 2..n \in SUBSET (1..n)
    OBVIOUS
  <2> QED BY <1>2, <2>1 DEF IsMeasure
<1> HIDE DEF H
<1>9. IsMeasure(H, g, 1..n)
  BY <1>4, <1>5, <1>6 DEF IsMeasure
<1>10. SumFunction(g) = H[1..n] /\ SumFunction(f) = G[1..n]
  BY <1>1, <1>2, <1>9, SumIsMeasure
<1> QED BY <1>7, <1>8, <1>10

-----------------------------------------------------------------------------
(* Ranks.                                                                    *)

\* R orders 1..n: none before itself, one of any two before the other.
Orders(R, n) ==
    /\ \A i \in 1..n : <<i, i>> \notin R
    /\ \A i, j \in 1..n : i = j \/ <<i, j>> \in R \/ <<j, i>> \in R
    /\ \A i, j, k \in 1..n : <<i, j>> \in R /\ <<j, k>> \in R => <<i, k>> \in R

Predecessors(R, n, j) == {i \in 1..n : <<i, j>> \in R}

\* Those with fewer than k before them.
Leading(R, n, k) == {j \in 1..n : Cardinality(Predecessors(R, n, j)) < k}

\* Exactly k of them have fewer than k before them.
LEMMA LeadingCount ==
    ASSUME NEW n \in Nat, NEW R, Orders(R, n), NEW k \in 0..n
    PROVE  IsFiniteSet(Leading(R, n, k)) /\ Cardinality(Leading(R, n, k)) = k
<1> DEFINE D == 1..n
           P(j) == Predecessors(R, n, j)
           r == [j \in D |-> Cardinality(P(j))]
<1>1. IsFiniteSet(D) /\ Cardinality(D) = n
  BY FS_Interval
<1>2. IsFiniteSet(0..(n - 1)) /\ Cardinality(0..(n - 1)) = n
  BY FS_Interval
<1>3. \A j \in D : IsFiniteSet(P(j)) /\ Cardinality(P(j)) \in Nat
  <2> TAKE j \in D
  <2>1. P(j) \in SUBSET D
    BY DEF Predecessors
  <2> QED BY <1>1, <2>1, FS_Subset, FS_CardinalityType
<1>4. \A j \in D : Cardinality(P(j)) < n
  <2> TAKE j \in D
  <2>1. P(j) \in SUBSET D /\ P(j) # D
    BY DEF Predecessors, Orders
  <2>2. Cardinality(P(j)) <= n /\ Cardinality(P(j)) # n
    BY <1>1, <2>1, FS_Subset
  <2> QED BY <1>3, <2>2
<1>5. \A i, j \in D : <<i, j>> \in R => Cardinality(P(i)) < Cardinality(P(j))
  <2> SUFFICES ASSUME NEW i \in D, NEW j \in D, <<i, j>> \in R
               PROVE  Cardinality(P(i)) < Cardinality(P(j))
    OBVIOUS
  <2>1. P(i) \in SUBSET P(j) /\ P(i) # P(j)
    BY DEF Predecessors, Orders
  <2>2. Cardinality(P(i)) <= Cardinality(P(j)) /\ Cardinality(P(i)) # Cardinality(P(j))
    BY <1>3, <2>1, FS_Subset
  <2> QED BY <1>3, <2>2
<1>6. r \in [D -> 0..(n - 1)]
  BY <1>3, <1>4
<1>7. r \in Injection(D, 0..(n - 1))
  <2>1. \A i, j \in D : r[i] = r[j] => i = j
    <3> SUFFICES ASSUME NEW i \in D, NEW j \in D, i # j PROVE r[i] # r[j]
      OBVIOUS
    <3>1. <<i, j>> \in R \/ <<j, i>> \in R
      BY DEF Orders
    <3>2. Cardinality(P(i)) # Cardinality(P(j))
      BY <1>3, <1>5, <3>1
    <3> HIDE DEF P
    <3> QED BY <3>2
  <2> HIDE DEF r
  <2> QED BY <1>6, <2>1 DEF Injection, IsInjective
<1>8. r \in Surjection(D, 0..(n - 1))
  <2> HIDE DEF r, D
  <2> QED BY <1>1, <1>2, <1>7, FS_Injection
<1> DEFINE F == {j \in D : r[j] < k}
           h == [j \in F |-> r[j]]
<1>9. F = Leading(R, n, k)
  BY DEF Leading
<1>10. IsFiniteSet(F)
  <2>1. F \in SUBSET D
    OBVIOUS
  <2> HIDE DEF F, D
  <2> QED BY <1>1, <2>1, FS_Subset
<1>11. h \in Bijection(F, 0..(k - 1))
  <2> HIDE DEF r
  <2>1. h \in [F -> 0..(k - 1)]
    BY <1>6
  <2>2. \A i, j \in F : h[i] = h[j] => i = j
    BY <1>7 DEF Injection, IsInjective
  <2>3. \A m \in 0..(k - 1) : \E j \in F : h[j] = m
    <3> TAKE m \in 0..(k - 1)
    <3>1. PICK j \in D : r[j] = m
      BY <1>8 DEF Surjection
    <3> QED BY <3>1
  <2> HIDE DEF h, F
  <2> QED BY <2>1, <2>2, <2>3 DEF Bijection, Injection, Surjection, IsInjective
<1>12. Cardinality(0..(k - 1)) = k
  BY FS_Interval
<1>13. Cardinality(F) = k
  <2> HIDE DEF h, F
  <2>1. ExistsBijection(F, 0..(k - 1))
    BY <1>11 DEF ExistsBijection
  <2> QED BY <1>10, <1>12, <2>1, FS_Bijection
<1> QED BY <1>9, <1>10, <1>13
=============================================================================
