---------------------------- MODULE FiniteLemmas ----------------------------
(***************************************************************************)
(* Facts about finite sets, sums over them and the pages of a list that    *)
(* the proofs of several components need.  Inductions are made by taking a *)
(* minimal counterexample: the well-founded orders of the library need no  *)
(* operator as a parameter, unlike its induction theorems.                 *)
(***************************************************************************)
EXTENDS Paging, FiniteSetsExt, FiniteSetTheorems, WellFoundedInduction, TLAPS

-----------------------------------------------------------------------------
(* Minimal elements *)

(* A set of natural numbers that is not empty has a least element. *)
LEMMA LeastNumber ==
  ASSUME NEW T \in SUBSET Nat, T # {}
  PROVE  \E n \in T : \A m \in T : n <= m
<1> DEFINE R == OpToRel(<, Nat)
<1>1. IsWellFoundedOn(R, Nat)
  BY NatLessThanWellFounded
<1>2. \A m, n \in Nat : m < n => <<m, n>> \in R
  BY DEF OpToRel
<1> HIDE DEF R
<1>3. PICK n \in T : \A m \in T : ~ (<<m, n>> \in R)
  BY <1>1, WFMin
<1>4. ASSUME NEW m \in T
      PROVE  n <= m
  <2>1. m \in Nat /\ n \in Nat /\ ~ (<<m, n>> \in R)
    BY <1>3
  <2>2. ~ (m < n)
    BY <1>2, <2>1
  <2>3. QED
    BY <2>1, <2>2
<1>5. QED
  BY <1>4

(* Of the subsets of a finite set that have some property, if there are any,
   one has no smaller one. *)
LEMMA LeastSubset ==
  ASSUME NEW S, IsFiniteSet(S), NEW F, F # {}, \A T \in F : T \subseteq S
  PROVE  \E T \in F : \A U \in F : U \subseteq T => U = T
<1> DEFINE sizes == {n \in Nat : \E T \in F : Cardinality(T) = n}
<1>1. \A T \in F : IsFiniteSet(T) /\ Cardinality(T) \in Nat
  BY FS_Subset, FS_CardinalityType
<1>2. PICK n \in sizes : \A m \in sizes : n <= m
  <2>1. sizes # {}
    BY <1>1
  <2>2. QED
    BY <2>1, LeastNumber
<1>3. PICK T \in F : Cardinality(T) = n
  BY <1>2
<1>4. ASSUME NEW U \in F, U \subseteq T
      PROVE  U = T
  <2>1. Cardinality(U) \in sizes
    BY <1>1
  <2>2. Cardinality(U) <= Cardinality(T) /\ (Cardinality(T) = Cardinality(U) => T = U)
    BY <1>1, <1>4, FS_Subset
  <2>3. Cardinality(T) <= Cardinality(U)
    BY <1>2, <1>3, <2>1
  <2>4. QED
    BY <1>1, <2>2, <2>3
<1>5. QED
  BY <1>4

(* A finite set of numbers that is not empty has a greatest element. *)
LEMMA GreatestNumber ==
  ASSUME NEW S \in SUBSET Int, IsFiniteSet(S), S # {}
  PROVE  \E n \in S : \A m \in S : m <= n
<1> DEFINE F == {T \in SUBSET S : T # {} /\ \A n \in T : \E m \in T : ~(m <= n)}
<1> SUFFICES ASSUME F # {}
             PROVE  FALSE
  BY DEF F
<1>0. \A T \in F : T \subseteq S
  OBVIOUS
<1>1. PICK T \in F : \A U \in F : U \subseteq T => U = T
  <2> HIDE DEF F
  <2>1. QED
    BY <1>0, LeastSubset
<1>2. PICK x \in T : TRUE
  OBVIOUS
<1>3. T \ {x} # {}
  <2>1. PICK m \in T : ~(m <= x)
    BY <1>2
  <2>2. QED
    BY <1>2, <2>1
<1>4. PICK n \in T \ {x} : \A m \in T \ {x} : m <= n
  <2>1. T \ {x} \notin F
    BY <1>1, <1>2
  <2>2. QED
    BY <1>3, <2>1
<1>5. n \in Int /\ x \in Int /\ \A m \in T : m \in Int
  BY <1>2, <1>4
<1>6. PICK m \in T : ~(m <= n)
  BY <1>4
<1>7. m = x /\ n < x
  BY <1>4, <1>5, <1>6
<1>8. PICK k \in T : ~(k <= x)
  BY <1>2
<1>9. QED
  BY <1>4, <1>5, <1>7, <1>8

-----------------------------------------------------------------------------
(* Sums *)

(* g is the sum of f over each subset of S: taking an element away, whichever
   it is, takes its summand away. *)
Additive(g, f, S) ==
  /\ g \in [SUBSET S -> Int]
  /\ g[{}] = 0
  /\ \A T \in SUBSET S : \A x \in T : g[T] = f[x] + g[T \ {x}]

(* h adds up the elements in some order. *)
Adding(h, f, S) ==
  /\ h[{}] = 0
  /\ \A T \in SUBSET S : T # {} => \E x \in T : h[T] = f[x] + h[T \ {x}]

Summable(f, S) == IsFiniteSet(S) /\ \A x \in S : f[x] \in Int

(* The sum of f over S. *)
Sum(f, S) == (CHOOSE g : Additive(g, f, S))[S]

(* A sum over one element more. *)
LEMMA AdditiveExtends ==
  ASSUME NEW f, NEW T, NEW y \in T, \A x \in T : f[x] \in Int, NEW g, Additive(g, f, T \ {y})
  PROVE  \E h : Additive(h, f, T)
<1> DEFINE h == [V \in SUBSET T |-> IF y \in V THEN f[y] + g[V \ {y}] ELSE g[V]]
<1>1. \A V \in SUBSET T : V \ {y} \in SUBSET (T \ {y}) /\ (y \notin V => V \in SUBSET (T \ {y}))
  OBVIOUS
<1>2. \A V \in SUBSET (T \ {y}) : g[V] \in Int
  BY DEF Additive
<1>3. h \in [SUBSET T -> Int] /\ h[{}] = 0
  BY <1>1, <1>2 DEF Additive
<1>4. ASSUME NEW V \in SUBSET T, NEW x \in V
      PROVE  h[V] = f[x] + h[V \ {x}]
  <2>1. V \ {x} \in SUBSET T
    OBVIOUS
  <2>2. CASE x = y
    BY <1>1, <2>1, <2>2
  <2>3. CASE x # y /\ y \notin V
    <3>1. V \in SUBSET (T \ {y})
      BY <2>3
    <3>2. g[V] = f[x] + g[V \ {x}]
      BY <3>1 DEF Additive
    <3>3. QED
      BY <2>1, <2>3, <3>2
  <2>4. CASE x # y /\ y \in V
    <3> DEFINE W == V \ {y}
    <3>1. W \in SUBSET (T \ {y}) /\ x \in W /\ W \ {x} = (V \ {x}) \ {y}
      BY <2>4
    <3>2. g[W] = f[x] + g[W \ {x}]
      BY <3>1 DEF Additive
    <3>3. h[V] = f[y] + g[W] /\ h[V \ {x}] = f[y] + g[W \ {x}]
      BY <2>1, <2>4, <3>1
    <3>4. f[x] \in Int /\ f[y] \in Int /\ g[W] \in Int /\ g[W \ {x}] \in Int
      BY <1>2, <3>1
    <3> HIDE DEF h, W
    <3>5. QED
      BY <3>2, <3>3, <3>4
  <2>5. QED
    BY <2>2, <2>3, <2>4
<1> HIDE DEF h
<1>5. Additive(h, f, T)
  BY <1>3, <1>4 DEF Additive
<1>6. QED
  BY <1>5

(* Every finite set of summands has a sum. *)
LEMMA AdditiveExists ==
  ASSUME NEW f, NEW S, Summable(f, S)
  PROVE  \E g : Additive(g, f, S)
<1> DEFINE F == {T \in SUBSET S : ~ \E g : Additive(g, f, T)}
<1> SUFFICES ASSUME F # {}
             PROVE  FALSE
  OBVIOUS
<1>1. IsFiniteSet(S) /\ \A T \in F : T \subseteq S
  BY DEF Summable
<1>2. PICK T \in F : \A U \in F : U \subseteq T => U = T
  <2> HIDE DEF F
  <2>1. QED
    BY <1>1, LeastSubset
<1>3. CASE T = {}
  <2> DEFINE g == [V \in SUBSET T |-> 0]
  <2>1. Additive(g, f, T)
    BY <1>3 DEF Additive
  <2>2. QED
    BY <2>1
<1>4. CASE T # {}
  <2>1. PICK y \in T : TRUE
    BY <1>4
  <2>2. T \ {y} \notin F
    BY <1>2
  <2>3. PICK g : Additive(g, f, T \ {y})
    BY <1>1, <2>2
  <2>4. QED
    BY <1>1, <2>3, AdditiveExtends DEF Summable
<1>5. QED
  BY <1>3, <1>4

(* A fold, which takes the elements in some order, comes to the sum. *)
LEMMA FoldIsAdditive ==
  ASSUME NEW f, NEW S, IsFiniteSet(S), NEW g, Additive(g, f, S), NEW h, Adding(h, f, S)
  PROVE  h[S] = g[S]
<1> DEFINE F == {T \in SUBSET S : h[T] # g[T]}
<1> SUFFICES ASSUME F # {}
             PROVE  FALSE
  OBVIOUS
<1>1. \A T \in F : T \subseteq S
  OBVIOUS
<1>2. PICK T \in F : \A U \in F : U \subseteq T => U = T
  <2> HIDE DEF F
  <2>1. QED
    BY <1>1, LeastSubset
<1>3. T # {}
  BY <1>2 DEF Additive, Adding
<1>4. PICK x \in T : h[T] = f[x] + h[T \ {x}]
  BY <1>3 DEF Adding
<1>5. h[T \ {x}] = g[T \ {x}]
  BY <1>2, <1>4
<1>6. g[T] = f[x] + g[T \ {x}]
  BY <1>4 DEF Additive
<1>7. QED
  BY <1>2, <1>4, <1>5, <1>6

(* So there is only one sum. *)
LEMMA AdditiveUnique ==
  ASSUME NEW f, NEW S, IsFiniteSet(S), NEW g, Additive(g, f, S)
  PROVE  Sum(f, S) = g[S]
<1> DEFINE h == CHOOSE k : Additive(k, f, S)
<1>1. Additive(h, f, S)
  OBVIOUS
<1>2. Sum(f, S) = h[S]
  BY DEF Sum
<1> HIDE DEF h
<1>3. Adding(h, f, S)
  BY <1>1 DEF Additive, Adding
<1>4. QED
  BY <1>2, <1>3, FoldIsAdditive

(* The sum over a part, and that sums are numbers. *)
LEMMA SumOfSubset ==
  ASSUME NEW f, NEW S, IsFiniteSet(S), NEW g, Additive(g, f, S), NEW T \in SUBSET S
  PROVE  Sum(f, T) = g[T] /\ Sum(f, T) \in Int
<1> DEFINE k == [U \in SUBSET T |-> g[U]]
<1>1. Additive(k, f, T)
  BY DEF Additive
<1>2. k[T] = g[T] /\ g[T] \in Int
  BY DEF Additive
<1> HIDE DEF k
<1>3. IsFiniteSet(T)
  BY FS_Subset
<1>4. QED
  BY <1>1, <1>2, <1>3, AdditiveUnique

LEMMA SumIsNumber ==
  ASSUME NEW f, NEW S, Summable(f, S)
  PROVE  Sum(f, S) \in Int
<1>1. PICK g : Additive(g, f, S)
  BY AdditiveExists
<1>2. QED
  BY <1>1, SumOfSubset DEF Summable

(* The sum over nothing is 0, over one element more it is one summand more. *)
LEMMA SumStep ==
  ASSUME NEW f
  PROVE  /\ Sum(f, {}) = 0
         /\ \A S, x : Summable(f, S \cup {x}) /\ x \notin S =>
              Sum(f, S \cup {x}) = Sum(f, S) + f[x] /\ Sum(f, S) \in Int
<1>1. Sum(f, {}) = 0
  <2>1. Summable(f, {})
    BY FS_EmptySet DEF Summable
  <2>2. PICK g : Additive(g, f, {})
    BY <2>1, AdditiveExists
  <2>3. QED
    BY <2>1, <2>2, AdditiveUnique DEF Summable, Additive
<1>2. ASSUME NEW S, NEW x, Summable(f, S \cup {x}), x \notin S
      PROVE  Sum(f, S \cup {x}) = Sum(f, S) + f[x] /\ Sum(f, S) \in Int
  <2> DEFINE V == S \cup {x}
  <2>1. x \in V /\ S \in SUBSET V /\ V \in SUBSET V /\ V \ {x} = S
    BY <1>2
  <2>2. Summable(f, V)
    BY <1>2
  <2> HIDE DEF V
  <2>3. IsFiniteSet(V) /\ f[x] \in Int
    BY <2>1, <2>2 DEF Summable
  <2>4. PICK g : Additive(g, f, V)
    BY <2>2, AdditiveExists
  <2>5. Sum(f, V) = g[V] /\ Sum(f, S) = g[S] /\ Sum(f, S) \in Int
    BY <2>1, <2>3, <2>4, SumOfSubset
  <2>6. g[V] = f[x] + g[V \ {x}]
    BY <2>1, <2>4 DEF Additive
  <2>7. g[V \ {x}] = g[S]
    BY <2>1
  <2>8. Sum(f, V) = Sum(f, S) + f[x]
    BY <2>3, <2>5, <2>6, <2>7
  <2>9. QED
    BY <2>5, <2>8 DEF V
<1>3. QED
  BY <1>1, <1>2

(* Equal summands have equal sums, opposite ones opposite sums. *)
LEMMA SumSame ==
  ASSUME NEW f, NEW S, Summable(f, S), NEW h, \A x \in S : h[x] = f[x]
  PROVE  Sum(h, S) = Sum(f, S)
<1>1. IsFiniteSet(S)
  BY DEF Summable
<1>2. PICK g : Additive(g, f, S)
  BY AdditiveExists
<1>3. Additive(g, h, S)
  BY <1>2 DEF Additive
<1>4. QED
  BY <1>1, <1>2, <1>3, AdditiveUnique

LEMMA SumOpposite ==
  ASSUME NEW f, NEW S, Summable(f, S), NEW h, \A x \in S : h[x] = -f[x]
  PROVE  Sum(h, S) = -Sum(f, S)
<1>1. IsFiniteSet(S) /\ \A x \in S : f[x] \in Int
  BY DEF Summable
<1>2. PICK g : Additive(g, f, S)
  BY AdditiveExists
<1> DEFINE k == [T \in SUBSET S |-> -g[T]]
<1>3. Additive(k, h, S)
  <2>1. k \in [SUBSET S -> Int] /\ k[{}] = 0
    BY <1>2 DEF Additive
  <2>2. ASSUME NEW T \in SUBSET S, NEW x \in T
        PROVE  k[T] = h[x] + k[T \ {x}]
    <3>1. g[T] = f[x] + g[T \ {x}] /\ g[T \ {x}] \in Int /\ f[x] \in Int /\ h[x] = -f[x]
      BY <1>1, <1>2 DEF Additive
    <3>2. k[T] = -g[T] /\ k[T \ {x}] = -g[T \ {x}]
      OBVIOUS
    <3> HIDE DEF k
    <3>3. QED
      BY <3>1, <3>2
  <2> HIDE DEF k
  <2>3. QED
    BY <2>1, <2>2 DEF Additive
<1>4. k[S] = -g[S]
  OBVIOUS
<1> HIDE DEF k
<1>5. QED
  BY <1>1, <1>2, <1>3, <1>4, AdditiveUnique

(* The sum over two disjoint sets is the sum of their sums. *)
LEMMA SumUnion ==
  ASSUME NEW f, NEW S, NEW T, Summable(f, S), Summable(f, T), S \cap T = {}
  PROVE  Sum(f, S \cup T) = Sum(f, S) + Sum(f, T)
<1> DEFINE V == S \cup T
<1>1. Summable(f, V)
  BY FS_Union DEF Summable
<1>2. S \in SUBSET V /\ T \in SUBSET V /\ V \in SUBSET V
  OBVIOUS
<1>3. \A U \in SUBSET T : S \cup U \in SUBSET V /\ \A x \in U : (S \cup U) \ {x} = S \cup (U \ {x})
  OBVIOUS
<1>4. S \cup {} = S /\ S \cup T = V
  OBVIOUS
<1> HIDE DEF V
<1>5. IsFiniteSet(V) /\ IsFiniteSet(T) /\ \A x \in T : f[x] \in Int
  BY <1>1 DEF Summable
<1>6. PICK g : Additive(g, f, V)
  BY <1>1, AdditiveExists
<1> DEFINE k == [U \in SUBSET T |-> g[S \cup U] - g[S]]
<1>7. Additive(k, f, T)
  <2>1. g[S] \in Int /\ \A U \in SUBSET T : g[S \cup U] \in Int
    BY <1>2, <1>3, <1>6 DEF Additive
  <2>2. k \in [SUBSET T -> Int]
    BY <2>1
  <2>3. k[{}] = 0
    BY <1>4, <2>1
  <2>4. ASSUME NEW U \in SUBSET T, NEW x \in U
        PROVE  k[U] = f[x] + k[U \ {x}]
    <3>1. g[S \cup U] = f[x] + g[S \cup (U \ {x})]
      <4>1. S \cup U \in SUBSET V /\ x \in S \cup U /\ (S \cup U) \ {x} = S \cup (U \ {x})
        BY <1>3
      <4>2. g[S \cup U] = f[x] + g[(S \cup U) \ {x}]
        BY <1>6, <4>1 DEF Additive
      <4>3. QED
        BY <4>1, <4>2
    <3>2. U \ {x} \in SUBSET T /\ f[x] \in Int
      BY <1>5
    <3>3. k[U] = g[S \cup U] - g[S] /\ k[U \ {x}] = g[S \cup (U \ {x})] - g[S]
      BY <3>2
    <3>4. g[S \cup (U \ {x})] \in Int
      BY <2>1, <3>2
    <3> HIDE DEF k
    <3>5. QED
      BY <2>1, <3>1, <3>2, <3>3, <3>4
  <2> HIDE DEF k
  <2>5. QED
    BY <2>2, <2>3, <2>4 DEF Additive
<1>8. k[T] = g[S \cup T] - g[S]
  OBVIOUS
<1> HIDE DEF k
<1>9. Sum(f, T) = k[T]
  BY <1>5, <1>7, AdditiveUnique
<1>10. Sum(f, S) = g[S] /\ g[S] \in Int
  <2>1. Sum(f, S) = g[S] /\ Sum(f, S) \in Int
    BY <1>2, <1>5, <1>6, SumOfSubset
  <2>2. QED
    BY <2>1
<1>11. Sum(f, V) = g[V] /\ g[V] \in Int
  <2>1. Sum(f, V) = g[V]
    BY <1>5, <1>6, AdditiveUnique
  <2>2. QED
    BY <1>2, <1>6, <2>1 DEF Additive
<1>12. g[S \cup T] = g[V]
  BY <1>4
<1>13. Sum(f, V) = Sum(f, S) + Sum(f, T)
  BY <1>8, <1>9, <1>10, <1>11, <1>12
<1>14. QED
  BY <1>13 DEF V

(* Renaming the elements one to one leaves the sum. *)
LEMMA SumImage ==
  ASSUME NEW f, NEW S, Summable(f, S), NEW h, \A x, y \in S : h[x] = h[y] => x = y,
         NEW k, \A x \in S : k[h[x]] = f[x]
  PROVE  /\ Summable(k, {h[x] : x \in S})
         /\ Sum(k, {h[x] : x \in S}) = Sum(f, S)
<1> DEFINE Image(T) == {h[x] : x \in T}
<1>1. IsFiniteSet(S) /\ \A x \in S : f[x] \in Int
  BY DEF Summable
<1>2. IsFiniteSet(Image(S))
  <2> DEFINE m == [x \in S |-> h[x]]
             I == Image(S)
  <2>1. m \in Surjection(S, I)
    BY DEF Surjection
  <2> HIDE DEF m, I
  <2>2. IsFiniteSet(I)
    BY <1>1, <2>1, FS_Surjection
  <2>3. QED
    BY <2>2 DEF I
<1>3. Summable(k, Image(S))
  BY <1>1, <1>2 DEF Summable
<1>4. \A T \in SUBSET S : Image(T) \in SUBSET Image(S)
                          /\ \A x \in T : h[x] \in Image(T) /\ Image(T \ {x}) = Image(T) \ {h[x]}
  OBVIOUS
<1>5. Image({}) = {}
  OBVIOUS
<1>6. S \in SUBSET S
  OBVIOUS
<1> HIDE DEF Image
<1>7. PICK g : Additive(g, k, Image(S))
  BY <1>3, AdditiveExists
<1> DEFINE m == [T \in SUBSET S |-> g[Image(T)]]
<1>8. Additive(m, f, S)
  <2>1. m \in [SUBSET S -> Int] /\ m[{}] = 0
    BY <1>4, <1>5, <1>7 DEF Additive
  <2>2. ASSUME NEW T \in SUBSET S, NEW x \in T
        PROVE  m[T] = f[x] + m[T \ {x}]
    <3>1. g[Image(T)] = k[h[x]] + g[Image(T) \ {h[x]}]
      BY <1>4, <1>7 DEF Additive
    <3>2. QED
      BY <1>4, <3>1
  <2> HIDE DEF m
  <2>3. QED
    BY <2>1, <2>2 DEF Additive
<1>9. m[S] = g[Image(S)]
  BY <1>6
<1> HIDE DEF m
<1>10. Sum(f, S) = m[S] /\ Sum(k, Image(S)) = g[Image(S)]
  BY <1>1, <1>2, <1>7, <1>8, AdditiveUnique
<1>11. QED
  BY <1>3, <1>9, <1>10 DEF Image

-----------------------------------------------------------------------------
(* Pages *)

(* A page is a first part of what comes after the row the client named: finite,
   and without gaps. *)
LEMMA QueryIsPrefix ==
  ASSUME NEW ids \in SUBSET Nat, IsFiniteSet(ids), NEW after \in Nat, NEW n \in Nat
  PROVE  /\ IsFiniteSet(Query(ids, after, n))
         /\ Query(ids, after, n) \subseteq {i \in ids : i > after}
         /\ \A i \in Query(ids, after, n), j \in ids : after < j /\ j < i => j \in Query(ids, after, n)
<1> DEFINE Q == Query(ids, after, n)
           Between(i) == {j \in ids : after < j /\ j < i}
<1>1. Q = {i \in ids : i > after /\ Cardinality(Between(i)) < n}
  BY DEF Query
<1>2. \A i : IsFiniteSet(Between(i)) /\ Cardinality(Between(i)) \in Nat
  BY FS_Subset, FS_CardinalityType
<1>3. Q \subseteq {i \in ids : i > after} /\ IsFiniteSet(Q)
  BY FS_Subset DEF Query
<1>4. ASSUME NEW i \in Q, NEW j \in ids, after < j, j < i
      PROVE  j \in Q
  <2>1. i \in Nat /\ j \in Nat /\ Cardinality(Between(i)) < n
    BY <1>1
  <2>2. Between(j) \in SUBSET Between(i)
    <3> SUFFICES ASSUME NEW k \in ids, after < k, k < j
                 PROVE  k < i
      OBVIOUS
    <3>1. k \in Nat
      OBVIOUS
    <3>2. QED
      BY <1>4, <2>1, <3>1
  <2> HIDE DEF Between
  <2>3. Cardinality(Between(j)) <= Cardinality(Between(i))
    BY <1>2, <2>2, FS_Subset
  <2>4. Cardinality(Between(j)) < n
    BY <1>2, <2>1, <2>3
  <2>5. QED
    BY <1>1, <1>4, <2>1, <2>4
<1>5. QED
  BY <1>3, <1>4

(* A page with fewer rows than were asked for is all there is. *)
LEMMA QueryIsAll ==
  ASSUME NEW ids \in SUBSET Nat, IsFiniteSet(ids), NEW after \in Nat, NEW n \in Nat,
         Cardinality(Query(ids, after, n)) < n
  PROVE  Query(ids, after, n) = {i \in ids : i > after}
<1> DEFINE Q == Query(ids, after, n)
           Between(i) == {j \in ids : after < j /\ j < i}
           missing == {i \in ids : i > after} \ Q
<1>1. Q = {i \in ids : i > after /\ Cardinality(Between(i)) < n}
  BY DEF Query
<1> SUFFICES ASSUME missing # {}
             PROVE  FALSE
  BY <1>1
<1>2. missing \in SUBSET Nat
  OBVIOUS
<1>3. PICK i \in missing : \A j \in missing : i <= j
  <2> HIDE DEF missing
  <2>1. QED
    BY <1>2, LeastNumber
<1>4. Between(i) \in SUBSET Q
  <2> SUFFICES ASSUME NEW j \in ids, after < j, j < i
               PROVE  j \in Q
    OBVIOUS
  <2>1. j \in Nat /\ i \in Nat /\ ~(i <= j)
    OBVIOUS
  <2>2. j \notin missing
    BY <1>3, <2>1
  <2> HIDE DEF Q
  <2>3. QED
    BY <2>1, <2>2
<1>5. IsFiniteSet(Q)
  BY QueryIsPrefix
<1>6. Cardinality(Between(i)) \in Nat /\ Cardinality(Q) \in Nat /\ Cardinality(Between(i)) <= Cardinality(Q)
  <2> HIDE DEF Between, Q
  <2>1. QED
    BY <1>4, <1>5, FS_Subset, FS_CardinalityType
<1>7. Cardinality(Between(i)) < n
  BY <1>6
<1>8. QED
  BY <1>1, <1>3, <1>7

(* The page a handler shows of the rows it fetched. *)
LEMMA ShownIsPrefix ==
  ASSUME NEW ids \in SUBSET (Nat \ {0}), IsFiniteSet(ids), NEW after \in Nat, NEW n \in Nat, NEW size \in Nat
  PROVE  LET page == Shown(Fetched(ids, after, n), size)
         IN  /\ IsFiniteSet(page)
             /\ page \subseteq {i \in ids : i > after}
             /\ \A i \in page, j \in ids : after < j /\ j < i => j \in page
<1> DEFINE fetched == Query(ids, after, n + 1)
           cut == Query(fetched, 0, size)
           page == Shown(Fetched(ids, after, n), size)
<1>1. page = IF HasMore(fetched, size) THEN cut ELSE fetched
  BY DEF Shown, Fetched
<1>2. /\ IsFiniteSet(fetched)
      /\ fetched \subseteq {i \in ids : i > after}
      /\ \A i \in fetched, j \in ids : after < j /\ j < i => j \in fetched
  <2>1. n + 1 \in Nat /\ ids \in SUBSET Nat
    OBVIOUS
  <2>2. QED
    BY <2>1, QueryIsPrefix
<1>3. fetched \in SUBSET Nat
  BY <1>2
<1> HIDE DEF fetched
<1>4. /\ IsFiniteSet(cut)
      /\ cut \subseteq {i \in fetched : i > 0}
      /\ \A i \in cut, j \in fetched : 0 < j /\ j < i => j \in cut
  BY <1>2, <1>3, QueryIsPrefix
<1> HIDE DEF cut
<1>5. CASE page = fetched
  BY <1>2, <1>5
<1>6. CASE page = cut
  <2>1. \A j \in ids : 0 < j
    OBVIOUS
  <2>2. \A i \in cut, j \in ids : after < j /\ j < i => j \in cut
    BY <1>2, <1>4, <2>1
  <2>3. cut \subseteq {i \in ids : i > after}
    BY <1>2, <1>4
  <2> HIDE DEF page
  <2>4. QED
    BY <1>4, <1>6, <2>2, <2>3 DEF page
<1>7. QED
  BY <1>1, <1>5, <1>6

-----------------------------------------------------------------------------
(* Walks *)

(* A walk has seen, once each, rows up to where it is, and all of those that
   were there when it began. *)
WalkRecord == [after : Nat, seen : SUBSET Nat, shown : Nat, start : SUBSET Nat]
Walking(w) ==
  /\ w \in WalkRecord
  /\ IsFiniteSet(w.seen)
  /\ w.shown = Cardinality(w.seen)
  /\ \A i \in w.seen : i <= w.after
  /\ \A i \in w.start : i <= w.after => i \in w.seen

LEMMA WalkStarts ==
  ASSUME NEW ids \in SUBSET (Nat \ {0})
  PROVE  Walking(StartWalk(ids)) /\ StartWalk(ids).start = ids
  BY FS_EmptySet DEF Walking, WalkRecord, StartWalk

(* A turn keeps a walk so, if what was there at first still is, and the last one
   has seen all of it. *)
LEMMA WalkTurns ==
  ASSUME NEW w, Walking(w), NEW ids \in SUBSET (Nat \ {0}), IsFiniteSet(ids), w.start \subseteq ids,
         NEW size \in Nat, NEW n \in Nat, size <= n
  PROVE  LET fetched == Fetched(ids, w.after, n)
             next == Turn(w, Shown(fetched, size))
         IN  /\ Walking(next)
             /\ next.start = w.start
             /\ ~HasMore(fetched, size) => next.start \subseteq next.seen
<1> DEFINE fetched == Fetched(ids, w.after, n)
           page == Shown(fetched, size)
           next == Turn(w, page)
           last == IF page = {} THEN w.after ELSE CHOOSE i \in page : \A j \in page : j <= i
<1>1. /\ w.after \in Nat /\ w.seen \in SUBSET Nat /\ w.shown \in Nat /\ w.start \in SUBSET Nat
      /\ w = [after |-> w.after, seen |-> w.seen, shown |-> w.shown, start |-> w.start]
  BY DEF Walking, WalkRecord
<1>2. /\ IsFiniteSet(page)
      /\ page \subseteq {i \in ids : i > w.after}
      /\ \A i \in page, j \in ids : w.after < j /\ j < i => j \in page
  BY <1>1, ShownIsPrefix
<1>3. ~HasMore(fetched, size) => page = {i \in ids : i > w.after}
  <2> SUFFICES ASSUME ~HasMore(fetched, size)
               PROVE  fetched = {i \in ids : i > w.after}
    BY DEF Shown
  <2>1. ids \in SUBSET Nat /\ n + 1 \in Nat /\ fetched = Query(ids, w.after, n + 1)
    BY DEF Fetched
  <2>2. Cardinality(fetched) \in Nat
    BY <1>1, <2>1, QueryIsPrefix, FS_CardinalityType
  <2>3. Cardinality(fetched) < n + 1
    BY <2>2 DEF HasMore
  <2> HIDE DEF fetched
  <2>4. QED
    BY <1>1, <2>1, <2>3, QueryIsAll
<1>4. /\ next.after = last
      /\ next.seen = w.seen \cup page
      /\ next.shown = w.shown + Cardinality(page)
      /\ next.start = w.start
      /\ next = [after |-> last, seen |-> w.seen \cup page,
                 shown |-> w.shown + Cardinality(page), start |-> w.start]
  <2> HIDE DEF page
  <2>1. next = [w EXCEPT !.seen = w.seen \cup page, !.shown = w.shown + Cardinality(page), !.after = last]
    BY DEF Turn
  <2> HIDE DEF next, last
  <2>2. QED
    BY <1>1, <2>1
<1> HIDE DEF page, next, fetched
<1>5. last \in Nat /\ w.after <= last /\ (\A i \in page : i <= last) /\ (page # {} => last \in page)
  <2>1. CASE page = {}
    BY <1>1, <2>1
  <2>2. CASE page # {}
    <3>1. page \in SUBSET Int /\ page \in SUBSET Nat
      BY <1>2
    <3>2. \E i \in page : \A j \in page : j <= i
      BY <1>2, <2>2, <3>1, GreatestNumber
    <3>3. last \in page /\ \A j \in page : j <= last
      BY <2>2, <3>2
    <3> HIDE DEF last
    <3>4. QED
      BY <1>1, <1>2, <3>1, <3>3
  <2>3. QED
    BY <2>1, <2>2
<1> HIDE DEF last
<1>6. Walking(next)
  <2>1. w.seen \cap page = {}
    BY <1>1, <1>2 DEF Walking
  <2>2. IsFiniteSet(w.seen \cup page) /\ Cardinality(page) \in Nat
        /\ Cardinality(w.seen \cup page) = w.shown + Cardinality(page)
    <3>1. IsFiniteSet(w.seen) /\ w.shown = Cardinality(w.seen)
      BY DEF Walking
    <3>2. Cardinality(w.seen \cup page) = Cardinality(w.seen) + Cardinality(page) - Cardinality({})
      BY <1>2, <2>1, <3>1, FS_Union
    <3>3. IsFiniteSet(w.seen \cup page) /\ Cardinality(page) \in Nat /\ Cardinality(w.seen) \in Nat
      BY <1>2, <3>1, FS_Union, FS_CardinalityType
    <3>4. QED
      BY <3>1, <3>2, <3>3, FS_EmptySet
  <2>3. next \in WalkRecord
    BY <1>1, <1>2, <1>4, <1>5, <2>2 DEF WalkRecord
  <2>4. \A i \in w.seen \cup page : i <= last
    BY <1>1, <1>5 DEF Walking
  <2>5. ASSUME NEW i \in w.start, i <= last
        PROVE  i \in w.seen \cup page
    <3>1. CASE i <= w.after
      BY <3>1 DEF Walking
    <3>2. CASE ~(i <= w.after)
      <4>1. i \in ids /\ i \in Nat /\ w.after < i /\ last # w.after
        BY <1>1, <1>5, <2>5, <3>2
      <4>2. page # {}
        BY <4>1 DEF last
      <4>3. i = last \/ i < last
        BY <1>5, <2>5, <4>1
      <4>4. QED
        BY <1>2, <1>5, <4>1, <4>2, <4>3
    <3>3. QED
      BY <3>1, <3>2
  <2>6. QED
    BY <1>4, <2>2, <2>3, <2>4, <2>5 DEF Walking
<1>7. ASSUME ~HasMore(fetched, size)
      PROVE  next.start \subseteq next.seen
  <2>1. ASSUME NEW i \in w.start
        PROVE  i \in w.seen \cup page
    <3>1. i \in ids /\ i \in Nat
      BY <1>1
    <3>2. i <= w.after \/ i > w.after
      BY <1>1, <3>1
    <3>3. QED
      BY <1>3, <1>7, <3>1, <3>2 DEF Walking
  <2>2. QED
    BY <1>4, <2>1
<1>8. QED
  BY <1>4, <1>6, <1>7 DEF next, page, fetched
=============================================================================
