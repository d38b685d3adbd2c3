---------------------------- MODULE SumTheorems ----------------------------
(***************************************************************************)
(* Sums over finite sets: the sums of the community modules, computed by   *)
(* recursion over an arbitrary order of the elements, equal a number of    *)
(* elements, to which the theorems about cardinalities apply.              *)
(***************************************************************************)
EXTENDS Integers, FiniteSetTheorems, WellFoundedInduction, TLAPS

\* One unit for each of the w[x] that x counts for.
Units(w, S) == {u \in S \X Nat : u[2] \in 1..w[u[1]]}

\* The sum of w over S.
Total(w, S) == Cardinality(Units(w, S))

LEMMA UnitsFinite ==
  ASSUME NEW S, IsFiniteSet(S), NEW w, \A x \in S : w[x] \in Nat
  PROVE  IsFiniteSet(Units(w, S)) /\ Total(w, S) \in Nat
  <1> DEFINE row(x) == {x} \X (1..w[x])
             rows == {row(x) : x \in S}
             rowOf == [x \in S |-> row(x)]
  <1>1. IsFiniteSet(rows)
    <2>1. rowOf \in Surjection(S, rows)
      BY DEF Surjection
    <2> QED BY <2>1, FS_Surjection
  <1>2. \A T \in rows : IsFiniteSet(T)
    <2>1. ASSUME NEW x \in S PROVE IsFiniteSet(row(x))
      <3>1. w[x] \in Nat /\ 1 \in Int /\ w[x] \in Int
        OBVIOUS
      <3>2. IsFiniteSet(1..w[x])
        BY <3>1, FS_Interval
      <3>3. IsFiniteSet({x})
        BY FS_Singleton
      <3> QED BY <3>2, <3>3, FS_Product
    <2> HIDE DEF row
    <2> QED BY <2>1
  <1> HIDE DEF rows
  <1>3. IsFiniteSet(UNION rows)
    BY <1>1, <1>2, FS_UNION
  <1>4. Units(w, S) \subseteq UNION rows
    <2> SUFFICES ASSUME NEW u \in Units(w, S) PROVE \E T \in rows : u \in T
      OBVIOUS
    <2>1. u[1] \in S /\ u \in row(u[1])
      BY DEF Units
    <2> HIDE DEF row
    <2> QED BY <2>1 DEF rows
  <1>5. IsFiniteSet(Units(w, S))
    BY <1>3, <1>4, FS_Subset
  <1> QED BY <1>5, FS_CardinalityType DEF Total

LEMMA TotalEmpty == ASSUME NEW w PROVE Total(w, {}) = 0
  BY FS_EmptySet DEF Total, Units

LEMMA TotalSame ==
  ASSUME NEW S, NEW v, NEW w, \A x \in S : v[x] = w[x]
  PROVE  Total(v, S) = Total(w, S)
  <1>1. Units(v, S) = Units(w, S)
    BY DEF Units
  <1> QED BY <1>1 DEF Total

\* Two parts are summed one after the other.
LEMMA TotalUnion ==
  ASSUME NEW S, IsFiniteSet(S), NEW T, IsFiniteSet(T), S \cap T = {},
         NEW w, \A x \in S \cup T : w[x] \in Nat
  PROVE  Total(w, S \cup T) = Total(w, S) + Total(w, T)
  <1> DEFINE A == Units(w, S)
             B == Units(w, T)
  <1>1. IsFiniteSet(A) /\ IsFiniteSet(B) /\ Cardinality(A) \in Nat /\ Cardinality(B) \in Nat
    BY UnitsFinite DEF Total
  <1>2. Units(w, S \cup T) = A \cup B /\ A \cap B = {}
    BY DEF Units
  <1> HIDE DEF A, B
  <1>3. Cardinality(A \cup B) = Cardinality(A) + Cardinality(B) - Cardinality(A \cap B)
    BY <1>1, FS_Union
  <1>4. Cardinality(A \cap B) = 0
    BY <1>2, FS_EmptySet
  <1>5. Total(w, S \cup T) = Cardinality(A \cup B) /\ Total(w, S) = Cardinality(A) /\ Total(w, T) = Cardinality(B)
    BY <1>2 DEF Total, A, B
  <1> QED BY <1>1, <1>3, <1>4, <1>5

LEMMA TotalSingleton ==
  ASSUME NEW x, NEW w, w[x] \in Nat
  PROVE  Total(w, {x}) = w[x]
  <1>1. Units(w, {x}) = {x} \X (1..w[x])
    BY DEF Units
  <1>2. IsFiniteSet(1..w[x]) /\ Cardinality(1..w[x]) = w[x]
    <2>1. w[x] \in Int /\ 1 \in Int /\ (1 > w[x] => w[x] = 0)
      OBVIOUS
    <2>2. Cardinality(1..w[x]) = IF 1 > w[x] THEN 0 ELSE w[x] - 1 + 1
      BY <2>1, FS_Interval
    <2>3. IsFiniteSet(1..w[x])
      BY <2>1, FS_Interval
    <2> QED BY <2>1, <2>2, <2>3
  <1>3. IsFiniteSet({x}) /\ Cardinality({x}) = 1
    BY FS_Singleton
  <1>4. Cardinality({x} \X (1..w[x])) = 1 * w[x]
    BY <1>2, <1>3, FS_Product
  <1>5. Total(w, {x}) = 1 * w[x]
    BY <1>1, <1>4 DEF Total
  <1> QED BY <1>5

LEMMA TotalAdd ==
  ASSUME NEW S, IsFiniteSet(S), NEW x, x \notin S, NEW w, \A y \in S \cup {x} : w[y] \in Nat
  PROVE  Total(w, S \cup {x}) = Total(w, S) + w[x]
  <1>1. IsFiniteSet({x}) /\ S \cap {x} = {}
    BY FS_Singleton
  <1>2. Total(w, S \cup {x}) = Total(w, S) + Total(w, {x})
    BY <1>1, TotalUnion
  <1>3. Total(w, {x}) = w[x]
    BY TotalSingleton
  <1> QED BY <1>2, <1>3

\* A renaming of the elements that keeps their numbers keeps the sum.
LEMMA TotalRenamed ==
  ASSUME NEW S, IsFiniteSet(S), NEW v, NEW w, NEW b, \A x \in S : v[x] \in Nat /\ w[b[x]] = v[x],
         \A x, y \in S : b[x] = b[y] => x = y
  PROVE  Total(v, S) = Total(w, {b[x] : x \in S})
  <1> DEFINE T == {b[x] : x \in S}
             f == [u \in Units(v, S) |-> <<b[u[1]], u[2]>>]
  <1>1. f \in [Units(v, S) -> Units(w, T)]
    BY DEF Units
  <1>2. \A t, u \in Units(v, S) : f[t] = f[u] => t = u
    <2> SUFFICES ASSUME NEW t \in Units(v, S), NEW u \in Units(v, S), f[t] = f[u] PROVE t = u
      OBVIOUS
    <2>1. b[t[1]] = b[u[1]] /\ t[2] = u[2]
      OBVIOUS
    <2>2. t[1] \in S /\ u[1] \in S /\ t = <<t[1], t[2]>> /\ u = <<u[1], u[2]>>
      BY DEF Units
    <2> QED BY <2>1, <2>2
  <1>3. \A z \in Units(w, T) : \E u \in Units(v, S) : f[u] = z
    <2> SUFFICES ASSUME NEW z \in Units(w, T) PROVE \E u \in Units(v, S) : f[u] = z
      OBVIOUS
    <2>1. PICK x \in S : b[x] = z[1]
      BY DEF Units
    <2>2. <<x, z[2]>> \in Units(v, S)
      BY <2>1 DEF Units
    <2>3. z = <<z[1], z[2]>>
      BY DEF Units
    <2> QED BY <2>1, <2>2, <2>3
  <1> HIDE DEF f, T
  <1>4. f \in Bijection(Units(v, S), Units(w, T))
    <2>1. f \in Injection(Units(v, S), Units(w, T))
      BY <1>1, <1>2 DEF Injection, IsInjective
    <2>2. f \in Surjection(Units(v, S), Units(w, T))
      BY <1>1, <1>3 DEF Surjection
    <2> QED BY <2>1, <2>2 DEF Bijection
  <1>5. IsFiniteSet(Units(v, S))
    BY UnitsFinite
  <1> QED BY <1>4, <1>5, FS_Bijection DEF Total, ExistsBijection, T

-----------------------------------------------------------------------------
(* The recursion of MapThenFoldSet *)

\* f sums w, choosing one element after the other.
Summing(f, w, S) ==
  f = [s \in SUBSET S |-> IF s = {} THEN 0
                          ELSE w[CHOOSE x \in s : TRUE] + f[s \ {CHOOSE x \in s : TRUE}]]

LEMMA TotalSums ==
  ASSUME NEW S, IsFiniteSet(S), NEW w, \A x \in S : w[x] \in Nat
  PROVE  Summing([s \in SUBSET S |-> Total(w, s)], w, S)
  <1>1. ASSUME NEW s \in SUBSET S, s # {}
        PROVE  LET x == CHOOSE x \in s : TRUE IN Total(w, s) = w[x] + Total(w, s \ {x})
    <2> DEFINE x == CHOOSE x \in s : TRUE
    <2>1. x \in s
      BY <1>1
    <2> HIDE DEF x
    <2>2. IsFiniteSet(s \ {x}) /\ s = (s \ {x}) \cup {x} /\ x \notin s \ {x}
      BY <2>1, FS_Subset
    <2>3. Total(w, s) = Total(w, s \ {x}) + w[x]
      BY <2>2, TotalAdd
    <2>4. Total(w, s \ {x}) \in Nat /\ w[x] \in Nat
      BY <2>1, <2>2, UnitsFinite
    <2> QED BY <2>3, <2>4 DEF x
  <1>2. Total(w, {}) = 0
    BY TotalEmpty
  <1> DEFINE f == [s \in SUBSET S |-> Total(w, s)]
  <1>3. \A s \in SUBSET S :
          f[s] = IF s = {} THEN 0
                 ELSE w[CHOOSE x \in s : TRUE] + f[s \ {CHOOSE x \in s : TRUE}]
    BY <1>1, <1>2
  <1> QED BY <1>3 DEF Summing

\* A smallest subset on which two such functions differ would have a smaller one.
LEMMA SummingUnique ==
  ASSUME NEW S, IsFiniteSet(S), NEW w, NEW f, NEW g, Summing(f, w, S), Summing(g, w, S)
  PROVE  f = g
  <1> DEFINE R == StrictSubsetOrdering(S)
             D == {s \in SUBSET S : f[s] # g[s]}
  <1>1. IsWellFoundedOn(R, SUBSET S)
    BY FS_StrictSubsetOrderingWellFounded, FS_FiniteSubsetsOfFinite
  <1> HIDE DEF R
  <1>2. ASSUME D # {} PROVE FALSE
    <2>1. PICK s \in D : \A t \in D : ~ (<<t, s>> \in R)
      <3>1. D \subseteq SUBSET S
        OBVIOUS
      <3> HIDE DEF D
      <3> QED BY <1>1, <1>2, <3>1, WFMin
    <2> DEFINE x == CHOOSE x \in s : TRUE
               t == s \ {x}
    <2>2. f[s] = (IF s = {} THEN 0 ELSE w[x] + f[t]) /\ g[s] = (IF s = {} THEN 0 ELSE w[x] + g[t])
      BY DEF Summing
    <2>3. s # {} /\ f[t] # g[t]
      BY <2>2
    <2>4. x \in s
      BY <2>3
    <2> HIDE DEF x
    <2>5. t \in D /\ <<t, s>> \in R
      BY <2>3, <2>4 DEF R, StrictSubsetOrdering
    <2> QED BY <2>1, <2>5
  <1>3. \A s \in SUBSET S : f[s] = g[s]
    BY <1>2
  <1> QED BY <1>3 DEF Summing

\* The function that MapThenFoldSet chooses sums w over S.
LEMMA ChosenSum ==
  ASSUME NEW S, IsFiniteSet(S), NEW w, \A x \in S : w[x] \in Nat, NEW f,
         (\E g : Summing(g, w, S)) => Summing(f, w, S)
  PROVE  f[S] = Total(w, S)
  <1> DEFINE g == [s \in SUBSET S |-> Total(w, s)]
  <1>1. Summing(g, w, S)
    BY TotalSums
  <1> HIDE DEF g
  <1>2. f = g
    BY <1>1, SummingUnique
  <1> QED BY <1>2 DEF g

=============================================================================
