------------------------------ MODULE Induction ------------------------------
(***************************************************************************)
(* Induction on the natural numbers, in a form that can be cited: the      *)
(* induction theorems of the library take the formula to be proved as a    *)
(* parameter, these lemmas take the set of the numbers that satisfy it.    *)
(* Powers of two, and the functions that folds are defined by.             *)
(***************************************************************************)
EXTENDS Integers, FiniteSetTheorems, WellFoundedInduction, TLAPS

\* A set of natural numbers that is not empty has a smallest element: a proof
\* about a recursive function looks at the first place where it goes wrong.
LEMMA Smallest ==
    ASSUME NEW T, T \subseteq Nat, T # {}
    PROVE  \E x \in T : \A y \in T : x <= y
<1>1. PICK n \in T : TRUE
  OBVIOUS
<1> DEFINE F == {0..i : i \in T \cap 0..n}
           Smaller == StrictSubsetOrdering(0..n)
<1>2. IsWellFoundedOn(Smaller, SUBSET (0..n))
  <2>1. IsFiniteSet(0..n)
    BY FS_Interval
  <2>2. FiniteSubsetsOf(0..n) = SUBSET (0..n)
    BY <2>1, FS_FiniteSubsetsOfFinite
  <2>3. IsWellFoundedOn(Smaller, FiniteSubsetsOf(0..n))
    BY FS_StrictSubsetOrderingWellFounded, Zenon
  <2>4. QED
    BY <2>2, <2>3
<1>3. F \subseteq SUBSET (0..n) /\ F # {}
  BY <1>1
<1>4. PICK x \in F : \A y \in F : <<y, x>> \notin Smaller
  <2> HIDE DEF F, Smaller
  <2> QED
    BY <1>2, <1>3, WFMin, Zenon
<1>5. PICK i \in T \cap 0..n : x = 0..i
  OBVIOUS
<1>6. ASSUME NEW y \in T
      PROVE  i <= y
  <2>1. SUFFICES ASSUME y < i PROVE FALSE
    BY <1>6
  <2>2. 0..y \in F /\ 0..y \subseteq 0..i /\ 0..y # 0..i
    BY <1>5, <2>1
  <2>3. <<0..y, x>> \in Smaller
    <3> HIDE DEF F
    <3> QED
      BY <1>3, <1>5, <2>2 DEF StrictSubsetOrdering
  <2>4. QED
    BY <1>4, <2>2, <2>3
<1>7. QED
  BY <1>5, <1>6

\* A set with 0, and with the successor of each number in it that is below n,
\* has all numbers up to n.
LEMMA UpTo ==
    ASSUME NEW n \in Nat, NEW S, 0 \in S, \A i \in 0..n-1 : i \in S => i + 1 \in S
    PROVE  0..n \subseteq S
<1> DEFINE T == {i \in 0..n : i \notin S}
<1>1. SUFFICES ASSUME T # {} PROVE FALSE
  OBVIOUS
<1>2. PICK x \in T : \A y \in T : x <= y
  <2>1. T \subseteq Nat
    OBVIOUS
  <2> HIDE DEF T
  <2> QED
    BY <1>1, <2>1, Smallest
<1>3. x # 0 /\ x - 1 \in 0..n-1
  OBVIOUS
<1>4. x - 1 \in S
  BY <1>2, <1>3
<1>5. x - 1 + 1 = x
  OBVIOUS
<1>6. QED
  BY <1>3, <1>4, <1>5

-----------------------------------------------------------------------------
(* Powers of two, counted as subsets. *)

LEMMA Subsets ==
    ASSUME NEW k \in Nat
    PROVE  IsFiniteSet(SUBSET (1..k)) /\ Cardinality(SUBSET (1..k)) = 2^k /\ 2^k \in Nat
<1>1. PICK a \in Int, b \in Int : a = 1 /\ b = k
  OBVIOUS
<1>2. IsFiniteSet(a..b) /\ Cardinality(a..b) = IF a > b THEN 0 ELSE b - a + 1
  BY FS_Interval
<1>3. IsFiniteSet(1..k) /\ Cardinality(1..k) = k
  BY <1>1, <1>2
<1>4. IsFiniteSet(SUBSET (1..k)) /\ Cardinality(SUBSET (1..k)) = 2^k
  BY <1>3, FS_SUBSET
<1>5. Cardinality(SUBSET (1..k)) \in Nat
  BY <1>4, FS_CardinalityType
<1>6. QED
  BY <1>4, <1>5

LEMMA PowersGrow ==
    ASSUME NEW k \in Nat, NEW l \in Nat, k <= l
    PROVE  2^k <= 2^l
<1>1. SUBSET (1..k) \in SUBSET SUBSET (1..l)
  <2>1. 1..k \subseteq 1..l
    OBVIOUS
  <2>2. QED
    BY <2>1
<1>2. Cardinality(SUBSET (1..k)) <= Cardinality(SUBSET (1..l))
  BY <1>1, Subsets, FS_Subset
<1>3. QED
  BY <1>2, Subsets

\* The subsets with k + 1 are as many as those without it.
LEMMA PowersDouble ==
    ASSUME NEW k \in Nat
    PROVE  2^(k + 1) = 2 * 2^k
<1> DEFINE P == SUBSET (1..k)
           Q == {T \cup {k + 1} : T \in P}
           f == [T \in P |-> T \cup {k + 1}]
<1>1. SUBSET (1..k+1) = P \cup Q
  <2>1. ASSUME NEW T \in SUBSET (1..k+1), T \notin P PROVE T \in Q
    <3>1. T \ {k + 1} \in P
      OBVIOUS
    <3>2. T = (T \ {k + 1}) \cup {k + 1}
      BY <2>1
    <3>3. QED
      BY <3>1, <3>2
  <2>2. P \subseteq SUBSET (1..k+1) /\ Q \subseteq SUBSET (1..k+1)
    <3>1. 1..k \subseteq 1..k+1 /\ k + 1 \in 1..k+1
      OBVIOUS
    <3>2. QED
      BY <3>1
  <2>3. QED
    BY <2>1, <2>2
<1>2. f \in Bijection(P, Q)
  <2>1. ASSUME NEW T \in P, NEW U \in P, T \cup {k + 1} = U \cup {k + 1} PROVE T = U
    <3>1. k + 1 \notin T /\ k + 1 \notin U
      OBVIOUS
    <3>2. QED
      BY <2>1, <3>1
  <2>2. /\ f \in [P -> Q] /\ \A T \in P, U \in P : f[T] = f[U] => T = U
        /\ \A U \in Q : \E T \in P : f[T] = U
    <3>1. f \in [P -> Q] /\ \A T \in P : f[T] = T \cup {k + 1}
      OBVIOUS
    <3>2. \A U \in Q : \E T \in P : U = T \cup {k + 1}
      OBVIOUS
    <3>3. \A T \in P, U \in P : T \cup {k + 1} = U \cup {k + 1} => T = U
      BY <2>1
    <3> HIDE DEF f, P, Q
    <3>4. \A T \in P, U \in P : f[T] = f[U] => T = U
      BY <3>1, <3>3, Zenon
    <3>5. \A U \in Q : \E T \in P : f[T] = U
      BY <3>1, <3>2, Zenon
    <3>6. QED
      BY <3>1, <3>4, <3>5
  <2>3. DOMAIN f = P
    OBVIOUS
  <2> HIDE DEF f, P, Q
  <2>4. QED
    BY <2>2, <2>3, Zenon DEF Bijection, Injection, Surjection, IsInjective
<1>3. P \cap Q = {}
  <2>1. ASSUME NEW T \in Q PROVE T \notin P
    OBVIOUS
  <2>2. QED
    BY <2>1
<1>4. IsFiniteSet(P) /\ Cardinality(P) = 2^k /\ 2^k \in Nat
  BY Subsets
<1>5. Cardinality(SUBSET (1..k+1)) = 2^(k + 1)
  <2>1. k + 1 \in Nat
    OBVIOUS
  <2>2. QED
    BY <2>1, Subsets
<1> HIDE DEF P, Q, f
<1>6. IsFiniteSet(Q) /\ Cardinality(Q) = Cardinality(P)
  BY <1>2, <1>4, FS_Bijection DEF ExistsBijection
<1>7. Cardinality(P \cup Q) = Cardinality(P) + Cardinality(Q) - Cardinality(P \cap Q)
  BY <1>4, <1>6, FS_Union
<1>8. Cardinality(P \cap Q) = 0
  BY <1>3, FS_EmptySet
<1>9. 2^(k + 1) = Cardinality(P) + Cardinality(Q) - 0 /\ Cardinality(Q) = 2^k
  BY <1>1, <1>4, <1>5, <1>6, <1>7, <1>8
<1>10. PICK m \in Nat : m = 2^k
  BY <1>4
<1>11. QED
  BY <1>4, <1>9, <1>10

LEMMA PowersPositive ==
    ASSUME NEW k \in Nat
    PROVE  2^k \in Nat \ {0} /\ 2^0 = 1
<1>1. 2^0 = 1
  <2>1. PICK z \in Nat : z = 0
    OBVIOUS
  <2>2. Cardinality(SUBSET (1..z)) = 2^z
    BY Subsets
  <2>3. SUBSET (1..z) = {{}}
    BY <2>1
  <2>4. Cardinality({{}}) = 1
    BY FS_Singleton
  <2>5. QED
    BY <2>1, <2>2, <2>3, <2>4
<1>2. 2^0 <= 2^k
  <2>1. PICK z \in Nat : z = 0 /\ z <= k
    OBVIOUS
  <2>2. 2^z <= 2^k
    BY <2>1, PowersGrow
  <2>3. QED
    BY <2>1, <2>2
<1>3. 2^k \in Nat
  BY Subsets
<1>4. QED
  BY <1>1, <1>2, <1>3

-----------------------------------------------------------------------------
(* Recursive functions.  One that takes elements out of a set of numbers     *)
(* until it is empty, as the folds of the libraries do, exists.              *)

Bounded(S) == \E n \in Nat : S \subseteq 0..n

Chooses(choose, S) == \A s \in SUBSET S : s # {} => choose[s] \in s

Stays(g, S, V) == \A x \in S, v \in V : g[x][v] \in V

IsFold(f, S, base, choose, g) ==
    f = [s \in SUBSET S |-> IF s = {} THEN base ELSE g[choose[s]][f[s \ {choose[s]}]]]

LEMMA Finite ==
    ASSUME NEW S, Bounded(S)
    PROVE  IsFiniteSet(S)
<1>0. PICK n \in Nat : S \subseteq 0..n
  BY DEF Bounded
<1>1. PICK z \in Int : z = 0
  OBVIOUS
<1>2. IsFiniteSet(z..n)
  BY FS_Interval
<1>3. QED
  BY <1>0, <1>1, <1>2, FS_Subset

LEMMA FoldExists ==
    ASSUME NEW S, Bounded(S), NEW V, NEW base \in V,
           NEW choose, Chooses(choose, S), NEW g, Stays(g, S, V)
    PROVE  \E f \in [SUBSET S -> V] : IsFold(f, S, base, choose, g)
<1> USE DEF Chooses, Stays
<1>0. IsFiniteSet(S)
  BY Finite
<1> DEFINE Body(f, s) == IF s = {} THEN base ELSE g[choose[s]][f[s \ {choose[s]}]]
           F == [SUBSET S -> V]
           RightTo(n) == \E f \in F : \A s \in SUBSET S : Cardinality(s) <= n => f[s] = Body(f, s)
           T == {n \in Nat : RightTo(n)}
<1>1. ASSUME NEW f \in F, NEW s \in SUBSET S
      PROVE  Body(f, s) \in V
  <2>1. CASE s = {}
    BY <2>1
  <2>2. CASE s # {}
    <3>1. choose[s] \in S /\ s \ {choose[s]} \in SUBSET S
      BY <2>2
    <3>2. f[s \ {choose[s]}] \in V
      BY <3>1
    <3>3. QED
      BY <2>2, <3>1, <3>2
  <2>3. QED
    BY <2>1, <2>2
<1>2. ASSUME NEW s \in SUBSET S
      PROVE  /\ IsFiniteSet(s) /\ Cardinality(s) \in Nat /\ (Cardinality(s) = 0 <=> s = {})
             /\ s # {} => Cardinality(s \ {choose[s]}) = Cardinality(s) - 1
             /\ Cardinality(s) <= Cardinality(S)
  <2>1. IsFiniteSet(s) /\ Cardinality(s) <= Cardinality(S)
    BY <1>0, FS_Subset
  <2>2. s # {} => Cardinality(s \ {choose[s]}) = Cardinality(s) - 1
    BY <2>1, FS_RemoveElement
  <2>3. QED
    BY <2>1, <2>2, FS_CardinalityType, FS_EmptySet
<1>3. 0 \in T
  <2> DEFINE f == [s \in SUBSET S |-> base]
  <2>1. f \in F
    OBVIOUS
  <2>2. ASSUME NEW s \in SUBSET S, Cardinality(s) <= 0 PROVE f[s] = Body(f, s)
    <3>1. Cardinality(s) \in Nat /\ (Cardinality(s) = 0 <=> s = {})
      BY <1>2
    <3>2. s = {}
      BY <2>2, <3>1
    <3>3. QED
      BY <3>2
  <2>3. QED
    BY <2>1, <2>2
<1>4. ASSUME NEW n \in Nat, n \in T
      PROVE  n + 1 \in T
  <2>1. PICK f \in F : \A s \in SUBSET S : Cardinality(s) <= n => f[s] = Body(f, s)
    BY <1>4
  <2> DEFINE h == [s \in SUBSET S |-> Body(f, s)]
  <2>2. h \in F
    BY <1>1
  <2>3. ASSUME NEW s \in SUBSET S, Cardinality(s) <= n + 1
        PROVE  h[s] = Body(h, s)
    <3>1. CASE s = {}
      BY <3>1
    <3>2. CASE s # {}
      <4> DEFINE r == s \ {choose[s]}
      <4>1. r \in SUBSET S /\ Cardinality(r) <= n
        <5>1. Cardinality(r) = Cardinality(s) - 1 /\ Cardinality(s) \in Nat
          BY <1>2, <3>2
        <5>2. QED
          BY <2>3, <5>1
      <4>2. h[r] = f[r]
        <5>1. h[r] = Body(f, r)
          BY <4>1
        <5>2. f[r] = Body(f, r)
          BY <2>1, <4>1
        <5>3. QED
          BY <5>1, <5>2
      <4>3. h[s] = g[choose[s]][f[r]]
        BY <3>2
      <4> HIDE DEF h, r
      <4>4. Body(h, s) = g[choose[s]][h[r]]
        BY <3>2 DEF r
      <4>5. QED
        BY <4>2, <4>3, <4>4
    <3>3. QED
      BY <3>1, <3>2
  <2> HIDE DEF h, Body, F
  <2>4. RightTo(n + 1)
    BY <2>2, <2>3
  <2>5. QED
    BY <2>4
<1>5. Cardinality(S) \in T
  <2>1. Cardinality(S) \in Nat
    BY <1>0, FS_CardinalityType
  <2>2. Cardinality(S) \in 0..Cardinality(S)
    BY <2>1
  <2> HIDE DEF T
  <2>3. 0..Cardinality(S) \subseteq T
    BY <1>3, <1>4, <2>1, UpTo
  <2>4. QED
    BY <2>2, <2>3
<1>6. PICK f \in F : \A s \in SUBSET S : Cardinality(s) <= Cardinality(S) => f[s] = Body(f, s)
  BY <1>5
<1>7. \A s \in SUBSET S : f[s] = Body(f, s)
  BY <1>2, <1>6
<1> HIDE DEF Body
<1>8. f = [s \in SUBSET S |-> Body(f, s)]
  BY <1>7
<1>9. QED
  BY <1>8 DEF Body, IsFold

\* Induction along such a function.
Inherits(T, S, choose) ==
    \A s \in SUBSET S : s # {} /\ s \ {choose[s]} \in T => s \in T

LEMMA EverySubset ==
    ASSUME NEW S, Bounded(S), NEW T, {} \in T,
           NEW choose, Chooses(choose, S), Inherits(T, S, choose)
    PROVE  SUBSET S \subseteq T
<1> USE DEF Chooses, Inherits
<1>0. IsFiniteSet(S)
  BY Finite
<1> DEFINE Good(n) == \A s \in SUBSET S : Cardinality(s) <= n => s \in T
           G == {n \in Nat : Good(n)}
<1>1. ASSUME NEW s \in SUBSET S
      PROVE  /\ Cardinality(s) \in Nat /\ (Cardinality(s) = 0 <=> s = {})
             /\ s # {} => Cardinality(s \ {choose[s]}) = Cardinality(s) - 1
             /\ Cardinality(s) <= Cardinality(S)
  <2>1. IsFiniteSet(s) /\ Cardinality(s) <= Cardinality(S)
    BY <1>0, FS_Subset
  <2>2. s # {} => Cardinality(s \ {choose[s]}) = Cardinality(s) - 1
    BY <2>1, FS_RemoveElement
  <2>3. QED
    BY <2>1, <2>2, FS_CardinalityType, FS_EmptySet
<1>2. Good(0)
  <2>1. ASSUME NEW s \in SUBSET S, Cardinality(s) <= 0 PROVE s \in T
    <3>1. Cardinality(s) \in Nat /\ (Cardinality(s) = 0 <=> s = {})
      BY <1>1
    <3>2. s = {}
      BY <2>1, <3>1
    <3>3. QED
      BY <3>2
  <2>2. QED
    BY <2>1
<1>3. ASSUME NEW n \in Nat, Good(n)
      PROVE  Good(n + 1)
  <2>1. ASSUME NEW s \in SUBSET S, Cardinality(s) <= n + 1 PROVE s \in T
    <3>1. CASE s = {}
      BY <3>1
    <3>2. CASE s # {}
      <4>1. Cardinality(s \ {choose[s]}) = Cardinality(s) - 1 /\ Cardinality(s) \in Nat
        BY <1>1, <3>2
      <4>2. PICK r \in SUBSET S : r = s \ {choose[s]}
        OBVIOUS
      <4>3. Cardinality(r) <= n
        BY <2>1, <4>1, <4>2
      <4>4. r \in T
        BY <1>3, <4>3
      <4>5. QED
        BY <3>2, <4>2, <4>4
    <3>3. QED
      BY <3>1, <3>2
  <2>2. QED
    BY <2>1
<1>4. Good(Cardinality(S))
  <2>1. Cardinality(S) \in Nat /\ Cardinality(S) \in 0..Cardinality(S)
    <3>1. Cardinality(S) \in Nat
      BY <1>0, FS_CardinalityType
    <3>2. QED
      BY <3>1
  <2> HIDE DEF Good
  <2>2. 0 \in G /\ \A n \in 0..Cardinality(S)-1 : n \in G => n + 1 \in G
    BY <1>2, <1>3
  <2> HIDE DEF G
  <2>3. 0..Cardinality(S) \subseteq G
    BY <2>1, <2>2, UpTo
  <2>4. QED
    BY <2>1, <2>3 DEF G
<1>5. QED
  BY <1>1, <1>4

\* A sum may be formed in any order.
Adds(f, S, t, choose) ==
    \A s \in SUBSET S : s # {} => f[s] = t[choose[s]] + f[s \ {choose[s]}]

AddsAny(f, S, t) == \A s \in SUBSET S : \A x \in s : f[s] = t[x] + f[s \ {x}]

LEMMA SumStep ==
    ASSUME NEW S, Bounded(S), NEW t \in [S -> Int], NEW f \in [SUBSET S -> Int],
           NEW choose, Chooses(choose, S), Adds(f, S, t, choose)
    PROVE  AddsAny(f, S, t)
<1> USE DEF Chooses, Adds, AddsAny
<1>0. IsFiniteSet(S)
  BY Finite
<1> DEFINE Good(n) == \A s \in SUBSET S : Cardinality(s) <= n => \A x \in s : f[s] = t[x] + f[s \ {x}]
           T == {n \in Nat : Good(n)}
<1>1. ASSUME NEW s \in SUBSET S
      PROVE  /\ Cardinality(s) \in Nat /\ (Cardinality(s) = 0 <=> s = {})
             /\ \A x \in s : Cardinality(s \ {x}) = Cardinality(s) - 1
             /\ Cardinality(s) <= Cardinality(S)
  <2>1. IsFiniteSet(s) /\ Cardinality(s) <= Cardinality(S)
    BY <1>0, FS_Subset
  <2>2. \A x \in s : Cardinality(s \ {x}) = Cardinality(s) - 1
    BY <2>1, FS_RemoveElement
  <2>3. QED
    BY <2>1, <2>2, FS_CardinalityType, FS_EmptySet
<1>2. Good(0)
  <2>1. ASSUME NEW s \in SUBSET S, Cardinality(s) <= 0 PROVE s = {}
    <3>1. Cardinality(s) \in Nat /\ (Cardinality(s) = 0 <=> s = {})
      BY <1>1
    <3>2. QED
      BY <2>1, <3>1
  <2>2. QED
    BY <2>1
<1>3. ASSUME NEW n \in Nat, Good(n)
      PROVE  Good(n + 1)
  <2>1. SUFFICES ASSUME NEW s \in SUBSET S, Cardinality(s) <= n + 1, NEW x \in s
                 PROVE  f[s] = t[x] + f[s \ {x}]
    OBVIOUS
  <2>2. PICK c \in s : c = choose[s] /\ f[s] = t[c] + f[s \ {c}]
    OBVIOUS
  <2>3. CASE x = c
    BY <2>2, <2>3
  <2>4. CASE x # c
    <3>1. /\ s \ {c} \in SUBSET S /\ Cardinality(s \ {c}) <= n /\ x \in s \ {c}
          /\ s \ {x} \in SUBSET S /\ Cardinality(s \ {x}) <= n /\ c \in s \ {x}
      <4>1. Cardinality(s) \in Nat /\ Cardinality(s \ {c}) = Cardinality(s) - 1
            /\ Cardinality(s \ {x}) = Cardinality(s) - 1
        BY <1>1
      <4>2. QED
        BY <2>1, <2>4, <4>1
    <3>2. f[s \ {c}] = t[x] + f[(s \ {c}) \ {x}]
      BY <1>3, <3>1
    <3>3. f[s \ {x}] = t[c] + f[(s \ {x}) \ {c}]
      BY <1>3, <3>1
    <3>4. (s \ {c}) \ {x} = (s \ {x}) \ {c} /\ (s \ {c}) \ {x} \in SUBSET S
      OBVIOUS
    <3>5. t[x] \in Int /\ t[c] \in Int
      OBVIOUS
    <3>6. PICK r \in SUBSET S : r = (s \ {c}) \ {x}
      BY <3>4
    <3>7. f[r] \in Int
      OBVIOUS
    <3>8. f[s] = t[c] + (t[x] + f[r]) /\ f[s \ {x}] = t[c] + f[r]
      BY <2>2, <3>2, <3>3, <3>4, <3>6
    <3>9. QED
      BY <3>5, <3>7, <3>8
  <2>5. QED
    BY <2>3, <2>4
<1>4. Good(Cardinality(S))
  <2>1. Cardinality(S) \in Nat /\ Cardinality(S) \in 0..Cardinality(S)
    <3>1. S \in SUBSET S
      OBVIOUS
    <3>2. Cardinality(S) \in Nat
      BY <1>1, <3>1
    <3>3. QED
      BY <3>2
  <2> HIDE DEF Good
  <2>2. 0 \in T /\ \A n \in 0..Cardinality(S)-1 : n \in T => n + 1 \in T
    BY <1>2, <1>3
  <2> HIDE DEF T
  <2>3. 0..Cardinality(S) \subseteq T
    BY <2>1, <2>2, UpTo
  <2>4. QED
    BY <2>1, <2>3 DEF T
<1>5. QED
  BY <1>1, <1>4

=============================================================================
