----------------------------- MODULE ProofFacts -----------------------------
(* Facts about numbers, finite sets and sequences that the proofs share.   *)
EXTENDS Integers, Sequences, FiniteSets, FiniteSetsExt, FiniteSetTheorems,
        SequenceTheorems, WellFoundedInduction, TLAPS

-----------------------------------------------------------------------------
(* Least and greatest elements.                                            *)

\* Every nonempty set of natural numbers has a least element.
LEMMA NatMinimum ==
    ASSUME NEW S, S \subseteq Nat, S # {}
    PROVE  \E x \in S : \A y \in S : x <= y
<1>1. \A x, y \in Nat : <<y, x>> \in OpToRel(<, Nat) <=> y < x
  BY DEF OpToRel
<1>2. \E R : /\ IsWellFoundedOn(R, Nat)
             /\ \A x, y \in Nat : <<y, x>> \in R <=> y < x
  BY <1>1, NatLessThanWellFounded, Zenon
<1>3. PICK R : /\ IsWellFoundedOn(R, Nat)
               /\ \A x, y \in Nat : <<y, x>> \in R <=> y < x
  BY <1>2, Zenon
<1>4. PICK x \in S : \A y \in S : ~(<<y, x>> \in R)
  BY <1>3, WFMin
<1>5. \A z, y \in Nat : <<y, z>> \in R <=> y < z
  BY <1>3, Zenon
<1>6. \A y \in S : x <= y
  <2> TAKE y \in S
  <2>1. ~(y < x)
    BY <1>4, <1>5
  <2> QED
    BY <2>1
<1> QED
  BY <1>6

\* Max picks an element of a nonempty bounded set of natural numbers.
LEMMA MaxBounded ==
    ASSUME NEW S, NEW b \in Nat, S \subseteq 0 .. b, S # {}
    PROVE  Max(S) \in S /\ \A y \in S : y <= Max(S)
<1> DEFINE T == {b - x : x \in S}
<1>1. T \subseteq Nat
  OBVIOUS
<1>2. T # {}
  <2>1. PICK x \in S : TRUE
    OBVIOUS
  <2>2. b - x \in T
    OBVIOUS
  <2> QED
    BY <2>2
<1> HIDE DEF T
<1>3. PICK t \in T : \A u \in T : t <= u
  BY <1>1, <1>2, NatMinimum
<1> USE DEF T
<1>4. PICK x \in S : t = b - x
  BY <1>3
<1>5. \A y \in S : b - x <= b - y
  BY <1>3, <1>4
<1>6. \A y \in S : x >= y
  BY <1>5
<1>7. \E z \in S : \A y \in S : z >= y
  BY <1>6
<1> HIDE DEF T
<1>8. Max(S) \in S /\ \A y \in S : Max(S) >= y
  BY <1>7, Zenon DEF Max
<1> QED
  BY <1>8

\* The maximum of a set that holds its own bound.
LEMMA MaxIsBound ==
    ASSUME NEW n \in Nat, NEW S, S \subseteq 0 .. n, n \in S PROVE Max(S) = n
<1>1. Max(S) \in S /\ n <= Max(S)
  BY MaxBounded
<1>2. Max(S) \in 0 .. n
  BY <1>1
<1> QED
  BY <1>1, <1>2

\* Min picks an element of a nonempty set of natural numbers.
LEMMA MinNat ==
    ASSUME NEW S, S \subseteq Nat, S # {}
    PROVE  Min(S) \in S /\ \A y \in S : Min(S) <= y
<1>1. \E x \in S : \A y \in S : x <= y
  BY NatMinimum
<1> QED
  BY <1>1, Zenon DEF Min

\* The minimum of two natural numbers.
LEMMA MinOfTwo ==
    ASSUME NEW a \in Nat, NEW b \in Nat
    PROVE  Min({a, b}) = IF a <= b THEN a ELSE b
<1>1. Min({a, b}) \in {a, b} /\ \A y \in {a, b} : Min({a, b}) <= y
  BY MinNat
<1> QED
  BY <1>1

\* A finite set of natural numbers is bounded: along an enumeration of the
\* set, the first prefix without a bound cannot exist.
LEMMA FiniteBounded ==
    ASSUME NEW S, S \subseteq Nat, IsFiniteSet(S)
    PROVE  \E b \in Nat : S \subseteq 0 .. b
<1>1. PICK n \in Nat : ExistsSurjection(1 .. n, S)
  BY FS_NatSurjection
<1>2. PICK f \in [1 .. n -> S] : \A y \in S : \E i \in 1 .. n : f[i] = y
  BY <1>1 DEF ExistsSurjection, Surjection
<1>a. \A i \in 1 .. n : f[i] \in Nat
  BY <1>2
<1> DEFINE Bounded(m) == \E b \in Nat : \A i \in 1 .. m : f[i] <= b
           K == {m \in 0 .. n : ~Bounded(m)}
<1>3. K = {}
  <2> SUFFICES ASSUME K # {} PROVE FALSE
    OBVIOUS
  <2>1. K \subseteq Nat
    OBVIOUS
  <2> HIDE DEF K
  <2>2. PICK k \in K : \A y \in K : k <= y
    BY <2>1, NatMinimum
  <2>0. k \in 0 .. n /\ k \in Int
    BY DEF K
  <2>3. ~Bounded(k)
    BY DEF K
  <2>4. k # 0
    BY <2>3
  <2>5. k - 1 \notin K /\ k - 1 \in 0 .. n
    BY <2>0, <2>1, <2>2, <2>4
  <2>6. PICK b \in Nat : \A i \in 1 .. k - 1 : f[i] <= b
    BY <2>5 DEF K
  <2>7. f[k] \in Nat
    BY <1>a, <2>0, <2>4
  <2>8. \A i \in 1 .. k : f[i] \in Nat
    BY <1>a, <2>0
  <2>9. \A i \in 1 .. k : f[i] <= b + f[k]
    <3> TAKE i \in 1 .. k
    <3>1. CASE i = k
      BY <3>1, <2>7
    <3>2. CASE i # k
      <4>1. i \in 1 .. k - 1
        BY <3>2, <2>0
      <4>2. f[i] <= b /\ f[i] \in Nat
        BY <4>1, <2>6, <2>8
      <4> QED
        BY <4>2, <2>7
    <3> QED
      BY <3>1, <3>2
  <2>10. b + f[k] \in Nat
    BY <2>7
  <2> HIDE DEF Bounded
  <2>11. Bounded(k)
    BY <2>9, <2>10 DEF Bounded
  <2> QED
    BY <2>3, <2>11
<1>4. Bounded(n)
  <2> HIDE DEF Bounded
  <2>1. n \in 0 .. n
    OBVIOUS
  <2> QED
    BY <1>3, <2>1
<1>5. PICK b \in Nat : \A i \in 1 .. n : f[i] <= b
  BY <1>4
<1>6. \A y \in S : y <= b
  BY <1>2, <1>5
<1> QED
  BY <1>6

\* A finite set of natural numbers lies between its minimum and its maximum.
LEMMA BetweenMinAndMax ==
    ASSUME NEW S, S \subseteq Nat, IsFiniteSet(S), S # {}
    PROVE  S \subseteq Min(S) .. Max(S) /\ Min(S) \in S /\ Max(S) \in S
<1>1. PICK b \in Nat : S \subseteq 0 .. b
  BY FiniteBounded
<1>2. Max(S) \in S /\ \A y \in S : y <= Max(S)
  BY <1>1, MaxBounded
<1>3. Min(S) \in S /\ \A y \in S : Min(S) <= y
  BY MinNat
<1> QED
  BY <1>2, <1>3


-----------------------------------------------------------------------------
(* Listing a finite set in an order.                                       *)

\* U[x] is the part of S up to x in a total order.
Orders(S, U) ==
    /\ U \in [S -> SUBSET S]
    /\ \A x \in S : x \in U[x]
    /\ \A x, y \in S : x \in U[y] \/ y \in U[x]
    /\ \A x, y \in S : x \in U[y] /\ y \in U[x] => x = y
    /\ \A x, y \in S : x \in U[y] => U[x] \subseteq U[y]

\* The elements have 1, 2, ... elements up to them, and each number is that of
\* one element.
Numbered(S, U) ==
    /\ Cardinality(S) \in Nat
    /\ \A x \in S : Cardinality(U[x]) \in 1 .. Cardinality(S)
    /\ \A x, y \in S : x \in U[y] /\ x # y => Cardinality(U[x]) < Cardinality(U[y])
    /\ \A i \in 1 .. Cardinality(S) : \E x \in S : Cardinality(U[x]) = i

\* A total order numbers the elements of a finite set.
LEMMA Enumeration ==
    ASSUME NEW S, IsFiniteSet(S), NEW U, Orders(S, U)
    PROVE  Numbered(S, U)
<1> DEFINE c == Cardinality(S)
           rank == [x \in S |-> Cardinality(U[x])]
<1> USE DEF Orders
<1>1. c \in Nat
  BY FS_CardinalityType
<1> HIDE DEF c
<1>2. ASSUME NEW x \in S PROVE IsFiniteSet(U[x]) /\ Cardinality(U[x]) \in 1 .. c
  <2>1. U[x] \subseteq S
    OBVIOUS
  <2>2. IsFiniteSet(U[x]) /\ Cardinality(U[x]) <= c
    BY <2>1, FS_Subset DEF c
  <2>3. Cardinality(U[x]) \in Nat /\ Cardinality(U[x]) # 0
    BY <2>2, FS_CardinalityType, FS_EmptySet
  <2> QED
    BY <1>1, <2>2, <2>3
<1>3. ASSUME NEW x \in S, NEW y \in S, x \in U[y], x # y
      PROVE  Cardinality(U[x]) < Cardinality(U[y])
  <2>1. U[x] \subseteq U[y] /\ y \in U[y] /\ y \notin U[x]
    BY <1>3
  <2>2. U[x] # U[y]
    BY <2>1
  <2>3. IsFiniteSet(U[y]) /\ Cardinality(U[x]) \in Nat /\ Cardinality(U[y]) \in Nat
    BY <1>1, <1>2
  <2> QED
    BY <2>1, <2>2, <2>3, FS_Subset
<1>4. rank \in [S -> 1 .. c]
  BY <1>2
<1>5. \A x, y \in S : rank[x] = rank[y] => x = y
  <2> SUFFICES ASSUME NEW x \in S, NEW y \in S, rank[x] = rank[y], x # y PROVE FALSE
    OBVIOUS
  <2>1. Cardinality(U[x]) \in Nat /\ Cardinality(U[y]) \in Nat
    BY <1>1, <1>2
  <2>2. Cardinality(U[x]) = Cardinality(U[y])
    OBVIOUS
  <2> QED
    BY <1>3, <2>1, <2>2
<1>6. rank \in Surjection(S, 1 .. c)
  <2>1. rank \in Injection(S, 1 .. c)
    BY <1>4, <1>5 DEF Injection, IsInjective
  <2>2. IsFiniteSet(1 .. c) /\ Cardinality(1 .. c) = c
    BY <1>1, FS_Interval
  <2> HIDE DEF rank
  <2> QED
    BY <2>1, <2>2, FS_Injection DEF c
<1>7. \A i \in 1 .. c : \E x \in S : Cardinality(U[x]) = i
  BY <1>6 DEF Surjection
<1> QED
  BY <1>1, <1>2, <1>3, <1>7 DEF c, Numbered

\* The same for numbers in their own order.
LEMMA NumbersEnumerated ==
    ASSUME NEW S, S \subseteq Nat, IsFiniteSet(S)
    PROVE  /\ Cardinality(S) \in Nat
           /\ \A x \in S : Cardinality({y \in S : y <= x}) \in 1 .. Cardinality(S)
           /\ \A x, y \in S : x < y =>
                 Cardinality({z \in S : z <= x}) < Cardinality({z \in S : z <= y})
           /\ \A i \in 1 .. Cardinality(S) :
                 \E x \in S : Cardinality({y \in S : y <= x}) = i
<1> DEFINE U == [x \in S |-> {y \in S : y <= x}]
<1>1. U \in [S -> SUBSET S] /\ \A x \in S : U[x] = {y \in S : y <= x}
  OBVIOUS
<1>2. \A x \in S : x \in Nat
  OBVIOUS
<1> HIDE DEF U
<1>3. /\ \A x \in S : x \in U[x]
      /\ \A x, y \in S : x \in U[y] <=> x <= y
  BY <1>1, <1>2
<1>4. /\ \A x, y \in S : x \in U[y] \/ y \in U[x]
      /\ \A x, y \in S : x \in U[y] /\ y \in U[x] => x = y
      /\ \A x, y \in S : x < y => x \in U[y] /\ x # y
  BY <1>2, <1>3
<1>5. \A x, y \in S : x \in U[y] => U[x] \subseteq U[y]
  <2> SUFFICES ASSUME NEW x \in S, NEW y \in S, x \in U[y], NEW z \in U[x] PROVE z \in U[y]
    OBVIOUS
  <2>1. z \in S /\ z <= x /\ x <= y
    BY <1>1, <1>3
  <2>2. x \in Nat /\ y \in Nat /\ z \in Nat
    BY <2>1
  <2>3. z <= y
    BY <2>1, <2>2
  <2> QED
    BY <1>3, <2>1, <2>3
<1>6. Numbered(S, U)
  <2>1. U \in [S -> SUBSET S]
    BY <1>1
  <2>2. \A x \in S : x \in U[x]
    BY <1>3
  <2>3. \A x, y \in S : x \in U[y] \/ y \in U[x]
    BY <1>4
  <2>4. \A x, y \in S : x \in U[y] /\ y \in U[x] => x = y
    BY <1>4
  <2>5. Orders(S, U)
    BY <1>5, <2>1, <2>2, <2>3, <2>4 DEF Orders
  <2> QED
    BY <2>5, Enumeration
<1>7. \A x \in S : Cardinality({y \in S : y <= x}) = Cardinality(U[x])
  BY <1>1, Zenon
<1>8. \A x, y \in S : x < y => Cardinality(U[x]) < Cardinality(U[y])
  BY <1>4, <1>6, Zenon DEF Numbered
<1> QED
  BY <1>6, <1>7, <1>8, Zenon DEF Numbered
=============================================================================
