---------------------------- MODULE TaskGraphProofs ----------------------------
(***************************************************************************)
(* The task graph that register_mugraph makes, for every Graphs whose      *)
(* operators are joined by tensors as GraphsAssumption says.               *)
(*                                                                         *)
(* GraphInv follows the registration operator by operator.  The blocks of  *)
(* an operator become tasks in the order of nested loops over the events   *)
(* and, within an event, over the blocks: a block belongs to one event     *)
(* because the numbers of events divide the grids (OneEvent), and the      *)
(* blocks of an event are a segment of that order (RangeOfEvent), so that  *)
(* first_task_id and last_task_id take in exactly its consumers.  Hence a  *)
(* task is in the range of one event, whose producers are the blocks of    *)
(* the operator before that share it; EndGraph turns the ranges into the   *)
(* dependent_event of each task.                                           *)
(*                                                                         *)
(* Of the complete graph, EndIsLast says that each task has one that waits *)
(* for it, up to the last operator, and ReadsInOrder that blocks which     *)
(* overlap in the tensor that joins their operators share an event (the    *)
(* share of a block is its part of the tensor, rounded to the events), or  *)
(* have an operator between them that waits for everything.                *)
(***************************************************************************)
EXTENDS TaskGraph, FiniteSetTheorems, SequenceTheorems, WellFoundedInduction, TLAPS

-----------------------------------------------------------------------------
(* Least and greatest numbers.                                              *)

\* A set of naturals has a least element: the smallest of the intervals from 0.
LEMMA Least ==
    ASSUME NEW S \in SUBSET Nat, S # {}
    PROVE  \E x \in S : \A y \in S : x <= y
<1> DEFINE R == StrictSubsetOrdering(Nat)
           F == FiniteSubsetsOf(Nat)
           T == {0 .. x : x \in S}
<1>1. IsWellFoundedOn(R, F)
  BY FS_StrictSubsetOrderingWellFounded
<1>2. \A x \in S : 0 .. x \in F
  <2> TAKE x \in S
  <2>1. 0 \in Int /\ x \in Int
    OBVIOUS
  <2>2. IsFiniteSet(0 .. x)
    BY <2>1, FS_Interval
  <2> QED BY <2>2 DEF FiniteSubsetsOf
<1>3. T \subseteq F /\ T # {}
  BY <1>2
<1>4. \E t \in T : \A u \in T : ~ (<<u, t>> \in R)
  <2> HIDE DEF R, F, T
  <2> QED BY <1>1, <1>3, WFMin
<1>5. PICK x \in S : \A y \in S : ~ (<< 0 .. y, 0 .. x >> \in R)
  BY <1>4
<1>6. \A y \in S : x <= y
  <2> SUFFICES ASSUME NEW y \in S, y < x PROVE FALSE
    OBVIOUS
  <2>1. x \in Nat /\ y \in Nat
    OBVIOUS
  <2>2. 0 .. y \subseteq 0 .. x /\ x \in 0 .. x /\ x \notin 0 .. y
    BY <2>1
  <2>3. 0 .. y \subseteq Nat /\ 0 .. x \subseteq Nat /\ 0 .. y # 0 .. x
    BY <2>2
  <2>4. << 0 .. y, 0 .. x >> \in R
    BY <2>2, <2>3 DEF StrictSubsetOrdering
  <2> QED BY <1>5, <2>4
<1> QED BY <1>6

\* ... and a bounded one a greatest, which is its maximum.
LEMMA Greatest ==
    ASSUME NEW S \in SUBSET Nat, S # {}, NEW n \in Nat, \A x \in S : x <= n
    PROVE  Max(S) \in S /\ \A y \in S : Max(S) >= y
<1> DEFINE D == {n - x : x \in S}
<1>1. D # {} /\ \A x \in S : n - x \in Nat
  <2>1. D # {}
    OBVIOUS
  <2>2. ASSUME NEW x \in S PROVE n - x \in Nat
    <3>1. x \in Nat /\ x <= n
      OBVIOUS
    <3> QED BY <3>1
  <2> QED BY <2>1, <2>2
<1>2. PICK d \in D : \A y \in D : d <= y
  <2>1. D \in SUBSET Nat
    BY <1>1
  <2> HIDE DEF D
  <2> QED BY <2>1, <1>1, Least
<1>3. PICK x \in S : d = n - x
  BY <1>2
<1>4. ASSUME NEW y \in S PROVE x >= y
  <2>1. n - x <= n - y
    BY <1>2, <1>3
  <2> QED BY <2>1
<1> QED BY <1>3, <1>4 DEF Max

-----------------------------------------------------------------------------
(* The order of nested loops.                                               *)

Vector(n) == [1 .. n -> Nat]

\* Vectors of a length are ordered, like the iterations of nested loops.
LEMMA PrecedesTotal ==
    ASSUME NEW n \in Nat, NEW u \in Vector(n), NEW v \in Vector(n), u # v
    PROVE  Precedes(u, v) \/ Precedes(v, u)
<1> DEFINE D == {i \in 1 .. n : u[i] # v[i]}
<1>1. D \in SUBSET Nat /\ D # {}
  BY DEF Vector
<1>2. PICK i \in D : \A j \in D : i <= j
  BY <1>1, Least
<1>3. i \in 1 .. n /\ u[i] # v[i] /\ u[i] \in Nat /\ v[i] \in Nat
  BY <1>2 DEF Vector
<1>4. \A j \in 1 .. i - 1 : u[j] = v[j]
  BY <1>2, <1>3
<1>5. DOMAIN u = 1 .. n /\ DOMAIN v = 1 .. n
  BY DEF Vector
<1>6. u[i] < v[i] \/ v[i] < u[i]
  BY <1>3
<1>7. \A j \in 1 .. i - 1 : v[j] = u[j]
  BY <1>4
<1> HIDE DEF D
<1> QED BY <1>3, <1>4, <1>5, <1>6, <1>7 DEF Precedes

\* The order is strict.
LEMMA PrecedesIrreflexive ==
    ASSUME NEW n \in Nat, NEW u \in Vector(n) PROVE ~Precedes(u, u)
BY DEF Precedes, Vector

\* It is transitive: the first place where one of the pairs differs decides.
LEMMA PrecedesTransitive ==
    ASSUME NEW n \in Nat, NEW u \in Vector(n), NEW v \in Vector(n), NEW w \in Vector(n),
           Precedes(u, v), Precedes(v, w)
    PROVE  Precedes(u, w)
<1>1. DOMAIN u = 1 .. n /\ DOMAIN v = 1 .. n
  BY DEF Vector
<1>2. PICK i \in 1 .. n : u[i] < v[i] /\ \A j \in 1 .. i - 1 : u[j] = v[j]
  BY <1>1 DEF Precedes
<1>3. PICK k \in 1 .. n : v[k] < w[k] /\ \A j \in 1 .. k - 1 : v[j] = w[j]
  BY <1>1 DEF Precedes
<1>4. u[i] \in Nat /\ v[i] \in Nat /\ w[i] \in Nat /\ u[k] \in Nat /\ v[k] \in Nat /\ w[k] \in Nat
  BY DEF Vector
<1>5. CASE i <= k
  <2>1. u[i] < w[i]
    BY <1>2, <1>3, <1>4, <1>5
  <2>2. \A j \in 1 .. i - 1 : u[j] = w[j]
    BY <1>2, <1>3, <1>5
  <2> QED BY <1>1, <2>1, <2>2 DEF Precedes
<1>6. CASE k < i
  <2>1. u[k] < w[k]
    BY <1>2, <1>3, <1>4, <1>6
  <2>2. \A j \in 1 .. k - 1 : u[j] = w[j]
    BY <1>2, <1>3, <1>6
  <2> QED BY <1>1, <2>1, <2>2 DEF Precedes
<1> QED BY <1>5, <1>6

\* No two vectors precede each other.
LEMMA PrecedesAsymmetric ==
    ASSUME NEW n \in Nat, NEW u \in Vector(n), NEW v \in Vector(n), Precedes(u, v)
    PROVE  ~Precedes(v, u) /\ u # v
BY PrecedesIrreflexive, PrecedesTransitive

\* The rank of a member of a finite set is its place in the order, from 0.
LEMMA RankRange ==
    ASSUME NEW n \in Nat, NEW S \in SUBSET Vector(n), IsFiniteSet(S), NEW u \in S
    PROVE  Rank(S, u) \in 0 .. Cardinality(S) - 1
<1> DEFINE B == {v \in S : Precedes(v, u)}
<1>1. u \notin B
  BY PrecedesIrreflexive
<1>2. IsFiniteSet(B) /\ Cardinality(B) <= Cardinality(S) /\ (Cardinality(S) = Cardinality(B) => S = B)
  <2> HIDE DEF B
  <2>1. B \in SUBSET S
    BY DEF B
  <2> QED BY <2>1, FS_Subset
<1>3. Cardinality(B) \in Nat /\ Cardinality(S) \in Nat
  BY <1>2, FS_CardinalityType
<1>4. Cardinality(B) # Cardinality(S)
  BY <1>1, <1>2
<1> QED BY <1>2, <1>3, <1>4 DEF Rank

\* The rank grows along the order,
LEMMA RankMonotonic ==
    ASSUME NEW n \in Nat, NEW S \in SUBSET Vector(n), IsFiniteSet(S),
           NEW u \in S, NEW v \in S, Precedes(u, v)
    PROVE  Rank(S, u) < Rank(S, v)
<1> DEFINE A == {w \in S : Precedes(w, u)}
           B == {w \in S : Precedes(w, v)}
<1>1. A \in SUBSET B /\ u \in B /\ u \notin A
  BY PrecedesTransitive, PrecedesIrreflexive
<1>2. IsFiniteSet(B)
  <2> HIDE DEF B
  <2>1. B \in SUBSET S
    BY DEF B
  <2> QED BY <2>1, FS_Subset
<1>3. Rank(S, u) = Cardinality(A) /\ Rank(S, v) = Cardinality(B)
  BY DEF Rank
<1> HIDE DEF A, B
<1>4. IsFiniteSet(A) /\ Cardinality(A) <= Cardinality(B) /\ (Cardinality(B) = Cardinality(A) => B = A)
  BY <1>1, <1>2, FS_Subset
<1>5. Cardinality(A) \in Nat /\ Cardinality(B) \in Nat
  BY <1>2, <1>4, FS_CardinalityType
<1> QED BY <1>1, <1>3, <1>4, <1>5

\* ... so that no two members have the same rank.
LEMMA RankInjective ==
    ASSUME NEW n \in Nat, NEW S \in SUBSET Vector(n), IsFiniteSet(S),
           NEW u \in S, NEW v \in S, Rank(S, u) = Rank(S, v)
    PROVE  u = v
<1>1. Rank(S, u) \in Int
  BY RankRange
<1>2. ~Precedes(u, v) /\ ~Precedes(v, u)
  BY <1>1, RankMonotonic
<1> QED BY <1>2, PrecedesTotal

\* InOrder lists a finite set, each member at its rank.
LEMMA InOrderEnumerates ==
    ASSUME NEW n \in Nat, NEW S \in SUBSET Vector(n), IsFiniteSet(S)
    PROVE  /\ Cardinality(S) \in Nat
           /\ InOrder(S) \in [1 .. Cardinality(S) -> S]
           /\ \A m \in 1 .. Cardinality(S) : Rank(S, InOrder(S)[m]) = m - 1
           /\ \A u \in S : /\ Rank(S, u) + 1 \in 1 .. Cardinality(S)
                           /\ InOrder(S)[Rank(S, u) + 1] = u
<1> DEFINE N == Cardinality(S)
           r == [u \in S |-> Rank(S, u)]
<1>1. N \in Nat
  BY FS_CardinalityType
<1>2. IsFiniteSet(0 .. N - 1) /\ Cardinality(0 .. N - 1) = N
  <2>1. 0 \in Int /\ N - 1 \in Int /\ (0 > N - 1 => N = 0) /\ N - 1 - 0 + 1 = N
    BY <1>1
  <2> HIDE DEF N
  <2> QED BY <2>1, FS_Interval
<1>3. r \in Injection(S, 0 .. N - 1)
  <2>1. r \in [S -> 0 .. N - 1]
    BY RankRange
  <2>2. \A u, v \in S : r[u] = r[v] => u = v
    BY RankInjective
  <2> HIDE DEF r, N
  <2> QED BY <2>1, <2>2 DEF Injection, IsInjective
<1>4. r \in Surjection(S, 0 .. N - 1)
  <2> HIDE DEF r
  <2> QED BY <1>2, <1>3, FS_Injection
<1>5. \A m \in 0 .. N - 1 : \E u \in S : Rank(S, u) = m
  <2>1. \A m \in 0 .. N - 1 : \E u \in S : r[u] = m
    <3> HIDE DEF r, N
    <3> QED BY <1>4 DEF Surjection
  <2> QED BY <2>1
<1>6. ASSUME NEW m \in 1 .. N
      PROVE  InOrder(S)[m] \in S /\ Rank(S, InOrder(S)[m]) = m - 1
  <2>1. \E u \in S : Rank(S, u) = m - 1
    BY <1>1, <1>5
  <2>2. InOrder(S)[m] = CHOOSE u \in S : Rank(S, u) = m - 1
    BY DEF InOrder
  <2> QED BY <2>1, <2>2
<1>7. InOrder(S) \in [1 .. N -> S]
  <2>1. DOMAIN InOrder(S) = 1 .. N /\ InOrder(S) = [m \in 1 .. N |-> InOrder(S)[m]]
    BY DEF InOrder
  <2> QED BY <2>1, <1>6
<1>8. ASSUME NEW u \in S
      PROVE  Rank(S, u) + 1 \in 1 .. N /\ InOrder(S)[Rank(S, u) + 1] = u
  <2>1. Rank(S, u) \in 0 .. N - 1 /\ Rank(S, u) + 1 \in 1 .. N
    BY <1>1, RankRange
  <2>2. InOrder(S)[Rank(S, u) + 1] \in S /\ Rank(S, InOrder(S)[Rank(S, u) + 1]) = Rank(S, u)
    BY <2>1, <1>6
  <2> QED BY <2>1, <2>2, RankInjective
<1> QED BY <1>1, <1>6, <1>7, <1>8
-----------------------------------------------------------------------------
(* Arithmetic of the partitions.                                            *)

\* A quotient of naturals is a natural.
LEMMA Quotient ==
    ASSUME NEW d \in Nat \ {0}, NEW f \in Nat PROVE (d * f) \div d = f /\ (d * f) % d = 0
<1>1. 0 <= 0 /\ 0 < d /\ d * f = d * f + 0
  OBVIOUS
<1> QED BY <1>1, Z3

\* Quotient and remainder make up the number.
LEMMA Euclid ==
    ASSUME NEW a \in Nat, NEW d \in Nat \ {0}
    PROVE  a \div d \in Nat /\ a % d \in 0 .. d - 1 /\ a = (a \div d) * d + (a % d)
OBVIOUS

\* Exact division.
LEMMA Divided ==
    ASSUME NEW m \in Nat, NEW d \in Nat \ {0}, m % d = 0
    PROVE  m \div d \in Nat /\ m = d * (m \div d)
<1> DEFINE q == m \div d
<1>1. q \in Nat /\ m = q * d + 0
  BY Euclid
<1> HIDE DEF q
<1>2. q * d + 0 = d * q
  BY <1>1
<1> QED BY <1>1, <1>2 DEF q

\* Every number is in one of the shares of f numbers.
LEMMA Share ==
    ASSUME NEW b \in Nat, NEW f \in Nat \ {0}
    PROVE  \E q \in Nat : q * f <= b /\ b < (q + 1) * f
<1> DEFINE q == b \div f
           r == b % f
<1>1. q \in Nat /\ r \in 0 .. f - 1 /\ b = q * f + r
  BY Euclid
<1> HIDE DEF q, r
<1>2. q * f \in Nat /\ (q + 1) * f = q * f + f
  BY <1>1
<1>3. q * f <= b /\ b < (q + 1) * f
  BY <1>1, <1>2
<1> QED BY <1>1, <1>3

\* A larger factor gives a larger product.
LEMMA TimesMonotonic ==
    ASSUME NEW a \in Nat, NEW b \in Nat, NEW c \in Nat, a <= b PROVE a * c <= b * c
OBVIOUS

\* ... and in only one.
LEMMA ShareUnique ==
    ASSUME NEW b \in Nat, NEW f \in Nat \ {0}, NEW q \in Nat, NEW r \in Nat,
           q * f <= b, b < (q + 1) * f, r * f <= b, b < (r + 1) * f
    PROVE  q = r
<1>1. q + 1 <= r => (q + 1) * f <= r * f
  BY TimesMonotonic
<1>2. r + 1 <= q => (r + 1) * f <= q * f
  BY TimesMonotonic
<1>3. q * f \in Nat /\ r * f \in Nat /\ (q + 1) * f \in Nat /\ (r + 1) * f \in Nat
  OBVIOUS
<1> QED BY <1>1, <1>2, <1>3

\* There are d shares of d * f numbers.
LEMMA ShareBelow ==
    ASSUME NEW b \in Nat, NEW f \in Nat \ {0}, NEW q \in Nat, NEW d \in Nat,
           q * f <= b, b < d * f
    PROVE  q < d
<1>1. d <= q => d * f <= q * f
  BY TimesMonotonic
<1>2. d * f \in Nat /\ q * f \in Nat
  OBVIOUS
<1> QED BY <1>1, <1>2

\* The greatest common divisor is a divisor of both.
LEMMA GcdDivides ==
    ASSUME NEW m \in Nat \ {0}, NEW n \in Nat \ {0}
    PROVE  /\ Gcd(m, n) \in Nat \ {0}
           /\ m % Gcd(m, n) = 0 /\ n % Gcd(m, n) = 0
           /\ n = 1 \/ m = 1 => Gcd(m, n) = 1
<1> DEFINE S == {d \in 1 .. m : m % d = 0 /\ n % d = 0}
<1>1. 1 \in S /\ S \in SUBSET Nat /\ \A d \in S : d <= m
  OBVIOUS
<1>2. Max(S) \in S
  <2> HIDE DEF S
  <2> QED BY <1>1, Greatest
<1>3. Gcd(m, n) \in 1 .. m /\ m % Gcd(m, n) = 0 /\ n % Gcd(m, n) = 0
  BY <1>2 DEF Gcd
<1>4. ASSUME NEW d \in Nat \ {0}, 1 % d = 0 PROVE d = 1
  BY <1>4
<1> QED BY <1>3, <1>4
-----------------------------------------------------------------------------
(* Blocks and events.                                                       *)

\* A finite set of naturals has a greatest element: a smallest subset without one
\* would have one when any of its members is put back.
LEMMA FiniteGreatest ==
    ASSUME NEW S \in SUBSET Nat, S # {}, IsFiniteSet(S)
    PROVE  Max(S) \in S /\ \A y \in S : Max(S) >= y
<1> DEFINE Topped(A) == \E x \in A : \A y \in A : x >= y
           R == StrictSubsetOrdering(S)
           F == FiniteSubsetsOf(S)
           T == {A \in SUBSET S : A # {} /\ ~Topped(A)}
<1>1. IsWellFoundedOn(R, F) /\ F = SUBSET S
  BY FS_StrictSubsetOrderingWellFounded, FS_FiniteSubsetsOfFinite
<1>2. T = {}
  <2> SUFFICES ASSUME T # {} PROVE FALSE
    OBVIOUS
  <2>1. T \subseteq F
    BY <1>1
  <2>2. \E A \in T : \A B \in T : ~ (<<B, A>> \in R)
    <3> HIDE DEF T, F, R
    <3> QED BY <1>1, <2>1, WFMin
  <2>3. PICK A \in T : \A B \in T : ~ (<<B, A>> \in R)
    BY <2>2
  <2>4. PICK x \in A : TRUE
    OBVIOUS
  <2> DEFINE B == A \ {x}
  <2>5. B \in SUBSET S /\ B \subseteq A /\ B # A /\ A \in SUBSET S /\ x \in Nat
    BY <2>4
  <2>6. <<B, A>> \in R
    BY <2>5 DEF StrictSubsetOrdering
  <2>7. B = {} \/ Topped(B)
    BY <2>3, <2>5, <2>6
  <2>8. Topped(A)
    <3>1. CASE B = {}
      <4>1. A = {x}
        BY <3>1, <2>4
      <4> QED BY <4>1, <2>5
    <3>2. CASE Topped(B)
      <4>1. PICK z \in B : \A y \in B : z >= y
        BY <3>2
      <4>2. z \in Nat /\ z \in A /\ x \in A /\ \A y \in A : y \in Nat /\ (y = x \/ z >= y)
        BY <4>1, <2>5
      <4>3. CASE z >= x
        BY <4>2, <4>3
      <4>4. CASE x >= z
        BY <4>2, <4>4, <2>5
      <4> QED BY <4>2, <4>3, <4>4, <2>5
    <3> QED BY <3>1, <3>2, <2>7
  <2> QED BY <2>8
<1>3. Topped(S)
  BY <1>2
<1> QED BY <1>3 DEF Max

\* The vectors below a bound, as they are meant: the set the definition picks them
\* from is wide enough.  There are finitely many.
LEMMA BelowIs ==
    ASSUME NEW n \in Nat \ {0}, NEW bounds \in [1 .. n -> Nat \ {0}]
    PROVE  /\ Below(bounds) = {v \in Vector(n) : \A i \in 1 .. n : v[i] < bounds[i]}
           /\ IsFiniteSet(Below(bounds))
<1> DEFINE S == Range(bounds)
           M == Max(S) - 1
<1>1. DOMAIN bounds = 1 .. n /\ \A i \in 1 .. n : bounds[i] \in S /\ bounds[i] \in Nat \ {0}
  BY DEF Range
<1>2. S \in SUBSET Nat /\ S # {}
  <2>1. 1 \in 1 .. n
    OBVIOUS
  <2>2. \A x \in S : x \in Nat
    BY <1>1 DEF Range
  <2> QED BY <1>1, <2>1, <2>2
<1>3. IsFiniteSet(S)
  <2>1. bounds \in Surjection(1 .. n, S)
    BY DEF Surjection, Range
  <2>2. IsFiniteSet(1 .. n)
    BY FS_Interval
  <2> HIDE DEF S
  <2> QED BY <2>1, <2>2, FS_Surjection
<1>4. Max(S) \in Nat /\ \A i \in 1 .. n : bounds[i] <= Max(S)
  <2>1. Max(S) \in S /\ \A y \in S : Max(S) >= y
    <3> HIDE DEF S
    <3> QED BY <1>2, <1>3, FiniteGreatest
  <2> QED BY <2>1, <1>1, <1>2
<1>5. M \in Nat
  <2>1. 1 \in 1 .. n
    OBVIOUS
  <2> QED BY <2>1, <1>1, <1>4
<1> HIDE DEF S
<1>6. Below(bounds) = {v \in [1 .. n -> 0 .. M] : \A i \in 1 .. n : v[i] < bounds[i]}
  BY <1>1 DEF Below, S
<1>7. Below(bounds) = {v \in Vector(n) : \A i \in 1 .. n : v[i] < bounds[i]}
  <2>1. \A v \in Vector(n) : (\A i \in 1 .. n : v[i] < bounds[i]) => v \in [1 .. n -> 0 .. M]
    <3> TAKE v \in Vector(n)
    <3> HAVE \A i \in 1 .. n : v[i] < bounds[i]
    <3>1. \A i \in 1 .. n : v[i] \in 0 .. M
      BY <1>1, <1>4 DEF Vector
    <3> QED BY <3>1 DEF Vector
  <2>2. [1 .. n -> 0 .. M] \subseteq Vector(n)
    BY <1>5 DEF Vector
  <2> QED BY <1>6, <2>1, <2>2
<1>8. IsFiniteSet(Below(bounds))
  <2> DEFINE P == (1 .. n) \X (0 .. M)
             graphOf == [v \in Below(bounds) |-> {<<i, v[i]>> : i \in 1 .. n}]
  <2>1. IsFiniteSet(SUBSET P)
    <3>1. IsFiniteSet(1 .. n) /\ IsFiniteSet(0 .. M)
      BY <1>5, FS_Interval
    <3>2. IsFiniteSet(P)
      BY <3>1, FS_Product
    <3> QED BY <3>2, FS_SUBSET
  <2>2. graphOf \in [Below(bounds) -> SUBSET P]
    BY <1>6
  <2>3. ASSUME NEW u \in Below(bounds), NEW v \in Below(bounds), graphOf[u] = graphOf[v]
        PROVE  u = v
    <3>1. \A i \in 1 .. n : <<i, u[i]>> \in {<<j, v[j]>> : j \in 1 .. n}
      BY <2>3
    <3>2. \A i \in 1 .. n : u[i] = v[i]
      BY <3>1
    <3> QED BY <3>2, <1>6
  <2>4. graphOf \in Injection(Below(bounds), SUBSET P)
    <3> HIDE DEF graphOf
    <3> QED BY <2>2, <2>3 DEF Injection, IsInjective
  <2> HIDE DEF P, graphOf
  <2> QED BY <2>1, <2>4, FS_Injection
<1> QED BY <1>7, <1>8
-----------------------------------------------------------------------------
(* The blocks are shared out among the events.                              *)

Mapping(map) ==
    /\ map \in [GridDim -> TensorDim \cup {NotMapped}]
    /\ \A g, h \in GridDim : map[g] = map[h] => g = h \/ map[g] = NotMapped
Gridded(op) == op.grid \in [GridDim -> Nat \ {0}]

\* The numbers of events divide the grid of the operator.
Splits(dims, op, map) ==
    /\ dims \in [TensorDim -> Nat \ {0}]
    /\ \A g \in GridDim : map[g] # NotMapped =>
         \E f \in Nat \ {0} : op.grid[g] = dims[map[g]] * f
    /\ \A d \in TensorDim : (\A g \in GridDim : map[g] # d) => dims[d] = 1

\* A dimension of a tensor is cut by one dimension of the grid, or left whole.
LEMMA PartitionIs ==
    ASSUME NEW op, Gridded(op), NEW map, Mapping(map), NEW d \in TensorDim
    PROVE  /\ Partition(op, map)[d] \in Nat \ {0}
           /\ \A g \in GridDim : map[g] = d => Partition(op, map)[d] = op.grid[g]
           /\ (\A g \in GridDim : map[g] # d) => Partition(op, map)[d] = 1
<1> DEFINE cuts == {g \in GridDim : map[g] = d}
<1>1. Partition(op, map)[d] = IF cuts = {} THEN 1 ELSE op.grid[Max(cuts)]
  BY DEF Partition
<1>2. CASE cuts = {}
  BY <1>1, <1>2
<1>3. CASE cuts # {}
  <2>1. PICK g \in GridDim : map[g] = d
    BY <1>3
  <2>2. d # NotMapped
    BY GraphsAssumption DEF TensorDim, NotMapped
  <2>3. cuts = {g}
    BY <2>1, <2>2 DEF Mapping
  <2>4. g \in Nat
    BY DEF GridDim
  <2>5. Max({g}) = g
    <3>1. \E x \in {g} : \A y \in {g} : x >= y
      BY <2>4
    <3> QED BY <3>1 DEF Max
  <2>6. op.grid[g] \in Nat \ {0}
    BY DEF Gridded
  <2> QED BY <1>1, <1>3, <2>1, <2>3, <2>5, <2>6
<1> QED BY <1>2, <1>3

\* The numbers of events divide the grids on both sides.
LEMMA EventDimsSplit ==
    ASSUME NEW pre, Gridded(pre), NEW out_map, Mapping(out_map),
           NEW op, Gridded(op), NEW in_map, Mapping(in_map)
    PROVE  LET dims == EventDims(pre, out_map, op, in_map)
           IN  Splits(dims, pre, out_map) /\ Splits(dims, op, in_map)
<1> DEFINE dims == EventDims(pre, out_map, op, in_map)
           P(d) == Partition(pre, out_map)[d]
           Q(d) == Partition(op, in_map)[d]
<1>1. ASSUME NEW d \in TensorDim
      PROVE  /\ dims[d] \in Nat \ {0}
             /\ P(d) = dims[d] * (P(d) \div dims[d]) /\ P(d) \div dims[d] \in Nat \ {0}
             /\ Q(d) = dims[d] * (Q(d) \div dims[d]) /\ Q(d) \div dims[d] \in Nat \ {0}
             /\ P(d) = 1 \/ Q(d) = 1 => dims[d] = 1
  <2>1. P(d) \in Nat \ {0} /\ Q(d) \in Nat \ {0}
    BY PartitionIs
  <2>2. dims[d] = Gcd(P(d), Q(d))
    BY DEF EventDims
  <2> HIDE DEF dims, P, Q
  <2>3. /\ dims[d] \in Nat \ {0} /\ P(d) % dims[d] = 0 /\ Q(d) % dims[d] = 0
        /\ P(d) = 1 \/ Q(d) = 1 => dims[d] = 1
    BY <2>1, <2>2, GcdDivides
  <2>4. /\ P(d) = dims[d] * (P(d) \div dims[d]) /\ P(d) \div dims[d] \in Nat
        /\ Q(d) = dims[d] * (Q(d) \div dims[d]) /\ Q(d) \div dims[d] \in Nat
    BY <2>1, <2>3, Divided
  <2>5. P(d) \div dims[d] # 0 /\ Q(d) \div dims[d] # 0
    BY <2>1, <2>3, <2>4
  <2> QED BY <2>3, <2>4, <2>5
<1>2. dims \in [TensorDim -> Nat \ {0}]
  BY <1>1 DEF EventDims
<1>3. Splits(dims, pre, out_map)
  <2>1. ASSUME NEW g \in GridDim, out_map[g] # NotMapped
        PROVE  \E f \in Nat \ {0} : pre.grid[g] = dims[out_map[g]] * f
    <3>1. out_map[g] \in TensorDim
      BY <2>1 DEF Mapping
    <3>2. pre.grid[g] = P(out_map[g])
      BY <3>1, PartitionIs
    <3> HIDE DEF dims, P, Q
    <3> QED BY <3>1, <3>2, <1>1
  <2>2. ASSUME NEW d \in TensorDim, \A g \in GridDim : out_map[g] # d PROVE dims[d] = 1
    <3>1. P(d) = 1
      BY <2>2, PartitionIs
    <3> HIDE DEF dims, P, Q
    <3> QED BY <3>1, <1>1
  <2> HIDE DEF dims
  <2> QED BY <1>2, <2>1, <2>2 DEF Splits
<1>4. Splits(dims, op, in_map)
  <2>1. ASSUME NEW g \in GridDim, in_map[g] # NotMapped
        PROVE  \E f \in Nat \ {0} : op.grid[g] = dims[in_map[g]] * f
    <3>1. in_map[g] \in TensorDim
      BY <2>1 DEF Mapping
    <3>2. op.grid[g] = Q(in_map[g])
      BY <3>1, PartitionIs
    <3> HIDE DEF dims, P, Q
    <3> QED BY <3>1, <3>2, <1>1
  <2>2. ASSUME NEW d \in TensorDim, \A g \in GridDim : in_map[g] # d PROVE dims[d] = 1
    <3>1. Q(d) = 1
      BY <2>2, PartitionIs
    <3> HIDE DEF dims, P, Q
    <3> QED BY <3>1, <1>1
  <2> HIDE DEF dims
  <2> QED BY <1>2, <2>1, <2>2 DEF Splits
<1> QED BY <1>3, <1>4

\* The blocks and the events of an operator, and the division in Part without it.
LEMMA BlocksAndEvents ==
    ASSUME NEW op, Gridded(op), NEW map, Mapping(map), NEW dims, Splits(dims, op, map)
    PROVE  /\ \A b : b \in Blocks(op) <=>
                       b \in [GridDim -> Nat] /\ \A g \in GridDim : b[g] < op.grid[g]
           /\ \A v : v \in Below(dims) <=>
                       v \in [TensorDim -> Nat] /\ \A d \in TensorDim : v[d] < dims[d]
           /\ IsFiniteSet(Blocks(op)) /\ IsFiniteSet(Below(dims))
           /\ \A g \in GridDim : map[g] # NotMapped =>
                /\ map[g] \in TensorDim
                /\ op.grid[g] \div dims[map[g]] \in Nat \ {0}
                /\ op.grid[g] = dims[map[g]] * (op.grid[g] \div dims[map[g]])
<1>1. /\ Below(op.grid) = {v \in Vector(3) : \A i \in 1 .. 3 : v[i] < op.grid[i]}
      /\ IsFiniteSet(Below(op.grid))
  <2>1. op.grid \in [1 .. 3 -> Nat \ {0}] /\ 3 \in Nat \ {0}
    BY DEF Gridded, GridDim
  <2> QED BY <2>1, BelowIs
<1>2. /\ Below(dims) = {v \in Vector(MAX_TENSOR_DIMS) : \A i \in 1 .. MAX_TENSOR_DIMS : v[i] < dims[i]}
      /\ IsFiniteSet(Below(dims))
  BY BelowIs, GraphsAssumption DEF Splits, TensorDim
<1>3. ASSUME NEW g \in GridDim, map[g] # NotMapped
      PROVE  /\ map[g] \in TensorDim
             /\ op.grid[g] \div dims[map[g]] \in Nat \ {0}
             /\ op.grid[g] = dims[map[g]] * (op.grid[g] \div dims[map[g]])
  <2>1. map[g] \in TensorDim
    BY <1>3 DEF Mapping
  <2>2. PICK f \in Nat \ {0} : op.grid[g] = dims[map[g]] * f
    BY <1>3 DEF Splits
  <2>3. dims[map[g]] \in Nat \ {0}
    BY <2>1 DEF Splits
  <2>4. op.grid[g] \div dims[map[g]] = f
    BY <2>2, <2>3, Quotient
  <2> QED BY <2>1, <2>2, <2>4
<1> QED BY <1>1, <1>2, <1>3 DEF Blocks, Vector, GridDim, TensorDim

\* Every block belongs to exactly one event,
LEMMA OneEvent ==
    ASSUME NEW op, Gridded(op), NEW map, Mapping(map), NEW dims, Splits(dims, op, map),
           NEW b \in Blocks(op)
    PROVE  \E v \in Below(dims) : \A w \in Below(dims) : b \in Part(op, map, dims, w) <=> w = v
<1> DEFINE F(g) == op.grid[g] \div dims[map[g]]
           Cut(d) == \E g \in GridDim : map[g] = d
           By(d) == CHOOSE g \in GridDim : map[g] = d
           v == [d \in TensorDim |->
                   IF Cut(d) THEN CHOOSE q \in Nat : q * F(By(d)) <= b[By(d)] /\ b[By(d)] < (q + 1) * F(By(d))
                   ELSE 0]
<1>1. /\ b \in [GridDim -> Nat] /\ \A g \in GridDim : b[g] < op.grid[g]
      /\ \A w : w \in Below(dims) <=>
                       w \in [TensorDim -> Nat] /\ \A d \in TensorDim : w[d] < dims[d]
      /\ \A g \in GridDim : map[g] # NotMapped =>
           map[g] \in TensorDim /\ F(g) \in Nat \ {0} /\ op.grid[g] = dims[map[g]] * F(g)
  BY BlocksAndEvents
<1>2. \A w : b \in Part(op, map, dims, w) <=>
               \A g \in GridDim : map[g] # NotMapped =>
                 b[g] >= w[map[g]] * F(g) /\ b[g] < (w[map[g]] + 1) * F(g)
  BY DEF Part
<1>3. ASSUME NEW d \in TensorDim, Cut(d)
      PROVE  /\ By(d) \in GridDim /\ map[By(d)] = d /\ d # NotMapped
             /\ F(By(d)) \in Nat \ {0}
             /\ v[d] \in Nat /\ v[d] * F(By(d)) <= b[By(d)] /\ b[By(d)] < (v[d] + 1) * F(By(d))
             /\ v[d] < dims[d]
  <2>1. By(d) \in GridDim /\ map[By(d)] = d
    BY <1>3
  <2>2. d # NotMapped
    BY GraphsAssumption DEF TensorDim, NotMapped
  <2> DEFINE g == By(d)
             f == F(g)
             c == b[g]
  <2>3. f \in Nat \ {0} /\ c \in Nat /\ c < dims[d] * f
    BY <1>1, <2>1, <2>2
  <2>4. v[d] = CHOOSE q \in Nat : q * f <= c /\ c < (q + 1) * f
    BY <1>3
  <2>5. dims[d] \in Nat
    BY DEF Splits
  <2> HIDE DEF f, c, v, g
  <2>6. \E q \in Nat : q * f <= c /\ c < (q + 1) * f
    BY <2>3, Share
  <2>7. v[d] \in Nat /\ v[d] * f <= c /\ c < (v[d] + 1) * f
    BY <2>4, <2>6
  <2>8. v[d] < dims[d]
    BY <2>3, <2>5, <2>7, ShareBelow
  <2> QED BY <2>1, <2>2, <2>3, <2>7, <2>8 DEF f, c, g
<1>4. ASSUME NEW d \in TensorDim, ~Cut(d) PROVE v[d] = 0 /\ dims[d] = 1
  BY <1>4 DEF Splits
<1>5. v \in Below(dims)
  <2>1. \A d \in TensorDim : v[d] \in Nat /\ v[d] < dims[d]
    <3> HIDE DEF Cut, By, F, v
    <3> QED BY <1>3, <1>4
  <2>2. v \in [TensorDim -> Nat]
    <3>1. v = [d \in TensorDim |-> v[d]]
      OBVIOUS
    <3> HIDE DEF v
    <3> QED BY <2>1, <3>1
  <2> HIDE DEF v
  <2> QED BY <1>1, <2>1, <2>2
<1>6. ASSUME NEW g \in GridDim, map[g] # NotMapped
      PROVE  map[g] \in TensorDim /\ Cut(map[g]) /\ By(map[g]) = g
  <2>1. map[g] \in TensorDim /\ Cut(map[g])
    BY <1>1, <1>6
  <2>2. By(map[g]) \in GridDim /\ map[By(map[g])] = map[g]
    BY <2>1, <1>3
  <2> QED BY <2>1, <2>2, <1>6 DEF Mapping
<1>7. b \in Part(op, map, dims, v)
  <2> SUFFICES ASSUME NEW g \in GridDim, map[g] # NotMapped
               PROVE  b[g] >= v[map[g]] * F(g) /\ b[g] < (v[map[g]] + 1) * F(g)
    <3> HIDE DEF v, F
    <3> QED BY <1>2
  <2>1. map[g] \in TensorDim /\ Cut(map[g]) /\ By(map[g]) = g
    BY <1>6
  <2> HIDE DEF v, F, Cut, By
  <2>2. v[map[g]] * F(g) <= b[g] /\ b[g] < (v[map[g]] + 1) * F(g)
        /\ v[map[g]] \in Nat /\ F(g) \in Nat
    BY <2>1, <1>3
  <2>3. b[g] \in Nat /\ v[map[g]] * F(g) \in Nat
    BY <2>2, <1>1
  <2> QED BY <2>2, <2>3
<1>8. ASSUME NEW w \in Below(dims), b \in Part(op, map, dims, w) PROVE w = v
  <2>1. w \in [TensorDim -> Nat] /\ \A d \in TensorDim : w[d] < dims[d]
    BY <1>1
  <2>2. ASSUME NEW d \in TensorDim PROVE w[d] = v[d]
    <3>1. CASE Cut(d)
      <4> DEFINE g == By(d)
      <4>1. g \in GridDim /\ map[g] = d /\ d # NotMapped /\ F(g) \in Nat \ {0}
            /\ v[d] \in Nat /\ v[d] * F(g) <= b[g] /\ b[g] < (v[d] + 1) * F(g)
        BY <1>3, <3>1
      <4>2. b[g] >= w[d] * F(g) /\ b[g] < (w[d] + 1) * F(g)
        <5> HIDE DEF g, F, v
        <5> QED BY <1>2, <1>8, <4>1
      <4> HIDE DEF g, F, v, Cut, By
      <4>3. b[g] \in Nat /\ w[d] \in Nat /\ w[d] * F(g) \in Nat
        BY <1>1, <2>1, <4>1
      <4>4. w[d] * F(g) <= b[g]
        BY <4>2, <4>3
      <4> QED BY <4>1, <4>2, <4>3, <4>4, ShareUnique
    <3>2. CASE ~Cut(d)
      <4>1. v[d] = 0 /\ dims[d] = 1
        BY <3>2, <1>4
      <4>2. w[d] \in Nat /\ w[d] < dims[d]
        BY <2>1
      <4> HIDE DEF v
      <4> QED BY <4>1, <4>2
    <3> HIDE DEF v, Cut
    <3> QED BY <3>1, <3>2
  <2>3. v \in [TensorDim -> Nat]
    BY <1>1, <1>5
  <2> HIDE DEF v
  <2> QED BY <2>1, <2>2, <2>3
<1> HIDE DEF v
<1> QED BY <1>5, <1>7, <1>8

\* ... and every event has a block, the first of its share.
LEMMA SomeBlock ==
    ASSUME NEW op, Gridded(op), NEW map, Mapping(map), NEW dims, Splits(dims, op, map),
           NEW v \in Below(dims)
    PROVE  Part(op, map, dims, v) # {} /\ Part(op, map, dims, v) \subseteq Blocks(op)
<1> DEFINE F(g) == op.grid[g] \div dims[map[g]]
           b == [g \in GridDim |-> IF map[g] = NotMapped THEN 0 ELSE v[map[g]] * F(g)]
<1>1. /\ v \in [TensorDim -> Nat] /\ \A d \in TensorDim : v[d] < dims[d] /\ dims[d] \in Nat
      /\ \A c : c \in Blocks(op) <=>
                       c \in [GridDim -> Nat] /\ \A g \in GridDim : c[g] < op.grid[g]
      /\ \A g \in GridDim : map[g] # NotMapped =>
           map[g] \in TensorDim /\ F(g) \in Nat \ {0} /\ op.grid[g] = dims[map[g]] * F(g)
  BY BlocksAndEvents DEF Splits
<1>2. ASSUME NEW g \in GridDim, map[g] # NotMapped
      PROVE  /\ b[g] \in Nat /\ b[g] < op.grid[g]
             /\ b[g] >= v[map[g]] * F(g) /\ b[g] < (v[map[g]] + 1) * F(g)
  <2>1. b[g] = v[map[g]] * F(g)
    BY <1>2
  <2>2. v[map[g]] \in Nat /\ F(g) \in Nat \ {0} /\ dims[map[g]] \in Nat
        /\ v[map[g]] < dims[map[g]] /\ op.grid[g] = dims[map[g]] * F(g)
    BY <1>1, <1>2
  <2> HIDE DEF F, b
  <2>3. (v[map[g]] + 1) * F(g) <= dims[map[g]] * F(g)
    BY <2>2, TimesMonotonic
  <2>4. (v[map[g]] + 1) * F(g) = v[map[g]] * F(g) + F(g) /\ v[map[g]] * F(g) \in Nat
    BY <2>2
  <2> QED BY <2>1, <2>2, <2>3, <2>4
<1>3. ASSUME NEW g \in GridDim, map[g] = NotMapped PROVE b[g] \in Nat /\ b[g] < op.grid[g]
  BY <1>3 DEF Gridded
<1>4. b \in Blocks(op)
  <2>1. b \in [GridDim -> Nat]
    BY <1>2, <1>3
  <2> HIDE DEF b
  <2> QED BY <1>1, <1>2, <1>3, <2>1
<1> HIDE DEF b
<1> QED BY <1>2, <1>4 DEF Part
-----------------------------------------------------------------------------
(* What is built, operator after operator.                                  *)

\* What AddOperator works with.
Dims(k) == EventDims(graph[k - 1], JoinOutput(k).map, graph[k], JoinInput(k).map)
Consuming(k, v) == Part(graph[k], JoinInput(k).map, Dims(k), v)
Producing(k, v) == Part(graph[k - 1], JoinOutput(k).map, Dims(k), v)
Pushes(k) == UNION { {v \o b : b \in Consuming(k, v)} : v \in Below(Dims(k)) }
BidOf(push) == [g \in GridDim |-> push[MAX_TENSOR_DIMS + g]]

\* Block b of operator k waits for block c of the operator before it.
Joined(k, c, b) ==
    \E v \in Below(Dims(k)) : c \in Producing(k, v) /\ b \in Consuming(k, v)

AnyTask == [op : Nat, bid : Seq(Nat), dependent_event : Int, trigger_event : Int]
EventType ==
    {"TERMINATION", "LAUNCH_DEPENDENT_TASKS", "LAUNCH_TASKS", "EMPTY", "END_OF_TASK_GRAPH"}
AnyEvent == [type : EventType, num_triggers : Nat, first_task_id : Nat, last_task_id : Nat]

\* The tasks are the blocks of the operators up to here, each once, and
\* pre_task_map finds those of the last one.
TasksOK ==
    /\ graph \in Graphs
    /\ next \in 1 .. Len(graph) + 1
    /\ built \in BOOLEAN
    /\ all_tasks \in Seq(AnyTask) /\ Len(all_tasks) >= 2
    /\ \A p \in Task : /\ TaskAt(p).op \in 1 .. next - 1
                       /\ TaskAt(p).bid \in Blocks(graph[TaskAt(p).op])
    /\ \A k \in 1 .. next - 1 : \A b \in Blocks(graph[k]) :
         \E p \in Task : TaskAt(p).op = k /\ TaskAt(p).bid = b
    /\ \A p, q \in Task : TaskAt(p).op = TaskAt(q).op /\ TaskAt(p).bid = TaskAt(q).bid => p = q
    /\ first_tasks = {p \in Task : TaskAt(p).op = 1}
    /\ next > 1 =>
         /\ pre_task_map \in [Blocks(graph[next - 1]) -> Task]
         /\ \A b \in Blocks(graph[next - 1]) : /\ TaskAt(pre_task_map[b]).op = next - 1
                                               /\ TaskAt(pre_task_map[b]).bid = b

\* The events while the graph grows: each counts the tasks that trigger it.
EventsGrow ==
    /\ all_events \in Seq(AnyEvent) /\ Len(all_events) >= 2
    /\ EventAt(LaunchEvent).num_triggers = 1
    /\ \A e \in Event : EventAt(e).type = "LAUNCH_TASKS" <=> e > LaunchEvent
    /\ \A e \in LaunchEvent + 1 .. EndEvent :
         /\ EventAt(e).num_triggers = Cardinality(Producers(e)) /\ EventAt(e).num_triggers > 0
         /\ EventAt(e).last_task_id <= Len(all_tasks)
         /\ \A r \in Producers(e) : r < EventAt(e).first_task_id
    /\ TaskAt(TerminateTask).trigger_event = NoEvent
    /\ TaskAt(BeginTask).trigger_event = LaunchEvent
    /\ \A p \in Task : IF TaskAt(p).op = next - 1 THEN TaskAt(p).trigger_event = NoEvent
                       ELSE TaskAt(p).trigger_event \in LaunchEvent + 1 .. EndEvent

InRange(p, e) == p >= EventAt(e).first_task_id /\ p < EventAt(e).last_task_id

\* ... and its producers are the blocks that its tasks are joined with.
JoinsGrow ==
    \A p \in Task :
      LET k == TaskAt(p).op
      IN  /\ k = 1 => \A e \in LaunchEvent + 1 .. EndEvent : ~InRange(p, e)
          /\ k > 1 => \E e \in LaunchEvent + 1 .. EndEvent : InRange(p, e)
          /\ \A e \in LaunchEvent + 1 .. EndEvent : InRange(p, e) =>
               \A r \in Task : TaskAt(r).trigger_event = e <=>
                                 TaskAt(r).op = k - 1 /\ Joined(k, TaskAt(r).bid, TaskAt(p).bid)

\* The graph when it is complete.
Complete ==
    /\ next = Len(graph) + 1
    /\ RuntimeReady
    /\ \A p \in Task : p \notin first_tasks => Producers(TaskAt(p).dependent_event) \subseteq Task
    /\ \A p \in Task : \A r \in Task :
         /\ TaskAt(p).op > 1 =>
              (TaskAt(r).trigger_event = TaskAt(p).dependent_event <=>
                 TaskAt(r).op = TaskAt(p).op - 1
                 /\ Joined(TaskAt(p).op, TaskAt(r).bid, TaskAt(p).bid))
         /\ TaskAt(r).trigger_event = EndEvent <=> TaskAt(r).op = Len(graph)

Growing == EventsGrow /\ JoinsGrow
GraphInv == TasksOK /\ (~built => Growing) /\ (built => Complete)
-----------------------------------------------------------------------------
(* The operators and what they share.                                       *)

\* A sequence over a set, by its length and its members.
LEMMA SeqOf ==
    ASSUME NEW S, NEW n \in Nat, NEW f \in [1 .. n -> S]
    PROVE  f \in Seq(S) /\ Len(f) = n /\ DOMAIN f = 1 .. n
<1>1. f \in Seq(S)
  BY SeqDef
<1>2. DOMAIN f = 1 .. n
  OBVIOUS
<1>3. Len(f) \in Nat /\ DOMAIN f = 1 .. Len(f)
  BY <1>1, LenProperties
<1>4. 1 .. Len(f) = 1 .. n
  BY <1>2, <1>3
<1>5. Len(f) = n
  <2>1. Len(f) > n => Len(f) \in 1 .. Len(f) /\ Len(f) \notin 1 .. n
    BY <1>3
  <2>2. Len(f) < n => n \in 1 .. n /\ n \notin 1 .. Len(f)
    BY <1>3
  <2> QED BY <1>3, <1>4, <2>1, <2>2
<1> QED BY <1>1, <1>2, <1>5

\* What GraphsAssumption says of the graph that is registered.
LEMMA GraphFacts ==
    ASSUME graph \in Graphs
    PROVE  /\ Len(graph) \in Nat \ {0} /\ DOMAIN graph = 1 .. Len(graph)
           /\ \A k \in 1 .. Len(graph) : graph[k] \in Operator /\ Gridded(graph[k])
<1>1. graph \in Seq(Operator) /\ graph # << >>
  BY GraphsAssumption
<1>2. Len(graph) \in Nat \ {0}
  BY <1>1, EmptySeq
<1>3. DOMAIN graph = 1 .. Len(graph) /\ graph \in [1 .. Len(graph) -> Operator]
  BY <1>1, LenProperties
<1> QED BY <1>2, <1>3 DEF Gridded, Operator

\* The accesses of an operator.
LEMMA AccessFacts ==
    ASSUME graph \in Graphs, NEW k \in 1 .. Len(graph)
    PROVE  /\ DOMAIN graph[k].inputs = 1 .. Len(graph[k].inputs) /\ Len(graph[k].inputs) \in Nat
           /\ \A i \in DOMAIN graph[k].inputs : graph[k].inputs[i] \in Range(graph[k].inputs)
           /\ \A i \in DOMAIN graph[k].outputs :
                /\ graph[k].outputs[i] \in Range(graph[k].outputs)
                /\ graph[k].outputs[i].tensor = <<k, i>>
           /\ \A a \in Range(graph[k].inputs) \cup Range(graph[k].outputs) :
                a \in Access /\ Mapping(a.map)
           /\ \A a \in Range(graph[k].inputs) :
                /\ a.tensor[1] \in 1 .. k - 1
                /\ a.tensor[2] \in DOMAIN graph[a.tensor[1]].outputs
           /\ k > 1 => \E a \in Range(graph[k].inputs) : a.tensor[1] = k - 1
<1>1. k \in DOMAIN graph /\ graph[k] \in Operator /\ k \in Nat
  BY GraphFacts
<1>2. graph[k].inputs \in Seq(Access) /\ graph[k].outputs \in Seq(Access)
  BY <1>1 DEF Operator
<1>3. /\ DOMAIN graph[k].inputs = 1 .. Len(graph[k].inputs) /\ Len(graph[k].inputs) \in Nat
      /\ graph[k].inputs \in [1 .. Len(graph[k].inputs) -> Access]
  BY <1>2, LenProperties
<1>4. graph[k].outputs \in [DOMAIN graph[k].outputs -> Access]
  BY <1>2, LenProperties
<1>5. Range(graph[k].inputs) \cup Range(graph[k].outputs) \subseteq Access
  BY <1>3, <1>4 DEF Range
<1>6. \A a \in Range(graph[k].inputs) \cup Range(graph[k].outputs) : Mapping(a.map)
  BY <1>1, <1>5, GraphsAssumption DEF Mapping, Access
<1>7. ASSUME NEW a \in Range(graph[k].inputs)
      PROVE  a.tensor[1] \in 1 .. k - 1 /\ a.tensor[2] \in DOMAIN graph[a.tensor[1]].outputs
  <2>1. a.tensor[1] < k /\ a.tensor[2] \in DOMAIN graph[a.tensor[1]].outputs
    BY <1>1, GraphsAssumption
  <2>2. a.tensor \in (Nat \ {0}) \X (Nat \ {0})
    BY <1>5 DEF Access
  <2>3. a.tensor[1] \in Nat \ {0}
    BY <2>2
  <2> QED BY <1>1, <2>1, <2>3
<1>8. \A i \in DOMAIN graph[k].outputs : graph[k].outputs[i].tensor = <<k, i>>
  BY <1>1, GraphsAssumption
<1>9. k > 1 => \E a \in Range(graph[k].inputs) : a.tensor[1] = k - 1
  BY <1>1, GraphsAssumption
<1>10. /\ \A i \in DOMAIN graph[k].inputs : graph[k].inputs[i] \in Range(graph[k].inputs)
       /\ \A i \in DOMAIN graph[k].outputs : graph[k].outputs[i] \in Range(graph[k].outputs)
  BY DEF Range
<1> QED BY <1>3, <1>5, <1>6, <1>7, <1>8, <1>9, <1>10

\* Two operators in a row are joined through a tensor that both know.
LEMMA JoinFacts ==
    ASSUME graph \in Graphs, NEW k \in 2 .. Len(graph)
    PROVE  /\ JoinInput(k) \in Range(graph[k].inputs) /\ JoinInput(k).tensor[1] = k - 1
           /\ JoinOutput(k) \in Range(graph[k - 1].outputs)
           /\ JoinOutput(k) = graph[k - 1].outputs[JoinInput(k).tensor[2]]
           /\ Mapping(JoinInput(k).map) /\ Mapping(JoinOutput(k).map)
           /\ Gridded(graph[k]) /\ Gridded(graph[k - 1])
           /\ Splits(Dims(k), graph[k], JoinInput(k).map)
           /\ Splits(Dims(k), graph[k - 1], JoinOutput(k).map)
<1>1. Len(graph) \in Nat /\ k \in 1 .. Len(graph) /\ k - 1 \in 1 .. Len(graph) /\ k > 1
  BY GraphFacts
<1> DEFINE S == SharedInputs(k)
<1>2. S \in SUBSET Nat /\ \A i \in S : i <= Len(graph[k].inputs)
  BY <1>1, AccessFacts DEF SharedInputs
<1>3. S # {}
  <2>1. PICK a \in Range(graph[k].inputs) : a.tensor[1] = k - 1
    BY <1>1, AccessFacts
  <2>2. PICK i \in DOMAIN graph[k].inputs : a = graph[k].inputs[i]
    BY DEF Range
  <2> QED BY <2>1, <2>2 DEF SharedInputs
<1>4. Max(S) \in S
  <2>1. Len(graph[k].inputs) \in Nat
    BY <1>1, AccessFacts
  <2> HIDE DEF S
  <2> QED BY <1>2, <1>3, <2>1, Greatest
<1>5. JoinInput(k) \in Range(graph[k].inputs) /\ JoinInput(k).tensor[1] = k - 1
  BY <1>4, <1>1, AccessFacts DEF SharedInputs, JoinInput
<1>6. JoinInput(k).tensor[2] \in DOMAIN graph[k - 1].outputs
  BY <1>1, <1>5, AccessFacts
<1>7. JoinOutput(k) \in Range(graph[k - 1].outputs)
  BY <1>1, <1>6, AccessFacts DEF JoinOutput
<1>8. Mapping(JoinInput(k).map) /\ Mapping(JoinOutput(k).map)
  BY <1>1, <1>5, <1>7, AccessFacts
<1>9. Gridded(graph[k]) /\ Gridded(graph[k - 1])
  BY <1>1, GraphFacts
<1>10. Splits(Dims(k), graph[k], JoinInput(k).map) /\ Splits(Dims(k), graph[k - 1], JoinOutput(k).map)
  BY <1>8, <1>9, EventDimsSplit DEF Dims
<1> QED BY <1>5, <1>7, <1>8, <1>9, <1>10 DEF JoinOutput

-----------------------------------------------------------------------------
(* The order of the new tasks: event after event.                           *)

PushLength == MAX_TENSOR_DIMS + 3
Ids == Vector(PushLength)

\* An event and a block in one vector.
LEMMA PushIs ==
    ASSUME NEW v \in [TensorDim -> Nat], NEW b \in [GridDim -> Nat]
    PROVE  /\ v \o b \in Ids
           /\ \A i \in TensorDim : (v \o b)[i] = v[i]
           /\ \A g \in GridDim : (v \o b)[MAX_TENSOR_DIMS + g] = b[g]
           /\ BidOf(v \o b) = b
<1>1. MAX_TENSOR_DIMS \in Nat
  BY GraphsAssumption
<1>2. v \in Seq(Nat) /\ Len(v) = MAX_TENSOR_DIMS
  BY <1>1, SeqOf DEF TensorDim
<1>3. b \in Seq(Nat) /\ Len(b) = 3
  BY SeqOf DEF GridDim
<1>4. /\ v \o b \in Seq(Nat) /\ Len(v \o b) = PushLength
      /\ \A i \in 1 .. PushLength :
           (v \o b)[i] = IF i <= MAX_TENSOR_DIMS THEN v[i] ELSE b[i - MAX_TENSOR_DIMS]
  <2>1. /\ v \o b \in Seq(Nat) /\ Len(v \o b) = Len(v) + Len(b)
        /\ \A i \in 1 .. Len(v) + Len(b) :
             (v \o b)[i] = IF i <= Len(v) THEN v[i] ELSE b[i - Len(v)]
    BY <1>2, <1>3, ConcatProperties
  <2>2. Len(v) + Len(b) = PushLength
    BY <1>2, <1>3 DEF PushLength
  <2> QED BY <1>2, <2>1, <2>2
<1>5. v \o b \in Ids
  BY <1>4, LenProperties DEF Ids, Vector
<1>6. \A i \in TensorDim : (v \o b)[i] = v[i]
  BY <1>1, <1>4 DEF TensorDim, PushLength
<1>7. \A g \in GridDim : (v \o b)[MAX_TENSOR_DIMS + g] = b[g]
  <2> TAKE g \in GridDim
  <2> DEFINE i == MAX_TENSOR_DIMS + g
  <2>1. i \in 1 .. PushLength /\ ~(i <= MAX_TENSOR_DIMS) /\ i - MAX_TENSOR_DIMS = g
    BY <1>1 DEF GridDim, PushLength
  <2> HIDE DEF i
  <2>2. (v \o b)[i] = b[i - MAX_TENSOR_DIMS]
    BY <1>4, <2>1
  <2>3. (v \o b)[i] = b[g]
    BY <2>1, <2>2
  <2> QED BY <2>3 DEF i
<1>8. BidOf(v \o b) = b
  BY <1>7 DEF BidOf
<1> QED BY <1>5, <1>6, <1>7, <1>8

\* They are ordered by the event, and within the event by the block.
LEMMA PushOrder ==
    ASSUME NEW u \in [TensorDim -> Nat], NEW a \in [GridDim -> Nat],
           NEW v \in [TensorDim -> Nat], NEW b \in [GridDim -> Nat]
    PROVE  /\ Precedes(u, v) => Precedes(u \o a, v \o b)
           /\ u = v => (Precedes(u \o a, v \o b) <=> Precedes(a, b))
           /\ u # v => Precedes(u, v) \/ Precedes(v, u)
           /\ Precedes(u, v) => u # v /\ ~Precedes(v \o b, u \o a)
<1>1. MAX_TENSOR_DIMS \in Nat
  BY GraphsAssumption
<1>2. u \in Vector(MAX_TENSOR_DIMS) /\ v \in Vector(MAX_TENSOR_DIMS) /\ a \in Vector(3) /\ b \in Vector(3)
  BY DEF Vector, TensorDim, GridDim
<1>3. /\ u \o a \in Ids /\ v \o b \in Ids
      /\ \A i \in 1 .. MAX_TENSOR_DIMS : (u \o a)[i] = u[i] /\ (v \o b)[i] = v[i]
      /\ \A g \in 1 .. 3 : (u \o a)[MAX_TENSOR_DIMS + g] = a[g] /\ (v \o b)[MAX_TENSOR_DIMS + g] = b[g]
  BY PushIs DEF TensorDim, GridDim
<1>4. DOMAIN (u \o a) = 1 .. PushLength /\ DOMAIN u = 1 .. MAX_TENSOR_DIMS /\ DOMAIN a = 1 .. 3
  BY <1>2, <1>3 DEF Ids, Vector
<1>5. ASSUME Precedes(u, v) PROVE Precedes(u \o a, v \o b)
  <2>1. PICK i \in 1 .. MAX_TENSOR_DIMS : u[i] < v[i] /\ \A j \in 1 .. i - 1 : u[j] = v[j]
    BY <1>4, <1>5 DEF Precedes
  <2>2. i \in 1 .. PushLength /\ \A j \in 1 .. i - 1 : j \in 1 .. MAX_TENSOR_DIMS
    BY <1>1, <2>1 DEF PushLength
  <2> QED BY <1>3, <1>4, <2>1, <2>2 DEF Precedes
<1>6. ASSUME u = v, Precedes(a, b) PROVE Precedes(u \o a, v \o b)
  <2>1. PICK g \in 1 .. 3 : a[g] < b[g] /\ \A h \in 1 .. g - 1 : a[h] = b[h]
    BY <1>4, <1>6 DEF Precedes
  <2> DEFINE i == MAX_TENSOR_DIMS + g
  <2>2. i \in 1 .. PushLength
    BY <1>1, <2>1 DEF PushLength
  <2>3. (u \o a)[i] < (v \o b)[i]
    BY <1>3, <2>1
  <2>4. ASSUME NEW j \in 1 .. i - 1 PROVE (u \o a)[j] = (v \o b)[j]
    <3>1. CASE j <= MAX_TENSOR_DIMS
      <4>1. j \in 1 .. MAX_TENSOR_DIMS
        BY <1>1, <2>1, <3>1
      <4>2. (u \o a)[j] = u[j] /\ (v \o b)[j] = v[j]
        BY <1>3, <4>1
      <4> QED BY <1>6, <4>2
    <3>2. CASE j > MAX_TENSOR_DIMS
      <4> DEFINE h == j - MAX_TENSOR_DIMS
      <4>1. h \in 1 .. g - 1 /\ h \in 1 .. 3 /\ j = MAX_TENSOR_DIMS + h
        BY <1>1, <2>1, <3>2
      <4> HIDE DEF h
      <4>2. (u \o a)[j] = a[h] /\ (v \o b)[j] = b[h]
        BY <1>3, <4>1
      <4>3. a[h] = b[h]
        BY <2>1, <4>1
      <4> QED BY <4>2, <4>3
    <3>3. j <= MAX_TENSOR_DIMS \/ j > MAX_TENSOR_DIMS
      <4>1. j \in Int
        BY <1>1, <2>1
      <4> HIDE DEF i
      <4> QED BY <1>1, <4>1
    <3> QED BY <3>1, <3>2, <3>3
  <2> HIDE DEF i
  <2> QED BY <1>4, <2>2, <2>3, <2>4 DEF Precedes
<1>7. ASSUME u = v, Precedes(u \o a, v \o b) PROVE Precedes(a, b)
  <2>1. PICK i \in 1 .. PushLength : (u \o a)[i] < (v \o b)[i] /\ \A j \in 1 .. i - 1 : (u \o a)[j] = (v \o b)[j]
    BY <1>4, <1>7 DEF Precedes
  <2>2. i > MAX_TENSOR_DIMS
    <3> SUFFICES ASSUME i <= MAX_TENSOR_DIMS PROVE FALSE
      BY <1>1
    <3>1. i \in 1 .. MAX_TENSOR_DIMS /\ u[i] \in Nat
      BY <1>1, <1>2, <2>1 DEF Vector
    <3>2. (u \o a)[i] = u[i] /\ (v \o b)[i] = v[i]
      BY <1>3, <3>1
    <3>3. u[i] < v[i] /\ u[i] = v[i]
      BY <1>7, <2>1, <3>2
    <3> QED BY <3>1, <3>3
  <2> DEFINE g == i - MAX_TENSOR_DIMS
  <2>3. g \in 1 .. 3 /\ i = MAX_TENSOR_DIMS + g
    BY <1>1, <2>1, <2>2 DEF PushLength
  <2>4. a[g] < b[g]
    BY <1>3, <2>1, <2>3
  <2>5. ASSUME NEW h \in 1 .. g - 1 PROVE a[h] = b[h]
    <3>1. h \in 1 .. 3 /\ MAX_TENSOR_DIMS + h \in 1 .. i - 1
      BY <1>1, <2>3
    <3> QED BY <1>3, <2>1, <3>1
  <2> HIDE DEF g
  <2> QED BY <1>4, <2>3, <2>4, <2>5 DEF Precedes
<1>8. u # v => Precedes(u, v) \/ Precedes(v, u)
  BY <1>1, <1>2, PrecedesTotal
<1>9. Precedes(u, v) => u # v /\ ~Precedes(v \o b, u \o a)
  <2>1. PushLength \in Nat
    BY <1>1 DEF PushLength
  <2>2. Precedes(u, v) => u # v
    BY <1>1, <1>2, PrecedesAsymmetric
  <2>3. Precedes(u \o a, v \o b) => ~Precedes(v \o b, u \o a)
    BY <1>3, <2>1, PrecedesAsymmetric DEF Ids
  <2> QED BY <1>5, <2>2, <2>3
<1> QED BY <1>5, <1>6, <1>7, <1>8, <1>9
\* Sets whose members correspond have the same size.
LEMMA SameSize ==
    ASSUME NEW S, IsFiniteSet(S), NEW T, NEW f \in [S -> T],
           \A x, y \in S : f[x] = f[y] => x = y, \A y \in T : \E x \in S : f[x] = y
    PROVE  IsFiniteSet(T) /\ Cardinality(T) = Cardinality(S)
<1>1. f \in Injection(S, T) /\ f \in Surjection(S, T)
  BY DEF Injection, IsInjective, Surjection
<1> QED BY <1>1, FS_Surjection

\* The pushes of an operator are its blocks, each in its event.
LEMMA PushesAre ==
    ASSUME graph \in Graphs, NEW k \in 2 .. Len(graph)
    PROVE  /\ Pushes(k) \in SUBSET Ids /\ IsFiniteSet(Pushes(k))
           /\ \A v \in Below(Dims(k)) : /\ v \in [TensorDim -> Nat]
                                        /\ Consuming(k, v) # {} /\ Consuming(k, v) \subseteq Blocks(graph[k])
                                        /\ Producing(k, v) # {} /\ Producing(k, v) \subseteq Blocks(graph[k - 1])
           /\ \A b \in Blocks(graph[k]) : b \in [GridDim -> Nat]
           /\ IsFiniteSet(Blocks(graph[k])) /\ IsFiniteSet(Blocks(graph[k - 1]))
           /\ IsFiniteSet(Below(Dims(k))) /\ Below(Dims(k)) \in SUBSET Vector(MAX_TENSOR_DIMS)
           /\ \A v \in Below(Dims(k)) : \A b \in Consuming(k, v) : v \o b \in Pushes(k)
           /\ \A t \in Pushes(k) : /\ BidOf(t) \in Blocks(graph[k])
                                   /\ \E v \in Below(Dims(k)) : BidOf(t) \in Consuming(k, v) /\ t = v \o BidOf(t)
           /\ \A b \in Blocks(graph[k]) : \E t \in Pushes(k) : BidOf(t) = b
           /\ \A t, u \in Pushes(k) : BidOf(t) = BidOf(u) => t = u
<1>1. /\ Mapping(JoinInput(k).map) /\ Mapping(JoinOutput(k).map)
      /\ Gridded(graph[k]) /\ Gridded(graph[k - 1])
      /\ Splits(Dims(k), graph[k], JoinInput(k).map)
      /\ Splits(Dims(k), graph[k - 1], JoinOutput(k).map)
  BY JoinFacts
<1>2. /\ \A b \in Blocks(graph[k]) : b \in [GridDim -> Nat]
      /\ IsFiniteSet(Blocks(graph[k])) /\ IsFiniteSet(Blocks(graph[k - 1]))
      /\ \A v \in Below(Dims(k)) : v \in [TensorDim -> Nat]
      /\ IsFiniteSet(Below(Dims(k))) /\ Below(Dims(k)) \in SUBSET Vector(MAX_TENSOR_DIMS)
  BY <1>1, BlocksAndEvents DEF Vector, TensorDim
<1>3. \A v \in Below(Dims(k)) : /\ Consuming(k, v) # {} /\ Consuming(k, v) \subseteq Blocks(graph[k])
                                /\ Producing(k, v) # {} /\ Producing(k, v) \subseteq Blocks(graph[k - 1])
  BY <1>1, SomeBlock DEF Consuming, Producing
<1>4. \A b \in Blocks(graph[k]) : \E v \in Below(Dims(k)) :
        \A w \in Below(Dims(k)) : b \in Consuming(k, w) <=> w = v
  BY <1>1, OneEvent DEF Consuming
<1>5. ASSUME NEW v \in Below(Dims(k)), NEW b \in Consuming(k, v)
      PROVE  v \o b \in Pushes(k) /\ v \o b \in Ids /\ BidOf(v \o b) = b /\ b \in Blocks(graph[k])
  <2>1. v \in [TensorDim -> Nat] /\ b \in [GridDim -> Nat] /\ b \in Blocks(graph[k])
    BY <1>2, <1>3
  <2>2. v \o b \in Pushes(k)
    BY DEF Pushes
  <2> QED BY <2>1, <2>2, PushIs
<1>6. \A t \in Pushes(k) : \E v \in Below(Dims(k)) : \E b \in Consuming(k, v) : t = v \o b
  BY DEF Pushes
<1>7. \A t \in Pushes(k) : /\ t \in Ids /\ BidOf(t) \in Blocks(graph[k])
                           /\ \E v \in Below(Dims(k)) : BidOf(t) \in Consuming(k, v) /\ t = v \o BidOf(t)
  <2> TAKE t \in Pushes(k)
  <2>1. PICK v \in Below(Dims(k)) : \E b \in Consuming(k, v) : t = v \o b
    BY <1>6
  <2>2. PICK b \in Consuming(k, v) : t = v \o b
    BY <2>1
  <2>3. t \in Ids /\ BidOf(t) = b /\ b \in Blocks(graph[k])
    BY <2>2, <1>5
  <2> QED BY <2>2, <2>3
<1>8. \A b \in Blocks(graph[k]) : \E t \in Pushes(k) : BidOf(t) = b
  <2> TAKE b \in Blocks(graph[k])
  <2>1. PICK v \in Below(Dims(k)) : b \in Consuming(k, v)
    BY <1>4
  <2> QED BY <2>1, <1>5
<1>9. \A t, u \in Pushes(k) : BidOf(t) = BidOf(u) => t = u
  <2> SUFFICES ASSUME NEW t \in Pushes(k), NEW u \in Pushes(k), BidOf(t) = BidOf(u) PROVE t = u
    OBVIOUS
  <2>1. PICK v \in Below(Dims(k)) : BidOf(t) \in Consuming(k, v) /\ t = v \o BidOf(t)
    BY <1>7
  <2>2. PICK w \in Below(Dims(k)) : BidOf(u) \in Consuming(k, w) /\ u = w \o BidOf(u)
    BY <1>7
  <2>3. v = w
    BY <2>1, <2>2, <1>4, <1>7
  <2> QED BY <2>1, <2>2, <2>3
<1>10. IsFiniteSet(Pushes(k))
  <2> DEFINE f == [t \in Pushes(k) |-> BidOf(t)]
  <2>1. f \in [Pushes(k) -> Blocks(graph[k])]
    BY <1>7
  <2>2. \A t, u \in Pushes(k) : f[t] = f[u] => t = u
    BY <1>9
  <2> HIDE DEF f
  <2>3. f \in Injection(Pushes(k), Blocks(graph[k]))
    BY <2>1, <2>2 DEF Injection, IsInjective
  <2> QED BY <2>3, <1>2, FS_Injection
<1>11. Pushes(k) \in SUBSET Ids
  BY <1>7
<1> QED BY <1>2, <1>3, <1>5, <1>7, <1>8, <1>9, <1>10, <1>11

\* The tasks before those of event v.
Before(k, v) == {u \in Pushes(k) : Precedes(u, v \o << 0, 0, 0 >>)}

\* first_task_id and last_task_id of an event take in exactly its consumers.
LEMMA RangeOfEvent ==
    ASSUME graph \in Graphs, NEW k \in 2 .. Len(graph), NEW v \in Below(Dims(k))
    PROVE  /\ Cardinality(Before(k, v)) \in Nat /\ Cardinality(Consuming(k, v)) \in Nat
           /\ Cardinality(Pushes(k)) \in Nat
           /\ Cardinality(Before(k, v)) + Cardinality(Consuming(k, v)) <= Cardinality(Pushes(k))
           /\ \A w \in Below(Dims(k)) : \A b \in Consuming(k, w) :
                /\ Rank(Pushes(k), w \o b) \in Nat
                /\ w = v <=> /\ Rank(Pushes(k), w \o b) >= Cardinality(Before(k, v))
                             /\ Rank(Pushes(k), w \o b) < Cardinality(Before(k, v)) + Cardinality(Consuming(k, v))
<1> DEFINE P == Pushes(k)
           zero == << 0, 0, 0 >>
           A == Before(k, v)
           C == Consuming(k, v)
           M == {v \o b : b \in C}
           U == A \cup M
<1>1. /\ P \in SUBSET Ids /\ IsFiniteSet(P) /\ PushLength \in Nat
      /\ \A t \in P : \E w \in Below(Dims(k)) : \E b \in Consuming(k, w) : t = w \o b
      /\ \A w \in Below(Dims(k)) : /\ w \in [TensorDim -> Nat]
                                   /\ \A b \in Consuming(k, w) : w \o b \in P /\ b \in [GridDim -> Nat]
      /\ IsFiniteSet(C)
  <2>1. PushLength \in Nat
    BY GraphsAssumption DEF PushLength
  <2>2. C \subseteq Blocks(graph[k]) /\ IsFiniteSet(Blocks(graph[k]))
    BY PushesAre
  <2>3. IsFiniteSet(C)
    <3> HIDE DEF C
    <3> QED BY <2>2, FS_Subset
  <2>4. \A t \in P : \E w \in Below(Dims(k)) : \E b \in Consuming(k, w) : t = w \o b
    BY DEF Pushes
  <2>5. \A w \in Below(Dims(k)) : /\ w \in [TensorDim -> Nat]
                                 /\ \A b \in Consuming(k, w) : w \o b \in P /\ b \in [GridDim -> Nat]
    <3> TAKE w \in Below(Dims(k))
    <3>1. w \in [TensorDim -> Nat] /\ Consuming(k, w) \subseteq Blocks(graph[k])
      BY PushesAre
    <3>2. \A b \in Consuming(k, w) : w \o b \in P
      BY PushesAre
    <3>3. \A b \in Blocks(graph[k]) : b \in [GridDim -> Nat]
      BY PushesAre
    <3> QED BY <3>1, <3>2, <3>3
  <2>6. P \in SUBSET Ids /\ IsFiniteSet(P)
    BY PushesAre
  <2> HIDE DEF C, P
  <2> QED BY <2>1, <2>3, <2>4, <2>5, <2>6
<1>2. zero \in [GridDim -> Nat] /\ \A b \in [GridDim -> Nat] : ~Precedes(b, zero)
  <2>1. zero \in [GridDim -> Nat] /\ \A g \in GridDim : zero[g] = 0
    BY DEF GridDim
  <2> HIDE DEF zero
  <2>2. ASSUME NEW b \in [GridDim -> Nat] PROVE ~Precedes(b, zero)
    BY <2>1 DEF Precedes
  <2> QED BY <2>1, <2>2
<1>3. ASSUME NEW w \in Below(Dims(k)), NEW b \in Consuming(k, w)
      PROVE  w \o b \in A <=> Precedes(w, v)
  <2>1. w \in [TensorDim -> Nat] /\ b \in [GridDim -> Nat] /\ v \in [TensorDim -> Nat] /\ w \o b \in P
    BY <1>1
  <2>2. w \o b \in A <=> Precedes(w \o b, v \o zero)
    BY <2>1 DEF Before
  <2> HIDE DEF zero, A, P
  <2> QED BY <2>1, <2>2, <1>2, PushOrder
<1>4. IsFiniteSet(A) /\ A \subseteq P /\ Cardinality(A) \in Nat
  <2>1. A \in SUBSET P
    BY DEF Before
  <2> HIDE DEF A, P
  <2> QED BY <2>1, <1>1, FS_Subset, FS_CardinalityType
<1>5. IsFiniteSet(M) /\ Cardinality(M) = Cardinality(C) /\ M \subseteq P /\ Cardinality(C) \in Nat
  <2> DEFINE f == [b \in C |-> v \o b]
  <2>1. f \in [C -> M] /\ \A y \in M : \E x \in C : f[x] = y
    OBVIOUS
  <2>2. ASSUME NEW b \in C PROVE b \in [GridDim -> Nat] /\ f[b] \in P /\ BidOf(f[b]) = b
    <3>1. b \in [GridDim -> Nat] /\ v \in [TensorDim -> Nat] /\ v \o b \in P
      BY <1>1
    <3> QED BY <3>1, PushIs
  <2>3. \A x, y \in C : f[x] = f[y] => x = y
    <3> HIDE DEF f, C
    <3> QED BY <2>2
  <2>4. M \subseteq P
    BY <2>2
  <2> HIDE DEF f, C, M, P
  <2>5. IsFiniteSet(M) /\ Cardinality(M) = Cardinality(C)
    BY <2>1, <2>3, <1>1, SameSize
  <2>6. Cardinality(C) \in Nat
    BY <1>1, FS_CardinalityType
  <2> QED BY <2>4, <2>5, <2>6
<1>6. A \cap M = {}
  <2> SUFFICES ASSUME NEW b \in C PROVE v \o b \notin A
    BY <1>1
  <2>1. ~Precedes(v, v)
    <3>1. v \in Vector(MAX_TENSOR_DIMS) /\ MAX_TENSOR_DIMS \in Nat
      BY <1>1, GraphsAssumption DEF Vector, TensorDim
    <3> QED BY <3>1, PrecedesIrreflexive
  <2> HIDE DEF A
  <2> QED BY <1>3, <2>1
<1>7. /\ IsFiniteSet(U) /\ Cardinality(U) = Cardinality(A) + Cardinality(C) /\ U \subseteq P
      /\ Cardinality(U) <= Cardinality(P) /\ Cardinality(P) \in Nat
  <2>1. U \subseteq P
    BY <1>4, <1>5
  <2> HIDE DEF A, M, C, P
  <2>2. Cardinality(U) = Cardinality(A) + Cardinality(M) - Cardinality(A \cap M)
    BY <1>4, <1>5, FS_Union
  <2>3. Cardinality(A \cap M) = 0
    BY <1>6, FS_EmptySet
  <2>4. Cardinality(U) = Cardinality(A) + Cardinality(C)
    BY <2>2, <2>3, <1>4, <1>5
  <2>5. IsFiniteSet(U) /\ Cardinality(U) <= Cardinality(P) /\ Cardinality(P) \in Nat
    <3> HIDE DEF U
    <3> QED BY <2>1, <1>1, FS_Subset, FS_CardinalityType
  <2> QED BY <2>1, <2>4, <2>5
<1>8. ASSUME NEW w \in Below(Dims(k)), NEW b \in Consuming(k, w)
      PROVE  LET r == Rank(P, w \o b)
             IN  r \in Nat /\ (w = v <=> r >= Cardinality(A) /\ r < Cardinality(A) + Cardinality(C))
  <2> DEFINE t == w \o b
             B == {u \in P : Precedes(u, t)}
  <2>1. w \in [TensorDim -> Nat] /\ b \in [GridDim -> Nat] /\ v \in [TensorDim -> Nat] /\ t \in P /\ t \in Ids
    BY <1>1
  <2>2. Rank(P, t) = Cardinality(B)
    BY DEF Rank
  <2>3. IsFiniteSet(B) /\ Cardinality(B) \in Nat
    <3>1. B \in SUBSET P
      OBVIOUS
    <3> HIDE DEF B, P
    <3> QED BY <3>1, <1>1, FS_Subset, FS_CardinalityType
  <2>4. t \notin B
    BY <2>1, <1>1, PrecedesIrreflexive DEF Ids
  <2>5. ASSUME NEW u \in P
        PROVE  /\ w = v => (u \in A => u \in B) /\ (u \in B => u \in U)
               /\ Precedes(w, v) => (u \in B => u \in A)
               /\ Precedes(v, w) => (u \in U => u \in B)
    <3>0. PICK x \in Below(Dims(k)) : \E c \in Consuming(k, x) : u = x \o c
      BY <1>1
    <3>1. PICK c \in Consuming(k, x) : u = x \o c
      BY <3>0
    <3>2. x \in [TensorDim -> Nat] /\ c \in [GridDim -> Nat]
      BY <1>1
    <3>3. u \in A <=> Precedes(x, v)
      BY <1>3, <3>1
    <3>4. /\ Precedes(x, w) => u \in B
          /\ u \in B => Precedes(x, w) \/ x = w
      <4>1. u \in B <=> Precedes(x \o c, w \o b)
        BY <3>1
      <4> HIDE DEF B, t
      <4> QED BY <4>1, <3>2, <2>1, PushOrder
    <3>5. x = v => u \in M
      BY <3>1
    <3>6. u \in M => u \in P /\ ~(u \in A)
      BY <1>6
    <3>7. u \in U <=> u \in A \/ u \in M
      OBVIOUS
    <3>8. u \in M => x = v
      <4> SUFFICES ASSUME NEW d \in C, u = v \o d PROVE x = v
        OBVIOUS
      <4>1. d \in [GridDim -> Nat]
        BY <1>1
      <4>2. \A i \in TensorDim : x[i] = v[i]
        <5>1. (\A i \in TensorDim : (x \o c)[i] = x[i]) /\ (\A i \in TensorDim : (v \o d)[i] = v[i])
          BY <3>2, <2>1, <4>1, PushIs
        <5> QED BY <5>1, <3>1
      <4> QED BY <4>2, <3>2, <2>1
    <3>9. Precedes(x, v) /\ Precedes(v, w) => Precedes(x, w)
      <4>1. MAX_TENSOR_DIMS \in Nat /\ x \in Vector(MAX_TENSOR_DIMS) /\ v \in Vector(MAX_TENSOR_DIMS) /\ w \in Vector(MAX_TENSOR_DIMS)
        BY <3>2, <2>1, GraphsAssumption DEF Vector, TensorDim
      <4> QED BY <4>1, PrecedesTransitive
    <3>10. Precedes(x, w) /\ Precedes(w, v) => Precedes(x, v)
      <4>1. MAX_TENSOR_DIMS \in Nat /\ x \in Vector(MAX_TENSOR_DIMS) /\ v \in Vector(MAX_TENSOR_DIMS) /\ w \in Vector(MAX_TENSOR_DIMS)
        BY <3>2, <2>1, GraphsAssumption DEF Vector, TensorDim
      <4> QED BY <4>1, PrecedesTransitive
    <3> HIDE DEF A, B, M, U, P
    <3> QED BY <3>3, <3>4, <3>5, <3>7, <3>8, <3>9, <3>10
  <2>6. w = v => t \in U /\ t \notin A
    <3>1. w = v => t \in M
      OBVIOUS
    <3> QED BY <3>1, <1>6
  <2>7. Precedes(w, v) => t \in A
    BY <1>3
  <2>8. w = v \/ Precedes(w, v) \/ Precedes(v, w)
    BY <2>1, PushOrder
  <2>9. B \subseteq P
    OBVIOUS
  <2> HIDE DEF A, B, M, U, P, t, C
  <2>10. CASE w = v
    <3>1. A \subseteq B /\ B \subseteq U /\ t \in U /\ t \notin B
      BY <2>4, <2>5, <2>6, <2>9, <2>10, <1>4
    <3>2. Cardinality(A) <= Cardinality(B)
      BY <3>1, <2>3, FS_Subset
    <3>3. Cardinality(B) <= Cardinality(U) /\ Cardinality(B) # Cardinality(U)
      BY <3>1, <1>7, FS_Subset
    <3> QED BY <3>2, <3>3, <2>2, <2>3, <2>10, <1>4, <1>5, <1>7 DEF t
  <2>11. CASE Precedes(w, v)
    <3>1. B \subseteq A /\ t \in A /\ t \notin B /\ w # v
      BY <2>1, <2>4, <2>5, <2>7, <2>9, <2>11, PushOrder
    <3>2. Cardinality(B) <= Cardinality(A) /\ Cardinality(B) # Cardinality(A)
      BY <3>1, <1>4, FS_Subset
    <3> QED BY <3>1, <3>2, <2>2, <2>3, <1>4, <1>5 DEF t
  <2>12. CASE Precedes(v, w)
    <3>1. U \subseteq B /\ w # v
      BY <2>1, <2>5, <2>12, <1>7, PushOrder
    <3>2. Cardinality(U) <= Cardinality(B)
      BY <3>1, <2>3, FS_Subset
    <3> QED BY <3>1, <3>2, <2>2, <2>3, <1>4, <1>5, <1>7 DEF t
  <2> QED BY <2>8, <2>10, <2>11, <2>12
<1> QED BY <1>4, <1>5, <1>7, <1>8
-----------------------------------------------------------------------------
(* Tasks are added.                                                         *)

\* A sequence with another behind it, place by place.
LEMMA Appended ==
    ASSUME NEW S, NEW m \in Nat, NEW n \in Nat, NEW f \in [1 .. m -> S], NEW g \in [1 .. n -> S]
    PROVE  /\ f \o g \in Seq(S) /\ Len(f \o g) = m + n
           /\ \A i \in 1 .. m : (f \o g)[i] = f[i]
           /\ \A i \in 1 .. n : (f \o g)[m + i] = g[i]
<1>1. f \in Seq(S) /\ Len(f) = m /\ g \in Seq(S) /\ Len(g) = n
  BY SeqOf
<1>2. /\ f \o g \in Seq(S) /\ Len(f \o g) = m + n
      /\ \A i \in 1 .. m + n : (f \o g)[i] = IF i <= m THEN f[i] ELSE g[i - m]
  BY <1>1, ConcatProperties
<1>3. \A i \in 1 .. m : (f \o g)[i] = f[i]
  BY <1>2
<1>4. ASSUME NEW i \in 1 .. n PROVE (f \o g)[m + i] = g[i]
  <2> DEFINE j == m + i
  <2>1. j \in 1 .. m + n /\ ~(j <= m) /\ j - m = i
    OBVIOUS
  <2> HIDE DEF j
  <2>2. (f \o g)[j] = g[j - m]
    BY <1>2, <2>1
  <2>3. (f \o g)[j] = g[i]
    BY <2>1, <2>2
  <2> QED BY <2>3 DEF j
<1> QED BY <1>2, <1>3, <1>4

\* The maximum of one number.
LEMMA MaxSingle == ASSUME NEW x \in Int PROVE Max({x}) = x
<1>1. \E y \in {x} : \A z \in {x} : y >= z
  OBVIOUS
<1> QED BY <1>1 DEF Max

\* The tasks, by their numbers.
LEMMA TaskFacts ==
    ASSUME TasksOK
    PROVE  /\ Len(all_tasks) \in Nat /\ Len(all_tasks) >= 2
           /\ Task = 2 .. Len(all_tasks) - 1
           /\ \A p \in 0 .. Len(all_tasks) - 1 : p + 1 \in 1 .. Len(all_tasks) /\ TaskAt(p) \in AnyTask
           /\ \A p \in Task : p \in 0 .. Len(all_tasks) - 1
<1>1. all_tasks \in Seq(AnyTask) /\ Len(all_tasks) >= 2
  BY DEF TasksOK
<1>2. Len(all_tasks) \in Nat /\ all_tasks \in [1 .. Len(all_tasks) -> AnyTask]
  BY <1>1, LenProperties
<1>3. \A p \in 0 .. Len(all_tasks) - 1 : p + 1 \in 1 .. Len(all_tasks)
  BY <1>2
<1> QED BY <1>1, <1>2, <1>3 DEF Task, FirstTask, TaskAt

\* The events that task id is to trigger.
Triggered(k, id) ==
    {v \in Below(Dims(k)) : \E b \in Producing(k, v) : pre_task_map[b] = id}

\* A task of the operator before triggers the one event of its block, and the
\* others none.
LEMMA TriggeredIs ==
    ASSUME TasksOK, next \in 2 .. Len(graph), NEW p \in 0 .. Len(all_tasks) - 1
    PROVE  /\ p \in Task /\ TaskAt(p).op = next - 1 =>
                \E v \in Below(Dims(next)) :
                  /\ Triggered(next, p) = {v}
                  /\ \A w \in Below(Dims(next)) : TaskAt(p).bid \in Producing(next, w) <=> w = v
           /\ ~(p \in Task /\ TaskAt(p).op = next - 1) => Triggered(next, p) = {}
<1> DEFINE pre == graph[next - 1]
           V == Below(Dims(next))
<1>1. /\ graph \in Graphs
      /\ pre_task_map \in [Blocks(pre) -> Task]
      /\ \A b \in Blocks(pre) : TaskAt(pre_task_map[b]).op = next - 1 /\ TaskAt(pre_task_map[b]).bid = b
      /\ \A q \in Task : TaskAt(q).bid \in Blocks(graph[TaskAt(q).op])
      /\ \A q, r \in Task : TaskAt(q).op = TaskAt(r).op /\ TaskAt(q).bid = TaskAt(r).bid => q = r
  <2>1. next > 1 /\ graph \in Graphs
    BY GraphFacts DEF TasksOK
  <2>2. pre_task_map \in [Blocks(pre) -> Task]
    BY <2>1 DEF TasksOK
  <2>3. \A b \in Blocks(pre) : TaskAt(pre_task_map[b]).op = next - 1 /\ TaskAt(pre_task_map[b]).bid = b
    BY <2>1 DEF TasksOK
  <2>4. /\ \A q \in Task : TaskAt(q).bid \in Blocks(graph[TaskAt(q).op])
        /\ \A q, r \in Task : TaskAt(q).op = TaskAt(r).op /\ TaskAt(q).bid = TaskAt(r).bid => q = r
    BY DEF TasksOK
  <2> HIDE DEF pre
  <2> QED BY <2>1, <2>2, <2>3, <2>4
<1>2. \A v \in V : Producing(next, v) \subseteq Blocks(pre)
  BY <1>1, PushesAre
<1>3. Gridded(pre) /\ Mapping(JoinOutput(next).map) /\ Splits(Dims(next), pre, JoinOutput(next).map)
  BY <1>1, JoinFacts
<1> HIDE DEF pre
<1>4. ASSUME p \in Task, TaskAt(p).op = next - 1
      PROVE  \E v \in V : /\ Triggered(next, p) = {v}
                          /\ \A w \in V : TaskAt(p).bid \in Producing(next, w) <=> w = v
  <2> DEFINE c == TaskAt(p).bid
  <2>1. c \in Blocks(pre)
    <3>1. c \in Blocks(graph[TaskAt(p).op]) /\ graph[TaskAt(p).op] = pre
      BY <1>1, <1>4 DEF pre
    <3> HIDE DEF c
    <3> QED BY <3>1
  <2>2. pre_task_map[c] \in Task /\ TaskAt(pre_task_map[c]).op = next - 1 /\ TaskAt(pre_task_map[c]).bid = c
    <3> HIDE DEF c
    <3> QED BY <1>1, <2>1 DEF pre
  <2>3. pre_task_map[c] = p
    BY <1>1, <1>4, <2>2
  <2> HIDE DEF c
  <2>4. PICK v \in V : \A w \in V : c \in Producing(next, w) <=> w = v
    BY <1>3, <2>1, OneEvent DEF Producing, pre
  <2>5. \A w \in V : \A b \in Producing(next, w) : pre_task_map[b] = p => b = c
    <3> HIDE DEF V
    <3> QED BY <1>1, <1>2 DEF c
  <2>6. Triggered(next, p) = {v}
    BY <2>3, <2>4, <2>5 DEF Triggered
  <2> QED BY <2>4, <2>6 DEF c
<1>5. ASSUME ~(p \in Task /\ TaskAt(p).op = next - 1) PROVE Triggered(next, p) = {}
  <2>1. \A b \in Blocks(pre) : pre_task_map[b] # p
    BY <1>1, <1>5
  <2> QED BY <1>2, <2>1 DEF Triggered
<1> QED BY <1>4, <1>5

\* AddOperator in terms of the operators defined here.
LEMMA AddOperatorIs ==
    ASSUME AddOperator
    PROVE  /\ next \in 2 .. Len(graph)
           /\ all_tasks' =
                [n \in DOMAIN all_tasks |->
                   IF Triggered(next, n - 1) = {} THEN all_tasks[n]
                   ELSE [all_tasks[n] EXCEPT !.trigger_event =
                           Len(all_events)
                           + Max({Rank(Below(Dims(next)), v) : v \in Triggered(next, n - 1)})]]
                \o [n \in DOMAIN InOrder(Pushes(next)) |-> NewTask(next, BidOf(InOrder(Pushes(next))[n]))]
           /\ all_events' = all_events \o
                [n \in DOMAIN InOrder(Below(Dims(next))) |->
                   LET v == InOrder(Below(Dims(next)))[n]
                       first == Len(all_tasks) + Cardinality(Before(next, v))
                   IN  [type |-> "LAUNCH_TASKS", num_triggers |-> Cardinality(Producing(next, v)),
                        first_task_id |-> first,
                        last_task_id |-> first + Cardinality(Consuming(next, v))]]
           /\ pre_task_map' =
                [b \in {BidOf(t) : t \in Pushes(next)} |->
                   Len(all_tasks) + Max({Rank(Pushes(next), t) : t \in {u \in Pushes(next) : BidOf(u) = b}})]
           /\ next' = next + 1 /\ graph' = graph /\ first_tasks' = first_tasks /\ built' = built
<1>1. next \in 2 .. Len(graph) /\ next' = next + 1 /\ graph' = graph
      /\ first_tasks' = first_tasks /\ built' = built
  BY DEF AddOperator
<1>2. all_tasks' =
        [n \in DOMAIN all_tasks |->
           IF Triggered(next, n - 1) = {} THEN all_tasks[n]
           ELSE [all_tasks[n] EXCEPT !.trigger_event =
                   Len(all_events)
                   + Max({Rank(Below(Dims(next)), v) : v \in Triggered(next, n - 1)})]]
        \o [n \in DOMAIN InOrder(Pushes(next)) |-> NewTask(next, BidOf(InOrder(Pushes(next))[n]))]
  BY DEF AddOperator, Dims, Consuming, Producing, Pushes, BidOf, Triggered
<1>3. all_events' = all_events \o
        [n \in DOMAIN InOrder(Below(Dims(next))) |->
           LET v == InOrder(Below(Dims(next)))[n]
               first == Len(all_tasks) + Cardinality(Before(next, v))
           IN  [type |-> "LAUNCH_TASKS", num_triggers |-> Cardinality(Producing(next, v)),
                first_task_id |-> first,
                last_task_id |-> first + Cardinality(Consuming(next, v))]]
  BY DEF AddOperator, Dims, Consuming, Producing, Pushes, Before, NextTaskId
<1>4. pre_task_map' =
        [b \in {BidOf(t) : t \in Pushes(next)} |->
           Len(all_tasks) + Max({Rank(Pushes(next), t) : t \in {u \in Pushes(next) : BidOf(u) = b}})]
  BY DEF AddOperator, Dims, Consuming, Pushes, BidOf, NextTaskId
<1> QED BY <1>1, <1>2, <1>3, <1>4

\* The blocks of operator k become tasks, in the order of the vectors S that
\* stand for them.
Added(k, S, bid) ==
    /\ bid \in [S -> Blocks(graph[k])]
    /\ \A b \in Blocks(graph[k]) : \E s \in S : bid[s] = b
    /\ \A s, t \in S : bid[s] = bid[t] => s = t
    /\ \A s, t \in S : Rank(S, s) = Rank(S, t) => s = t
    /\ Cardinality(S) \in Nat
    /\ next = k /\ next' = k + 1 /\ graph' = graph /\ built' = built
    /\ all_tasks' \in Seq(AnyTask) /\ Len(all_tasks') = Len(all_tasks) + Cardinality(S)
    /\ \A p \in 0 .. Len(all_tasks) - 1 : /\ all_tasks'[p + 1].op = all_tasks[p + 1].op
                                          /\ all_tasks'[p + 1].bid = all_tasks[p + 1].bid
    /\ \A s \in S : /\ Rank(S, s) \in 0 .. Cardinality(S) - 1
                    /\ all_tasks'[Len(all_tasks) + Rank(S, s) + 1] = NewTask(k, bid[s])
    /\ \A p \in Len(all_tasks) .. Len(all_tasks) + Cardinality(S) - 1 :
         \E s \in S : p = Len(all_tasks) + Rank(S, s)
    /\ DOMAIN pre_task_map' = Blocks(graph[k])
    /\ pre_task_map' = [b \in Blocks(graph[k]) |-> pre_task_map'[b]]
    /\ \A s \in S : pre_task_map'[bid[s]] = Len(all_tasks) + Rank(S, s)
\* The first operator: its blocks stand for themselves.
LEMMA AddsFirst ==
    ASSUME TasksOK, AddFirst
    PROVE  /\ Added(1, Blocks(graph[1]), [b \in Blocks(graph[1]) |-> b])
           /\ first_tasks' = Range(pre_task_map') /\ all_events' = all_events
           /\ \A p \in 0 .. Len(all_tasks) - 1 : all_tasks'[p + 1] = all_tasks[p + 1]
<1> DEFINE S == Blocks(graph[1])
           N == Cardinality(S)
           L == Len(all_tasks)
           order == InOrder(S)
           new == [n \in 1 .. N |-> NewTask(1, order[n])]
           bid == [b \in S |-> b]
<1>1. graph \in Graphs /\ 1 \in 1 .. Len(graph) /\ 3 \in Nat
  BY GraphFacts DEF TasksOK
<1>2. S \in SUBSET Vector(3) /\ IsFiniteSet(S)
  <2>1. Gridded(graph[1])
    BY <1>1, GraphFacts
  <2>2. graph[1].grid \in [1 .. 3 -> Nat \ {0}] /\ 3 \in Nat \ {0}
    BY <2>1 DEF Gridded, GridDim
  <2>3. Below(graph[1].grid) \in SUBSET Vector(3) /\ IsFiniteSet(Below(graph[1].grid))
    BY <2>2, BelowIs
  <2> QED BY <2>3 DEF Blocks
<1>3. /\ N \in Nat /\ order \in [1 .. N -> S]
      /\ \A m \in 1 .. N : Rank(S, order[m]) = m - 1
      /\ \A s \in S : Rank(S, s) + 1 \in 1 .. N /\ order[Rank(S, s) + 1] = s
      /\ \A s \in S : Rank(S, s) \in 0 .. N - 1
      /\ \A s, t \in S : Rank(S, s) = Rank(S, t) => s = t
  <2> HIDE DEF S
  <2> QED BY <1>1, <1>2, InOrderEnumerates, RankRange, RankInjective
<1>4. L \in Nat /\ all_tasks \in [1 .. L -> AnyTask] /\ DOMAIN all_tasks = 1 .. L
  BY LenProperties DEF TasksOK
<1>5. new \in [1 .. N -> AnyTask]
  <2>1. ASSUME NEW n \in 1 .. N PROVE NewTask(1, order[n]) \in AnyTask
    <3>1. order[n] \in Vector(3)
      BY <1>2, <1>3
    <3>2. order[n] \in Seq(Nat)
      BY <3>1, <1>1, SeqOf DEF Vector
    <3> HIDE DEF order
    <3> QED BY <3>2 DEF NewTask, AnyTask, NoEvent
  <2> QED BY <2>1
<1>6. all_tasks' = all_tasks \o new
  <2>1. DOMAIN order = 1 .. N
    BY <1>3
  <2>2. all_tasks' = all_tasks \o [n \in DOMAIN order |-> NewTask(1, order[n])]
    BY DEF AddFirst
  <2> HIDE DEF order, N
  <2> QED BY <2>1, <2>2
<1>7. /\ all_tasks' \in Seq(AnyTask) /\ Len(all_tasks') = L + N
      /\ \A i \in 1 .. L : all_tasks'[i] = all_tasks[i]
      /\ \A i \in 1 .. N : all_tasks'[L + i] = new[i]
  <2> HIDE DEF new, N, L, order
  <2>1. N \in Nat /\ L \in Nat /\ all_tasks \in [1 .. L -> AnyTask]
    BY <1>3, <1>4
  <2>2. /\ all_tasks \o new \in Seq(AnyTask) /\ Len(all_tasks \o new) = L + N
        /\ \A i \in 1 .. L : (all_tasks \o new)[i] = all_tasks[i]
        /\ \A i \in 1 .. N : (all_tasks \o new)[L + i] = new[i]
    BY <2>1, <1>5, Appended
  <2> QED BY <2>2, <1>6
<1>8. \A p \in 0 .. L - 1 : all_tasks'[p + 1] = all_tasks[p + 1]
  <2> HIDE DEF L
  <2> QED BY <1>4, <1>7
<1>9. ASSUME NEW s \in S PROVE all_tasks'[L + Rank(S, s) + 1] = NewTask(1, bid[s])
  <2> DEFINE i == Rank(S, s) + 1
  <2>1. i \in 1 .. N /\ order[i] = s /\ L + Rank(S, s) + 1 = L + i /\ bid[s] = s
    BY <1>3, <1>4
  <2>2. new[i] = NewTask(1, s)
    BY <2>1
  <2>3. all_tasks'[L + i] = new[i]
    BY <1>7, <2>1
  <2> QED BY <2>1, <2>2, <2>3
<1>10. ASSUME NEW p \in L .. L + N - 1 PROVE \E s \in S : p = L + Rank(S, s)
  <2> DEFINE i == p - L + 1
  <2>1. i \in 1 .. N /\ p = L + (i - 1)
    BY <1>3, <1>4
  <2>2. order[i] \in S /\ Rank(S, order[i]) = i - 1
    BY <1>3, <2>1
  <2> QED BY <2>1, <2>2
<1>11. /\ next = 1 /\ next' = 1 + 1 /\ graph' = graph /\ built' = built /\ all_events' = all_events
       /\ first_tasks' = Range(pre_task_map')
       /\ pre_task_map' = [b \in S |-> L + Rank(S, b)]
  BY DEF AddFirst, NextTaskId
<1>12. /\ DOMAIN pre_task_map' = S /\ pre_task_map' = [b \in S |-> pre_task_map'[b]]
       /\ \A s \in S : pre_task_map'[bid[s]] = L + Rank(S, s)
  BY <1>11
<1>13. /\ bid \in [S -> S] /\ \A b \in S : \E s \in S : bid[s] = b
       /\ \A s, t \in S : bid[s] = bid[t] => s = t
  OBVIOUS
<1> HIDE DEF S, N, L, order, new, bid
<1>14. Added(1, S, bid)
  BY <1>3, <1>7, <1>8, <1>9, <1>10, <1>11, <1>12, <1>13 DEF Added, N, L, S
<1> QED BY <1>8, <1>11, <1>14 DEF L, S, bid

\* A later one: each block stands with its event.  The operator before gets its
\* events to trigger.
LEMMA AddsOperator ==
    ASSUME TasksOK, all_events \in Seq(AnyEvent), AddOperator
    PROVE  LET k == next
               V == Below(Dims(k))
               E == Len(all_events)
           IN  /\ k \in 2 .. Len(graph)
               /\ Added(k, Pushes(k), [t \in Pushes(k) |-> BidOf(t)])
               /\ first_tasks' = first_tasks
               /\ \A p \in 0 .. Len(all_tasks) - 1 :
                    ~(p \in Task /\ TaskAt(p).op = k - 1) => all_tasks'[p + 1] = all_tasks[p + 1]
               /\ \A p \in Task : \A v \in V :
                    TaskAt(p).op = k - 1 /\ TaskAt(p).bid \in Producing(k, v) =>
                      all_tasks'[p + 1].trigger_event = E + Rank(V, v)
<1> DEFINE k == next
           V == Below(Dims(k))
           E == Len(all_events)
           S == Pushes(k)
           N == Cardinality(S)
           L == Len(all_tasks)
           order == InOrder(S)
           bid == [t \in S |-> BidOf(t)]
           trig(p) == E + Max({Rank(V, v) : v \in Triggered(k, p)})
           told(n, p) == IF Triggered(k, p) = {} THEN all_tasks[n]
                         ELSE [all_tasks[n] EXCEPT !.trigger_event = trig(p)]
           old == [n \in 1 .. L |-> told(n, n - 1)]
           new == [n \in 1 .. N |-> NewTask(k, BidOf(order[n]))]
<1>1. graph \in Graphs /\ k \in 2 .. Len(graph) /\ k \in Nat
  BY AddOperatorIs, GraphFacts DEF TasksOK
<1>2. /\ S \in SUBSET Vector(PushLength) /\ IsFiniteSet(S) /\ PushLength \in Nat
      /\ V \in SUBSET Vector(MAX_TENSOR_DIMS) /\ IsFiniteSet(V) /\ MAX_TENSOR_DIMS \in Nat
      /\ \A b \in Blocks(graph[k]) : b \in [GridDim -> Nat]
  <2>1. S \in SUBSET Ids /\ IsFiniteSet(S)
    BY <1>1, PushesAre
  <2>2. V \in SUBSET Vector(MAX_TENSOR_DIMS) /\ IsFiniteSet(V)
    BY <1>1, PushesAre
  <2>3. \A b \in Blocks(graph[k]) : b \in [GridDim -> Nat]
    BY <1>1, PushesAre
  <2> QED BY <2>1, <2>2, <2>3, GraphsAssumption DEF Ids, PushLength
<1>3. /\ N \in Nat /\ order \in [1 .. N -> S]
      /\ \A m \in 1 .. N : Rank(S, order[m]) = m - 1
      /\ \A s \in S : Rank(S, s) + 1 \in 1 .. N /\ order[Rank(S, s) + 1] = s
      /\ \A s \in S : Rank(S, s) \in 0 .. N - 1
      /\ \A s, t \in S : Rank(S, s) = Rank(S, t) => s = t
  <2> HIDE DEF S
  <2> QED BY <1>2, InOrderEnumerates, RankRange, RankInjective
<1>4. L \in Nat /\ all_tasks \in [1 .. L -> AnyTask] /\ DOMAIN all_tasks = 1 .. L
  BY LenProperties DEF TasksOK
<1>5. /\ bid \in [S -> Blocks(graph[k])]
      /\ \A b \in Blocks(graph[k]) : \E s \in S : bid[s] = b
      /\ \A s, t \in S : bid[s] = bid[t] => s = t
  <2>1. \A t \in S : BidOf(t) \in Blocks(graph[k])
    BY <1>1, PushesAre
  <2>2. \A b \in Blocks(graph[k]) : \E t \in S : BidOf(t) = b
    BY <1>1, PushesAre
  <2>3. \A t, u \in S : BidOf(t) = BidOf(u) => t = u
    BY <1>1, PushesAre
  <2> HIDE DEF S
  <2> QED BY <2>1, <2>2, <2>3
<1>6. new \in [1 .. N -> AnyTask]
  <2>1. ASSUME NEW n \in 1 .. N PROVE NewTask(k, BidOf(order[n])) \in AnyTask
    <3>1. BidOf(order[n]) \in Seq(Nat)
      <4>1. order[n] \in S
        BY <1>3
      <4>2. BidOf(order[n]) \in [1 .. 3 -> Nat]
        BY <4>1, <1>2, <1>5 DEF GridDim
      <4> QED BY <4>2, SeqOf
    <3> HIDE DEF order
    <3> QED BY <3>1, <1>1 DEF NewTask, AnyTask, NoEvent
  <2> QED BY <2>1
<1>7. ASSUME NEW p \in 0 .. L - 1
      PROVE  /\ old[p + 1] \in AnyTask
             /\ old[p + 1].op = all_tasks[p + 1].op /\ old[p + 1].bid = all_tasks[p + 1].bid
             /\ ~(p \in Task /\ TaskAt(p).op = k - 1) => old[p + 1] = all_tasks[p + 1]
             /\ p \in Task /\ TaskAt(p).op = k - 1 =>
                  \A v \in V : TaskAt(p).bid \in Producing(k, v) => old[p + 1].trigger_event = E + Rank(V, v)
  <2>1. p + 1 \in 1 .. L /\ p + 1 - 1 = p /\ all_tasks[p + 1] \in AnyTask
    BY <1>4
  <2>2. old[p + 1] = IF Triggered(k, p) = {} THEN all_tasks[p + 1]
                     ELSE [all_tasks[p + 1] EXCEPT !.trigger_event = trig(p)]
    <3>1. old[p + 1] = told(p + 1, p)
      <4> HIDE DEF told, L
      <4> QED BY <2>1
    <3> QED BY <3>1
  <2>3. CASE ~(p \in Task /\ TaskAt(p).op = k - 1)
    <3>1. Triggered(k, p) = {}
      BY <1>1, <2>3, TriggeredIs
    <3> HIDE DEF old
    <3> QED BY <2>1, <2>2, <2>3, <3>1
  <2>4. CASE p \in Task /\ TaskAt(p).op = k - 1
    <3>1. PICK v \in V : /\ Triggered(k, p) = {v}
                         /\ \A w \in V : TaskAt(p).bid \in Producing(k, w) <=> w = v
      BY <1>1, <2>4, TriggeredIs
    <3>2. trig(p) = E + Rank(V, v) /\ trig(p) \in Int
      <4>1. Rank(V, v) \in Int
        <5> HIDE DEF V
        <5> QED BY <1>2, RankRange
      <4>2. {Rank(V, w) : w \in Triggered(k, p)} = {Rank(V, v)}
        BY <3>1
      <4>3. E \in Int
        BY LenProperties
      <4>4. Max({Rank(V, v)}) = Rank(V, v)
        BY <4>1, MaxSingle
      <4>5. trig(p) = E + Max({Rank(V, v)})
        BY <4>2
      <4> HIDE DEF V, E, trig
      <4> QED BY <4>1, <4>3, <4>4, <4>5
    <3>3. old[p + 1] = [all_tasks[p + 1] EXCEPT !.trigger_event = E + Rank(V, v)]
      <4> HIDE DEF old, trig, V, E
      <4> QED BY <2>2, <3>1, <3>2
    <3>4. E + Rank(V, v) \in Int
      <4> HIDE DEF trig, V, E
      <4> QED BY <3>2
    <3> HIDE DEF old, E, V, trig
    <3>5. old[p + 1] \in AnyTask /\ old[p + 1].op = all_tasks[p + 1].op
          /\ old[p + 1].bid = all_tasks[p + 1].bid /\ old[p + 1].trigger_event = E + Rank(V, v)
      BY <2>1, <3>3, <3>4 DEF AnyTask
    <3> QED BY <2>4, <3>1, <3>5
  <2> HIDE DEF old
  <2> QED BY <2>3, <2>4
<1>8. old \in [1 .. L -> AnyTask]
  <2>1. ASSUME NEW n \in 1 .. L PROVE old[n] \in AnyTask
    <3>1. n - 1 \in 0 .. L - 1 /\ n - 1 + 1 = n
      BY <1>4
    <3>2. old[n - 1 + 1] \in AnyTask
      <4> HIDE DEF old, L
      <4> QED BY <3>1, <1>7
    <3> HIDE DEF old
    <3> QED BY <3>1, <3>2
  <2>2. old = [n \in 1 .. L |-> old[n]]
    OBVIOUS
  <2> HIDE DEF old
  <2> QED BY <2>1, <2>2
<1>9. all_tasks' = old \o new
  <2>1. DOMAIN order = 1 .. N
    BY <1>3
  <2>2. all_tasks' =
          [n \in DOMAIN all_tasks |->
             IF Triggered(k, n - 1) = {} THEN all_tasks[n]
             ELSE [all_tasks[n] EXCEPT !.trigger_event = trig(n - 1)]]
          \o [n \in DOMAIN order |-> NewTask(k, BidOf(order[n]))]
    BY AddOperatorIs
  <2> HIDE DEF order, trig, N, k
  <2> QED BY <2>1, <2>2, <1>4
<1>10. /\ all_tasks' \in Seq(AnyTask) /\ Len(all_tasks') = L + N
       /\ \A i \in 1 .. L : all_tasks'[i] = old[i]
       /\ \A i \in 1 .. N : all_tasks'[L + i] = new[i]
  <2> HIDE DEF old, new, N, L, order
  <2>1. N \in Nat /\ L \in Nat
    BY <1>3, <1>4
  <2>2. /\ old \o new \in Seq(AnyTask)
        /\ Len(old \o new) = L + N
        /\ \A i \in 1 .. L : (old \o new)[i] = old[i]
        /\ \A i \in 1 .. N : (old \o new)[L + i] = new[i]
    <3> DEFINE T == AnyTask
    <3>1. old \in [1 .. L -> T] /\ new \in [1 .. N -> T]
      BY <1>6, <1>8
    <3> HIDE DEF T
    <3>2. old \o new \in Seq(T)
      BY <2>1, <3>1, Appended
    <3>3. Len(old \o new) = L + N
      BY <2>1, <3>1, Appended
    <3>4. \A i \in 1 .. L : (old \o new)[i] = old[i]
      BY <2>1, <3>1, Appended
    <3>5. \A i \in 1 .. N : (old \o new)[L + i] = new[i]
      BY <2>1, <3>1, Appended, Z3
    <3> QED BY <3>2, <3>3, <3>4, <3>5 DEF T
  <2> QED BY <2>2, <1>9
<1>11. \A p \in 0 .. L - 1 : all_tasks'[p + 1] = old[p + 1]
  <2> HIDE DEF L, old
  <2> QED BY <1>4, <1>10
<1>12. ASSUME NEW s \in S PROVE all_tasks'[L + Rank(S, s) + 1] = NewTask(k, bid[s])
  <2> DEFINE i == Rank(S, s) + 1
  <2>1. i \in 1 .. N /\ order[i] = s /\ L + Rank(S, s) + 1 = L + i /\ bid[s] = BidOf(s)
    BY <1>3, <1>4
  <2>2. new[i] = NewTask(k, BidOf(s))
    BY <2>1
  <2>3. all_tasks'[L + i] = new[i]
    <3> HIDE DEF i, new, N, L
    <3> QED BY <1>10, <2>1
  <2> HIDE DEF i, new, N, L, bid
  <2> QED BY <2>1, <2>2, <2>3
<1>13. ASSUME NEW p \in L .. L + N - 1 PROVE \E s \in S : p = L + Rank(S, s)
  <2> DEFINE i == p - L + 1
  <2>1. i \in 1 .. N /\ p = L + (i - 1)
    BY <1>3, <1>4
  <2>2. order[i] \in S /\ Rank(S, order[i]) = i - 1
    <3> HIDE DEF i, N, S, order
    <3> QED BY <1>3, <2>1
  <2> HIDE DEF i, S, order, L
  <2> QED BY <2>1, <2>2
<1>14. next' = k + 1 /\ graph' = graph /\ built' = built /\ first_tasks' = first_tasks
  BY AddOperatorIs
<1>15. /\ DOMAIN pre_task_map' = Blocks(graph[k])
       /\ pre_task_map' = [b \in Blocks(graph[k]) |-> pre_task_map'[b]]
       /\ \A s \in S : pre_task_map'[bid[s]] = L + Rank(S, s)
  <2>1. pre_task_map' =
          [b \in {BidOf(t) : t \in S} |-> L + Max({Rank(S, t) : t \in {u \in S : BidOf(u) = b}})]
    BY AddOperatorIs
  <2>2. \A t \in S : bid[t] = BidOf(t)
    OBVIOUS
  <2>3. {BidOf(t) : t \in S} = Blocks(graph[k])
    <3> HIDE DEF S, bid
    <3> QED BY <2>2, <1>5
  <2>4. ASSUME NEW s \in S PROVE pre_task_map'[bid[s]] = L + Rank(S, s)
    <3>1. {u \in S : BidOf(u) = bid[s]} = {s}
      <4> HIDE DEF S, bid
      <4> QED BY <2>2, <1>5
    <3>2. {Rank(S, t) : t \in {u \in S : BidOf(u) = bid[s]}} = {Rank(S, s)}
      <4> HIDE DEF S, bid
      <4> QED BY <3>1
    <3>3. Max({Rank(S, s)}) = Rank(S, s)
      <4>1. Rank(S, s) \in Int
        <5> HIDE DEF S, N
        <5> QED BY <1>3
      <4> QED BY <4>1, MaxSingle
    <3>4. bid[s] \in {BidOf(t) : t \in S}
      BY <2>2
    <3> HIDE DEF S, bid, L
    <3> QED BY <2>1, <3>2, <3>3, <3>4
  <2> HIDE DEF S, bid, L
  <2> QED BY <2>1, <2>3, <2>4
<1>16. \A p \in Task : p \in 0 .. L - 1
  BY TaskFacts
<1>17. next = k
  OBVIOUS
<1> HIDE DEF S, N, L, order, new, bid, old, trig, V, E, k
<1>18. Added(k, S, bid)
  BY <1>3, <1>5, <1>7, <1>10, <1>11, <1>12, <1>13, <1>14, <1>15, <1>17
     DEF Added, N, L
<1>19. \A p \in 0 .. L - 1 :
         ~(p \in Task /\ TaskAt(p).op = k - 1) => all_tasks'[p + 1] = all_tasks[p + 1]
  BY <1>7, <1>11
<1>20. \A p \in Task : \A v \in V :
         TaskAt(p).op = k - 1 /\ TaskAt(p).bid \in Producing(k, v) =>
           all_tasks'[p + 1].trigger_event = E + Rank(V, v)
  BY <1>7, <1>11, <1>16
<1> QED BY <1>1, <1>14, <1>18, <1>19, <1>20 DEF S, L, V, E, k, bid

\* The new events.
LEMMA AddsEvents ==
    ASSUME TasksOK, all_events \in Seq(AnyEvent), AddOperator
    PROVE  LET k == next
               V == Below(Dims(k))
               E == Len(all_events)
           IN  /\ E \in Nat /\ Cardinality(V) \in Nat
               /\ all_events' \in Seq(AnyEvent) /\ Len(all_events') = E + Cardinality(V)
               /\ \A e \in 0 .. E - 1 : all_events'[e + 1] = all_events[e + 1]
               /\ \A u, v \in V : Rank(V, u) = Rank(V, v) => u = v
               /\ \A v \in V : Rank(V, v) \in 0 .. Cardinality(V) - 1
               /\ \A e \in E .. E + Cardinality(V) - 1 : \E v \in V : e = E + Rank(V, v)
               /\ \A v \in V :
                    all_events'[E + Rank(V, v) + 1] =
                      [type |-> "LAUNCH_TASKS", num_triggers |-> Cardinality(Producing(k, v)),
                       first_task_id |-> Len(all_tasks) + Cardinality(Before(k, v)),
                       last_task_id |-> Len(all_tasks) + Cardinality(Before(k, v))
                                                       + Cardinality(Consuming(k, v))]
<1> DEFINE k == next
           V == Below(Dims(k))
           E == Len(all_events)
           N == Cardinality(V)
           L == Len(all_tasks)
           order == InOrder(V)
           ev(v) == [type |-> "LAUNCH_TASKS", num_triggers |-> Cardinality(Producing(k, v)),
                     first_task_id |-> L + Cardinality(Before(k, v)),
                     last_task_id |-> L + Cardinality(Before(k, v)) + Cardinality(Consuming(k, v))]
           new == [n \in 1 .. N |-> ev(order[n])]
<1>1. graph \in Graphs /\ k \in 2 .. Len(graph) /\ k \in Nat
  BY AddOperatorIs, GraphFacts DEF TasksOK
<1>2. V \in SUBSET Vector(MAX_TENSOR_DIMS) /\ IsFiniteSet(V) /\ MAX_TENSOR_DIMS \in Nat
  BY <1>1, PushesAre, GraphsAssumption
<1>3. /\ N \in Nat /\ order \in [1 .. N -> V]
      /\ \A m \in 1 .. N : Rank(V, order[m]) = m - 1
      /\ \A s \in V : Rank(V, s) + 1 \in 1 .. N /\ order[Rank(V, s) + 1] = s
      /\ \A s \in V : Rank(V, s) \in 0 .. N - 1
      /\ \A s, t \in V : Rank(V, s) = Rank(V, t) => s = t
  <2> HIDE DEF V
  <2> QED BY <1>2, InOrderEnumerates, RankRange, RankInjective
<1>4. /\ E \in Nat /\ all_events \in [1 .. E -> AnyEvent] /\ DOMAIN all_events = 1 .. E
      /\ L \in Nat
  BY LenProperties DEF TasksOK
<1>5. \A v \in V : ev(v) \in AnyEvent
  <2> TAKE v \in V
  <2>1. Cardinality(Producing(k, v)) \in Nat
    <3>1. Producing(k, v) \in SUBSET Blocks(graph[k - 1]) /\ IsFiniteSet(Blocks(graph[k - 1]))
      BY <1>1, PushesAre
    <3> QED BY <3>1, FS_Subset, FS_CardinalityType
  <2>2. Cardinality(Before(k, v)) \in Nat /\ Cardinality(Consuming(k, v)) \in Nat
    BY <1>1, RangeOfEvent
  <2> DEFINE first == L + Cardinality(Before(k, v))
             last == L + Cardinality(Before(k, v)) + Cardinality(Consuming(k, v))
             n == Cardinality(Producing(k, v))
  <2>3. first \in Nat /\ last \in Nat /\ n \in Nat
    <3> HIDE DEF L
    <3> QED BY <2>1, <2>2, <1>4
  <2> HIDE DEF first, last, n
  <2>4. [type |-> "LAUNCH_TASKS", num_triggers |-> n, first_task_id |-> first, last_task_id |-> last]
        \in AnyEvent
    BY <2>3 DEF AnyEvent, EventType
  <2> QED BY <2>4 DEF first, last, n
<1>6. new \in [1 .. N -> AnyEvent]
  <2>1. \A n \in 1 .. N : order[n] \in V
    BY <1>3
  <2> HIDE DEF ev, order, V
  <2> QED BY <2>1, <1>5
<1>7. all_events' = all_events \o new
  <2>1. DOMAIN order = 1 .. N
    BY <1>3
  <2>2. all_events' = all_events \o [n \in DOMAIN order |-> ev(order[n])]
    BY AddOperatorIs
  <2> HIDE DEF order, ev, N
  <2> QED BY <2>1, <2>2
<1>8. /\ all_events' \in Seq(AnyEvent) /\ Len(all_events') = E + N
      /\ \A i \in 1 .. E : all_events'[i] = all_events[i]
      /\ \A i \in 1 .. N : all_events'[E + i] = new[i]
  <2> HIDE DEF new, N, E, order
  <2>1. N \in Nat /\ E \in Nat /\ all_events \in [1 .. E -> AnyEvent]
    BY <1>3, <1>4
  <2>2. /\ all_events \o new \in Seq(AnyEvent) /\ Len(all_events \o new) = E + N
        /\ \A i \in 1 .. E : (all_events \o new)[i] = all_events[i]
        /\ \A i \in 1 .. N : (all_events \o new)[E + i] = new[i]
    BY <2>1, <1>6, Appended
  <2> QED BY <2>2, <1>7
<1>9. \A e \in 0 .. E - 1 : all_events'[e + 1] = all_events[e + 1]
  <2> HIDE DEF E
  <2> QED BY <1>4, <1>8
<1>10. ASSUME NEW v \in V PROVE all_events'[E + Rank(V, v) + 1] = ev(v)
  <2> DEFINE i == Rank(V, v) + 1
  <2>1. i \in 1 .. N /\ order[i] = v /\ E + Rank(V, v) + 1 = E + i
    BY <1>3, <1>4
  <2>2. new[i] = ev(v)
    <3> HIDE DEF ev, order, i, N
    <3> QED BY <2>1
  <2>3. all_events'[E + i] = new[i]
    <3> HIDE DEF i, new, N, E
    <3> QED BY <1>8, <2>1
  <2> HIDE DEF i, new, N, E, ev
  <2> QED BY <2>1, <2>2, <2>3
<1>11. ASSUME NEW e \in E .. E + N - 1 PROVE \E v \in V : e = E + Rank(V, v)
  <2> DEFINE i == e - E + 1
  <2>1. i \in 1 .. N /\ e = E + (i - 1)
    BY <1>3, <1>4
  <2>2. order[i] \in V /\ Rank(V, order[i]) = i - 1
    <3> HIDE DEF i, N, V, order
    <3> QED BY <1>3, <2>1
  <2> HIDE DEF i, V, order, E
  <2> QED BY <2>1, <2>2
<1> HIDE DEF V, E, N, order, new
<1> QED BY <1>3, <1>4, <1>8, <1>9, <1>10, <1>11 DEF V, E, N
-----------------------------------------------------------------------------
(* The tasks are the blocks, each once.                                     *)

\* Before the first operator there are no tasks.
LEMMA TasksInit == ASSUME Init PROVE TasksOK
<1>1. graph \in Graphs /\ next = 1 /\ built = FALSE /\ first_tasks = {}
  BY DEF Init
<1>2. all_tasks \in Seq(AnyTask) /\ Len(all_tasks) = 2
  <2> DEFINE t == NewTask(0, << >>)
             u == [t EXCEPT !.trigger_event = LaunchEvent]
  <2>1. t \in AnyTask /\ u \in AnyTask
    <3> DEFINE e == << >>
    <3>1. e \in Seq(Nat)
      OBVIOUS
    <3> HIDE DEF e
    <3>2. NewTask(0, e) \in AnyTask
      BY <3>1 DEF NewTask, AnyTask, NoEvent
    <3>3. [NewTask(0, e) EXCEPT !.trigger_event = LaunchEvent] \in AnyTask
      BY <3>2 DEF AnyTask, LaunchEvent
    <3> QED BY <3>2, <3>3 DEF e
  <2>2. all_tasks = << t, u >>
    BY DEF Init
  <2> HIDE DEF t, u
  <2> QED BY <2>1, <2>2
<1>3. Task = {}
  BY <1>2 DEF Task, FirstTask
<1>4. Len(graph) \in Nat \ {0}
  BY <1>1, GraphFacts
<1>5. next \in 1 .. Len(graph) + 1 /\ 1 .. next - 1 = {}
  BY <1>1, <1>4
<1>6. {p \in Task : TaskAt(p).op = 1} = {} /\ ~(next > 1)
  BY <1>1, <1>3
<1>7. \A p \in Task : FALSE
  BY <1>3
<1>8. \A k \in 1 .. next - 1 : FALSE
  BY <1>5
<1>9. built \in BOOLEAN /\ Len(all_tasks) >= 2
  <2>1. Len(all_tasks) >= 2
    BY <1>2
  <2> QED BY <2>1, <1>1
<1> QED BY <1>1, <1>2, <1>5, <1>6, <1>7, <1>8, <1>9, Zenon DEF TasksOK

\* When the blocks of an operator are added, each becomes one new task.
LEMMA TasksGrow ==
    ASSUME TasksOK, NEW k \in 1 .. Len(graph), NEW S, NEW bid, Added(k, S, bid),
           first_tasks' = IF k = 1 THEN Range(pre_task_map') ELSE first_tasks
    PROVE  TasksOK'
<1> DEFINE L == Len(all_tasks)
           N == Cardinality(S)
           Op(p) == all_tasks'[p + 1].op
           Bid(p) == all_tasks'[p + 1].bid
<1>1. /\ L \in Nat /\ L >= 2 /\ N \in Nat /\ Len(all_tasks') = L + N
      /\ Task = 2 .. L - 1 /\ Task' = 2 .. L + N - 1
      /\ k \in Nat /\ graph \in Graphs /\ Len(graph) \in Nat
  <2>1. L \in Nat /\ L >= 2 /\ Task = 2 .. L - 1
    BY TaskFacts
  <2>2. N \in Nat /\ Len(all_tasks') = L + N
    BY DEF Added
  <2>3. Task' = 2 .. L + N - 1
    BY <2>2 DEF Task, FirstTask
  <2>4. graph \in Graphs /\ Len(graph) \in Nat /\ k \in Nat
    BY GraphFacts DEF TasksOK
  <2> QED BY <2>1, <2>2, <2>3, <2>4
<1>2. \A p \in Task : Op(p) = TaskAt(p).op /\ Bid(p) = TaskAt(p).bid /\ p \in Task'
  <2> TAKE p \in Task
  <2>1. p \in 0 .. L - 1 /\ p \in Task'
    BY <1>1
  <2> HIDE DEF L
  <2> QED BY <2>1 DEF Added, L, TaskAt
<1>3. ASSUME NEW s \in S
      PROVE  /\ L + Rank(S, s) \in Task' /\ L + Rank(S, s) \notin Task
             /\ Op(L + Rank(S, s)) = k /\ Bid(L + Rank(S, s)) = bid[s]
             /\ bid[s] \in Blocks(graph[k])
  <2>1. /\ Rank(S, s) \in 0 .. N - 1
        /\ all_tasks'[L + Rank(S, s) + 1] = NewTask(k, bid[s])
        /\ bid[s] \in Blocks(graph[k])
    BY DEF Added
  <2>2. L + Rank(S, s) \in Task' /\ L + Rank(S, s) \notin Task
    <3> HIDE DEF L, N
    <3> QED BY <1>1, <2>1
  <2> QED BY <2>1, <2>2 DEF NewTask
<1>4. \A p \in Task' : p \notin Task => \E s \in S : p = L + Rank(S, s)
  <2> TAKE p \in Task'
  <2>1. p \notin Task => p \in L .. L + N - 1
    BY <1>1
  <2>2. \A q \in L .. L + N - 1 : \E s \in S : q = L + Rank(S, s)
    BY DEF Added
  <2> QED BY <2>1, <2>2
<1>5. /\ next = k /\ next' = k + 1 /\ graph' = graph /\ built' = built
      /\ \A s, t \in S : bid[s] = bid[t] => s = t
      /\ \A b \in Blocks(graph[k]) : \E s \in S : bid[s] = b
      /\ DOMAIN pre_task_map' = Blocks(graph[k])
      /\ pre_task_map' = [b \in Blocks(graph[k]) |-> pre_task_map'[b]]
      /\ \A s \in S : pre_task_map'[bid[s]] = L + Rank(S, s)
      /\ all_tasks' \in Seq(AnyTask)
  BY DEF Added
<1>6. \A p \in Task : TaskAt(p).op \in 1 .. k - 1 /\ TaskAt(p).bid \in Blocks(graph[TaskAt(p).op])
  BY <1>5 DEF TasksOK
<1>7. \A p \in Task' : (p \in Task <=> Op(p) # k) /\ (p \notin Task => Op(p) = k)
  <2> TAKE p \in Task'
  <2>1. p \in Task => Op(p) # k
    <3> SUFFICES ASSUME p \in Task PROVE Op(p) # k
      OBVIOUS
    <3>1. Op(p) \in 1 .. k - 1
      BY <1>2, <1>6
    <3> HIDE DEF Op
    <3> QED BY <3>1, <1>1
  <2>2. p \notin Task => Op(p) = k
    <3> SUFFICES ASSUME p \notin Task PROVE Op(p) = k
      OBVIOUS
    <3>1. PICK s \in S : p = L + Rank(S, s)
      BY <1>4
    <3> HIDE DEF Op, L
    <3> QED BY <3>1, <1>3
  <2> QED BY <2>1, <2>2
<1>8. ASSUME NEW p \in Task' PROVE Op(p) \in 1 .. next' - 1 /\ Bid(p) \in Blocks(graph'[Op(p)])
  <2>1. CASE p \in Task
    <3>1. Op(p) \in 1 .. k - 1 /\ Bid(p) \in Blocks(graph[Op(p)])
      BY <1>2, <1>6, <2>1
    <3>2. 1 .. k - 1 \subseteq 1 .. next' - 1
      BY <1>1, <1>5
    <3> HIDE DEF Op, Bid
    <3> QED BY <3>1, <3>2, <1>5
  <2>2. CASE p \notin Task
    <3>1. PICK s \in S : p = L + Rank(S, s)
      BY <1>4, <2>2
    <3>2. Op(p) = k /\ Bid(p) = bid[s] /\ bid[s] \in Blocks(graph[k])
      <4> HIDE DEF Op, Bid, L
      <4> QED BY <3>1, <1>3
    <3>3. k \in 1 .. next' - 1
      BY <1>1, <1>5
    <3> HIDE DEF Op, Bid
    <3> QED BY <3>2, <3>3, <1>5
  <2> QED BY <2>1, <2>2
<1>9. ASSUME NEW j \in 1 .. next' - 1, NEW b \in Blocks(graph'[j])
      PROVE  \E p \in Task' : Op(p) = j /\ Bid(p) = b
  <2>1. CASE j = k
    <3>1. PICK s \in S : bid[s] = b
      BY <1>5, <2>1
    <3> HIDE DEF Op, Bid
    <3> QED BY <3>1, <2>1, <1>3
  <2>2. CASE j # k
    <3>1. j \in 1 .. next - 1 /\ b \in Blocks(graph[j])
      BY <1>1, <1>5, <2>2
    <3>2. PICK p \in Task : TaskAt(p).op = j /\ TaskAt(p).bid = b
      BY <3>1 DEF TasksOK
    <3> HIDE DEF Op, Bid
    <3> QED BY <3>2, <1>2
  <2> QED BY <2>1, <2>2
<1>10. ASSUME NEW p \in Task', NEW q \in Task', Op(p) = Op(q), Bid(p) = Bid(q) PROVE p = q
  <2>1. CASE p \in Task
    <3>1. q \in Task
      <4> HIDE DEF Op, Bid
      <4> QED BY <1>7, <1>10, <2>1
    <3>2. TaskAt(p).op = TaskAt(q).op /\ TaskAt(p).bid = TaskAt(q).bid
      <4> HIDE DEF Op, Bid
      <4> QED BY <1>2, <1>10, <2>1, <3>1
    <3> QED BY <2>1, <3>1, <3>2 DEF TasksOK
  <2>2. CASE p \notin Task
    <3>1. q \notin Task
      <4> HIDE DEF Op, Bid
      <4> QED BY <1>7, <1>10, <2>2
    <3>2. PICK s \in S : p = L + Rank(S, s)
      BY <1>4, <2>2
    <3>3. PICK t \in S : q = L + Rank(S, t)
      BY <1>4, <3>1
    <3>4. bid[s] = bid[t]
      <4> HIDE DEF Op, Bid, L
      <4> QED BY <3>2, <3>3, <1>3, <1>10
    <3>5. s = t
      BY <3>4, <1>5
    <3> QED BY <3>2, <3>3, <3>5
  <2> QED BY <2>1, <2>2
<1>11. ASSUME NEW b \in Blocks(graph[k])
       PROVE  /\ pre_task_map'[b] \in Task' /\ pre_task_map'[b] \notin Task
              /\ Op(pre_task_map'[b]) = k /\ Bid(pre_task_map'[b]) = b
  <2>1. PICK s \in S : bid[s] = b
    BY <1>5
  <2>2. pre_task_map'[b] = L + Rank(S, s)
    BY <1>5, <2>1
  <2> HIDE DEF Op, Bid, L
  <2> QED BY <2>1, <2>2, <1>3
<1>12. first_tasks' = {p \in Task' : Op(p) = 1}
  <2>1. CASE k = 1
    <3>1. first_tasks' = {pre_task_map'[b] : b \in Blocks(graph[k])}
      BY <1>5, <2>1 DEF Range
    <3>2. \A p \in Task' : Op(p) = 1
      <4> TAKE p \in Task'
      <4>1. Op(p) \in 1 .. next' - 1
        BY <1>8
      <4> HIDE DEF Op
      <4> QED BY <4>1, <1>5, <2>1
    <3>3. \A p \in Task' : \E b \in Blocks(graph[k]) : p = pre_task_map'[b]
      <4> TAKE p \in Task'
      <4>1. p \notin Task
        <5> HIDE DEF Op
        <5> QED BY <3>2, <1>7, <2>1
      <4>2. PICK s \in S : p = L + Rank(S, s)
        BY <1>4, <4>1
      <4>3. bid[s] \in Blocks(graph[k])
        BY <1>3
      <4>4. p = pre_task_map'[bid[s]]
        BY <4>2, <1>5
      <4> QED BY <4>3, <4>4
    <3> HIDE DEF Op
    <3> QED BY <3>1, <3>2, <3>3, <1>11
  <2>2. CASE k # 1
    <3>1. first_tasks' = {p \in Task : TaskAt(p).op = 1}
      BY <2>2 DEF TasksOK
    <3>2. \A p \in Task' : Op(p) = 1 => p \in Task
      <4> HIDE DEF Op
      <4> QED BY <1>7, <2>2
    <3> HIDE DEF Op
    <3> QED BY <3>1, <3>2, <1>2
  <2> QED BY <2>1, <2>2
<1>13. graph' \in Graphs /\ next' \in 1 .. Len(graph') + 1 /\ built' \in BOOLEAN /\ next' - 1 = k
  BY <1>1, <1>5 DEF TasksOK
<1>14. /\ pre_task_map' \in [Blocks(graph'[next' - 1]) -> Task']
       /\ \A b \in Blocks(graph'[next' - 1]) : /\ Op(pre_task_map'[b]) = next' - 1
                                               /\ Bid(pre_task_map'[b]) = b
  <2> HIDE DEF Op, Bid
  <2>1. graph'[next' - 1] = graph[k]
    BY <1>5, <1>13
  <2>2. pre_task_map' \in [Blocks(graph[k]) -> Task']
    BY <1>5, <1>11
  <2> QED BY <2>1, <2>2, <1>11, <1>13
<1>15. Len(all_tasks') >= 2
  BY <1>1
<1>16. (\A p \in Task : /\ TaskAt(p).op \in 1 .. next - 1
                         /\ TaskAt(p).bid \in Blocks(graph[TaskAt(p).op]))'
  BY <1>8 DEF TaskAt
<1>17. (\A j \in 1 .. next - 1 : \A b \in Blocks(graph[j]) :
          \E p \in Task : TaskAt(p).op = j /\ TaskAt(p).bid = b)'
  BY <1>9 DEF TaskAt
<1>18. (\A p, q \in Task : TaskAt(p).op = TaskAt(q).op /\ TaskAt(p).bid = TaskAt(q).bid => p = q)'
  BY <1>10 DEF TaskAt
<1>19. (first_tasks = {p \in Task : TaskAt(p).op = 1})'
  BY <1>12 DEF TaskAt
<1>20. (/\ pre_task_map \in [Blocks(graph[next - 1]) -> Task]
        /\ \A b \in Blocks(graph[next - 1]) : /\ TaskAt(pre_task_map[b]).op = next - 1
                                              /\ TaskAt(pre_task_map[b]).bid = b)'
  BY <1>14 DEF TaskAt
<1> HIDE DEF Op, Bid
<1> QED BY <1>5, <1>13, <1>15, <1>16, <1>17, <1>18, <1>19, <1>20 DEF TasksOK
-----------------------------------------------------------------------------
(* The events count the tasks that trigger them, and launch those that wait. *)

\* What AddOperator does to the tasks.
LEMMA AfterOperator ==
    ASSUME TasksOK, all_events \in Seq(AnyEvent), AddOperator
    PROVE  LET k == next
               V == Below(Dims(k))
               E == Len(all_events)
               L == Len(all_tasks)
               N == Cardinality(Pushes(k))
           IN  /\ k \in 2 .. Len(graph) /\ k \in Nat
               /\ N \in Nat /\ Len(all_tasks') = L + N
               /\ next' = k + 1 /\ graph' = graph /\ built' = built
               /\ \A p \in 0 .. L - 1 : /\ all_tasks'[p + 1].op = TaskAt(p).op
                                        /\ all_tasks'[p + 1].bid = TaskAt(p).bid
               /\ \A p \in 0 .. L - 1 : ~(p \in Task /\ TaskAt(p).op = k - 1) =>
                    all_tasks'[p + 1].trigger_event = TaskAt(p).trigger_event
               /\ \A p \in Task : TaskAt(p).op = k - 1 =>
                    \E v \in V : /\ all_tasks'[p + 1].trigger_event = E + Rank(V, v)
                                 /\ \A w \in V : TaskAt(p).bid \in Producing(k, w) <=> w = v
               /\ \A p \in L .. L + N - 1 :
                    /\ all_tasks'[p + 1].op = k /\ all_tasks'[p + 1].trigger_event = NoEvent
                    /\ \E v \in V : \E b \in Consuming(k, v) :
                         /\ all_tasks'[p + 1].bid = b
                         /\ p = L + Rank(Pushes(k), v \o b)
                         /\ \A w \in V : b \in Consuming(k, w) <=> w = v
<1> DEFINE k == next
           V == Below(Dims(k))
           E == Len(all_events)
           L == Len(all_tasks)
           S == Pushes(k)
           N == Cardinality(S)
           bid == [t \in S |-> BidOf(t)]
           T(p) == all_tasks'[p + 1]
<1>1. graph \in Graphs /\ k \in 2 .. Len(graph) /\ k \in Nat /\ Added(k, S, bid)
  BY AddsOperator, GraphFacts DEF TasksOK
<1>2. /\ N \in Nat /\ Len(all_tasks') = L + N
      /\ next' = k + 1 /\ graph' = graph /\ built' = built
      /\ \A p \in 0 .. L - 1 : T(p).op = TaskAt(p).op /\ T(p).bid = TaskAt(p).bid
  BY <1>1 DEF Added, TaskAt
<1>3. \A p \in 0 .. L - 1 : ~(p \in Task /\ TaskAt(p).op = k - 1) => T(p) = TaskAt(p)
  BY AddsOperator DEF TaskAt
<1>4. ASSUME NEW p \in Task, TaskAt(p).op = k - 1
      PROVE  \E v \in V : /\ T(p).trigger_event = E + Rank(V, v)
                          /\ \A w \in V : TaskAt(p).bid \in Producing(k, w) <=> w = v
  <2>1. p \in 0 .. L - 1
    BY TaskFacts
  <2>2. PICK v \in V : \A w \in V : TaskAt(p).bid \in Producing(k, w) <=> w = v
    BY <1>1, <1>4, <2>1, TriggeredIs
  <2>3. T(p).trigger_event = E + Rank(V, v)
    BY <2>2, <1>4, AddsOperator
  <2> QED BY <2>2, <2>3
<1>5. ASSUME NEW p \in L .. L + N - 1
      PROVE  /\ T(p).op = k /\ T(p).trigger_event = NoEvent
             /\ \E v \in V : \E b \in Consuming(k, v) :
                  /\ T(p).bid = b
                  /\ p = L + Rank(S, v \o b)
                  /\ \A w \in V : b \in Consuming(k, w) <=> w = v
  <2>1. PICK t \in S : p = L + Rank(S, t)
    BY <1>1 DEF Added
  <2>2. T(p) = NewTask(k, BidOf(t))
    <3>1. all_tasks'[L + Rank(S, t) + 1] = NewTask(k, bid[t]) /\ bid[t] = BidOf(t)
      BY <1>1 DEF Added
    <3> HIDE DEF L, S, bid
    <3> QED BY <3>1, <2>1
  <2>3. BidOf(t) \in Blocks(graph[k])
    BY <1>1, PushesAre
  <2>4. PICK v \in V : BidOf(t) \in Consuming(k, v) /\ t = v \o BidOf(t)
    BY <1>1, PushesAre
  <2>5. \A w \in V : BidOf(t) \in Consuming(k, w) <=> w = v
    <3>1. Gridded(graph[k]) /\ Mapping(JoinInput(k).map) /\ Splits(Dims(k), graph[k], JoinInput(k).map)
      BY <1>1, JoinFacts
    <3>2. \E u \in V : \A w \in V : BidOf(t) \in Part(graph[k], JoinInput(k).map, Dims(k), w) <=> w = u
      BY <3>1, <2>3, OneEvent
    <3> QED BY <3>2, <2>4 DEF Consuming
  <2>6. p = L + Rank(S, v \o BidOf(t))
    BY <2>1, <2>4
  <2>7. T(p).op = k /\ T(p).trigger_event = NoEvent /\ T(p).bid = BidOf(t)
    <3> HIDE DEF T, k
    <3> QED BY <2>2 DEF NewTask
  <2> HIDE DEF T, k, L, S
  <2> QED BY <2>4, <2>5, <2>6, <2>7
<1> HIDE DEF V, E, L, S, N, k, bid
<1> QED BY <1>1, <1>2, <1>3, <1>4, <1>5 DEF V, E, L, S, N, k

\* Waiting does not depend on anything but the graph.
LEMMA SameJoined ==
    ASSUME graph' = graph, NEW k, NEW c, NEW b
    PROVE  Joined(k, c, b)' <=> Joined(k, c, b)
<1>1. JoinInput(k)' = JoinInput(k)
  BY DEF JoinInput, SharedInputs
<1>2. JoinOutput(k)' = JoinOutput(k)
  BY <1>1 DEF JoinOutput
<1>3. Dims(k)' = Dims(k)
  BY <1>1, <1>2 DEF Dims
<1> QED BY <1>1, <1>2, <1>3 DEF Joined, Consuming, Producing

\* The events of init, which nothing triggers or waits for but the begin task.
LEMMA GrowingInit == ASSUME Init PROVE Growing
<1>1. Len(all_tasks) = 2 /\ Len(all_events) = 2
  BY DEF Init
<1>2. Task = {} /\ Event = {0, 1} /\ LaunchEvent + 1 .. EndEvent = {}
  BY <1>1 DEF Task, FirstTask, Event, EndEvent, LaunchEvent
<1>3. TaskAt(TerminateTask).trigger_event = NoEvent /\ TaskAt(BeginTask).trigger_event = LaunchEvent
  BY DEF Init, TaskAt, TerminateTask, BeginTask, NewTask, NoEvent, LaunchEvent
<1>4. /\ EventAt(0).type # "LAUNCH_TASKS" /\ EventAt(1).type # "LAUNCH_TASKS"
      /\ EventAt(LaunchEvent).num_triggers = 1
  BY DEF Init, EventAt, LaunchEvent
<1>5. \A e \in Event : EventAt(e).type = "LAUNCH_TASKS" <=> e > LaunchEvent
  BY <1>2, <1>4 DEF LaunchEvent
<1>6. all_events \in Seq(AnyEvent)
  <2> DEFINE a == [type |-> "TERMINATION", num_triggers |-> 1, first_task_id |-> 0, last_task_id |-> 0]
             b == [type |-> "LAUNCH_DEPENDENT_TASKS", num_triggers |-> 1,
                   first_task_id |-> 0, last_task_id |-> 0]
  <2>1. a \in AnyEvent /\ b \in AnyEvent
    BY DEF AnyEvent, EventType
  <2>2. all_events = << a, b >>
    BY DEF Init
  <2> HIDE DEF a, b
  <2> QED BY <2>1, <2>2
<1>7. EventsGrow
  <2>1. Len(all_events) >= 2
    BY <1>1
  <2> QED BY <1>2, <1>3, <1>4, <1>5, <1>6, <2>1 DEF EventsGrow
<1>8. JoinsGrow
  BY <1>2 DEF JoinsGrow
<1> QED BY <1>7, <1>8 DEF Growing

\* The tasks of the first operator wait for nothing.
LEMMA GrowingFirst == ASSUME TasksOK, Growing, AddFirst PROVE Growing'
<1> DEFINE L == Len(all_tasks)
           S == Blocks(graph[1])
           N == Cardinality(S)
           bid == [b \in S |-> b]
           T(p) == all_tasks'[p + 1]
<1>1. /\ next = 1 /\ next' = 2 /\ all_events' = all_events
      /\ Added(1, S, bid) /\ \A p \in 0 .. L - 1 : T(p) = TaskAt(p)
  BY AddsFirst DEF Added, TaskAt
<1>2. /\ L \in Nat /\ L >= 2 /\ N \in Nat /\ Len(all_tasks') = L + N
      /\ Task = {} /\ L = 2 /\ Task' = 2 .. L + N - 1
  <2>1. L \in Nat /\ L >= 2 /\ Task = 2 .. L - 1
    BY TaskFacts
  <2>2. N \in Nat /\ Len(all_tasks') = L + N
    BY <1>1 DEF Added
  <2>3. Task = {}
    BY <1>1 DEF TasksOK
  <2>4. Task' = 2 .. L + N - 1
    BY <2>2 DEF Task, FirstTask
  <2> HIDE DEF L, N
  <2> QED BY <2>1, <2>2, <2>3, <2>4
<1>3. \A p \in Task' : T(p).op = 1 /\ T(p).trigger_event = NoEvent
  <2> TAKE p \in Task'
  <2>1. p \in L .. L + N - 1
    BY <1>2
  <2>2. PICK s \in S : p = L + Rank(S, s)
    BY <1>1, <2>1 DEF Added
  <2>3. T(p) = NewTask(1, bid[s])
    <3>1. all_tasks'[L + Rank(S, s) + 1] = NewTask(1, bid[s])
      BY <1>1 DEF Added
    <3> HIDE DEF L, S, bid
    <3> QED BY <3>1, <2>2
  <2> HIDE DEF T, bid
  <2> QED BY <2>3 DEF NewTask
<1>4. Event' = Event /\ EndEvent' = EndEvent /\ \A e : EventAt(e)' = EventAt(e)
  BY <1>1 DEF Event, EndEvent, EventAt
<1>5. /\ all_events \in Seq(AnyEvent) /\ Len(all_events) >= 2
      /\ EventAt(LaunchEvent).num_triggers = 1
      /\ \A e \in Event : EventAt(e).type = "LAUNCH_TASKS" <=> e > LaunchEvent
      /\ \A e \in LaunchEvent + 1 .. EndEvent :
           /\ EventAt(e).num_triggers = Cardinality(Producers(e)) /\ EventAt(e).num_triggers > 0
           /\ EventAt(e).last_task_id <= L
           /\ \A r \in Producers(e) : r < EventAt(e).first_task_id
      /\ TaskAt(TerminateTask).trigger_event = NoEvent
      /\ TaskAt(BeginTask).trigger_event = LaunchEvent
  BY DEF Growing, EventsGrow
<1>6. /\ T(0) = TaskAt(0) /\ T(1) = TaskAt(1)
  <2>1. 0 \in 0 .. L - 1 /\ 1 \in 0 .. L - 1
    BY <1>2
  <2> HIDE DEF T, L
  <2> QED BY <1>1, <2>1
<1>7. ASSUME NEW e \in LaunchEvent + 1 .. EndEvent PROVE Producers(e)' = Producers(e)
  <2>1. e # NoEvent /\ e \in Int
    BY <1>5, LenProperties DEF LaunchEvent, NoEvent, EndEvent
  <2>2. \A p \in 0 .. L + N - 1 : p \notin 0 .. L - 1 => T(p).trigger_event # e
    <3> HIDE DEF T, L, N
    <3> QED BY <1>2, <1>3, <2>1
  <2>3. \A p \in 0 .. L - 1 : p \in 0 .. L + N - 1 /\ T(p).trigger_event = TaskAt(p).trigger_event
    <3> HIDE DEF T, L, N
    <3> QED BY <1>1, <1>2
  <2>4. Producers(e)' = {p \in 0 .. L + N - 1 : T(p).trigger_event = e}
    BY <1>2 DEF Producers, TaskAt
  <2> HIDE DEF T, N, L
  <2> QED BY <2>2, <2>3, <2>4 DEF Producers, L
<1>8. EventsGrow'
  <2>1. (\A e \in LaunchEvent + 1 .. EndEvent :
           /\ EventAt(e).num_triggers = Cardinality(Producers(e)) /\ EventAt(e).num_triggers > 0
           /\ EventAt(e).last_task_id <= Len(all_tasks)
           /\ \A r \in Producers(e) : r < EventAt(e).first_task_id)'
    <3> SUFFICES ASSUME NEW e \in LaunchEvent + 1 .. EndEvent
                 PROVE  /\ EventAt(e).num_triggers = Cardinality(Producers(e)')
                        /\ EventAt(e).num_triggers > 0
                        /\ EventAt(e).last_task_id <= L + N
                        /\ \A r \in Producers(e)' : r < EventAt(e).first_task_id
      BY <1>2, <1>4
    <3>1. EventAt(e).last_task_id \in Nat
      <4>1. e + 1 \in 1 .. Len(all_events)
        BY <1>5, LenProperties DEF LaunchEvent, EndEvent
      <4>2. EventAt(e) \in AnyEvent
        BY <4>1, <1>5, LenProperties DEF EventAt
      <4> QED BY <4>2 DEF AnyEvent
    <3>2. EventAt(e).last_task_id <= L
      BY <1>5
    <3> HIDE DEF L, N
    <3> QED BY <3>1, <3>2, <1>2, <1>5, <1>7
  <2>2. (TaskAt(TerminateTask).trigger_event = NoEvent /\ TaskAt(BeginTask).trigger_event = LaunchEvent)'
    BY <1>5, <1>6 DEF TaskAt, TerminateTask, BeginTask
  <2>3. (\A p \in Task : IF TaskAt(p).op = next - 1 THEN TaskAt(p).trigger_event = NoEvent
                         ELSE TaskAt(p).trigger_event \in LaunchEvent + 1 .. EndEvent)'
    BY <1>1, <1>3 DEF TaskAt
  <2>4. (/\ all_events \in Seq(AnyEvent) /\ Len(all_events) >= 2
         /\ EventAt(LaunchEvent).num_triggers = 1
         /\ \A e \in Event : EventAt(e).type = "LAUNCH_TASKS" <=> e > LaunchEvent)'
    BY <1>1, <1>4, <1>5
  <2> QED BY <2>1, <2>2, <2>3, <2>4 DEF EventsGrow
<1>9. JoinsGrow'
  <2> SUFFICES ASSUME NEW p \in Task', NEW e \in LaunchEvent + 1 .. EndEvent PROVE ~InRange(p, e)'
    BY <1>3, <1>4 DEF JoinsGrow, TaskAt
  <2>1. EventAt(e).last_task_id \in Nat
    <3>1. e + 1 \in 1 .. Len(all_events)
      BY <1>5, LenProperties DEF LaunchEvent, EndEvent
    <3>2. EventAt(e) \in AnyEvent
      BY <3>1, <1>5, LenProperties DEF EventAt
    <3> QED BY <3>2 DEF AnyEvent
  <2>2. EventAt(e).last_task_id <= 2
    BY <1>2, <1>5
  <2>3. p \in Nat /\ p >= 2
    BY <1>2
  <2> QED BY <1>4, <2>1, <2>2, <2>3 DEF InRange
<1> QED BY <1>8, <1>9 DEF Growing

\* The tasks of a later operator wait for the new events, which those before trigger.
LEMMA GrowingOperator == ASSUME TasksOK, Growing, AddOperator PROVE Growing'
<1> DEFINE k == next
           V == Below(Dims(k))
           E == Len(all_events)
           M == Cardinality(V)
           L == Len(all_tasks)
           P == Pushes(k)
           N == Cardinality(P)
           T(p) == all_tasks'[p + 1]
           X(e) == all_events'[e + 1]
           Old == LaunchEvent + 1 .. EndEvent
           bef(v) == Cardinality(Before(k, v))
           con(v) == Cardinality(Consuming(k, v))
<1>1. /\ all_events \in Seq(AnyEvent) /\ E >= 2
      /\ EventAt(LaunchEvent).num_triggers = 1
      /\ \A e \in Event : EventAt(e).type = "LAUNCH_TASKS" <=> e > LaunchEvent
      /\ \A e \in Old :
           /\ EventAt(e).num_triggers = Cardinality(Producers(e)) /\ EventAt(e).num_triggers > 0
           /\ EventAt(e).last_task_id <= L
           /\ \A r \in Producers(e) : r < EventAt(e).first_task_id
      /\ TaskAt(TerminateTask).trigger_event = NoEvent
      /\ TaskAt(BeginTask).trigger_event = LaunchEvent
      /\ \A p \in Task : IF TaskAt(p).op = k - 1 THEN TaskAt(p).trigger_event = NoEvent
                         ELSE TaskAt(p).trigger_event \in Old
  BY DEF Growing, EventsGrow
<1>2. /\ E \in Nat /\ M \in Nat
      /\ all_events' \in Seq(AnyEvent) /\ Len(all_events') = E + M
      /\ \A e \in 0 .. E - 1 : X(e) = EventAt(e)
      /\ \A u, v \in V : Rank(V, u) = Rank(V, v) => u = v
      /\ \A v \in V : Rank(V, v) \in 0 .. M - 1
      /\ \A e \in E .. E + M - 1 : \E v \in V : e = E + Rank(V, v)
      /\ \A v \in V : X(E + Rank(V, v)) =
           [type |-> "LAUNCH_TASKS", num_triggers |-> Cardinality(Producing(k, v)),
            first_task_id |-> L + bef(v), last_task_id |-> L + bef(v) + con(v)]
  BY <1>1, AddsEvents DEF EventAt
<1>nat. E \in Nat /\ M \in Nat
  BY <1>2
<1>3. /\ k \in 2 .. Len(graph) /\ k \in Nat /\ graph \in Graphs
      /\ N \in Nat /\ Len(all_tasks') = L + N
      /\ next' = k + 1 /\ graph' = graph
  BY <1>1, AfterOperator DEF TasksOK
<1>4. /\ L \in Nat /\ L >= 2 /\ Task = 2 .. L - 1 /\ Task' = 2 .. L + N - 1
      /\ Old = 2 .. E - 1 /\ (LaunchEvent + 1 .. EndEvent)' = 2 .. E + M - 1
      /\ Event = 0 .. E - 1 /\ Event' = 0 .. E + M - 1
  <2>1. L \in Nat /\ L >= 2 /\ Task = 2 .. L - 1
    BY TaskFacts
  <2>2. Task' = 2 .. L + N - 1
    BY <1>3 DEF Task, FirstTask
  <2>3. Old = 2 .. E - 1 /\ (LaunchEvent + 1 .. EndEvent)' = 2 .. E + M - 1
        /\ Event = 0 .. E - 1 /\ Event' = 0 .. E + M - 1
    BY <1>2 DEF LaunchEvent, EndEvent, Event
  <2> QED BY <2>1, <2>2, <2>3
<1>5. /\ \A p \in 0 .. L - 1 : T(p).op = TaskAt(p).op /\ T(p).bid = TaskAt(p).bid
      /\ \A p \in 0 .. L - 1 : ~(p \in Task /\ TaskAt(p).op = k - 1) =>
           T(p).trigger_event = TaskAt(p).trigger_event
  BY <1>1, AfterOperator
<1>6. \A p \in Task : TaskAt(p).op = k - 1 =>
        \E v \in V : /\ T(p).trigger_event = E + Rank(V, v)
                     /\ \A w \in V : TaskAt(p).bid \in Producing(k, w) <=> w = v
  BY <1>1, AfterOperator
<1>7. \A p \in L .. L + N - 1 :
        /\ T(p).op = k /\ T(p).trigger_event = NoEvent
        /\ \E v \in V : \E b \in Consuming(k, v) :
             /\ T(p).bid = b
             /\ p = L + Rank(P, v \o b)
             /\ \A w \in V : b \in Consuming(k, w) <=> w = v
  BY <1>1, AfterOperator
<1>8. \A v \in V : /\ bef(v) \in Nat /\ con(v) \in Nat /\ bef(v) + con(v) <= N
                   /\ \A w \in V : \A b \in Consuming(k, w) :
                        /\ Rank(P, w \o b) \in Nat
                        /\ w = v <=> Rank(P, w \o b) >= bef(v) /\ Rank(P, w \o b) < bef(v) + con(v)
  BY <1>3, RangeOfEvent
<1>9. \A p \in Task : TaskAt(p).op \in 1 .. k - 1
  BY DEF TasksOK
<1>10. ASSUME NEW p \in 0 .. L - 1
       PROVE  IF p \in Task /\ TaskAt(p).op = k - 1 THEN T(p).trigger_event \in E .. E + M - 1
              ELSE T(p).trigger_event = TaskAt(p).trigger_event /\ T(p).trigger_event \in -1 .. E - 1
  <2>1. CASE p \in Task /\ TaskAt(p).op = k - 1
    <3>1. PICK v \in V : T(p).trigger_event = E + Rank(V, v)
      BY <1>6, <2>1
    <3>2. Rank(V, v) \in 0 .. M - 1
      BY <1>2
    <3> HIDE DEF T, V, E, M
    <3> QED BY <2>1, <3>1, <3>2, <1>nat
  <2>2. CASE ~(p \in Task /\ TaskAt(p).op = k - 1)
    <3>1. T(p).trigger_event = TaskAt(p).trigger_event
      BY <1>5, <2>2
    <3>2. TaskAt(p).trigger_event \in -1 .. E - 1
      <4>1. CASE p \in Task
        <5>1. TaskAt(p).trigger_event \in Old
          BY <1>1, <2>2, <4>1
        <5> HIDE DEF E, Old
        <5> QED BY <5>1, <1>nat, <1>4
      <4>2. CASE p \notin Task
        <5>1. p = TerminateTask \/ p = BeginTask
          <6> HIDE DEF L
          <6> QED BY <4>2, <1>4 DEF TerminateTask, BeginTask
        <5>2. TaskAt(p).trigger_event = NoEvent \/ TaskAt(p).trigger_event = LaunchEvent
          BY <5>1, <1>1
        <5> HIDE DEF E
        <5> QED BY <5>2, <1>1, <1>nat DEF NoEvent, LaunchEvent
      <4> QED BY <4>1, <4>2
    <3> HIDE DEF T, E
    <3> QED BY <2>2, <3>1, <3>2
  <2> HIDE DEF T, E, M
  <2> QED BY <2>1, <2>2
<1>11. ASSUME NEW r \in 0 .. L + N - 1, NEW e \in Old
       PROVE  T(r).trigger_event = e <=> r \in 0 .. L - 1 /\ TaskAt(r).trigger_event = e
  <2>1. e \in Nat /\ e >= 2 /\ e < E
    <3>1. e \in 2 .. E - 1
      BY <1>4
    <3> HIDE DEF E
    <3> QED BY <3>1, <1>nat
  <2>2. CASE r \in 0 .. L - 1 /\ r \in Task /\ TaskAt(r).op = k - 1
    <3>1. T(r).trigger_event \in E .. E + M - 1
      BY <1>10, <2>2
    <3>2. TaskAt(r).trigger_event = NoEvent
      BY <1>1, <2>2
    <3> HIDE DEF T, E, M
    <3> QED BY <3>1, <3>2, <2>1, <1>nat DEF NoEvent
  <2>3. CASE r \in 0 .. L - 1 /\ ~(r \in Task /\ TaskAt(r).op = k - 1)
    BY <1>5, <2>3
  <2>4. CASE r \notin 0 .. L - 1
    <3>1. r \in L .. L + N - 1
      <4> HIDE DEF L, N
      <4> QED BY <2>4, <1>3, <1>4
    <3>2. T(r).trigger_event = NoEvent
      BY <1>7, <3>1
    <3> HIDE DEF T, E, L
    <3> QED BY <3>2, <2>1, <2>4 DEF NoEvent
  <2> QED BY <2>2, <2>3, <2>4
<1>12. ASSUME NEW r \in 0 .. L + N - 1, NEW v \in V
       PROVE  T(r).trigger_event = E + Rank(V, v) <=>
                r \in Task /\ TaskAt(r).op = k - 1 /\ TaskAt(r).bid \in Producing(k, v)
  <2>1. Rank(V, v) \in 0 .. M - 1
    BY <1>2
  <2>2. CASE r \in 0 .. L - 1 /\ r \in Task /\ TaskAt(r).op = k - 1
    <3>1. PICK w \in V : /\ T(r).trigger_event = E + Rank(V, w)
                         /\ \A x \in V : TaskAt(r).bid \in Producing(k, x) <=> x = w
      BY <1>6, <2>2
    <3>2. Rank(V, w) \in 0 .. M - 1 /\ (Rank(V, w) = Rank(V, v) => w = v)
      BY <1>2
    <3> HIDE DEF T, V, E, M, k
    <3> QED BY <2>1, <2>2, <3>1, <3>2, <1>nat
  <2>3. CASE r \in 0 .. L - 1 /\ ~(r \in Task /\ TaskAt(r).op = k - 1)
    <3>1. T(r).trigger_event \in -1 .. E - 1
      BY <1>10, <2>3
    <3> HIDE DEF T, V, E, M
    <3> QED BY <2>1, <2>3, <3>1, <1>nat
  <2>4. CASE r \notin 0 .. L - 1
    <3>1. r \in L .. L + N - 1 /\ r \notin Task
      <4> HIDE DEF L, N
      <4> QED BY <2>4, <1>3, <1>4
    <3>2. T(r).trigger_event = NoEvent
      BY <1>7, <3>1
    <3> HIDE DEF T, V, E, M
    <3> QED BY <2>1, <3>1, <3>2, <1>nat DEF NoEvent
  <2> QED BY <2>2, <2>3, <2>4
<1>13. ASSUME NEW e \in Old
       PROVE  /\ X(e) = EventAt(e) /\ Producers(e)' = Producers(e) /\ e \in 2 .. E + M - 1
              /\ EventAt(e).last_task_id \in Nat /\ EventAt(e).last_task_id <= L
              /\ EventAt(e).first_task_id \in Nat
  <2>1. e \in 2 .. E - 1 /\ e \in 0 .. E - 1 /\ e \in 2 .. E + M - 1
    <3>1. e \in 2 .. E - 1
      BY <1>4
    <3> HIDE DEF E, M
    <3> QED BY <3>1, <1>nat
  <2>2. X(e) = EventAt(e)
    BY <1>2, <2>1
  <2>3. Producers(e)' = {p \in 0 .. L + N - 1 : T(p).trigger_event = e}
    BY <1>3 DEF Producers, TaskAt
  <2>4. \A p \in 0 .. L - 1 : p \in 0 .. L + N - 1
    <3> HIDE DEF L, N
    <3> QED BY <1>3, <1>4
  <2>5. Producers(e)' = Producers(e)
    <3> HIDE DEF T, Old, N, L
    <3> QED BY <2>3, <2>4, <1>11 DEF Producers, L
  <2>6. EventAt(e) \in AnyEvent
    <3>1. all_events \in [1 .. E -> AnyEvent]
      BY <1>1, LenProperties
    <3>2. e + 1 \in 1 .. E
      <4> HIDE DEF E
      <4> QED BY <2>1, <1>nat
    <3> QED BY <3>1, <3>2 DEF EventAt
  <2>7. EventAt(e).last_task_id <= L
    BY <1>1
  <2> QED BY <2>1, <2>2, <2>5, <2>6, <2>7 DEF AnyEvent
<1>14. ASSUME NEW e \in 2 .. E + M - 1, e \notin Old
       PROVE  \E v \in V : e = E + Rank(V, v)
  <2>1. e \in E .. E + M - 1
    <3>1. e \notin 2 .. E - 1
      BY <1>4, <1>14
    <3> HIDE DEF E, M
    <3> QED BY <3>1, <1>nat
  <2> QED BY <2>1, <1>2
<1>15. ASSUME NEW v \in V, NEW e, e = E + Rank(V, v)
       PROVE  /\ X(e).type = "LAUNCH_TASKS"
              /\ X(e).first_task_id = L + bef(v) /\ X(e).last_task_id = L + bef(v) + con(v)
              /\ e \in E .. E + M - 1 /\ e \in 2 .. E + M - 1
              /\ Producers(e)' = {r \in Task : TaskAt(r).op = k - 1 /\ TaskAt(r).bid \in Producing(k, v)}
              /\ X(e).num_triggers = Cardinality(Producers(e)') /\ X(e).num_triggers > 0
  <2> DEFINE Q == {r \in Task : TaskAt(r).op = k - 1 /\ TaskAt(r).bid \in Producing(k, v)}
             C == Producing(k, v)
  <2>1. X(e) = [type |-> "LAUNCH_TASKS", num_triggers |-> Cardinality(C),
                first_task_id |-> L + bef(v), last_task_id |-> L + bef(v) + con(v)]
    <3> HIDE DEF X, E, V, L, bef, con
    <3> QED BY <1>2, <1>15
  <2>2. e \in E .. E + M - 1 /\ e \in 2 .. E + M - 1
    <3>1. Rank(V, v) \in 0 .. M - 1
      BY <1>2
    <3>2. E >= 2
      BY <1>1
    <3> HIDE DEF E, M, V
    <3> QED BY <3>1, <3>2, <1>nat, <1>15
  <2>3. Producers(e)' = Q
    <3>1. Producers(e)' = {p \in 0 .. L + N - 1 : T(p).trigger_event = e}
      BY <1>3 DEF Producers, TaskAt
    <3>2. \A p \in Task : p \in 0 .. L + N - 1
      <4> HIDE DEF L, N
      <4> QED BY <1>3, <1>4
    <3>3. \A r \in 0 .. L + N - 1 : T(r).trigger_event = e <=>
             r \in Task /\ TaskAt(r).op = k - 1 /\ TaskAt(r).bid \in Producing(k, v)
      <4> HIDE DEF T, V, N, L, E, k
      <4> QED BY <1>12, <1>15
    <3> HIDE DEF T, N, L, k
    <3> QED BY <3>1, <3>2, <3>3
  <2>4. C # {} /\ C \subseteq Blocks(graph[k - 1]) /\ IsFiniteSet(Blocks(graph[k - 1]))
    BY <1>3, PushesAre
  <2>5. IsFiniteSet(C)
    <3> HIDE DEF C
    <3> QED BY <2>4, FS_Subset
  <2>6. Cardinality(Q) = Cardinality(C)
    <3> DEFINE f == [c \in C |-> pre_task_map[c]]
    <3>1. /\ pre_task_map \in [Blocks(graph[k - 1]) -> Task]
          /\ \A b \in Blocks(graph[k - 1]) : /\ TaskAt(pre_task_map[b]).op = k - 1
                                             /\ TaskAt(pre_task_map[b]).bid = b
      <4>1. next > 1
        BY <1>3
      <4> QED BY <4>1 DEF TasksOK
    <3>2. \A p, q \in Task : TaskAt(p).op = TaskAt(q).op /\ TaskAt(p).bid = TaskAt(q).bid => p = q
      BY DEF TasksOK
    <3> HIDE DEF C, k
    <3>3. \A c \in C : f[c] \in Task /\ TaskAt(f[c]).op = k - 1 /\ TaskAt(f[c]).bid = c
      BY <3>1, <2>4
    <3>4. f \in [C -> Q]
      BY <3>1, <2>4 DEF C
    <3> HIDE DEF f
    <3>5. \A x, y \in C : f[x] = f[y] => x = y
      BY <3>3
    <3>6. \A r \in Q : \E c \in C : f[c] = r
      <4> TAKE r \in Q
      <4>1. r \in Task /\ TaskAt(r).op = k - 1 /\ TaskAt(r).bid \in C
        BY DEF C
      <4> HIDE DEF Q
      <4> QED BY <4>1, <3>2, <3>3
    <3> HIDE DEF Q
    <3> QED BY <3>4, <3>5, <3>6, <2>5, SameSize
  <2>7. Cardinality(C) > 0
    <3> HIDE DEF C
    <3>1. Cardinality(C) \in Nat /\ Cardinality(C) # 0
      BY <2>4, <2>5, FS_EmptySet, FS_CardinalityType
    <3> QED BY <3>1
  <2> HIDE DEF X, C, bef, con, L, Q
  <2>8. /\ X(e).type = "LAUNCH_TASKS" /\ X(e).num_triggers = Cardinality(C)
        /\ X(e).first_task_id = L + bef(v) /\ X(e).last_task_id = L + bef(v) + con(v)
    BY <2>1
  <2> QED BY <2>2, <2>3, <2>6, <2>7, <2>8 DEF Q
<1>16. EventsGrow'
  <2>1. (\A e \in LaunchEvent + 1 .. EndEvent :
           /\ EventAt(e).num_triggers = Cardinality(Producers(e)) /\ EventAt(e).num_triggers > 0
           /\ EventAt(e).last_task_id <= Len(all_tasks)
           /\ \A r \in Producers(e) : r < EventAt(e).first_task_id)'
    <3> SUFFICES ASSUME NEW e \in 2 .. E + M - 1
                 PROVE  /\ X(e).num_triggers = Cardinality(Producers(e)') /\ X(e).num_triggers > 0
                        /\ X(e).last_task_id <= L + N
                        /\ \A r \in Producers(e)' : r < X(e).first_task_id
      BY <1>3, <1>4 DEF EventAt
    <3>1. CASE e \in Old
      <4>1. /\ X(e) = EventAt(e) /\ Producers(e)' = Producers(e)
            /\ EventAt(e).last_task_id \in Nat /\ EventAt(e).last_task_id <= L
        BY <1>13, <3>1
      <4>2. /\ EventAt(e).num_triggers = Cardinality(Producers(e)) /\ EventAt(e).num_triggers > 0
            /\ \A r \in Producers(e) : r < EventAt(e).first_task_id
        BY <1>1, <3>1
      <4>3. L \in Nat /\ N \in Nat
        BY <1>3, <1>4
      <4> HIDE DEF X, L, N
      <4> QED BY <4>1, <4>2, <4>3
    <3>2. CASE e \notin Old
      <4>1. PICK v \in V : e = E + Rank(V, v)
        BY <1>14, <3>2
      <4>2. /\ X(e).first_task_id = L + bef(v) /\ X(e).last_task_id = L + bef(v) + con(v)
            /\ Producers(e)' = {r \in Task : TaskAt(r).op = k - 1 /\ TaskAt(r).bid \in Producing(k, v)}
            /\ X(e).num_triggers = Cardinality(Producers(e)') /\ X(e).num_triggers > 0
        <5> HIDE DEF X, V, E, L, bef, con, k
        <5> QED BY <1>15, <4>1
      <4>3. bef(v) \in Nat /\ con(v) \in Nat /\ bef(v) + con(v) <= N
        BY <1>8
      <4>4. L \in Nat /\ N \in Nat /\ Task = 2 .. L - 1
        BY <1>3, <1>4
      <4>5. \A r \in Producers(e)' : r \in Task
        BY <4>2
      <4> HIDE DEF X, L, N, bef, con
      <4>6. X(e).last_task_id <= L + N
        BY <4>2, <4>3, <4>4
      <4>7. \A r \in Producers(e)' : r < X(e).first_task_id
        BY <4>2, <4>3, <4>4, <4>5
      <4> QED BY <4>2, <4>6, <4>7
    <3> QED BY <3>1, <3>2
  <2>2. (\A e \in Event : EventAt(e).type = "LAUNCH_TASKS" <=> e > LaunchEvent)'
    <3> SUFFICES ASSUME NEW e \in 0 .. E + M - 1
                 PROVE  X(e).type = "LAUNCH_TASKS" <=> e > LaunchEvent
      BY <1>4 DEF EventAt
    <3>1. CASE e \in 0 .. E - 1
      BY <1>1, <1>2, <1>4, <3>1
    <3>2. CASE e \notin 0 .. E - 1
      <4>1. e \in E .. E + M - 1
        <5> HIDE DEF E, M
        <5> QED BY <3>2, <1>nat
      <4>2. PICK v \in V : e = E + Rank(V, v)
        BY <1>2, <4>1
      <4>3. X(e).type = "LAUNCH_TASKS"
        <5> HIDE DEF X, V, E
        <5> QED BY <1>15, <4>2
      <4>4. e > LaunchEvent
        <5> E >= 2
          BY <1>1
        <5> HIDE DEF E, M
        <5> QED BY <4>1, <1>nat DEF LaunchEvent
      <4> QED BY <4>3, <4>4
    <3> QED BY <3>1, <3>2
  <2>3. EventAt(LaunchEvent)'.num_triggers = 1
    <3>1. 1 \in 0 .. E - 1
      <4> E >= 2
        BY <1>1
      <4> HIDE DEF E
      <4> QED BY <1>nat
    <3>2. X(1) = EventAt(1)
      BY <1>2, <3>1
    <3> QED BY <3>2, <1>1 DEF EventAt, LaunchEvent
  <2>4. (TaskAt(TerminateTask).trigger_event = NoEvent /\ TaskAt(BeginTask).trigger_event = LaunchEvent)'
    <3>1. 0 \in 0 .. L - 1 /\ 1 \in 0 .. L - 1 /\ 0 \notin Task /\ 1 \notin Task
      <4> HIDE DEF L
      <4> QED BY <1>4
    <3>2. T(0).trigger_event = TaskAt(0).trigger_event /\ T(1).trigger_event = TaskAt(1).trigger_event
      <4> HIDE DEF T, L
      <4> QED BY <3>1, <1>5
    <3> QED BY <3>2, <1>1 DEF TaskAt, TerminateTask, BeginTask
  <2>5. (\A p \in Task : IF TaskAt(p).op = next - 1 THEN TaskAt(p).trigger_event = NoEvent
                         ELSE TaskAt(p).trigger_event \in LaunchEvent + 1 .. EndEvent)'
    <3> SUFFICES ASSUME NEW p \in Task'
                 PROVE  IF T(p).op = k THEN T(p).trigger_event = NoEvent
                        ELSE T(p).trigger_event \in 2 .. E + M - 1
      <4>1. next' - 1 = k
        <5> HIDE DEF k
        <5> QED BY <1>3
      <4>2. (LaunchEvent + 1 .. EndEvent)' = 2 .. E + M - 1
        BY <1>4
      <4> HIDE DEF E, M
      <4> QED BY <4>1, <4>2 DEF TaskAt
    <3>1. CASE p \in Task
      <4>1. p \in 0 .. L - 1
        BY <1>4, <3>1
      <4>2. T(p).op = TaskAt(p).op /\ TaskAt(p).op \in 1 .. k - 1
        BY <1>5, <1>9, <3>1, <4>1
      <4>3. T(p).op # k
        <5> HIDE DEF T, k
        <5> QED BY <4>2, <1>3
      <4>4. CASE TaskAt(p).op = k - 1
        <5>1. T(p).trigger_event \in E .. E + M - 1
          BY <1>10, <3>1, <4>1, <4>4
        <5> E >= 2
          BY <1>1
        <5> HIDE DEF T, E, M, k
        <5> QED BY <4>3, <5>1, <1>nat
      <4>5. CASE TaskAt(p).op # k - 1
        <5>1. T(p).trigger_event = TaskAt(p).trigger_event /\ TaskAt(p).trigger_event \in Old
          BY <1>1, <1>5, <3>1, <4>1, <4>5
        <5>2. Old \subseteq 2 .. E + M - 1
          <6> Old = 2 .. E - 1
            BY <1>4
          <6> HIDE DEF Old, E, M
          <6> QED BY <1>nat
        <5> HIDE DEF T, E, M, k, Old
        <5> QED BY <4>3, <5>1, <5>2
      <4> QED BY <4>4, <4>5
    <3>2. CASE p \notin Task
      <4>1. p \in L .. L + N - 1
        <5> HIDE DEF L, N
        <5> QED BY <1>4, <3>2
      <4> QED BY <1>7, <4>1
    <3> QED BY <3>1, <3>2
  <2>6. (all_events \in Seq(AnyEvent) /\ Len(all_events) >= 2)'
    <3> E >= 2
      BY <1>1
    <3>1. all_events' \in Seq(AnyEvent) /\ Len(all_events') = E + M
      BY <1>2
    <3> HIDE DEF E, M
    <3> QED BY <1>nat, <3>1
  <2> QED BY <2>1, <2>2, <2>3, <2>4, <2>5, <2>6 DEF EventsGrow
<1>17. ASSUME NEW p \in Task', NEW e \in 2 .. E + M - 1,
              p >= X(e).first_task_id, p < X(e).last_task_id,
              NEW r \in Task'
       PROVE  T(r).trigger_event = e <=>
                T(r).op = T(p).op - 1 /\ Joined(T(p).op, T(r).bid, T(p).bid)
  <2>1. r \in 0 .. L + N - 1 /\ (r \in Task <=> r \in 0 .. L - 1) /\ (r \notin Task => r \in L .. L + N - 1)
    <3> HIDE DEF L, N
    <3> QED BY <1>3, <1>4
  <2>2. (p \in Task <=> p \in 0 .. L - 1) /\ (p \notin Task => p \in L .. L + N - 1)
    <3> HIDE DEF L, N
    <3> QED BY <1>3, <1>4
  <2>3. CASE e \in Old
    <3>1. X(e) = EventAt(e)
      BY <1>13, <2>3
    <3>2. p \in Task
      <4>1. EventAt(e).last_task_id \in Nat /\ EventAt(e).last_task_id <= L /\ p < EventAt(e).last_task_id
        <5> HIDE DEF X, L
        <5> QED BY <1>13, <2>3, <3>1, <1>17
      <4> HIDE DEF L, N
      <4> QED BY <4>1, <2>2, <1>3, <1>4
    <3>3. T(p).op = TaskAt(p).op /\ T(p).bid = TaskAt(p).bid /\ TaskAt(p).op \in 1 .. k - 1
      BY <1>5, <1>9, <2>2, <3>2
    <3>4. InRange(p, e)
      <4> HIDE DEF X
      <4> QED BY <3>1, <1>17 DEF InRange
    <3>5. \A q \in Task : TaskAt(q).trigger_event = e <=>
            TaskAt(q).op = TaskAt(p).op - 1 /\ Joined(TaskAt(p).op, TaskAt(q).bid, TaskAt(p).bid)
      BY <3>2, <3>4, <2>3 DEF Growing, JoinsGrow
    <3>6. T(r).trigger_event = e <=> r \in 0 .. L - 1 /\ TaskAt(r).trigger_event = e
      BY <1>11, <2>1, <2>3
    <3>7. CASE r \in Task
      <4>1. T(r).op = TaskAt(r).op /\ T(r).bid = TaskAt(r).bid
        BY <1>5, <2>1, <3>7
      <4> HIDE DEF T, L
      <4> QED BY <3>3, <3>5, <3>6, <3>7, <4>1, <2>1
    <3>8. CASE r \notin Task
      <4>1. T(r).op = k
        BY <1>7, <2>1, <3>8
      <4>2. T(r).op # T(p).op - 1
        <5> HIDE DEF T, k
        <5> QED BY <4>1, <3>3, <1>3
      <4> HIDE DEF T, L
      <4> QED BY <3>6, <3>8, <4>2, <2>1
    <3> QED BY <3>7, <3>8
  <2>4. CASE e \notin Old
    <3>1. PICK v \in V : e = E + Rank(V, v)
      BY <1>14, <2>4
    <3>2. X(e).first_task_id = L + bef(v) /\ X(e).last_task_id = L + bef(v) + con(v)
      <4> HIDE DEF X, V, E, L, bef, con
      <4> QED BY <1>15, <3>1
    <3>3. bef(v) \in Nat /\ con(v) \in Nat
      BY <1>8
    <3>4. p \in L .. L + N - 1
      <4> HIDE DEF X, L, N, bef, con
      <4> QED BY <3>2, <3>3, <1>17, <1>3, <1>4
    <3>5. PICK w \in V : \E b \in Consuming(k, w) :
            /\ T(p).bid = b
            /\ p = L + Rank(P, w \o b)
            /\ \A x \in V : b \in Consuming(k, x) <=> x = w
      BY <1>7, <3>4
    <3>6. PICK b \in Consuming(k, w) :
            /\ T(p).bid = b
            /\ p = L + Rank(P, w \o b)
            /\ \A x \in V : b \in Consuming(k, x) <=> x = w
      BY <3>5
    <3>7. w = v
      <4>1. /\ Rank(P, w \o b) \in Nat
            /\ w = v <=> Rank(P, w \o b) >= bef(v) /\ Rank(P, w \o b) < bef(v) + con(v)
        BY <1>8
      <4> HIDE DEF X, L, P, bef, con
      <4> QED BY <4>1, <3>2, <3>3, <3>6, <1>4, <1>17
    <3>8. T(p).op = k
      BY <1>7, <3>4
    <3>9. \A c : Joined(k, c, b) <=> c \in Producing(k, v)
      <4> HIDE DEF T, L, P
      <4> QED BY <3>6, <3>7 DEF Joined
    <3>10. T(r).trigger_event = e <=> r \in Task /\ TaskAt(r).op = k - 1 /\ TaskAt(r).bid \in Producing(k, v)
      <4> HIDE DEF T, V, E, L, N, k
      <4> QED BY <1>12, <2>1, <3>1
    <3>11. CASE r \in Task
      <4>1. T(r).op = TaskAt(r).op /\ T(r).bid = TaskAt(r).bid
        BY <1>5, <2>1, <3>11
      <4> HIDE DEF T, k, L, P
      <4> QED BY <3>6, <3>8, <3>9, <3>10, <3>11, <4>1
    <3>12. CASE r \notin Task
      <4>1. T(r).op = k
        BY <1>7, <2>1, <3>12
      <4>2. T(r).op # T(p).op - 1
        <5> HIDE DEF T, k
        <5> QED BY <4>1, <3>8, <1>3
      <4> HIDE DEF T, k
      <4> QED BY <3>10, <3>12, <4>2
    <3> QED BY <3>11, <3>12
  <2> QED BY <2>3, <2>4
<1>18. ASSUME NEW p \in Task'
       PROVE  /\ T(p).op = 1 => \A e \in 2 .. E + M - 1 : ~(p >= X(e).first_task_id /\ p < X(e).last_task_id)
              /\ T(p).op > 1 => \E e \in 2 .. E + M - 1 : p >= X(e).first_task_id /\ p < X(e).last_task_id
  <2>1. (p \in Task <=> p \in 0 .. L - 1) /\ (p \notin Task => p \in L .. L + N - 1) /\ p \in Nat
    <3> HIDE DEF L, N
    <3> QED BY <1>3, <1>4
  <2>2. CASE p \in Task
    <3>1. T(p).op = TaskAt(p).op
      BY <1>5, <2>1, <2>2
    <3>2. /\ TaskAt(p).op = 1 => \A e \in Old : ~InRange(p, e)
          /\ TaskAt(p).op > 1 => \E e \in Old : InRange(p, e)
      BY <2>2 DEF Growing, JoinsGrow
    <3>3. \A e \in Old : X(e) = EventAt(e) /\ e \in 2 .. E + M - 1
      BY <1>13
    <3>4. ASSUME NEW e \in 2 .. E + M - 1, e \notin Old PROVE ~(p >= X(e).first_task_id)
      <4>1. PICK v \in V : e = E + Rank(V, v)
        BY <1>14, <3>4
      <4>2. X(e).first_task_id = L + bef(v)
        <5> HIDE DEF X, V, E, L, bef, con
        <5> QED BY <1>15, <4>1
      <4>3. bef(v) \in Nat
        BY <1>8
      <4> HIDE DEF X, L, bef
      <4> QED BY <4>2, <4>3, <2>1, <2>2, <1>4
    <3> HIDE DEF X, T, Old, E, M
    <3> QED BY <3>1, <3>2, <3>3, <3>4 DEF InRange
  <2>3. CASE p \notin Task
    <3>1. p \in L .. L + N - 1 /\ T(p).op = k
      BY <1>7, <2>1, <2>3
    <3>2. PICK w \in V : \E b \in Consuming(k, w) : p = L + Rank(P, w \o b)
      BY <1>7, <3>1
    <3>3. PICK b \in Consuming(k, w) : p = L + Rank(P, w \o b)
      BY <3>2
    <3>4. /\ Rank(P, w \o b) \in Nat /\ bef(w) \in Nat /\ con(w) \in Nat
          /\ Rank(P, w \o b) >= bef(w) /\ Rank(P, w \o b) < bef(w) + con(w)
      BY <1>8
    <3> DEFINE e == E + Rank(V, w)
    <3>5. X(e).first_task_id = L + bef(w) /\ X(e).last_task_id = L + bef(w) + con(w) /\ e \in 2 .. E + M - 1
      <4>1. \A f : f = e => /\ X(f).first_task_id = L + bef(w) /\ X(f).last_task_id = L + bef(w) + con(w)
                            /\ f \in 2 .. E + M - 1
        <5> HIDE DEF X, V, E, L, M, bef, con
        <5> QED BY <1>15
      <4> HIDE DEF X, e, V, E, L, M, bef, con
      <4> QED BY <4>1
    <3>6. T(p).op # 1
      <4> HIDE DEF T, k
      <4> QED BY <3>1, <1>3
    <3>7. p >= X(e).first_task_id /\ p < X(e).last_task_id
      <4> HIDE DEF X, e, L, P, bef, con
      <4> QED BY <3>3, <3>4, <3>5, <1>4
    <3> HIDE DEF X, e, T, E, M
    <3> QED BY <3>5, <3>6, <3>7
  <2> QED BY <2>2, <2>3
<1>19. JoinsGrow'
  <2>1. (LaunchEvent + 1 .. EndEvent)' = 2 .. E + M - 1
    BY <1>4
  <2>2. graph' = graph
    BY <1>3
  <2>3. \A p \in Task' : \A e : InRange(p, e)' <=> p >= X(e).first_task_id /\ p < X(e).last_task_id
    BY DEF InRange, EventAt
  <2>4. \A j, c, b : Joined(j, c, b)' <=> Joined(j, c, b)
    BY <2>2, SameJoined
  <2> SUFFICES ASSUME NEW p \in Task'
               PROVE  (LET j == TaskAt(p).op
                       IN  /\ j = 1 => \A e \in LaunchEvent + 1 .. EndEvent : ~InRange(p, e)
                           /\ j > 1 => \E e \in LaunchEvent + 1 .. EndEvent : InRange(p, e)
                           /\ \A e \in LaunchEvent + 1 .. EndEvent : InRange(p, e) =>
                                \A r \in Task : TaskAt(r).trigger_event = e <=>
                                  TaskAt(r).op = j - 1 /\ Joined(j, TaskAt(r).bid, TaskAt(p).bid))'
    BY DEF JoinsGrow
  <2>5. ASSUME NEW e \in 2 .. E + M - 1, InRange(p, e)', NEW r \in Task'
        PROVE  (TaskAt(r).trigger_event = e <=>
                  TaskAt(r).op = TaskAt(p).op - 1 /\ Joined(TaskAt(p).op, TaskAt(r).bid, TaskAt(p).bid))'
    <3>1. T(r).trigger_event = e <=> T(r).op = T(p).op - 1 /\ Joined(T(p).op, T(r).bid, T(p).bid)
      <4> HIDE DEF T, X, E, M
      <4> QED BY <1>17, <2>3, <2>5
    <3> HIDE DEF E, M
    <3> QED BY <3>1, <2>2, SameJoined DEF TaskAt
  <2>6. (TaskAt(p).op = 1 => \A e \in LaunchEvent + 1 .. EndEvent : ~InRange(p, e))'
    <3> HIDE DEF E, M
    <3> QED BY <1>18, <2>1, <2>3 DEF TaskAt
  <2>7. (TaskAt(p).op > 1 => \E e \in LaunchEvent + 1 .. EndEvent : InRange(p, e))'
    <3> HIDE DEF E, M
    <3> QED BY <1>18, <2>1, <2>3 DEF TaskAt
  <2>8. (\A e \in LaunchEvent + 1 .. EndEvent : InRange(p, e) =>
           \A r \in Task : TaskAt(r).trigger_event = e <=>
             TaskAt(r).op = TaskAt(p).op - 1 /\ Joined(TaskAt(p).op, TaskAt(r).bid, TaskAt(p).bid))'
    <3> HIDE DEF E, M
    <3> QED BY <2>1, <2>5
  <2> HIDE DEF E, M, L, V, P, N, T, X, Old, k, bef, con
  <2> QED BY <2>6, <2>7, <2>8
<1> QED BY <1>16, <1>19 DEF Growing
-----------------------------------------------------------------------------
(* The graph is closed.                                                     *)

\* A sequence with one member more.
LEMMA Extended ==
    ASSUME NEW S, NEW m \in Nat, NEW f \in [1 .. m -> S], NEW x \in S
    PROVE  /\ f \o <<x>> \in Seq(S) /\ Len(f \o <<x>>) = m + 1
           /\ \A i \in 1 .. m : (f \o <<x>>)[i] = f[i]
           /\ (f \o <<x>>)[m + 1] = x
<1> DEFINE g == <<x>>
<1>1. f \in Seq(S) /\ Len(f) = m
  BY SeqOf
<1>2. g \in Seq(S) /\ Len(g) = 1 /\ g[1] = x
  <2>1. g \in Seq(S)
    OBVIOUS
  <2>2. Len(g) = 1
    OBVIOUS
  <2>3. g[1] = x
    OBVIOUS
  <2> HIDE DEF g
  <2> QED BY <2>1, <2>2, <2>3
<1>3. /\ f \o g \in Seq(S) /\ Len(f \o g) = m + 1
      /\ \A i \in 1 .. m + 1 : (f \o g)[i] = IF i <= m THEN f[i] ELSE g[i - m]
  <2> HIDE DEF g
  <2>1. /\ f \o g \in Seq(S) /\ Len(f \o g) = Len(f) + Len(g)
        /\ \A i \in 1 .. Len(f) + Len(g) :
             (f \o g)[i] = IF i <= Len(f) THEN f[i] ELSE g[i - Len(f)]
    BY <1>1, <1>2, ConcatProperties
  <2> QED BY <2>1, <1>1, <1>2
<1>4. (f \o g)[m + 1] = x
  <2>1. m + 1 \in 1 .. m + 1 /\ ~(m + 1 <= m) /\ m + 1 - m = 1
    OBVIOUS
  <2> HIDE DEF g
  <2> QED BY <1>2, <1>3, <2>1
<1>5. \A i \in 1 .. m : (f \o g)[i] = f[i]
  <2> HIDE DEF g
  <2> QED BY <1>3
<1> QED BY <1>3, <1>4, <1>5

\* Every task has its producers, its event and, in the last operator, the end
\* event; the counts stay what they were.
LEMMA EndComplete ==
    ASSUME TasksOK, Growing, ~built, EndGraph PROVE TasksOK' /\ Complete'
<1> DEFINE K == Len(graph)
           L == Len(all_tasks)
           E == Len(all_events)
           T(p) == all_tasks'[p + 1]
           X(e) == all_events'[e + 1]
           Old == LaunchEvent + 1 .. EndEvent
           Launching(p) == {e \in 2 .. E - 1 : all_events[e + 1].type = "LAUNCH_TASKS"
                                               /\ p >= all_events[e + 1].first_task_id
                                               /\ p < all_events[e + 1].last_task_id}
           Dep(p) == IF Launching(p) = {} THEN NoEvent ELSE Max(Launching(p))
           Trig(p) == IF p \in Range(pre_task_map) /\ all_tasks[p + 1].trigger_event = NoEvent
                      THEN E ELSE all_tasks[p + 1].trigger_event
           last == {p \in Task : TaskAt(p).op = K}
<1>1. /\ all_events \in Seq(AnyEvent) /\ E >= 2
      /\ EventAt(LaunchEvent).num_triggers = 1
      /\ \A e \in Event : EventAt(e).type = "LAUNCH_TASKS" <=> e > LaunchEvent
      /\ \A e \in Old :
           /\ EventAt(e).num_triggers = Cardinality(Producers(e)) /\ EventAt(e).num_triggers > 0
           /\ EventAt(e).last_task_id <= L
           /\ \A r \in Producers(e) : r < EventAt(e).first_task_id
      /\ TaskAt(TerminateTask).trigger_event = NoEvent
      /\ TaskAt(BeginTask).trigger_event = LaunchEvent
      /\ \A p \in Task : IF TaskAt(p).op = next - 1 THEN TaskAt(p).trigger_event = NoEvent
                         ELSE TaskAt(p).trigger_event \in Old
  BY DEF Growing, EventsGrow
<1>2. /\ E \in Nat /\ all_events \in [1 .. E -> AnyEvent]
      /\ Old = 2 .. E - 1 /\ Event = 0 .. E - 1
  <2>1. E \in Nat /\ all_events \in [1 .. E -> AnyEvent]
    BY <1>1, LenProperties
  <2> QED BY <2>1 DEF LaunchEvent, EndEvent, Event
<1>3. /\ L \in Nat /\ L >= 2 /\ Task = 2 .. L - 1
      /\ \A p \in 0 .. L - 1 : p + 1 \in 1 .. L /\ TaskAt(p) \in AnyTask
      /\ all_tasks \in [1 .. L -> AnyTask]
  <2>1. all_tasks \in Seq(AnyTask)
    BY DEF TasksOK
  <2> QED BY <2>1, TaskFacts, LenProperties
<1>4. /\ graph \in Graphs /\ K \in Nat \ {0} /\ next = K + 1 /\ next - 1 = K
      /\ pre_task_map \in [Blocks(graph[K]) -> Task]
      /\ \A b \in Blocks(graph[K]) : /\ TaskAt(pre_task_map[b]).op = K
                                     /\ TaskAt(pre_task_map[b]).bid = b
      /\ \A b \in Blocks(graph[K]) : \E p \in Task : TaskAt(p).op = K /\ TaskAt(p).bid = b
      /\ \A p \in Task : /\ TaskAt(p).op \in 1 .. K
                         /\ TaskAt(p).bid \in Blocks(graph[TaskAt(p).op])
      /\ \A p, q \in Task : TaskAt(p).op = TaskAt(q).op /\ TaskAt(p).bid = TaskAt(q).bid => p = q
      /\ first_tasks = {p \in Task : TaskAt(p).op = 1}
  <2>1. next = K + 1 /\ graph \in Graphs
    BY DEF EndGraph, TasksOK
  <2>2. K \in Nat \ {0}
    BY <2>1, GraphFacts
  <2>3. next - 1 = K /\ next > 1
    BY <2>1, <2>2
  <2>4. K \in 1 .. next - 1
    BY <2>2, <2>3
  <2> HIDE DEF K
  <2> QED BY <2>1, <2>2, <2>3, <2>4 DEF TasksOK
<1>5. built' = TRUE /\ graph' = graph /\ next' = next
      /\ first_tasks' = first_tasks /\ pre_task_map' = pre_task_map
  BY DEF EndGraph
\* The tasks of the last operator, which are its blocks.
<1>6. /\ Range(pre_task_map) = last
      /\ IsFiniteSet(last) /\ Cardinality(last) = Cardinality(DOMAIN pre_task_map)
      /\ Cardinality(last) \in Nat /\ Cardinality(last) > 0
  <2> DEFINE B == Blocks(graph[K])
  <2>1. /\ pre_task_map \in [B -> last] /\ DOMAIN pre_task_map = B
        /\ \A x, y \in B : pre_task_map[x] = pre_task_map[y] => x = y
        /\ \A y \in last : \E x \in B : pre_task_map[x] = y
    BY <1>4
  <2>2. IsFiniteSet(B) /\ B # {}
    <3>1. Gridded(graph[K])
      BY <1>4, GraphFacts
    <3>2. graph[K].grid \in [GridDim -> Nat \ {0}]
      BY <3>1 DEF Gridded
    <3> DEFINE map == [g \in GridDim |-> NotMapped]
               dims == [d \in TensorDim |-> 1]
               b == [g \in GridDim |-> 0]
    <3>3. Mapping(map) /\ Splits(dims, graph[K], map)
      BY DEF Mapping, Splits
    <3>4. /\ \A c : c \in Blocks(graph[K]) <=>
                       c \in [GridDim -> Nat] /\ \A g \in GridDim : c[g] < graph[K].grid[g]
          /\ IsFiniteSet(Blocks(graph[K]))
      <4> HIDE DEF map, dims
      <4> QED BY <3>1, <3>3, BlocksAndEvents
    <3>5. b \in Blocks(graph[K])
      <4>1. b \in [GridDim -> Nat] /\ \A g \in GridDim : b[g] < graph[K].grid[g]
        BY <3>2
      <4> HIDE DEF b
      <4> QED BY <3>4, <4>1
    <3> QED BY <3>4, <3>5
  <2>3. IsFiniteSet(last) /\ Cardinality(last) = Cardinality(B)
    <3> HIDE DEF B, last
    <3> QED BY <2>1, <2>2, SameSize
  <2>4. Cardinality(B) \in Nat /\ Cardinality(B) # 0
    <3> HIDE DEF B
    <3> QED BY <2>2, FS_CardinalityType, FS_EmptySet
  <2>5. Range(pre_task_map) = last
    <3> HIDE DEF last, B
    <3> QED BY <2>1 DEF Range
  <2>6. Cardinality(last) \in Nat /\ Cardinality(last) > 0
    <3> HIDE DEF B, last
    <3> QED BY <2>3, <2>4
  <2> QED BY <2>1, <2>3, <2>5, <2>6
\* What becomes of a task.
<1>7. ASSUME NEW p \in 0 .. L - 1
      PROVE  /\ Launching(p) = {e \in Old : InRange(p, e)}
             /\ p \in Task /\ TaskAt(p).op = 1 => Dep(p) = NoEvent
             /\ p \in Task /\ TaskAt(p).op > 1 => Dep(p) \in Old /\ InRange(p, Dep(p))
             /\ Dep(p) \in Int
  <2>1. Launching(p) = {e \in Old : InRange(p, e)}
    <3>1. \A e \in 2 .. E - 1 : all_events[e + 1].type = "LAUNCH_TASKS"
      <4> TAKE e \in 2 .. E - 1
      <4>1. e \in Event /\ e > LaunchEvent
        <5> HIDE DEF E
        <5> QED BY <1>2 DEF LaunchEvent
      <4> QED BY <4>1, <1>1 DEF EventAt
    <3> QED BY <3>1, <1>2 DEF InRange, EventAt
  <2>2. ASSUME Launching(p) # {} PROVE Dep(p) \in Launching(p)
    <3>1. Launching(p) \in SUBSET Nat /\ \A e \in Launching(p) : e <= E
      <4> HIDE DEF E
      <4> QED BY <1>2
    <3>2. Max(Launching(p)) \in Launching(p)
      <4> HIDE DEF Launching, E
      <4> QED BY <3>1, <1>2, <2>2, Greatest
    <3> QED BY <2>2, <3>2
  <2>3. Dep(p) \in Int
    <3>1. CASE Launching(p) = {}
      BY <3>1 DEF NoEvent
    <3>2. CASE Launching(p) # {}
      <4>1. Dep(p) \in 2 .. E - 1
        BY <3>2, <2>2
      <4> HIDE DEF Dep, E
      <4> QED BY <4>1
    <3> QED BY <3>1, <3>2
  <2>4. ASSUME p \in Task, TaskAt(p).op = 1 PROVE Dep(p) = NoEvent
    <3>1. \A e \in Old : ~InRange(p, e)
      BY <2>4 DEF Growing, JoinsGrow
    <3>2. Launching(p) = {}
      <4> HIDE DEF Launching, Old
      <4> QED BY <2>1, <3>1
    <3> QED BY <3>2
  <2>5. ASSUME p \in Task, TaskAt(p).op > 1 PROVE Dep(p) \in Old /\ InRange(p, Dep(p))
    <3>1. \E e \in Old : InRange(p, e)
      BY <2>5 DEF Growing, JoinsGrow
    <3>2. Launching(p) # {}
      <4> HIDE DEF Launching, Old
      <4> QED BY <2>1, <3>1
    <3>3. Dep(p) \in Launching(p)
      BY <2>2, <3>2
    <3> HIDE DEF Launching, Dep, Old
    <3> QED BY <2>1, <3>3
  <2> HIDE DEF Launching, Dep, Old
  <2> QED BY <2>1, <2>3, <2>4, <2>5
<1>8. ASSUME NEW p \in 0 .. L - 1
      PROVE  /\ T(p).op = TaskAt(p).op /\ T(p).bid = TaskAt(p).bid
             /\ T(p).dependent_event = Dep(p) /\ T(p).trigger_event = Trig(p)
             /\ Trig(p) \in Int /\ T(p) \in AnyTask
  <2> DEFINE t == all_tasks[p + 1]
  <2>1. t \in AnyTask /\ p + 1 \in DOMAIN all_tasks /\ p + 1 - 1 = p /\ TaskAt(p) = t
    <3> HIDE DEF L
    <3> QED BY <1>3 DEF TaskAt, L
  <2>2. T(p) = [t EXCEPT !.dependent_event = Dep(p), !.trigger_event = Trig(p)]
    <3>1. \A n \in DOMAIN all_tasks :
            all_tasks'[n] = [all_tasks[n] EXCEPT !.dependent_event = Dep(n - 1),
                                                 !.trigger_event = Trig(n - 1)]
      <4>1. all_tasks' = [n \in DOMAIN all_tasks |->
                           [all_tasks[n] EXCEPT !.dependent_event = Dep(n - 1),
                                                !.trigger_event = Trig(n - 1)]]
        BY DEF EndGraph
      <4> HIDE DEF Dep, Trig
      <4> QED BY <4>1, Zenon
    <3>2. \A n \in DOMAIN all_tasks : n - 1 = p =>
            all_tasks'[n] = [all_tasks[n] EXCEPT !.dependent_event = Dep(p),
                                                 !.trigger_event = Trig(p)]
      <4> HIDE DEF Dep, Trig
      <4> QED BY <3>1, Zenon
    <3> DEFINE n == p + 1
    <3>3. n \in DOMAIN all_tasks /\ n - 1 = p
      BY <2>1
    <3>4. all_tasks'[n] = [all_tasks[n] EXCEPT !.dependent_event = Dep(p),
                                               !.trigger_event = Trig(p)]
      <4> HIDE DEF Dep, Trig, n
      <4> QED BY <3>2, <3>3, Zenon
    <3> QED BY <3>4
  <2>3. Trig(p) \in Int
    <3>1. TaskAt(p).trigger_event \in Int
      BY <2>1 DEF AnyTask
    <3> HIDE DEF E
    <3> QED BY <3>1, <1>2 DEF TaskAt
  <2>4. Dep(p) \in Int
    BY <1>7
  <2> HIDE DEF Dep, Trig, T, t
  <2> QED BY <2>1, <2>2, <2>3, <2>4 DEF AnyTask
<1>9. Len(all_tasks') = L /\ all_tasks' \in Seq(AnyTask)
  <2>1. DOMAIN all_tasks' = 1 .. L
    <3>1. all_tasks' = [n \in DOMAIN all_tasks |->
                         [all_tasks[n] EXCEPT !.dependent_event = Dep(n - 1),
                                              !.trigger_event = Trig(n - 1)]]
      BY DEF EndGraph
    <3> HIDE DEF Dep, Trig
    <3> QED BY <3>1, <1>3
  <2>2. \A n \in 1 .. L : all_tasks'[n] \in AnyTask
    <3> TAKE n \in 1 .. L
    <3>1. n - 1 \in 0 .. L - 1 /\ n - 1 + 1 = n
      <4> HIDE DEF L
      <4> QED BY <1>3
    <3>2. T(n - 1) \in AnyTask
      BY <3>1, <1>8
    <3> QED BY <3>1, <3>2
  <2>3. all_tasks' \in [1 .. L -> AnyTask]
    <3>1. all_tasks' = [n \in DOMAIN all_tasks' |-> all_tasks'[n]]
      <4>1. all_tasks' = [n \in DOMAIN all_tasks |->
                           [all_tasks[n] EXCEPT !.dependent_event = Dep(n - 1),
                                                !.trigger_event = Trig(n - 1)]]
        BY DEF EndGraph
      <4> HIDE DEF Dep, Trig
      <4> QED BY <4>1
    <3> HIDE DEF L
    <3> QED BY <2>1, <2>2, <3>1
  <2> HIDE DEF L
  <2> QED BY <2>3, <1>3, SeqOf
<1>10. /\ TaskAt(TerminateTask).trigger_event = NoEvent /\ 0 \in 0 .. L - 1 /\ 1 \in 0 .. L - 1
       /\ Trig(0) = NoEvent /\ Trig(1) = LaunchEvent
       /\ \A p \in Task : Trig(p) = IF TaskAt(p).op = K THEN E ELSE TaskAt(p).trigger_event
  <2>1. 0 \in 0 .. L - 1 /\ 1 \in 0 .. L - 1 /\ 0 \notin Task /\ 1 \notin Task
    <3> HIDE DEF L
    <3> QED BY <1>3
  <2>2. Trig(0) = NoEvent /\ Trig(1) = LaunchEvent
    <3>1. 0 \notin Range(pre_task_map) /\ 1 \notin Range(pre_task_map)
      BY <1>6, <2>1
    <3> QED BY <3>1, <1>1 DEF TaskAt, TerminateTask, BeginTask
  <2>3. ASSUME NEW p \in Task PROVE Trig(p) = IF TaskAt(p).op = K THEN E ELSE TaskAt(p).trigger_event
    <3>1. p \in Range(pre_task_map) <=> TaskAt(p).op = K
      BY <1>6
    <3>2. TaskAt(p).op = K => TaskAt(p).trigger_event = NoEvent
      BY <1>1, <1>4
    <3> HIDE DEF E, K
    <3> QED BY <3>1, <3>2 DEF TaskAt
  <2> HIDE DEF Trig
  <2> QED BY <1>1, <2>1, <2>2, <2>3
<1>11. ASSUME NEW p \in Task, TaskAt(p).op # K
       PROVE  /\ TaskAt(p).trigger_event \in Old /\ TaskAt(p).trigger_event # E
  <2>1. TaskAt(p).trigger_event \in Old
    BY <1>1, <1>4, <1>11
  <2> HIDE DEF E, Old
  <2> QED BY <2>1, <1>2
\* The events.
<1>12. /\ Len(all_events') = E + 1
       /\ \A e \in 0 .. E - 1 : X(e).num_triggers = EventAt(e).num_triggers
       /\ \A e \in Old : X(e).type = "EMPTY"
       /\ X(E).num_triggers = Cardinality(last)
  <2> DEFINE Kind(n) == IF all_events[n - 1 + 1].type = "LAUNCH_TASKS" THEN "EMPTY"
                        ELSE all_events[n].type
             f == [n \in DOMAIN all_events |->
                     IF n = LaunchEvent + 1
                     THEN [all_events[n] EXCEPT !.first_task_id = FirstTask,
                                                !.last_task_id = L]
                     ELSE [all_events[n] EXCEPT !.type = Kind(n)]]
             new == [type |-> "END_OF_TASK_GRAPH",
                     num_triggers |-> Cardinality(DOMAIN pre_task_map),
                     first_task_id |-> 0, last_task_id |-> 0]
             S == {f[n] : n \in 1 .. E} \cup {new}
             g == <<new>>
  <2>1. all_events' = f \o g
    BY DEF EndGraph
  <2>2. f \in [1 .. E -> S]
    <3>1. DOMAIN all_events = 1 .. E
      BY <1>2
    <3> HIDE DEF E
    <3> QED BY <3>1
  <2>4. /\ Len(f \o g) = E + 1
        /\ \A i \in 1 .. E : (f \o g)[i] = f[i]
        /\ (f \o g)[E + 1] = new
    <3>1. E \in Nat /\ new \in S
      BY <1>2
    <3> HIDE DEF f, new, S, E
    <3>2. f \o <<new>> \in Seq(S) /\ Len(f \o <<new>>) = E + 1
      BY <2>2, <3>1, Extended
    <3>3. \A i \in 1 .. E : (f \o <<new>>)[i] = f[i]
      BY <2>2, <3>1, Extended
    <3>4. (f \o <<new>>)[E + 1] = new
      BY <2>2, <3>1, Extended
    <3> QED BY <3>2, <3>3, <3>4
  <2>6. ASSUME NEW n \in 1 .. E
        PROVE  /\ f[n].num_triggers = all_events[n].num_triggers
               /\ n # LaunchEvent + 1 => f[n].type = Kind(n)
    <3> DEFINE x == all_events[n]
    <3>1. x \in AnyEvent /\ n \in DOMAIN all_events
      BY <1>2
    <3>2. f[n] = IF n = LaunchEvent + 1
                 THEN [x EXCEPT !.first_task_id = FirstTask, !.last_task_id = L]
                 ELSE [x EXCEPT !.type = Kind(n)]
      <4> HIDE DEF Kind
      <4> QED BY <3>1, Zenon
    <3> HIDE DEF f, x, Kind, L
    <3>3. CASE n = LaunchEvent + 1
      <4>1. f[n] = [x EXCEPT !.first_task_id = FirstTask, !.last_task_id = L]
        BY <3>2, <3>3
      <4>2. f[n].num_triggers = x.num_triggers
        BY <3>1, <4>1 DEF AnyEvent
      <4> QED BY <4>2, <3>3 DEF x
    <3>4. CASE n # LaunchEvent + 1
      <4>1. f[n] = [x EXCEPT !.type = Kind(n)]
        BY <3>2, <3>4
      <4>2. f[n].num_triggers = x.num_triggers /\ f[n].type = Kind(n)
        BY <3>1, <4>1 DEF AnyEvent
      <4> QED BY <4>2 DEF x
    <3> QED BY <3>3, <3>4
  <2>7. ASSUME NEW e \in 0 .. E - 1
        PROVE  /\ X(e).num_triggers = EventAt(e).num_triggers
               /\ e \in Old => X(e).type = "EMPTY"
    <3>1. e + 1 \in 1 .. E /\ e + 1 - 1 + 1 = e + 1
      <4> HIDE DEF E
      <4> QED BY <1>2
    <3>2. X(e) = f[e + 1]
      <4> HIDE DEF f, g, E
      <4> QED BY <2>1, <2>4, <3>1
    <3>3. ASSUME e \in Old PROVE Kind(e + 1) = "EMPTY" /\ e + 1 # LaunchEvent + 1
      <4>1. e \in Event /\ e > LaunchEvent /\ e + 1 # LaunchEvent + 1
        <5> HIDE DEF E, Old
        <5> QED BY <1>2, <3>3 DEF LaunchEvent
      <4>2. all_events[e + 1].type = "LAUNCH_TASKS"
        BY <1>1, <4>1 DEF EventAt
      <4>3. all_events[e + 1 - 1 + 1].type = "LAUNCH_TASKS"
        BY <3>1, <4>2
      <4> QED BY <4>1, <4>3
    <3> HIDE DEF f, Kind, Old, E
    <3> QED BY <3>1, <3>2, <3>3, <2>6 DEF EventAt
  <2>8. X(E) = new
    BY <2>1, <2>4
  <2>9. new.num_triggers = Cardinality(last)
    BY <1>6
  <2>10. X(E).num_triggers = Cardinality(last)
    <3> HIDE DEF new, E, last
    <3> QED BY <2>8, <2>9
  <2>11. Len(all_events') = E + 1
    BY <2>1, <2>4
  <2>12. \A e \in 0 .. E - 1 : X(e).num_triggers = EventAt(e).num_triggers
    BY <2>7
  <2>13. ASSUME NEW e \in Old PROVE X(e).type = "EMPTY"
    <3>1. e \in 0 .. E - 1
      <4> HIDE DEF E, Old
      <4> QED BY <1>2
    <3> QED BY <3>1, <2>7
  <2> HIDE DEF X, E, Old, last
  <2> QED BY <2>10, <2>11, <2>12, <2>13
<1>13. /\ Task' = Task /\ EndEvent' = E /\ Event' = 0 .. E
       /\ \A p : TaskAt(p)' = T(p) /\ EventAt(p)' = X(p)
  <2>1. Task' = Task
    BY <1>9 DEF Task
  <2>2. EndEvent' = E /\ Event' = 0 .. E
    <3>1. E + 1 - 1 = E
      BY <1>2
    <3>2. Len(all_events') = E + 1
      BY <1>12
    <3>3. Len(all_events') - 1 = E
      BY <3>1, <3>2
    <3> HIDE DEF E
    <3> QED BY <3>3 DEF EndEvent, Event
  <2> QED BY <2>1, <2>2 DEF TaskAt, EventAt
\* Who triggers what.
<1>14. ASSUME NEW e PROVE Producers(e)' = {p \in 0 .. L - 1 : Trig(p) = e}
  <2>1. Producers(e)' = {p \in 0 .. L - 1 : T(p).trigger_event = e}
    BY <1>9 DEF Producers, TaskAt
  <2> HIDE DEF T, L, Trig
  <2> QED BY <2>1, <1>8
<1>15. ASSUME NEW p \in 0 .. L - 1, p \notin Task PROVE p = 0 \/ p = 1
  <2> HIDE DEF L
  <2> QED BY <1>3, <1>15
<1>16. ASSUME NEW e \in Old PROVE Producers(e)' = Producers(e)
  <2>1. e \in Nat /\ e # E /\ e # NoEvent /\ e # LaunchEvent
    <3> HIDE DEF E, Old
    <3> QED BY <1>2 DEF NoEvent, LaunchEvent
  <2>2. ASSUME NEW p \in 0 .. L - 1 PROVE Trig(p) = e <=> TaskAt(p).trigger_event = e
    <3>1. CASE p \notin Task
      <4>1. p = TerminateTask \/ p = BeginTask
        BY <1>15, <3>1 DEF TerminateTask, BeginTask
      <4> HIDE DEF Trig
      <4> QED BY <4>1, <1>1, <1>10 DEF TerminateTask, BeginTask
    <3>2. CASE p \in Task /\ TaskAt(p).op = K
      <4>1. TaskAt(p).trigger_event = NoEvent /\ Trig(p) = E
        BY <1>1, <1>4, <1>10, <3>2
      <4> HIDE DEF Trig, E
      <4> QED BY <4>1, <2>1
    <3>3. CASE p \in Task /\ TaskAt(p).op # K
      <4>1. Trig(p) = TaskAt(p).trigger_event
        BY <1>10, <3>3
      <4> QED BY <4>1
    <3> QED BY <3>1, <3>2, <3>3
  <2>3. Producers(e)' = {p \in 0 .. L - 1 : Trig(p) = e}
    BY <1>14
  <2> HIDE DEF Trig
  <2> QED BY <2>2, <2>3 DEF Producers
<1>17. ASSUME NEW e, e = E PROVE Producers(e)' = last
  <2>1. ASSUME NEW p \in 0 .. L - 1 PROVE Trig(p) = e <=> p \in last
    <3>1. CASE p \notin Task
      <4>1. Trig(p) = NoEvent \/ Trig(p) = LaunchEvent
        <5> HIDE DEF Trig
        <5> QED BY <1>10, <1>15, <3>1
      <4> HIDE DEF Trig, E
      <4> QED BY <4>1, <3>1, <1>1, <1>2, <1>17 DEF NoEvent, LaunchEvent
    <3>2. CASE p \in Task
      <4> HIDE DEF Trig, E
      <4> QED BY <1>10, <1>11, <1>17, <3>2
    <3> QED BY <3>1, <3>2
  <2>2. Producers(e)' = {p \in 0 .. L - 1 : Trig(p) = e}
    BY <1>14
  <2>3. last \subseteq 0 .. L - 1
    <3> HIDE DEF L
    <3> QED BY <1>3
  <2> HIDE DEF Trig, L, last
  <2> QED BY <2>1, <2>2, <2>3
<1>18. Producers(LaunchEvent)' = {BeginTask}
  <2>1. ASSUME NEW p \in 0 .. L - 1 PROVE Trig(p) = LaunchEvent <=> p = BeginTask
    <3>1. CASE p \notin Task
      <4> HIDE DEF Trig
      <4> QED BY <1>10, <1>15, <3>1 DEF NoEvent, LaunchEvent, BeginTask
    <3>2. CASE p \in Task
      <4>1. p # BeginTask
        <5> HIDE DEF L
        <5> QED BY <3>2, <1>3 DEF BeginTask
      <4>2. Trig(p) = E \/ Trig(p) \in Old
        <5> HIDE DEF Trig, E, Old
        <5> QED BY <1>10, <1>11, <3>2
      <4> HIDE DEF Trig, E, Old
      <4> QED BY <4>1, <4>2, <1>1, <1>2 DEF LaunchEvent
    <3> QED BY <3>1, <3>2
  <2>2. Producers(LaunchEvent)' = {p \in 0 .. L - 1 : Trig(p) = LaunchEvent}
    BY <1>14 DEF LaunchEvent
  <2>3. BeginTask \in 0 .. L - 1
    BY <1>10 DEF BeginTask
  <2> HIDE DEF Trig, L
  <2> QED BY <2>1, <2>2, <2>3
\* What the graph has become, task by task and event by event.
<1>19. ASSUME NEW p \in Task
       PROVE  /\ T(p).op = TaskAt(p).op /\ T(p).bid = TaskAt(p).bid
              /\ T(p).trigger_event = IF TaskAt(p).op = K THEN E ELSE TaskAt(p).trigger_event
              /\ IF TaskAt(p).op = 1 THEN T(p).dependent_event = NoEvent
                 ELSE T(p).dependent_event \in Old /\ InRange(p, T(p).dependent_event)
  <2>1. p \in 0 .. L - 1 /\ TaskAt(p).op \in Nat /\ TaskAt(p).op >= 1
    <3>1. p \in 0 .. L - 1
      <4> HIDE DEF L
      <4> QED BY <1>3
    <3>2. TaskAt(p).op \in 1 .. K
      BY <1>4
    <3> HIDE DEF K, L
    <3> QED BY <3>1, <3>2
  <2>2. TaskAt(p).op # 1 => TaskAt(p).op > 1
    BY <2>1
  <2> HIDE DEF T, Dep, Trig, Old, K, E
  <2> QED BY <2>1, <2>2, <1>7, <1>8, <1>10
<1> DEFINE Prod(e) == {q \in 0 .. L - 1 : T(q).trigger_event = e}
<1>20. /\ \A e \in Old : Prod(e) = Producers(e)
       /\ Prod(E) = last /\ Prod(1) = {1}
       /\ \A e : Prod(e) = Producers(e)'
  <2>1. \A e : Prod(e) = Producers(e)'
    BY <1>9 DEF Producers, TaskAt
  <2>2. \A e \in Old : Prod(e) = Producers(e)
    <3> TAKE e \in Old
    <3> HIDE DEF Prod
    <3> QED BY <2>1, <1>16
  <2>3. Prod(E) = last
    <3>1. \A e : e = E => Prod(e) = last
      <4> TAKE e
      <4> HIDE DEF Prod, last
      <4> QED BY <2>1, <1>17
    <3> HIDE DEF Prod, last
    <3> QED BY <3>1
  <2>4. Prod(1) = {1}
    <3>1. Producers(LaunchEvent)' = Producers(1)'
      BY DEF LaunchEvent
    <3> HIDE DEF Prod
    <3> QED BY <2>1, <3>1, <1>18 DEF BeginTask
  <2> HIDE DEF Prod, last, E, Old
  <2> QED BY <2>1, <2>2, <2>3, <2>4
<1> HIDE DEF Dep, Trig, Launching
<1>21. TasksOK'
  <2>1. (graph \in Graphs /\ next \in 1 .. Len(graph) + 1 /\ built \in BOOLEAN
         /\ all_tasks \in Seq(AnyTask) /\ Len(all_tasks) >= 2)'
    BY <1>3, <1>5, <1>9 DEF TasksOK
  <2>2. (\A p \in Task : /\ TaskAt(p).op \in 1 .. next - 1
                        /\ TaskAt(p).bid \in Blocks(graph[TaskAt(p).op]))'
    <3> SUFFICES ASSUME NEW p \in Task
                 PROVE  T(p).op \in 1 .. next - 1 /\ T(p).bid \in Blocks(graph[T(p).op])
      BY <1>5, <1>13 DEF TaskAt
    <3> HIDE DEF T, K, E, Old
    <3> QED BY <1>4, <1>19
  <2>3. (\A k \in 1 .. next - 1 : \A b \in Blocks(graph[k]) :
           \E p \in Task : TaskAt(p).op = k /\ TaskAt(p).bid = b)'
    <3> SUFFICES ASSUME NEW k \in 1 .. next - 1, NEW b \in Blocks(graph[k])
                 PROVE  \E p \in Task : T(p).op = k /\ T(p).bid = b
      <4>1. next' = next /\ graph' = graph /\ Task' = Task
        BY <1>5, <1>13
      <4> QED BY <4>1 DEF TaskAt
    <3>1. PICK p \in Task : TaskAt(p).op = k /\ TaskAt(p).bid = b
      BY DEF TasksOK
    <3> HIDE DEF T
    <3> QED BY <3>1, <1>19
  <2>4. (\A p, q \in Task : TaskAt(p).op = TaskAt(q).op /\ TaskAt(p).bid = TaskAt(q).bid => p = q)'
    <3> SUFFICES ASSUME NEW p \in Task, NEW q \in Task, T(p).op = T(q).op, T(p).bid = T(q).bid
                 PROVE  p = q
      BY <1>13 DEF TaskAt
    <3> HIDE DEF T
    <3> QED BY <1>4, <1>19
  <2>5. (first_tasks = {p \in Task : TaskAt(p).op = 1})'
    <3> SUFFICES first_tasks = {p \in Task : T(p).op = 1}
      BY <1>5, <1>13 DEF TaskAt
    <3> HIDE DEF T
    <3> QED BY <1>4, <1>19
  <2>6. (/\ pre_task_map \in [Blocks(graph[next - 1]) -> Task]
         /\ \A b \in Blocks(graph[next - 1]) : /\ TaskAt(pre_task_map[b]).op = next - 1
                                               /\ TaskAt(pre_task_map[b]).bid = b)'
    <3>1. \A b \in Blocks(graph[K]) : /\ T(pre_task_map[b]).op = K
                                      /\ T(pre_task_map[b]).bid = b
      <4> TAKE b \in Blocks(graph[K])
      <4>1. pre_task_map[b] \in Task
        BY <1>4
      <4> HIDE DEF T, K
      <4> QED BY <4>1, <1>4, <1>19
    <3>2. next' - 1 = K
      BY <1>4, <1>5
    <3> HIDE DEF K
    <3> QED BY <3>1, <3>2, <1>4, <1>5, <1>13 DEF TaskAt
  <2> QED BY <2>1, <2>2, <2>3, <2>4, <2>5, <2>6 DEF TasksOK
<1>22. ASSUME NEW e \in 1 .. E
       PROVE  X(e).num_triggers = Cardinality(Prod(e)) /\ X(e).num_triggers > 0
  <2>1. CASE e = 1
    <3>1. Cardinality({1}) = 1
      BY FS_Singleton
    <3>2. X(1).num_triggers = EventAt(1).num_triggers
      <4>1. 1 \in 0 .. E - 1
        BY <1>1, <1>2
      <4> QED BY <4>1, <1>12
    <3>3. EventAt(1).num_triggers = 1
      BY <1>1 DEF LaunchEvent
    <3>4. Prod(1) = {1}
      BY <1>20
    <3> HIDE DEF X, Prod
    <3>5. Cardinality(Prod(e)) = 1
      BY <2>1, <3>1, <3>4
    <3>6. X(e).num_triggers = 1
      BY <2>1, <3>2, <3>3
    <3> QED BY <3>5, <3>6
  <2>2. CASE e \in Old
    <3>1. e \in 0 .. E - 1
      <4> HIDE DEF E, Old
      <4> QED BY <2>2, <1>2
    <3>2. X(e).num_triggers = EventAt(e).num_triggers
      BY <3>1, <1>12
    <3> HIDE DEF X, Prod, Old
    <3> QED BY <2>2, <3>2, <1>1, <1>20
  <2>3. CASE e = E
    <3>1. X(E).num_triggers = Cardinality(last) /\ Prod(E) = last /\ Cardinality(last) > 0
      BY <1>6, <1>12, <1>20
    <3> HIDE DEF X, Prod, last, E
    <3> QED BY <2>3, <3>1
  <2>4. e = 1 \/ e \in Old \/ e = E
    <3> HIDE DEF E, Old
    <3> QED BY <1>2
  <2> QED BY <2>1, <2>2, <2>3, <2>4
<1>23. ASSUME NEW p \in Task
       PROVE  /\ T(p).trigger_event \in LaunchEvent + 1 .. E
              /\ T(p).dependent_event = NoEvent <=> p \in first_tasks
              /\ p \notin first_tasks =>
                   /\ X(T(p).dependent_event).type = "EMPTY"
                   /\ \A r \in Prod(T(p).dependent_event) : r < p /\ r \in Task
  <2>1. T(p).trigger_event \in LaunchEvent + 1 .. E
    <3>1. T(p).trigger_event = E \/ T(p).trigger_event \in Old
      <4> HIDE DEF T, E, Old, K
      <4> QED BY <1>11, <1>19
    <3> HIDE DEF T, E, Old
    <3> QED BY <3>1, <1>1, <1>2 DEF LaunchEvent
  <2>2. p \in first_tasks <=> TaskAt(p).op = 1
    BY <1>4
  <2>3. NoEvent \notin Old
    <3> HIDE DEF E, Old
    <3> QED BY <1>2 DEF NoEvent
  <2>4. T(p).dependent_event = NoEvent <=> p \in first_tasks
    <3> HIDE DEF T, E, Old, K
    <3> QED BY <2>2, <2>3, <1>19
  <2>5. ASSUME p \notin first_tasks
        PROVE  /\ X(T(p).dependent_event).type = "EMPTY"
               /\ \A r \in Prod(T(p).dependent_event) : r < p /\ r \in Task
    <3>1. T(p).dependent_event \in Old /\ InRange(p, T(p).dependent_event)
      <4> HIDE DEF T, E, Old, K
      <4> QED BY <2>2, <2>5, <1>19
    <3>2. ASSUME NEW e \in Old, InRange(p, e)
          PROVE  X(e).type = "EMPTY" /\ \A r \in Prod(e) : r < p /\ r \in Task
      <4>1. X(e).type = "EMPTY"
        BY <1>12
      <4>2. p >= EventAt(e).first_task_id
        BY <3>2 DEF InRange
      <4>3. \A r \in Prod(e) : r < EventAt(e).first_task_id /\ r \in 0 .. L - 1
        <5>1. \A r \in Prod(e) : r \in 0 .. L - 1
          BY <1>2
        <5> HIDE DEF Prod, Old
        <5> QED BY <5>1, <1>1, <1>20
      <4>4. EventAt(e).first_task_id \in Nat /\ L \in Nat
        <5>1. e + 1 \in 1 .. E
          <6> HIDE DEF E, Old
          <6> QED BY <1>2
        <5>2. EventAt(e) \in AnyEvent
          BY <5>1, <1>2 DEF EventAt
        <5> QED BY <5>2, <1>3 DEF AnyEvent
      <4>5. p \in Nat
        <5> HIDE DEF L
        <5> QED BY <1>3
      <4>6. \A r \in Prod(e) : r < p
        <5> HIDE DEF Prod, L
        <5> QED BY <4>2, <4>3, <4>4, <4>5
      <4>7. ASSUME NEW r \in Prod(e) PROVE r \in Task
        <5>1. r \in 0 .. L - 1 /\ TaskAt(r).trigger_event = e
          <6>1. r \in Producers(e)
            <7> HIDE DEF Prod, Old
            <7> QED BY <1>20
          <6> QED BY <6>1 DEF Producers
        <5>2. e # NoEvent /\ e # LaunchEvent
          <6> HIDE DEF E, Old
          <6> QED BY <1>2 DEF NoEvent, LaunchEvent
        <5>3. r # 0 /\ r # 1
          BY <5>1, <5>2, <1>1 DEF TerminateTask, BeginTask
        <5> HIDE DEF L
        <5> QED BY <5>1, <5>3, <1>15
      <4> QED BY <4>1, <4>6, <4>7
    <3> HIDE DEF T, X, Prod, Old
    <3> QED BY <3>1, <3>2
  <2> HIDE DEF T, X, Prod, E
  <2> QED BY <2>1, <2>4, <2>5
<1>24. RuntimeReady'
  <2>1. (\A e \in Event \ {0} : /\ EventAt(e).num_triggers = Cardinality(Producers(e))
                                /\ EventAt(e).num_triggers > 0)'
    <3> SUFFICES ASSUME NEW e \in 1 .. E
                 PROVE  /\ X(e).num_triggers = Cardinality(Producers(e)')
                        /\ X(e).num_triggers > 0
      <4>1. Event' \ {0} = 1 .. E
        <5> HIDE DEF E
        <5> QED BY <1>2, <1>13
      <4> QED BY <4>1 DEF EventAt
    <3> HIDE DEF X, Prod
    <3> QED BY <1>20, <1>22
  <2>2. (\A p \in Task : TaskAt(p).trigger_event \in LaunchEvent + 1 .. EndEvent)'
    BY <1>13, <1>23 DEF TaskAt
  <2>3. (\A p \in Task : TaskAt(p).dependent_event = NoEvent <=> p \in first_tasks)'
    BY <1>5, <1>13, <1>23 DEF TaskAt
  <2>4. (\A p \in Task : p \notin first_tasks =>
           EventAt(TaskAt(p).dependent_event).type = "EMPTY")'
    BY <1>5, <1>13, <1>23 DEF TaskAt, EventAt
  <2>5. (\A p \in Task : p \notin first_tasks =>
           \A r \in Producers(TaskAt(p).dependent_event) : r < p)'
    <3> SUFFICES ASSUME NEW p \in Task, p \notin first_tasks,
                        NEW r \in Prod(T(p).dependent_event)
                 PROVE  r < p
      BY <1>5, <1>9, <1>13 DEF TaskAt, Producers
    <3> QED BY <1>23
  <2> QED BY <2>1, <2>2, <2>3, <2>4, <2>5 DEF RuntimeReady
<1>25. ASSUME NEW p \in Task, NEW r \in Task
       PROVE  /\ T(p).op > 1 =>
                   (T(r).trigger_event = T(p).dependent_event <=>
                      T(r).op = T(p).op - 1 /\ Joined(T(p).op, T(r).bid, T(p).bid))
              /\ T(r).trigger_event = E <=> T(r).op = K
  <2>1. T(r).trigger_event = E <=> T(r).op = K
    <3> HIDE DEF T, E, Old, K
    <3> QED BY <1>11, <1>19
  <2>2. ASSUME TaskAt(p).op > 1
        PROVE  T(r).trigger_event = T(p).dependent_event <=>
                 TaskAt(r).op = TaskAt(p).op - 1
                 /\ Joined(TaskAt(p).op, TaskAt(r).bid, TaskAt(p).bid)
    <3>1. T(p).dependent_event \in Old /\ InRange(p, T(p).dependent_event)
      <4> HIDE DEF T, E, Old, K
      <4> QED BY <2>2, <1>19
    <3>2. r \in 0 .. L - 1
      <4> HIDE DEF L
      <4> QED BY <1>3
    <3>3. ASSUME NEW e \in Old, InRange(p, e)
          PROVE  T(r).trigger_event = e <=>
                   TaskAt(r).op = TaskAt(p).op - 1
                   /\ Joined(TaskAt(p).op, TaskAt(r).bid, TaskAt(p).bid)
      <4>1. T(r).trigger_event = e <=> TaskAt(r).trigger_event = e
        <5>1. r \in Prod(e) <=> r \in Producers(e)
          <6> HIDE DEF Prod, Old
          <6> QED BY <1>20
        <5> QED BY <5>1, <3>2 DEF Producers
      <4>2. TaskAt(r).trigger_event = e <=>
              TaskAt(r).op = TaskAt(p).op - 1
              /\ Joined(TaskAt(p).op, TaskAt(r).bid, TaskAt(p).bid)
        BY <3>3 DEF Growing, JoinsGrow
      <4> HIDE DEF T
      <4> QED BY <4>1, <4>2
    <3> HIDE DEF T, Old
    <3> QED BY <3>1, <3>3
  <2> HIDE DEF T, E, K
  <2> QED BY <2>1, <2>2, <1>19
<1>26. Complete'
  <2>1. (next = Len(graph) + 1)'
    BY <1>4, <1>5
  <2>2. ASSUME NEW p \in Task, NEW r \in Task
        PROVE  (/\ TaskAt(p).op > 1 =>
                     (TaskAt(r).trigger_event = TaskAt(p).dependent_event <=>
                        TaskAt(r).op = TaskAt(p).op - 1
                        /\ Joined(TaskAt(p).op, TaskAt(r).bid, TaskAt(p).bid))
                /\ TaskAt(r).trigger_event = EndEvent <=> TaskAt(r).op = Len(graph))'
    <3>1. /\ T(p).op > 1 =>
               (T(r).trigger_event = T(p).dependent_event <=>
                  T(r).op = T(p).op - 1 /\ Joined(T(p).op, T(r).bid, T(p).bid))
          /\ T(r).trigger_event = EndEvent' <=> T(r).op = Len(graph)'
      <4>1. EndEvent' = E /\ Len(graph)' = K
        BY <1>5, <1>13
      <4> HIDE DEF T, E, K
      <4> QED BY <4>1, <1>25
    <3>2. graph' = graph
      BY <1>5
    <3> QED BY <3>1, <3>2, SameJoined DEF TaskAt
  <2>3. (\A p \in Task : \A r \in Task :
           /\ TaskAt(p).op > 1 =>
                (TaskAt(r).trigger_event = TaskAt(p).dependent_event <=>
                   TaskAt(r).op = TaskAt(p).op - 1
                   /\ Joined(TaskAt(p).op, TaskAt(r).bid, TaskAt(p).bid))
           /\ TaskAt(r).trigger_event = EndEvent <=> TaskAt(r).op = Len(graph))'
    <3>1. Task' = Task
      BY <1>13
    <3> QED BY <3>1, <2>2
  <2>4. (\A p \in Task : p \notin first_tasks =>
           Producers(TaskAt(p).dependent_event) \subseteq Task)'
    <3> SUFFICES ASSUME NEW p \in Task, p \notin first_tasks,
                        NEW r \in Prod(T(p).dependent_event)
                 PROVE  r \in Task
      BY <1>5, <1>9, <1>13 DEF TaskAt, Producers
    <3> QED BY <1>23
  <2> QED BY <2>1, <2>3, <2>4, <1>24 DEF Complete
<1> QED BY <1>21, <1>26
-----------------------------------------------------------------------------
(* The theorems.                                                            *)

\* Every step keeps the invariant.
LEMMA GraphStep == ASSUME GraphInv, [Next]_vars PROVE GraphInv'
<1>1. graph \in Graphs /\ Len(graph) \in Nat \ {0}
  BY GraphFacts DEF GraphInv, TasksOK
<1>2. ASSUME built PROVE next = Len(graph) + 1
  BY <1>2 DEF GraphInv, Complete
<1>3. CASE AddFirst
  <2>1. ~built /\ 1 \in 1 .. Len(graph)
    BY <1>1, <1>2, <1>3 DEF AddFirst
  <2>2. TasksOK /\ Growing
    BY <2>1 DEF GraphInv
  <2>3. built' = built /\ next = 1
    BY <1>3 DEF AddFirst
  <2>4. Added(1, Blocks(graph[1]), [b \in Blocks(graph[1]) |-> b])
        /\ first_tasks' = Range(pre_task_map')
    BY <2>2, <1>3, AddsFirst
  <2>5. TasksOK'
    <3> DEFINE S == Blocks(graph[1])
               bid == [b \in S |-> b]
    <3>1. Added(1, S, bid) /\ first_tasks' = Range(pre_task_map')
      BY <2>4
    <3> HIDE DEF S, bid
    <3> QED BY <2>1, <2>2, <3>1, TasksGrow
  <2>6. Growing'
    BY <2>2, <1>3, GrowingFirst
  <2> QED BY <2>1, <2>3, <2>5, <2>6 DEF GraphInv
<1>4. CASE AddOperator
  <2>1. ~built /\ next \in 1 .. Len(graph) /\ next # 1
    <3>1. next \in 2 .. Len(graph)
      BY <1>4 DEF AddOperator
    <3> QED BY <1>1, <1>2, <3>1
  <2>2. TasksOK /\ Growing
    BY <2>1 DEF GraphInv
  <2>3. built' = built /\ first_tasks' = first_tasks
    BY <1>4 DEF AddOperator
  <2>4. TasksOK'
    <3> DEFINE S == Pushes(next)
               bid == [t \in S |-> BidOf(t)]
    <3>1. Added(next, S, bid)
      <4>1. all_events \in Seq(AnyEvent)
        BY <2>2 DEF Growing, EventsGrow
      <4> QED BY <2>2, <4>1, <1>4, AddsOperator
    <3> HIDE DEF S, bid
    <3> QED BY <2>1, <2>2, <2>3, <3>1, TasksGrow
  <2>5. Growing'
    BY <2>2, <1>4, GrowingOperator
  <2> QED BY <2>1, <2>3, <2>4, <2>5 DEF GraphInv
<1>5. CASE EndGraph
  <2>1. ~built /\ built'
    BY <1>5 DEF EndGraph
  <2>2. TasksOK /\ Growing
    BY <2>1 DEF GraphInv
  <2>3. TasksOK' /\ Complete'
    BY <2>1, <2>2, <1>5, EndComplete
  <2> QED BY <2>1, <2>3 DEF GraphInv
<1>6. CASE UNCHANGED vars
  <2>1. /\ graph' = graph /\ next' = next /\ all_tasks' = all_tasks /\ all_events' = all_events
        /\ first_tasks' = first_tasks /\ pre_task_map' = pre_task_map /\ built' = built
    BY <1>6 DEF vars
  <2>2. Task' = Task /\ Event' = Event /\ EndEvent' = EndEvent
        /\ (\A p : TaskAt(p)' = TaskAt(p)) /\ (\A e : EventAt(e)' = EventAt(e))
        /\ (\A e : Producers(e)' = Producers(e))
    BY <2>1 DEF Task, Event, EndEvent, TaskAt, EventAt, Producers
  <2>3. TasksOK' <=> TasksOK
    BY <2>1 DEF TasksOK, Task, TaskAt
  <2>4. EventsGrow' <=> EventsGrow
    BY <2>1 DEF EventsGrow, Event, EndEvent, EventAt, Producers, Task, TaskAt
  <2>5. JoinsGrow' <=> JoinsGrow
    BY <2>1
       DEF JoinsGrow, InRange, Joined, Consuming, Producing, Dims, JoinInput,
           JoinOutput,
                SharedInputs, EndEvent, EventAt, Task, TaskAt
  <2>6. RuntimeReady' <=> RuntimeReady
    BY <2>1 DEF RuntimeReady, Event, EndEvent, EventAt, Producers, Task, TaskAt
  <2>7. Complete' <=> Complete
    <3>1. ASSUME NEW p \in Task, NEW r \in Task
          PROVE  (/\ TaskAt(p).op > 1 =>
                       (TaskAt(r).trigger_event = TaskAt(p).dependent_event <=>
                          TaskAt(r).op = TaskAt(p).op - 1
                          /\ Joined(TaskAt(p).op, TaskAt(r).bid, TaskAt(p).bid))
                  /\ TaskAt(r).trigger_event = EndEvent <=> TaskAt(r).op = Len(graph))'
                 <=>
                 (/\ TaskAt(p).op > 1 =>
                       (TaskAt(r).trigger_event = TaskAt(p).dependent_event <=>
                          TaskAt(r).op = TaskAt(p).op - 1
                          /\ Joined(TaskAt(p).op, TaskAt(r).bid, TaskAt(p).bid))
                  /\ TaskAt(r).trigger_event = EndEvent <=> TaskAt(r).op = Len(graph))
      BY <2>1, SameJoined DEF TaskAt, EndEvent
    <3>2. (\A p \in Task : \A r \in Task :
             /\ TaskAt(p).op > 1 =>
                  (TaskAt(r).trigger_event = TaskAt(p).dependent_event <=>
                     TaskAt(r).op = TaskAt(p).op - 1
                     /\ Joined(TaskAt(p).op, TaskAt(r).bid, TaskAt(p).bid))
             /\ TaskAt(r).trigger_event = EndEvent <=> TaskAt(r).op = Len(graph))'
          <=>
          (\A p \in Task : \A r \in Task :
             /\ TaskAt(p).op > 1 =>
                  (TaskAt(r).trigger_event = TaskAt(p).dependent_event <=>
                     TaskAt(r).op = TaskAt(p).op - 1
                     /\ Joined(TaskAt(p).op, TaskAt(r).bid, TaskAt(p).bid))
             /\ TaskAt(r).trigger_event = EndEvent <=> TaskAt(r).op = Len(graph))
      BY <2>2, <3>1
    <3>3. (next = Len(graph) + 1)' <=> next = Len(graph) + 1
      BY <2>1
    <3>4. (\A p \in Task : p \notin first_tasks =>
             Producers(TaskAt(p).dependent_event) \subseteq Task)' <=>
          (\A p \in Task : p \notin first_tasks =>
             Producers(TaskAt(p).dependent_event) \subseteq Task)
      BY <2>1, <2>2 DEF Producers, TaskAt
    <3> QED BY <2>6, <3>2, <3>3, <3>4 DEF Complete
  <2> QED BY <2>1, <2>3, <2>4, <2>5, <2>7 DEF GraphInv, Growing
<1>7. Registered => UNCHANGED vars
  BY DEF Registered
<1> QED BY <1>3, <1>4, <1>5, <1>6, <1>7 DEF Next

\* The invariant of registration (register_mugraph and
\* dfs_create_events_add_tasks): the tasks are the blocks of the operators turned
\* so far, and the events count them and launch those that wait for them.
THEOREM GraphInvariant == Spec => []GraphInv
<1>1. Init => GraphInv
  <2> SUFFICES ASSUME Init PROVE GraphInv
    OBVIOUS
  <2>1. TasksOK /\ Growing
    BY TasksInit, GrowingInit
  <2>2. ~built
    BY DEF Init
  <2> QED BY <2>1, <2>2 DEF GraphInv
<1>2. GraphInv /\ [Next]_vars => GraphInv'
  BY GraphStep
<1> QED BY <1>1, <1>2, PTL DEF Spec

\* Every block of every operator is one task (register_mugraph).
THEOREM BlocksOnce == Spec => []EveryBlockOnce
<1>1. GraphInv => EveryBlockOnce
  <2> SUFFICES ASSUME GraphInv, built, NEW k \in DOMAIN graph, NEW b \in Blocks(graph[k])
               PROVE  Cardinality({p \in Task : TaskAt(p).op = k /\ TaskAt(p).bid = b}) = 1
    BY DEF EveryBlockOnce
  <2>1. TasksOK /\ next = Len(graph) + 1
    BY DEF GraphInv, Complete
  <2>2. k \in 1 .. next - 1
    BY <2>1, GraphFacts DEF TasksOK
  <2>3. PICK p \in Task : TaskAt(p).op = k /\ TaskAt(p).bid = b
    BY <2>1, <2>2 DEF TasksOK
  <2>4. \A q \in Task : TaskAt(q).op = k /\ TaskAt(q).bid = b => q = p
    BY <2>1, <2>3 DEF TasksOK
  <2>5. {q \in Task : TaskAt(q).op = k /\ TaskAt(q).bid = b} = {p}
    BY <2>3, <2>4
  <2> QED BY <2>5, FS_Singleton
<1> QED BY <1>1, GraphInvariant, PTL

\* The graph that was built is what the runtime takes for granted (GraphAssumption
\* of Megakernel): every event counts the tasks that trigger it, and every task
\* waits for an event of earlier tasks.
THEOREM GraphReady == Spec => []RuntimeReady
<1>1. GraphInv => RuntimeReady
  BY DEF GraphInv, Complete, RuntimeReady
<1> QED BY <1>1, GraphInvariant, PTL
-----------------------------------------------------------------------------
(* What a task comes after.                                                 *)

\* The tasks that trigger the event that p waits for.
WaitsFor(p) ==
    IF TaskAt(p).dependent_event = NoEvent THEN {}
    ELSE Producers(TaskAt(p).dependent_event)

\* A task waits for the tasks of the operator before that it is joined with.
LEMMA WaitsForIs ==
    ASSUME GraphInv, built, NEW p \in Task
    PROVE  /\ WaitsFor(p) \subseteq Task
           /\ TaskAt(p).op = 1 => WaitsFor(p) = {}
           /\ TaskAt(p).op > 1 =>
                WaitsFor(p) = {r \in Task : /\ TaskAt(r).op = TaskAt(p).op - 1
                                            /\ Joined(TaskAt(p).op, TaskAt(r).bid, TaskAt(p).bid)}
<1>1. TasksOK /\ Complete
  BY DEF GraphInv
<1>2. p \in first_tasks <=> TaskAt(p).op = 1
  BY <1>1 DEF TasksOK
<1>3. TaskAt(p).dependent_event = NoEvent <=> p \in first_tasks
  BY <1>1 DEF Complete, RuntimeReady
<1>4. CASE p \in first_tasks
  <2>1. WaitsFor(p) = {} /\ TaskAt(p).op = 1
    BY <1>2, <1>3, <1>4 DEF WaitsFor
  <2> QED BY <2>1
<1>5. CASE p \notin first_tasks
  <2>1. WaitsFor(p) = Producers(TaskAt(p).dependent_event) /\ TaskAt(p).op # 1
    BY <1>2, <1>3, <1>5 DEF WaitsFor
  <2>2. WaitsFor(p) \subseteq Task
    BY <1>1, <1>5, <2>1 DEF Complete
  <2>3. WaitsFor(p) = {r \in Task : TaskAt(r).trigger_event = TaskAt(p).dependent_event}
    BY <2>1, <2>2, TaskFacts, <1>1 DEF Producers
  <2>4. TaskAt(p).op > 1 => \A r \in Task :
          TaskAt(r).trigger_event = TaskAt(p).dependent_event <=>
            /\ TaskAt(r).op = TaskAt(p).op - 1
            /\ Joined(TaskAt(p).op, TaskAt(r).bid, TaskAt(p).bid)
    BY <1>1 DEF Complete
  <2> QED BY <2>1, <2>2, <2>3, <2>4
<1> QED BY <1>4, <1>5

\* The ancestors are well defined: the sets of tasks that the recursion asks for
\* exist, as the least ones that hold all that their members wait for.
LEMMA AncestorsAre ==
    ASSUME GraphInv, built
    PROVE  \A p \in Task : Ancestors[p] = UNION { {r} \cup Ancestors[r] : r \in WaitsFor(p) }
<1> DEFINE Closed(S) == \A r \in S : WaitsFor(r) \subseteq S
           F == [p \in Task |-> {q \in Task : \A S \in SUBSET Task :
                                   WaitsFor(p) \subseteq S /\ Closed(S) => q \in S}]
           Solves(f) == f = [p \in Task |-> IF TaskAt(p).dependent_event = NoEvent THEN {}
                               ELSE UNION { {r} \cup f[r] :
                                      r \in Producers(TaskAt(p).dependent_event) }]
<1>1. \A p \in Task : WaitsFor(p) \subseteq Task
  BY WaitsForIs
<1>2. ASSUME NEW p \in Task PROVE F[p] \subseteq Task /\ WaitsFor(p) \subseteq F[p] /\ Closed(F[p])
  <2>1. F[p] = {q \in Task : \A S \in SUBSET Task :
                  WaitsFor(p) \subseteq S /\ Closed(S) => q \in S}
    BY Zenon
  <2> HIDE DEF F
  <2> QED BY <1>1, <2>1
<1>3. ASSUME NEW p \in Task PROVE F[p] = UNION { {r} \cup F[r] : r \in WaitsFor(p) }
  <2> DEFINE U == UNION { {r} \cup F[r] : r \in WaitsFor(p) }
  <2>1. ASSUME NEW r \in WaitsFor(p) PROVE r \in F[p] /\ F[r] \subseteq F[p]
    <3>1. r \in Task
      BY <1>1
    <3>2. r \in F[p] /\ WaitsFor(r) \subseteq F[p] /\ Closed(F[p]) /\ F[p] \in SUBSET Task
      <4> HIDE DEF F
      <4> QED BY <1>2
    <3>3. \A q \in F[r] : \A S \in SUBSET Task : WaitsFor(r) \subseteq S /\ Closed(S) => q \in S
      <4> HIDE DEF Closed
      <4> QED BY <3>1
    <3> HIDE DEF F, Closed
    <3> QED BY <3>2, <3>3
  <2>2. U \subseteq F[p]
    <3> HIDE DEF F
    <3> QED BY <2>1
  <2>3. F[p] \subseteq U
    <3>1. WaitsFor(p) \subseteq U
      OBVIOUS
    <3>2. Closed(U)
      <4> SUFFICES ASSUME NEW q \in U PROVE WaitsFor(q) \subseteq U
        OBVIOUS
      <4>1. PICK r \in WaitsFor(p) : q \in {r} \cup F[r]
        <5> HIDE DEF F
        <5> QED OBVIOUS
      <4>2. r \in Task /\ F[r] \subseteq U
        <5> HIDE DEF F
        <5> QED BY <1>1
      <4>3. WaitsFor(q) \subseteq F[r]
        <5> HIDE DEF F
        <5> QED BY <4>1, <4>2, <1>2
      <4> QED BY <4>2, <4>3
    <3>3. U \in SUBSET Task
      <4> HIDE DEF F
      <4> QED BY <1>1, <1>2
    <3>4. \A q \in F[p] : \A S \in SUBSET Task : WaitsFor(p) \subseteq S /\ Closed(S) => q \in S
      <4> HIDE DEF Closed, U
      <4> QED OBVIOUS
    <3> HIDE DEF F, Closed, U
    <3> QED BY <3>1, <3>2, <3>3, <3>4
  <2> HIDE DEF F
  <2> QED BY <2>2, <2>3
<1>4. Solves(F)
  <2> DEFINE G == [p \in Task |-> IF TaskAt(p).dependent_event = NoEvent THEN {}
                     ELSE UNION { {r} \cup F[r] : r \in Producers(TaskAt(p).dependent_event) }]
  <2>1. \A p \in Task : G[p] = F[p]
    <3> TAKE p \in Task
    <3>1. F[p] = UNION { {r} \cup F[r] : r \in WaitsFor(p) }
      BY <1>3
    <3>2. CASE TaskAt(p).dependent_event = NoEvent
      <4>1. WaitsFor(p) = {} /\ G[p] = {}
        BY <3>2 DEF WaitsFor
      <4> HIDE DEF F, G
      <4> QED BY <3>1, <4>1
    <3>3. CASE TaskAt(p).dependent_event # NoEvent
      <4>1. WaitsFor(p) = Producers(TaskAt(p).dependent_event)
        BY <3>3 DEF WaitsFor
      <4>2. G[p] = UNION { {r} \cup F[r] : r \in Producers(TaskAt(p).dependent_event) }
        <5> HIDE DEF F
        <5> QED BY <3>3
      <4> HIDE DEF F, G
      <4> QED BY <3>1, <4>1, <4>2
    <3> QED BY <3>2, <3>3
  <2>2. F = [p \in Task |-> F[p]] /\ G = [p \in Task |-> G[p]]
    OBVIOUS
  <2>3. F = G
    <3> HIDE DEF F, G
    <3> QED BY <2>1, <2>2
  <2> QED BY <2>3
<1>5. Solves(Ancestors)
  <2>1. \E f : Solves(f)
    <3> HIDE DEF F, Solves
    <3> QED BY <1>4
  <2>2. Ancestors = CHOOSE f : Solves(f)
    BY DEF Ancestors
  <2> HIDE DEF Solves
  <2> QED BY <2>1, <2>2
<1>6. ASSUME NEW p \in Task PROVE Ancestors[p] = UNION { {r} \cup Ancestors[r] : r \in WaitsFor(p) }
  <2> DEFINE A == Ancestors
  <2>1. A = [q \in Task |-> IF TaskAt(q).dependent_event = NoEvent THEN {}
               ELSE UNION { {r} \cup A[r] : r \in Producers(TaskAt(q).dependent_event) }]
    BY <1>5
  <2> HIDE DEF A
  <2>2. A[p] = IF TaskAt(p).dependent_event = NoEvent THEN {}
               ELSE UNION { {r} \cup A[r] : r \in Producers(TaskAt(p).dependent_event) }
    BY <2>1, Zenon
  <2>3. A[p] = UNION { {r} \cup A[r] : r \in WaitsFor(p) }
    BY <2>2 DEF WaitsFor
  <2> QED BY <2>3 DEF A
<1> QED BY <1>6

\* What a task waits for, and all that these come after, it comes after.
LEMMA ComesAfter ==
    ASSUME GraphInv, built, NEW p \in Task, NEW r \in WaitsFor(p)
    PROVE  r \in Ancestors[p] /\ Ancestors[r] \subseteq Ancestors[p]
<1> DEFINE A == Ancestors
<1>1. A[p] = UNION { {q} \cup A[q] : q \in WaitsFor(p) }
  BY AncestorsAre
<1> HIDE DEF A
<1>2. r \in A[p] /\ A[r] \subseteq A[p]
  BY <1>1
<1> QED BY <1>2 DEF A

\* Every block shares an event with one of the operator after it, and with one of
\* the operator before.
LEMMA SomeJoined ==
    ASSUME graph \in Graphs, NEW k \in 2 .. Len(graph)
    PROVE  /\ \A c \in Blocks(graph[k - 1]) : \E b \in Blocks(graph[k]) : Joined(k, c, b)
           /\ \A b \in Blocks(graph[k]) : \E c \in Blocks(graph[k - 1]) : Joined(k, c, b)
           /\ \A c \in Blocks(graph[k - 1]) :
                \E v \in Below(Dims(k)) : \A w \in Below(Dims(k)) : c \in Producing(k, w) <=> w = v
           /\ \A b \in Blocks(graph[k]) :
                \E v \in Below(Dims(k)) : \A w \in Below(Dims(k)) : b \in Consuming(k, w) <=> w = v
<1>1. /\ Gridded(graph[k]) /\ Gridded(graph[k - 1])
      /\ Mapping(JoinInput(k).map) /\ Mapping(JoinOutput(k).map)
      /\ Splits(Dims(k), graph[k - 1], JoinOutput(k).map)
      /\ Splits(Dims(k), graph[k], JoinInput(k).map)
  BY JoinFacts
<1>2. ASSUME NEW c \in Blocks(graph[k - 1])
      PROVE  \E v \in Below(Dims(k)) : \A w \in Below(Dims(k)) : c \in Producing(k, w) <=> w = v
  BY <1>1, OneEvent DEF Producing
<1>3. ASSUME NEW b \in Blocks(graph[k])
      PROVE  \E v \in Below(Dims(k)) : \A w \in Below(Dims(k)) : b \in Consuming(k, w) <=> w = v
  BY <1>1, OneEvent DEF Consuming
<1>4. ASSUME NEW v \in Below(Dims(k))
      PROVE  /\ \E b \in Blocks(graph[k]) : b \in Consuming(k, v)
             /\ \E c \in Blocks(graph[k - 1]) : c \in Producing(k, v)
  <2>1. Consuming(k, v) # {} /\ Consuming(k, v) \subseteq Blocks(graph[k])
    BY <1>1, SomeBlock DEF Consuming
  <2>2. Producing(k, v) # {} /\ Producing(k, v) \subseteq Blocks(graph[k - 1])
    BY <1>1, SomeBlock DEF Producing
  <2> QED BY <2>1, <2>2
<1>5. ASSUME NEW c \in Blocks(graph[k - 1]) PROVE \E b \in Blocks(graph[k]) : Joined(k, c, b)
  <2>1. PICK v \in Below(Dims(k)) : c \in Producing(k, v)
    BY <1>2
  <2> QED BY <2>1, <1>4 DEF Joined
<1>6. ASSUME NEW b \in Blocks(graph[k]) PROVE \E c \in Blocks(graph[k - 1]) : Joined(k, c, b)
  <2>1. PICK v \in Below(Dims(k)) : b \in Consuming(k, v)
    BY <1>3
  <2> QED BY <2>1, <1>4 DEF Joined
<1> QED BY <1>2, <1>3, <1>5, <1>6

\* Tasks of operators in a row: each waits for the joined ones of the operator
\* before, of which there are some, and is waited for by some of the one after.
LEMMA Neighbours ==
    ASSUME GraphInv, built, NEW k \in 2 .. Len(graph)
    PROVE  /\ \A p \in Task : TaskAt(p).op = k => WaitsFor(p) # {}
           /\ \A p, r \in Task : TaskAt(p).op = k =>
                (r \in WaitsFor(p) <=>
                   TaskAt(r).op = k - 1 /\ Joined(k, TaskAt(r).bid, TaskAt(p).bid))
           /\ \A r \in Task : TaskAt(r).op = k - 1 =>
                \E p \in Task : TaskAt(p).op = k /\ r \in WaitsFor(p)
<1>1. TasksOK /\ next = Len(graph) + 1 /\ graph \in Graphs
  BY DEF GraphInv, Complete, TasksOK
<1>2. Len(graph) \in Nat \ {0} /\ k \in Nat /\ k > 1
  BY <1>1, GraphFacts
<1>3. /\ \A p \in Task : TaskAt(p).bid \in Blocks(graph[TaskAt(p).op])
      /\ \A j \in 1 .. Len(graph) : \A b \in Blocks(graph[j]) :
           \E p \in Task : TaskAt(p).op = j /\ TaskAt(p).bid = b
  <2>1. next - 1 = Len(graph)
    BY <1>1, <1>2
  <2> QED BY <1>1, <2>1 DEF TasksOK
<1>4. ASSUME NEW p \in Task, NEW r \in Task, TaskAt(p).op = k
      PROVE  r \in WaitsFor(p) <=> TaskAt(r).op = k - 1 /\ Joined(k, TaskAt(r).bid, TaskAt(p).bid)
  <2>1. WaitsFor(p) = {q \in Task : /\ TaskAt(q).op = TaskAt(p).op - 1
                                    /\ Joined(TaskAt(p).op, TaskAt(q).bid, TaskAt(p).bid)}
    BY <1>2, <1>4, WaitsForIs
  <2> QED BY <2>1, <1>4
<1>5. ASSUME NEW p \in Task, TaskAt(p).op = k PROVE WaitsFor(p) # {}
  <2>1. TaskAt(p).bid \in Blocks(graph[k])
    BY <1>3, <1>5
  <2>2. PICK c \in Blocks(graph[k - 1]) : Joined(k, c, TaskAt(p).bid)
    BY <1>1, <2>1, SomeJoined
  <2>3. k - 1 \in 1 .. Len(graph)
    BY <1>2
  <2>4. PICK r \in Task : TaskAt(r).op = k - 1 /\ TaskAt(r).bid = c
    BY <1>3, <2>3
  <2> QED BY <2>2, <2>4, <1>4, <1>5
<1>6. ASSUME NEW r \in Task, TaskAt(r).op = k - 1
      PROVE  \E p \in Task : TaskAt(p).op = k /\ r \in WaitsFor(p)
  <2>1. TaskAt(r).bid \in Blocks(graph[k - 1])
    BY <1>3, <1>6
  <2>2. PICK b \in Blocks(graph[k]) : Joined(k, TaskAt(r).bid, b)
    BY <1>1, <2>1, SomeJoined
  <2>3. k \in 1 .. Len(graph)
    BY <1>2
  <2>4. PICK p \in Task : TaskAt(p).op = k /\ TaskAt(p).bid = b
    BY <1>3, <2>3
  <2> QED BY <2>2, <2>4, <1>4, <1>6
<1> QED BY <1>4, <1>5, <1>6

\* Some task of every later operator comes after a task.
LEMMA SomeAfter ==
    ASSUME GraphInv, built, NEW r \in Task, NEW m \in TaskAt(r).op .. Len(graph)
    PROVE  \E q \in Task : TaskAt(q).op = m /\ (q = r \/ r \in Ancestors[q])
<1> DEFINE j == TaskAt(r).op
           Some(n) == \E q \in Task : TaskAt(q).op = n /\ (q = r \/ r \in Ancestors[q])
           Bad == {n \in j .. Len(graph) : ~Some(n)}
<1>1. j \in Nat /\ j >= 1 /\ Len(graph) \in Nat
  <2>1. TasksOK /\ next = Len(graph) + 1 /\ graph \in Graphs
    BY DEF GraphInv, Complete, TasksOK
  <2>2. j \in 1 .. next - 1
    BY <2>1 DEF TasksOK
  <2> HIDE DEF j
  <2> QED BY <2>1, <2>2, GraphFacts
<1>2. SUFFICES ASSUME Bad # {} PROVE FALSE
  OBVIOUS
<1>3. PICK n \in Bad : \A i \in Bad : n <= i
  <2>1. Bad \in SUBSET Nat
    <3> HIDE DEF j, Some
    <3> QED BY <1>1
  <2> HIDE DEF Bad
  <2> QED BY <1>2, <2>1, Least
<1>4. n \in j .. Len(graph) /\ ~Some(n)
  OBVIOUS
<1>5. n # j
  BY <1>4
<1>6. n \in 2 .. Len(graph) /\ n - 1 \in j .. Len(graph) /\ n - 1 < n
  <2> HIDE DEF j, Some
  <2> QED BY <1>1, <1>4, <1>5
<1>7. Some(n - 1)
  <2>1. n - 1 \notin Bad
    <3> HIDE DEF j, Some
    <3> QED BY <1>1, <1>3, <1>6
  <2> HIDE DEF Some
  <2> QED BY <1>6, <2>1
<1>8. PICK q \in Task : TaskAt(q).op = n - 1 /\ (q = r \/ r \in Ancestors[q])
  BY <1>7
<1>9. PICK p \in Task : TaskAt(p).op = n /\ q \in WaitsFor(p)
  BY <1>6, <1>8, Neighbours
<1>10. q \in Ancestors[p] /\ Ancestors[q] \subseteq Ancestors[p]
  BY <1>9, ComesAfter
<1> QED BY <1>4, <1>8, <1>9, <1>10

\* The end event waits for every task (END_OF_TASK_GRAPH, register_mugraph).
THEOREM EndIsLast == Spec => []EndWaitsForAll
<1>1. GraphInv => EndWaitsForAll
  <2> SUFFICES ASSUME GraphInv, built, NEW p \in Task
               PROVE  \E f \in Producers(EndEvent) : p = f \/ p \in Ancestors[f]
    BY DEF EndWaitsForAll
  <2>1. TasksOK /\ Complete /\ next = Len(graph) + 1 /\ graph \in Graphs
    BY DEF GraphInv, Complete, TasksOK
  <2>2. Len(graph) \in TaskAt(p).op .. Len(graph)
    <3>1. TaskAt(p).op \in 1 .. next - 1
      BY <2>1 DEF TasksOK
    <3> QED BY <2>1, <3>1, GraphFacts
  <2>3. PICK f \in Task : TaskAt(f).op = Len(graph) /\ (f = p \/ p \in Ancestors[f])
    BY <2>2, SomeAfter
  <2>4. TaskAt(f).trigger_event = EndEvent
    BY <2>1, <2>3 DEF Complete
  <2>5. f \in Producers(EndEvent)
    BY <2>1, <2>4, TaskFacts DEF Producers
  <2> QED BY <2>3, <2>5
<1> QED BY <1>1, GraphInvariant, PTL

\* Behind a barrier a task comes after every task before it.
LEMMA BehindBarrier ==
    ASSUME GraphInv, built, NEW m \in 2 .. Len(graph), Barrier(m),
           NEW r \in Task, TaskAt(r).op < m, NEW p \in Task, TaskAt(p).op >= m
    PROVE  r \in Ancestors[p]
<1>1. TasksOK /\ next = Len(graph) + 1 /\ graph \in Graphs
  BY DEF GraphInv, Complete, TasksOK
<1>2. Len(graph) \in Nat \ {0} /\ \A q \in Task : /\ TaskAt(q).op \in 1 .. Len(graph)
                                                 /\ TaskAt(q).bid \in Blocks(graph[TaskAt(q).op])
  <2>1. Len(graph) \in Nat \ {0} /\ next - 1 = Len(graph)
    BY <1>1, GraphFacts
  <2> QED BY <1>1, <2>1 DEF TasksOK
<1>3. \A c \in Blocks(graph[m - 1]) : \A b \in Blocks(graph[m]) : Joined(m, c, b)
  <2>1. PICK v : Below(Dims(m)) = {v}
    <3>1. Cardinality(Below(Dims(m))) = 1
      BY DEF Barrier, Dims
    <3>2. IsFiniteSet(Below(Dims(m)))
      BY <1>1, PushesAre
    <3> QED BY <3>1, <3>2, FS_Singleton
  <2> SUFFICES ASSUME NEW c \in Blocks(graph[m - 1]), NEW b \in Blocks(graph[m]) PROVE Joined(m, c, b)
    OBVIOUS
  <2>2. c \in Producing(m, v) /\ b \in Consuming(m, v)
    BY <1>1, <2>1, SomeJoined
  <2> QED BY <2>1, <2>2 DEF Joined
<1> DEFINE Behind(q) == r \in Ancestors[q]
           Bad == {n \in m .. Len(graph) : \E q \in Task : TaskAt(q).op = n /\ ~Behind(q)}
<1>4. SUFFICES ASSUME Bad # {} PROVE FALSE
  <2>1. TaskAt(p).op \in m .. Len(graph)
    BY <1>2
  <2> HIDE DEF Behind
  <2>2. ~Behind(p) => TaskAt(p).op \in Bad
    BY <2>1
  <2>3. Behind(p)
    <3> HIDE DEF Bad
    <3> QED BY <2>2
  <2> QED BY <2>3 DEF Behind
<1>5. PICK n \in Bad : \A i \in Bad : n <= i
  <2>1. Bad \in SUBSET Nat
    <3> HIDE DEF Behind
    <3> QED BY <1>2
  <2> HIDE DEF Bad
  <2> QED BY <1>4, <2>1, Least
<1>6. PICK q \in Task : TaskAt(q).op = n /\ ~Behind(q)
  OBVIOUS
<1>7. n \in m .. Len(graph) /\ n \in 2 .. Len(graph) /\ n \in Nat /\ m \in Nat
  BY <1>2
<1>8. CASE n = m
  <2>1. m - 1 \in TaskAt(r).op .. Len(graph)
    BY <1>2, <1>7
  <2>2. PICK s \in Task : TaskAt(s).op = m - 1 /\ (s = r \/ r \in Ancestors[s])
    BY <2>1, SomeAfter
  <2>3. Joined(m, TaskAt(s).bid, TaskAt(q).bid)
    BY <1>2, <1>3, <1>6, <1>8, <2>2
  <2>4. s \in WaitsFor(q)
    BY <1>6, <1>7, <1>8, <2>2, <2>3, Neighbours
  <2>5. s \in Ancestors[q] /\ Ancestors[s] \subseteq Ancestors[q]
    BY <2>4, ComesAfter
  <2> QED BY <1>6, <2>2, <2>5
<1>9. CASE n # m
  <2>1. PICK s : s \in WaitsFor(q)
    BY <1>6, <1>7, Neighbours
  <2>2. s \in Task
    BY <2>1, WaitsForIs
  <2>3. TaskAt(s).op = n - 1
    BY <1>6, <1>7, <2>1, <2>2, Neighbours
  <2>4. n - 1 \in m .. Len(graph) /\ n - 1 < n
    BY <1>2, <1>7, <1>9
  <2>5. Behind(s)
    <3>1. n - 1 \notin Bad
      <4> HIDE DEF Bad
      <4> QED BY <1>5, <1>7, <2>4
    <3> HIDE DEF Behind
    <3> QED BY <2>2, <2>3, <2>4, <3>1
  <2>6. Ancestors[s] \subseteq Ancestors[q]
    BY <2>1, ComesAfter
  <2> QED BY <1>6, <2>5, <2>6
<1> QED BY <1>8, <1>9

\* Two parts that overlap are in the same share: b of n * f parts, c of n * g.
LEMMA OverlapShare ==
    ASSUME NEW n \in Nat \ {0}, NEW f \in Nat \ {0}, NEW g \in Nat \ {0},
           NEW b \in Nat, NEW c \in Nat, NEW v \in Nat, NEW w \in Nat,
           b >= w * f, b < (w + 1) * f, c >= v * g, c < (v + 1) * g,
           b * (n * g) < (c + 1) * (n * f), c * (n * f) < (b + 1) * (n * g)
    PROVE  v = w
<1>1. b * g < (c + 1) * f
  <2>1. b * (n * g) = (b * g) * n /\ (c + 1) * (n * f) = ((c + 1) * f) * n
    OBVIOUS
  <2>2. (c + 1) * f <= b * g => ((c + 1) * f) * n <= (b * g) * n
    <3>1. (c + 1) * f \in Nat /\ b * g \in Nat
      OBVIOUS
    <3> QED BY <3>1, TimesMonotonic
  <2>3. (c + 1) * f \in Nat /\ b * g \in Nat /\ ((c + 1) * f) * n \in Nat /\ (b * g) * n \in Nat
    OBVIOUS
  <2> QED BY <2>1, <2>2, <2>3
<1>2. c * f < (b + 1) * g
  <2>1. c * (n * f) = (c * f) * n /\ (b + 1) * (n * g) = ((b + 1) * g) * n
    OBVIOUS
  <2>2. (b + 1) * g <= c * f => ((b + 1) * g) * n <= (c * f) * n
    <3>1. (b + 1) * g \in Nat /\ c * f \in Nat
      OBVIOUS
    <3> QED BY <3>1, TimesMonotonic
  <2>3. (b + 1) * g \in Nat /\ c * f \in Nat /\ ((b + 1) * g) * n \in Nat /\ (c * f) * n \in Nat
    OBVIOUS
  <2> QED BY <2>1, <2>2, <2>3
<1>3. ASSUME w < v PROVE FALSE
  <2>1. (w + 1) * f <= v * f
    BY <1>3, TimesMonotonic
  <2>2. b + 1 <= v * f
    <3>1. (w + 1) * f \in Nat /\ v * f \in Nat
      OBVIOUS
    <3> QED BY <2>1, <3>1
  <2>3. (b + 1) * g <= (v * f) * g
    <3>1. v * f \in Nat
      OBVIOUS
    <3> QED BY <2>2, <3>1, TimesMonotonic
  <2>4. (v * g) * f <= c * f
    <3>1. v * g \in Nat
      OBVIOUS
    <3> QED BY <3>1, TimesMonotonic
  <2>5. (v * g) * f = (v * f) * g
    OBVIOUS
  <2>6. (b + 1) * g \in Nat /\ c * f \in Nat /\ (v * f) * g \in Nat /\ (v * g) * f \in Nat
    OBVIOUS
  <2> QED BY <1>2, <2>3, <2>4, <2>5, <2>6
<1>4. ASSUME v < w PROVE FALSE
  <2>1. (v + 1) * g <= w * g
    BY <1>4, TimesMonotonic
  <2>2. c + 1 <= w * g
    <3>1. (v + 1) * g \in Nat /\ w * g \in Nat
      OBVIOUS
    <3> QED BY <2>1, <3>1
  <2>3. (c + 1) * f <= (w * g) * f
    <3>1. w * g \in Nat
      OBVIOUS
    <3> QED BY <2>2, <3>1, TimesMonotonic
  <2>4. (w * f) * g <= b * g
    <3>1. w * f \in Nat
      OBVIOUS
    <3> QED BY <3>1, TimesMonotonic
  <2>5. (w * f) * g = (w * g) * f
    OBVIOUS
  <2>6. (c + 1) * f \in Nat /\ b * g \in Nat /\ (w * f) * g \in Nat /\ (w * g) * f \in Nat
    OBVIOUS
  <2> QED BY <1>1, <2>3, <2>4, <2>5, <2>6
<1> QED BY <1>3, <1>4

\* Blocks that overlap in the tensor that joins their operators share an event.
LEMMA OverlapJoined ==
    ASSUME graph \in Graphs, NEW k \in 2 .. Len(graph),
           NEW in \in Range(graph[k].inputs), NEW out \in Range(graph[k - 1].outputs),
           in.map = JoinInput(k).map, out.map = JoinOutput(k).map,
           NEW b \in Blocks(graph[k]), NEW c \in Blocks(graph[k - 1]),
           Overlap(k, in, b, k - 1, out, c)
    PROVE  Joined(k, c, b)
<1> DEFINE dims == Dims(k)
           V == Below(dims)
           im == in.map
           om == out.map
           opk == graph[k]
           opj == graph[k - 1]
           F(g) == opk.grid[g] \div dims[im[g]]
           G(h) == opj.grid[h] \div dims[om[h]]
<1>1. /\ Gridded(opk) /\ Gridded(opj) /\ Mapping(im) /\ Mapping(om)
      /\ Splits(dims, opj, om) /\ Splits(dims, opk, im)
  BY JoinFacts
<1>2. PICK w \in V : b \in Consuming(k, w)
  BY SomeJoined
<1>3. PICK v \in V : c \in Producing(k, v)
  BY SomeJoined
<1>4. /\ b \in [GridDim -> Nat] /\ c \in [GridDim -> Nat]
      /\ v \in [TensorDim -> Nat] /\ w \in [TensorDim -> Nat]
      /\ \A d \in TensorDim : v[d] < dims[d] /\ w[d] < dims[d] /\ dims[d] \in Nat \ {0}
      /\ \A g \in GridDim : im[g] # NotMapped =>
           im[g] \in TensorDim /\ F(g) \in Nat \ {0} /\ opk.grid[g] = dims[im[g]] * F(g)
      /\ \A h \in GridDim : om[h] # NotMapped =>
           om[h] \in TensorDim /\ G(h) \in Nat \ {0} /\ opj.grid[h] = dims[om[h]] * G(h)
  <2>1. /\ b \in [GridDim -> Nat]
        /\ w \in [TensorDim -> Nat] /\ \A d \in TensorDim : w[d] < dims[d]
        /\ \A g \in GridDim : im[g] # NotMapped =>
             im[g] \in TensorDim /\ F(g) \in Nat \ {0} /\ opk.grid[g] = dims[im[g]] * F(g)
    <3> HIDE DEF dims, im, opk
    <3> QED BY <1>1, BlocksAndEvents DEF opk
  <2>2. /\ c \in [GridDim -> Nat]
        /\ v \in [TensorDim -> Nat] /\ \A d \in TensorDim : v[d] < dims[d]
        /\ \A h \in GridDim : om[h] # NotMapped =>
             om[h] \in TensorDim /\ G(h) \in Nat \ {0} /\ opj.grid[h] = dims[om[h]] * G(h)
    <3> HIDE DEF dims, om, opj
    <3> QED BY <1>1, BlocksAndEvents DEF opj
  <2>3. \A d \in TensorDim : dims[d] \in Nat \ {0}
    BY <1>1 DEF Splits
  <2> QED BY <2>1, <2>2, <2>3
<1>5. /\ \A g \in GridDim : im[g] # NotMapped => b[g] >= w[im[g]] * F(g) /\ b[g] < (w[im[g]] + 1) * F(g)
      /\ \A h \in GridDim : om[h] # NotMapped => c[h] >= v[om[h]] * G(h) /\ c[h] < (v[om[h]] + 1) * G(h)
  BY <1>2, <1>3 DEF Consuming, Producing, Part
<1>6. ASSUME NEW d \in TensorDim PROVE v[d] = w[d]
  <2>1. d # NotMapped
    BY GraphsAssumption DEF TensorDim, NotMapped
  <2>2. CASE (\A g \in GridDim : im[g] # d) \/ (\A h \in GridDim : om[h] # d)
    <3>1. dims[d] = 1
      BY <1>1, <2>2 DEF Splits
    <3>2. v[d] \in Nat /\ w[d] \in Nat /\ v[d] < 1 /\ w[d] < 1
      BY <1>4, <3>1
    <3> QED BY <3>2
  <2>3. ASSUME NEW g \in GridDim, im[g] = d, NEW h \in GridDim, om[h] = d PROVE v[d] = w[d]
    <3>1. /\ b[g] * opj.grid[h] < (c[h] + 1) * opk.grid[g]
          /\ c[h] * opk.grid[g] < (b[g] + 1) * opj.grid[h]
      BY <2>3 DEF Overlap
    <3> DEFINE n == dims[d]
               f == F(g)
               e == G(h)
               x == b[g]
               y == c[h]
               p == v[d]
               q == w[d]
    <3>2. /\ n \in Nat \ {0} /\ f \in Nat \ {0} /\ e \in Nat \ {0}
          /\ opk.grid[g] = n * f /\ opj.grid[h] = n * e
          /\ x \in Nat /\ y \in Nat /\ p \in Nat /\ q \in Nat
      <4> HIDE DEF F, G, dims, im, om, opk, opj
      <4> QED BY <1>4, <2>1, <2>3
    <3>3. x >= q * f /\ x < (q + 1) * f /\ y >= p * e /\ y < (p + 1) * e
      <4> HIDE DEF F, G, dims, im, om
      <4> QED BY <1>5, <2>1, <2>3
    <3>4. x * (n * e) < (y + 1) * (n * f) /\ y * (n * f) < (x + 1) * (n * e)
      <4> HIDE DEF n, f, e, opk, opj
      <4> QED BY <3>1, <3>2
    <3>5. p = q
      <4> HIDE DEF n, f, e, x, y, p, q
      <4> QED BY <3>2, <3>3, <3>4, OverlapShare
    <3> QED BY <3>5
  <2> HIDE DEF im, om
  <2> QED BY <2>2, <2>3
<1>7. v = w
  <2>1. v = [d \in TensorDim |-> v[d]] /\ w = [d \in TensorDim |-> w[d]]
    BY <1>4
  <2> QED BY <2>1, <1>6
<1> QED BY <1>2, <1>3, <1>7 DEF Joined

\* The dependencies of a task cover what it reads: along the tensor that joins two
\* operators the events are finer than the overlaps, and a barrier orders all else.
THEOREM ReadsInOrder == Spec => []ReadsCovered
<1>1. GraphInv => ReadsCovered
  <2> SUFFICES ASSUME GraphInv, built, NEW k \in DOMAIN graph, NEW in \in Range(graph[k].inputs),
                      SafelyRead(k, in), NEW p \in Task, NEW r \in Task,
                      TaskAt(p).op = k, TaskAt(r).op = in.tensor[1],
                      Overlap(k, in, TaskAt(p).bid, in.tensor[1],
                              graph[in.tensor[1]].outputs[in.tensor[2]], TaskAt(r).bid)
               PROVE  r \in Ancestors[p]
    BY DEF ReadsCovered
  <2> DEFINE j == in.tensor[1]
             out == graph[j].outputs[in.tensor[2]]
  <2>1. TasksOK /\ next = Len(graph) + 1 /\ graph \in Graphs
    BY DEF GraphInv, Complete, TasksOK
  <2>2. /\ Len(graph) \in Nat \ {0} /\ k \in 1 .. Len(graph) /\ j \in 1 .. k - 1
        /\ in.tensor[2] \in DOMAIN graph[j].outputs
    <3>1. Len(graph) \in Nat \ {0} /\ k \in 1 .. Len(graph)
      BY <2>1, GraphFacts
    <3>2. j \in 1 .. k - 1 /\ in.tensor[2] \in DOMAIN graph[j].outputs
      BY <2>1, <3>1, AccessFacts
    <3> QED BY <3>1, <3>2
  <2>3. k \in 2 .. Len(graph) /\ j \in 1 .. Len(graph)
    <3> HIDE DEF j
    <3> QED BY <2>2
  <2>4. /\ TaskAt(p).bid \in Blocks(graph[k]) /\ TaskAt(r).bid \in Blocks(graph[j])
    BY <2>1 DEF TasksOK
  <2>5. CASE j = k - 1 /\ in.map = JoinInput(k).map /\ out.map = JoinOutput(k).map
    <3>1. out \in Range(graph[j].outputs)
      BY <2>1, <2>2, <2>3, AccessFacts
    <3>2. Joined(k, TaskAt(r).bid, TaskAt(p).bid)
      <4>1. out \in Range(graph[k - 1].outputs) /\ TaskAt(r).bid \in Blocks(graph[k - 1])
        BY <2>4, <2>5, <3>1
      <4>2. Overlap(k, in, TaskAt(p).bid, k - 1, out, TaskAt(r).bid)
        BY <2>5
      <4> HIDE DEF out, j
      <4> QED BY <2>1, <2>3, <2>4, <2>5, <4>1, <4>2, OverlapJoined
    <3>3. r \in WaitsFor(p)
      BY <2>3, <2>5, <3>2, Neighbours
    <3> QED BY <3>3, ComesAfter
  <2>6. CASE \E m \in j + 1 .. k : Barrier(m)
    <3>1. PICK m \in j + 1 .. k : Barrier(m)
      BY <2>6
    <3>2. m \in 2 .. Len(graph) /\ j < m /\ k >= m
      <4> HIDE DEF j
      <4> QED BY <2>2, <2>3
    <3> QED BY <3>1, <3>2, BehindBarrier
  <2> QED BY <2>5, <2>6 DEF SafelyRead
<1> QED BY <1>1, GraphInvariant, PTL
================================================================================
