----------------------------- MODULE SumTheorems ----------------------------
(***************************************************************************)
(* What a sum becomes when a member joins or leaves, when the number of a  *)
(* member changes, and when all numbers grow.  A sum is only worth its     *)
(* name when its units are finitely many, which each lemma passes on.      *)
(***************************************************************************)
EXTENDS Sums, Integers, FiniteSetTheorems, TLAPS

\* The units of a sum.
LEMMA UnitsAre ==
  ASSUME NEW f, NEW S
  PROVE  \A u : u \in Units(f, S) <=> \E x \in S : \E i \in 1 .. f[x] : u = <<x, i>>
BY DEF Units

\* The sum over nothing, or of zeros.
LEMMA SumZero ==
  ASSUME NEW f, NEW S, \A x \in S : f[x] = 0
  PROVE  IsFiniteSet(Units(f, S)) /\ Sum(f, S) = 0
<1>1. Units(f, S) = {}
  BY UnitsAre
<1> QED
  BY <1>1, FS_EmptySet DEF Sum

\* A sum depends on the numbers of the members only.
LEMMA SumSame ==
  ASSUME NEW f, NEW g, NEW S, \A x \in S : f[x] = g[x]
  PROVE  Units(f, S) = Units(g, S) /\ Sum(f, S) = Sum(g, S)
<1>1. \A x \in S : {x} \X (1 .. f[x]) = {x} \X (1 .. g[x])
  OBVIOUS
<1>2. Units(f, S) = Units(g, S)
  BY <1>1 DEF Units
<1> QED
  BY <1>2 DEF Sum

\* A sum is a natural number.
LEMMA SumType ==
  ASSUME NEW f, NEW S, IsFiniteSet(Units(f, S))
  PROVE  Sum(f, S) \in Nat
BY FS_CardinalityType DEF Sum

\* Two sets with nothing in common.
LEMMA DisjointUnion ==
  ASSUME NEW U, NEW N, IsFiniteSet(U), IsFiniteSet(N), N \cap U = {}
  PROVE  /\ IsFiniteSet(U \cup N)
         /\ Cardinality(U \cup N) = Cardinality(U) + Cardinality(N)
<1>1. U \cap N = {}
  OBVIOUS
<1>2. IsFiniteSet(U \cup N)
      /\ Cardinality(U \cup N) = Cardinality(U) + Cardinality(N) - Cardinality(U \cap N)
  BY FS_Union
<1>3. Cardinality(U) \in Nat /\ Cardinality(N) \in Nat /\ Cardinality(U \cap N) = 0
  BY <1>1, FS_CardinalityType, FS_EmptySet
<1> QED
  BY <1>2, <1>3

\* n units of x, after the first m.
Block(x, m, n) == {x} \X (m + 1 .. m + n)

\* A block of n units has n units.
LEMMA UnitsOfOne ==
  ASSUME NEW x, NEW m \in Nat, NEW n \in Nat
  PROVE  IsFiniteSet(Block(x, m, n)) /\ Cardinality(Block(x, m, n)) = n
<1>1. IsFiniteSet(m + 1 .. m + n) /\ Cardinality(m + 1 .. m + n) = n
  BY FS_Interval
<1>2. IsFiniteSet({x}) /\ Cardinality({x}) = 1
  BY FS_Singleton
<1>3. IsFiniteSet(Block(x, m, n)) /\ Cardinality(Block(x, m, n)) = 1 * n
  BY <1>1, <1>2, FS_Product DEF Block
<1> QED
  BY <1>3

\* The number of one member grows by n.
LEMMA SumGrows ==
  ASSUME NEW f, NEW g, NEW S, NEW x \in S, NEW n \in Nat,
         f[x] \in Nat, g[x] = f[x] + n, \A y \in S \ {x} : g[y] = f[y],
         IsFiniteSet(Units(f, S))
  PROVE  IsFiniteSet(Units(g, S)) /\ Sum(g, S) = Sum(f, S) + n
<1> DEFINE N == Block(x, f[x], n)
<1>1. Units(g, S) = Units(f, S) \cup N
  <2>1. \A i : i \in 1 .. g[x] <=> i \in 1 .. f[x] \/ i \in f[x] + 1 .. f[x] + n
    OBVIOUS
  <2> QED
    BY <2>1, UnitsAre DEF Block
<1>2. N \cap Units(f, S) = {}
  BY UnitsAre DEF Block
<1>3. IsFiniteSet(N) /\ Cardinality(N) = n
  BY UnitsOfOne
<1> HIDE DEF N
<1> QED
  BY <1>1, <1>2, <1>3, DisjointUnion DEF Sum

\* A member joins.
LEMMA SumAdd ==
  ASSUME NEW f, NEW S, NEW x, x \notin S, f[x] \in Nat, IsFiniteSet(Units(f, S))
  PROVE  /\ IsFiniteSet(Units(f, S \cup {x}))
         /\ Sum(f, S \cup {x}) = Sum(f, S) + f[x]
<1> DEFINE N == Block(x, 0, f[x])
<1>1. Units(f, S \cup {x}) = Units(f, S) \cup N
  BY UnitsAre DEF Block
<1>2. N \cap Units(f, S) = {}
  BY UnitsAre DEF Block
<1>3. IsFiniteSet(N) /\ Cardinality(N) = f[x]
  BY UnitsOfOne
<1> HIDE DEF N
<1> QED
  BY <1>1, <1>2, <1>3, DisjointUnion DEF Sum

\* Fewer members with smaller numbers have a smaller sum.
LEMMA SumMonotone ==
  ASSUME NEW f, NEW g, NEW S, NEW T, S \subseteq T,
         \A x \in S : f[x] \in Int /\ g[x] \in Int /\ f[x] <= g[x],
         IsFiniteSet(Units(g, T))
  PROVE  IsFiniteSet(Units(f, S)) /\ Sum(f, S) <= Sum(g, T)
<1>1. Units(f, S) \subseteq Units(g, T)
  BY UnitsAre
<1> QED
  BY <1>1, FS_Subset DEF Sum

\* A member leaves.
LEMMA SumRemove ==
  ASSUME NEW f, NEW S, NEW x \in S, \A y \in S : f[y] \in Nat, IsFiniteSet(Units(f, S))
  PROVE  /\ IsFiniteSet(Units(f, S \ {x}))
         /\ Sum(f, S \ {x}) = Sum(f, S) - f[x]
         /\ f[x] <= Sum(f, S)
<1>1. IsFiniteSet(Units(f, S \ {x}))
  BY SumMonotone
<1>2. Sum(f, (S \ {x}) \cup {x}) = Sum(f, S \ {x}) + f[x]
  BY <1>1, SumAdd
<1>3. (S \ {x}) \cup {x} = S
  OBVIOUS
<1>4. Sum(f, S \ {x}) \in Nat /\ f[x] \in Nat
  BY <1>1, SumType
<1>5. Sum(f, S) = Sum(f, S \ {x}) + f[x]
  BY <1>2, <1>3
<1> HIDE DEF Sum, Units
<1> QED
  BY <1>1, <1>4, <1>5

\* The sum over one member.
LEMMA SumOne ==
  ASSUME NEW f, NEW x, f[x] \in Nat
  PROVE  Sum(f, {x}) = f[x]
<1>1. IsFiniteSet(Units(f, {})) /\ Sum(f, {}) = 0
  BY SumZero
<1>2. Sum(f, {} \cup {x}) = Sum(f, {}) + f[x]
  BY <1>1, SumAdd
<1>3. {} \cup {x} = {x}
  OBVIOUS
<1> QED
  BY <1>1, <1>2, <1>3

\* The number of x grows by n, whether x is a member or not.
LEMMA SumBump ==
  ASSUME NEW f, NEW g, NEW S, NEW x, NEW n \in Nat,
         f[x] \in Nat, g[x] = f[x] + n, \A y \in S \ {x} : g[y] = f[y],
         IsFiniteSet(Units(f, S))
  PROVE  /\ IsFiniteSet(Units(g, S))
         /\ Sum(g, S) = Sum(f, S) + (IF x \in S THEN n ELSE 0)
<1>1. CASE x \in S
  BY <1>1, SumGrows
<1>2. CASE x \notin S
  <2>1. \A y \in S : f[y] = g[y]
    BY <1>2
  <2>2. Units(f, S) = Units(g, S) /\ Sum(f, S) = Sum(g, S)
    BY <2>1, SumSame
  <2>3. Sum(f, S) \in Nat
    BY SumType
  <2> QED
    BY <1>2, <2>2, <2>3
<1> QED
  BY <1>1, <1>2

\* A set of numbers has a least one.
LEMMA LeastOf ==
  ASSUME NEW T, T \subseteq Nat, T # {}
  PROVE  \E x \in T : \A y \in T : x <= y
<1>1. PICK x \in T : \A y \in T : ~(<<y, x>> \in OpToRel(<, Nat))
  BY NatLessThanWellFounded, WFMin
<1>2. \A y \in T : ~(y < x)
  BY <1>1 DEF OpToRel
<1> QED
  BY <1>2

=============================================================================
