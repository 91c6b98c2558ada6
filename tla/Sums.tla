-------------------------------- MODULE Sums --------------------------------
(***************************************************************************)
(* The sum of the natural numbers f[x] over x in S, as the number of units *)
(* they count: x contributes the pairs <<x, 1>> to <<x, f[x]>>.            *)
(***************************************************************************)
EXTENDS Naturals, FiniteSets

Units(f, S) == UNION {{x} \X (1 .. f[x]) : x \in S}

Sum(f, S) == Cardinality(Units(f, S))

=============================================================================
