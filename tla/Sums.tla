-------------------------------- MODULE Sums --------------------------------
(***************************************************************************)
(* The sum of the values of a function into the natural numbers, counted:  *)
(* f[x] pairs for every x of its domain.                                   *)
(***************************************************************************)
EXTENDS Naturals, FiniteSets

Units(f) == UNION {{x} \X (1..f[x]) : x \in DOMAIN f}

SumOf(f) == Cardinality(Units(f))
=============================================================================
