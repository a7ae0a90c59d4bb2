-------------------------------- MODULE Sums --------------------------------
(* The sum of a function, or a sequence, of natural numbers.                *)
EXTENDS Integers, FiniteSets

\* Everything that f counts, one by one.
Units(f) == UNION {{i} \X (1..f[i]) : i \in DOMAIN f}

Total(f) == Cardinality(Units(f))
=============================================================================
