--------------------------------- MODULE Sums ---------------------------------
(***************************************************************************)
(* Sums of numbers that are kept in tables, as the size of a disjoint      *)
(* union: each key with as many numbers as it counts. Facts about sizes of *)
(* finite sets are then facts about sums, without an induction on the      *)
(* keys.                                                                   *)
(***************************************************************************)
EXTENDS Integers, FiniteSets

\* The sum of the counts of some keys.
SumOver(count, keys) == Cardinality(UNION {{k} \X (1..count[k]) : k \in keys})

SumOf(count) == SumOver(count, DOMAIN count)
===============================================================================
