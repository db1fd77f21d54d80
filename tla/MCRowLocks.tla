------------------------------ MODULE MCRowLocks ------------------------------
(***************************************************************************)
(* Instances of RowLocks for TLC. Customers place the first two hails; the *)
(* third is left to a redistribution, and is not followed further.         *)
(***************************************************************************)
EXTENDS RowLocks, TLC

TwoHails == {"create", "reassign", "change", "send"} \X {1, 2}

Symmetry == Permutations(Taxi) \cup Permutations(Session)
===============================================================================
