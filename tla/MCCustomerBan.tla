----------------------------- MODULE MCCustomerBan -----------------------------
(***************************************************************************)
(* Instances of CustomerBan for TLC.                                       *)
(***************************************************************************)
EXTENDS CustomerBan, TLC

BothFields == {{"begin", "end"}}

Symmetry == Permutations(Reportable) \cup Permutations(Request)
===============================================================================
