-------------------------- MODULE MCCustomerSearch -------------------------
(***************************************************************************)
(* Instances of CustomerSearch for TLC.                                    *)
(***************************************************************************)
EXTENDS CustomerSearch, TLC

Symmetry == Permutations(Taxi) \cup Permutations(Search) \cup Permutations(Request)
                \cup Permutations(Moteur)
===============================================================================
