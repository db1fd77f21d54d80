---------------------------- MODULE MCHailDispatch ----------------------------
(***************************************************************************)
(* Instances of HailDispatch for TLC, with what its hails disclose: taxis  *)
(* with a vehicle each, which has one description.                         *)
(***************************************************************************)
EXTENDS HailDisclosure, TLC

\* Every taxi has a vehicle of its own, described by its own operator only.
OwnVehicles == [t \in Taxi |-> t]
OneDescription == [t \in Taxi |-> {t}]

Symmetry == Permutations(Taxi) \cup Permutations(Session)
===============================================================================
