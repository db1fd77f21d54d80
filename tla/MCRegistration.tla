---------------------------- MODULE MCRegistration ----------------------------
(***************************************************************************)
(* Instances of Registration for TLC: the operators share a vehicle.       *)
(***************************************************************************)
EXTENDS Registration

CONSTANTS plate, d974

SharedPlate == [o \in Operator |-> plate]

Reunion == [o \in Operator |-> {d974}]
===============================================================================
