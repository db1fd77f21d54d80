------------------------------ MODULE MCRetention -----------------------------
(***************************************************************************)
(* Instances of Retention for TLC.                                         *)
(***************************************************************************)
EXTENDS Retention

EveryOperator == Taxi \X Operator

\* The customer of the first hail stood in no town.
OneAtSea == {<<1, "customer">>}
===============================================================================
