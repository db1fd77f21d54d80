--------------------------- MODULE MCPostgresCutover ---------------------------
(***************************************************************************)
(* Instance of PostgresCutover for TLC: one archive reviewed, one frozen.  *)
(***************************************************************************)
EXTENDS PostgresCutover
===============================================================================
