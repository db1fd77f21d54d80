------------------------------- MODULE MCBackups -------------------------------
(***************************************************************************)
(* Instance of Backups for TLC: three backups, over as many days, with two *)
(* archives to a pull.                                                     *)
(***************************************************************************)
EXTENDS Backups
===============================================================================
