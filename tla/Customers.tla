------------------------------- MODULE Customers -------------------------------
(***************************************************************************)
(* What CustomerSearch and CustomerBan have in common: requests that are   *)
(* under way at once and take the time from one clock, the one that stands *)
(* for the clocks of the database and of Redis.                            *)
(***************************************************************************)
EXTENDS Integers

CONSTANTS
    Request,        \* requests under way at once
    MaxTime,        \* bound: the clock stops there
    None

ASSUME CustomersAssumption ==
    /\ MaxTime \in Nat
    /\ None \notin Nat

Time == 0..MaxTime

VARIABLE now        \* the clock
===============================================================================
