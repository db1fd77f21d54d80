------------------------------ MODULE MCPositions -----------------------------
(***************************************************************************)
(* Instance of ActiveTaxis for TLC: a taxi of one operator whose vehicle   *)
(* both operators described.                                               *)
(***************************************************************************)
EXTENDS ActiveTaxis, FiniteSetsExt

CONSTANTS t1, t2, o1, o2

OwnedByFirst == [t \in Taxi |-> o1]
EveryOperator == Taxi \X Operator
OneTown == [t \in Taxi |-> "town"]
Towns == [z \in Zupc |-> {"town"}]

\* The sums of Sums are what one takes for a sum.
ASSUME SumsAreSums ==
    \A keys \in SUBSET (1..3) : \A count \in [keys -> 0..3] :
        SumOf(count) = MapThenSumSet(LAMBDA k : count[k], keys)
===============================================================================
