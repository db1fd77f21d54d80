------------------------------ MODULE TaxiBooking ------------------------------
(***************************************************************************)
(* What hail dispatch promises: a taxi serves one hail at a time. Each     *)
(* taxi has one slot. A hail takes an empty slot, keeps it, and leaves it  *)
(* empty: a slot never passes from one hail to another in one step, and no *)
(* hail holds two.                                                         *)
(***************************************************************************)
CONSTANTS Taxi, Hail, None

VARIABLE slot  \* the hail the taxi is serving, or None

Init == slot = [t \in Taxi |-> None]

Book(t, h) ==
    /\ slot[t] = None
    /\ \A u \in Taxi : slot[u] # h
    /\ slot' = [slot EXCEPT ![t] = h]

Release(t) ==
    /\ slot[t] # None
    /\ slot' = [slot EXCEPT ![t] = None]

Next ==
    \/ \E t \in Taxi, h \in Hail : Book(t, h)
    \/ \E t \in Taxi : Release(t)

Spec == Init /\ [][Next]_slot
===============================================================================
