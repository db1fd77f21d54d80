------------------------------ MODULE MCStatistics -----------------------------
(***************************************************************************)
(* Instances of Statistics for TLC: towns of two departements, a hail that *)
(* was put there by hand and is in no town, statuses that end a hail and   *)
(* one that does not, two operators, and the ends of months and of a year. *)
(***************************************************************************)
EXTENDS Statistics, TLC

CONSTANTS t1, t2, h1, h2, o1, o2, m1, c1

Paris1 == <<7, 5, 1, 0, 1>>
Paris2 == <<7, 5, 1, 0, 2>>
Lyon == <<6, 9, 1, 2, 3>>

Places == (t1 :> Paris1) @@ (t2 :> Lyon) @@ (h1 :> Paris2) @@ (h2 :> None)
Operators == (t1 :> o1) @@ (t2 :> o2) @@ (h1 :> o1) @@ (h2 :> o2)
Statuses == (h1 :> {"timeout_taxi", "declined_by_taxi"}) @@
            (h2 :> {"declined_by_taxi", "accepted_by_customer"})
TaxisOf == (h1 :> t1) @@ (h2 :> None)
Distances == (h1 :> 3) @@ (h2 :> None)
Radii == (<<t1, o1>> :> 2) @@ (<<t1, o2>> :> None) @@ (<<t2, o2>> :> 5)
Towns == (c1 :> {Paris1, Paris2})
Managers == (o1 :> m1) @@ (o2 :> None)
Departements == {<<7, 5>>, <<6, 9>>, <<9, 7, 4>>}

MonthEnds == {<<2023, 1, 31>>, <<2024, 2, 29>>, <<2024, 5, 31>>}
Beginning == <<2022, 1, 1>>
===============================================================================
