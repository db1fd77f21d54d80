------------------------------ MODULE HailStatus ------------------------------
(***************************************************************************)
(* The constant tables of the hail state machine: the statuses of a hail   *)
(* and of a vehicle description, the transitions a user may ask for, their *)
(* effect on the taxi, and what a timeout turns each waiting status into.  *)
(***************************************************************************)

HAIL_TERMINAL_STATUS ==
    {"failure", "declined_by_taxi", "incident_taxi", "timeout_taxi",
     "declined_by_customer", "incident_customer", "timeout_customer",
     "timeout_accepted_by_customer", "finished"}

HAIL_ACTIVE_STATUS ==
    {"received", "sent_to_operator", "received_by_operator",
     "received_by_taxi", "accepted_by_taxi", "accepted_by_customer",
     "customer_on_board"}

HAIL_STATUS == HAIL_ACTIVE_STATUS \cup HAIL_TERMINAL_STATUS

UPDATABLE_VEHICLE_STATUS == {"free", "occupied", "off"}

VEHICLE_STATUS == UPDATABLE_VEHICLE_STATUS \cup {"answering", "oncoming"}

ROLES == {"moteur", "operateur", "admin"}

DRIVER_REASSIGNABLE_STATUSES == {"declined_by_taxi", "timeout_taxi"}

-------------------------------------------------------------------------------

\* The rows <<from, to, role>> of the permission table.
TRANSITIONS ==
    {"received", "sent_to_operator", "received_by_operator",
     "received_by_taxi", "accepted_by_taxi"}
        \X {"declined_by_customer"} \X {"moteur"}
    \cup {"received_by_taxi", "accepted_by_taxi", "accepted_by_customer",
          "customer_on_board"}
        \X {"incident_customer"} \X {"moteur"}
    \cup {"received_by_taxi", "accepted_by_taxi", "accepted_by_customer",
          "customer_on_board"}
        \X {"incident_taxi"} \X {"operateur"}
    \cup {<<"received_by_operator", "received_by_taxi", "operateur">>,
          <<"received_by_taxi", "accepted_by_taxi", "operateur">>,
          <<"received_by_taxi", "declined_by_taxi", "operateur">>,
          <<"accepted_by_taxi", "accepted_by_customer", "moteur">>,
          <<"accepted_by_customer", "customer_on_board", "operateur">>,
          <<"customer_on_board", "finished", "operateur">>}

\* The user holding `role` may ask for the transition; an admin may always.
Permitted(from, to, role) ==
    \E tr \in TRANSITIONS :
        /\ tr[1] = from
        /\ tr[2] = to
        /\ role \in {tr[3], "admin"}

\* The taxi's status once a user moved its hail to `new`; most keep the old one.
TaxiStatusAfter(new, old) ==
    CASE new = "accepted_by_customer" -> "oncoming"
      [] new = "customer_on_board" -> "occupied"
      [] new \in {"declined_by_customer", "declined_by_taxi", "incident_taxi",
                  "incident_customer", "finished"} -> "free"
      [] OTHER -> old

-------------------------------------------------------------------------------

TIMEOUTS_BY_STATUS ==
    {[on |-> "received_by_operator", hail |-> "failure", taxi |-> "free"],
     [on |-> "received_by_taxi", hail |-> "timeout_taxi", taxi |-> "occupied"],
     [on |-> "accepted_by_taxi", hail |-> "timeout_customer", taxi |-> "free"],
     [on |-> "accepted_by_customer",
         hail |-> "timeout_accepted_by_customer", taxi |-> "occupied"],
     [on |-> "customer_on_board", hail |-> "timeout_taxi", taxi |-> "off"]}

\* Mutant: nothing watches over the ride itself.
TimedUntilOnBoard ==
    {"received_by_operator", "received_by_taxi", "accepted_by_taxi",
     "accepted_by_customer"}

\* Mutant: the driver's answer is not waited for.
TimedButAnswer ==
    {"received_by_operator", "accepted_by_taxi", "accepted_by_customer",
     "customer_on_board"}

TimedStatus ==
    {"received_by_operator", "received_by_taxi", "accepted_by_taxi",
     "accepted_by_customer", "customer_on_board"}
===============================================================================
