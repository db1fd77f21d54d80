----------------------------- MODULE HailDisclosure -----------------------------
(***************************************************************************)
(* What the API tells of a hail, and to whom. The four answers that show   *)
(* one (GET and PUT /hails/:id with the request sent to the operator, GET  *)
(* /hails, GET /sessions) and the two that show its taxi (GET /taxis, GET  *)
(* /taxis/:id) each have their own copy of the rules for the taxi's        *)
(* identifier and its operator, so each copy is an operator of its own     *)
(* here; one function of the code hides the phone numbers. They depend on  *)
(* the hail's status and on the user that asks.                            *)
(***************************************************************************)
EXTENDS HailDispatch

\* A user, as the rules see him: his roles, and what he is to the hail.
User == {u \in [admin : BOOLEAN, moteur : BOOLEAN, operateur : BOOLEAN,
                addedIt : BOOLEAN, operatesIt : BOOLEAN] :
            /\ u.admin \/ u.moteur \/ u.operateur
            /\ u.addedIt => u.moteur \/ u.admin          \* POST /hails
            /\ u.operatesIt => u.operateur \/ u.admin}   \* POST /taxis

\* `current_user` in a Celery task, where nobody is logged in.
Nobody == [admin |-> FALSE, moteur |-> FALSE, operateur |-> FALSE,
           addedIt |-> FALSE, operatesIt |-> FALSE]

\* The settings, as they are in production or not.
Settings == [fakeTaxiId : BOOLEAN, neutralOperator : BOOLEAN]

\* hide_phone_numbers, which is called for a hail and for one of a session.
PhonesAreShown(u, st) == st = "accepted_by_customer" \/ (u # Nobody /\ u.admin)

-------------------------------------------------------------------------------
(* HailSchema: GET and PUT /hails/:id, and the request to the operator *)

InProgress(st) == st \in HAIL_ACTIVE_STATUS

\* Mutant: as upstream, for as long as the hail is in progress.
SharedInProgress(st) == st \in HAIL_ACTIVE_STATUS

\* The exact position: once the customer has committed, until pickup.
PositionIsShared(st) == st = "accepted_by_customer"

\* Licence plate, colour and the driver's name.
VehicleIsShared(st) ==
    st \in {"accepted_by_taxi", "accepted_by_customer", "customer_on_board"}

HailTaxiId(u, set) ==
    IF set.fakeTaxiId /\ u # Nobody /\ ~u.admin /\ ~u.operatesIt
    THEN "fake_taxi_id" ELSE "id"

HailOperator(u, set) ==
    IF set.neutralOperator /\ u # Nobody /\ ~u.admin /\ ~u.operatesIt
    THEN "NEUTRAL_OPERATOR" ELSE "email"

\* Of a hail whose taxi has a position.
HailAnswer(u, st, set) ==
    [taxi |-> HailTaxiId(u, set), operateur |-> HailOperator(u, set),
     phones |-> PhonesAreShown(u, st), position |-> PositionIsShared(st),
     distance |-> InProgress(st), vehicle |-> VehicleIsShared(st)]

\* What the task sends: the same schema without a user, and without the
\* position and the vehicle's description.
TaskAnswer(st, set) ==
    [HailAnswer(Nobody, st, set) EXCEPT
        !.position = FALSE, !.distance = FALSE, !.vehicle = FALSE]

-------------------------------------------------------------------------------
(* HailListSchema: GET /hails *)

ListTaxiId(u, set) ==
    IF set.fakeTaxiId /\ u # Nobody /\ ~u.admin /\ ~u.operatesIt
    THEN "fake_taxi_id" ELSE "id"

\* Mutant: the list compares the user with the company that placed the hail.
ListOperatorForOthers(u, set) ==
    IF set.neutralOperator /\ u # Nobody /\ ~u.admin /\ ~u.addedIt
    THEN "NEUTRAL_OPERATOR" ELSE "email"

ListOperator(u, set) ==
    IF set.neutralOperator /\ u # Nobody /\ ~u.admin /\ ~u.operatesIt
    THEN "NEUTRAL_OPERATOR" ELSE "email"

ListAnswer(u, set) ==
    [taxi |-> ListTaxiId(u, set), operateur |-> ListOperator(u, set)]

-------------------------------------------------------------------------------
(* HailBySessionSchema: GET /sessions *)

SessionTaxiId(u, set) ==
    IF set.fakeTaxiId /\ u # Nobody /\ ~u.admin /\ ~u.operatesIt
    THEN "fake_taxi_id" ELSE "id"

\* The operator's address and commercial name.
SessionOperator(u, set) ==
    IF set.neutralOperator /\ u # Nobody /\ ~u.admin /\ ~u.operatesIt
    THEN "NEUTRAL_OPERATOR" ELSE "email"

\* The operator's number and the taxi's first position are always there.
SessionAnswer(u, st, set) ==
    [taxi |-> SessionTaxiId(u, set), operateur |-> SessionOperator(u, set),
     phones |-> PhonesAreShown(u, st),
     operateur_id |-> TRUE, initial_position |-> TRUE]

-------------------------------------------------------------------------------
(* The taxi itself *)

\* SearchTaxiSchema: the search found the taxi for this user, who is not the
\* integration account. An operator's own taxi has no other name here.
SearchAnswer(u, set) ==
    [taxi |-> IF set.fakeTaxiId /\ u # Nobody /\ ~u.admin
              THEN "fake_taxi_id" ELSE "id",
     operateur |-> IF set.neutralOperator /\ u # Nobody /\ ~u.admin
                   THEN "NEUTRAL_OPERATOR" ELSE "email",
     licence_plate |-> u # Nobody /\ u.admin]

\* TaxiSchema, which only the operator that described the vehicle gets.
TaxiAnswer == [taxi |-> "id", operateur |-> "email"]

-------------------------------------------------------------------------------
(* Who gets them; `old` says that the hail is older than two months *)

\* GET and PUT /hails/:id, which join the hail with the description that its
\* operator has of the taxi's vehicle: without one it is not found.
MayRead(u, old, described) ==
    described /\ (u.admin \/ (~old /\ (u.operatesIt \/ u.addedIt)))

\* GET /hails, whose filter depends on the roles.
IsListed(u, old) ==
    \/ u.admin
    \/ ~old /\ u.moteur /\ u.addedIt
    \/ ~old /\ u.operateur /\ u.operatesIt

\* GET /sessions has no limit in time.
IsInSessions(u) == u.admin \/ (u.moteur /\ u.addedIt)

-------------------------------------------------------------------------------
(* Properties *)

\* "The exact position is the driver's. It is revealed only once the customer
\* has committed to the ride, and only for the approach." No sequence of
\* transitions and timeouts brings a hail that is past the approach back to
\* where its position is shown, or an ended one to where its vehicle is.
SharingEndsForGood ==
    \A h \in Hail :
        /\ [](status[h] \in HAIL_TERMINAL_STATUS \cup {"customer_on_board"}
                => []~PositionIsShared(status[h]))
        /\ [](status[h] \in HAIL_TERMINAL_STATUS => []~VehicleIsShared(status[h]))

Fits(answer, other) ==
    \A field \in DOMAIN other : field \in DOMAIN answer
                                    => answer[field] = other[field]

\* Whatever route a user takes to a hail, he meets the same hail: as long as the
\* taxi is described, he finds it in a list just when he may read it, and sees it
\* in its session only if he could; and the answers, though each schema has its
\* own rules, name the same taxi and operator and give the same numbers. The
\* operator's user sees what the request to the operator had said, under the
\* name its taxi has in /taxis; a client the taxi as the search had shown it.
ReadersAgree ==
    \A u \in User, set \in Settings, old \in BOOLEAN :
        /\ \A described \in BOOLEAN :
              MayRead(u, old, described) <=> described /\ IsListed(u, old)
        /\ IsInSessions(u) /\ ~old => MayRead(u, old, TRUE)
        /\ \A st \in {status[h] : h \in {g \in Hail : status[g] # "absent"}} :
              LET answer == HailAnswer(u, st, set) IN
              /\ Fits(answer, ListAnswer(u, set))
              /\ Fits(answer, SessionAnswer(u, st, set))
              /\ ~u.operatesIt \/ u.admin => Fits(answer, SearchAnswer(u, set))
              /\ u.operatesIt => Fits(answer, TaxiAnswer)
              /\ u.operatesIt /\ ~u.admin =>
                    \A field \in {"taxi", "operateur", "phones"} :
                        answer[field] = TaskAnswer(st, set)[field]
===============================================================================
