------------------------------ MODULE Registration ------------------------------
(***************************************************************************)
(* An operator registers an ADS, a driver and a vehicle with its own       *)
(* description, then the taxi they make. Each POST reads what exists, then *)
(* inserts or updates and commits: two steps, between which another        *)
(* request, or the deletion of orphan rows by the daily task, may commit.  *)
(* Nothing locks what was read; unique and foreign keys are all that       *)
(* stands in the way.                                                      *)
(***************************************************************************)
EXTENDS Integers, FiniteSets

CONSTANTS
    Operator,
    Plate,          \* [Operator -> licence plate of its vehicle]
    KnownTown,      \* operators whose ADS has an INSEE code of the table town
    Veteran,        \* one of these registered its taxi more than a year ago, or none
    Departements,   \* [Operator -> those the nom and numero of its driver match]
    NamesVehicle,   \* environment: operators whose ADS name their vehicle
    Impatient,      \* environment: operators who ask again before the answer
    Worker,         \* requests served at once
    None

Part == {"ads", "driver", "vehicle"}    \* what an operator posts before a taxi
Kind == Part \cup {"description", "taxi"}

ASSUME RegistrationAssumption ==
    /\ KnownTown \subseteq Operator /\ Impatient \subseteq Operator
    /\ \A o \in Operator : IsFiniteSet(Departements[o])
    /\ Veteran \subseteq KnownTown
    /\ None \notin Operator \cup Worker

VARIABLES
    rows,       \* the five tables
    last,       \* per table, the last id given
    request,    \* per worker: what the request under way has read
    told,       \* per operator: which of its posts were answered 200 or 201
    clean,      \* delete_old_orphans: the table it is at, the ids it has read
    exposed     \* history: taxis inserted across a deletion of descriptions

vars == <<rows, last, request, told, clean, exposed>>

\* refs are the foreign keys of a row, <<kind, id>> of others; key and by are
\* unique in each table: a description's key is its vehicle, a taxi's are the
\* three rows it is made of.
Row(kind, id, key, by, refs) ==
    [kind |-> kind, id |-> id, key |-> key, by |-> by, refs |-> refs, old |-> FALSE]

Id(r) == <<r.kind, r.id>>
Ids(S) == {Id(r) : r \in S}
Rows(kind) == {r \in rows : r.kind = kind}
IsThere(id) == id \in Ids(rows)

TypeOK ==
    /\ \A r \in rows :
            /\ r.kind \in Kind /\ r.id \in 1..last[r.kind]
            /\ r.by \in Operator \cup {None} /\ r.old \in BOOLEAN
            /\ {x[1] : x \in r.refs} =
                    CASE r.kind = "taxi" -> Part
                      [] r.kind = "description" -> {"vehicle"}
                      [] r.kind = "ads" /\ r.refs # {} -> {"vehicle"}
                      [] OTHER -> {}
            /\ \A x \in r.refs : IsThere(x)
    /\ last \in [Kind -> Nat]
    /\ \A w \in Worker : request[w] = None \/ request[w].kind \in Part \cup {"taxi"}
    /\ told \in [Operator -> SUBSET (Part \cup {"taxi"})]
    /\ clean = None \/ clean.kind \in {"driver", "ads", "description"}
    /\ exposed \subseteq {"taxi"} \X Nat

\* What an operator registered more than a year ago.
Registered(o) ==
    LET driver == Row("driver", 1, o, o, {})
        vehicle == Row("vehicle", 1, Plate[o], None, {})
        ads == Row("ads", 1, o, o, {})
        parts == Ids({driver, vehicle, ads})
    IN {[r EXCEPT !.old = TRUE] :
            r \in {driver, vehicle, ads,
                   Row("description", 1, {Id(vehicle)}, o, {Id(vehicle)}),
                   Row("taxi", 1, parts, o, parts)}}

Init ==
    /\ rows \in {{}} \cup {Registered(o) : o \in Veteran}
    /\ last = [k \in Kind |-> IF rows = {} THEN 0 ELSE 1]
    /\ request = [w \in Worker |-> None]
    /\ told = [o \in Operator |-> {}]
    /\ clean = None
    /\ exposed = {}

\* An operator posts what it has no good answer for yet, in this order.
Order == <<"driver", "vehicle", "ads", "taxi">>

Wants(o, kind) ==
    \E i \in 1..4 : /\ Order[i] = kind
                    /\ told[o] = {Order[j] : j \in 1..(i - 1)}

-------------------------------------------------------------------------------
(* POST /ads, /drivers, /vehicles and /taxis, up to the first write *)

Found(kind, key, by) == {r \in Rows(kind) : r.key = key /\ r.by = by}

Vehicle(o) == Found("vehicle", Plate[o], None)
Description(o) ==
    IF Vehicle(o) = {} THEN {} ELSE Found("description", Ids(Vehicle(o)), o)

\* What the request will update or answer with, if there is any; what it will
\* refer to; the description it has seen.
Serve(w, o, kind, found, refs, description) ==
    /\ request[w] = None
    /\ request' = [request EXCEPT ![w] =
            [kind |-> kind, by |-> o, found |-> Ids(found), refs |-> refs,
             description |-> Ids(description)]]
    /\ UNCHANGED <<rows, last, told, clean, exposed>>

\* The vehicle is optional, and then one its operator has described.
VehicleIsKnown(o) == o \in NamesVehicle => Description(o) # {}

PostAds(w, o) ==
    /\ o \in KnownTown /\ VehicleIsKnown(o)
    /\ Serve(w, o, "ads", Found("ads", o, o),
             IF o \in NamesVehicle THEN Ids(Vehicle(o)) ELSE {}, {})

\* None matches: 404. More than one does: 409.
PostDriver(w, o) ==
    /\ Cardinality(Departements[o]) = 1
    /\ Serve(w, o, "driver", Found("driver", o, o), {}, {})

PostVehicle(w, o) ==
    Serve(w, o, "vehicle", Vehicle(o), {}, Description(o))

Parts(o) == Found("ads", o, o) \cup Found("driver", o, o) \cup Vehicle(o)

TaxiCanBeMade(o) == Cardinality(Parts(o)) = 3 /\ Description(o) # {}

PostTaxi(w, o) ==
    /\ TaxiCanBeMade(o)
    /\ Serve(w, o, "taxi", Found("taxi", Ids(Parts(o)), o), Ids(Parts(o)), Description(o))

\* 404, of the vehicle or of any part: its operator begins again.
IsRefused(o) ==
    /\ \/ Wants(o, "ads") /\ ~VehicleIsKnown(o)
       \/ Wants(o, "taxi") /\ ~TaxiCanBeMade(o)
    /\ told' = [told EXCEPT ![o] = {}]
    /\ UNCHANGED <<rows, last, request, clean, exposed>>

-------------------------------------------------------------------------------
(* The writes, and the commit that ends the transaction *)

Fresh(kind, key, by, refs) == Row(kind, last[kind] + 1, key, by, refs)

\* Mutant: a vehicle that exists is left as it is.
VehicleRowsOnce(q) ==
    LET new == Fresh("vehicle", Plate[q.by], None, {}) IN
    IF q.found # {} THEN {}
                    ELSE {new, Fresh("description", {Id(new)}, q.by, {Id(new)})}

\* A vehicle nobody knew, and its description; the description of a known one.
VehicleRows(q) ==
    LET new == Fresh("vehicle", Plate[q.by], None, {})
        vehicle == IF q.found = {} THEN {Id(new)} ELSE q.found
    IN (IF q.found = {} THEN {new} ELSE {})
       \cup (IF q.description = {}
             THEN {Fresh("description", vehicle, q.by, vehicle)} ELSE {})

Inserted(q) ==
    CASE q.kind = "vehicle" -> VehicleRows(q)
      [] q.found # {} -> {}
      [] q.kind = "taxi" -> {Fresh("taxi", q.refs, q.by, q.refs)}
      [] OTHER -> {Fresh(q.kind, q.by, q.by, q.refs)}

\* POST /vehicles updates the description, the others what they found, except
\* that POST /taxis only answers with it.
Updated(q) ==
    CASE q.kind = "vehicle" -> q.description
      [] q.kind = "taxi" -> {}
      [] OTHER -> q.found

WithVehicle(r, q) ==
    IF q.kind = "ads" /\ Id(r) \in q.found THEN [r EXCEPT !.refs = q.refs] ELSE r

\* Mutant: unique_ads and unique_driver are missing.
UniqueButParts(r) ==
    r.kind \in Part \/ ~\E s \in Rows(r.kind) : s.key = r.key /\ s.by = r.by

\* unique_ads, unique_driver, unique_vehicle, uq_vehicle_description, unique_taxi
Unique(r) == ~\E s \in Rows(r.kind) : s.key = r.key /\ s.by = r.by

\* To rows that are there, or inserted along with it.
RefersToRows(r) == \A x \in r.refs : IsThere(x) \/ x[2] > last[x[1]]

\* Another request inserted the row meanwhile, or a row it refers to is gone.
CanCommit(q) == \A r \in Inserted(q) : Unique(r) /\ RefersToRows(r)

\* The row to update is gone: an error, unless no column has changed.
UpdateIsLost(q) == \E x \in Updated(q) : ~IsThere(x)

\* The description of a new taxi is neither referred to nor written.
IsExposed(q) ==
    \E x \in q.description :
        \/ ~IsThere(x)
        \/ clean # None /\ x \in clean.ids

Commits(w) ==
    /\ request[w] # None
    /\ CanCommit(request[w])
    /\ LET q == request[w] IN
        /\ rows' = {WithVehicle(r, q) : r \in rows} \cup Inserted(q)
        /\ last' = [k \in Kind |->
                        IF \E r \in Inserted(q) : r.kind = k THEN last[k] + 1 ELSE last[k]]
        /\ told' = [told EXCEPT ![q.by] = IF Wants(q.by, q.kind) THEN @ \cup {q.kind} ELSE @]
        /\ exposed' = IF IsExposed(q)
                      THEN exposed \cup {Id(r) : r \in {s \in Inserted(q) : s.kind = "taxi"}}
                      ELSE exposed
    /\ request' = [request EXCEPT ![w] = None]
    /\ UNCHANGED clean

\* 500: what SQLAlchemy raises is not what the handlers of ads_create and
\* drivers_create are for, and the others have none.
Fails(w) ==
    /\ request[w] # None
    /\ ~CanCommit(request[w]) \/ UpdateIsLost(request[w])
    /\ request' = [request EXCEPT ![w] = None]
    /\ UNCHANGED <<rows, last, told, clean, exposed>>

-------------------------------------------------------------------------------
(* delete_old_orphans: table after table, the ids of the orphans are read, then
   deleted *)

\* Mutant: descriptions are looked for in the taxis, as ADS and drivers are.
OrphanByReference(r) == r.old /\ \A t \in Rows("taxi") : Id(r) \notin t.refs

\* A description goes when no taxi is on its vehicle, whoever's.
IsOrphan(r) ==
    /\ r.old
    /\ \A t \in Rows("taxi") :
        IF r.kind = "description" THEN ~(r.refs \subseteq t.refs) ELSE Id(r) \notin t.refs

\* At a table: its orphans are read, and are then deleted if there are any.
At(kind) == [kind |-> kind, ids |-> {}]

TableAfter(kind) ==
    CASE kind = "driver" -> At("ads")
      [] kind = "ads" -> At("description")
      [] OTHER -> None

CleanBegins ==
    /\ clean = None
    /\ clean' = At("driver")
    /\ UNCHANGED <<rows, last, request, told, exposed>>

ListsOrphans ==
    /\ clean # None /\ clean.ids = {}
    /\ LET ids == Ids({r \in Rows(clean.kind) : IsOrphan(r)}) IN
        clean' = IF ids = {} THEN TableAfter(clean.kind) ELSE [clean EXCEPT !.ids = ids]
    /\ UNCHANGED <<rows, last, request, told, exposed>>

IsReferenced(id) == \E r \in rows : id \in r.refs

DeletesOrphans ==
    /\ clean # None /\ clean.ids # {}
    /\ \A x \in clean.ids : ~IsReferenced(x)
    /\ rows' = {r \in rows : Id(r) \notin clean.ids}
    /\ clean' = TableAfter(clean.kind)
    /\ UNCHANGED <<last, request, told, exposed>>

\* One of them got a taxi meanwhile: the task ends there, until the next day.
DeletionRaises ==
    /\ clean # None
    /\ \E x \in clean.ids : IsReferenced(x)
    /\ clean' = None
    /\ UNCHANGED <<rows, last, request, told, exposed>>

-------------------------------------------------------------------------------
(* delete_old_taxis, as far as it concerns these rows *)

OldTaxiIsDeleted(t) ==
    /\ t \in Rows("taxi") /\ t.old
    /\ rows' = rows \ {t}
    /\ UNCHANGED <<last, request, told, clean, exposed>>

-------------------------------------------------------------------------------
Waits(o) == o \notin Impatient /\ \E w \in Worker : request[w] # None /\ request[w].by = o

Posts(w, o) ==
    /\ ~Waits(o)
    /\ \/ Wants(o, "driver") /\ PostDriver(w, o)
       \/ Wants(o, "vehicle") /\ PostVehicle(w, o)
       \/ Wants(o, "ads") /\ PostAds(w, o)
       \/ Wants(o, "taxi") /\ PostTaxi(w, o)

Next ==
    \/ \E w \in Worker, o \in Operator : Posts(w, o)
    \/ \E o \in Operator : IsRefused(o)
    \/ \E w \in Worker : Commits(w) \/ Fails(w)
    \/ CleanBegins \/ ListsOrphans \/ DeletesOrphans \/ DeletionRaises
    \/ \E t \in Rows("taxi") : OldTaxiIsDeleted(t)

Spec == Init /\ [][Next]_vars

\* A request that began ends, and an operator asks again, with its turn at a
\* worker. Nothing is needed of the clean-up.
FairSpec ==
    /\ Spec
    /\ \A w \in Worker : WF_vars(Commits(w) \/ Fails(w))
    /\ \A o \in Operator :
            /\ WF_vars(IsRefused(o))
            /\ WF_vars(\E w \in Worker : Posts(w, o))
            /\ o \notin Impatient => SF_vars(\E w \in Worker : Posts(w, o))

-------------------------------------------------------------------------------
(* The command check_db, when it only looks *)

\* Groups of more than one row, of the five tables here.
check_duplicates(kind) ==
    {r \in Rows(kind) : \E s \in Rows(kind) : s # r /\ s.key = r.key /\ s.by = r.by}

\* Taxis with another operator's row.
check_sharing(kind) ==
    {t \in Rows("taxi") : \E r \in Rows(kind) : Id(r) \in t.refs /\ r.by # t.by}

-------------------------------------------------------------------------------
(* GET /taxis/all *)

\* The taxis an operator registered, each with the description of its vehicle
\* that is his.
taxis_list(o) ==
    {p \in Rows("taxi") \X Rows("description") :
        p[1].by = o /\ p[2].by = o /\ p[2].refs \subseteq p[1].refs}

-------------------------------------------------------------------------------
(* Properties *)

\* What check_db warns of, orphans apart, is never there: two rows for one
\* licence, or a taxi made of another operator's ADS or driver ("Duplicate
\* ADS."), however many requests found nothing at the same time.
CheckDbFindsNothing ==
    /\ \A kind \in Kind : check_duplicates(kind) = {}
    /\ \A kind \in {"ads", "driver"} : check_sharing(kind) = {}

\* An operator's list shows each taxi he registered, once. A taxi's ADS, driver
\* and vehicle are kept by foreign keys; the description, without which it is in
\* no list, by the clean-up's own test only, which decides before it deletes. The
\* taxis inserted between the two are excepted. None is shown twice, however
\* many requests added a description at the same time.
TaxiIsComplete ==
    \A t \in Rows("taxi") :
        LET shown == {p \in taxis_list(t.by) : p[1] = t} IN
            /\ \A p, q \in shown : p = q
            /\ Id(t) \in exposed \/ shown # {}

\* An operator whose ADS and driver are of known places ends with its taxi,
\* although a clean-up may remove what it had posted and requests sent twice
\* may fail.
CanRegister(o) == o \in KnownTown /\ Cardinality(Departements[o]) = 1

RegistrationEnds ==
    \A o \in Operator : CanRegister(o) => []<>("taxi" \in told[o])
===============================================================================
