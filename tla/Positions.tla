------------------------------- MODULE Positions -------------------------------
(***************************************************************************)
(* The positions of taxis: what operators report, the five Redis keys a    *)
(* report writes, the task that cleans four of them, and who reads them:   *)
(* the search, the driver's status, the creation of a hail, and the count  *)
(* of active taxis. All of it is seen from one place a customer searches   *)
(* around, so a position is its distance from there. A Redis command, or a *)
(* MULTI/EXEC pipeline, is one step.                                       *)
(***************************************************************************)
EXTENDS Integers, Sequences, FiniteSets, SequencesExt

CONSTANTS
    Taxi,
    Operator,
    Owner,          \* the operator that registered a taxi, Taxi.added_by
    Declared,       \* <<taxi, operator>>: the vehicle has a description by him
    Allowed,        \* the taxis whose ADS is of a town allowed at the place
    Distance,       \* distances a taxi may report from
    Radius,         \* radiuses drivers choose, beside none
    RADIUS_MIN, RADIUS_DEFAULT, RADIUS_MAX,
    GPS_FRESHNESS,
    CANDIDATE_LIMIT, DISPLAY_LIMIT,
    Minute,         \* length of a minute in ticks of the clock
    Worker,         \* API workers that search
    Cleaner,        \* workers that run clean_geoindex_timestamps
    AskedOfTaxi,    \* environment: statuses drivers ask for, or hails leave
    InTurn,         \* environment: an operator has one report under way at most
    MaxDelay,       \* environment: how long the request of a report takes
    MaxReports,     \* bound: reports ever sent
    MaxLosses,      \* bound: cleaners that die on the way
    MaxTime,        \* bound: the clock
    None

\* validate_app_config, which the application runs when it starts.
ConfigIsValid ==
    /\ {RADIUS_MIN, RADIUS_DEFAULT, RADIUS_MAX, GPS_FRESHNESS,
        CANDIDATE_LIMIT, DISPLAY_LIMIT} \subseteq Nat \ {0}
    /\ RADIUS_MIN <= RADIUS_DEFAULT /\ RADIUS_DEFAULT <= RADIUS_MAX
    /\ DISPLAY_LIMIT <= CANDIDATE_LIMIT

\* validate_radius
RadiusIsValid(r) == r = None \/ r \in RADIUS_MIN..RADIUS_MAX

ASSUME PositionsAssumption ==
    /\ ConfigIsValid
    /\ Owner \in [Taxi -> Operator]
    /\ Declared \subseteq Taxi \X Operator
    /\ Allowed \subseteq Taxi
    /\ Distance \subseteq Nat
    /\ Radius \subseteq RADIUS_MIN..RADIUS_MAX
    /\ Minute \in Nat \ {0}
    /\ AskedOfTaxi \subseteq {"free", "occupied", "off"}
    /\ InTurn \in BOOLEAN
    /\ MaxDelay \in Nat /\ MaxReports \in Nat /\ MaxLosses \in Nat /\ MaxTime \in Nat
    /\ None \notin Nat \cup Taxi \cup Operator
    /\ None \notin [at : Nat, place : Distance]

Time == 0..MaxTime
Clean == {"idle", "timestamps", "geoindex_2", "timestamps_id", "geoindex"}

VARIABLES
    now,            \* the clock
    hash,           \* taxi:<taxi>, field operator: when and where, never expired
    geoindex,       \* where each taxi is
    geoindex_2,     \* where each taxi is according to each operator
    timestamps,     \* score: when it was reported
    timestamps_id,
    status,         \* vehicle_description.status
    updated,        \* vehicle_description.last_update_at: who has one, latest first
    radius,         \* vehicle_description.radius
    hailed,         \* taxis with an active hail
    sending,        \* reports between int(time.time()) and pipe.execute()
    sent,           \* how many were begun
    cleaner,        \* next command of a cleaner, and its threshold
    losses,
    search          \* a search under way: rows of georadius, dates read so far

redis == <<hash, geoindex, geoindex_2, timestamps, timestamps_id>>
rows == <<status, updated, radius, hailed>>
vars == <<now, redis, rows, sending, sent, cleaner, losses, search>>

Resting == [step |-> "idle", max |-> 0]
Idle == [step |-> "idle", rows |-> {}, date |-> <<>>]

\* A report: who sends it, when it was begun, where his taxis are.
Report ==
    [op : Operator, at : Time, places : UNION {[T -> Distance] : T \in SUBSET Taxi}]

IndexTypes ==
    /\ now \in Time
    /\ hash \in [Declared -> [at : Time, place : Distance] \cup {None}]
    /\ geoindex \in [Taxi -> Distance \cup {None}]
    /\ geoindex_2 \in [Declared -> Distance \cup {None}]
    /\ timestamps \in [Declared -> Time \cup {None}]
    /\ timestamps_id \in [Taxi -> Time \cup {None}]
    /\ sending \subseteq Report
    /\ cleaner \in [Cleaner -> [step : Clean, max : Int]]

TypeOK ==
    /\ IndexTypes
    /\ status \in [Declared -> {"free", "answering", "occupied", "off"}]
    /\ updated \in [Taxi -> Seq(Operator)]
    /\ \A e \in Declared : RadiusIsValid(radius[e])
    /\ hailed \subseteq Taxi
    /\ sent \in 0..MaxReports /\ losses \in 0..MaxLosses
    /\ \A w \in Worker :
        /\ search[w].step \in {"idle", "dates"}
        /\ DOMAIN search[w].date \subseteq {r.entry : r \in search[w].rows}

Init ==
    /\ now = 0
    /\ hash = [e \in Declared |-> None]
    /\ geoindex = [t \in Taxi |-> None]
    /\ geoindex_2 = [e \in Declared |-> None]
    /\ timestamps = [e \in Declared |-> None]
    /\ timestamps_id = [t \in Taxi |-> None]
    /\ status = [e \in Declared |-> "off"]
    /\ updated = [t \in Taxi |-> <<>>]
    /\ radius = [e \in Declared |-> None]
    /\ hailed = {}
    /\ sending = {} /\ sent = 0
    /\ cleaner = [c \in Cleaner |-> Resting]
    /\ losses = 0
    /\ search = [w \in Worker |-> Idle]

Tick ==
    /\ now < MaxTime
    /\ \A m \in sending : now - m.at < MaxDelay
    /\ now' = now + 1
    /\ UNCHANGED <<redis, rows, sending, sent, cleaner, losses, search>>

-------------------------------------------------------------------------------
(* POST /geotaxi *)

\* The request is rejected unless each of its taxis is declared to the operator.
\* `places` is the dictionary keyed by taxi.
ReportBegins(o, places) ==
    /\ sent < MaxReports
    /\ InTurn => \A m \in sending : m.op # o
    /\ \A t \in DOMAIN places : <<t, o>> \in Declared
    /\ sending' = sending \cup {[op |-> o, at |-> now, places |-> places]}
    /\ sent' = sent + 1
    /\ UNCHANGED <<now, redis, rows, cleaner, losses, search>>

\* The pipeline of the report writes the entry.
Reported(m, e) == e[1] \in DOMAIN m.places /\ e[2] = m.op

\* The pipeline writes the five keys of every taxi of the report.
ReportIsWritten(m) ==
    LET entries == {e \in Declared : Reported(m, e)}
        In(e) == e \in entries
    IN
    /\ m \in sending
    /\ hash' = [e \in Declared |->
                    IF In(e) THEN [at |-> m.at, place |-> m.places[e[1]]]
                             ELSE hash[e]]
    /\ geoindex' = [t \in Taxi |->
                    IF t \in DOMAIN m.places THEN m.places[t] ELSE geoindex[t]]
    /\ geoindex_2' = [e \in Declared |->
                    IF In(e) THEN m.places[e[1]] ELSE geoindex_2[e]]
    /\ timestamps' = [e \in Declared |-> IF In(e) THEN m.at ELSE timestamps[e]]
    /\ timestamps_id' = [t \in Taxi |->
                    IF t \in DOMAIN m.places THEN m.at ELSE timestamps_id[t]]
    /\ sending' = sending \ {m}
    /\ UNCHANGED <<now, rows, sent, cleaner, losses, search>>

\* Redis cannot be reached: nothing of the MULTI/EXEC is applied.
ReportFails(m) ==
    /\ m \in sending
    /\ sending' = sending \ {m}
    /\ UNCHANGED <<now, redis, rows, sent, cleaner, losses, search>>

-------------------------------------------------------------------------------
(* clean_geoindex_timestamps *)

CleanBegins(c) ==
    /\ cleaner[c].step = "idle"
    /\ cleaner' = [cleaner EXCEPT ![c] =
                    [step |-> "timestamps", max |-> now - GPS_FRESHNESS]]
    /\ UNCHANGED <<now, redis, rows, sending, sent, losses, search>>

GoesOn(c, from, to) ==
    /\ cleaner[c].step = from
    /\ cleaner' = [cleaner EXCEPT ![c] =
                    IF to = "idle" THEN Resting ELSE [@ EXCEPT !.step = to]]
    /\ UNCHANGED <<now, hash, rows, sending, sent, losses, search>>

\* Mutant: what is fresh by a tick only goes as well.
WithoutNearlyOld(f, max) ==
    [x \in DOMAIN f |-> IF f[x] # None /\ f[x] <= max + 1 THEN None ELSE f[x]]

\* ZREMRANGEBYSCORE f 0 max
WithoutOld(f, max) ==
    [x \in DOMAIN f |-> IF f[x] # None /\ f[x] <= max THEN None ELSE f[x]]

\* Mutant: a union keeps what has no timestamp any more.
United(f, dates) == f

\* ZINTERSTORE with weight 0 for the dates: the members both have.
Intersected(f, dates) ==
    [x \in DOMAIN f |-> IF dates[x] = None THEN None ELSE f[x]]

RemoveTimestamps(c) ==
    /\ GoesOn(c, "timestamps", "geoindex_2")
    /\ timestamps' = WithoutOld(timestamps, cleaner[c].max)
    /\ UNCHANGED <<geoindex, geoindex_2, timestamps_id>>

IntersectGeoindex2(c) ==
    /\ GoesOn(c, "geoindex_2", "timestamps_id")
    /\ geoindex_2' = Intersected(geoindex_2, timestamps)
    /\ UNCHANGED <<geoindex, timestamps, timestamps_id>>

RemoveTimestampsId(c) ==
    /\ GoesOn(c, "timestamps_id", "geoindex")
    /\ timestamps_id' = WithoutOld(timestamps_id, cleaner[c].max)
    /\ UNCHANGED <<geoindex, geoindex_2, timestamps>>

IntersectGeoindex(c) ==
    /\ GoesOn(c, "geoindex", "idle")
    /\ geoindex' = Intersected(geoindex, timestamps_id)
    /\ UNCHANGED <<geoindex_2, timestamps, timestamps_id>>

\* The worker dies, or loses Redis, between two commands.
CleanerLost(c) ==
    /\ cleaner[c].step # "idle"
    /\ losses < MaxLosses
    /\ losses' = losses + 1
    /\ cleaner' = [cleaner EXCEPT ![c] = Resting]
    /\ UNCHANGED <<now, redis, rows, sending, sent, search>>

CleanGoesOn(c) ==
    \/ RemoveTimestamps(c) \/ IntersectGeoindex2(c)
    \/ RemoveTimestampsId(c) \/ IntersectGeoindex(c)

-------------------------------------------------------------------------------
(* PUT /taxis/:id, and the part of POST /hails that looks at the taxi *)

\* Redis has a position of the operator that is not too old.
IsOnline(e) == hash[e] # None /\ now - hash[e].at <= GPS_FRESHNESS

\* A status, a radius, or both; the request is refused as a whole.
PutTaxi(e, s, r) ==
    /\ s # status[e] \/ r # radius[e]
    /\ s # status[e] => e[1] \notin hailed /\ (s = "free" => IsOnline(e))
    /\ RadiusIsValid(r)
    /\ status' = [status EXCEPT ![e] = s]
    /\ updated' = IF s = status[e] THEN updated ELSE
            [updated EXCEPT ![e[1]] = <<e[2]>> \o RemoveFirst(@, e[2])]
    /\ radius' = [radius EXCEPT ![e] = r]
    /\ UNCHANGED <<now, redis, hailed, sending, sent, cleaner, losses, search>>

\* A hail goes to the description of the operator that registered the taxi.
CanBeHailed(t) ==
    LET e == <<t, Owner[t]>> IN
    /\ e \in Declared
    /\ IsOnline(e)
    /\ status[e] = "free"
    /\ t \notin hailed

Hailed(t) ==
    /\ CanBeHailed(t)
    /\ hailed' = hailed \cup {t}
    /\ status' = [status EXCEPT ![<<t, Owner[t]>>] = "answering"]
    /\ UNCHANGED <<now, redis, updated, radius, sending, sent, cleaner, losses,
                   search>>

\* HailDispatch says which statuses an ended hail leaves.
HailEnds(t, s) ==
    /\ t \in hailed
    /\ hailed' = hailed \ {t}
    /\ status' = [status EXCEPT ![<<t, Owner[t]>>] = s]
    /\ UNCHANGED <<now, redis, updated, radius, sending, sent, cleaner, losses,
                   search>>

-------------------------------------------------------------------------------
(* GET /taxis; find_available_candidates reads the same way *)

InRange == {e \in Declared :
                geoindex_2[e] # None /\ geoindex_2[e] <= RADIUS_MAX}

\* GEORADIUS ... COUNT: the nearest, whoever comes first among equals.
Nearest(S) ==
    {C \in SUBSET S :
        /\ Cardinality(C) = Min({Cardinality(S), CANDIDATE_LIMIT})
        /\ \A e \in C, d \in S \ C : geoindex_2[e] <= geoindex_2[d]}

SearchBegins(w) ==
    /\ search[w].step = "idle"
    /\ \E C \in Nearest(InRange) :
        search' = [search EXCEPT ![w] =
            [step |-> "dates", date |-> <<>>,
             rows |-> {[entry |-> e, place |-> geoindex_2[e]] : e \in C}]]
    /\ UNCHANGED <<now, redis, rows, sending, sent, cleaner, losses>>

\* ZSCORE, one command for each row, nearest first.
ReadDate(w) ==
    /\ search[w].step = "dates"
    /\ \E r \in search[w].rows :
        /\ r.entry \notin DOMAIN search[w].date
        /\ \A q \in search[w].rows :
                q.place < r.place => q.entry \in DOMAIN search[w].date
        /\ search' = [search EXCEPT ![w].date = [d \in DOMAIN @ \cup {r.entry} |->
                IF d = r.entry THEN timestamps[d] ELSE @[d]]]
    /\ UNCHANGED <<now, redis, rows, sending, sent, cleaner, losses>>

DatesAreRead(w) ==
    /\ search[w].step = "dates"
    /\ DOMAIN search[w].date = {r.entry : r \in search[w].rows}

\* Mutant: a date is enough, whatever its age.
ListableAnyAge(w) ==
    {r \in search[w].rows :
        /\ r.entry[1] \in Allowed
        /\ r.entry[1] \notin hailed
        /\ status[r.entry] = "free"
        /\ search[w].date[r.entry] # None}

\* One query for the rows: allowed here, no active hail; then free and fresh.
Listable(w) ==
    {r \in search[w].rows :
        /\ r.entry[1] \in Allowed
        /\ r.entry[1] \notin hailed
        /\ status[r.entry] = "free"
        /\ search[w].date[r.entry] # None
        /\ search[w].date[r.entry] + GPS_FRESHNESS >= now}

\* The fold over a taxi's descriptions keeps the one updated last; without a
\* date it keeps whichever comes later in the query's result.
CanBeKept(r, same) ==
    LET order == updated[r.entry[1]]
        ops == {q.entry[2] : q \in same}
    IN  \/ ~ ops \subseteq Range(order)
        \/ r.entry[2] = SelectSeq(order, LAMBDA o : o \in ops)[1]

RadiusOrDefault(e) == IF radius[e] = None THEN RADIUS_DEFAULT ELSE radius[e]

\* What the search may list: of each taxi one row, if it is within the radius.
CanBeListed(w) ==
    {r \in Listable(w) :
        /\ CanBeKept(r, {q \in Listable(w) : q.entry[1] = r.entry[1]})
        /\ r.place <= RadiusOrDefault(r.entry)}

\* The answer: the nearest of one kept row per taxi, DISPLAY_LIMIT at most.
SearchAnswers(w) ==
    /\ DatesAreRead(w)
    /\ search' = [search EXCEPT ![w] = Idle]
    /\ UNCHANGED <<now, redis, rows, sending, sent, cleaner, losses>>

-------------------------------------------------------------------------------
(* store_active_taxis *)

\* Mutant: rounds up what is whole.
CeilAndOne(n, d) == n \div d + 1

Ceil(n, d) == (n + d - 1) \div d

\* list_taxis, the slow path
InHash(since) == {e \in Declared : hash[e] # None /\ hash[e].at >= since}

\* get_timestamps_entries_between
InTimestamps(since) ==
    {e \in Declared : timestamps[e] # None /\ timestamps[e] >= since}

\* The entries reported in the last minutes.
Updates(minutes) ==
    LET since == now - minutes * Minute IN
    IF minutes <= Ceil(GPS_FRESHNESS, Minute) THEN InTimestamps(since)
                                              ELSE InHash(since)

-------------------------------------------------------------------------------
Next ==
    \/ Tick
    \/ \E o \in Operator, T \in (SUBSET Taxi) \ {{}} :
            \E places \in [T -> Distance] : ReportBegins(o, places)
    \/ \E m \in sending : ReportIsWritten(m) \/ ReportFails(m)
    \/ \E c \in Cleaner : CleanBegins(c) \/ CleanGoesOn(c) \/ CleanerLost(c)
    \/ \E e \in Declared : \E s \in AskedOfTaxi \cup {status[e]},
            r \in Radius \cup {radius[e], None} : PutTaxi(e, s, r)
    \/ \E t \in Taxi : Hailed(t) \/ \E s \in AskedOfTaxi : HailEnds(t, s)
    \/ \E w \in Worker : SearchBegins(w) \/ ReadDate(w) \/ SearchAnswers(w)

Spec == Init /\ [][Next]_vars

\* Celery beat starts the task again and again, and a worker runs it.
FairSpec ==
    /\ Spec
    /\ \A c \in Cleaner : WF_vars(CleanBegins(c)) /\ WF_vars(CleanGoesOn(c))

-------------------------------------------------------------------------------
(* Properties *)

\* The indexes never miss a live position: whatever cleaning is under way, and
\* whatever it was doing when it died, an entry the main hash has a fresh date
\* for has that date and place in timestamps and geoindex_2. The keys by taxi
\* are shared by operators: a report of another one that took long may replace
\* the date by an older one, but by no more than it took.
FreshIsIndexed ==
    \A e \in Declared : hash[e] # None =>
        /\ now - hash[e].at < GPS_FRESHNESS =>
                timestamps[e] = hash[e].at /\ geoindex_2[e] = hash[e].place
        /\ now - hash[e].at + MaxDelay < GPS_FRESHNESS =>
                timestamps_id[e[1]] # None /\ geoindex[e[1]] # None

\* The search reads places, dates and rows one after the other from the indexes,
\* POST /hails reads the main hash and the description of the taxi's own
\* operator. The two agree: at the moment the search answers, a hail to any taxi
\* it lists with that description would be accepted.
OwnListedCanBeHailed ==
    \A w \in Worker : DatesAreRead(w) =>
        \A r \in CanBeListed(w) :
            r.entry[2] = Owner[r.entry[1]] => CanBeHailed(r.entry[1])

\* Counting the active taxis from the cleaned index instead of all hashes
\* loses none: gps_freshness_minutes says up to which period that is so.
MinutesAreComplete ==
    \A minutes \in 1..3 :
        {e \in Declared : hash[e] # None
                            /\ hash[e].at > now - minutes * Minute}
            \subseteq Updates(minutes)

\* A position nobody renews leaves the spatial index, even if a cleaner died
\* between removing its date and intersecting the index.
Stale(e) == timestamps[e] = None \/ now - timestamps[e] >= GPS_FRESHNESS

StaleLeavesIndex ==
    \A e \in Declared :
        Stale(e) /\ geoindex_2[e] # None ~> geoindex_2[e] = None \/ ~Stale(e)
===============================================================================
