------------------------------- MODULE Retention -------------------------------
(***************************************************************************)
(* What the daily tasks of clean_db forget. Hails are counted into         *)
(* stats_hails, blurred and deleted; the main hash of positions, which     *)
(* nothing expires, is blurred; taxis silent for a year are deleted from   *)
(* PostgreSQL, then from Redis. The clock ticks in days. A task that reads *)
(* first and writes later is two steps, or more.                           *)
(***************************************************************************)
EXTENDS Integers

CONSTANTS
    Taxi, Operator,
    Declared,       \* <<taxi, operator>>: the vehicle has a description by him
    COUNT_AFTER,    \* 24 hours
    BLUR_AFTER,     \* 60 days, of hails and of positions
    DELETE_AFTER,   \* a year, of hails and of taxis
    Counter,        \* compute_stats_hails: celery's, and one run by hand
    InTwoTowns,     \* environment: hails on a point that two towns' shapes share
    InNoTown,       \* environment: <<hail, "customer">>, <<hail, "taxi">>: whose
                    \* point no town's shape has
    MaxDelay,       \* environment: days POST /hails takes, 1 if it sees midnight
    MaxOutage,      \* environment: after how many days a daily task has run
    MaxHails,       \* bound: hails ever created
    MaxReports,     \* bound: positions ever reported
    MaxLosses,      \* bound: tasks that die between two steps
    MaxTime,        \* bound: the clock
    None

Hail == 1..MaxHails  \* numbered in the order of their requests

Time == 0..MaxTime

\* Where customer and taxi were, his address and the phone numbers.
Detail == {"customer", "taxi", "contact"}

\* Of its details those in `exact` are what the request gave; the flag `blurred`
\* does not say which.
Row == [at : Time, taxi : Taxi, state : {"adding", "there", "deleted"},
        blurred : BOOLEAN, exact : SUBSET Detail]
Position == [at : Time, blurred : BOOLEAN]

ASSUME RetentionAssumption ==
    /\ Declared \subseteq Taxi \X Operator
    /\ COUNT_AFTER \in Nat /\ BLUR_AFTER \in Nat /\ DELETE_AFTER \in Nat
    /\ MaxDelay \in Nat /\ MaxDelay <= COUNT_AFTER /\ MaxDelay <= BLUR_AFTER
    /\ MaxOutage \in Nat /\ COUNT_AFTER + MaxOutage <= DELETE_AFTER
    /\ InTwoTowns \subseteq Hail
    /\ InNoTown \subseteq Hail \X {"customer", "taxi"}
    /\ MaxHails \in Nat /\ MaxReports \in Nat /\ MaxLosses \in Nat /\ MaxTime \in Nat
    /\ None \notin Time /\ None \notin Row /\ None \notin Position

Daily == {"compute_stats_hails", "blur_hails", "blur_geotaxi"}

VARIABLES
    now,
    hail,           \* rows of hail: added_at, taxi, blurred; being added; deleted
    stats,          \* rows of stats_hails
    taxis,          \* rows of taxi, all registered at time 0
    hash,           \* taxi:<taxi>, field operator: when, and whether blurred
    reported,       \* history: when the last report was written
    reports,        \* how many there were
    counting,       \* what each compute_stats_hails under way has read
    blurring,       \* what blur_geotaxi has listed
    deleting,       \* where delete_old_taxis is, and what it has read
    behind,         \* days since a daily task last ran to its end
    losses

hails == <<hail, stats, counting>>
positions == <<taxis, hash, reported, reports, blurring, deleting>>
vars == <<now, hails, positions, behind, losses>>

Deleting == [step : {"idle", "redis", "delete", "pipeline"},
             old : SUBSET Taxi, silent : SUBSET Taxi, known : SUBSET Taxi]

NotDeleting == [step |-> "idle", old |-> {}, silent |-> {}, known |-> {}]

TypeOK ==
    /\ now \in Time
    /\ hail \in [Hail -> Row \cup {None}]
    /\ stats \subseteq {h \in Hail : hail[h] # None}
    /\ taxis \subseteq Taxi
    /\ hash \in [Declared -> Position \cup {None}]
    /\ reported \in [Declared -> Time \cup {None}]
    /\ reports \in 0..MaxReports /\ losses \in 0..MaxLosses
    /\ counting \in [Counter -> (SUBSET Hail) \cup {None}]
    /\ blurring \in (SUBSET (Declared \X Time)) \cup {None}
    /\ deleting \in Deleting
    /\ behind \in [Daily -> 0..MaxOutage]

Init ==
    /\ now = 0
    /\ hail = [h \in Hail |-> None]
    /\ stats = {}
    /\ taxis = Taxi
    /\ hash = [e \in Declared |-> None]
    /\ reported = hash /\ reports = 0
    /\ counting = [c \in Counter |-> None]
    /\ blurring = None
    /\ deleting = NotDeleting
    /\ behind = [k \in Daily |-> 0]
    /\ losses = 0

\* A task that has begun ends on the same day.
Tick ==
    /\ now < MaxTime
    /\ \A h \in Hail : hail[h] # None /\ hail[h].state = "adding"
                            => now - hail[h].at < MaxDelay
    /\ \A k \in Daily : behind[k] < MaxOutage
    /\ \A c \in Counter : counting[c] = None
    /\ blurring = None /\ deleting.step = "idle"
    /\ now' = now + 1
    /\ behind' = [k \in Daily |-> behind[k] + 1]
    /\ UNCHANGED <<hails, positions, losses>>

HasRun(k) == behind' = [behind EXCEPT ![k] = 0]

-------------------------------------------------------------------------------
(* POST /hails and POST /geotaxi, as far as these tasks see them *)

IsThere(h) == hail[h] # None /\ hail[h].state = "there"

\* added_at is NOW(), the start of the transaction.
HailBegins(h, t) ==
    /\ hail[h] = None
    /\ \A g \in Hail : g < h => hail[g] # None
    /\ t \in taxis
    /\ hail' = [hail EXCEPT ![h] = [at |-> now, taxi |-> t, state |-> "adding",
                                    blurred |-> FALSE, exact |-> Detail]]
    /\ UNCHANGED <<now, stats, counting, positions, behind, losses>>

\* The row refers to its taxi, which must still be there.
HailCommits(h) ==
    /\ hail[h] # None /\ hail[h].state = "adding"
    /\ hail[h].taxi \in taxis
    /\ hail' = [hail EXCEPT ![h].state = "there"]
    /\ UNCHANGED <<now, stats, counting, positions, behind, losses>>

HailFails(h) ==
    /\ hail[h] # None /\ hail[h].state = "adding"
    /\ hail[h].taxi \notin taxis
    /\ hail' = [hail EXCEPT ![h] = None]
    /\ UNCHANGED <<now, stats, counting, positions, behind, losses>>

Report(e) ==
    /\ reports < MaxReports
    /\ e[1] \in taxis
    /\ hash' = [hash EXCEPT ![e] = [at |-> now, blurred |-> FALSE]]
    /\ reported' = [reported EXCEPT ![e] = now]
    /\ reports' = reports + 1
    /\ UNCHANGED <<now, hails, taxis, blurring, deleting, behind, losses>>

-------------------------------------------------------------------------------
(* compute_stats_hails *)

Older(at, age) == at < now - age

\* Mutant: counts a day late.
CountableLate(h) ==
    /\ IsThere(h)
    /\ Older(hail[h].at, COUNT_AFTER + 1)
    /\ \A g \in stats : hail[h].at > hail[g].at

\* Mutant: counts up to now, without the day a request may take to commit.
CountableAtOnce(h) == IsThere(h) /\ \A g \in stats : hail[h].at > hail[g].at

\* Later than the last row of stats_hails, and a day old.
Countable(h) ==
    /\ IsThere(h)
    /\ Older(hail[h].at, COUNT_AFTER)
    /\ \A g \in stats : hail[h].at > hail[g].at

CountBegins(c) ==
    /\ counting[c] = None
    /\ counting' = [counting EXCEPT ![c] = {h \in Hail : Countable(h)}]
    /\ UNCHANGED <<now, hail, stats, positions, behind, losses>>

\* One row each; a hail the query returned twice, or which another process
\* counted meanwhile, violates the primary key.
Insertable(S) == S \cap (stats \cup InTwoTowns) = {}

CountEnds(c) ==
    /\ counting[c] # None
    /\ stats' = IF Insertable(counting[c]) THEN stats \cup counting[c] ELSE stats
    /\ counting' = [counting EXCEPT ![c] = None]
    /\ HasRun("compute_stats_hails")
    /\ UNCHANGED <<now, hail, positions, losses>>

CountIsLost(c) ==
    /\ counting[c] # None
    /\ losses < MaxLosses
    /\ losses' = losses + 1
    /\ counting' = [counting EXCEPT ![c] = None]
    /\ UNCHANGED <<now, hail, stats, positions, behind>>

-------------------------------------------------------------------------------
(* blur_hails, delete_old_hails *)

\* Mutant: blurs a day late.
BlurrableLate(h) ==
    IsThere(h) /\ Older(hail[h].at, BLUR_AFTER + 1) /\ ~hail[h].blurred

Blurrable(h) == IsThere(h) /\ Older(hail[h].at, BLUR_AFTER) /\ ~hail[h].blurred

\* A point moves to the middle of its town; one in no town stays what it is.
Kept(h) == {d \in Detail : <<h, d>> \in InNoTown}

BlurHails ==
    /\ hail' = [h \in Hail |->
                    IF Blurrable(h)
                    THEN [hail[h] EXCEPT !.blurred = TRUE, !.exact = Kept(h)]
                    ELSE hail[h]]
    /\ HasRun("blur_hails")
    /\ UNCHANGED <<now, stats, counting, positions, losses>>

Deletable(h) == IsThere(h) /\ Older(hail[h].at, DELETE_AFTER) /\ hail[h].blurred

DeleteOldHails ==
    /\ hail' = [h \in Hail |-> IF Deletable(h) THEN [hail[h] EXCEPT !.state = "deleted"]
                                               ELSE hail[h]]
    /\ UNCHANGED <<now, stats, counting, positions, behind, losses>>

-------------------------------------------------------------------------------
(* blur_geotaxi *)

\* Mutant: the entry is removed, as the cleaned indexes remove theirs.
Removed(at) == None

Blurred(at) == [at |-> at, blurred |-> TRUE]

\* list_taxis up to a date
Silent(age) == {e \in Declared : hash[e] # None /\ hash[e].at <= now - age}

BlurGeotaxiBegins ==
    /\ blurring = None
    /\ blurring' = {<<e, hash[e].at>> : e \in Silent(BLUR_AFTER)}
    /\ UNCHANGED <<now, hails, taxis, hash, reported, reports, deleting, behind,
                   losses>>

\* The pipeline writes what was listed, whatever was reported meanwhile.
BlurGeotaxiEnds ==
    /\ blurring # None
    /\ hash' = [e \in Declared |->
                    IF \E b \in blurring : b[1] = e
                    THEN Blurred((CHOOSE b \in blurring : b[1] = e)[2])
                    ELSE hash[e]]
    /\ blurring' = None
    /\ HasRun("blur_geotaxi")
    /\ UNCHANGED <<now, hails, taxis, reported, reports, deleting, losses>>

-------------------------------------------------------------------------------
(* delete_old_taxis *)

At(step) == deleting.step = step

IsReferenced(t) == \E h \in Hail : IsThere(h) /\ hail[h].taxi = t

\* The taxis registered a year ago that no hail refers to.
DeleteTaxisBegins ==
    /\ At("idle")
    /\ deleting' = [step |-> "redis",
                    old |-> {t \in taxis : Older(0, DELETE_AFTER) /\ ~IsReferenced(t)},
                    silent |-> {}, known |-> {}]
    /\ UNCHANGED <<now, hails, taxis, hash, reported, reports, blurring, behind,
                   losses>>

\* Those with a position a year old, then those with any.
ListRedis ==
    /\ At("redis")
    /\ deleting' = [deleting EXCEPT
                        !.step = "delete",
                        !.silent = {e[1] : e \in Silent(DELETE_AFTER)},
                        !.known = {e[1] : e \in {d \in Declared : hash[d] # None}}]
    /\ UNCHANGED <<now, hails, taxis, hash, reported, reports, blurring, behind,
                   losses>>

Candidates ==
    (deleting.old \cap deleting.silent) \cup (deleting.old \ deleting.known)

\* One DELETE; a hail that refers to one of them makes it raise.
DeleteTaxis ==
    /\ At("delete")
    /\ \A t \in Candidates : ~IsReferenced(t)
    /\ taxis' = taxis \ Candidates
    /\ deleting' = [deleting EXCEPT !.step = "pipeline"]
    /\ UNCHANGED <<now, hails, hash, reported, reports, blurring, behind, losses>>

DeleteTaxisRaises ==
    /\ At("delete")
    /\ \E t \in Candidates : IsReferenced(t)
    /\ deleting' = NotDeleting
    /\ UNCHANGED <<now, hails, taxis, hash, reported, reports, blurring, behind,
                   losses>>

\* Mutant: only the taxis just deleted.
OrphansForgotten == {}

\* Taxis silent for a year that PostgreSQL does not know.
Orphans == (deleting.silent \ Candidates) \ taxis

DeleteFromRedis ==
    /\ At("pipeline")
    /\ hash' = [e \in Declared |->
                    IF e[1] \in Candidates \cup Orphans THEN None ELSE hash[e]]
    /\ deleting' = NotDeleting
    /\ UNCHANGED <<now, hails, taxis, reported, reports, blurring, behind, losses>>

DeletingIsLost ==
    /\ ~At("idle")
    /\ losses < MaxLosses
    /\ losses' = losses + 1
    /\ deleting' = NotDeleting
    /\ UNCHANGED <<now, hails, taxis, hash, reported, reports, blurring, behind>>

DeleteTaxisGoesOn ==
    ListRedis \/ DeleteTaxis \/ DeleteTaxisRaises \/ DeleteFromRedis

-------------------------------------------------------------------------------
Next ==
    \/ Tick
    \/ \E h \in Hail : HailCommits(h) \/ HailFails(h)
    \/ \E h \in Hail, t \in Taxi : HailBegins(h, t)
    \/ \E e \in Declared : Report(e)
    \/ \E c \in Counter : CountBegins(c) \/ CountEnds(c) \/ CountIsLost(c)
    \/ BlurHails \/ DeleteOldHails
    \/ BlurGeotaxiBegins \/ BlurGeotaxiEnds
    \/ DeleteTaxisBegins \/ DeleteTaxisGoesOn \/ DeletingIsLost

Spec == Init /\ [][Next]_vars

\* Celery beat starts the task every day, and a worker runs it.
FairSpec ==
    Spec /\ WF_vars(DeleteTaxisBegins) /\ WF_vars(DeleteTaxisGoesOn)

-------------------------------------------------------------------------------
(* Properties *)

WasAdded(h) == hail[h] # None /\ hail[h].state # "adding"

\* The date of the last row of stats_hails is a sound point to restart from:
\* every hail up to it was counted, however late its request committed and
\* whatever two tasks did at once.
CountedUpTo ==
    \A h \in stats, g \in Hail :
        WasAdded(g) /\ hail[g].at <= hail[h].at => g \in stats

\* "We already saved what is needed for stats." (delete_old_hails) Nothing in
\* delete_old_hails looks at stats_hails: that a hail was counted follows from
\* the ages, as long as the tasks run often enough.
CountedBeforeDeleted ==
    \A h \in Hail : hail[h] # None /\ hail[h].state = "deleted" => h \in stats

\* Two months, and the days the tasks may be late, after a hail or a position
\* came in, the exact place and the contacts are forgotten, also if the taxi
\* reported while blur_geotaxi was writing. Excepted are the places of hails
\* that lie in no town: blur_hails leaves them, and marks the hail as blurred.
NothingOldIsPrecise ==
    /\ \A h \in Hail, d \in Detail :
            /\ IsThere(h) /\ Older(hail[h].at, BLUR_AFTER + MaxOutage)
            /\ d \in hail[h].exact
            => <<h, d>> \in InNoTown
    /\ \A e \in Declared :
            hash[e] # None /\ Older(hash[e].at, BLUR_AFTER + MaxOutage)
                            => hash[e].blurred

\* "If a taxi hasn't sent a location after a year, it can be deleted." Only
\* then, whichever tasks rewrote or removed what Redis had of it, unless it
\* reported on the day of the deletion, or blur_geotaxi replaced its last report.
SilentTaxisOnly ==
    [][\A t \in taxis \ taxis', e \in Declared :
            e[1] = t /\ reported[e] # None
            => \/ reported[e] <= now - DELETE_AFTER
               \/ reported[e] = now
               \/ hash[e] # None /\ hash[e].at < reported[e]]_vars

\* What a deleted taxi left in Redis goes once it is a year old, although the
\* task may die between its commit and its pipeline.
Leftover(e) ==
    e[1] \notin taxis /\ hash[e] # None /\ hash[e].at <= now - DELETE_AFTER

LeftoversGo == \A e \in Declared : Leftover(e) ~> ~Leftover(e)
===============================================================================
