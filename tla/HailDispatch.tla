----------------------------- MODULE HailDispatch -----------------------------
(***************************************************************************)
(* The life of a hail, from its creation to a terminal status, as the API  *)
(* workers and the Celery workers drive it through PostgreSQL:             *)
(*                                                                         *)
(*   POST /hails     books a free taxi and queues send_request_operator;   *)
(*   send_request_operator reads the hail WITHOUT a lock, waits for the    *)
(*                   operator's API, then writes what it decided;          *)
(*   PUT /hails/:id  applies a user's transition under row locks, and only *)
(*                   after its commit schedules a timeout or reassigns;    *)
(*   handle_hail_timeout closes a hail still in the status it was set for; *)
(*   reassign_after_driver_unavailable locks the hails of the session,     *)
(*                   picks a candidate without locking it, then inserts;   *)
(*   PUT /taxis/:id  lets a driver without an active hail set a status.    *)
(*                                                                         *)
(* A transaction that locks every row it decides on is one step, at its    *)
(* commit. One that does not is two: the read, and the commit of what was  *)
(* decided from it. What a process does after its commit is a step of its  *)
(* own, so that others come in between and a crash can lose it.            *)
(***************************************************************************)
EXTENDS Naturals, FiniteSets, HailStatus

CONSTANTS
    Taxi,                 \* taxis: a driver, a vehicle and an authorisation
    Vd,                   \* vehicle descriptions, which carry a taxi's status
    OwnVd,                \* the description written by the taxi's own operator
    VdsOf,                \* all the descriptions of the taxi's vehicle
    InternalVd,           \* those of operators handed hails internally, not by HTTP
    Session,              \* search sessions, each of one customer
    Event,                \* idempotency keys a client may attach to a PUT
    None,                 \* no row, no process, no event id
    MaxHails,             \* bound: hails ever created
    MaxAttempts,          \* REZO_TAXI_SEARCH_CANDIDATE_LIMIT
    MaxCrashes,           \* bound: processes that may die between two steps
    AskedOfHail,          \* environment: the statuses users ask a hail to take
    AskedOfTaxi,          \* environment: the statuses drivers choose
    CancelWhileSending,   \* environment: customers cancel while the operator is
                          \* being asked
    MalformedReplies      \* environment: operators answer JSON that raises

Hail == 1..MaxHails  \* numbered in creation order

Booking == [taxi : Taxi, vd : Vd, session : Session,
            via : {"added_by", "reassignment"}]
LoggedEvent == [id : Event, to : HAIL_STATUS, by : ROLES]
Snapshot == [taxi : VEHICLE_STATUS, events : SUBSET LoggedEvent]
Continuation == [hail : Hail, kind : {"create", "send", "put", "timeout"},
                 after : HAIL_STATUS]
Reassignment == [source : Hail, taxi : Taxi, vd : Vd, rows : SUBSET Hail]

ASSUME DispatchAssumption ==
    /\ OwnVd \in [Taxi -> Vd]
    /\ VdsOf \in [Taxi -> SUBSET Vd]
    /\ \A t \in Taxi : OwnVd[t] \in VdsOf[t]
    /\ InternalVd \subseteq Vd
    /\ MaxHails \in Nat
    /\ MaxAttempts \in Nat \ {0}
    /\ MaxCrashes \in Nat
    /\ AskedOfHail \subseteq HAIL_STATUS
    /\ AskedOfTaxi \subseteq UPDATABLE_VEHICLE_STATUS
    /\ CancelWhileSending \in BOOLEAN
    /\ MalformedReplies \in BOOLEAN
    /\ None \notin Event
    /\ None \notin Hail
    /\ None \notin Booking
    /\ None \notin Snapshot
    /\ None \notin Reassignment

VARIABLES
    status,     \* hail.status; "absent" before the row is inserted
    booking,    \* the columns of a hail that never change
    events,     \* the entries of hail.transition_log that carry an event_id
    applied,    \* history: how often a PUT with that event_id changed the hail
    vdStatus,   \* vehicle_description.status
    queue,      \* hails whose send_request_operator waits in the broker
    sending,    \* what a running send_request_operator read of hail and taxi
    timers,     \* handle_hail_timeout messages in the broker
    pending,    \* committed transactions whose process still has work to do
    reassign,   \* per session, the reassignment that holds its hails' locks
    crashes     \* processes, and replies that raised, lost so far

vars == <<status, booking, events, applied, vdStatus, queue, sending, timers,
          pending, reassign, crashes>>

RowTypes ==
    /\ status \in [Hail -> HAIL_STATUS \cup {"absent"}]
    /\ booking \in [Hail -> Booking \cup {None}]
    /\ events \in [Hail -> SUBSET LoggedEvent]
    /\ applied \in [Hail -> [Event -> Nat]]
    /\ vdStatus \in [Vd -> VEHICLE_STATUS]

ProcessTypes ==
    /\ queue \subseteq Hail
    /\ sending \in [Hail -> Snapshot \cup {None}]
    /\ timers \subseteq Hail \X TimedStatus
    /\ pending \subseteq Continuation
    /\ reassign \in [Session -> Reassignment \cup {None}]
    /\ crashes \in 0..MaxCrashes

\* Messages, processes and locks are about rows that exist.
NoDangling ==
    /\ \A h \in Hail : booking[h] = None <=> status[h] = "absent"
    /\ \A h \in queue : status[h] # "absent"
    /\ \A h \in Hail : sending[h] # None => status[h] # "absent"
    /\ \A p \in pending : status[p.hail] # "absent"
    /\ \A s \in Session :
          reassign[s] # None =>
              \A h \in reassign[s].rows : status[h] # "absent"

TypeOK == RowTypes /\ ProcessTypes /\ NoDangling

Init ==
    /\ status = [h \in Hail |-> "absent"]
    /\ booking = [h \in Hail |-> None]
    /\ events = [h \in Hail |-> {}]
    /\ applied = [h \in Hail |-> [e \in Event |-> 0]]
    /\ vdStatus = [v \in Vd |-> "off"]
    /\ queue = {}
    /\ sending = [h \in Hail |-> None]
    /\ timers = {}
    /\ pending = {}
    /\ reassign = [s \in Session |-> None]
    /\ crashes = 0

-------------------------------------------------------------------------------

IsActive(h) == status[h] \in HAIL_ACTIVE_STATUS

\* Mutant: the index was created without its 'received' rows.
IndexAllowsUnlessReceived(h, t) ==
    \A g \in Hail \ {h} :
        IsActive(g) /\ status[g] # "received" => booking[g].taxi # t

\* Mutant: the migration that creates the index was not applied.
IndexAllowsAnything(h, t) == TRUE

SessionHails(s) ==
    {h \in Hail : status[h] # "absent" /\ booking[h].session = s}

\* Mutant: only a hail the customer has confirmed keeps the taxi busy.
TaxiHasConfirmedHail(t) ==
    \E h \in Hail : /\ status[h] \in {"accepted_by_customer", "customer_on_board"}
                   /\ booking[h].taxi = t

TaxiHasActiveHail(t) == \E h \in Hail : IsActive(h) /\ booking[h].taxi = t

\* uq_rezo_single_active_hail_per_taxi lets hail h be active on taxi t.
IndexAllows(h, t) ==
    \A g \in Hail \ {h} : IsActive(g) => booking[g].taxi # t

\* A reassignment holds the row FOR UPDATE until it commits.
RowLocked(h) ==
    \E s \in Session : reassign[s] # None /\ h \in reassign[s].rows

\* The next row to insert. Identifiers are drawn in creation order.
IsNext(h) ==
    /\ status[h] = "absent"
    /\ \A g \in Hail : g < h => status[g] # "absent"

Then(h, kind, after) == [hail |-> h, kind |-> kind, after |-> after]

\* A hail of session s is inserted for taxi t and its description v is taken.
InsertHail(h, t, v, s, via) ==
    /\ IsNext(h)
    /\ IndexAllows(h, t)
    /\ status' = [status EXCEPT ![h] = "received"]
    /\ booking' = [booking EXCEPT
                     ![h] = [taxi |-> t, vd |-> v, session |-> s, via |-> via]]
    /\ vdStatus' = [vdStatus EXCEPT ![v] = "answering"]
    /\ UNCHANGED <<events, applied, queue, sending, timers, crashes>>

\* POST /hails, under the lock of the vehicle description.
CreateHail(h, t, s) ==
    /\ vdStatus[OwnVd[t]] = "free"
    /\ ~TaxiHasActiveHail(t)
    /\ InsertHail(h, t, OwnVd[t], s, "added_by")
    /\ pending' = pending \cup {Then(h, "create", "received")}
    /\ UNCHANGED reassign

-------------------------------------------------------------------------------
\* send_request_operator

\* The task starts: hail and taxi are read, and no row is locked.
SendBegin(h) ==
    /\ h \in queue
    /\ status[h] = "received"
    /\ queue' = queue \ {h}
    /\ sending' = [sending EXCEPT
                     ![h] = [taxi |-> vdStatus[booking[h].vd],
                             events |-> events[h]]]
    /\ UNCHANGED <<status, booking, events, applied, vdStatus, timers, pending,
                   reassign, crashes>>

\* The hail has moved on: the task returns.
SendIgnored(h) ==
    /\ h \in queue
    /\ status[h] # "received"
    /\ queue' = queue \ {h}
    /\ UNCHANGED <<status, booking, events, applied, vdStatus, sending, timers,
                   pending, reassign, crashes>>

\* An operator of ours has no server to answer for it: its driver has the hail.
Delivered(v) == IF v \in InternalVd THEN "received_by_taxi" ELSE "received_by_operator"

\* What the task may decide: the hail failed (it ran too late, or the operator
\* did not answer as it should), or it reached the driver or the operator.
Outcomes(v) == {"failure", Delivered(v)}

\* The task commits `new` and the transition log as it had read it. The taxi is
\* released on failure, unless it was read free: an attribute set to the value
\* it was loaded with is not written.
SendCommit(h, new) ==
    /\ sending[h] # None
    /\ ~RowLocked(h)
    /\ new \in Outcomes(booking[h].vd)
    /\ new # "failure" => IndexAllows(h, booking[h].taxi)
    /\ sending' = [sending EXCEPT ![h] = None]
    /\ status' = [status EXCEPT ![h] = new]
    /\ events' = [events EXCEPT ![h] = sending[h].events]
    /\ vdStatus' = IF new = "failure" /\ sending[h].taxi # "free"
                   THEN [vdStatus EXCEPT ![booking[h].vd] = "free"]
                   ELSE vdStatus
    /\ pending' = IF new = "failure"
                  THEN pending
                  ELSE pending \cup {Then(h, "send", new)}
    /\ UNCHANGED <<booking, applied, queue, timers, reassign, crashes>>

SendDropped(h) ==
    /\ sending' = [sending EXCEPT ![h] = None]
    /\ UNCHANGED <<status, booking, events, applied, vdStatus, queue, timers,
                   pending, reassign>>

\* The index refuses the row, or the reply is JSON of another shape: the task
\* raises and its transaction is rolled back.
SendRaises(h) ==
    /\ sending[h] # None
    /\ ~RowLocked(h)
    /\ IndexAllows(h, booking[h].taxi) => MalformedReplies /\ crashes < MaxCrashes
    /\ SendDropped(h)
    /\ crashes' = IF IndexAllows(h, booking[h].taxi) THEN crashes + 1 ELSE crashes

-------------------------------------------------------------------------------
\* PUT /hails/:id and handle_hail_timeout, each under the locks of its rows

\* Mutant: the transition log is not searched for the event id.
EventIsAlwaysNew(h, e) == TRUE

EventIsNew(h, e) == \A logged \in events[h] : logged.id # e

\* A user moves hail h to `new`, with event id e or with none. An event id
\* that is already logged changes nothing: the request is a replay, or refused.
\* (accepted_by_taxi also needs a phone number, which the request can carry.)
PutStatus(h, new, role, e) ==
    /\ ~RowLocked(h)
    /\ EventIsNew(h, e)
    /\ status[h] \notin HAIL_TERMINAL_STATUS
    /\ Permitted(status[h], new, role)
    /\ sending[h] # None => CancelWhileSending
    /\ status' = [status EXCEPT ![h] = new]
    /\ events' = IF e = None
                 THEN events
                 ELSE [events EXCEPT
                         ![h] = @ \cup {[id |-> e, to |-> new, by |-> role]}]
    /\ applied' = IF e = None THEN applied
                  ELSE [applied EXCEPT ![h][e] = @ + 1]
    /\ vdStatus' = [vdStatus EXCEPT
                      ![booking[h].vd] = TaxiStatusAfter(new, @)]
    /\ pending' = IF new \in {"finished", "incident_taxi", "incident_customer"}
                  THEN pending  \* such a hail stays so: nothing will follow
                  ELSE pending \cup {Then(h, "put", new)}
    /\ UNCHANGED <<booking, queue, sending, timers, reassign, crashes>>

\* Mutant: the message acts whatever became of the hail.
NeverTooLate(h, timeout) == TRUE

StillWaiting(h, timeout) == status[h] = timeout.on

\* The hail is still in the status the message was sent for. The broker may
\* deliver the message again, so it may stay.
TimeoutFires(h, timeout) ==
    /\ <<h, timeout.on>> \in timers
    /\ ~RowLocked(h)
    /\ StillWaiting(h, timeout)
    /\ status' = [status EXCEPT ![h] = timeout.hail]
    /\ vdStatus' = [vdStatus EXCEPT ![booking[h].vd] = timeout.taxi]
    /\ timers' \in {timers, timers \ {<<h, timeout.on>>}}
    /\ pending' = IF timeout.on = "received_by_taxi"
                  THEN pending \cup {Then(h, "timeout", timeout.hail)}
                  ELSE pending
    /\ UNCHANGED <<booking, events, applied, queue, sending, reassign, crashes>>

TimeoutIgnored(h, timeout) ==
    /\ <<h, timeout.on>> \in timers
    /\ ~StillWaiting(h, timeout)
    /\ timers' = timers \ {<<h, timeout.on>>}
    /\ UNCHANGED <<status, booking, events, applied, vdStatus, queue, sending,
                   pending, reassign, crashes>>

-------------------------------------------------------------------------------
\* What a process does after its commit. It reads the hail's status again.

ContinuationDone(p) ==
    /\ pending' = pending \ {p}
    /\ UNCHANGED <<status, booking, events, applied, vdStatus, sending, crashes>>

EnqueueSend(p) ==
    /\ p.kind = "create"
    /\ queue' = queue \cup {p.hail}
    /\ ContinuationDone(p)
    /\ UNCHANGED <<timers, reassign>>

WillReassign(p) ==
    \/ p.kind = "timeout"
    \/ p.kind = "put" /\ status[p.hail] = "declined_by_taxi"

ScheduleTimer(p) ==
    /\ p.kind \in {"send", "put"}
    /\ ~WillReassign(p)
    /\ timers' = timers \cup ({<<p.hail, status[p.hail]>>} \cap (Hail \X TimedStatus))
    /\ ContinuationDone(p)
    /\ UNCHANGED <<queue, reassign>>

-------------------------------------------------------------------------------
\* reassign_after_driver_unavailable

\* Mutant: the limit is compared after one attempt too many.
SessionAllowsOneMore(h, s) ==
    /\ status[h] \in DRIVER_REASSIGNABLE_STATUSES
    /\ \A g \in SessionHails(s) \ {h} : ~IsActive(g)
    /\ Cardinality(SessionHails(s)) <= MaxAttempts

\* Under the locks of the session's hails: the source is still closed by its
\* driver, nothing of the session is active and attempts remain.
SessionAllows(h, s) ==
    /\ status[h] \in DRIVER_REASSIGNABLE_STATUSES
    /\ \A g \in SessionHails(s) \ {h} : ~IsActive(g)
    /\ Cardinality(SessionHails(s)) < MaxAttempts

\* Mutant: a taxi that declined may be asked again.
StillContacted(s) ==
    {booking[h].taxi : h \in {g \in SessionHails(s) :
                                 status[g] # "declined_by_taxi"}}

Contacted(s) == {booking[h].taxi : h \in SessionHails(s)}

\* A candidate: one of the taxi's descriptions reads free. No row is locked.
ReassignBegin(p, t, v) ==
    LET s == booking[p.hail].session IN
    /\ WillReassign(p)
    /\ reassign[s] = None
    /\ SessionAllows(p.hail, s)
    /\ t \notin Contacted(s)
    /\ v \in VdsOf[t]
    /\ vdStatus[v] = "free"
    /\ reassign' = [reassign EXCEPT ![s] = [source |-> p.hail, taxi |-> t,
                                            vd |-> v, rows |-> SessionHails(s)]]
    /\ ContinuationDone(p)
    /\ UNCHANGED <<queue, timers>>

\* The session does not allow it, or no free taxi is near enough with a fresh
\* position and an authorisation for the place, which the environment decides.
ReassignRefused(p) ==
    /\ WillReassign(p)
    /\ reassign[booking[p.hail].session] = None
    /\ ContinuationDone(p)
    /\ UNCHANGED <<queue, timers, reassign>>

ReassignCommit(s, h) ==
    /\ reassign[s] # None
    /\ InsertHail(h, reassign[s].taxi, reassign[s].vd, s, "reassignment")
    /\ reassign' = [reassign EXCEPT ![s] = None]
    /\ pending' = pending \cup {Then(h, "create", "received")}

ReassignDropped(s) ==
    /\ reassign' = [reassign EXCEPT ![s] = None]
    /\ UNCHANGED <<status, booking, events, applied, vdStatus, queue, sending,
                   timers, pending>>

\* The candidate was booked meanwhile: the insert hits the index and raises.
\* (Past the bound on hails, the model gives up the same way.)
ReassignRaises(s) ==
    /\ reassign[s] # None
    /\ \A h \in Hail : ~(IsNext(h) /\ IndexAllows(h, reassign[s].taxi))
    /\ ReassignDropped(s)
    /\ UNCHANGED crashes

-------------------------------------------------------------------------------

\* PUT /taxis/:id, and the conditional suspension with st = "off": refused, or
\* a no-op, while the taxi has an active hail.
DriverSetsStatus(t, v, st) ==
    /\ v \in VdsOf[t]
    /\ ~TaxiHasActiveHail(t)
    /\ st # vdStatus[v]
    /\ vdStatus' = [vdStatus EXCEPT ![v] = st]
    /\ UNCHANGED <<status, booking, events, applied, queue, sending, timers,
                   pending, reassign, crashes>>

\* A process dies. What it had not committed is rolled back; what it had still
\* to do after its commit is lost. Messages in the broker survive.
CrashOnce ==
    /\ crashes < MaxCrashes
    /\ crashes' = crashes + 1

CrashAfterCommit(p) == 
    /\ CrashOnce
    /\ pending' = pending \ {p}
    /\ UNCHANGED <<status, booking, events, applied, vdStatus, queue, sending,
                   timers, reassign>>

CrashWhileSending(h) == sending[h] # None /\ CrashOnce /\ SendDropped(h)

CrashWhileReassigning(s) ==
    reassign[s] # None /\ CrashOnce /\ ReassignDropped(s)

-------------------------------------------------------------------------------

Next ==
    \/ \E h \in Hail, t \in Taxi, s \in Session : CreateHail(h, t, s)
    \/ \E h \in Hail : SendBegin(h)
    \/ \E h \in Hail : SendIgnored(h)
    \/ \E h \in Hail, new \in HAIL_STATUS : SendCommit(h, new)
    \/ \E h \in Hail : SendRaises(h)
    \/ \E h \in Hail, new \in AskedOfHail, role \in ROLES,
          e \in Event \cup {None} : PutStatus(h, new, role, e)
    \/ \E h \in Hail, timeout \in TIMEOUTS_BY_STATUS : TimeoutFires(h, timeout)
    \/ \E h \in Hail, timeout \in TIMEOUTS_BY_STATUS : TimeoutIgnored(h, timeout)
    \/ \E p \in pending : EnqueueSend(p)
    \/ \E p \in pending : ScheduleTimer(p)
    \/ \E p \in pending, t \in Taxi, v \in Vd : ReassignBegin(p, t, v)
    \/ \E p \in pending : ReassignRefused(p)
    \/ \E s \in Session, h \in Hail : ReassignCommit(s, h)
    \/ \E s \in Session : ReassignRaises(s)
    \/ \E t \in Taxi, v \in Vd, st \in AskedOfTaxi :
          DriverSetsStatus(t, v, st)
    \/ \E p \in pending : CrashAfterCommit(p)
    \/ \E h \in Hail : CrashWhileSending(h)
    \/ \E s \in Session : CrashWhileReassigning(s)

Spec == Init /\ [][Next]_vars

-------------------------------------------------------------------------------

\* Weak fairness of everything the workers and the broker do on their own.
\* Users are never obliged to act, and nothing obliges a process to crash.
Fairness ==
    /\ \A h \in Hail :
          /\ WF_vars(SendBegin(h))
          /\ WF_vars(\E new \in HAIL_STATUS : SendCommit(h, new))
          /\ \A timeout \in TIMEOUTS_BY_STATUS : WF_vars(TimeoutFires(h, timeout))
    /\ \A p \in Continuation :
          WF_vars(/\ p \in pending
                  /\ \/ EnqueueSend(p)
                     \/ ScheduleTimer(p)
                     \/ ReassignRefused(p)
                     \/ \E t \in Taxi, v \in Vd : ReassignBegin(p, t, v))
    /\ \A s \in Session :
          WF_vars((\E h \in Hail : ReassignCommit(s, h)) \/ ReassignRaises(s))

FairSpec == Spec /\ Fairness

-------------------------------------------------------------------------------
\* Safety

\* A taxi never has two hails under way at once, whichever of the creation
\* view, the reassignment and the operator task makes a hail active
\* (migration b1f4c7d2e903 and the checks in front of its index).
OneActiveHailPerTaxi ==
    \A g, h \in Hail :
        IsActive(g) /\ IsActive(h) /\ g # h => booking[g].taxi # booking[h].taxi

\* The taxi's slot in TaxiBooking holds its hail under way.
Slot(t) == IF TaxiHasActiveHail(t)
           THEN CHOOSE h \in Hail : IsActive(h) /\ booking[h].taxi = t
           ELSE None

Booked == INSTANCE TaxiBooking WITH slot <- [t \in Taxi |-> Slot(t)]

\* Dispatch implements one slot per taxi: a taxi passes from a hail to another
\* only through a state where it serves none.
ImplementsTaxiBooking == Booked!Spec

\* Somebody is always going to act on a hail under way: its operator request
\* is still to be sent, or a timeout is armed for the very status it is in, or
\* the process that must do one or the other has not finished. Holds until a
\* process dies between a commit and what follows it, or a reply raises.
NoHailIsForgotten ==
    \A h \in Hail :
        IsActive(h) /\ crashes = 0 =>
            IF status[h] = "received"
            THEN \/ h \in queue
                 \/ sending[h] # None
                 \/ \E p \in pending : p.hail = h /\ p.kind = "create"
            ELSE \/ <<h, status[h]>> \in timers
                 \/ \E p \in pending : p.hail = h /\ p.kind \in {"send", "put"}

\* The two tables agree: while a hail is under way its taxi reads answering,
\* then oncoming, then occupied, and is never offered as free. Holds when no
\* customer cancels while the operator is being asked and no two taxis share
\* a vehicle description.
TaxiStatusFollowsHail ==
    \A h \in Hail :
        IsActive(h) =>
            vdStatus[booking[h].vd] =
                CASE status[h] = "accepted_by_customer" -> "oncoming"
                  [] status[h] = "customer_on_board" -> "occupied"
                  [] OTHER -> "answering"

\* A session sends at most MaxAttempts requests of which the first is the
\* customer's own: the limit on contacted taxis survives concurrent refusals.
AttemptsAreLimited ==
    \A s \in Session :
        Cardinality({h \in SessionHails(s) : booking[h].via = "reassignment"})
            < MaxAttempts

\* Replaying an event id never changes the hail a second time.
EventAppliedOnce == \A h \in Hail, e \in Event : applied[h][e] <= 1

-------------------------------------------------------------------------------
\* Action properties

\* A terminal hail is over: no step gives it another status.
TerminalIsFinal ==
    [][\A h \in Hail : status[h] \in HAIL_TERMINAL_STATUS
                       => status'[h] = status[h]]_vars

InsertedByReassignment(h) ==
    /\ status[h] = "absent"
    /\ status'[h] # "absent"
    /\ booking'[h].via = "reassignment"

\* Redistribution never calls a taxi the session had contacted, even when two
\* drivers of the session give up at the same time. (It cannot know of a hail
\* the customer places by hand once it has locked the session's hails.)
NeverContactedTwice ==
    [][\A h \in Hail :
          InsertedByReassignment(h) =>
              LET s == booking'[h].session IN
              \A g \in SessionHails(s) :
                  booking[g].taxi = booking'[h].taxi =>
                      /\ booking[g].via = "added_by"
                      /\ g \notin reassign[s].rows]_vars

-------------------------------------------------------------------------------
\* Liveness

\* Every hail ends, whatever its customer and its driver do or leave undone:
\* one of the automatic failures and timeouts eventually closes it.
EveryHailEnds == \A h \in Hail : IsActive(h) ~> ~IsActive(h)
===============================================================================
