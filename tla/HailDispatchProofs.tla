-------------------------- MODULE HailDispatchProofs --------------------------
(***************************************************************************)
(* What holds of HailDispatch, and of what its hails disclose, for every   *)
(* set of taxis, sessions and events and every bound.                      *)
(***************************************************************************)
EXTENDS HailDisclosure, FiniteSetTheorems, TLAPS

\* The status a transition gives a taxi is one the column can hold.
LEMMA TaxiStatusAfterType ==
    ASSUME NEW new, NEW old \in VEHICLE_STATUS
    PROVE  TaxiStatusAfter(new, old) \in VEHICLE_STATUS
BY DEF TaxiStatusAfter, VEHICLE_STATUS, UPDATABLE_VEHICLE_STATUS

\* Timeouts are from a timed status, to statuses the columns can hold.
LEMMA TimeoutType ==
    ASSUME NEW timeout \in TIMEOUTS_BY_STATUS
    PROVE  /\ timeout.on \in TimedStatus
           /\ timeout.hail \in HAIL_TERMINAL_STATUS
           /\ timeout.taxi \in VEHICLE_STATUS
BY DEF TIMEOUTS_BY_STATUS, TimedStatus, HAIL_TERMINAL_STATUS, VEHICLE_STATUS,
       UPDATABLE_VEHICLE_STATUS

\* Permitted transitions are between statuses of a hail, from an active one.
LEMMA PermittedType ==
    ASSUME NEW from, NEW to, NEW role, Permitted(from, to, role)
    PROVE  from \in HAIL_ACTIVE_STATUS /\ to \in HAIL_STATUS
BY DEF Permitted, TRANSITIONS, HAIL_STATUS, HAIL_ACTIVE_STATUS,
       HAIL_TERMINAL_STATUS

\* "absent" is no status of a hail, and no status is active and terminal.
LEMMA StatusesDiffer ==
    /\ "absent" \notin HAIL_STATUS
    /\ HAIL_ACTIVE_STATUS \cap HAIL_TERMINAL_STATUS = {}
    /\ HAIL_ACTIVE_STATUS \subseteq HAIL_STATUS
    /\ HAIL_TERMINAL_STATUS \subseteq HAIL_STATUS
    /\ TimedStatus \subseteq HAIL_ACTIVE_STATUS
BY DEF HAIL_STATUS, HAIL_ACTIVE_STATUS, HAIL_TERMINAL_STATUS, TimedStatus

-------------------------------------------------------------------------------

\* What inserting a row leaves well typed, for both callers of InsertHail.
LEMMA InsertHailType ==
    ASSUME TypeOK,
           NEW h \in Hail, NEW t \in Taxi, NEW v \in Vd, NEW s \in Session,
           NEW via \in {"added_by", "reassignment"},
           InsertHail(h, t, v, s, via)
    PROVE  /\ RowTypes'
           /\ \A g \in Hail : booking'[g] = None <=> status'[g] = "absent"
           /\ \A g \in Hail : status[g] # "absent" => status'[g] # "absent"
           /\ status'[h] # "absent"
<1> USE DEF TypeOK, RowTypes, ProcessTypes, NoDangling, InsertHail
<1>1. "received" \in HAIL_STATUS /\ "answering" \in VEHICLE_STATUS
  BY DEF HAIL_STATUS, HAIL_ACTIVE_STATUS, VEHICLE_STATUS
<1>2. [taxi |-> t, vd |-> v, session |-> s, via |-> via] \in Booking
  BY DEF Booking
<1>3. [taxi |-> t, vd |-> v, session |-> s, via |-> via] # None
  BY <1>2, DispatchAssumption
<1>4. RowTypes'
  BY <1>1, <1>2
<1>5. QED
  BY <1>1, <1>3, <1>4

\* Continuations are about hails, and removing one keeps everything typed.
LEMMA ThenType ==
    ASSUME NEW h \in Hail, NEW kind \in {"create", "send", "put", "timeout"},
           NEW after \in HAIL_STATUS
    PROVE  /\ Then(h, kind, after) \in Continuation
           /\ Then(h, kind, after).hail = h
BY DEF Then, Continuation

-------------------------------------------------------------------------------

\* Every variable keeps its type, and every message, running task and lock is
\* about a row that exists (the rows of hail, and what the workers hold of them).
THEOREM TypeCorrect == Spec => []TypeOK
<1>1. Init => TypeOK
  <2> SUFFICES ASSUME Init PROVE TypeOK
    OBVIOUS
  <2>1. RowTypes
    BY DEF Init, RowTypes, VEHICLE_STATUS, UPDATABLE_VEHICLE_STATUS
  <2>2. ProcessTypes
    BY DispatchAssumption DEF Init, ProcessTypes
  <2>3. NoDangling
    BY DEF Init, NoDangling
  <2>4. QED
    BY <2>1, <2>2, <2>3 DEF TypeOK
<1>2. TypeOK /\ [Next]_vars => TypeOK'
  <2> SUFFICES ASSUME TypeOK, [Next]_vars PROVE TypeOK'
    OBVIOUS
  <2> USE DEF TypeOK, RowTypes, ProcessTypes, NoDangling
  <2> USE StatusesDiffer
  <2>1. ASSUME NEW h \in Hail, NEW t \in Taxi, NEW s \in Session,
               CreateHail(h, t, s)
        PROVE  TypeOK'
    <3>1. OwnVd[t] \in Vd
      BY DispatchAssumption
    <3>2. /\ RowTypes'
          /\ \A g \in Hail : booking'[g] = None <=> status'[g] = "absent"
          /\ \A g \in Hail : status[g] # "absent" => status'[g] # "absent"
          /\ status'[h] # "absent"
      <4>1. InsertHail(h, t, OwnVd[t], s, "added_by")
        BY <2>1 DEF CreateHail
      <4>2. QED
        BY <3>1, <4>1, InsertHailType
    <3>3. /\ pending' = pending \cup {Then(h, "create", "received")}
          /\ UNCHANGED <<queue, sending, timers, reassign, crashes>>
      BY <2>1 DEF CreateHail, InsertHail
    <3>4. /\ Then(h, "create", "received") \in Continuation
          /\ Then(h, "create", "received").hail = h
      BY ThenType DEF HAIL_STATUS, HAIL_ACTIVE_STATUS
    <3>5. ProcessTypes'
      BY <3>3, <3>4
    <3>6. NoDangling'
      BY <3>2, <3>3, <3>4 DEF Reassignment, Continuation
    <3>7. QED
      BY <3>2, <3>5, <3>6
  <2>2. ASSUME NEW h \in Hail, SendBegin(h) PROVE TypeOK'
    <3>1. booking[h] \in Booking
      BY <2>2 DEF SendBegin
    <3>2. [taxi |-> vdStatus[booking[h].vd], events |-> events[h]] \in Snapshot
      BY <3>1 DEF Snapshot, Booking
    <3>3. QED
      BY <2>2, <3>2 DEF SendBegin
  <2>3. ASSUME NEW h \in Hail, SendIgnored(h) PROVE TypeOK'
    BY <2>3 DEF SendIgnored
  <2>4. ASSUME NEW h \in Hail, NEW new \in HAIL_STATUS, SendCommit(h, new)
        PROVE  TypeOK'
    <3>1. sending[h] \in Snapshot /\ sending[h].events \in SUBSET LoggedEvent
      BY <2>4 DEF SendCommit, Snapshot
    <3>2. booking[h] \in Booking /\ booking[h].vd \in Vd
      BY <2>4 DEF SendCommit, Booking
    <3>3. /\ Then(h, "send", new) \in Continuation
          /\ Then(h, "send", new).hail = h
      BY ThenType
    <3>4. RowTypes'
      BY <2>4, <3>1, <3>2 DEF SendCommit, VEHICLE_STATUS, UPDATABLE_VEHICLE_STATUS
    <3>5. ProcessTypes'
      BY <2>4, <3>3 DEF SendCommit
    <3>6. NoDangling'
      BY <2>4, <3>3 DEF SendCommit, Reassignment, Continuation
    <3>7. QED
      BY <3>4, <3>5, <3>6
  <2>5. ASSUME NEW h \in Hail, SendRaises(h) PROVE TypeOK'
    <3>1. /\ sending' = [sending EXCEPT ![h] = None]
          /\ UNCHANGED <<status, booking, events, applied, vdStatus, queue, timers,
                         pending, reassign>>
      BY <2>5 DEF SendRaises, SendDropped
    <3>2. \/ crashes' = crashes
          \/ crashes < MaxCrashes /\ crashes' = crashes + 1
      BY <2>5 DEF SendRaises
    <3>3. crashes' \in 0..MaxCrashes
      <4>1. crashes \in 0..MaxCrashes
        OBVIOUS
      <4>2. QED
        BY ONLY <3>2, <4>1, DispatchAssumption
    <3>4. RowTypes' /\ ProcessTypes' /\ NoDangling'
      BY <3>1, <3>3
    <3>5. QED
      BY <3>4
  <2>6. ASSUME NEW h \in Hail, NEW new \in AskedOfHail, NEW role \in ROLES,
               NEW e \in Event \cup {None}, PutStatus(h, new, role, e)
        PROVE  TypeOK'
    <3>1. status[h] \in HAIL_ACTIVE_STATUS /\ new \in HAIL_STATUS
      BY <2>6, PermittedType DEF PutStatus
    <3>2. booking[h] \in Booking /\ booking[h].vd \in Vd
      BY <3>1 DEF Booking
    <3>3. TaxiStatusAfter(new, vdStatus[booking[h].vd]) \in VEHICLE_STATUS
      BY <3>2, TaxiStatusAfterType
    <3>4. e # None => [id |-> e, to |-> new, by |-> role] \in LoggedEvent
      BY <3>1 DEF LoggedEvent
    <3>5. /\ Then(h, "put", new) \in Continuation
          /\ Then(h, "put", new).hail = h
      BY <3>1, ThenType
    <3>6. events' \in [Hail -> SUBSET LoggedEvent]
      BY <2>6, <3>4 DEF PutStatus
    <3>7. applied' \in [Hail -> [Event -> Nat]]
      BY <2>6 DEF PutStatus
    <3>8. vdStatus' \in [Vd -> VEHICLE_STATUS]
      BY <2>6, <3>2, <3>3 DEF PutStatus
    <3>9. RowTypes'
      BY <2>6, <3>1, <3>6, <3>7, <3>8 DEF PutStatus
    <3>10. ProcessTypes'
      BY <2>6, <3>5 DEF PutStatus
    <3>11. NoDangling'
      BY <2>6, <3>1, <3>5 DEF PutStatus, Reassignment, Continuation
    <3>12. QED
      BY <3>9, <3>10, <3>11
  <2>7. ASSUME NEW h \in Hail, NEW timeout \in TIMEOUTS_BY_STATUS,
               TimeoutFires(h, timeout)
        PROVE  TypeOK'
    <3>1. /\ status[h] \in HAIL_ACTIVE_STATUS
          /\ timeout.hail \in HAIL_TERMINAL_STATUS
          /\ timeout.taxi \in VEHICLE_STATUS
      BY <2>7, TimeoutType DEF TimeoutFires, StillWaiting
    <3>2. booking[h] \in Booking /\ booking[h].vd \in Vd
      BY <3>1 DEF Booking
    <3>3. /\ Then(h, "timeout", timeout.hail) \in Continuation
          /\ Then(h, "timeout", timeout.hail).hail = h
      BY <3>1, ThenType
    <3>4. RowTypes'
      BY <2>7, <3>1, <3>2 DEF TimeoutFires
    <3>5. ProcessTypes'
      BY <2>7, <3>3 DEF TimeoutFires
    <3>6. NoDangling'
      BY <2>7, <3>1, <3>3 DEF TimeoutFires, Reassignment, Continuation
    <3>7. QED
      BY <3>4, <3>5, <3>6
  <2>8. ASSUME NEW h \in Hail, NEW timeout \in TIMEOUTS_BY_STATUS,
               TimeoutIgnored(h, timeout)
        PROVE  TypeOK'
    BY <2>8 DEF TimeoutIgnored
  <2>9. ASSUME NEW p \in pending, EnqueueSend(p) PROVE TypeOK'
    BY <2>9 DEF EnqueueSend, ContinuationDone, Continuation
  <2>10. ASSUME NEW p \in pending, ScheduleTimer(p) PROVE TypeOK'
    BY <2>10 DEF ScheduleTimer, ContinuationDone
  <2>11. ASSUME NEW p \in pending, NEW t \in Taxi, NEW v \in Vd,
                ReassignBegin(p, t, v)
         PROVE  TypeOK'
    <3> DEFINE s == booking[p.hail].session
    <3>1. p.hail \in Hail /\ booking[p.hail] \in Booking
      BY DEF Continuation
    <3>2. s \in Session
      BY <3>1 DEF Booking
    <3>3. SessionHails(s) \subseteq Hail
          /\ \A h \in SessionHails(s) : status[h] # "absent"
      BY DEF SessionHails
    <3>4. [source |-> p.hail, taxi |-> t, vd |-> v, rows |-> SessionHails(s)]
            \in Reassignment
      BY <3>1, <3>3 DEF Reassignment
    <3>5. reassign' = [reassign EXCEPT
            ![s] = [source |-> p.hail, taxi |-> t, vd |-> v,
                    rows |-> SessionHails(s)]]
      BY <2>11 DEF ReassignBegin
    <3>6. /\ pending' = pending \ {p}
          /\ UNCHANGED <<status, booking, events, applied, vdStatus, sending,
                         crashes, queue, timers>>
      BY <2>11 DEF ReassignBegin, ContinuationDone
    <3> HIDE DEF s
    <3>7. QED
      BY <3>2, <3>3, <3>4, <3>5, <3>6
  <2>12. ASSUME NEW p \in pending, ReassignRefused(p) PROVE TypeOK'
    BY <2>12 DEF ReassignRefused, ContinuationDone
  <2>13. ASSUME NEW s \in Session, NEW h \in Hail, ReassignCommit(s, h)
         PROVE  TypeOK'
    <3>1. reassign[s] \in Reassignment
      BY <2>13 DEF ReassignCommit
    <3>2. reassign[s].taxi \in Taxi /\ reassign[s].vd \in Vd
      BY <3>1 DEF Reassignment
    <3>3. /\ RowTypes'
          /\ \A g \in Hail : booking'[g] = None <=> status'[g] = "absent"
          /\ \A g \in Hail : status[g] # "absent" => status'[g] # "absent"
          /\ status'[h] # "absent"
      <4>1. InsertHail(h, reassign[s].taxi, reassign[s].vd, s, "reassignment")
        BY <2>13 DEF ReassignCommit
      <4>2. QED
        BY <3>2, <4>1, InsertHailType
    <3>4. /\ pending' = pending \cup {Then(h, "create", "received")}
          /\ reassign' = [reassign EXCEPT ![s] = None]
          /\ UNCHANGED <<queue, sending, timers, crashes>>
      BY <2>13 DEF ReassignCommit, InsertHail
    <3>5. /\ Then(h, "create", "received") \in Continuation
          /\ Then(h, "create", "received").hail = h
      BY ThenType DEF HAIL_STATUS, HAIL_ACTIVE_STATUS
    <3>6. ProcessTypes'
      BY <3>4, <3>5
    <3>7. NoDangling'
      BY <3>3, <3>4, <3>5 DEF Reassignment, Continuation
    <3>8. QED
      BY <3>3, <3>6, <3>7
  <2>14. ASSUME NEW s \in Session, ReassignRaises(s) PROVE TypeOK'
    BY <2>14 DEF ReassignRaises, ReassignDropped
  <2>15. ASSUME NEW t \in Taxi, NEW v \in Vd, NEW st \in AskedOfTaxi,
                DriverSetsStatus(t, v, st)
         PROVE  TypeOK'
    <3>1. st \in VEHICLE_STATUS
      BY DispatchAssumption DEF VEHICLE_STATUS
    <3>2. QED
      BY <2>15, <3>1 DEF DriverSetsStatus
  <2>16. ASSUME NEW p \in pending, CrashAfterCommit(p) PROVE TypeOK'
    BY <2>16, DispatchAssumption DEF CrashAfterCommit, CrashOnce
  <2>17. ASSUME NEW h \in Hail, CrashWhileSending(h) PROVE TypeOK'
    BY <2>17, DispatchAssumption DEF CrashWhileSending, CrashOnce, SendDropped
  <2>18. ASSUME NEW s \in Session, CrashWhileReassigning(s) PROVE TypeOK'
    BY <2>18, DispatchAssumption
    DEF CrashWhileReassigning, CrashOnce, ReassignDropped
  <2>19. ASSUME UNCHANGED vars PROVE TypeOK'
    BY <2>19 DEF vars
  <2>20. QED
    BY <2>1, <2>2, <2>3, <2>4, <2>5, <2>6, <2>7, <2>8, <2>9, <2>10, <2>11,
       <2>12, <2>13, <2>14, <2>15, <2>16, <2>17, <2>18, <2>19 DEF Next
<1>3. QED
  BY <1>1, <1>2, PTL DEF Spec

-------------------------------------------------------------------------------
\* One hail under way per taxi

\* A step that changes at most hail h, and makes it active only where the index
\* allows it, keeps the taxis' hails apart.
LEMMA OneHailMoves ==
    ASSUME OneActiveHailPerTaxi, NEW h \in Hail,
           \A g \in Hail \ {h} : status'[g] = status[g] /\ booking'[g] = booking[g],
           IsActive(h)' => IndexAllows(h, booking'[h].taxi)
    PROVE  OneActiveHailPerTaxi'
<1> SUFFICES ASSUME NEW f \in Hail, NEW g \in Hail,
                    IsActive(f)', IsActive(g)', f # g
             PROVE  booking'[f].taxi # booking'[g].taxi
  BY DEF OneActiveHailPerTaxi
<1>1. CASE f = h
  BY <1>1 DEF IsActive, IndexAllows
<1>2. CASE g = h
  BY <1>2 DEF IsActive, IndexAllows
<1>3. CASE f # h /\ g # h
  BY <1>3 DEF IsActive, OneActiveHailPerTaxi
<1>4. QED
  BY <1>1, <1>2, <1>3

\* The index has nothing to say of a hail that is under way already.
LEMMA ActiveIsAllowed ==
    ASSUME OneActiveHailPerTaxi, NEW h \in Hail, IsActive(h)
    PROVE  IndexAllows(h, booking[h].taxi)
BY DEF OneActiveHailPerTaxi, IndexAllows

\* What every step does to the rows of hail: it leaves them alone, or it moves
\* one hail, which it makes or keeps active only where the index allows it, and
\* never to another taxi.
HailSteps ==
    \/ UNCHANGED <<status, booking>>
    \/ \E h \in Hail :
          /\ \A g \in Hail \ {h} : /\ status'[g] = status[g]
                                   /\ booking'[g] = booking[g]
          /\ IsActive(h)' => IndexAllows(h, booking'[h].taxi)
          /\ IsActive(h) => booking'[h] = booking[h]

\* The steps that leave the rows of hail alone: they are about messages,
\* processes, and the statuses drivers choose.
QuietStep ==
    \/ \E h \in Hail : \/ SendBegin(h) \/ SendIgnored(h)
                       \/ SendRaises(h) \/ CrashWhileSending(h)
    \/ \E h \in Hail, timeout \in TIMEOUTS_BY_STATUS : TimeoutIgnored(h, timeout)
    \/ \E p \in pending : \/ EnqueueSend(p) \/ ScheduleTimer(p)
                          \/ ReassignRefused(p) \/ CrashAfterCommit(p)
    \/ \E p \in pending, t \in Taxi, v \in Vd : ReassignBegin(p, t, v)
    \/ \E s \in Session : ReassignRaises(s) \/ CrashWhileReassigning(s)
    \/ \E t \in Taxi, v \in Vd, st \in AskedOfTaxi : DriverSetsStatus(t, v, st)
    \/ UNCHANGED vars

LEMMA QuietLeavesRows ==
    ASSUME QuietStep
    PROVE  UNCHANGED <<status, booking, events, applied>>
BY DEF QuietStep, SendBegin, SendIgnored, SendRaises, CrashWhileSending,
       TimeoutIgnored, EnqueueSend, ScheduleTimer, ReassignRefused,
       CrashAfterCommit, ReassignBegin, ReassignRaises, CrashWhileReassigning,
       DriverSetsStatus, ContinuationDone, SendDropped, ReassignDropped, vars

\* Of every hail, a step leaves the status alone or changes it as HailStep says.
LEMMA NextHailSteps ==
    ASSUME TypeOK, OneActiveHailPerTaxi, [Next]_vars
    PROVE  HailSteps
<1> USE DEF TypeOK, RowTypes, ProcessTypes, NoDangling, HailSteps
<1> USE StatusesDiffer
<1>1. ASSUME NEW h \in Hail, NEW t, NEW v, NEW s, NEW via,
             InsertHail(h, t, v, s, via)
      PROVE  HailSteps
  BY <1>1 DEF InsertHail, IsNext, IsActive
<1>2. ASSUME NEW h \in Hail, NEW t \in Taxi, NEW s \in Session,
             CreateHail(h, t, s)
      PROVE  HailSteps
  BY <1>1, <1>2 DEF CreateHail
<1>3. ASSUME NEW h \in Hail, NEW new \in HAIL_STATUS, SendCommit(h, new)
      PROVE  HailSteps
  <2>1. IsActive(h)' => IndexAllows(h, booking[h].taxi)
    BY <1>3 DEF SendCommit, IsActive, HAIL_ACTIVE_STATUS
  <2>2. QED
    BY <1>3, <2>1 DEF SendCommit
<1>4. ASSUME NEW h \in Hail, NEW new \in AskedOfHail, NEW role \in ROLES,
             NEW e \in Event \cup {None}, PutStatus(h, new, role, e)
      PROVE  HailSteps
  <2>1. IsActive(h)
    BY <1>4, PermittedType DEF PutStatus, IsActive
  <2>2. IndexAllows(h, booking[h].taxi)
    BY <2>1, ActiveIsAllowed
  <2>3. QED
    BY <1>4, <2>2 DEF PutStatus
<1>5. ASSUME NEW h \in Hail, NEW timeout \in TIMEOUTS_BY_STATUS,
             TimeoutFires(h, timeout)
      PROVE  HailSteps
  <2>1. ~IsActive(h)'
    BY <1>5, TimeoutType DEF TimeoutFires, IsActive
  <2>2. QED
    BY <1>5, <2>1 DEF TimeoutFires
<1>6. ASSUME NEW s \in Session, NEW h \in Hail, ReassignCommit(s, h)
      PROVE  HailSteps
  BY <1>1, <1>6 DEF ReassignCommit
<1>7. ASSUME QuietStep PROVE HailSteps
  BY <1>7, QuietLeavesRows
<1>8. QED
  BY <1>2, <1>3, <1>4, <1>5, <1>6, <1>7 DEF Next, QuietStep

\* A taxi never has two hails under way, however creations, redistributions,
\* operator requests, users and timeouts interleave and whatever crashes.
THEOREM OneActiveHail == Spec => []OneActiveHailPerTaxi
<1>1. Init => OneActiveHailPerTaxi
  BY StatusesDiffer DEF Init, OneActiveHailPerTaxi, IsActive
<1>2. TypeOK /\ OneActiveHailPerTaxi /\ [Next]_vars => OneActiveHailPerTaxi'
  <2> SUFFICES ASSUME TypeOK, OneActiveHailPerTaxi, [Next]_vars
               PROVE  OneActiveHailPerTaxi'
    OBVIOUS
  <2>1. CASE UNCHANGED <<status, booking>>
    BY <2>1 DEF OneActiveHailPerTaxi, IsActive
  <2>2. CASE ~UNCHANGED <<status, booking>>
    BY <2>2, NextHailSteps, OneHailMoves DEF HailSteps
  <2>3. QED
    BY <2>1, <2>2
<1>3. QED
  BY <1>1, <1>2, TypeCorrect, PTL DEF Spec

-------------------------------------------------------------------------------
\* The refinement of TaxiBooking

\* A taxi's slot holds its one hail under way, and None when it has none.
SlotsHoldActiveHails ==
    \A t \in Taxi :
        /\ \A h \in Hail : Slot(t) = h <=> IsActive(h) /\ booking[h].taxi = t
        /\ Slot(t) = None <=> ~TaxiHasActiveHail(t)

\* With one active hail per taxi, the slots of TaxiBooking are those of the hails.
LEMMA SlotMeaning == OneActiveHailPerTaxi => SlotsHoldActiveHails
<1> SUFFICES ASSUME OneActiveHailPerTaxi, NEW t \in Taxi
             PROVE  /\ \A h \in Hail : Slot(t) = h
                                       <=> IsActive(h) /\ booking[h].taxi = t
                    /\ Slot(t) = None <=> ~TaxiHasActiveHail(t)
  BY DEF SlotsHoldActiveHails
<1>1. CASE TaxiHasActiveHail(t)
  <2>1. PICK g \in Hail : IsActive(g) /\ booking[g].taxi = t
    BY <1>1 DEF TaxiHasActiveHail
  <2>2. Slot(t) \in Hail /\ IsActive(Slot(t)) /\ booking[Slot(t)].taxi = t
    BY <1>1, <2>1 DEF Slot
  <2>3. Slot(t) # None
    BY <2>2, DispatchAssumption
  <2>4. QED
    BY <1>1, <2>2, <2>3 DEF OneActiveHailPerTaxi
<1>2. CASE ~TaxiHasActiveHail(t)
  <2>1. Slot(t) = None
    BY <1>2 DEF Slot
  <2>2. QED
    BY <1>2, <2>1, DispatchAssumption DEF TaxiHasActiveHail
<1>3. QED
  BY <1>1, <1>2

\* A step that leaves every hail as it was leaves every slot as it was.
LEMMA SlotsStay ==
    ASSUME SlotsHoldActiveHails, SlotsHoldActiveHails',
           \A h \in Hail : IsActive(h)' = IsActive(h)
                           /\ (IsActive(h) => booking'[h] = booking[h])
    PROVE  \A t \in Taxi : Slot(t)' = Slot(t)
<1> SUFFICES ASSUME NEW t \in Taxi PROVE Slot(t)' = Slot(t)
  OBVIOUS
<1>1. CASE TaxiHasActiveHail(t)
  <2>1. PICK h \in Hail : IsActive(h) /\ booking[h].taxi = t
    BY <1>1 DEF TaxiHasActiveHail
  <2>2. Slot(t) = h /\ Slot(t)' = h
    BY <2>1 DEF SlotsHoldActiveHails
  <2>3. QED
    BY <2>2
<1>2. CASE ~TaxiHasActiveHail(t)
  <2>1. ~TaxiHasActiveHail(t)'
    BY <1>2 DEF TaxiHasActiveHail
  <2>2. QED
    BY <1>2, <2>1 DEF SlotsHoldActiveHails
<1>3. QED
  BY <1>1, <1>2

\* Taxis other than the moving hail's keep their slot.
LEMMA OtherSlotsStay ==
    ASSUME SlotsHoldActiveHails, SlotsHoldActiveHails', NEW h \in Hail,
           \A g \in Hail \ {h} : status'[g] = status[g] /\ booking'[g] = booking[g],
           NEW t \in Taxi,
           ~(IsActive(h) /\ booking[h].taxi = t),
           ~(IsActive(h)' /\ booking'[h].taxi = t)
    PROVE  Slot(t)' = Slot(t)
<1>1. \A g \in Hail : (IsActive(g)' /\ booking'[g].taxi = t)
                      <=> (IsActive(g) /\ booking[g].taxi = t)
  BY DEF IsActive
<1>2. CASE TaxiHasActiveHail(t)
  <2>1. PICK g \in Hail : IsActive(g) /\ booking[g].taxi = t
    BY <1>2 DEF TaxiHasActiveHail
  <2>2. Slot(t) = g /\ Slot(t)' = g
    BY <1>1, <2>1 DEF SlotsHoldActiveHails
  <2>3. QED
    BY <2>2
<1>3. CASE ~TaxiHasActiveHail(t)
  <2>1. ~TaxiHasActiveHail(t)'
    BY <1>1, <1>3 DEF TaxiHasActiveHail
  <2>2. QED
    BY <1>3, <2>1 DEF SlotsHoldActiveHails
<1>4. QED
  BY <1>2, <1>3

\* Dispatch implements the slots of TaxiBooking: each step books a free taxi,
\* releases a taxi, or leaves the slots alone.
THEOREM BookingRefinement == Spec => ImplementsTaxiBooking
<1> DEFINE slots == [t \in Taxi |-> Slot(t)]
<1>1. Init => Booked!Init
  BY StatusesDiffer DEF Init, Booked!Init, Slot, TaxiHasActiveHail, IsActive
<1>2. ASSUME TypeOK, TypeOK', OneActiveHailPerTaxi, OneActiveHailPerTaxi',
             SlotsHoldActiveHails, SlotsHoldActiveHails', [Next]_vars
      PROVE  [Booked!Next]_slots
  <2>1. HailSteps
    BY <1>2, NextHailSteps
  <2>2. CASE UNCHANGED <<status, booking>>
    BY <1>2, <2>2, SlotsStay DEF IsActive
  <2>3. ASSUME NEW h \in Hail,
               \A g \in Hail \ {h} : /\ status'[g] = status[g]
                                     /\ booking'[g] = booking[g],
               IsActive(h)' => IndexAllows(h, booking'[h].taxi),
               IsActive(h) => booking'[h] = booking[h]
        PROVE  [Booked!Next]_slots
    <3>1. \A g \in Hail \ {h} : IsActive(g)' = IsActive(g)
      BY <2>3 DEF IsActive
    <3>2. CASE IsActive(h)' = IsActive(h)
      <4>1. \A g \in Hail : /\ IsActive(g)' = IsActive(g)
                            /\ IsActive(g) => booking'[g] = booking[g]
        BY <2>3, <3>1, <3>2
      <4>2. \A t \in Taxi : Slot(t)' = Slot(t)
        BY <1>2, <4>1, SlotsStay
      <4>3. QED
        BY <4>2
    <3>3. CASE ~IsActive(h) /\ IsActive(h)'
      <4>0. booking'[h] \in Booking
        BY <1>2, <3>3, StatusesDiffer DEF TypeOK, RowTypes, NoDangling, IsActive
      <4>1. PICK t \in Taxi : t = booking'[h].taxi
        BY <4>0 DEF Booking
      <4>2. Slot(t) = None /\ Slot(t)' = h
        BY <1>2, <2>3, <3>3, <4>1
        DEF SlotsHoldActiveHails, TaxiHasActiveHail, IndexAllows
      <4>3. \A u \in Taxi : Slot(u) # h
        BY <1>2, <3>3 DEF SlotsHoldActiveHails
      <4>4. \A u \in Taxi \ {t} : Slot(u)' = Slot(u)
        BY <1>2, <2>3, <3>3, <4>1, OtherSlotsStay
      <4>5. slots' = [slots EXCEPT ![t] = h]
        BY <4>1, <4>2, <4>4
      <4>6. Booked!Book(t, h)
        BY <4>1, <4>2, <4>3, <4>5 DEF Booked!Book
      <4>7. QED
        BY <4>1, <4>6 DEF Booked!Next
    <3>4. CASE IsActive(h) /\ ~IsActive(h)'
      <4>1. PICK t \in Taxi : t = booking[h].taxi
        BY <1>2, <3>4, StatusesDiffer
        DEF TypeOK, RowTypes, NoDangling, Booking, IsActive
      <4>2. Slot(t) = h
        BY <1>2, <3>4, <4>1 DEF SlotsHoldActiveHails
      <4>3. \A g \in Hail : ~(IsActive(g)' /\ booking'[g].taxi = t)
        BY <1>2, <2>3, <3>1, <3>4, <4>1 DEF OneActiveHailPerTaxi
      <4>4. Slot(t)' = None
        BY <1>2, <4>1, <4>3 DEF SlotsHoldActiveHails, TaxiHasActiveHail
      <4>5. \A u \in Taxi \ {t} : Slot(u)' = Slot(u)
        BY <1>2, <2>3, <3>4, <4>1, OtherSlotsStay
      <4>6. slots' = [slots EXCEPT ![t] = None]
        BY <4>1, <4>4, <4>5
      <4>7. Slot(t) # None
        BY <4>2, DispatchAssumption
      <4>8. Booked!Release(t)
        BY <4>1, <4>6, <4>7 DEF Booked!Release
      <4>9. QED
        BY <4>1, <4>8 DEF Booked!Next
    <3>5. QED
      BY <3>2, <3>3, <3>4 DEF IsActive
  <2>4. QED
    BY <2>1, <2>2, <2>3 DEF HailSteps
<1>3. QED
  BY <1>1, <1>2, TypeCorrect, OneActiveHail, SlotMeaning, PTL
  DEF Spec, Booked!Spec, ImplementsTaxiBooking

-------------------------------------------------------------------------------
\* The operator's request and the log, when no customer cancels meanwhile

\* While the operator is being asked, nobody touches the hail: what the task
\* read of the log is still what the log holds.
UndisturbedRequests ==
    \A h \in Hail :
        sending[h] # None => /\ status[h] = "received"
                             /\ sending[h].events = events[h]

\* The log names the event ids that changed the hail, and each did so once.
LogIsTrue ==
    \A h \in Hail, e \in Event :
        applied[h][e] = IF \E logged \in events[h] : logged.id = e THEN 1 ELSE 0

\* Inserting a row disturbs no request: the row was not there before.
LEMMA InsertDisturbsNone ==
    ASSUME TypeOK, UndisturbedRequests, NEW h \in Hail, NEW t, NEW v, NEW s,
           NEW via, InsertHail(h, t, v, s, via)
    PROVE  UndisturbedRequests'
<1>1. sending[h] = None
  BY DEF InsertHail, IsNext, TypeOK, NoDangling
<1>2. /\ \A g \in Hail \ {h} : status'[g] = status[g]
      /\ UNCHANGED <<events, sending>>
  BY DEF InsertHail, TypeOK, RowTypes
<1>3. QED
  BY <1>1, <1>2 DEF UndisturbedRequests

LEMMA RequestsStayUndisturbed ==
    ASSUME TypeOK, UndisturbedRequests, ~CancelWhileSending, [Next]_vars
    PROVE  UndisturbedRequests'
<1>1. ASSUME NEW h \in Hail, NEW t \in Taxi, NEW s \in Session,
             CreateHail(h, t, s)
      PROVE  UndisturbedRequests'
  BY <1>1, InsertDisturbsNone DEF CreateHail
<1>2. ASSUME NEW h \in Hail, SendBegin(h) PROVE UndisturbedRequests'
  <2>1. /\ status[h] = "received"
        /\ sending' = [sending EXCEPT ![h] = [taxi |-> vdStatus[booking[h].vd],
                                              events |-> events[h]]]
        /\ UNCHANGED <<status, events>>
    BY <1>2 DEF SendBegin
  <2>2. sending \in [Hail -> Snapshot \cup {None}]
    BY DEF TypeOK, ProcessTypes
  <2>3. QED
    BY <2>1, <2>2 DEF UndisturbedRequests
<1>3. ASSUME NEW h \in Hail, NEW new \in HAIL_STATUS, SendCommit(h, new)
      PROVE  UndisturbedRequests'
  BY <1>3 DEF SendCommit, UndisturbedRequests, TypeOK, RowTypes, ProcessTypes
<1>4. ASSUME NEW h \in Hail, NEW new \in AskedOfHail, NEW role \in ROLES,
             NEW e \in Event \cup {None}, PutStatus(h, new, role, e)
      PROVE  UndisturbedRequests'
  <2>1. sending[h] = None
    BY <1>4 DEF PutStatus
  <2>2. /\ \A g \in Hail \ {h} : status'[g] = status[g] /\ events'[g] = events[g]
        /\ UNCHANGED sending
    BY <1>4 DEF PutStatus, TypeOK, RowTypes
  <2>3. QED
    BY <2>1, <2>2 DEF UndisturbedRequests
<1>5. ASSUME NEW h \in Hail, NEW timeout \in TIMEOUTS_BY_STATUS,
             TimeoutFires(h, timeout)
      PROVE  UndisturbedRequests'
  <2>1. status[h] # "received"
    BY <1>5, TimeoutType DEF TimeoutFires, StillWaiting, TimedStatus
  <2>2. /\ \A g \in Hail \ {h} : status'[g] = status[g]
        /\ UNCHANGED <<events, sending>>
    BY <1>5 DEF TimeoutFires, TypeOK, RowTypes
  <2>3. QED
    BY <2>1, <2>2 DEF UndisturbedRequests
<1>6. ASSUME NEW s \in Session, NEW h \in Hail, ReassignCommit(s, h)
      PROVE  UndisturbedRequests'
  BY <1>6, InsertDisturbsNone DEF ReassignCommit
<1>7. ASSUME NEW h \in Hail, SendRaises(h) \/ CrashWhileSending(h)
      PROVE  UndisturbedRequests'
  <2>1. /\ sending' = [sending EXCEPT ![h] = None]
        /\ UNCHANGED <<status, events>>
    BY <1>7 DEF SendRaises, CrashWhileSending, SendDropped
  <2>2. QED
    BY <2>1 DEF UndisturbedRequests, TypeOK, ProcessTypes
<1>8. ASSUME \/ \E h \in Hail : SendIgnored(h)
             \/ \E h \in Hail, timeout \in TIMEOUTS_BY_STATUS :
                   TimeoutIgnored(h, timeout)
             \/ \E p \in pending : \/ EnqueueSend(p) \/ ScheduleTimer(p)
                                   \/ ReassignRefused(p) \/ CrashAfterCommit(p)
             \/ \E p \in pending, t \in Taxi, v \in Vd : ReassignBegin(p, t, v)
             \/ \E s \in Session : ReassignRaises(s) \/ CrashWhileReassigning(s)
             \/ \E t \in Taxi, v \in Vd, st \in AskedOfTaxi :
                   DriverSetsStatus(t, v, st)
             \/ UNCHANGED vars
      PROVE  UndisturbedRequests'
  <2>1. UNCHANGED <<status, events, sending>>
    BY <1>8 DEF SendIgnored, TimeoutIgnored, EnqueueSend, ScheduleTimer,
                ReassignRefused, CrashAfterCommit, ReassignBegin, ReassignRaises,
                CrashWhileReassigning, DriverSetsStatus, ContinuationDone,
                ReassignDropped, vars
  <2>2. QED
    BY <2>1 DEF UndisturbedRequests
<1>9. QED
  BY <1>1, <1>2, <1>3, <1>4, <1>5, <1>6, <1>7, <1>8 DEF Next

LEMMA RequestsUndisturbed ==
    ASSUME ~CancelWhileSending
    PROVE  Spec => []UndisturbedRequests
<1>1. Init => UndisturbedRequests
  BY DEF Init, UndisturbedRequests
<1>2. TypeOK /\ UndisturbedRequests /\ [Next]_vars => UndisturbedRequests'
  BY RequestsStayUndisturbed
<1>3. QED
  BY <1>1, <1>2, TypeCorrect, PTL DEF Spec

\* Only a user's PUT changes the log, and it adds one entry to one hail's.
LEMMA LogStaysTrue ==
    ASSUME TypeOK, UndisturbedRequests, LogIsTrue, [Next]_vars
    PROVE  LogIsTrue'
<1>1. CASE UNCHANGED <<events, applied>>
  BY <1>1 DEF LogIsTrue
<1>2. ASSUME NEW h \in Hail, NEW new \in HAIL_STATUS, SendCommit(h, new)
      PROVE  UNCHANGED <<events, applied>>
  <2>1. events[h] = sending[h].events
    BY <1>2 DEF SendCommit, UndisturbedRequests
  <2>2. events' = [events EXCEPT ![h] = events[h]] /\ UNCHANGED applied
    BY <1>2, <2>1 DEF SendCommit
  <2>3. QED
    BY <2>2 DEF TypeOK, RowTypes
<1>3. ASSUME NEW h \in Hail, NEW new \in AskedOfHail, NEW role \in ROLES,
             NEW e \in Event \cup {None}, PutStatus(h, new, role, e)
      PROVE  LogIsTrue'
  <2>1. CASE e = None
    BY <1>1, <1>3, <2>1 DEF PutStatus
  <2>2. CASE e # None
    <3> DEFINE entry == [id |-> e, to |-> new, by |-> role]
    <3>1. /\ events' = [events EXCEPT ![h] = @ \cup {entry}]
          /\ applied' = [applied EXCEPT ![h][e] = @ + 1]
      BY <1>3, <2>2 DEF PutStatus
    <3>2. applied[h][e] = 0
      BY <1>3, <2>2 DEF PutStatus, EventIsNew, LogIsTrue
    <3> SUFFICES ASSUME NEW g \in Hail, NEW f \in Event
                 PROVE  applied'[g][f] = IF \E logged \in events'[g] : logged.id = f
                                         THEN 1 ELSE 0
      BY DEF LogIsTrue
    <3>3. applied[g][f] = IF \E logged \in events[g] : logged.id = f THEN 1 ELSE 0
      BY DEF LogIsTrue
    <3>4. /\ events \in [Hail -> SUBSET LoggedEvent]
          /\ applied \in [Hail -> [Event -> Nat]]
      BY DEF TypeOK, RowTypes
    <3>5. CASE g # h
      BY <3>1, <3>3, <3>4, <3>5
    <3>6. CASE g = h /\ f # e
      <4>1. events'[g] = events[g] \cup {entry} /\ entry.id # f
        BY <3>1, <3>4, <3>6
      <4>2. applied'[g][f] = applied[g][f]
        BY <3>1, <3>4, <3>6
      <4>3. (\E logged \in events'[g] : logged.id = f)
            <=> \E logged \in events[g] : logged.id = f
        BY <4>1
      <4>4. QED
        BY <3>3, <4>2, <4>3
    <3>7. CASE g = h /\ f = e
      <4>1. entry \in events'[g] /\ entry.id = f
        BY <3>1, <3>4, <3>7
      <4>2. applied'[g][f] = 1
        BY <3>1, <3>2, <3>4, <3>7
      <4>3. QED
        BY <4>1, <4>2
    <3>8. QED
      BY <3>5, <3>6, <3>7
  <2>3. QED
    BY <2>1, <2>2
<1>4. ASSUME NEW h \in Hail, NEW t, NEW v, NEW s, NEW via,
             InsertHail(h, t, v, s, via)
      PROVE  UNCHANGED <<events, applied>>
  BY <1>4 DEF InsertHail
<1>5. ASSUME NEW h \in Hail, NEW timeout \in TIMEOUTS_BY_STATUS,
             TimeoutFires(h, timeout)
      PROVE  UNCHANGED <<events, applied>>
  BY <1>5 DEF TimeoutFires
<1>6. ASSUME QuietStep PROVE UNCHANGED <<events, applied>>
  BY <1>6, QuietLeavesRows
<1>7. QED
  BY <1>1, <1>2, <1>3, <1>4, <1>5, <1>6
  DEF Next, QuietStep, CreateHail, ReassignCommit

\* An event id never changes a hail twice, when no customer cancels while the
\* operator is being asked: the task then writes back the very log it read.
THEOREM EventsAppliedOnce ==
    ASSUME ~CancelWhileSending
    PROVE  Spec => []EventAppliedOnce
<1>1. Init => LogIsTrue
  BY DEF Init, LogIsTrue
<1>2. TypeOK /\ UndisturbedRequests /\ LogIsTrue /\ [Next]_vars => LogIsTrue'
  BY LogStaysTrue
<1>3. LogIsTrue => EventAppliedOnce
  BY DEF LogIsTrue, EventAppliedOnce
<1>4. QED
  BY <1>1, <1>2, <1>3, TypeCorrect, RequestsUndisturbed, PTL DEF Spec

\* A terminal hail keeps its status, under the same condition: of all that
\* writes a status, only the operator's task does not read it under a lock.
THEOREM TerminalStays ==
    ASSUME ~CancelWhileSending
    PROVE  Spec => TerminalIsFinal
<1> DEFINE Stays == \A h \in Hail : status[h] \in HAIL_TERMINAL_STATUS
                                    => status'[h] = status[h]
<1>1. ASSUME TypeOK, UndisturbedRequests, [Next]_vars PROVE Stays
  <2> USE StatusesDiffer
  <2>1. ASSUME NEW h \in Hail, status[h] \notin HAIL_TERMINAL_STATUS,
               \A g \in Hail \ {h} : status'[g] = status[g]
        PROVE  Stays
    BY <2>1
  <2>2. status \in [Hail -> HAIL_STATUS \cup {"absent"}]
    BY <1>1 DEF TypeOK, RowTypes
  <2>3. ASSUME NEW h \in Hail, NEW t, NEW v, NEW s, NEW via,
               InsertHail(h, t, v, s, via)
        PROVE  Stays
    BY <2>1, <2>2, <2>3 DEF InsertHail, IsNext
  <2>4. ASSUME NEW h \in Hail, NEW new \in HAIL_STATUS, SendCommit(h, new)
        PROVE  Stays
    <3>1. status[h] \notin HAIL_TERMINAL_STATUS
      BY <1>1, <2>4 DEF SendCommit, UndisturbedRequests, HAIL_TERMINAL_STATUS
    <3>2. QED
      BY <2>1, <2>2, <2>4, <3>1 DEF SendCommit
  <2>5. ASSUME NEW h \in Hail, NEW new \in AskedOfHail, NEW role \in ROLES,
               NEW e \in Event \cup {None}, PutStatus(h, new, role, e)
        PROVE  Stays
    BY <2>1, <2>2, <2>5 DEF PutStatus
  <2>6. ASSUME NEW h \in Hail, NEW timeout \in TIMEOUTS_BY_STATUS,
               TimeoutFires(h, timeout)
        PROVE  Stays
    <3>1. status[h] \notin HAIL_TERMINAL_STATUS
      BY <2>6, TimeoutType DEF TimeoutFires, StillWaiting
    <3>2. QED
      BY <2>1, <2>2, <2>6, <3>1 DEF TimeoutFires
  <2>7. ASSUME QuietStep PROVE Stays
    BY <2>7, QuietLeavesRows
  <2>8. QED
    BY <1>1, <2>3, <2>4, <2>5, <2>6, <2>7
    DEF Next, QuietStep, CreateHail, ReassignCommit
<1>2. QED
  BY <1>1, TypeCorrect, RequestsUndisturbed, PTL DEF Spec, TerminalIsFinal

\* How far a hail has come; whatever ends it is the last stage.
Stage ==
    [st \in HAIL_STATUS \cup {"absent"} |->
        CASE st = "absent" -> 0
          [] st = "received" -> 1
          [] st = "sent_to_operator" -> 2
          [] st = "received_by_operator" -> 3
          [] st = "received_by_taxi" -> 4
          [] st = "accepted_by_taxi" -> 5
          [] st = "accepted_by_customer" -> 6
          [] st = "customer_on_board" -> 7
          [] OTHER -> 8]

Advances(from, to) == from = to \/ Stage[from] < Stage[to]

\* A status only gives way to one further on.
HailsOnlyAdvance == [][\A h \in Hail : Advances(status[h], status'[h])]_vars

LEMMA TerminalIsLast ==
    ASSUME NEW from \in HAIL_ACTIVE_STATUS, NEW to \in HAIL_TERMINAL_STATUS
    PROVE  Advances(from, to)
BY DEF Advances, Stage, HAIL_STATUS, HAIL_ACTIVE_STATUS, HAIL_TERMINAL_STATUS

\* What a user may ask for leads on.
LEMMA PermittedAdvances ==
    ASSUME NEW from, NEW to, NEW role, Permitted(from, to, role)
    PROVE  Advances(from, to)
<1>1. PICK tr \in TRANSITIONS : tr[1] = from /\ tr[2] = to
  BY DEF Permitted
<1>2. CASE to \in HAIL_TERMINAL_STATUS
  BY <1>2, PermittedType, TerminalIsLast
<1>3. CASE to \notin HAIL_TERMINAL_STATUS
  <2>1. <<from, to>> \in {<<"received_by_operator", "received_by_taxi">>,
                          <<"received_by_taxi", "accepted_by_taxi">>,
                          <<"accepted_by_taxi", "accepted_by_customer">>,
                          <<"accepted_by_customer", "customer_on_board">>}
    BY <1>1, <1>3 DEF TRANSITIONS, HAIL_TERMINAL_STATUS
  <2> QED
    BY <2>1 DEF Advances, Stage, HAIL_STATUS, HAIL_ACTIVE_STATUS, HAIL_TERMINAL_STATUS
<1> QED
  BY <1>2, <1>3

\* A hail changes its status seven times at most, whoever races with whom, under
\* the condition of TerminalStays. NoneIsForgotten says that an active hail has
\* always one more change to come: together, they are what EveryHailEnds rests on.
THEOREM HailsAdvance ==
    ASSUME ~CancelWhileSending
    PROVE  Spec => HailsOnlyAdvance
<1> DEFINE Moves == \A h \in Hail : Advances(status[h], status'[h])
<1>1. ASSUME TypeOK, UndisturbedRequests, [Next]_vars PROVE Moves
  <2>1. ASSUME NEW h \in Hail, NEW new, status' = [status EXCEPT ![h] = new],
               Advances(status[h], new)
        PROVE  Moves
    BY <1>1, <2>1 DEF Advances, TypeOK, RowTypes
  <2>2. ASSUME NEW h \in Hail, NEW t, NEW v, NEW s, NEW via,
               InsertHail(h, t, v, s, via)
        PROVE  Moves
    <3>1. status[h] = "absent" /\ status' = [status EXCEPT ![h] = "received"]
      BY <2>2 DEF InsertHail, IsNext
    <3>2. Advances("absent", "received")
      BY DEF Advances, Stage, HAIL_STATUS, HAIL_ACTIVE_STATUS
    <3> QED
      BY <2>1, <3>1, <3>2
  <2>3. ASSUME NEW h \in Hail, NEW new \in HAIL_STATUS, SendCommit(h, new)
        PROVE  Moves
    <3>1. /\ status[h] = "received" /\ status' = [status EXCEPT ![h] = new]
          /\ new \in {"failure", "received_by_taxi", "received_by_operator"}
      BY <1>1, <2>3 DEF SendCommit, Outcomes, Delivered, UndisturbedRequests
    <3>2. Advances("received", new)
      BY <3>1 DEF Advances, Stage, HAIL_STATUS, HAIL_ACTIVE_STATUS, HAIL_TERMINAL_STATUS
    <3> QED
      BY <2>1, <3>1, <3>2
  <2>4. ASSUME NEW h \in Hail, NEW new, NEW role, NEW e, PutStatus(h, new, role, e)
        PROVE  Moves
    BY <2>1, <2>4, PermittedAdvances DEF PutStatus
  <2>5. ASSUME NEW h \in Hail, NEW timeout \in TIMEOUTS_BY_STATUS,
               TimeoutFires(h, timeout)
        PROVE  Moves
    <3>1. /\ status[h] \in HAIL_ACTIVE_STATUS /\ timeout.hail \in HAIL_TERMINAL_STATUS
          /\ status' = [status EXCEPT ![h] = timeout.hail]
      BY <2>5, TimeoutType, StatusesDiffer DEF TimeoutFires, StillWaiting
    <3> QED
      BY <2>1, <3>1, TerminalIsLast
  <2>6. ASSUME QuietStep PROVE Moves
    BY <2>6, QuietLeavesRows DEF Advances
  <2> QED
    BY <1>1, <2>2, <2>3, <2>4, <2>5, <2>6
    DEF Next, QuietStep, CreateHail, ReassignCommit
<1> QED
  BY <1>1, TypeCorrect, RequestsUndisturbed, PTL DEF Spec, HailsOnlyAdvance

-------------------------------------------------------------------------------
\* The taxi's status beside the hail's

\* Every taxi has a vehicle of its own, which only its operator describes.
OwnVehicle ==
    /\ \A t \in Taxi : VdsOf[t] = {OwnVd[t]}
    /\ \A t, u \in Taxi : OwnVd[t] = OwnVd[u] => t = u

\* Then what a hail books, or is about to, is its taxi's one description.
BooksOwnVehicle ==
    /\ \A h \in Hail :
          booking[h] # None => booking[h].vd = OwnVd[booking[h].taxi]
    /\ \A s \in Session :
          reassign[s] # None => reassign[s].vd = OwnVd[reassign[s].taxi]

\* What the taxi of an active hail in status st reads.
StatusDuring(st) ==
    CASE st = "accepted_by_customer" -> "oncoming"
      [] st = "customer_on_board" -> "occupied"
      [] OTHER -> "answering"

\* The two statuses reached before the customer answers come from statuses
\* before the customer answers.
LEMMA PermittedBeforeAnswer ==
    ASSUME NEW from, NEW to \in HAIL_ACTIVE_STATUS, NEW role,
           Permitted(from, to, role)
    PROVE  \/ to \in {"accepted_by_customer", "customer_on_board"}
           \/ /\ to \in {"received_by_taxi", "accepted_by_taxi"}
              /\ from \in {"received_by_operator", "received_by_taxi"}
BY DEF Permitted, TRANSITIONS, HAIL_ACTIVE_STATUS

\* A user's transition to an active status leaves the taxi reading what goes
\* with that status, if it read what went with the status before.
LEMMA StatusAfterPut ==
    ASSUME NEW from, NEW to \in HAIL_ACTIVE_STATUS, NEW role,
           Permitted(from, to, role)
    PROVE  TaxiStatusAfter(to, StatusDuring(from)) = StatusDuring(to)
<1>1. CASE to \in {"accepted_by_customer", "customer_on_board"}
  BY <1>1 DEF TaxiStatusAfter, StatusDuring
<1>2. CASE /\ to \in {"received_by_taxi", "accepted_by_taxi"}
           /\ from \in {"received_by_operator", "received_by_taxi"}
  BY <1>2 DEF TaxiStatusAfter, StatusDuring
<1>3. QED
  BY <1>1, <1>2, PermittedBeforeAnswer

LEMMA OwnVehicleStaysBooked ==
    ASSUME TypeOK, OwnVehicle, BooksOwnVehicle, [Next]_vars
    PROVE  BooksOwnVehicle'
<1>1. CASE UNCHANGED <<booking, reassign>>
  BY <1>1 DEF BooksOwnVehicle
<1>2. ASSUME NEW h \in Hail, NEW t \in Taxi, NEW s \in Session,
             CreateHail(h, t, s)
      PROVE  BooksOwnVehicle'
  BY <1>2 DEF CreateHail, InsertHail, BooksOwnVehicle, TypeOK, RowTypes
<1>3. ASSUME NEW p \in pending, NEW t \in Taxi, NEW v \in Vd,
             ReassignBegin(p, t, v)
      PROVE  BooksOwnVehicle'
  <2>1. v = OwnVd[t]
    BY <1>3 DEF ReassignBegin, OwnVehicle
  <2>2. PICK s : reassign' = [reassign EXCEPT
                                ![s] = [source |-> p.hail, taxi |-> t, vd |-> v,
                                        rows |-> SessionHails(s)]]
    BY <1>3 DEF ReassignBegin
  <2>3. UNCHANGED booking
    BY <1>3 DEF ReassignBegin, ContinuationDone
  <2>4. reassign \in [Session -> Reassignment \cup {None}]
    BY DEF TypeOK, ProcessTypes
  <2>5. QED
    BY <2>1, <2>2, <2>3, <2>4 DEF BooksOwnVehicle
<1>4. ASSUME NEW s \in Session, NEW h \in Hail, ReassignCommit(s, h)
      PROVE  BooksOwnVehicle'
  <2>1. reassign[s].vd = OwnVd[reassign[s].taxi]
    BY <1>4 DEF ReassignCommit, BooksOwnVehicle
  <2>2. QED
    BY <1>4, <2>1
    DEF ReassignCommit, InsertHail, BooksOwnVehicle, TypeOK, RowTypes, ProcessTypes
<1>5. ASSUME NEW s \in Session, ReassignRaises(s) \/ CrashWhileReassigning(s)
      PROVE  BooksOwnVehicle'
  BY <1>5 DEF ReassignRaises, CrashWhileReassigning, ReassignDropped,
              BooksOwnVehicle, TypeOK, ProcessTypes
<1>6. ASSUME \/ \E h \in Hail : \/ SendBegin(h) \/ SendIgnored(h)
                                \/ SendRaises(h) \/ CrashWhileSending(h)
             \/ \E h \in Hail, new \in HAIL_STATUS : SendCommit(h, new)
             \/ \E h \in Hail, new \in AskedOfHail, role \in ROLES,
                   e \in Event \cup {None} : PutStatus(h, new, role, e)
             \/ \E h \in Hail, timeout \in TIMEOUTS_BY_STATUS :
                   TimeoutFires(h, timeout) \/ TimeoutIgnored(h, timeout)
             \/ \E p \in pending : \/ EnqueueSend(p) \/ ScheduleTimer(p)
                                   \/ ReassignRefused(p) \/ CrashAfterCommit(p)
             \/ \E t \in Taxi, v \in Vd, st \in AskedOfTaxi :
                   DriverSetsStatus(t, v, st)
             \/ UNCHANGED vars
      PROVE  BooksOwnVehicle'
  <2>1. UNCHANGED <<booking, reassign>>
    <3>1. CASE \E h \in Hail : \/ SendBegin(h) \/ SendIgnored(h)
                                \/ SendRaises(h) \/ CrashWhileSending(h)
      BY <3>1 DEF SendBegin, SendIgnored, SendRaises, CrashWhileSending, SendDropped
    <3>2. CASE \E h \in Hail, new \in HAIL_STATUS : SendCommit(h, new)
      BY <3>2 DEF SendCommit
    <3>3. CASE \E h \in Hail, new \in AskedOfHail, role \in ROLES,
                  e \in Event \cup {None} : PutStatus(h, new, role, e)
      BY <3>3 DEF PutStatus
    <3>4. CASE \E h \in Hail, timeout \in TIMEOUTS_BY_STATUS :
                  TimeoutFires(h, timeout) \/ TimeoutIgnored(h, timeout)
      BY <3>4 DEF TimeoutFires, TimeoutIgnored
    <3>5. CASE \E p \in pending : \/ EnqueueSend(p) \/ ScheduleTimer(p)
                                  \/ ReassignRefused(p) \/ CrashAfterCommit(p)
      BY <3>5 DEF EnqueueSend, ScheduleTimer, ReassignRefused, CrashAfterCommit,
                  ContinuationDone
    <3>6. CASE \E t \in Taxi, v \in Vd, st \in AskedOfTaxi : DriverSetsStatus(t, v, st)
      BY <3>6 DEF DriverSetsStatus
    <3>7. CASE UNCHANGED vars
      BY <3>7 DEF vars
    <3> QED
      BY <1>6, <3>1, <3>2, <3>3, <3>4, <3>5, <3>6, <3>7
  <2>2. QED
    BY <1>1, <2>1
<1>7. QED
  BY <1>2, <1>3, <1>4, <1>5, <1>6 DEF Next

\* A step that moves one hail and its taxi's description only, and leaves the
\* two in agreement, leaves every other hail in agreement with its taxi too.
LEMMA OneTaxiMoves ==
    ASSUME TypeOK, TypeOK', OwnVehicle, BooksOwnVehicle, BooksOwnVehicle',
           TaxiStatusFollowsHail,
           NEW h \in Hail, booking'[h] # None,
           \A g \in Hail \ {h} : status'[g] = status[g] /\ booking'[g] = booking[g],
           IndexAllows(h, booking'[h].taxi),
           \A v \in Vd \ {booking'[h].vd} : vdStatus'[v] = vdStatus[v],
           IsActive(h)' => vdStatus'[booking'[h].vd] = StatusDuring(status'[h])
    PROVE  TaxiStatusFollowsHail'
<1> SUFFICES ASSUME NEW g \in Hail, IsActive(g)', g # h
             PROVE  vdStatus'[booking'[g].vd] = StatusDuring(status'[g])
  BY DEF TaxiStatusFollowsHail, StatusDuring
<1>1. IsActive(g) /\ booking'[g] = booking[g] /\ status'[g] = status[g]
  BY DEF IsActive
<1>2. booking[g] \in Booking /\ booking'[h] \in Booking
  BY <1>1, StatusesDiffer DEF TypeOK, RowTypes, NoDangling, IsActive
<1>3. booking[g].taxi # booking'[h].taxi
  BY <1>1 DEF IndexAllows
<1>4. booking[g].vd # booking'[h].vd
  <2>1. booking[g].taxi \in Taxi /\ booking'[h].taxi \in Taxi
    BY <1>2 DEF Booking
  <2>2. booking[g].vd = OwnVd[booking[g].taxi]
    BY <1>1, StatusesDiffer DEF BooksOwnVehicle, TypeOK, NoDangling, IsActive
  <2>3. booking'[h].vd = OwnVd[booking'[h].taxi]
    BY DEF BooksOwnVehicle
  <2>4. QED
    BY <1>3, <2>1, <2>2, <2>3 DEF OwnVehicle
<1>5. booking[g].vd \in Vd
  BY <1>2 DEF Booking
<1>6. vdStatus[booking[g].vd] = StatusDuring(status[g])
  BY <1>1 DEF TaxiStatusFollowsHail, StatusDuring
<1>7. QED
  BY <1>1, <1>4, <1>5, <1>6

LEMMA StatusesStayTogether ==
    ASSUME TypeOK, TypeOK', OneActiveHailPerTaxi, OwnVehicle, BooksOwnVehicle,
           BooksOwnVehicle', UndisturbedRequests, ~CancelWhileSending,
           TaxiStatusFollowsHail, [Next]_vars
    PROVE  TaxiStatusFollowsHail'
<1> USE StatusesDiffer
<1>1. CASE UNCHANGED <<status, booking, vdStatus>>
  BY <1>1 DEF TaxiStatusFollowsHail, IsActive
<1>2. ASSUME NEW h \in Hail, NEW t, NEW v \in Vd, NEW s, NEW via,
             InsertHail(h, t, v, s, via)
      PROVE  TaxiStatusFollowsHail'
  <2>1. booking'[h].taxi = t /\ booking'[h].vd = v /\ booking'[h] # None
    <3>1. booking'[h] = [taxi |-> t, vd |-> v, session |-> s, via |-> via]
      BY <1>2 DEF InsertHail, TypeOK, RowTypes
    <3>2. status'[h] = "received"
      BY <1>2 DEF InsertHail, TypeOK, RowTypes
    <3>3. QED
      BY <3>1, <3>2 DEF TypeOK, NoDangling
  <2>2. /\ \A g \in Hail \ {h} : status'[g] = status[g] /\ booking'[g] = booking[g]
        /\ IndexAllows(h, t)
        /\ \A w \in Vd \ {v} : vdStatus'[w] = vdStatus[w]
        /\ vdStatus'[v] = "answering" /\ status'[h] = "received"
    BY <1>2 DEF InsertHail, TypeOK, RowTypes
  <2>3. StatusDuring("received") = "answering"
    BY DEF StatusDuring
  <2>4. QED
    BY <2>1, <2>2, <2>3, OneTaxiMoves
\* What the three steps on a booked hail share.
<1> DEFINE MovesOne(h) ==
             /\ IsActive(h)
             /\ UNCHANGED booking
             /\ \A g \in Hail \ {h} : status'[g] = status[g]
             /\ \A w \in Vd \ {booking[h].vd} : vdStatus'[w] = vdStatus[w]
             /\ IsActive(h)' => vdStatus'[booking[h].vd] = StatusDuring(status'[h])
<1>3. ASSUME NEW h \in Hail, MovesOne(h) PROVE TaxiStatusFollowsHail'
  <2>1. booking'[h] # None
    BY <1>3 DEF IsActive, TypeOK, NoDangling
  <2>2. IndexAllows(h, booking'[h].taxi)
    BY <1>3, ActiveIsAllowed
  <2>3. QED
    BY <1>3, <2>1, <2>2, OneTaxiMoves
<1>4. ASSUME NEW h \in Hail, NEW new \in HAIL_STATUS, SendCommit(h, new)
      PROVE  MovesOne(h)
  <2>1. status[h] = "received"
    BY <1>4 DEF SendCommit, UndisturbedRequests
  <2>2. IsActive(h)
    BY <2>1 DEF IsActive, HAIL_ACTIVE_STATUS
  <2>3. vdStatus[booking[h].vd] = "answering"
    BY <2>1, <2>2 DEF TaxiStatusFollowsHail
  <2>4. /\ UNCHANGED booking
        /\ \A g \in Hail \ {h} : status'[g] = status[g]
        /\ \A w \in Vd \ {booking[h].vd} : vdStatus'[w] = vdStatus[w]
        /\ status'[h] = new
    BY <1>4 DEF SendCommit, TypeOK, RowTypes
  <2>5. CASE new = "failure"
    <3>1. ~IsActive(h)'
      BY <2>4, <2>5 DEF IsActive, HAIL_ACTIVE_STATUS
    <3>2. QED
      BY <2>2, <2>4, <3>1
  <2>6. CASE new # "failure"
    <3>1. UNCHANGED vdStatus
      BY <1>4, <2>6 DEF SendCommit
    <3>2. StatusDuring(new) = "answering"
      BY <1>4, <2>6 DEF SendCommit, Outcomes, Delivered, StatusDuring
    <3>3. QED
      BY <2>2, <2>3, <2>4, <3>1, <3>2
  <2>7. QED
    BY <2>5, <2>6
<1>5. ASSUME NEW h \in Hail, NEW new \in AskedOfHail, NEW role \in ROLES,
             NEW e \in Event \cup {None}, PutStatus(h, new, role, e)
      PROVE  MovesOne(h)
  <2>1. Permitted(status[h], new, role)
    BY <1>5 DEF PutStatus
  <2>2. IsActive(h)
    BY <2>1, PermittedType DEF IsActive
  <2>3. booking[h].vd \in Vd
    BY <2>2 DEF IsActive, TypeOK, RowTypes, NoDangling, Booking
  <2>4. /\ UNCHANGED booking
        /\ \A g \in Hail \ {h} : status'[g] = status[g]
        /\ \A w \in Vd \ {booking[h].vd} : vdStatus'[w] = vdStatus[w]
        /\ status'[h] = new
        /\ vdStatus'[booking[h].vd]
             = TaxiStatusAfter(new, vdStatus[booking[h].vd])
    BY <1>5, <2>3 DEF PutStatus, TypeOK, RowTypes
  <2>5. vdStatus[booking[h].vd] = StatusDuring(status[h])
    BY <2>2 DEF TaxiStatusFollowsHail, StatusDuring
  <2>6. IsActive(h)' => vdStatus'[booking[h].vd] = StatusDuring(status'[h])
    BY <2>1, <2>4, <2>5, StatusAfterPut DEF IsActive
  <2>7. QED
    BY <2>2, <2>4, <2>6
<1>6. ASSUME NEW h \in Hail, NEW timeout \in TIMEOUTS_BY_STATUS,
             TimeoutFires(h, timeout)
      PROVE  MovesOne(h)
  <2>1. IsActive(h)
    BY <1>6, TimeoutType DEF TimeoutFires, StillWaiting, IsActive
  <2>2. /\ UNCHANGED booking
        /\ \A g \in Hail \ {h} : status'[g] = status[g]
        /\ \A w \in Vd \ {booking[h].vd} : vdStatus'[w] = vdStatus[w]
        /\ status'[h] = timeout.hail
    BY <1>6 DEF TimeoutFires, TypeOK, RowTypes
  <2>3. ~IsActive(h)'
    BY <2>2, TimeoutType DEF IsActive
  <2>4. QED
    BY <2>1, <2>2, <2>3
<1>7. ASSUME NEW t \in Taxi, NEW v \in Vd, NEW st \in AskedOfTaxi,
             DriverSetsStatus(t, v, st)
      PROVE  TaxiStatusFollowsHail'
  <2> SUFFICES ASSUME NEW g \in Hail, IsActive(g)'
               PROVE  vdStatus'[booking'[g].vd] = StatusDuring(status'[g])
    BY DEF TaxiStatusFollowsHail, StatusDuring
  <2>1. UNCHANGED <<status, booking>> /\ IsActive(g)
    BY <1>7 DEF DriverSetsStatus, IsActive
  <2>2. booking[g].taxi \in Taxi /\ booking[g].vd \in Vd /\ booking[g] # None
    BY <2>1 DEF IsActive, TypeOK, RowTypes, NoDangling, Booking
  <2>3. booking[g].taxi # t
    BY <1>7, <2>1 DEF DriverSetsStatus, TaxiHasActiveHail
  <2>4. booking[g].vd # v
    BY <1>7, <2>2, <2>3 DEF DriverSetsStatus, OwnVehicle, BooksOwnVehicle
  <2>5. vdStatus'[booking[g].vd] = vdStatus[booking[g].vd]
    BY <1>7, <2>2, <2>4 DEF DriverSetsStatus, TypeOK, RowTypes
  <2>6. QED
    BY <2>1, <2>5 DEF TaxiStatusFollowsHail, StatusDuring
<1>8. ASSUME \/ \E h \in Hail : \/ SendBegin(h) \/ SendIgnored(h)
                                \/ SendRaises(h) \/ CrashWhileSending(h)
             \/ \E h \in Hail, timeout \in TIMEOUTS_BY_STATUS :
                   TimeoutIgnored(h, timeout)
             \/ \E p \in pending : \/ EnqueueSend(p) \/ ScheduleTimer(p)
                                   \/ ReassignRefused(p) \/ CrashAfterCommit(p)
             \/ \E p \in pending, t \in Taxi, v \in Vd : ReassignBegin(p, t, v)
             \/ \E s \in Session : ReassignRaises(s) \/ CrashWhileReassigning(s)
             \/ UNCHANGED vars
      PROVE  UNCHANGED <<status, booking, vdStatus>>
  BY <1>8 DEF SendBegin, SendIgnored, SendRaises, CrashWhileSending,
              TimeoutIgnored, EnqueueSend, ScheduleTimer, ReassignRefused,
              CrashAfterCommit, ReassignBegin, ReassignRaises,
              CrashWhileReassigning, ContinuationDone, SendDropped,
              ReassignDropped, vars
<1>9. ASSUME NEW h \in Hail, NEW t \in Taxi, NEW s \in Session,
             CreateHail(h, t, s)
      PROVE  TaxiStatusFollowsHail'
  <2>1. OwnVd[t] \in Vd
    BY DispatchAssumption
  <2>2. QED
    BY <1>2, <1>9, <2>1 DEF CreateHail
<1>10. ASSUME NEW s \in Session, NEW h \in Hail, ReassignCommit(s, h)
       PROVE  TaxiStatusFollowsHail'
  <2>1. reassign[s].vd \in Vd
    BY <1>10 DEF ReassignCommit, TypeOK, ProcessTypes, Reassignment
  <2>2. QED
    BY <1>2, <1>10, <2>1 DEF ReassignCommit
<1> HIDE DEF MovesOne
<1>11. QED
  BY <1>1, <1>3, <1>4, <1>5, <1>6, <1>7, <1>8, <1>9, <1>10 DEF Next

\* While a hail is under way its taxi reads answering, then oncoming, then
\* occupied: for taxis with a vehicle of their own, when no customer cancels
\* while the operator is being asked, and whatever the operators answer.
THEOREM StatusesAgree ==
    ASSUME OwnVehicle, ~CancelWhileSending
    PROVE  Spec => []TaxiStatusFollowsHail
<1>1. Init => BooksOwnVehicle /\ TaxiStatusFollowsHail
  BY StatusesDiffer DEF Init, BooksOwnVehicle, TaxiStatusFollowsHail, IsActive
<1>2. TypeOK /\ BooksOwnVehicle /\ [Next]_vars => BooksOwnVehicle'
  BY OwnVehicleStaysBooked
<1>3. /\ TypeOK /\ TypeOK' /\ OneActiveHailPerTaxi /\ BooksOwnVehicle
      /\ BooksOwnVehicle' /\ UndisturbedRequests /\ TaxiStatusFollowsHail
      /\ [Next]_vars
      => TaxiStatusFollowsHail'
  BY StatusesStayTogether
<1>4. QED
  BY <1>1, <1>2, <1>3, TypeCorrect, OneActiveHail, RequestsUndisturbed, PTL
  DEF Spec

-------------------------------------------------------------------------------
\* No hail under way is forgotten

\* A hail under way is waiting to be sent, or is in a status with a timeout:
\* nothing gives a hail the status "sent_to_operator", which has none.
ActiveIsWatched ==
    \A h \in Hail : IsActive(h) => status[h] \in TimedStatus \cup {"received"}

\* Somebody is going to act on hail h.
Remembered(h) ==
    IF status[h] = "received"
    THEN \/ h \in queue
         \/ sending[h] # None
         \/ \E p \in pending : p.hail = h /\ p.kind = "create"
    ELSE \/ <<h, status[h]>> \in timers
         \/ \E p \in pending : p.hail = h /\ p.kind \in {"send", "put"}

LEMMA ActiveStaysWatched ==
    ASSUME TypeOK, ActiveIsWatched, [Next]_vars
    PROVE  ActiveIsWatched'
<1> USE StatusesDiffer
<1>1. ASSUME NEW h \in Hail,
             \A g \in Hail \ {h} : status'[g] = status[g],
             IsActive(h)' => status'[h] \in TimedStatus \cup {"received"}
      PROVE  ActiveIsWatched'
  BY <1>1 DEF ActiveIsWatched, IsActive
<1>2. status \in [Hail -> HAIL_STATUS \cup {"absent"}]
  BY DEF TypeOK, RowTypes
<1>3. ASSUME NEW h \in Hail, NEW t, NEW v, NEW s, NEW via,
             InsertHail(h, t, v, s, via)
      PROVE  ActiveIsWatched'
  BY <1>1, <1>2, <1>3 DEF InsertHail
<1>4. ASSUME NEW h \in Hail, NEW new \in HAIL_STATUS, SendCommit(h, new)
      PROVE  ActiveIsWatched'
  <2>1. new \in HAIL_ACTIVE_STATUS => new \in TimedStatus
    BY <1>4 DEF SendCommit, Outcomes, Delivered, HAIL_ACTIVE_STATUS, TimedStatus
  <2>2. QED
    BY <1>1, <1>2, <1>4, <2>1 DEF SendCommit, IsActive
<1>5. ASSUME NEW h \in Hail, NEW new \in AskedOfHail, NEW role \in ROLES,
             NEW e \in Event \cup {None}, PutStatus(h, new, role, e)
      PROVE  ActiveIsWatched'
  <2>1. new \in HAIL_ACTIVE_STATUS => new \in TimedStatus
    BY <1>5, PermittedBeforeAnswer DEF PutStatus, TimedStatus
  <2>2. QED
    BY <1>1, <1>2, <1>5, <2>1 DEF PutStatus, IsActive
<1>6. ASSUME NEW h \in Hail, NEW timeout \in TIMEOUTS_BY_STATUS,
             TimeoutFires(h, timeout)
      PROVE  ActiveIsWatched'
  BY <1>1, <1>2, <1>6, TimeoutType DEF TimeoutFires, IsActive
<1>7. ASSUME QuietStep PROVE ActiveIsWatched'
  BY <1>7, QuietLeavesRows DEF ActiveIsWatched, IsActive
<1>8. QED
  BY <1>3, <1>4, <1>5, <1>6, <1>7 DEF Next, QuietStep, CreateHail, ReassignCommit

\* A step that changes neither the hail's status nor takes anything of the hail
\* away leaves it remembered.
LEMMA MemoryStays ==
    ASSUME NEW h \in Hail, Remembered(h), status'[h] = status[h],
           h \in queue => h \in queue',
           sending'[h] = sending[h],
           <<h, status[h]>> \in timers => <<h, status[h]>> \in timers',
           \A p \in pending : p.hail = h => p \in pending'
    PROVE  Remembered(h)'
BY DEF Remembered

\* A process that has its work on the hail still to do remembers it.
LEMMA WorkerRemembers ==
    ASSUME NEW h \in Hail, NEW kind, NEW after, Then(h, kind, after) \in pending',
           \/ status'[h] = "received" /\ kind = "create"
           \/ status'[h] # "received" /\ kind \in {"send", "put"}
    PROVE  Remembered(h)'
<1>1. Then(h, kind, after).hail = h /\ Then(h, kind, after).kind = kind
  BY DEF Then
<1>2. QED
  BY <1>1 DEF Remembered

LEMMA NoneIsForgottenNext ==
    ASSUME TypeOK, OneActiveHailPerTaxi, ActiveIsWatched, NoHailIsForgotten,
           [Next]_vars
    PROVE  NoHailIsForgotten'
<1> USE StatusesDiffer
<1> SUFFICES ASSUME NEW g \in Hail, IsActive(g)', crashes' = 0
             PROVE  Remembered(g)'
  BY DEF NoHailIsForgotten, Remembered
<1>1. IsActive(g) /\ crashes = 0 => Remembered(g)
  BY DEF NoHailIsForgotten, Remembered
<1>2. /\ status \in [Hail -> HAIL_STATUS \cup {"absent"}]
      /\ sending \in [Hail -> Snapshot \cup {None}]
      /\ crashes \in Nat
  BY DEF TypeOK, RowTypes, ProcessTypes
<1>3. ASSUME NEW h \in Hail, NEW t, NEW v, NEW s, NEW via,
             InsertHail(h, t, v, s, via),
             pending' = pending \cup {Then(h, "create", "received")}
      PROVE  Remembered(g)'
  <2>1. CASE g = h
    BY <1>2, <1>3, <2>1, WorkerRemembers DEF InsertHail
  <2>2. CASE g # h
    <3>1. /\ status'[g] = status[g]
          /\ pending \subseteq pending'
          /\ UNCHANGED <<queue, sending, timers, crashes>>
      BY <1>2, <1>3, <2>2 DEF InsertHail
    <3>2. QED
      BY <1>1, <3>1, MemoryStays DEF IsActive
  <2>3. QED
    BY <2>1, <2>2
<1>4. ASSUME NEW h \in Hail, SendBegin(h) PROVE Remembered(g)'
  <2>1. /\ sending' = [sending EXCEPT ![h] = [taxi |-> vdStatus[booking[h].vd],
                                              events |-> events[h]]]
        /\ queue' = queue \ {h}
        /\ status[h] = "received" /\ h \in queue
        /\ UNCHANGED <<status, timers, pending, crashes>>
    BY <1>4 DEF SendBegin
  <2>2. CASE g = h
    <3>1. [taxi |-> vdStatus[booking[h].vd], events |-> events[h]] \in Snapshot
      <4>1. booking[h] \in Booking
        <5>1. status[h] # "absent"
          BY <2>1
        <5>2. QED
          BY <5>1 DEF TypeOK, RowTypes, NoDangling
      <4>2. QED
        BY <4>1 DEF Snapshot, Booking, TypeOK, RowTypes
    <3>2. sending'[g] # None
      BY <1>2, <2>1, <2>2, <3>1, DispatchAssumption
    <3>3. QED
      BY <2>1, <2>2, <3>2 DEF Remembered
  <2>3. CASE g # h
    BY <1>1, <1>2, <2>1, <2>3, MemoryStays DEF IsActive
  <2>4. QED
    BY <2>2, <2>3
<1>5. ASSUME NEW h \in Hail, SendIgnored(h) PROVE Remembered(g)'
  <2>1. /\ queue' = queue \ {h} /\ status[h] # "received"
        /\ UNCHANGED <<status, sending, timers, pending, crashes>>
    BY <1>5 DEF SendIgnored
  <2>2. QED
    BY <1>1, <2>1 DEF IsActive, Remembered
<1>6. ASSUME NEW h \in Hail, NEW new \in HAIL_STATUS, SendCommit(h, new)
      PROVE  Remembered(g)'
  <2>1. /\ status'[h] = new
        /\ \A f \in Hail \ {h} : status'[f] = status[f] /\ sending'[f] = sending[f]
        /\ pending' = IF new = "failure" THEN pending
                      ELSE pending \cup {Then(h, "send", new)}
        /\ UNCHANGED <<queue, timers, crashes>>
    BY <1>2, <1>6 DEF SendCommit
  <2>2. CASE g = h
    <3>1. new # "failure" /\ new # "received"
      BY <1>6, <2>1, <2>2 DEF IsActive, SendCommit, Outcomes, Delivered, HAIL_ACTIVE_STATUS
    <3>2. QED
      BY <2>1, <2>2, <3>1, WorkerRemembers
  <2>3. CASE g # h
    BY <1>1, <2>1, <2>3, MemoryStays DEF IsActive
  <2>4. QED
    BY <2>2, <2>3
<1>7. ASSUME NEW h \in Hail, SendRaises(h) PROVE Remembered(g)'
  <2>1. /\ sending' = [sending EXCEPT ![h] = None]
        /\ UNCHANGED <<status, booking, queue, timers, pending>>
    BY <1>7 DEF SendRaises, SendDropped
  <2>2. ~IndexAllows(h, booking[h].taxi) /\ crashes = 0
    BY <1>2, <1>7 DEF SendRaises
  <2>3. g # h
    BY <2>1, <2>2, ActiveIsAllowed DEF IsActive
  <2>4. QED
    BY <1>1, <1>2, <2>1, <2>2, <2>3, MemoryStays DEF IsActive
<1>8. ASSUME NEW h \in Hail, NEW new \in AskedOfHail, NEW role \in ROLES,
             NEW e \in Event \cup {None}, PutStatus(h, new, role, e)
      PROVE  Remembered(g)'
  <2>1. /\ status'[h] = new
        /\ \A f \in Hail \ {h} : status'[f] = status[f]
        /\ pending' = IF new \in {"finished", "incident_taxi", "incident_customer"}
                      THEN pending ELSE pending \cup {Then(h, "put", new)}
        /\ UNCHANGED <<queue, sending, timers, crashes>>
    BY <1>2, <1>8 DEF PutStatus
  <2>2. CASE g = h
    <3>1. new \in {"accepted_by_customer", "customer_on_board",
                   "received_by_taxi", "accepted_by_taxi"}
      <4>1. new \in HAIL_ACTIVE_STATUS /\ Permitted(status[h], new, role)
        BY <1>8, <2>1, <2>2 DEF IsActive, PutStatus
      <4>2. QED
        BY <4>1, PermittedBeforeAnswer
    <3>2. QED
      BY <2>1, <2>2, <3>1, WorkerRemembers
  <2>3. CASE g # h
    BY <1>1, <2>1, <2>3, MemoryStays DEF IsActive
  <2>4. QED
    BY <2>2, <2>3
<1>9. ASSUME NEW h \in Hail, NEW timeout \in TIMEOUTS_BY_STATUS,
             TimeoutFires(h, timeout)
      PROVE  Remembered(g)'
  <2>1. /\ status'[h] = timeout.hail
        /\ \A f \in Hail \ {h} : status'[f] = status[f]
        /\ timers' \in {timers, timers \ {<<h, timeout.on>>}}
        /\ pending \subseteq pending'
        /\ UNCHANGED <<queue, sending, crashes>>
    BY <1>2, <1>9 DEF TimeoutFires
  <2>2. g # h
    BY <2>1, TimeoutType DEF IsActive
  <2>3. <<g, status[g]>> \in timers => <<g, status[g]>> \in timers'
    <3>1. <<g, status[g]>> # <<h, timeout.on>>
      BY <2>2
    <3>2. QED
      BY <2>1, <3>1
  <2>4. QED
    BY <1>1, <2>1, <2>2, <2>3, MemoryStays DEF IsActive
<1>10. ASSUME NEW h \in Hail, NEW timeout \in TIMEOUTS_BY_STATUS,
              TimeoutIgnored(h, timeout)
       PROVE  Remembered(g)'
  <2>1. /\ timers' = timers \ {<<h, timeout.on>>} /\ status[h] # timeout.on
        /\ UNCHANGED <<status, queue, sending, pending, crashes>>
    BY <1>10 DEF TimeoutIgnored, StillWaiting
  <2>2. QED
    BY <1>1, <2>1, MemoryStays DEF IsActive
<1>11. ASSUME NEW p \in pending, EnqueueSend(p) PROVE Remembered(g)'
  <2>1. /\ queue' = queue \cup {p.hail} /\ p.kind = "create"
        /\ pending' = pending \ {p}
        /\ UNCHANGED <<status, sending, timers, crashes>>
    BY <1>11 DEF EnqueueSend, ContinuationDone
  <2>2. QED
    BY <1>1, <2>1 DEF IsActive, Remembered
<1>12. ASSUME NEW p \in pending, ScheduleTimer(p) PROVE Remembered(g)'
  <2>1. /\ p.kind \in {"send", "put"}
        /\ timers' = timers \cup ({<<p.hail, status[p.hail]>>}
                                    \cap (Hail \X TimedStatus))
        /\ pending' = pending \ {p}
        /\ UNCHANGED <<status, queue, sending, crashes>>
    BY <1>12 DEF ScheduleTimer, ContinuationDone
  <2>2. CASE g = p.hail /\ status[g] # "received"
    <3>1. status[g] \in TimedStatus
      BY <2>1, <2>2 DEF ActiveIsWatched, IsActive
    <3>2. <<g, status[g]>> \in timers'
      BY <2>1, <2>2, <3>1
    <3>3. QED
      BY <2>1, <2>2, <3>2 DEF Remembered
  <2>3. CASE g = p.hail /\ status[g] = "received"
    BY <1>1, <2>1, <2>3 DEF IsActive, Remembered
  <2>4. CASE g # p.hail
    BY <1>1, <2>1, <2>4, MemoryStays DEF IsActive
  <2>5. QED
    BY <2>2, <2>3, <2>4
<1>13. ASSUME NEW p \in pending,
              \/ ReassignRefused(p)
              \/ \E t \in Taxi, v \in Vd : ReassignBegin(p, t, v)
       PROVE  Remembered(g)'
  <2>1. /\ WillReassign(p)
        /\ pending' = pending \ {p}
        /\ UNCHANGED <<status, queue, sending, timers, crashes>>
    BY <1>13 DEF ReassignRefused, ReassignBegin, ContinuationDone
  <2>2. IsActive(g) /\ Remembered(g)
    BY <1>1, <2>1 DEF IsActive
  <2>3. p.hail = g => p.kind = "timeout"
    BY <2>1, <2>2 DEF WillReassign, IsActive, HAIL_ACTIVE_STATUS
  <2>4. QED
    BY <2>1, <2>2, <2>3 DEF Remembered
<1>14. ASSUME NEW s \in Session, ReassignRaises(s) PROVE Remembered(g)'
  <2>1. UNCHANGED <<status, queue, sending, timers, pending, crashes>>
    BY <1>14 DEF ReassignRaises, ReassignDropped
  <2>2. QED
    BY <1>1, <2>1, MemoryStays DEF IsActive
<1>15. ASSUME \/ \E p \in pending : CrashAfterCommit(p)
              \/ \E h \in Hail : CrashWhileSending(h)
              \/ \E s \in Session : CrashWhileReassigning(s)
       PROVE  FALSE
  BY <1>2, <1>15 DEF CrashAfterCommit, CrashWhileSending, CrashWhileReassigning,
                     CrashOnce
<1>16. ASSUME \/ UNCHANGED vars
              \/ \E t \in Taxi, v \in Vd, st \in AskedOfTaxi :
                    DriverSetsStatus(t, v, st)
       PROVE  Remembered(g)'
  <2>1. UNCHANGED <<status, queue, sending, timers, pending, crashes>>
    BY <1>16 DEF DriverSetsStatus, vars
  <2>2. QED
    BY <1>1, <2>1, MemoryStays DEF IsActive
<1>17. QED
  BY <1>3, <1>4, <1>5, <1>6, <1>7, <1>8, <1>9, <1>10, <1>11, <1>12, <1>13,
     <1>14, <1>15, <1>16
  DEF Next, CreateHail, ReassignCommit

\* As long as no process has died and no reply has raised, somebody is going to
\* act on every hail under way: its request is queued or running, or the
\* timeout of its very status is armed, or about to be. Nothing else that
\* happens to a hail can make the API lose sight of it.
THEOREM NoneIsForgotten == Spec => []NoHailIsForgotten
<1>1. Init => ActiveIsWatched /\ NoHailIsForgotten
  BY StatusesDiffer DEF Init, ActiveIsWatched, NoHailIsForgotten, IsActive
<1>2. TypeOK /\ ActiveIsWatched /\ [Next]_vars => ActiveIsWatched'
  BY ActiveStaysWatched
<1>3. /\ TypeOK /\ OneActiveHailPerTaxi /\ ActiveIsWatched /\ NoHailIsForgotten
      /\ [Next]_vars
      => NoHailIsForgotten'
  BY NoneIsForgottenNext
<1>4. QED
  BY <1>1, <1>2, <1>3, TypeCorrect, OneActiveHail, PTL DEF Spec

-------------------------------------------------------------------------------
\* Redistribution: whom it calls, and how often

Redistributed(s) == {h \in SessionHails(s) : booking[h].via = "reassignment"}

\* What a running redistribution decided under its locks stays true of the rows
\* it locked, and what comes in beside them is the customer's own doing.
ChoiceIsSound ==
    \A s \in Session : reassign[s] # None =>
        \A g \in SessionHails(s) :
            IF g \in reassign[s].rows
            THEN booking[g].taxi # reassign[s].taxi
            ELSE booking[g].via = "added_by"

\* Redistribution continues what a customer began.
CustomerBegins ==
    \A s \in Session :
        SessionHails(s) # {} \/ reassign[s] # None =>
            \E g \in SessionHails(s) : booking[g].via = "added_by"

\* While a session is being redistributed there is room for the next attempt.
RoomForOneMore ==
    \A s \in Session :
        reassign[s] # None => Cardinality(Redistributed(s)) + 1 < MaxAttempts

RedistributionInv ==
    /\ ChoiceIsSound
    /\ CustomerBegins
    /\ RoomForOneMore
    /\ AttemptsAreLimited

\* A session's hails are finitely many.
LEMMA SessionIsFinite ==
    ASSUME NEW s
    PROVE  /\ IsFiniteSet(SessionHails(s))
           /\ IsFiniteSet(Redistributed(s))
           /\ Cardinality(Redistributed(s)) \in Nat
<1>1. IsFiniteSet(Hail)
  <2>1. MaxHails \in Int /\ 1 \in Int
    BY DispatchAssumption
  <2>2. QED
    BY <2>1, FS_Interval DEF Hail
<1>2. SessionHails(s) \in SUBSET Hail /\ Redistributed(s) \in SUBSET Hail
  BY DEF SessionHails, Redistributed
<1>3. QED
  BY <1>1, <1>2, FS_Subset, FS_CardinalityType

\* A session holds a hail of the customer's besides those of redistribution.
LEMMA OneIsTheCustomers ==
    ASSUME NEW s, NEW g \in SessionHails(s), booking[g].via = "added_by"
    PROVE  Cardinality(Redistributed(s)) + 1 <= Cardinality(SessionHails(s))
<1>1. Redistributed(s) \in SUBSET (SessionHails(s) \ {g})
  BY DEF Redistributed
<1>2. /\ IsFiniteSet(SessionHails(s) \ {g})
      /\ Cardinality(SessionHails(s) \ {g}) = Cardinality(SessionHails(s)) - 1
  BY SessionIsFinite, FS_RemoveElement
<1>3. Cardinality(Redistributed(s)) <= Cardinality(SessionHails(s) \ {g})
  BY <1>1, <1>2, FS_Subset
<1>4. Cardinality(SessionHails(s)) \in Nat /\ Cardinality(Redistributed(s)) \in Nat
  BY SessionIsFinite, FS_CardinalityType
<1>5. QED
  BY <1>2, <1>3, <1>4

\* Steps that book no hail and begin no redistribution change nothing here.
LEMMA SessionsAlone ==
    ASSUME RedistributionInv, UNCHANGED booking,
           \A h \in Hail : status'[h] = "absent" <=> status[h] = "absent",
           \A s \in Session : reassign'[s] = reassign[s] \/ reassign'[s] = None
    PROVE  RedistributionInv'
<1>1. \A s : SessionHails(s)' = SessionHails(s)
  BY DEF SessionHails
<1>2. \A s : Redistributed(s)' = Redistributed(s)
  BY <1>1 DEF Redistributed
<1>3. ChoiceIsSound'
  <2> SUFFICES ASSUME NEW s \in Session, reassign'[s] # None,
                      NEW g \in SessionHails(s)
               PROVE  IF g \in reassign'[s].rows
                      THEN booking[g].taxi # reassign'[s].taxi
                      ELSE booking[g].via = "added_by"
    BY <1>1 DEF ChoiceIsSound
  <2>1. reassign'[s] = reassign[s]
    OBVIOUS
  <2>2. QED
    BY <2>1 DEF RedistributionInv, ChoiceIsSound
<1>4. CustomerBegins'
  BY <1>1 DEF RedistributionInv, CustomerBegins
<1>5. RoomForOneMore'
  BY <1>2 DEF RedistributionInv, RoomForOneMore
<1>6. AttemptsAreLimited'
  BY <1>2 DEF RedistributionInv, AttemptsAreLimited, Redistributed
<1>7. QED
  BY <1>3, <1>4, <1>5, <1>6 DEF RedistributionInv

\* What an insert makes of the sessions: one has one hail more.
LEMMA SessionsAfterInsert ==
    ASSUME TypeOK, NEW h \in Hail, NEW t, NEW v, NEW s, NEW via,
           InsertHail(h, t, v, s, via)
    PROVE  /\ h \notin SessionHails(s)
           /\ SessionHails(s)' = SessionHails(s) \cup {h}
           /\ \A u : u # s => SessionHails(u)' = SessionHails(u)
           /\ booking'[h].taxi = t /\ booking'[h].via = via
           /\ booking'[h].session = s
           /\ \A g \in Hail \ {h} : booking'[g] = booking[g]
           /\ \A u \in Session : reassign[u] # None => h \notin reassign[u].rows
<1>1. /\ status[h] = "absent" /\ status'[h] = "received"
      /\ booking'[h] = [taxi |-> t, vd |-> v, session |-> s, via |-> via]
      /\ \A g \in Hail \ {h} : status'[g] = status[g] /\ booking'[g] = booking[g]
  BY DEF InsertHail, IsNext, TypeOK, RowTypes
<1>2. /\ booking'[h].taxi = t /\ booking'[h].via = via /\ booking'[h].session = s
      /\ status'[h] # "absent"
  BY <1>1
<1>3. h \notin SessionHails(s)
  BY <1>1 DEF SessionHails
<1>4. SessionHails(s)' = SessionHails(s) \cup {h}
  BY <1>1, <1>2 DEF SessionHails
<1>5. \A u : u # s => SessionHails(u)' = SessionHails(u)
  BY <1>1, <1>2 DEF SessionHails
<1>6. \A u \in Session : reassign[u] # None => h \notin reassign[u].rows
  BY <1>1 DEF TypeOK, NoDangling
<1>7. QED
  BY <1>1, <1>2, <1>3, <1>4, <1>5, <1>6

\* The redistributions of each session after an insert.
LEMMA RedistributedAfterInsert ==
    ASSUME TypeOK, NEW h \in Hail, NEW t, NEW v, NEW s, NEW via,
           InsertHail(h, t, v, s, via)
    PROVE  /\ \A u : u # s => Redistributed(u)' = Redistributed(u)
           /\ via # "reassignment" => Redistributed(s)' = Redistributed(s)
           /\ Cardinality(Redistributed(s)') <= Cardinality(Redistributed(s)) + 1
           /\ Cardinality(Redistributed(s)') \in Nat
<1>1. /\ h \notin SessionHails(s)
      /\ SessionHails(s)' = SessionHails(s) \cup {h}
      /\ \A u : u # s => SessionHails(u)' = SessionHails(u)
      /\ booking'[h].via = via
      /\ \A g \in Hail \ {h} : booking'[g] = booking[g]
  BY SessionsAfterInsert
<1>2. \A u : \A g \in SessionHails(u) : g \in Hail /\ g # h
  BY DEF SessionHails, InsertHail, IsNext
<1>3. \A u : u # s => Redistributed(u)' = Redistributed(u)
  BY <1>1, <1>2 DEF Redistributed
<1>4. Redistributed(s)' = Redistributed(s)
                            \cup (IF via = "reassignment" THEN {h} ELSE {})
  BY <1>1, <1>2 DEF Redistributed
<1>5. via = "reassignment" => Redistributed(s)' = Redistributed(s) \cup {h}
  BY <1>4
<1>6. via # "reassignment" => Redistributed(s)' = Redistributed(s)
  BY <1>4
<1>7. Cardinality(Redistributed(s)) \in Nat /\ IsFiniteSet(Redistributed(s))
  BY SessionIsFinite
<1>8. CASE via = "reassignment"
  <2>1. h \notin Redistributed(s)
    BY <1>1 DEF Redistributed
  <2>2. Cardinality(Redistributed(s) \cup {h}) = Cardinality(Redistributed(s)) + 1
    BY <1>7, <2>1, FS_AddElement
  <2>3. Redistributed(s)' = Redistributed(s) \cup {h}
    BY <1>5, <1>8
  <2>4. Cardinality(Redistributed(s)') = Cardinality(Redistributed(s)) + 1
    BY <2>2, <2>3, Zenon
  <2>5. QED
    BY <1>3, <1>7, <1>8, <2>4
<1>9. CASE via # "reassignment"
  BY <1>3, <1>6, <1>7, <1>9
<1>10. QED
  BY <1>8, <1>9

LEMMA RedistributionStaysSound ==
    ASSUME TypeOK, RedistributionInv, [Next]_vars
    PROVE  RedistributionInv'
<1> USE StatusesDiffer
<1>1. ASSUME NEW h \in Hail, NEW t \in Taxi, NEW s \in Session,
             CreateHail(h, t, s)
      PROVE  RedistributionInv'
  <2>1. InsertHail(h, t, OwnVd[t], s, "added_by") /\ UNCHANGED reassign
    BY <1>1 DEF CreateHail
  <2>2. /\ SessionHails(s)' = SessionHails(s) \cup {h}
        /\ \A u : u # s => SessionHails(u)' = SessionHails(u)
        /\ booking'[h].via = "added_by"
        /\ \A g \in Hail \ {h} : booking'[g] = booking[g]
        /\ \A u \in Session : reassign[u] # None => h \notin reassign[u].rows
    BY <2>1, SessionsAfterInsert
  <2>3. \A u : \A g \in SessionHails(u) : g \in Hail /\ g # h
    BY <2>1 DEF SessionHails, InsertHail, IsNext
  <2>4. \A u : Redistributed(u)' = Redistributed(u)
    BY <2>1, RedistributedAfterInsert
  <2>5. ChoiceIsSound'
    <3> SUFFICES ASSUME NEW u \in Session, reassign[u] # None,
                        NEW g \in SessionHails(u)'
                 PROVE  IF g \in reassign[u].rows
                        THEN booking'[g].taxi # reassign[u].taxi
                        ELSE booking'[g].via = "added_by"
      BY <2>1 DEF ChoiceIsSound
    <3>1. CASE g = h
      BY <2>2, <3>1
    <3>2. CASE g # h
      <4>1. g \in SessionHails(u)
        BY <2>2, <3>2
      <4>2. booking'[g] = booking[g]
        BY <2>2, <2>3, <4>1
      <4>3. QED
        BY <4>1, <4>2 DEF RedistributionInv, ChoiceIsSound
    <3>3. QED
      BY <3>1, <3>2
  <2>6. CustomerBegins'
    <3> SUFFICES ASSUME NEW u \in Session,
                        SessionHails(u)' # {} \/ reassign[u] # None
                 PROVE  \E g \in SessionHails(u)' : booking'[g].via = "added_by"
      BY <2>1 DEF CustomerBegins
    <3>1. CASE u = s
      BY <2>2, <3>1
    <3>2. CASE u # s
      <4>1. SessionHails(u)' = SessionHails(u)
        BY <2>2, <3>2
      <4>2. PICK g \in SessionHails(u) : booking[g].via = "added_by"
        BY <4>1 DEF RedistributionInv, CustomerBegins
      <4>3. QED
        BY <2>2, <2>3, <4>1, <4>2
    <3>3. QED
      BY <3>1, <3>2
  <2>7. RoomForOneMore' /\ AttemptsAreLimited'
    BY <2>1, <2>4 DEF RedistributionInv, RoomForOneMore, AttemptsAreLimited,
                      Redistributed
  <2>8. QED
    BY <2>5, <2>6, <2>7 DEF RedistributionInv
<1>2. ASSUME NEW p \in pending, NEW t \in Taxi, NEW v \in Vd,
             ReassignBegin(p, t, v)
      PROVE  RedistributionInv'
  <2> DEFINE s == booking[p.hail].session
             running == [source |-> p.hail, taxi |-> t, vd |-> v,
                         rows |-> SessionHails(s)]
  <2>1. /\ SessionAllows(p.hail, s)
        /\ t \notin Contacted(s)
        /\ reassign' = [reassign EXCEPT ![s] = running]
        /\ UNCHANGED <<status, booking>>
    BY <1>2 DEF ReassignBegin, ContinuationDone
  <2>2. p.hail \in SessionHails(s)
    BY DEF TypeOK, ProcessTypes, NoDangling, Continuation, SessionHails
  <2>3. /\ \A u : SessionHails(u)' = SessionHails(u)
        /\ \A u : Redistributed(u)' = Redistributed(u)
    BY <2>1 DEF SessionHails, Redistributed
  <2>4. /\ \A u \in Session \ {s} : reassign'[u] = reassign[u]
        /\ s \in Session => reassign'[s] = running
    BY <2>1 DEF TypeOK, ProcessTypes
  <2>5. running.rows = SessionHails(s) /\ running.taxi = t
    OBVIOUS
  <2>6. \A g \in SessionHails(s) : booking[g].taxi # t
    BY <2>1 DEF Contacted
  <2> HIDE DEF running, s
  <2>7. ChoiceIsSound'
    <3> SUFFICES ASSUME NEW u \in Session, reassign'[u] # None,
                        NEW g \in SessionHails(u)
                 PROVE  IF g \in reassign'[u].rows
                        THEN booking[g].taxi # reassign'[u].taxi
                        ELSE booking[g].via = "added_by"
      BY <2>1, <2>3 DEF ChoiceIsSound
    <3>1. CASE u = s
      BY <2>4, <2>5, <2>6, <3>1
    <3>2. CASE u # s
      <4>1. reassign'[u] = reassign[u]
        BY <2>4, <3>2
      <4>2. QED
        BY <4>1 DEF RedistributionInv, ChoiceIsSound
    <3>3. QED
      BY <3>1, <3>2
  <2>8. CustomerBegins'
    <3> SUFFICES ASSUME NEW u \in Session,
                        SessionHails(u) # {} \/ reassign'[u] # None
                 PROVE  \E g \in SessionHails(u) : booking[g].via = "added_by"
      BY <2>1, <2>3 DEF CustomerBegins
    <3>1. SessionHails(u) # {} \/ reassign[u] # None
      BY <2>2, <2>4
    <3>2. QED
      BY <3>1 DEF RedistributionInv, CustomerBegins
  <2>9. RoomForOneMore'
    <3> SUFFICES ASSUME NEW u \in Session, reassign'[u] # None
                 PROVE  Cardinality(Redistributed(u)) + 1 < MaxAttempts
      BY <2>3 DEF RoomForOneMore
    <3>1. CASE u = s
      <4>1. PICK g \in SessionHails(s) : booking[g].via = "added_by"
        BY <2>2, <3>1 DEF RedistributionInv, CustomerBegins
      <4>2. Cardinality(Redistributed(s)) + 1 <= Cardinality(SessionHails(s))
        BY <4>1, OneIsTheCustomers
      <4>3. Cardinality(SessionHails(s)) < MaxAttempts
        BY <2>1 DEF SessionAllows
      <4>4. /\ Cardinality(SessionHails(s)) \in Nat
            /\ Cardinality(Redistributed(s)) \in Nat
        BY SessionIsFinite, FS_CardinalityType
      <4>5. MaxAttempts \in Nat
        BY DispatchAssumption
      <4>6. QED
        BY ONLY <3>1, <4>2, <4>3, <4>4, <4>5
    <3>2. CASE u # s
      BY <2>4, <3>2 DEF RedistributionInv, RoomForOneMore
    <3>3. QED
      BY <3>1, <3>2
  <2>10. AttemptsAreLimited'
    BY <2>3 DEF RedistributionInv, AttemptsAreLimited, Redistributed
  <2>11. QED
    BY <2>7, <2>8, <2>9, <2>10 DEF RedistributionInv
<1>3. ASSUME NEW s \in Session, NEW h \in Hail, ReassignCommit(s, h)
      PROVE  RedistributionInv'
  <2>1. /\ InsertHail(h, reassign[s].taxi, reassign[s].vd, s, "reassignment")
        /\ reassign[s] # None
        /\ reassign' = [reassign EXCEPT ![s] = None]
    BY <1>3 DEF ReassignCommit
  <2>2. /\ SessionHails(s)' = SessionHails(s) \cup {h}
        /\ \A u : u # s => SessionHails(u)' = SessionHails(u)
        /\ \A g \in Hail \ {h} : booking'[g] = booking[g]
    BY <2>1, SessionsAfterInsert
  <2>3. \A u : \A g \in SessionHails(u) : g \in Hail /\ g # h
    BY <2>1 DEF SessionHails, InsertHail, IsNext
  <2>4. /\ \A u : u # s => Redistributed(u)' = Redistributed(u)
        /\ Cardinality(Redistributed(s)') <= Cardinality(Redistributed(s)) + 1
        /\ Cardinality(Redistributed(s)') \in Nat
    BY <2>1, RedistributedAfterInsert
  <2>5. /\ reassign'[s] = None
        /\ \A u \in Session \ {s} : reassign'[u] = reassign[u]
    BY <2>1 DEF TypeOK, ProcessTypes
  <2>6. ChoiceIsSound'
    <3> SUFFICES ASSUME NEW u \in Session, reassign'[u] # None,
                        NEW g \in SessionHails(u)'
                 PROVE  IF g \in reassign'[u].rows
                        THEN booking'[g].taxi # reassign'[u].taxi
                        ELSE booking'[g].via = "added_by"
      BY DEF ChoiceIsSound
    <3>1. u # s /\ reassign'[u] = reassign[u] /\ g \in SessionHails(u)
      BY <2>2, <2>5
    <3>2. booking'[g] = booking[g]
      BY <2>2, <2>3, <3>1
    <3>3. QED
      BY <3>1, <3>2 DEF RedistributionInv, ChoiceIsSound
  <2>7. CustomerBegins'
    <3> SUFFICES ASSUME NEW u \in Session,
                        SessionHails(u)' # {} \/ reassign'[u] # None
                 PROVE  \E g \in SessionHails(u)' : booking'[g].via = "added_by"
      BY DEF CustomerBegins
    <3>1. SessionHails(u) # {} \/ reassign[u] # None
      BY <2>1, <2>2, <2>5
    <3>2. PICK g \in SessionHails(u) : booking[g].via = "added_by"
      BY <3>1 DEF RedistributionInv, CustomerBegins
    <3>3. booking'[g].via = "added_by" /\ g \in SessionHails(u)'
      BY <2>2, <2>3, <3>2
    <3>4. QED
      BY <3>3
  <2>8. RoomForOneMore'
    <3> SUFFICES ASSUME NEW u \in Session, reassign'[u] # None
                 PROVE  Cardinality(Redistributed(u)') + 1 < MaxAttempts
      BY DEF RoomForOneMore
    <3>1. u # s /\ reassign[u] # None
      BY <2>5
    <3>2. QED
      BY <2>4, <3>1 DEF RedistributionInv, RoomForOneMore
  <2>9. AttemptsAreLimited'
    <3> SUFFICES ASSUME NEW u \in Session
                 PROVE  Cardinality(Redistributed(u)') < MaxAttempts
      BY DEF AttemptsAreLimited, Redistributed
    <3>1. CASE u # s
      BY <2>4, <3>1 DEF RedistributionInv, AttemptsAreLimited, Redistributed
    <3>2. CASE u = s
      <4>1. Cardinality(Redistributed(s)) + 1 < MaxAttempts
        BY <2>1 DEF RedistributionInv, RoomForOneMore
      <4>2. Cardinality(Redistributed(s)) \in Nat /\ MaxAttempts \in Nat
        BY SessionIsFinite, DispatchAssumption
      <4>3. QED
        BY ONLY <2>4, <3>2, <4>1, <4>2
    <3>3. QED
      BY <3>1, <3>2
  <2>10. QED
    BY <2>6, <2>7, <2>8, <2>9 DEF RedistributionInv
<1>4. ASSUME NEW h \in Hail, NEW new \in HAIL_STATUS, SendCommit(h, new)
      PROVE  RedistributionInv'
  <2>1. status[h] # "absent"
    BY <1>4 DEF SendCommit, TypeOK, NoDangling
  <2>2. QED
    BY <1>4, <2>1, SessionsAlone DEF SendCommit, TypeOK, RowTypes
<1>5. ASSUME NEW h \in Hail, NEW new \in AskedOfHail, NEW role \in ROLES,
             NEW e \in Event \cup {None}, PutStatus(h, new, role, e)
      PROVE  RedistributionInv'
  <2>1. status[h] # "absent" /\ new # "absent"
    BY <1>5, PermittedType DEF PutStatus
  <2>2. QED
    BY <1>5, <2>1, SessionsAlone DEF PutStatus, TypeOK, RowTypes
<1>6. ASSUME NEW h \in Hail, NEW timeout \in TIMEOUTS_BY_STATUS,
             TimeoutFires(h, timeout)
      PROVE  RedistributionInv'
  <2>1. status[h] # "absent" /\ timeout.hail # "absent"
    BY <1>6, TimeoutType DEF TimeoutFires, StillWaiting
  <2>2. QED
    BY <1>6, <2>1, SessionsAlone DEF TimeoutFires, TypeOK, RowTypes
<1>7. ASSUME NEW s \in Session, ReassignRaises(s) \/ CrashWhileReassigning(s)
      PROVE  RedistributionInv'
  <2>1. /\ reassign' = [reassign EXCEPT ![s] = None]
        /\ UNCHANGED <<status, booking>>
    BY <1>7 DEF ReassignRaises, CrashWhileReassigning, ReassignDropped
  <2>2. QED
    BY <2>1, SessionsAlone DEF TypeOK, ProcessTypes
<1>8. ASSUME \/ \E h \in Hail : \/ SendBegin(h) \/ SendIgnored(h)
                                \/ SendRaises(h) \/ CrashWhileSending(h)
             \/ \E h \in Hail, timeout \in TIMEOUTS_BY_STATUS :
                   TimeoutIgnored(h, timeout)
             \/ \E p \in pending : \/ EnqueueSend(p) \/ ScheduleTimer(p)
                                   \/ ReassignRefused(p) \/ CrashAfterCommit(p)
             \/ \E t \in Taxi, v \in Vd, st \in AskedOfTaxi :
                   DriverSetsStatus(t, v, st)
             \/ UNCHANGED vars
      PROVE  RedistributionInv'
  <2>1. UNCHANGED <<status, booking, reassign>>
    BY <1>8 DEF SendBegin, SendIgnored, SendRaises, CrashWhileSending,
                TimeoutIgnored, EnqueueSend, ScheduleTimer, ReassignRefused,
                CrashAfterCommit, DriverSetsStatus, ContinuationDone,
                SendDropped, vars
  <2>2. QED
    BY <2>1, SessionsAlone
<1>9. QED
  BY <1>1, <1>2, <1>3, <1>4, <1>5, <1>6, <1>7, <1>8 DEF Next

LEMMA RedistributionIsSound == Spec => []RedistributionInv
<1>1. ASSUME Init PROVE RedistributionInv
  <2>1. \A s : SessionHails(s) = {} /\ Redistributed(s) = {}
    BY <1>1 DEF Init, SessionHails, Redistributed
  <2>2. \A s \in Session : reassign[s] = None
    BY <1>1 DEF Init
  <2>3. Cardinality({}) = 0 /\ 0 < MaxAttempts
    BY FS_EmptySet, DispatchAssumption
  <2>4. \A s : Cardinality(Redistributed(s)) = 0
    BY <2>1, <2>3
  <2>5. AttemptsAreLimited
    BY <2>3, <2>4 DEF AttemptsAreLimited, Redistributed
  <2>6. QED
    BY <2>1, <2>2, <2>5 DEF RedistributionInv, ChoiceIsSound, CustomerBegins,
                            RoomForOneMore
<1>2. TypeOK /\ RedistributionInv /\ [Next]_vars => RedistributionInv'
  BY RedistributionStaysSound
<1>3. QED
  BY <1>1, <1>2, TypeCorrect, PTL DEF Spec

\* A session is redistributed fewer than MaxAttempts times, although a hail the
\* customer places meanwhile is not stopped by the session's locks.
THEOREM AttemptsLimited == Spec => []AttemptsAreLimited
<1>1. RedistributionInv => AttemptsAreLimited
  BY DEF RedistributionInv
<1>2. QED
  BY <1>1, RedistributionIsSound, PTL

\* Redistribution never calls a taxi that the session had contacted when it
\* locked the session's hails, whoever refuses at the same time.
THEOREM ContactedOnce == Spec => NeverContactedTwice
<1> DEFINE Fresh ==
      \A h \in Hail :
          InsertedByReassignment(h) =>
              LET s == booking'[h].session IN
              \A g \in SessionHails(s) :
                  booking[g].taxi = booking'[h].taxi =>
                      /\ booking[g].via = "added_by"
                      /\ g \notin reassign[s].rows
<1>1. ASSUME TypeOK, RedistributionInv, [Next]_vars PROVE Fresh
  <2> USE StatusesDiffer
  <2>1. ASSUME NEW h \in Hail, NEW t, NEW v, NEW s, InsertHail(h, t, v, s, "added_by")
        PROVE  Fresh
    <3>1. /\ booking'[h].via = "added_by"
          /\ \A g \in Hail \ {h} : status'[g] = status[g]
      BY <1>1, <2>1, SessionsAfterInsert DEF InsertHail, TypeOK, RowTypes
    <3>2. QED
      BY <3>1 DEF InsertedByReassignment
  <2>2. ASSUME NEW s \in Session, NEW h \in Hail, ReassignCommit(s, h)
        PROVE  Fresh
    <3>1. /\ booking'[h].session = s /\ booking'[h].taxi = reassign[s].taxi
          /\ \A g \in Hail \ {h} : status'[g] = status[g]
          /\ reassign[s] # None
      BY <1>1, <2>2, SessionsAfterInsert
      DEF ReassignCommit, InsertHail, TypeOK, RowTypes
    <3>2. \A g \in SessionHails(s) :
             booking[g].taxi = reassign[s].taxi =>
                 /\ booking[g].via = "added_by"
                 /\ g \notin reassign[s].rows
      BY <1>1, <3>1 DEF RedistributionInv, ChoiceIsSound
    <3>3. QED
      BY <3>1, <3>2 DEF InsertedByReassignment
  <2>3. ASSUME \A h \in Hail : status[h] = "absent" => status'[h] = "absent"
        PROVE  Fresh
    BY <2>3 DEF InsertedByReassignment
  <2>4. ASSUME NEW h \in Hail, NEW new \in HAIL_STATUS, SendCommit(h, new)
        PROVE  Fresh
    <3>1. status[h] # "absent"
      BY <1>1, <2>4 DEF SendCommit, TypeOK, NoDangling
    <3>2. QED
      BY <1>1, <2>3, <2>4, <3>1 DEF SendCommit, TypeOK, RowTypes
  <2>5. ASSUME NEW h \in Hail, NEW new \in AskedOfHail, NEW role \in ROLES,
               NEW e \in Event \cup {None}, PutStatus(h, new, role, e)
        PROVE  Fresh
    <3>1. status[h] # "absent"
      BY <2>5, PermittedType DEF PutStatus
    <3>2. QED
      BY <1>1, <2>3, <2>5, <3>1 DEF PutStatus, TypeOK, RowTypes
  <2>6. ASSUME NEW h \in Hail, NEW timeout \in TIMEOUTS_BY_STATUS,
               TimeoutFires(h, timeout)
        PROVE  Fresh
    <3>1. status[h] # "absent"
      BY <2>6, TimeoutType DEF TimeoutFires, StillWaiting
    <3>2. QED
      BY <1>1, <2>3, <2>6, <3>1 DEF TimeoutFires, TypeOK, RowTypes
  <2>7. ASSUME QuietStep PROVE Fresh
    BY <2>3, <2>7, QuietLeavesRows
  <2> HIDE DEF Fresh
  <2>8. QED
    BY <1>1, <2>1, <2>2, <2>4, <2>5, <2>6, <2>7 DEF Next, QuietStep, CreateHail
<1>2. QED
  BY <1>1, TypeCorrect, RedistributionIsSound, PTL DEF Spec, NeverContactedTwice

-------------------------------------------------------------------------------
\* What the answers show of a hail

PastApproach(h) == status[h] \in HAIL_TERMINAL_STATUS \cup {"customer_on_board"}

Ended(h) == status[h] \in HAIL_TERMINAL_STATUS

\* From on board, a hail can only end.
LEMMA PermittedPastApproach ==
    ASSUME NEW from \in HAIL_TERMINAL_STATUS \cup {"customer_on_board"}, NEW to,
           NEW role, Permitted(from, to, role)
    PROVE  to \in HAIL_TERMINAL_STATUS
BY DEF Permitted, TRANSITIONS, HAIL_TERMINAL_STATUS

\* No step leads a hail back from the ride, or from its end.
LEMMA NoWayBack ==
    ASSUME TypeOK, UndisturbedRequests, [Next]_vars, NEW h \in Hail
    PROVE  /\ PastApproach(h) => PastApproach(h)'
           /\ Ended(h) => Ended(h)'
<1> USE StatusesDiffer DEF PastApproach, Ended
<1>1. status \in [Hail -> HAIL_STATUS \cup {"absent"}]
  BY DEF TypeOK, RowTypes
<1>2. ASSUME NEW g \in Hail, NEW t, NEW v, NEW s, NEW via,
             InsertHail(g, t, v, s, via), PastApproach(h)
      PROVE  status'[h] = status[h]
  <2>1. status[g] = "absent" /\ status[h] # "absent"
    BY <1>2 DEF InsertHail, IsNext, HAIL_TERMINAL_STATUS
  <2>2. QED
    BY <1>1, <1>2, <2>1 DEF InsertHail
<1>3. ASSUME NEW g \in Hail, NEW new \in HAIL_STATUS, SendCommit(g, new),
             PastApproach(h)
      PROVE  status'[h] = status[h]
  <2>1. status[g] = "received" /\ status[h] # "received"
    BY <1>3 DEF SendCommit, UndisturbedRequests, HAIL_TERMINAL_STATUS
  <2>2. QED
    BY <1>1, <1>3, <2>1 DEF SendCommit
<1>4. ASSUME NEW g \in Hail, NEW new \in AskedOfHail, NEW role \in ROLES,
             NEW e \in Event \cup {None}, PutStatus(g, new, role, e),
             PastApproach(h)
      PROVE  status'[h] = status[h] \/ Ended(h)'
  <2>1. CASE g = h
    <3>1. new \in HAIL_TERMINAL_STATUS
      BY <1>4, <2>1, PermittedPastApproach DEF PutStatus
    <3>2. QED
      BY <1>1, <1>4, <2>1, <3>1 DEF PutStatus
  <2>2. CASE g # h
    BY <1>1, <1>4, <2>2 DEF PutStatus
  <2>3. QED
    BY <2>1, <2>2
<1>5. ASSUME NEW g \in Hail, NEW timeout \in TIMEOUTS_BY_STATUS,
             TimeoutFires(g, timeout)
      PROVE  status'[h] = status[h] \/ Ended(h)'
  BY <1>1, <1>5, TimeoutType DEF TimeoutFires
<1>6. ASSUME QuietStep PROVE status'[h] = status[h]
  BY <1>6, QuietLeavesRows
<1>7. PastApproach(h) => status'[h] = status[h] \/ Ended(h)'
  BY <1>2, <1>3, <1>4, <1>5, <1>6 DEF Next, QuietStep, CreateHail, ReassignCommit
<1>8. QED
  BY <1>7

\* Once a customer is on board or a hail has ended, its taxi's exact position is
\* never shown again, and once it has ended, neither is the vehicle: the answers
\* read nothing but the status, and the status never comes back.
THEOREM SharingEnds ==
    ASSUME ~CancelWhileSending
    PROVE  Spec => SharingEndsForGood
<1> SUFFICES ASSUME NEW h \in Hail
             PROVE  Spec => /\ [](status[h] \in HAIL_TERMINAL_STATUS
                                                \cup {"customer_on_board"}
                                    => []~PositionIsShared(status[h]))
                            /\ [](status[h] \in HAIL_TERMINAL_STATUS
                                    => []~VehicleIsShared(status[h]))
  BY DEF SharingEndsForGood
<1>1. TypeOK /\ UndisturbedRequests /\ [Next]_vars
      => (PastApproach(h) => PastApproach(h)') /\ (Ended(h) => Ended(h)')
  BY NoWayBack
<1>2. PastApproach(h) => ~PositionIsShared(status[h])
  BY DEF PastApproach, PositionIsShared, HAIL_TERMINAL_STATUS
<1>3. Ended(h) => ~VehicleIsShared(status[h])
  BY DEF Ended, VehicleIsShared, HAIL_TERMINAL_STATUS
<1>4. /\ (status[h] \in HAIL_TERMINAL_STATUS \cup {"customer_on_board"})
           <=> PastApproach(h)
      /\ (status[h] \in HAIL_TERMINAL_STATUS) <=> Ended(h)
  BY DEF PastApproach, Ended
<1>5. QED
  BY <1>1, <1>2, <1>3, <1>4, TypeCorrect, RequestsUndisturbed, PTL DEF Spec

\* Whatever route a user takes to a hail he meets the same hail, in whatever
\* status the hail is and whatever the settings.
THEOREM AnswersAgree == Spec => []ReadersAgree
<1>1. ReadersAgree
  <2> SUFFICES ASSUME NEW u \in User, NEW set \in Settings, NEW old \in BOOLEAN
               PROVE  /\ \A described \in BOOLEAN :
                            MayRead(u, old, described) <=> described /\ IsListed(u, old)
                      /\ IsInSessions(u) /\ ~old => MayRead(u, old, TRUE)
                      /\ \A st : LET answer == HailAnswer(u, st, set) IN
                            /\ Fits(answer, ListAnswer(u, set))
                            /\ Fits(answer, SessionAnswer(u, st, set))
                            /\ ~u.operatesIt \/ u.admin
                                 => Fits(answer, SearchAnswer(u, set))
                            /\ u.operatesIt => Fits(answer, TaxiAnswer)
                            /\ u.operatesIt /\ ~u.admin =>
                                  \A field \in {"taxi", "operateur", "phones"} :
                                      answer[field] = TaskAnswer(st, set)[field]
    BY DEF ReadersAgree
  <2>1. /\ u.admin \/ u.moteur \/ u.operateur
        /\ u.addedIt => u.moteur \/ u.admin
        /\ u.operatesIt => u.operateur \/ u.admin
    BY DEF User
  <2>2. u # Nobody
    BY <2>1 DEF Nobody
  <2>3. /\ \A described \in BOOLEAN :
             MayRead(u, old, described) <=> described /\ IsListed(u, old)
        /\ IsInSessions(u) /\ ~old => MayRead(u, old, TRUE)
    BY <2>1 DEF IsListed, MayRead, IsInSessions
  <2>4. ASSUME NEW st PROVE Fits(HailAnswer(u, st, set), ListAnswer(u, set))
    BY DEF Fits, HailAnswer, ListAnswer, HailTaxiId, ListTaxiId, HailOperator, ListOperator
  <2>5. ASSUME NEW st PROVE Fits(HailAnswer(u, st, set), SessionAnswer(u, st, set))
    BY DEF Fits, HailAnswer, SessionAnswer, HailTaxiId, SessionTaxiId, HailOperator,
           SessionOperator
  <2>6. ASSUME NEW st, u.operatesIt, ~u.admin
        PROVE  \A field \in {"taxi", "operateur", "phones"} :
                   HailAnswer(u, st, set)[field] = TaskAnswer(st, set)[field]
    <3>1. /\ HailTaxiId(u, set) = "id"
          /\ HailOperator(u, set) = "email"
          /\ HailTaxiId(Nobody, set) = "id"
          /\ HailOperator(Nobody, set) = "email"
      BY <2>6 DEF HailTaxiId, HailOperator
    <3>2. PhonesAreShown(u, st) = PhonesAreShown(Nobody, st)
      BY <2>6 DEF PhonesAreShown
    <3>3. QED
      BY <3>1, <3>2 DEF HailAnswer, TaskAnswer
  <2>7. ASSUME NEW st, ~u.operatesIt \/ u.admin
        PROVE  Fits(HailAnswer(u, st, set), SearchAnswer(u, set))
    <3>1. /\ HailTaxiId(u, set) = SearchAnswer(u, set).taxi
          /\ HailOperator(u, set) = SearchAnswer(u, set).operateur
      BY <2>2, <2>7 DEF HailTaxiId, HailOperator, SearchAnswer
    <3>2. QED
      BY <3>1 DEF Fits, HailAnswer, SearchAnswer
  <2>8. ASSUME NEW st, u.operatesIt PROVE Fits(HailAnswer(u, st, set), TaxiAnswer)
    <3>1. HailTaxiId(u, set) = "id" /\ HailOperator(u, set) = "email"
      BY <2>8 DEF HailTaxiId, HailOperator
    <3>2. QED
      BY <3>1 DEF Fits, HailAnswer, TaxiAnswer
  <2>9. QED
    BY <2>3, <2>4, <2>5, <2>6, <2>7, <2>8
<1>2. QED
  BY <1>1, PTL
===============================================================================
