------------------------------- MODULE RowLocks -------------------------------
(***************************************************************************)
(* The transactions of HailDispatch at the grain of their locks. Each one  *)
(* takes its locks one statement at a time and keeps them until it ends:   *)
(*                                                                         *)
(*   create    the taxi's vehicle description, then, by its INSERT, the    *)
(*             taxi's key in uq_rezo_single_active_hail_per_taxi;          *)
(*   reassign  the hails of the session, the key, then the description;    *)
(*   change    (PUT /hails/:id, handle_hail_timeout) the hail, then its    *)
(*             description;                                                *)
(*   send      (send_request_operator) on success the hail and the key,    *)
(*             on failure hail and description in either order: they are   *)
(*             two UPDATEs of one flush.                                   *)
(*                                                                         *)
(* PostgreSQL ends a circle of waiting transactions by aborting one.       *)
(***************************************************************************)
EXTENDS Naturals, Sequences, SequencesExt

CONSTANTS
    Taxi,      \* each with a vehicle and a description of its own
    Session,   \* search sessions, each of one customer
    Tx,        \* bound: the transactions that run, each a kind and a hail:
               \* <<"create", h>> inserts h, <<"reassign", h>> replaces it
    MaxHails,  \* bound: hails ever created
    CancelWhileReceived,  \* environment: customers cancel before the operator
                          \* was reached
    AskedOfTaxi,  \* environment: what drivers set their description to
    None

Hail == 1..MaxHails

ASSUME RowLocksAssumption ==
    /\ MaxHails \in Nat
    /\ Tx \subseteq {"create", "reassign", "change", "send"} \X Hail
    /\ CancelWhileReceived \in BOOLEAN
    /\ AskedOfTaxi \subseteq {"free", "not free"}
    /\ None \notin Taxi \cup Session \cup Hail

Row(h) == <<"row", h>>
Description(t) == <<"description", t>>
IndexKey(t) == <<"key", t>>
Lock == {Row(h) : h \in Hail} \cup {Description(t) : t \in Taxi}
            \cup {IndexKey(t) : t \in Taxi}

VARIABLES
    hail,     \* committed: the status of a hail, as far as locks go by it
    on,       \* committed: its taxi
    session,  \* committed: its session
    desc,     \* committed: whether the taxi's description reads free
    pc,       \* whether the transaction runs, and how it ended
    aim,      \* the taxi it writes about
    new,      \* the hail it writes
    todo,     \* the locks it has still to take, in order
    holds     \* the locks it has

rows == <<hail, on, session, desc>>
vars == <<rows, pc, aim, new, todo, holds>>

Reached == {"received", "reached"}  \* not terminal

\* Types; a lock has one owner, and its owner runs.
TypeOK ==
    /\ hail \in [Hail -> Reached \cup {"absent", "refused", "closed"}]
    /\ on \in [Hail -> Taxi \cup {None}]
    /\ session \in [Hail -> Session \cup {None}]
    /\ desc \in [Taxi -> {"free", "not free"}]
    /\ pc \in [Tx -> {"idle", "running", "done", "failed"}]
    /\ aim \in [Tx -> Taxi \cup {None}]
    /\ new \in [Tx -> Hail \cup {None}]
    /\ todo \in [Tx -> Seq(Lock)]
    /\ holds \in [Tx -> SUBSET Lock]
    /\ \A x \in Tx : holds[x] # {} => pc[x] = "running"
    /\ \A x, y \in Tx : x # y => holds[x] \cap holds[y] = {}

Init ==
    /\ hail = [h \in Hail |-> "absent"]
    /\ on = [h \in Hail |-> None]
    /\ session = [h \in Hail |-> None]
    /\ desc = [t \in Taxi |-> "not free"]
    /\ pc = [x \in Tx |-> "idle"]
    /\ aim = [x \in Tx |-> None]
    /\ new = [x \in Tx |-> None]
    /\ todo = [x \in Tx |-> <<>>]
    /\ holds = [x \in Tx |-> {}]

-------------------------------------------------------------------------------

IsActive(h) == hail[h] \in Reached

SessionHails(s) == {h \in Hail : hail[h] # "absent" /\ session[h] = s}

\* A send that has written its hail has also touched the key the row had.
Has(x, r) ==
    \/ r \in holds[x]
    \/ /\ x[1] = "send"
       /\ Row(x[2]) \in holds[x]
       /\ IsActive(x[2])
       /\ r = IndexKey(on[x[2]])

Free(x, r) == \A y \in Tx \ {x} : ~Has(y, r)

\* Mutant: the migration that creates the index was not applied.
AnyKey(t, h) == TRUE

\* The index has no committed entry of taxi t, but that of hail h.
KeyIsUnused(t, h) == \A g \in Hail \ {h} : IsActive(g) => on[g] # t

Waiting(x) == pc[x] = "running" /\ todo[x] # <<>>

\* x starts about taxi t, or none yet; it has got the locks `got` at once and
\* needs `need`.
Begins(x, t, got, need) ==
    /\ x \in Tx
    /\ pc[x] = "idle"
    /\ \A r \in got : Free(x, r)
    /\ pc' = [pc EXCEPT ![x] = "running"]
    /\ aim' = [aim EXCEPT ![x] = t]
    /\ new' = [new EXCEPT ![x] = IF x[1] = "reassign" THEN None ELSE x[2]]
    /\ holds' = [holds EXCEPT ![x] = got]
    /\ todo' = [todo EXCEPT ![x] = need]
    /\ UNCHANGED rows

\* COMMIT, ROLLBACK or the end of the application context: all locks go.
Ends(x, how) ==
    /\ pc' = [pc EXCEPT ![x] = how]
    /\ aim' = [aim EXCEPT ![x] = None]
    /\ new' = [new EXCEPT ![x] = None]
    /\ todo' = [todo EXCEPT ![x] = <<>>]
    /\ holds' = [holds EXCEPT ![x] = {}]

-------------------------------------------------------------------------------

\* No row has this id, and nobody is about to insert it.
IsUnused(h) == hail[h] = "absent" /\ \A x \in Tx : new[x] # h

\* POST /hails locks the description, and goes on if it reads free and the taxi
\* has no active hail; otherwise it refuses, and nothing has happened.
CreateBegins(h, t) ==
    /\ IsUnused(h)
    /\ desc[t] = "free"
    /\ KeyIsUnused(t, None)
    /\ Begins(<<"create", h>>, t, {Description(t)}, <<IndexKey(t)>>)

\* The rows of the hails H, in any order (mutant: there is no ORDER BY).
AnyOrder(H) == {[i \in DOMAIN o |-> Row(o[i])] : o \in SetToSeqs(H)}

\* ORDER BY hail.id.
InIdOrder(H) ==
    {o \in AnyOrder(H) : \A i, j \in DOMAIN o : i < j => o[i][2] < o[j][2]}

ReassignBegins(h) ==
    /\ hail[h] = "refused"
    /\ \E order \in InIdOrder(SessionHails(session[h])) :
          Begins(<<"reassign", h>>, None, {Head(order)}, Tail(order))

\* With all the session's hails locked, none is active; taxi t was not
\* contacted and reads free, though nothing locks it.
ReassignChooses(h, t, g) ==
    LET x == <<"reassign", h>> IN
    /\ x \in Tx
    /\ pc[x] = "running"
    /\ aim[x] = None
    /\ todo[x] = <<>>
    /\ \A old \in SessionHails(session[h]) : ~IsActive(old) /\ on[old] # t
    /\ desc[t] = "free"
    /\ IsUnused(g)
    /\ aim' = [aim EXCEPT ![x] = t]
    /\ new' = [new EXCEPT ![x] = g]
    /\ todo' = [todo EXCEPT ![x] = <<IndexKey(t), Description(t)>>]
    /\ UNCHANGED <<rows, pc, holds>>

\* The session does not allow it, or no taxi is near enough.
ReassignGivesUp(h) ==
    LET x == <<"reassign", h>> IN
    /\ x \in Tx
    /\ pc[x] = "running"
    /\ aim[x] = None
    /\ todo[x] = <<>>
    /\ Ends(x, "done")
    /\ UNCHANGED rows

\* SELECT ... FOR UPDATE OF hail, vehicle_description.
ChangeBegins(h) ==
    /\ hail[h] # "absent"
    /\ Begins(<<"change", h>>, on[h],
              {Row(h)}, <<Description(on[h])>>)

\* The task has read a received hail, and the operator's API has answered. A
\* failure frees the taxi, unless the description was read free.
SendBegins(h) ==
    LET x == <<"send", h>>
        t == on[h]
    IN  /\ hail[h] = "received"
        /\ \/ Begins(x, t, {}, <<Row(h), IndexKey(t)>>)
           \/ /\ desc[t] = "not free"
              /\ \/ Begins(x, t, {}, <<Row(h), Description(t)>>)
                 \/ Begins(x, t, {}, <<Description(t), Row(h)>>)
           \/ desc[t] = "free" /\ Begins(x, t, {}, <<Row(h)>>)

-------------------------------------------------------------------------------

\* x gets the next lock: of a row, whatever it now holds, or of the key, if no
\* other active hail of the taxi has been committed.
Acquires(x) ==
    LET r == Head(todo[x]) IN
    /\ Waiting(x)
    /\ Free(x, r)
    /\ r = IndexKey(aim[x]) => KeyIsUnused(aim[x], new[x])
    /\ holds' = [holds EXCEPT ![x] = @ \cup {r}]
    /\ todo' = [todo EXCEPT ![x] = Tail(@)]
    /\ UNCHANGED <<rows, pc, aim, new>>

\* IntegrityError: another active hail of the taxi has been committed.
ViolatesIndex(x) ==
    LET r == Head(todo[x]) IN
    /\ Waiting(x)
    /\ r = IndexKey(aim[x])
    /\ Free(x, r)
    /\ ~KeyIsUnused(aim[x], new[x])
    /\ Ends(x, "failed")
    /\ UNCHANGED rows

Ready(x) == pc[x] = "running" /\ todo[x] = <<>> /\ aim[x] # None

\* The new hail is in session s, that of the hail it replaces if it does.
InsertCommits(x, s) ==
    /\ x[1] \in {"create", "reassign"}
    /\ Ready(x)
    /\ x[1] = "reassign" => s = session[x[2]]
    /\ hail' = [hail EXCEPT ![new[x]] = "received"]
    /\ on' = [on EXCEPT ![new[x]] = aim[x]]
    /\ session' = [session EXCEPT ![new[x]] = s]
    /\ desc' = [desc EXCEPT ![aim[x]] = "not free"]
    /\ Ends(x, "done")

\* What PUT and the timeouts make of an active hail and of its taxi.
Changes ==
    {<<"received", "closed", "free">>, <<"reached", "reached", "not free">>,
     <<"reached", "refused", "free">>, <<"reached", "refused", "not free">>,
     <<"reached", "closed", "free">>, <<"reached", "closed", "not free">>}

ChangeCommits(h, st, d) ==
    LET x == <<"change", h>> IN
    /\ x \in Tx
    /\ Ready(x)
    /\ <<hail[h], st, d>> \in Changes
    /\ hail[h] = "received" => CancelWhileReceived
    /\ hail' = [hail EXCEPT ![h] = st]
    /\ desc' = [desc EXCEPT ![on[h]] = d]
    /\ Ends(x, "idle")
    /\ UNCHANGED <<on, session>>

\* The hail is in another status than the change is for.
ChangeIsRefused(h) ==
    LET x == <<"change", h>> IN
    /\ x \in Tx
    /\ Ready(x)
    /\ Ends(x, "idle")
    /\ UNCHANGED rows

SendCommits(h) ==
    LET x == <<"send", h>> IN
    /\ x \in Tx
    /\ Ready(x)
    /\ hail' = [hail EXCEPT ![h] = IF IndexKey(aim[x]) \in holds[x]
                                   THEN "reached" ELSE "closed"]
    /\ desc' = IF Description(aim[x]) \in holds[x]
               THEN [desc EXCEPT ![aim[x]] = "free"]
               ELSE desc
    /\ Ends(x, "done")
    /\ UNCHANGED <<on, session>>

\* PUT /taxis/:id: one lock, so one step.
DriverSetsStatus(t, d) ==
    /\ Free(None, Description(t))
    /\ KeyIsUnused(t, None)
    /\ desc[t] # d
    /\ desc' = [desc EXCEPT ![t] = d]
    /\ UNCHANGED <<hail, on, session, pc, aim, new, todo, holds>>

-------------------------------------------------------------------------------

WaitsFor(x, y) == x # y /\ Waiting(x) /\ Has(y, Head(todo[x]))

\* Nobody waits for two others, so this is a circle, or several.
Circle(S) ==
    \A y \in S : /\ \E z \in S : WaitsFor(y, z)
                 /\ \E z \in S : WaitsFor(z, y)

Circles == {S \in SUBSET {y \in Tx : Waiting(y)} : Circle(S)}

\* The deadlock detector of PostgreSQL chooses x. A user may repeat a change.
DeadlockAborts(x) ==
    /\ Waiting(x)
    /\ \E y \in Tx : WaitsFor(y, x)
    /\ \E S \in Circles : x \in S
    /\ Ends(x, IF x[1] = "change" THEN "idle" ELSE "failed")
    /\ UNCHANGED rows

Next ==
    \/ \E h \in Hail, t \in Taxi : CreateBegins(h, t)
    \/ \E h \in Hail : ReassignBegins(h)
    \/ \E h, g \in Hail, t \in Taxi : ReassignChooses(h, t, g)
    \/ \E h \in Hail : ReassignGivesUp(h)
    \/ \E h \in Hail : ChangeBegins(h)
    \/ \E h \in Hail : SendBegins(h)
    \/ \E x \in Tx : Acquires(x)
    \/ \E x \in Tx : ViolatesIndex(x)
    \/ \E x \in Tx, s \in Session : InsertCommits(x, s)
    \/ \E h \in Hail, st \in Reached \cup {"refused", "closed"},
          d \in {"free", "not free"} : ChangeCommits(h, st, d)
    \/ \E h \in Hail : ChangeIsRefused(h)
    \/ \E h \in Hail : SendCommits(h)
    \/ \E t \in Taxi, d \in AskedOfTaxi : DriverSetsStatus(t, d)
    \/ \E x \in Tx : DeadlockAborts(x)

Spec == Init /\ [][Next]_vars

-------------------------------------------------------------------------------

\* The taxi's slot in TaxiBooking holds its active hail.
Slot(t) == IF \E h \in Hail : IsActive(h) /\ on[h] = t
           THEN CHOOSE h \in Hail : IsActive(h) /\ on[h] = t
           ELSE None

Booked == INSTANCE TaxiBooking WITH slot <- [t \in Taxi |-> Slot(t)]

\* With transactions cut into statements, each taxi still serves one hail at a
\* time, and empties its slot before it takes the next one.
ImplementsTaxiBooking == Booked!Spec

\* Rows before keys before descriptions: the one order in which reassignments
\* and changes take their locks excludes every circle among them. Each deadlock
\* takes a creation or a failing send_request_operator that asks for another
\* lock when it already has a description.
DeadlocksTakeADescription ==
    \A S \in Circles \ {{}} :
        \E x \in S : /\ x[1] \in {"create", "send"}
                    /\ Description(aim[x]) \in holds[x]
===============================================================================
