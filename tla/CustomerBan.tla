------------------------------ MODULE CustomerBan ------------------------------
(***************************************************************************)
(* The ban of one customer. An operator reports the customer, or lifts the *)
(* report, in a PUT /hails/:id of one of the customer's hails; the         *)
(* customer's own company edits the ban in PUT /customers/:id.             *)
(*                                                                         *)
(* PUT /hails/:id locks the hail, but reads the customer in the same       *)
(* statement without a lock: a request that had to wait for the hail has a *)
(* fresh hail and the customer as it was when the statement began. NOW()   *)
(* is the time the transaction began. A commit writes only the columns     *)
(* that were set to another value than the one read.                       *)
(***************************************************************************)
EXTENDS Customers

CONSTANTS
    Reportable,   \* the hails of the customer
    Day,          \* 24 hours
    EditLengths,  \* environment: lengths of the bans the company sets
    EditFields,   \* environment: the sets of fields its requests have
    MaxEnd        \* bound: no request is accepted that bans for longer

Moment == (0..MaxEnd) \cup {None}
Ban == [begin : Moment, end : Moment]
Field == {"begin", "end"}

\* A column of three values: None (NULL) until somebody sends one.
Report == {TRUE, FALSE, None}

Put == [kind : {"put"}, hail : Reportable, report : Report, seen : Ban, at : Time,
        locked : BOOLEAN]
Edit == [kind : {"edit"}, fields : SUBSET Field, to : Ban, seen : Ban,
         at : Time]

ASSUME BanAssumption ==
    /\ MaxEnd \in Nat
    /\ MaxTime <= MaxEnd
    /\ Day \in Nat \ {0}
    /\ EditLengths \subseteq Nat
    /\ EditFields \subseteq SUBSET Field
    /\ None \notin Put \cup Edit

VARIABLES
    ban,        \* customer.ban_begin, customer.ban_end
    reporting,  \* hail.reporting_customer
    open        \* the requests that have begun, with what they have read

banVars == <<now, ban, reporting, open>>

IsPut(r) == open[r] \in Put

HasLock(r) == IsPut(r) /\ open[r].locked

\* Types; two requests never hold the lock of one hail.
BanTypeOK ==
    /\ now \in Time
    /\ ban \in Ban
    /\ reporting \in [Reportable -> Report]
    /\ open \in [Request -> Put \cup Edit \cup {None}]
    /\ \A q, r \in Request :
          HasLock(q) /\ HasLock(r) /\ open[q].hail = open[r].hail => q = r

NoBan == [begin |-> None, end |-> None]

BanInit ==
    /\ now = 0
    /\ ban = NoBan
    /\ reporting = [h \in Reportable |-> None]
    /\ open = [r \in Request |-> None]

-------------------------------------------------------------------------------

\* Mutant: a ban that is over counts as well.
WasBanned(b, t) == b.end # None

\* A ban in force at time t, whenever it begins.
IsOngoing(b, t) == b.end # None /\ b.end >= t

\* The columns f are written, each with its value in `new`.
Writes(f, new) ==
    ban' = [begin |-> IF "begin" \in f THEN new.begin ELSE ban.begin,
            end |-> IF "end" \in f THEN new.end ELSE ban.end]

Changed(seen, new) == {f \in Field : seen[f] # new[f]}

\* Mutant: an ongoing ban is replaced.
BansAnew(b, t) == Writes(Field, [begin |-> t, end |-> t + Day])

\* A report at time t by someone who saw ban b. An ongoing ban gets twice its
\* length; else the columns are set to SQL expressions, and always written.
Bans(b, t) ==
    IF b.begin # None /\ b.end # None /\ IsOngoing(b, t)
    THEN LET new == [b EXCEPT !.end = b.end + (b.end - b.begin)]
         IN  Writes(Changed(b, new), new)
    ELSE Writes(Field, [begin |-> t, end |-> t + Day])

Unbans(b) == Writes(Changed(b, NoBan), NoBan)

\* PUT /hails/:id begins: the statement's snapshot has the customer.
PutBegins(r, h, report) ==
    /\ open[r] = None
    /\ open' = [open EXCEPT ![r] =
                  [kind |-> "put", hail |-> h, report |-> report, seen |-> ban,
                   at |-> now, locked |-> FALSE]]
    /\ UNCHANGED <<now, ban, reporting>>

\* The hail's lock is granted, and its columns are read again.
PutLocks(r) ==
    /\ IsPut(r)
    /\ \A q \in Request : HasLock(q) => open[q].hail # open[r].hail
    /\ open' = [open EXCEPT ![r].locked = TRUE]
    /\ UNCHANGED <<now, ban, reporting>>

\* The report changes: the customer is banned, or no longer. It changes from
\* None to FALSE as well, which lifts a ban that this hail had no part in.
PutCommits(r) ==
    LET p == open[r] IN
    /\ IsPut(r)
    /\ p.locked
    /\ p.report # reporting[p.hail]
    /\ reporting' = [reporting EXCEPT ![p.hail] = p.report]
    /\ IF p.report = TRUE THEN Bans(p.seen, p.at) ELSE Unbans(p.seen)
    /\ ban'.end \in Moment
    /\ open' = [open EXCEPT ![r] = None]
    /\ UNCHANGED now

\* The hail says so already: nothing to write.
PutChangesNothing(r) ==
    /\ IsPut(r)
    /\ open[r].locked
    /\ open[r].report = reporting[open[r].hail]
    /\ open' = [open EXCEPT ![r] = None]
    /\ UNCHANGED <<now, ban, reporting>>

\* PUT /customers/:id reads the customer. The company bans from now on for
\* some time, or lifts the ban; it may send only one of the fields.
EditBegins(r, fields, to) ==
    /\ open[r] = None
    /\ open' = [open EXCEPT ![r] =
                  [kind |-> "edit", fields |-> fields, to |-> to, seen |-> ban,
                   at |-> now]]
    /\ UNCHANGED <<now, ban, reporting>>

EditCommits(r) ==
    LET e == open[r] IN
    /\ e \in Edit
    /\ Writes(e.fields \cap Changed(e.seen, e.to), e.to)
    /\ open' = [open EXCEPT ![r] = None]
    /\ UNCHANGED <<now, reporting>>

\* Hours pass. A request takes less: it may straddle one tick, not two.
HoursPass ==
    /\ now < MaxTime
    /\ \A r \in Request : open[r] # None => open[r].at = now
    /\ now' = now + 1
    /\ UNCHANGED <<ban, reporting, open>>

Edits == {NoBan} \cup {[begin |-> now, end |-> now + l] : l \in EditLengths}

BanNext ==
    \/ \E r \in Request, h \in Reportable, report \in Report : PutBegins(r, h, report)
    \/ \E r \in Request : PutLocks(r)
    \/ \E r \in Request : PutCommits(r)
    \/ \E r \in Request : PutChangesNothing(r)
    \/ \E r \in Request, fields \in EditFields, to \in Edits \cap Ban :
          EditBegins(r, fields, to)
    \/ \E r \in Request : EditCommits(r)
    \/ HoursPass

BanSpec == BanInit /\ [][BanNext]_banVars

-------------------------------------------------------------------------------

\* Request r reports the customer in this step.
Reports(r) == PutCommits(r) /\ open[r].report = TRUE

\* The two columns describe one ban, or none: readers that look at one of them
\* agree with readers that look at both.
BanIsWhole ==
    /\ ban.begin = None <=> ban.end = None
    /\ ban.begin # None => ban.begin <= ban.end

\* Whoever is reported cannot hail for the 24 hours after the report, whether
\* this report bans him or prolongs a ban.
ReportBansForADay ==
    [][\A r \in Request :
          Reports(r) => ban'.end # None /\ ban'.end >= open[r].at + Day]_banVars

\* A report of a customer who is banned makes the ban longer.
ReportProlongsTheBan ==
    [][\A r \in Request :
          Reports(r) /\ IsOngoing(ban, open[r].at) => ban'.end > ban.end]_banVars
===============================================================================
