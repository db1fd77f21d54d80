------------------------------ MODULE CustomerSearch ------------------------------
(***************************************************************************)
(* From a search to a session of hails. GET /taxis hides the taxis behind  *)
(* identifiers drawn for the occasion, which Redis keeps in one hash for   *)
(* each company; POST /hails translates them back and decides which        *)
(* session the hail belongs to; a driver's refusal is answered by another  *)
(* hail of the same session. HailDispatch has what a hail goes through and *)
(* who may book a taxi; here a hail is open, refused or closed.            *)
(* A search is two Redis commands, HSET and EXPIRE; POST /hails reads, then*)
(* commits. The clock ticks in minutes, as many as SESSION_AGE says.       *)
(***************************************************************************)
EXTENDS Customers, FiniteSets

CONSTANTS
    Moteur,         \* companies; all their customers share one API key
    Name,           \* customer ids as a company gives them, its own only
    Taxi,
    Search,         \* searches
    ID_LIFE,        \* an hour: how long the identifiers are kept
    SESSION_AGE,    \* 5 minutes
    MaxAttempts,    \* REZO_TAXI_SEARCH_CANDIDATE_LIMIT
    ResumesSessions,  \* environment: companies send the session_id of a hail
    LeavesSessions, \* environment: also of another session than the one where
                    \* a hail of the customer has just changed, or a refusal is
                    \* still to be redistributed
    Straddles,      \* environment: the clock ticks between HSET and EXPIRE
    OneAtATime,     \* environment: a customer hails only when none is open
    Overlaps,       \* environment: he hails while a refusal is redistributed
    MaxLag,         \* environment: how long a redistribution waits
    MaxHails,       \* bound: hails ever created
    MaxWork         \* bound: identifiers drawn and hails together

Hail == 1..MaxHails

\* Drawn by a search. A hail keeps the one it was asked with, and one that is
\* redistributed gets a new one; what is shown of them is in HailDisclosure.
FakeId == Search \X Taxi

\* A session is named by the hail that opened it.
Row == [moteur : Moteur, name : Name, session : Hail, taxi : Taxi,
        state : {"open", "refused", "closed"}, changed : Time,
        source : {"added_by", "reassignment"}]
Post == [moteur : Moteur, name : Name, session : Hail \cup {None}, taxi : Taxi,
         at : Time]
Found == [moteur : Moteur, shown : SUBSET FakeId, at : Time,
          step : {"stored", "answered"}]

ASSUME SearchAssumption ==
    /\ ID_LIFE \in Nat \ {0} /\ SESSION_AGE \in Nat /\ MaxAttempts \in Nat
    /\ {ResumesSessions, LeavesSessions, Straddles, OneAtATime, Overlaps} \subseteq BOOLEAN
    /\ MaxLag \in Nat /\ MaxHails \in Nat /\ MaxWork \in Nat
    /\ None \notin Row /\ None \notin Post /\ None \notin Found

VARIABLES
    found,      \* searches, with the identifiers they show
    fakes,      \* hash fake_taxi_id:<company>: the identifiers it translates
    expiry,     \* when that key expires
    hail,       \* rows of hail
    post,       \* POST /hails under way, with what they have read
    refused     \* refused hails whose redistribution has not run, and since when

vars == <<now, found, fakes, expiry, hail, post, refused>>

TypeOK ==
    /\ now \in Time
    /\ found \in [Search -> Found \cup {None}]
    /\ fakes \in [Moteur -> SUBSET FakeId]
    /\ expiry \in [Moteur -> (0..MaxTime + ID_LIFE) \cup {None}]
    /\ hail \in [Hail -> Row \cup {None}]
    /\ post \in [Request -> Post \cup {None}]
    /\ refused \in [Hail -> Time \cup {None}]

Init ==
    /\ now = 0
    /\ found = [s \in Search |-> None]
    /\ fakes = [m \in Moteur |-> {}]
    /\ expiry = [m \in Moteur |-> None]
    /\ hail = [h \in Hail |-> None]
    /\ post = [r \in Request |-> None]
    /\ refused = [h \in Hail |-> None]

Rows == {h \in Hail : hail[h] # None}
Open == {h \in Rows : hail[h].state = "open"}

Drawn == UNION {found[s].shown : s \in {q \in Search : found[q] # None}}

HaveRoom(n) == Cardinality(Rows) + Cardinality(Drawn) + n <= MaxWork

IsNext(h) ==
    /\ h \notin Rows
    /\ \A g \in Hail : g < h => g \in Rows
    /\ HaveRoom(1)

\* Keys whose time has come are gone.
Tick ==
    /\ now < MaxTime
    /\ ~Straddles => \A s \in Search : found[s] # None => found[s].step = "answered"
    /\ \A r \in Request : post[r] = None
    /\ \A h \in Hail : refused[h] # None => now - refused[h] < MaxLag
    /\ now' = now + 1
    /\ fakes' = [m \in Moteur |-> IF expiry[m] = now + 1 THEN {} ELSE fakes[m]]
    /\ expiry' = [m \in Moteur |-> IF expiry[m] = now + 1 THEN None ELSE expiry[m]]
    /\ UNCHANGED <<found, hail, post, refused>>

-------------------------------------------------------------------------------
(* GET /taxis, as it ends; Positions has which taxis it finds *)

\* HSET adds to what earlier searches of the company left.
SearchStores(s, m, taxis) ==
    LET ids == {s} \X taxis IN
    /\ found[s] = None
    /\ HaveRoom(Cardinality(taxis))
    /\ taxis \cap {hail[h].taxi : h \in Open} = {}
    /\ found' = [found EXCEPT ![s] = [moteur |-> m, shown |-> ids, at |-> now,
                                      step |-> "stored"]]
    /\ fakes' = [fakes EXCEPT ![m] = @ \cup ids]
    /\ UNCHANGED <<now, expiry, hail, post, refused>>

\* Mutant: the time is set with the first search only.
ExpiresFromFirst(m) ==
    IF fakes[m] = {} \/ expiry[m] # None THEN expiry[m] ELSE now + ID_LIFE

\* EXPIRE prolongs them all; of a key that is gone it prolongs nothing.
Expires(m) == IF fakes[m] = {} THEN None ELSE now + ID_LIFE

SearchAnswers(s) ==
    /\ found[s] # None /\ found[s].step = "stored"
    /\ found' = [found EXCEPT ![s].step = "answered", ![s].at = now]
    /\ expiry' = [expiry EXCEPT ![found[s].moteur] = Expires(found[s].moteur)]
    /\ UNCHANGED <<now, fakes, hail, post, refused>>

\* The worker dies, or loses Redis: the company never sees the identifiers.
SearchFails(s) ==
    /\ found[s] # None /\ found[s].step = "stored"
    /\ found' = [found EXCEPT ![s].shown = {}, ![s].step = "answered"]
    /\ UNCHANGED <<now, fakes, expiry, hail, post, refused>>

-------------------------------------------------------------------------------
(* POST /hails *)

Shown(m) ==
    UNION {found[s].shown : s \in {q \in Search : /\ found[q] # None
                                                  /\ found[q].step = "answered"
                                                  /\ found[q].moteur = m}}

OfCustomer(m, n) == {h \in Rows : hail[h].moteur = m /\ hail[h].name = n}

Latest(S) == {h \in S : \A g \in S : hail[g].changed <= hail[h].changed}

\* _get_existing_session_id: the session of the hail that changed last, if that
\* was a few minutes ago. None lets the database draw a new one.
ExistingSession(m, n) ==
    LET recent == {h \in OfCustomer(m, n) : hail[h].changed >= now - SESSION_AGE}
    IN  IF recent = {} THEN {None} ELSE {hail[h].session : h \in Latest(recent)}

\* Mutant: a session of any company will do.
SessionOfAnyCompany(m, n, s) ==
    \E h \in Latest({g \in Rows : hail[g].session = s}) : hail[h].name = n

\* _check_session_id: the hail of that session that changed last, of this
\* company, is of this customer.
SessionIsHis(m, n, s) ==
    \E h \in Latest({g \in Rows : hail[g].moteur = m /\ hail[g].session = s}) :
        hail[h].name = n

\* A session that the request names is taken, whatever the customer did lately.
\* Changes of one tick have no order here, in the database they have one.
Named(m, n) ==
    {s \in Hail :
        /\ ResumesSessions
        /\ LeavesSessions \/ \A h \in OfCustomer(m, n) :
                refused[h] # None \/ hail[h].changed = now => hail[h].session = s
        /\ SessionIsHis(m, n, s)}

Sessions(m, n) == ExistingSession(m, n) \cup Named(m, n)

\* The identifier is one the company was shown and Redis still knows: one it
\* does not know is taken for a taxi's own, and no taxi has it. The lock of the
\* taxi's description is held until the commit.
PostBegins(r, m, n, id) ==
    /\ post[r] = None
    /\ id \in fakes[m]
    /\ id \in Shown(m)
    /\ \A q \in Request : post[q] # None => post[q].taxi # id[2]
    /\ \A h \in Open : hail[h].taxi # id[2]
    /\ OneAtATime =>
        /\ OfCustomer(m, n) \cap Open = {}
        /\ \A q \in Request : post[q] # None
                => <<post[q].moteur, post[q].name>> # <<m, n>>
    /\ \E s \in Sessions(m, n) :
        post' = [post EXCEPT ![r] = [moteur |-> m, name |-> n, session |-> s,
                                     taxi |-> id[2], at |-> now]]
    /\ UNCHANGED <<now, found, fakes, expiry, hail, refused>>

\* The index on active hails refuses what a redistribution took meanwhile.
TaxiIsTaken(t) == \E h \in Open : hail[h].taxi = t

PostCommits(r, h) ==
    LET p == post[r] IN
    /\ p # None
    /\ IsNext(h)
    /\ ~TaxiIsTaken(p.taxi)
    /\ hail' = [hail EXCEPT ![h] =
        [moteur |-> p.moteur, name |-> p.name,
         session |-> IF p.session = None THEN h ELSE p.session,
         taxi |-> p.taxi, state |-> "open", changed |-> p.at,
         source |-> "added_by"]]
    /\ post' = [post EXCEPT ![r] = None]
    /\ UNCHANGED <<now, found, fakes, expiry, refused>>

PostFails(r) ==
    /\ post[r] # None
    /\ post' = [post EXCEPT ![r] = None]
    /\ UNCHANGED <<now, found, fakes, expiry, hail, refused>>

-------------------------------------------------------------------------------
(* What becomes of a hail *)

\* Any change of status, also one that ends the hail.
Changes(h, state) ==
    /\ h \in Open
    /\ hail' = [hail EXCEPT ![h].state = state, ![h].changed = now]
    /\ refused' = IF state = "refused" THEN [refused EXCEPT ![h] = now] ELSE refused
    /\ UNCHANGED <<now, found, fakes, expiry, post>>

\* _session_hails_query
SessionHails(h) ==
    {g \in OfCustomer(hail[h].moteur, hail[h].name) :
        hail[g].session = hail[h].session}

\* Mutant: does not look for an active hail.
SessionHasAttempts(h) == Cardinality(SessionHails(h)) < MaxAttempts

\* reassign_after_driver_unavailable
SessionAllows(h) ==
    /\ SessionHails(h) \cap Open = {}
    /\ Cardinality(SessionHails(h)) < MaxAttempts

Redistributed(h) ==
    /\ refused[h] # None
    /\ ~Overlaps => \A r \in Request : post[r] # None
            => <<post[r].moteur, post[r].name>> # <<hail[h].moteur, hail[h].name>>
    /\ refused' = [refused EXCEPT ![h] = None]
    /\ UNCHANGED <<now, found, fakes, expiry, post>>

Redistributes(h, g, t) ==
    /\ Redistributed(h)
    /\ SessionAllows(h)
    /\ t \notin {hail[k].taxi : k \in SessionHails(h)}
    /\ IsNext(g)
    /\ ~TaxiIsTaken(t)
    /\ hail' = [hail EXCEPT ![g] =
        [hail[h] EXCEPT !.taxi = t, !.state = "open", !.changed = now,
                        !.source = "reassignment"]]

\* The session does not allow it, no candidate is there, or the insert fails.
RedistributesNot(h) == Redistributed(h) /\ UNCHANGED hail

-------------------------------------------------------------------------------
Next ==
    \/ Tick
    \/ \E s \in Search, m \in Moteur, T \in (SUBSET Taxi) \ {{}} : SearchStores(s, m, T)
    \/ \E s \in Search : SearchAnswers(s) \/ SearchFails(s)
    \/ \E r \in Request, m \in Moteur, n \in Name, id \in FakeId : PostBegins(r, m, n, id)
    \/ \E r \in Request : PostFails(r) \/ \E h \in Hail : PostCommits(r, h)
    \/ \E h \in Hail, state \in {"open", "refused", "closed"} : Changes(h, state)
    \/ \E h \in Hail : RedistributesNot(h)
    \/ \E h, g \in Hail, t \in Taxi : Redistributes(h, g, t)

Spec == Init /\ [][Next]_vars

-------------------------------------------------------------------------------
(* Properties *)

\* A session belongs to one customer of one company, although a company may
\* name the session itself, customers of two companies may have one id, and
\* only the hail that changed last is compared. Redistribution relies on it.
SessionsAreOneCustomers ==
    \A g, h \in Rows : hail[g].session = hail[h].session
        => hail[g].moteur = hail[h].moteur /\ hail[g].name = hail[h].name

\* "Keep this mapping for a little time, waiting for one of the taxis in the
\* list to be hailed": what a search answered can be hailed for an hour,
\* however many searches of the same company share the hash and its expiry.
\* (A key that expires between HSET and EXPIRE takes fresh identifiers along.)
AnswersCanBeHailed ==
    \A s \in Search :
        found[s] # None /\ found[s].step = "answered" /\ now < found[s].at + ID_LIFE
            => found[s].shown \subseteq fakes[found[s].moteur]

\* A customer who hails again after a refusal, one hail at a time, is not sent
\* a second taxi by the redistribution of the hail that was refused: five
\* minutes put both in one session, where redistribution sees his new hail.
\* Holds when redistribution does not lag behind by more, does not run in the
\* midst of his request, and when his company does not name another session in
\* the meantime: POST /hails takes any session of his that is named.
NoSecondTaxi ==
    [][\A h \in Hail : h \notin Rows /\ hail'[h] # None /\ hail'[h].source = "reassignment"
            => OfCustomer(hail'[h].moteur, hail'[h].name) \cap Open = {}]_vars
===============================================================================
