----------------------------- MODULE CustomerProofs -----------------------------
(***************************************************************************)
(* Theorems about CustomerBan and CustomerSearch. Of bans, types are right *)
(* whatever happens; the promises about reports are proved for requests    *)
(* that do not overlap and a company that bans for a day or more, with     *)
(* both dates. Of searches, for any number of companies, customers,        *)
(* searches and hails: a session is one customer's, what a search answered *)
(* can be hailed, and a customer has one taxi.                             *)
(***************************************************************************)
EXTENDS CustomerBan, CustomerSearch, TLAPS

-------------------------------------------------------------------------------
(* Bans *)

USE CustomersAssumption, BanAssumption

\* Writing columns of a ban yields a ban, if the written values are moments.
LEMMA WritesABan ==
    ASSUME ban \in Ban, NEW f, NEW new,
           new.begin \in Moment \/ "begin" \notin f,
           new.end \in Moment \/ "end" \notin f,
           Writes(f, new)
    PROVE  ban' \in Ban
BY DEF Writes, Ban

\* A report writes a ban: its beginning is the old one or the time of the
\* report, and its end is within the bound.
LEMMA BansWithABan ==
    ASSUME ban \in Ban, NEW b \in Ban, NEW t \in Time,
           Bans(b, t), ban'.end \in Moment
    PROVE  ban' \in Ban
<1>1. t \in Moment
  BY DEF Time, Moment
<1>2. ban'.begin \in Moment /\ ban' = [begin |-> ban'.begin, end |-> ban'.end]
  BY <1>1 DEF Bans, Writes, Ban, Changed
<1> QED
  BY <1>2 DEF Ban

\* A lift writes a ban.
LEMMA UnbansWithABan ==
    ASSUME ban \in Ban, NEW b \in Ban, Unbans(b)
    PROVE  ban' \in Ban
<1>1. NoBan.begin \in Moment /\ NoBan.end \in Moment
  BY DEF NoBan, Moment
<1> QED
  BY <1>1, WritesABan DEF Unbans

-------------------------------------------------------------------------------

\* Types hold, and no two requests hold the lock of one hail, however requests
\* overlap.
THEOREM BanTypeCorrect == BanSpec => []BanTypeOK
<1>1. BanInit => BanTypeOK
  BY DEF Report, BanInit, BanTypeOK, HasLock, IsPut, NoBan, Ban, Moment, Time
<1>2. BanTypeOK /\ [BanNext]_banVars => BanTypeOK'
  <2> SUFFICES ASSUME BanTypeOK, [BanNext]_banVars PROVE BanTypeOK'
    OBVIOUS
  <2> USE DEF BanTypeOK
  <2>1. ASSUME NEW r \in Request, NEW h \in Reportable, NEW report \in Report,
               PutBegins(r, h, report)
        PROVE  BanTypeOK'
    BY <2>1 DEF PutBegins, HasLock, IsPut, Put
  <2>2. ASSUME NEW r \in Request, PutLocks(r)
        PROVE  BanTypeOK'
    <3>1. [open[r] EXCEPT !.locked = TRUE] \in Put
      BY <2>2 DEF PutLocks, IsPut, Put
    <3>2. [open[r] EXCEPT !.locked = TRUE].hail = open[r].hail
      BY <2>2 DEF PutLocks, IsPut, Put
    <3> QED
      BY <2>2, <3>1, <3>2 DEF PutLocks, HasLock, IsPut
  <2>3. ASSUME NEW r \in Request, PutCommits(r)
        PROVE  BanTypeOK'
    <3>1. /\ open[r].seen \in Ban /\ open[r].at \in Time
          /\ open[r].hail \in Reportable /\ open[r].report \in Report
      BY <2>3 DEF PutCommits, IsPut, Put
    <3>2. ban' \in Ban
      BY <2>3, <3>1, BansWithABan, UnbansWithABan DEF PutCommits
    <3> QED
      BY <2>3, <3>1, <3>2 DEF PutCommits, HasLock, IsPut
  <2>4. ASSUME NEW r \in Request, PutChangesNothing(r)
        PROVE  BanTypeOK'
    BY <2>4 DEF PutChangesNothing, HasLock, IsPut
  <2>5. ASSUME NEW r \in Request, NEW fields \in EditFields,
               NEW to \in Edits \cap Ban, EditBegins(r, fields, to)
        PROVE  BanTypeOK'
    <3>1. open'[r] \in Edit /\ open'[r] \notin Put
      BY <2>5 DEF EditBegins, Edit, Put
    <3> QED
      BY <2>5, <3>1 DEF EditBegins, HasLock, IsPut
  <2>6. ASSUME NEW r \in Request, EditCommits(r)
        PROVE  BanTypeOK'
    <3>1. open[r].to \in Ban
      BY <2>6 DEF EditCommits, Edit
    <3>2. ban' \in Ban
      BY <2>6, <3>1, WritesABan DEF EditCommits, Ban
    <3> QED
      BY <2>6, <3>2 DEF EditCommits, HasLock, IsPut
  <2>7. CASE HoursPass
    BY <2>7 DEF HoursPass, Time, HasLock, IsPut
  <2>8. CASE UNCHANGED banVars
    BY <2>8 DEF banVars, HasLock, IsPut
  <2> QED
    BY <2>1, <2>2, <2>3, <2>4, <2>5, <2>6, <2>7, <2>8 DEF BanNext
<1> QED
  BY <1>1, <1>2, PTL DEF BanSpec

-------------------------------------------------------------------------------

\* The assumptions of the theorems below.
InTurn == \A q, r \in Request : q = r
LongBans ==
    /\ EditFields \subseteq {Field}
    /\ \A l \in EditLengths : l >= Day

\* No ban, or one of a day at least.
IsLong(b) ==
    /\ b.begin = None <=> b.end = None
    /\ b.begin # None => b.begin + Day <= b.end

\* What one request after the other keeps: bans are long, and what the open
\* request has read is still there.
TurnInv ==
    /\ BanTypeOK
    /\ IsLong(ban)
    /\ \A r \in Request : open[r] # None =>
          /\ open[r].seen = ban
          /\ open[r].at <= now
          /\ open[r] \in Edit => open[r].fields = Field /\ IsLong(open[r].to)

\* A report of a customer with a long ban: banned, the end moves by the ban's
\* length; not banned, a day begins.
LEMMA BansForLong ==
    ASSUME ban \in Ban, IsLong(ban), NEW t \in Time, Bans(ban, t)
    PROVE  /\ IsLong(ban')
           /\ ban'.end # None
           /\ ban'.end >= t + Day
           /\ IsOngoing(ban, t) => ban'.end > ban.end
<1> USE DEF Ban, Moment, Time
<1>1. CASE ban.begin # None /\ ban.end # None /\ IsOngoing(ban, t)
  <2> DEFINE new == [ban EXCEPT !.end = ban.end + (ban.end - ban.begin)]
  <2>1. /\ ban.begin \in 0..MaxEnd /\ ban.end \in 0..MaxEnd
        /\ ban.begin + Day <= ban.end /\ ban.end >= t
    BY <1>1 DEF IsLong, IsOngoing
  <2>2. /\ new.begin = ban.begin
        /\ new.end = ban.end + (ban.end - ban.begin)
    OBVIOUS
  <2>3. Writes(Changed(ban, new), new)
    BY <1>1 DEF Bans
  <2>4. new.end # ban.end
    BY <2>1, <2>2
  <2>5. ban'.begin = ban.begin /\ ban'.end = new.end
    BY <2>2, <2>3, <2>4 DEF Writes, Changed, Field
  <2>6. new.end \in Nat /\ new.end > ban.end /\ new.end >= t + Day
    BY <2>1, <2>2
  <2>7. new.end # None
    BY <2>1, <2>2, <2>6
  <2> QED
    BY <2>1, <2>5, <2>6, <2>7 DEF IsLong
<1>2. CASE ~(ban.begin # None /\ ban.end # None /\ IsOngoing(ban, t))
  <2>1. Writes(Field, [begin |-> t, end |-> t + Day])
    BY <1>2 DEF Bans
  <2>2. ban'.begin = t /\ ban'.end = t + Day
    BY <2>1 DEF Writes, Field
  <2>3. ~IsOngoing(ban, t)
    BY <1>2 DEF IsLong, IsOngoing
  <2> QED
    BY <2>2, <2>3 DEF IsLong
<1> QED
  BY <1>1, <1>2

\* A lift of a ban ends it.
LEMMA UnbansFully ==
    ASSUME ban \in Ban, Unbans(ban)
    PROVE  ban' = NoBan
BY DEF Unbans, Writes, Changed, Field, NoBan, Ban

\* An edit with both dates leaves its ban, whichever columns it writes.
LEMMA EditsFully ==
    ASSUME ban \in Ban, NEW to \in Ban, Writes(Field \cap Changed(ban, to), to)
    PROVE  ban' = to
BY DEF Writes, Changed, Field, Ban

\* TurnInv is inductive when requests do not overlap.
LEMMA TurnInvariant ==
    ASSUME InTurn, LongBans
    PROVE  BanSpec => []TurnInv
<1>1. BanInit => TurnInv
  <2>1. BanInit => BanTypeOK
    BY DEF Report, BanInit, BanTypeOK, HasLock, IsPut, NoBan, Ban, Moment, Time
  <2> QED
    BY <2>1 DEF BanInit, TurnInv, IsLong, NoBan
<1>2. BanTypeOK' /\ TurnInv /\ [BanNext]_banVars => TurnInv'
  <2> SUFFICES ASSUME BanTypeOK', TurnInv, [BanNext]_banVars PROVE TurnInv'
    OBVIOUS
  <2> USE DEF TurnInv
  <2>t. /\ ban \in Ban /\ now \in Time
        /\ open \in [Request -> Put \cup Edit \cup {None}]
    BY DEF BanTypeOK
  <2>a. \A r \in Request : open[r] \in Put => open[r] \notin Edit /\ open[r] # None
    BY DEF Put, Edit
  <2>b. \A r \in Request : open[r] \in Edit => open[r] \notin Put /\ open[r] # None
    BY DEF Put, Edit
  <2>c. Time \subseteq Int
    BY DEF Time
  <2>1. ASSUME NEW r \in Request, NEW h \in Reportable, NEW report \in Report,
               PutBegins(r, h, report)
        PROVE  TurnInv'
    <3>1. /\ open'[r].seen = ban /\ open'[r].at = now
          /\ open'[r] \notin Edit
      BY <2>1, <2>t DEF PutBegins, Edit
    <3> QED
      BY <2>1, <2>c, <2>t, <3>1 DEF PutBegins, InTurn, IsLong
  <2>2. ASSUME NEW r \in Request, PutLocks(r)
        PROVE  TurnInv'
    <3>1. /\ open'[r].seen = ban /\ open'[r].at <= now
          /\ open'[r] \in Put
      BY <2>2, <2>a, <2>t DEF PutLocks, IsPut, Put
    <3>2. open'[r] \notin Edit
      BY <3>1 DEF Put, Edit
    <3> QED
      BY <2>2, <3>1, <3>2 DEF PutLocks, InTurn, IsLong
  <2>3. ASSUME NEW r \in Request, PutCommits(r)
        PROVE  TurnInv'
    <3>1. \A q \in Request : open'[q] = None
      BY <2>3, <2>t DEF PutCommits, InTurn
    <3>2. /\ open[r].seen = ban /\ open[r].at \in Time
      BY <2>3, <2>a DEF PutCommits, IsPut, Put
    <3>3. IsLong(ban')
      <4>1. CASE open[r].report = TRUE
        BY <4>1, <2>3, <2>t, <3>2, BansForLong DEF PutCommits
      <4>2. CASE open[r].report # TRUE
        <5>1. ban' = NoBan
          BY <4>2, <2>3, <2>t, <3>2, UnbansFully DEF PutCommits
        <5> QED
          BY <5>1 DEF IsLong, NoBan
      <4> QED
        BY <4>1, <4>2
    <3> QED
      BY <3>1, <3>3 DEF IsLong
  <2>4. ASSUME NEW r \in Request, PutChangesNothing(r)
        PROVE  TurnInv'
    <3>1. \A q \in Request : open'[q] = None
      BY <2>4, <2>t DEF PutChangesNothing, InTurn
    <3> QED
      BY <2>4, <3>1 DEF PutChangesNothing, IsLong
  <2>5. ASSUME NEW r \in Request, NEW fields \in EditFields,
               NEW to \in Edits \cap Ban, EditBegins(r, fields, to)
        PROVE  TurnInv'
    <3>1. /\ open'[r].seen = ban /\ open'[r].at = now
          /\ open'[r].fields = Field /\ open'[r].to = to
      BY <2>5, <2>t DEF EditBegins, LongBans
    <3>2. IsLong(to)
      <4>1. CASE to = NoBan
        BY <4>1 DEF IsLong, NoBan
      <4>2. ASSUME NEW l \in EditLengths, to = [begin |-> now, end |-> now + l]
            PROVE  IsLong(to)
        <5>1. l \in Nat /\ l >= Day /\ now \in Nat
          BY <2>t DEF LongBans, Time
        <5>2. to.begin = now /\ to.end = now + l
          BY <4>2
        <5> QED
          BY <5>1, <5>2 DEF IsLong
      <4> QED
        BY <4>1, <4>2 DEF Edits
    <3> QED
      BY <2>5, <2>c, <2>t, <3>1, <3>2 DEF EditBegins, InTurn, IsLong
  <2>6. ASSUME NEW r \in Request, EditCommits(r)
        PROVE  TurnInv'
    <3>1. \A q \in Request : open'[q] = None
      BY <2>6, <2>t DEF EditCommits, InTurn
    <3>2. /\ open[r].seen = ban /\ open[r].to \in Ban
          /\ open[r].fields = Field /\ IsLong(open[r].to)
      BY <2>6, <2>b DEF EditCommits, Edit
    <3>3. ban' = open[r].to
      BY <2>6, <2>t, <3>2, EditsFully DEF EditCommits
    <3> QED
      BY <3>1, <3>2, <3>3 DEF IsLong
  <2>7. CASE HoursPass
    BY <2>7, <2>c, <2>t DEF HoursPass, IsLong
  <2>8. CASE UNCHANGED banVars
    BY <2>8 DEF banVars, IsLong
  <2> QED
    BY <2>1, <2>2, <2>3, <2>4, <2>5, <2>6, <2>7, <2>8 DEF BanNext
<1> QED
  BY <1>1, <1>2, BanTypeCorrect, PTL DEF BanSpec

\* One after the other, the two columns always describe one ban.
THEOREM BanStaysWhole ==
    ASSUME InTurn, LongBans
    PROVE  BanSpec => []BanIsWhole
<1>1. TurnInv => BanIsWhole
  BY DEF TurnInv, BanTypeOK, IsLong, BanIsWhole, Ban, Moment
<1> QED
  BY <1>1, TurnInvariant, PTL

\* What a report writes, when no other request of the customer is under way.
LEMMA ReportStep ==
    ASSUME TurnInv, NEW r \in Request, Reports(r)
    PROVE  /\ ban'.end # None /\ ban'.end >= open[r].at + Day
           /\ IsOngoing(ban, open[r].at) => ban'.end > ban.end
<1>1. open[r] \in Put /\ open[r] # None
  BY DEF Reports, PutCommits, IsPut, Put
<1>2. open[r].seen = ban /\ open[r].at \in Time
  BY <1>1 DEF TurnInv, Put
<1>3. ban \in Ban /\ IsLong(ban)
  BY DEF TurnInv, BanTypeOK
<1>4. Bans(ban, open[r].at)
  BY <1>2 DEF Reports, PutCommits
<1> QED
  BY <1>2, <1>3, <1>4, BansForLong

\* One after the other, a report keeps the customer from hailing for a day,
\* whatever ban the company set.
THEOREM ReportsBan ==
    ASSUME InTurn, LongBans
    PROVE  BanSpec => ReportBansForADay
<1>1. TurnInv /\ [BanNext]_banVars =>
        [\A r \in Request :
            Reports(r) => ban'.end # None /\ ban'.end >= open[r].at + Day]_banVars
  BY ReportStep
<1> QED
  BY <1>1, TurnInvariant, PTL DEF BanSpec, ReportBansForADay

\* One after the other, a report prolongs a ban in force, whatever ban the
\* company set: its end moves by the length it had, which is not nothing.
THEOREM ReportsProlong ==
    ASSUME InTurn, LongBans
    PROVE  BanSpec => ReportProlongsTheBan
<1>1. TurnInv /\ [BanNext]_banVars =>
        [\A r \in Request :
            Reports(r) /\ IsOngoing(ban, open[r].at)
                => ban'.end > ban.end]_banVars
  BY ReportStep
<1> QED
  BY <1>1, TurnInvariant, PTL DEF BanSpec, ReportProlongsTheBan

HIDE BanAssumption

-------------------------------------------------------------------------------
(* Searches *)

USE SearchAssumption

-------------------------------------------------------------------------------
(* Types *)

\* A redistribution is due for hails that exist only.
RefusedAreRows == \A h \in Hail : refused[h] # None => h \in Rows

TypeInv == TypeOK /\ RefusedAreRows

LEMMA NoneIsNoRecord == None \notin Row /\ None \notin Post /\ None \notin Found
OBVIOUS

LEMMA TimeAdds == \A n \in Time : n + ID_LIFE \in 0..MaxTime + ID_LIFE
BY DEF Time

LEMMA RowsHaveTypes ==
    ASSUME TypeOK
    PROVE  /\ \A h \in Rows : hail[h] \in Row /\ h \in Hail
           /\ Open \subseteq Rows
           /\ \A m, n : OfCustomer(m, n) \subseteq Rows
BY DEF TypeOK, Rows, Open, OfCustomer

LEMMA SessionsType ==
    ASSUME TypeOK, NEW m \in Moteur, NEW n \in Name, NEW s \in Sessions(m, n)
    PROVE  s \in Hail \cup {None}
<1>1. \A h \in OfCustomer(m, n) : hail[h].session \in Hail
  BY RowsHaveTypes DEF Row
<1>2. ExistingSession(m, n) \subseteq Hail \cup {None}
  BY <1>1 DEF ExistingSession, Latest
<1> QED
  BY <1>2 DEF Sessions, Named

LEMMA TypeInit == Init => TypeInv
BY DEF Init, TypeInv, TypeOK, RefusedAreRows, Time

LEMMA TypeNext == TypeInv /\ [Next]_vars => TypeInv'
<1> SUFFICES ASSUME TypeInv, [Next]_vars PROVE TypeInv'
  OBVIOUS
<1> USE DEF TypeInv
<1>1. CASE Tick
  <2>1. now' \in Time
    BY <1>1 DEF Tick, TypeOK, Time
  <2> QED
    BY <1>1, <2>1 DEF Tick, TypeOK, RefusedAreRows, Rows
<1>2. ASSUME NEW s \in Search, NEW m \in Moteur, NEW T \in (SUBSET Taxi) \ {{}},
             SearchStores(s, m, T)
      PROVE  TypeInv'
  <2>1. {s} \X T \subseteq FakeId
    BY DEF FakeId
  <2>2. [moteur |-> m, shown |-> {s} \X T, at |-> now, step |-> "stored"] \in Found
    BY <2>1 DEF Found, TypeOK
  <2>3. found' \in [Search -> Found \cup {None}]
    BY <1>2, <2>2 DEF SearchStores, TypeOK
  <2>4. fakes' \in [Moteur -> SUBSET FakeId]
    BY <1>2, <2>1 DEF SearchStores, TypeOK
  <2> QED
    BY <1>2, <2>3, <2>4 DEF SearchStores, TypeOK, RefusedAreRows, Rows
<1>3. ASSUME NEW s \in Search, SearchAnswers(s) PROVE TypeInv'
  <2>1. found[s] \in Found
    BY <1>3 DEF SearchAnswers, TypeOK
  <2>2. found' \in [Search -> Found \cup {None}]
    BY <1>3, <2>1 DEF SearchAnswers, TypeOK, Found
  <2>3. Expires(found[s].moteur) \in (0..MaxTime + ID_LIFE) \cup {None}
    BY TimeAdds DEF Expires, TypeOK
  <2> QED
    BY <1>3, <2>2, <2>3 DEF SearchAnswers, TypeOK, RefusedAreRows, Rows
<1>4. ASSUME NEW s \in Search, SearchFails(s) PROVE TypeInv'
  <2>1. found[s] \in Found
    BY <1>4 DEF SearchFails, TypeOK
  <2>2. found' \in [Search -> Found \cup {None}]
    BY <1>4, <2>1 DEF SearchFails, TypeOK, Found
  <2> QED
    BY <1>4, <2>2 DEF SearchFails, TypeOK, RefusedAreRows, Rows
<1>5. ASSUME NEW r \in Request, NEW m \in Moteur, NEW n \in Name, NEW id \in FakeId,
             PostBegins(r, m, n, id)
      PROVE  TypeInv'
  <2>1. PICK s \in Sessions(m, n) :
            post' = [post EXCEPT ![r] = [moteur |-> m, name |-> n, session |-> s,
                                         taxi |-> id[2], at |-> now]]
    BY <1>5 DEF PostBegins
  <2>2. s \in Hail \cup {None}
    BY SessionsType
  <2>3. id[2] \in Taxi
    BY DEF FakeId
  <2>4. [moteur |-> m, name |-> n, session |-> s, taxi |-> id[2],
         at |-> now] \in Post
    BY <2>2, <2>3 DEF Post, TypeOK
  <2>5. post' \in [Request -> Post \cup {None}]
    BY <2>1, <2>4 DEF TypeOK
  <2> QED
    BY <1>5, <2>5 DEF PostBegins, TypeOK, RefusedAreRows, Rows
<1>6. ASSUME NEW r \in Request, PostFails(r) PROVE TypeInv'
  BY <1>6 DEF PostFails, TypeOK, RefusedAreRows, Rows
<1>7. ASSUME NEW r \in Request, NEW h \in Hail, PostCommits(r, h) PROVE TypeInv'
  <2>1. post[r] \in Post
    BY <1>7 DEF PostCommits, TypeOK
  <2>2. hail'[h] \in Row /\ hail' = [hail EXCEPT ![h] = hail'[h]]
    BY <1>7, <2>1 DEF PostCommits, TypeOK, Post, Row
  <2>3. hail' \in [Hail -> Row \cup {None}]
    BY <2>2 DEF TypeOK
  <2>4. RefusedAreRows'
    BY <1>7, <2>2 DEF PostCommits, RefusedAreRows, Rows, TypeOK
  <2> QED
    BY <1>7, <2>3, <2>4 DEF PostCommits, TypeOK
<1>8. ASSUME NEW h \in Hail, NEW state \in {"open", "refused", "closed"},
             Changes(h, state)
      PROVE  TypeInv'
  <2>1. hail[h] \in Row
    BY <1>8, RowsHaveTypes DEF Changes
  <2>2. hail' = [hail EXCEPT ![h] = [hail[h] EXCEPT !.state = state, !.changed = now]]
    BY <1>8 DEF Changes, TypeOK
  <2>3. [hail[h] EXCEPT !.state = state, !.changed = now] \in Row
    BY <2>1 DEF Row, TypeOK
  <2>4. hail' \in [Hail -> Row \cup {None}]
    BY <2>2, <2>3 DEF TypeOK
  <2>5. refused' \in [Hail -> Time \cup {None}]
    BY <1>8 DEF Changes, TypeOK
  <2>6. RefusedAreRows'
    BY <1>8, <2>2, <2>3 DEF Changes, RefusedAreRows, Rows, Open, TypeOK
  <2> QED
    BY <1>8, <2>4, <2>5, <2>6 DEF Changes, TypeOK
<1>9. ASSUME NEW h \in Hail, RedistributesNot(h) PROVE TypeInv'
  BY <1>9 DEF RedistributesNot, Redistributed, TypeOK, RefusedAreRows, Rows
<1>10. ASSUME NEW h \in Hail, NEW g \in Hail, NEW t \in Taxi, Redistributes(h, g, t)
       PROVE  TypeInv'
  <2>1. hail[h] \in Row
    BY <1>10, RowsHaveTypes DEF Redistributes, Redistributed, RefusedAreRows
  <2> DEFINE row == [hail[h] EXCEPT !.taxi = t, !.state = "open",
                                    !.changed = now, !.source = "reassignment"]
  <2>3. row \in Row
    BY <2>1 DEF Row, TypeOK
  <2>4. hail' = [hail EXCEPT ![g] = row]
    BY <1>10 DEF Redistributes
  <2> HIDE DEF row
  <2>5. hail' \in [Hail -> Row \cup {None}]
    BY <2>3, <2>4 DEF TypeOK
  <2>6. refused' = [refused EXCEPT ![h] = None]
    BY <1>10 DEF Redistributes, Redistributed
  <2>7. RefusedAreRows'
    BY <2>3, <2>4, <2>6 DEF RefusedAreRows, Rows, TypeOK
  <2> QED
    BY <1>10, <2>5, <2>6, <2>7 DEF Redistributes, Redistributed, TypeOK
<1>11. CASE UNCHANGED vars
  BY <1>11 DEF vars, TypeOK, RefusedAreRows, Rows
<1> QED
  BY <1>1, <1>2, <1>3, <1>4, <1>5, <1>6, <1>7, <1>8, <1>9, <1>10, <1>11 DEF Next

\* Every variable keeps to its values, whoever searches, hails or refuses.
THEOREM TypeCorrect == Spec => []TypeOK
<1>1. TypeInv => TypeOK
  BY DEF TypeInv
<1> QED
  BY <1>1, TypeInit, TypeNext, PTL DEF Spec
-------------------------------------------------------------------------------
(* Sessions *)

\* The customer of hail h is customer n of company m.
IsHis(h, m, n) == h \in Rows /\ hail[h].moteur = m /\ hail[h].name = n

\* A session is named by a hail that exists, a new one by a hail that does not.
SessionsAreNamed == \A h \in Rows : hail[h].session \in Rows

\* What a request has read of a session stays so: rows keep their customer.
PostsAreHis ==
    \A r \in Request : post[r] # None /\ post[r].session # None =>
        \E g \in Rows : /\ hail[g].session = post[r].session
                        /\ IsHis(g, post[r].moteur, post[r].name)

SessionInv ==
    /\ TypeInv
    /\ SessionsAreOneCustomers
    /\ SessionsAreNamed
    /\ PostsAreHis

\* Whichever way POST /hails finds a session, a hail of the customer is in it.
LEMMA SessionsAreHis ==
    ASSUME TypeOK, NEW m \in Moteur, NEW n \in Name, NEW s \in Sessions(m, n),
           s # None
    PROVE  \E g \in Rows : hail[g].session = s /\ IsHis(g, m, n)
<1>1. \A h \in OfCustomer(m, n) : IsHis(h, m, n)
  BY DEF OfCustomer, IsHis
<1>2. CASE s \in ExistingSession(m, n)
  <2>1. PICK h \in OfCustomer(m, n) : s = hail[h].session
    BY <1>2 DEF ExistingSession, Latest
  <2> QED
    BY <1>1, <2>1 DEF OfCustomer
<1>3. CASE s \in Named(m, n)
  BY <1>3 DEF Named, SessionIsHis, Latest, IsHis
<1> QED
  BY <1>2, <1>3 DEF Sessions

\* Hails that are there keep customer and session, and nothing is promised anew.
LEMMA RowsAreKept ==
    ASSUME SessionInv,
           Rows' = Rows,
           \A h \in Rows : /\ hail'[h].moteur = hail[h].moteur
                           /\ hail'[h].name = hail[h].name
                           /\ hail'[h].session = hail[h].session,
           \A r \in Request : post'[r] = post[r] \/ post'[r] = None
    PROVE  (SessionsAreOneCustomers /\ SessionsAreNamed /\ PostsAreHis)'
<1>1. SessionsAreOneCustomers'
  BY DEF SessionInv, SessionsAreOneCustomers
<1>2. SessionsAreNamed'
  BY DEF SessionInv, SessionsAreNamed
<1>3. PostsAreHis'
  <2> SUFFICES ASSUME NEW r \in Request, post'[r] # None, post'[r].session # None
               PROVE  \E g \in Rows : /\ hail'[g].session = post'[r].session
                                      /\ hail'[g].moteur = post'[r].moteur
                                      /\ hail'[g].name = post'[r].name
    BY DEF PostsAreHis, IsHis
  <2>1. post'[r] = post[r]
    OBVIOUS
  <2>2. PICK g \in Rows : /\ hail[g].session = post[r].session
                          /\ IsHis(g, post[r].moteur, post[r].name)
    BY <2>1 DEF SessionInv, PostsAreHis
  <2> QED
    BY <2>1, <2>2 DEF IsHis
<1> QED
  BY <1>1, <1>2, <1>3

\* A hail is added to the session of its customer, or to one of its own.
LEMMA RowIsAdded ==
    ASSUME SessionInv,
           NEW h \in Hail, h \notin Rows, NEW row \in Row,
           hail' = [hail EXCEPT ![h] = row],
           \/ row.session = h
           \/ \E g \in Rows : hail[g].session = row.session
                                /\ IsHis(g, row.moteur, row.name),
           \A r \in Request : post'[r] = post[r] \/ post'[r] = None
    PROVE  (SessionsAreOneCustomers /\ SessionsAreNamed /\ PostsAreHis)'
<1>1. Rows' = Rows \cup {h} /\ hail'[h] = row /\ \A g \in Rows : hail'[g] = hail[g]
  BY NoneIsNoRecord DEF SessionInv, TypeInv, TypeOK, Rows
<1>2. \A g \in Rows : hail[g].session = row.session
            => hail[g].moteur = row.moteur /\ hail[g].name = row.name
  BY DEF SessionInv, SessionsAreOneCustomers, SessionsAreNamed, IsHis
<1>3. SessionsAreOneCustomers'
  BY <1>1, <1>2 DEF SessionInv, SessionsAreOneCustomers
<1>4. SessionsAreNamed'
  BY <1>1 DEF SessionInv, SessionsAreNamed
<1>5. PostsAreHis'
  <2> SUFFICES ASSUME NEW r \in Request, post'[r] # None, post'[r].session # None
               PROVE  \E g \in Rows' : /\ hail'[g].session = post'[r].session
                                       /\ hail'[g].moteur = post'[r].moteur
                                       /\ hail'[g].name = post'[r].name
    BY DEF PostsAreHis, IsHis
  <2>1. post'[r] = post[r]
    OBVIOUS
  <2>2. PICK g \in Rows : /\ hail[g].session = post[r].session
                          /\ IsHis(g, post[r].moteur, post[r].name)
    BY <2>1 DEF SessionInv, PostsAreHis
  <2> QED
    BY <1>1, <2>1, <2>2 DEF IsHis
<1> QED
  BY <1>3, <1>4, <1>5

LEMMA SessionNext == SessionInv /\ [Next]_vars => SessionInv'
<1> SUFFICES ASSUME SessionInv, [Next]_vars PROVE SessionInv'
  OBVIOUS
<1> DEFINE Sound == SessionsAreOneCustomers /\ SessionsAreNamed /\ PostsAreHis
<1>t. TypeInv'
  BY TypeNext DEF SessionInv
<1>o. TypeOK
  BY DEF SessionInv, TypeInv
<1> SUFFICES Sound'
  BY <1>t DEF SessionInv
<1>1. ASSUME UNCHANGED hail, \A r \in Request : post'[r] = post[r] \/ post'[r] = None
      PROVE  Sound'
  <2>1. Rows' = Rows
    BY <1>1 DEF Rows
  <2> QED
    BY <1>1, <2>1, RowsAreKept
<1>2. CASE Tick
  BY <1>1, <1>2 DEF Tick
<1>3. ASSUME NEW s \in Search, NEW m \in Moteur, NEW T \in (SUBSET Taxi) \ {{}},
             SearchStores(s, m, T)
      PROVE  Sound'
  BY <1>1, <1>3 DEF SearchStores
<1>4. ASSUME NEW s \in Search, SearchAnswers(s) \/ SearchFails(s) PROVE Sound'
  BY <1>1, <1>4 DEF SearchAnswers, SearchFails
<1>5. ASSUME NEW r \in Request, NEW m \in Moteur, NEW n \in Name, NEW id \in FakeId,
             PostBegins(r, m, n, id)
      PROVE  Sound'
  <2>1. PICK s \in Sessions(m, n) :
            post' = [post EXCEPT ![r] = [moteur |-> m, name |-> n, session |-> s,
                                         taxi |-> id[2], at |-> now]]
    BY <1>5 DEF PostBegins
  <2>2. UNCHANGED hail /\ Rows' = Rows
    BY <1>5 DEF PostBegins, Rows
  <2>3. (SessionsAreOneCustomers /\ SessionsAreNamed)'
    BY <2>2 DEF SessionInv, SessionsAreOneCustomers, SessionsAreNamed
  <2>4. PostsAreHis'
    <3> SUFFICES ASSUME NEW q \in Request, post'[q] # None, post'[q].session # None
                 PROVE  \E g \in Rows : /\ hail[g].session = post'[q].session
                                        /\ IsHis(g, post'[q].moteur, post'[q].name)
      BY <2>2 DEF PostsAreHis, IsHis
    <3>1. CASE q = r
      <4>1. /\ post'[q].session = s /\ post'[q].moteur = m /\ post'[q].name = n
        BY <1>o, <2>1, <3>1 DEF TypeOK
      <4> QED
        BY <1>o, <4>1, SessionsAreHis
    <3>2. CASE q # r
      <4>1. post'[q] = post[q]
        BY <1>o, <2>1, <3>2 DEF TypeOK
      <4> QED
        BY <4>1 DEF SessionInv, PostsAreHis
    <3> QED
      BY <3>1, <3>2
  <2> QED
    BY <2>3, <2>4
<1>6. ASSUME NEW r \in Request, PostFails(r) PROVE Sound'
  <2>1. \A q \in Request : post'[q] = post[q] \/ post'[q] = None
    BY <1>o, <1>6 DEF PostFails, TypeOK
  <2> QED
    BY <1>1, <1>6, <2>1 DEF PostFails
<1>7. ASSUME NEW r \in Request, NEW h \in Hail, PostCommits(r, h) PROVE Sound'
  <2>1. post[r] # None /\ post[r] \in Post
    BY <1>o, <1>7 DEF PostCommits, TypeOK
  <2> DEFINE row ==
        [moteur |-> post[r].moteur, name |-> post[r].name,
         session |-> IF post[r].session = None THEN h ELSE post[r].session,
         taxi |-> post[r].taxi, state |-> "open",
         changed |-> post[r].at, source |-> "added_by"]
  <2>2. hail' = [hail EXCEPT ![h] = row] /\ h \notin Rows
    BY <1>7 DEF PostCommits, IsNext
  <2>3. row \in Row
    BY <2>1 DEF Row, Post
  <2>4. \/ row.session = h
        \/ \E g \in Rows : hail[g].session = row.session
                             /\ IsHis(g, row.moteur, row.name)
    BY <2>1 DEF SessionInv, PostsAreHis
  <2>5. \A q \in Request : post'[q] = post[q] \/ post'[q] = None
    BY <1>o, <1>7 DEF PostCommits, TypeOK
  <2> HIDE DEF row
  <2> QED
    BY <2>2, <2>3, <2>4, <2>5, RowIsAdded
<1>8. ASSUME NEW h \in Hail, NEW state \in {"open", "refused", "closed"},
             Changes(h, state)
      PROVE  Sound'
  <2>1. h \in Rows /\ hail[h] \in Row
    BY <1>o, <1>8, RowsHaveTypes DEF Changes
  <2>2. hail' = [hail EXCEPT ![h] = [hail[h] EXCEPT !.state = state, !.changed = now]]
    BY <1>8 DEF Changes, TypeOK
  <2>3. [hail[h] EXCEPT !.state = state, !.changed = now] \in Row
    BY <1>o, <2>1 DEF Row, TypeOK
  <2>4. Rows' = Rows
    BY <1>o, <2>1, <2>2, <2>3, NoneIsNoRecord DEF Rows, TypeOK
  <2>5. \A g \in Rows : /\ hail'[g].moteur = hail[g].moteur
                        /\ hail'[g].name = hail[g].name
                        /\ hail'[g].session = hail[g].session
    BY <1>o, <2>1, <2>2 DEF TypeOK, Rows, Row
  <2>6. \A q \in Request : post'[q] = post[q] \/ post'[q] = None
    BY <1>8 DEF Changes
  <2> QED
    BY <2>4, <2>5, <2>6, RowsAreKept
<1>9. ASSUME NEW h \in Hail, RedistributesNot(h) PROVE Sound'
  BY <1>1, <1>9 DEF RedistributesNot, Redistributed
<1>10. ASSUME NEW h \in Hail, NEW g \in Hail, NEW t \in Taxi, Redistributes(h, g, t)
       PROVE  Sound'
  <2>1. h \in Rows /\ hail[h] \in Row
    BY <1>10, RowsHaveTypes
       DEF Redistributes, Redistributed, RefusedAreRows, SessionInv, TypeInv
  <2> DEFINE row == [hail[h] EXCEPT !.taxi = t, !.state = "open",
                                    !.changed = now, !.source = "reassignment"]
  <2>2. hail' = [hail EXCEPT ![g] = row] /\ g \notin Rows
    BY <1>10 DEF Redistributes, IsNext
  <2>3. row \in Row
    BY <1>o, <2>1 DEF Row, TypeOK, FakeId
  <2>4. /\ row.session = hail[h].session /\ row.moteur = hail[h].moteur
        /\ row.name = hail[h].name
    BY <2>1 DEF Row
  <2> HIDE DEF row
  <2>5. \E k \in Rows : hail[k].session = row.session /\ IsHis(k, row.moteur, row.name)
    BY <2>1, <2>4 DEF IsHis
  <2>6. \A q \in Request : post'[q] = post[q] \/ post'[q] = None
    BY <1>10 DEF Redistributes, Redistributed
  <2> QED
    BY <2>2, <2>3, <2>5, <2>6, RowIsAdded
<1>11. CASE UNCHANGED vars
  BY <1>1, <1>11 DEF vars
<1> QED
  BY <1>2, <1>3, <1>4, <1>5, <1>6, <1>7, <1>8, <1>9, <1>10, <1>11 DEF Next

\* No session is ever shared by two customers, of one company or of two, although
\* a company may name a session itself and only its last hail is compared.
THEOREM SessionsCorrect == Spec => []SessionsAreOneCustomers
<1>1. Init => SessionInv
  BY TypeInit DEF Init, SessionInv, TypeInv, SessionsAreOneCustomers, SessionsAreNamed,
                  PostsAreHis, Rows
<1>2. SessionInv => SessionsAreOneCustomers
  BY DEF SessionInv
<1> QED
  BY <1>1, <1>2, SessionNext, PTL DEF Spec
-------------------------------------------------------------------------------
(* Identifiers *)

\* A search is known by its worker first, then by its company.
IsStored(s) == found[s] # None /\ found[s].step = "stored"
IsAnswered(s) == found[s] # None /\ found[s].step = "answered"

\* Between its two commands a search finds its identifiers where it put them,
\* since no time passes there.
StoredAreKept == \A s \in Search : IsStored(s) => found[s].shown \subseteq fakes[found[s].moteur]

\* The hash of an answered search does not expire before its identifiers may.
AnsweredAreKept ==
    \A s \in Search :
        IsAnswered(s) /\ found[s].shown # {} /\ now < found[s].at + ID_LIFE =>
            /\ found[s].shown \subseteq fakes[found[s].moteur]
            /\ \/ expiry[found[s].moteur] = None
               \/ expiry[found[s].moteur] >= found[s].at + ID_LIFE

AnswersArePast == \A s \in Search : found[s] # None => found[s].at <= now

IdInv ==
    /\ TypeInv
    /\ StoredAreKept
    /\ AnsweredAreKept
    /\ AnswersArePast

LEMMA FoundType ==
    ASSUME TypeOK, NEW s \in Search, found[s] # None
    PROVE  /\ found[s] \in Found
           /\ found[s].at \in Int /\ found[s].moteur \in Moteur
           /\ found[s].step \in {"stored", "answered"}
BY DEF TypeOK, Found, Time

LEMMA IdNext == ~Straddles /\ IdInv /\ [Next]_vars => IdInv'
<1> SUFFICES ASSUME ~Straddles, IdInv, [Next]_vars PROVE IdInv'
  OBVIOUS
<1> DEFINE Kept == StoredAreKept /\ AnsweredAreKept /\ AnswersArePast
<1>t. TypeInv'
  BY TypeNext DEF IdInv
<1>o. TypeOK /\ now \in Int /\ MaxTime \in Int /\ ID_LIFE \in Int /\ ID_LIFE > 0
  BY DEF IdInv, TypeInv, TypeOK, Time
<1> SUFFICES Kept'
  BY <1>t DEF IdInv
<1>1. CASE Tick
  <2>1. now' = now + 1 /\ UNCHANGED found
    BY <1>1 DEF Tick
  <2>2. \A s \in Search : found[s] # None => IsAnswered(s)
    BY <1>1 DEF Tick, IsAnswered
  <2>3. StoredAreKept'
    BY <2>1, <2>2 DEF StoredAreKept, IsStored, IsAnswered
  <2>4. AnswersArePast'
    BY <1>o, <2>1, FoundType DEF IdInv, AnswersArePast
  <2>5. AnsweredAreKept'
    <3> SUFFICES ASSUME NEW s \in Search, IsAnswered(s), found[s].shown # {},
                        now + 1 < found[s].at + ID_LIFE
                 PROVE  /\ found[s].shown \subseteq fakes'[found[s].moteur]
                        /\ \/ expiry'[found[s].moteur] = None
                           \/ expiry'[found[s].moteur] >= found[s].at + ID_LIFE
      BY <2>1 DEF AnsweredAreKept, IsAnswered
    <3>1. found[s].at \in Int /\ found[s].moteur \in Moteur
      BY <1>o, FoundType DEF IsAnswered
    <3> DEFINE m == found[s].moteur
    <3>2. now < found[s].at + ID_LIFE
      BY <1>o, <3>1
    <3>3. /\ found[s].shown \subseteq fakes[m]
          /\ expiry[m] = None \/ expiry[m] >= found[s].at + ID_LIFE
      BY <3>2 DEF IdInv, AnsweredAreKept
    <3>4. expiry[m] # now + 1
      <4>1. now + 1 # None
        BY <1>o DEF TypeOK, Time
      <4> QED
        BY <1>o, <3>1, <3>3, <4>1
    <3>5. fakes'[m] = fakes[m] /\ expiry'[m] = expiry[m]
      BY <1>1, <3>1, <3>4 DEF Tick
    <3> QED
      BY <3>3, <3>5
  <2> QED
    BY <2>3, <2>4, <2>5
<1>2. ASSUME NEW s \in Search, NEW m \in Moteur, NEW T \in (SUBSET Taxi) \ {{}},
             SearchStores(s, m, T)
      PROVE  Kept'
  <2> DEFINE new == [moteur |-> m, shown |-> {s} \X T, at |-> now, step |-> "stored"]
  <2>1. /\ found' = [found EXCEPT ![s] = new]
        /\ fakes' = [fakes EXCEPT ![m] = @ \cup ({s} \X T)]
        /\ now' = now /\ expiry' = expiry
    BY <1>2 DEF SearchStores
  <2>2. /\ found'[s].shown = {s} \X T /\ found'[s].moteur = m
        /\ found'[s].at = now /\ found'[s].step = "stored"
        /\ \A q \in Search : q # s => found'[q] = found[q]
    BY <1>o, <2>1 DEF TypeOK
  <2>3. /\ {s} \X T \subseteq fakes'[m]
        /\ \A k \in Moteur : fakes[k] \subseteq fakes'[k]
    BY <1>o, <2>1 DEF TypeOK
  <2> HIDE DEF new
  <2>4. ASSUME NEW q \in Search, IsStored(q)'
        PROVE  found'[q].shown \subseteq fakes'[found'[q].moteur]
    <3>1. CASE q = s
      BY <2>2, <2>3, <3>1
    <3>2. CASE q # s
      <4>1. IsStored(q) /\ found'[q] = found[q]
        BY <2>2, <2>4, <3>2 DEF IsStored
      <4>2. found[q].moteur \in Moteur
        BY <1>o, <4>1, FoundType DEF IsStored
      <4> QED
        BY <2>3, <4>1, <4>2 DEF IdInv, StoredAreKept
    <3> QED
      BY <3>1, <3>2
  <2>5. AnsweredAreKept'
    <3> SUFFICES ASSUME NEW q \in Search, IsAnswered(q)', found'[q].shown # {},
                        now < found'[q].at + ID_LIFE
                 PROVE  /\ found'[q].shown \subseteq fakes'[found'[q].moteur]
                        /\ \/ expiry[found'[q].moteur] = None
                           \/ expiry[found'[q].moteur] >= found'[q].at + ID_LIFE
      BY <2>1 DEF AnsweredAreKept
    <3>1. q # s
      BY <2>2 DEF IsAnswered
    <3>2. IsAnswered(q) /\ found'[q] = found[q]
      BY <2>2, <3>1 DEF IsAnswered
    <3>3. found[q].moteur \in Moteur
      BY <1>o, <3>2, FoundType DEF IsAnswered
    <3> QED
      BY <2>3, <3>2, <3>3 DEF IdInv, AnsweredAreKept
  <2>6. AnswersArePast'
    BY <1>o, <2>1, <2>2 DEF IdInv, AnswersArePast
  <2>7. StoredAreKept'
    BY <2>4 DEF StoredAreKept
  <2> QED
    BY <2>5, <2>6, <2>7
<1>3. ASSUME NEW s \in Search, SearchAnswers(s) PROVE Kept'
  <2>1. IsStored(s) /\ found[s] \in Found
    BY <1>o, <1>3, FoundType DEF SearchAnswers, IsStored
  <2> DEFINE m == found[s].moteur
  <2>2. /\ found' = [found EXCEPT ![s].step = "answered", ![s].at = now]
        /\ expiry' = [expiry EXCEPT ![m] = Expires(m)]
        /\ now' = now /\ fakes' = fakes
    BY <1>3 DEF SearchAnswers
  <2>3. /\ found'[s] # None
        /\ found'[s].shown = found[s].shown /\ found'[s].moteur = m
        /\ found'[s].at = now /\ found'[s].step = "answered"
    <3>1. found'[s] = [found[s] EXCEPT !.step = "answered", !.at = now]
      BY <1>o, <2>2 DEF TypeOK
    <3>2. found'[s] \in Found
      BY <1>o, <2>1, <3>1 DEF Found, TypeOK
    <3> QED
      BY <2>1, <3>1, <3>2, NoneIsNoRecord DEF Found
  <2>4. \A q \in Search : q # s => found'[q] = found[q]
    BY <1>o, <2>2 DEF TypeOK
  <2>5. \A k \in Moteur : k # m => expiry'[k] = expiry[k]
    BY <1>o, <2>2 DEF TypeOK
  <2>6. expiry'[m] = None \/ expiry'[m] = now + ID_LIFE
    BY <1>o, <2>1, <2>2 DEF TypeOK, Expires, Found
  <2>7. StoredAreKept'
    BY <2>2, <2>3, <2>4 DEF IdInv, StoredAreKept, IsStored
  <2>8. AnsweredAreKept'
    <3> SUFFICES ASSUME NEW q \in Search, IsAnswered(q)', found'[q].shown # {},
                        now < found'[q].at + ID_LIFE
                 PROVE  /\ found'[q].shown \subseteq fakes[found'[q].moteur]
                        /\ \/ expiry'[found'[q].moteur] = None
                           \/ expiry'[found'[q].moteur] >= found'[q].at + ID_LIFE
      BY <2>2 DEF AnsweredAreKept
    <3>1. CASE q = s
      BY <1>o, <2>1, <2>3, <2>6, <3>1 DEF IdInv, StoredAreKept
    <3>2. CASE q # s
      <4>1. found'[q] = found[q] /\ IsAnswered(q)
        BY <2>4, <3>2 DEF IsAnswered
      <4>2. found[q].at \in Int /\ found[q].moteur \in Moteur /\ found[q].at <= now
        BY <1>o, <4>1, FoundType DEF IdInv, AnswersArePast, IsAnswered
      <4>3. /\ found[q].shown \subseteq fakes[found[q].moteur]
            /\ \/ expiry[found[q].moteur] = None
               \/ expiry[found[q].moteur] >= found[q].at + ID_LIFE
        BY <4>1 DEF IdInv, AnsweredAreKept
      <4>4. CASE found[q].moteur = m
        BY <1>o, <2>6, <4>1, <4>2, <4>3, <4>4
      <4>5. CASE found[q].moteur # m
        BY <2>5, <4>1, <4>2, <4>3, <4>5
      <4> QED
        BY <4>4, <4>5
    <3> QED
      BY <3>1, <3>2
  <2>9. AnswersArePast'
    <3>1. now' = now
      BY <2>2
    <3>2. \A q \in Search : found'[q] # None => found'[q].at <= now
      BY <1>o, <2>3, <2>4 DEF IdInv, AnswersArePast
    <3> QED
      BY <3>1, <3>2 DEF AnswersArePast
  <2> QED
    BY <2>7, <2>8, <2>9
<1>4. ASSUME NEW s \in Search, SearchFails(s) PROVE Kept'
  <2>1. found[s] # None /\ found[s] \in Found
    BY <1>o, <1>4, FoundType DEF SearchFails
  <2>2. found' = [found EXCEPT ![s] = [found[s] EXCEPT !.shown = {}, !.step = "answered"]]
    BY <1>4 DEF SearchFails, TypeOK
  <2>3. /\ found'[s].shown = {} /\ found'[s].at = found[s].at
        /\ found'[s].step = "answered"
        /\ \A q \in Search : q # s => found'[q] = found[q]
    BY <1>o, <2>1, <2>2 DEF TypeOK, Found
  <2>4. now' = now /\ fakes' = fakes /\ expiry' = expiry
    BY <1>4 DEF SearchFails
  <2>5. StoredAreKept'
    BY <2>3, <2>4 DEF IdInv, StoredAreKept, IsStored
  <2>6. AnsweredAreKept'
    BY <2>3, <2>4 DEF IdInv, AnsweredAreKept, IsAnswered
  <2>7. AnswersArePast'
    BY <2>1, <2>3, <2>4 DEF IdInv, AnswersArePast
  <2> QED
    BY <2>5, <2>6, <2>7
<1>5. CASE UNCHANGED <<now, found, fakes, expiry>>
  BY <1>5 DEF IdInv, StoredAreKept, AnsweredAreKept, AnswersArePast, IsStored, IsAnswered
<1>6. ASSUME \/ \E r \in Request, m \in Moteur, n \in Name, id \in FakeId :
                    PostBegins(r, m, n, id)
             \/ \E r \in Request : PostFails(r) \/ \E h \in Hail : PostCommits(r, h)
             \/ \E h \in Hail, state \in {"open", "refused", "closed"} : Changes(h, state)
             \/ \E h \in Hail : RedistributesNot(h)
             \/ \E h, g \in Hail, t \in Taxi : Redistributes(h, g, t)
             \/ UNCHANGED vars
      PROVE  UNCHANGED <<now, found, fakes, expiry>>
  BY <1>6 DEF PostBegins, PostFails, PostCommits, Changes, RedistributesNot,
              Redistributes, Redistributed, vars
<1> QED
  BY <1>1, <1>2, <1>3, <1>4, <1>5, <1>6 DEF Next

\* What a search answered can be hailed for an hour, however many searches of the
\* company prolong the hash they share, when no key expires between HSET and EXPIRE.
THEOREM AnswersCorrect == ~Straddles => (Spec => []AnswersCanBeHailed)
<1>1. Init => IdInv
  BY TypeInit DEF Init, IdInv, StoredAreKept, AnsweredAreKept, AnswersArePast,
                  IsStored, IsAnswered
<1>2. IdInv => AnswersCanBeHailed
  BY DEF IdInv, AnsweredAreKept, AnswersCanBeHailed, IsAnswered
<1>3. ASSUME ~Straddles PROVE IdInv /\ [Next]_vars => IdInv'
  BY <1>3, IdNext
<1>4. ASSUME ~Straddles PROVE Spec => []AnswersCanBeHailed
  BY <1>1, <1>2, <1>3, <1>4, PTL DEF Spec
<1> QED
  BY <1>4
-------------------------------------------------------------------------------
(* A customer has one taxi *)

SameCustomer(h, k) ==
    hail[h].moteur = hail[k].moteur /\ hail[h].name = hail[k].name

ChangesArePast == \A h \in Rows : hail[h].changed <= now

\* Redistribution comes before the refusal is too old to be seen by POST /hails.
RefusedRecently ==
    \A h \in Hail : refused[h] # None =>
        /\ h \in Rows /\ hail[h].state = "refused" /\ hail[h].changed = refused[h]
        /\ now - refused[h] <= MaxLag

OneIsOpen == \A h, k \in Open : SameCustomer(h, k) => h = k

\* Two hails of a customer that changed at one time are of one session.
TimesTellSessions ==
    \A h, k \in Rows : SameCustomer(h, k) /\ hail[h].changed = hail[k].changed
        => hail[h].session = hail[k].session

\* What a customer did since his open hail changed is in its session.
OpenIsLatest ==
    \A h \in Open, k \in Rows : SameCustomer(h, k) /\ hail[k].changed >= hail[h].changed
        => hail[h].session = hail[k].session

\* So is what he did since a refusal that is not redistributed yet.
RefusalIsJoined ==
    \A h \in Hail, k \in Rows :
        /\ refused[h] # None
        /\ SameCustomer(h, k)
        /\ k \in Open \/ hail[k].changed >= refused[h]
        => hail[h].session = hail[k].session

\* A request holds the session of what its customer did last, and he does
\* nothing meanwhile.
PostsJoin ==
    \A r \in Request : post[r] # None =>
        /\ post[r].at = now
        /\ \A k \in OfCustomer(post[r].moteur, post[r].name) :
            /\ k \notin Open
            /\ hail[k].changed >= now \/ refused[k] # None
                => hail[k].session = post[r].session
        /\ \A q \in Request : post[q] # None /\ q # r =>
                post[q].moteur # post[r].moteur \/ post[q].name # post[r].name

Joined ==
    /\ ChangesArePast /\ RefusedRecently
    /\ OneIsOpen /\ TimesTellSessions /\ OpenIsLatest
    /\ RefusalIsJoined /\ PostsJoin

CustomerInv == TypeInv /\ Joined

LEMMA Numbers ==
    ASSUME TypeOK
    PROVE  /\ now \in Int /\ MaxLag \in Int /\ SESSION_AGE \in Int
           /\ \A h \in Rows : hail[h].changed \in Int /\ hail[h].session # None
           /\ \A h \in Hail : refused[h] # None => refused[h] \in Int
<1>1. \A h \in Rows : hail[h].changed \in Int /\ hail[h].session # None
  BY RowsHaveTypes DEF Row, Time, Hail
<1> QED
  BY <1>1 DEF TypeOK, Time

\* Steps that change no hail may give up a request or a redistribution.
LEMMA NothingHappens ==
    ASSUME CustomerInv, UNCHANGED <<now, hail>>,
           \A h \in Hail : refused'[h] \in {refused[h], None},
           \A r \in Request : post'[r] \in {post[r], None}
    PROVE  Joined'
<1>1. Rows' = Rows /\ Open' = Open /\ \A m, n : OfCustomer(m, n)' = OfCustomer(m, n)
  BY DEF Rows, Open, OfCustomer
<1> USE DEF CustomerInv, Joined
<1>2. (ChangesArePast /\ OneIsOpen /\ TimesTellSessions /\ OpenIsLatest)'
  BY <1>1 DEF ChangesArePast, OneIsOpen, TimesTellSessions, OpenIsLatest, SameCustomer
<1>3. RefusedRecently'
  BY <1>1 DEF RefusedRecently
<1>4. RefusalIsJoined'
  BY <1>1 DEF RefusalIsJoined, SameCustomer
<1>5. PostsJoin'
  <2> SUFFICES ASSUME NEW r \in Request, post'[r] # None
               PROVE  /\ post'[r].at = now
                      /\ \A k \in OfCustomer(post'[r].moteur, post'[r].name) :
                          /\ k \notin Open
                          /\ hail[k].changed >= now \/ refused'[k] # None
                                => hail[k].session = post'[r].session
                      /\ \A q \in Request : post'[q] # None /\ q # r =>
                              post'[q].moteur # post'[r].moteur
                                \/ post'[q].name # post'[r].name
    BY <1>1 DEF PostsJoin, OfCustomer, Rows
  <2>1. post'[r] = post[r] /\ post[r] # None
    OBVIOUS
  <2>2. \A k \in OfCustomer(post[r].moteur, post[r].name) :
            refused'[k] # None => refused[k] # None
    BY DEF OfCustomer, Rows
  <2>3. \A q \in Request : post'[q] # None => post'[q] = post[q] /\ post[q] # None
    OBVIOUS
  <2> QED
    BY <2>1, <2>2, <2>3 DEF PostsJoin
<1> QED
  BY <1>2, <1>3, <1>4, <1>5

\* A customer without an open hail gets one, in the session of what he did last.
LEMMA CustomerGetsHail ==
    ASSUME CustomerInv, NEW g \in Hail, g \notin Rows, NEW row \in Row,
           hail' = [hail EXCEPT ![g] = row], UNCHANGED now,
           row.state = "open", row.changed = now,
           \A k \in OfCustomer(row.moteur, row.name) :
                /\ k \notin Open
                /\ hail[k].changed >= now \/ refused[k] # None
                        => hail[k].session = row.session,
           \A h \in Hail : refused'[h] \in {refused[h], None},
           \A r \in Request : post'[r] # None =>
                /\ post'[r] = post[r]
                /\ post[r].moteur # row.moteur \/ post[r].name # row.name
    PROVE  Joined'
<1> USE DEF CustomerInv, Joined
<1>o. TypeOK
  BY DEF TypeInv
<1>n. /\ now \in Int /\ \A h \in Rows : hail[h].changed \in Int
      /\ \A h \in Hail : refused[h] # None => refused[h] \in Int
  BY <1>o, Numbers
<1>1. hail'[g] = row /\ \A h \in Hail : h # g => hail'[h] = hail[h]
  BY <1>o DEF TypeOK
<1>2. Rows' = Rows \cup {g} /\ Open' = Open \cup {g} /\ Open \subseteq Rows
  <2>1. row # None
    BY NoneIsNoRecord
  <2>2. Rows' = Rows \cup {g}
    BY <1>1, <2>1 DEF Rows
  <2> QED
    BY <1>1, <2>2 DEF Open, Rows
<1>3. \A h \in Rows : hail'[h] = hail[h] /\ h # g
  BY <1>1 DEF Rows
<1>4. \A h \in Rows : SameCustomer(h, g)' \/ SameCustomer(g, h)'
                        => h \in OfCustomer(row.moteur, row.name)
  BY <1>1, <1>3 DEF SameCustomer, OfCustomer
<1>5. \A h, k \in Rows : SameCustomer(h, k)' <=> SameCustomer(h, k)
  BY <1>3 DEF SameCustomer
<1>6. \A h \in Hail : refused'[h] # None => refused[h] # None /\ h \in Rows /\ refused'[h] = refused[h]
  BY DEF RefusedRecently
<1>7. ChangesArePast'
  BY <1>1, <1>2, <1>3, <1>n DEF ChangesArePast
<1>8. RefusedRecently'
  BY <1>1, <1>2, <1>3, <1>6 DEF RefusedRecently
<1>9. OneIsOpen'
  <2> SUFFICES ASSUME NEW h \in Open \cup {g}, NEW k \in Open \cup {g}, SameCustomer(h, k)'
               PROVE  h = k
    BY <1>2 DEF OneIsOpen
  <2>1. CASE h = g \/ k = g
    BY <1>2, <1>4, <2>1
  <2>2. CASE h \in Open /\ k \in Open
    BY <1>2, <1>5, <2>2 DEF OneIsOpen
  <2> QED
    BY <2>1, <2>2
<1>10. \A h \in Rows : /\ SameCustomer(h, g)' \/ SameCustomer(g, h)'
                       /\ hail'[h].changed >= now
                       => hail'[h].session = hail'[g].session
  BY <1>1, <1>3, <1>4
<1>11. TimesTellSessions'
  <2> SUFFICES ASSUME NEW h \in Rows \cup {g}, NEW k \in Rows \cup {g}, SameCustomer(h, k)',
                      hail'[h].changed = hail'[k].changed
               PROVE  hail'[h].session = hail'[k].session
    BY <1>2 DEF TimesTellSessions
  <2>1. CASE h = g \/ k = g
    BY <1>1, <1>10, <1>n, <2>1
  <2>2. CASE h \in Rows /\ k \in Rows
    BY <1>3, <1>5, <2>2 DEF TimesTellSessions
  <2> QED
    BY <2>1, <2>2
<1>12. OpenIsLatest'
  <2> SUFFICES ASSUME NEW h \in Open \cup {g}, NEW k \in Rows \cup {g}, SameCustomer(h, k)',
                      hail'[k].changed >= hail'[h].changed
               PROVE  hail'[h].session = hail'[k].session
    BY <1>2 DEF OpenIsLatest
  <2>1. CASE h = g
    BY <1>1, <1>10, <2>1
  <2>2. CASE h \in Open /\ k = g
    BY <1>2, <1>4, <2>2
  <2>3. CASE h \in Open /\ k \in Rows
    BY <1>2, <1>3, <1>5, <2>3 DEF OpenIsLatest
  <2> QED
    BY <2>1, <2>2, <2>3
<1>13. RefusalIsJoined'
  <2> SUFFICES ASSUME NEW h \in Hail, NEW k \in Rows \cup {g}, refused'[h] # None,
                      SameCustomer(h, k)',
                      k \in Open \cup {g} \/ hail'[k].changed >= refused'[h]
               PROVE  hail'[h].session = hail'[k].session
    BY <1>2 DEF RefusalIsJoined
  <2>1. h \in Rows /\ refused[h] # None /\ refused'[h] = refused[h]
    BY <1>6
  <2>2. CASE k = g
    BY <1>1, <1>3, <1>4, <2>1, <2>2
  <2>3. CASE k \in Rows
    BY <1>3, <1>5, <2>1, <2>3 DEF RefusalIsJoined
  <2> QED
    BY <2>2, <2>3
<1>14. PostsJoin'
  <2> SUFFICES ASSUME NEW r \in Request, post'[r] # None
               PROVE  /\ post'[r].at = now
                      /\ \A k \in Rows' :
                          hail'[k].moteur = post'[r].moteur /\ hail'[k].name = post'[r].name =>
                            /\ k \notin Open'
                            /\ hail'[k].changed >= now \/ refused'[k] # None
                                  => hail'[k].session = post'[r].session
                      /\ \A q \in Request : post'[q] # None /\ q # r =>
                              post'[q].moteur # post'[r].moteur
                                \/ post'[q].name # post'[r].name
    BY DEF PostsJoin, OfCustomer
  <2>1. post'[r] = post[r] /\ post[r] # None
    OBVIOUS
  <2>2. ASSUME NEW k \in Rows', hail'[k].moteur = post[r].moteur,
               hail'[k].name = post[r].name
        PROVE  k \in OfCustomer(post[r].moteur, post[r].name)
    BY <1>1, <1>2, <1>3, <2>1, <2>2 DEF OfCustomer
  <2>3. \A k \in OfCustomer(post[r].moteur, post[r].name) :
            /\ k \in Rows /\ k # g /\ hail'[k] = hail[k]
            /\ refused'[k] # None => refused[k] # None
    BY <1>3, <1>6 DEF OfCustomer, Rows
  <2>4. \A q \in Request : post'[q] # None => post'[q] = post[q] /\ post[q] # None
    OBVIOUS
  <2> QED
    BY <1>2, <2>1, <2>2, <2>3, <2>4 DEF PostsJoin
<1> QED
  BY <1>7, <1>8, <1>9, <1>11, <1>12, <1>13, <1>14

\* Time passes when no request is under way, and while no refusal is too old.
LEMMA TimePasses == CustomerInv /\ Tick => Joined'
<1> SUFFICES ASSUME CustomerInv, Tick PROVE Joined'
  OBVIOUS
<1> USE DEF CustomerInv, Joined
<1>n. /\ now \in Int /\ MaxLag \in Int /\ \A h \in Rows : hail[h].changed \in Int
      /\ \A h \in Hail : refused[h] # None => refused[h] \in Int
  BY Numbers DEF TypeInv
<1>1. /\ now' = now + 1 /\ UNCHANGED <<hail, refused, post>>
      /\ \A r \in Request : post[r] = None
      /\ \A h \in Hail : refused[h] # None => now - refused[h] < MaxLag
  BY DEF Tick
<1>2. Rows' = Rows /\ Open' = Open
  BY <1>1 DEF Rows, Open
<1>3. (OneIsOpen /\ TimesTellSessions /\ OpenIsLatest /\ RefusalIsJoined)'
  BY <1>1, <1>2 DEF OneIsOpen, TimesTellSessions, OpenIsLatest, RefusalIsJoined, SameCustomer
<1>4. ChangesArePast' /\ RefusedRecently'
  BY <1>1, <1>2, <1>n DEF ChangesArePast, RefusedRecently
<1>5. PostsJoin'
  BY <1>1 DEF PostsJoin
<1> QED
  BY <1>3, <1>4, <1>5

\* POST /hails finds the session of what the customer did last, and a company
\* names another one only when nothing of it is left to be done.
LEMMA PostJoins ==
    ASSUME CustomerInv, OneAtATime, ~LeavesSessions, MaxLag <= SESSION_AGE,
           NEW r \in Request, NEW m \in Moteur, NEW n \in Name, NEW id \in FakeId,
           PostBegins(r, m, n, id)
    PROVE  Joined'
<1> USE DEF CustomerInv, Joined
<1>o. TypeOK
  BY DEF TypeInv
<1>n. /\ now \in Int /\ MaxLag \in Int /\ SESSION_AGE \in Nat
      /\ \A h \in Rows : hail[h].changed \in Int /\ hail[h].session # None
      /\ \A h \in Hail : refused[h] # None => refused[h] \in Int
  BY <1>o, Numbers
<1>1. PICK s \in Sessions(m, n) :
          post' = [post EXCEPT ![r] = [moteur |-> m, name |-> n, session |-> s,
                                       taxi |-> id[2], at |-> now]]
  BY DEF PostBegins
<1>2. /\ UNCHANGED <<now, hail, refused>> /\ OfCustomer(m, n) \cap Open = {}
      /\ \A q \in Request : post[q] # None => post[q].moteur # m \/ post[q].name # n
  BY DEF PostBegins
<1>3. Rows' = Rows /\ Open' = Open
      /\ \A k, l : OfCustomer(k, l)' = OfCustomer(k, l)
  BY <1>2 DEF Rows, Open, OfCustomer
<1>4. ASSUME NEW k \in OfCustomer(m, n), hail[k].changed >= now \/ refused[k] # None
      PROVE  hail[k].session = s
  <2> DEFINE recent == {h \in OfCustomer(m, n) : hail[h].changed >= now - SESSION_AGE}
  <2>0. k \in Rows /\ \A h \in OfCustomer(m, n) : h \in Rows /\ SameCustomer(k, h)
                                                  /\ SameCustomer(h, k)
    BY DEF OfCustomer, SameCustomer
  <2>1. k \in recent
    <3>1. refused[k] # None => hail[k].changed = refused[k] /\ now - refused[k] <= MaxLag
      BY <2>0 DEF RefusedRecently, Rows
    <3>2. hail[k].changed >= now - SESSION_AGE
      BY <1>n, <1>4, <2>0, <3>1 DEF Rows
    <3> QED
      BY <3>2
  <2>2. CASE s \in Named(m, n)
    <3>1. hail[k].changed >= now => hail[k].changed = now
      BY <1>n, <2>0 DEF ChangesArePast
    <3> QED
      BY <1>4, <2>2, <3>1 DEF Named
  <2>3. CASE s \in ExistingSession(m, n)
    <3>1. ExistingSession(m, n) = {hail[h].session : h \in Latest(recent)}
      BY <2>1 DEF ExistingSession
    <3>2. PICK h \in Latest(recent) : s = hail[h].session
      BY <2>3, <3>1
    <3>3. h \in Rows /\ SameCustomer(k, h) /\ SameCustomer(h, k)
          /\ hail[k].changed <= hail[h].changed
      BY <2>0, <2>1, <3>2 DEF Latest
    <3>4. CASE hail[k].changed >= now
      <4>1. hail[h].changed = hail[k].changed
        BY <1>n, <2>0, <3>3, <3>4 DEF ChangesArePast
      <4> QED
        BY <2>0, <3>2, <3>3, <4>1 DEF TimesTellSessions
    <3>5. CASE refused[k] # None
      <4>1. hail[h].changed >= refused[k] /\ k \in Hail
        BY <1>n, <2>0, <3>3, <3>5 DEF RefusedRecently, Rows
      <4> QED
        BY <3>2, <3>3, <3>5, <4>1 DEF RefusalIsJoined
    <3> QED
      BY <1>4, <3>4, <3>5
  <2> QED
    BY <2>2, <2>3 DEF Sessions
<1>5. (ChangesArePast /\ OneIsOpen /\ TimesTellSessions /\ OpenIsLatest
        /\ RefusedRecently /\ RefusalIsJoined)'
  BY <1>2, <1>3 DEF ChangesArePast, OneIsOpen, TimesTellSessions, OpenIsLatest, SameCustomer,
                    RefusedRecently, RefusalIsJoined
<1>6. PostsJoin'
  <2>1. /\ post'[r].moteur = m /\ post'[r].name = n /\ post'[r].at = now
        /\ post'[r].session = s
        /\ \A q \in Request : q # r => post'[q] = post[q]
    BY <1>o, <1>1 DEF TypeOK
  <2> SUFFICES ASSUME NEW p \in Request, post'[p] # None
               PROVE  /\ post'[p].at = now
                      /\ \A k \in OfCustomer(post'[p].moteur, post'[p].name) :
                          /\ k \notin Open
                          /\ hail[k].changed >= now \/ refused[k] # None
                                => hail[k].session = post'[p].session
                      /\ \A q \in Request : post'[q] # None /\ q # p =>
                              post'[q].moteur # post'[p].moteur
                                \/ post'[q].name # post'[p].name
    BY <1>2, <1>3 DEF PostsJoin
  <2>2. CASE p = r
    BY <1>2, <1>4, <2>1, <2>2
  <2>3. CASE p # r
    <3>1. post'[p] = post[p]
      BY <2>1, <2>3
    <3>2. \A q \in Request : post'[q] # None /\ q # p =>
              post'[q].moteur # post[p].moteur \/ post'[q].name # post[p].name
      <4> SUFFICES ASSUME NEW q \in Request, post'[q] # None, q # p
                   PROVE  post'[q].moteur # post[p].moteur \/ post'[q].name # post[p].name
        OBVIOUS
      <4>1. CASE q = r
        BY <1>2, <2>1, <3>1, <4>1
      <4>2. CASE q # r
        BY <2>1, <3>1, <4>2 DEF PostsJoin
      <4> QED
        BY <4>1, <4>2
    <3> QED
      BY <3>1, <3>2 DEF PostsJoin
  <2> QED
    BY <2>2, <2>3
<1> QED
  BY <1>5, <1>6

\* Of a customer's hails only the open one changes.
LEMMA HailChanges ==
    ASSUME CustomerInv, NEW h \in Hail, NEW state \in {"open", "refused", "closed"},
           Changes(h, state), 0 <= MaxLag
    PROVE  Joined'
<1> USE DEF CustomerInv, Joined
<1>o. TypeOK
  BY DEF TypeInv
<1>n. /\ now \in Int /\ MaxLag \in Int
      /\ \A k \in Rows : hail[k].changed \in Int
      /\ \A k \in Hail : refused[k] # None => refused[k] \in Int
  BY <1>o, Numbers
<1>1. h \in Open /\ h \in Rows /\ hail[h] \in Row /\ UNCHANGED <<now, post>>
  BY <1>o, RowsHaveTypes DEF Changes
<1>2. /\ hail'[h] = [hail[h] EXCEPT !.state = state, !.changed = now]
      /\ \A k \in Hail : k # h => hail'[k] = hail[k]
  BY <1>o DEF Changes, TypeOK
<1>3. /\ hail'[h].moteur = hail[h].moteur /\ hail'[h].name = hail[h].name
      /\ hail'[h].session = hail[h].session /\ hail'[h].state = state
      /\ hail'[h].changed = now
  BY <1>1, <1>2 DEF Row
<1>4. hail'[h] \in Row /\ hail'[h] # None
  <2>1. hail'[h] \in Row
    BY <1>o, <1>1, <1>2 DEF Row, TypeOK
  <2> QED
    BY <2>1, NoneIsNoRecord
<1>5. Rows' = Rows
  BY <1>1, <1>2, <1>4 DEF Rows
<1>6. Open' \subseteq Open /\ Open \subseteq Rows /\ (state # "open" => h \notin Open')
  BY <1>1, <1>2, <1>3, <1>5 DEF Open, Rows
<1>7. \A k, l \in Rows : SameCustomer(k, l)' <=> SameCustomer(k, l)
  BY <1>2, <1>3 DEF SameCustomer, Rows
<1>8. \A k \in Rows : hail'[k].session = hail[k].session
                      /\ (k # h => hail'[k].changed = hail[k].changed)
                      /\ (k # h => k \in Hail /\ hail'[k] = hail[k])
  BY <1>2, <1>3 DEF Rows
\* What is as late as this change is of the session.
<1>9. \A k \in Rows : /\ SameCustomer(k, h) \/ SameCustomer(h, k)
                      /\ hail[k].changed >= now
                      => hail[k].session = hail[h].session
  <2> SUFFICES ASSUME NEW k \in Rows, SameCustomer(k, h) \/ SameCustomer(h, k),
                      hail[k].changed >= now
               PROVE  hail[k].session = hail[h].session
    OBVIOUS
  <2>1. hail[h].changed <= now /\ SameCustomer(h, k)
    BY <1>1 DEF ChangesArePast, SameCustomer
  <2>2. hail[k].changed >= hail[h].changed
    BY <1>1, <1>n, <2>1
  <2> QED
    BY <1>1, <2>1, <2>2 DEF OpenIsLatest
<1>10. refused[h] = None
  BY <1>1 DEF RefusedRecently, Open
<1>11. /\ \A k \in Hail : k # h => refused'[k] = refused[k]
       /\ refused'[h] # None => refused'[h] = now /\ state = "refused"
  BY <1>o, <1>10 DEF Changes, TypeOK
<1>12. ChangesArePast'
  BY <1>1, <1>3, <1>5, <1>8, <1>n DEF ChangesArePast
<1>13. RefusedRecently'
  <2> SUFFICES ASSUME NEW k \in Hail, refused'[k] # None
               PROVE  /\ k \in Rows /\ hail'[k].state = "refused"
                      /\ hail'[k].changed = refused'[k] /\ now - refused'[k] <= MaxLag
    BY <1>1, <1>5 DEF RefusedRecently
  <2>1. CASE k = h
    BY <1>1, <1>3, <1>11, <1>n, <2>1
  <2>2. CASE k # h
    BY <1>2, <1>11, <2>2 DEF RefusedRecently
  <2> QED
    BY <2>1, <2>2
<1>14. OneIsOpen'
  BY <1>6, <1>7 DEF OneIsOpen
<1>15. TimesTellSessions'
  <2> SUFFICES ASSUME NEW k \in Rows, NEW l \in Rows, SameCustomer(k, l),
                      hail'[k].changed = hail'[l].changed
               PROVE  hail[k].session = hail[l].session
    BY <1>5, <1>7, <1>8 DEF TimesTellSessions
  <2>1. CASE k = h /\ l # h
    BY <1>3, <1>8, <1>9, <1>n, <2>1
  <2>2. CASE l = h /\ k # h
    BY <1>3, <1>8, <1>9, <1>n, <2>2
  <2>3. CASE k # h /\ l # h
    BY <1>8, <2>3 DEF TimesTellSessions
  <2> QED
    BY <2>1, <2>2, <2>3
<1>16. OpenIsLatest'
  <2> SUFFICES ASSUME NEW k \in Open, NEW l \in Rows, SameCustomer(k, l),
                      hail'[l].changed >= hail'[k].changed
               PROVE  hail[k].session = hail[l].session
    BY <1>5, <1>6, <1>7, <1>8 DEF OpenIsLatest
  <2>1. CASE k = h /\ l # h
    BY <1>3, <1>8, <1>9, <2>1
  <2>2. CASE l = h
    BY <1>1, <2>2 DEF OneIsOpen
  <2>3. CASE k # h /\ l # h
    BY <1>6, <1>8, <2>3 DEF OpenIsLatest
  <2> QED
    BY <2>1, <2>2, <2>3
<1>17. RefusalIsJoined'
  <2> SUFFICES ASSUME NEW k \in Hail, NEW l \in Rows, refused'[k] # None, SameCustomer(k, l)',
                      l \in Open' \/ hail'[l].changed >= refused'[k]
               PROVE  hail'[k].session = hail'[l].session
    BY <1>5 DEF RefusalIsJoined
  <2>0. k \in Rows /\ SameCustomer(k, l)
    BY <1>7, <1>5, <1>13 DEF RefusedRecently
  <2>1. CASE k = h
    <3>1. refused'[h] = now /\ h \notin Open'
      BY <1>6, <1>11, <2>1
    <3>2. CASE l = h
      BY <2>1, <3>2
    <3>3. CASE l # h /\ l \in Open'
      BY <1>1, <1>6, <2>0, <2>1, <3>3 DEF OneIsOpen
    <3>4. CASE l # h /\ hail'[l].changed >= now
      BY <1>8, <1>9, <2>0, <2>1, <3>4
    <3> QED
      BY <2>1, <3>1, <3>2, <3>3, <3>4
  <2>2. CASE k # h /\ l = h
    BY <1>1, <1>8, <1>11, <2>0, <2>2 DEF RefusalIsJoined
  <2>3. CASE k # h /\ l # h
    BY <1>6, <1>8, <1>11, <2>0, <2>3 DEF RefusalIsJoined
  <2> QED
    BY <2>1, <2>2, <2>3
<1>18. PostsJoin'
  <2> SUFFICES ASSUME NEW r \in Request, post[r] # None
               PROVE  /\ post[r].at = now
                      /\ \A k \in OfCustomer(post[r].moteur, post[r].name)' :
                          /\ k \notin Open'
                          /\ hail'[k].changed >= now \/ refused'[k] # None
                                => hail'[k].session = post[r].session
                      /\ \A q \in Request : post[q] # None /\ q # r =>
                              post[q].moteur # post[r].moteur \/ post[q].name # post[r].name
    BY <1>1 DEF PostsJoin, OfCustomer
  <2>1. OfCustomer(post[r].moteur, post[r].name)' = OfCustomer(post[r].moteur, post[r].name)
    BY <1>1, <1>3, <1>5, <1>8 DEF OfCustomer
  <2>2. h \notin OfCustomer(post[r].moteur, post[r].name)
    BY <1>1 DEF PostsJoin
  <2>3. \A k \in OfCustomer(post[r].moteur, post[r].name) :
            k # h /\ hail'[k] = hail[k] /\ refused'[k] = refused[k]
    BY <1>8, <1>11, <2>2 DEF OfCustomer
  <2> QED
    BY <1>6, <2>1, <2>3 DEF PostsJoin
<1> QED
  BY <1>12, <1>13, <1>14, <1>15, <1>16, <1>17, <1>18

\* A redistribution finds the customer's open hail in the session, if he has one.
LEMMA SessionShowsOpenHails ==
    ASSUME CustomerInv, NEW h \in Hail, refused[h] # None, SessionAllows(h)
    PROVE  /\ h \in Rows
           /\ \A k \in OfCustomer(hail[h].moteur, hail[h].name) :
                /\ k \notin Open
                /\ hail[k].changed >= now \/ refused[k] # None
                        => hail[k].session = hail[h].session
<1> USE DEF CustomerInv, Joined
<1>n. /\ now \in Int /\ \A k \in Rows : hail[k].changed \in Int
      /\ \A k \in Hail : refused[k] # None => refused[k] \in Int
  BY Numbers DEF TypeInv
<1>1. h \in Rows /\ hail[h].changed = refused[h] /\ hail[h].changed <= now
  BY DEF RefusedRecently, ChangesArePast
<1> SUFFICES ASSUME NEW k \in OfCustomer(hail[h].moteur, hail[h].name)
             PROVE  /\ k \notin Open
                    /\ hail[k].changed >= now \/ refused[k] # None
                            => hail[k].session = hail[h].session
  BY <1>1
<1>2. k \in Rows /\ k \in Hail /\ SameCustomer(h, k) /\ SameCustomer(k, h)
  BY DEF OfCustomer, SameCustomer, Rows
<1>3. k \notin Open
  <2> SUFFICES ASSUME k \in Open PROVE FALSE
    OBVIOUS
  <2>1. hail[k].session = hail[h].session
    BY <1>2 DEF RefusalIsJoined
  <2> QED
    BY <2>1 DEF SessionAllows, SessionHails
<1>4. CASE hail[k].changed >= refused[h]
  BY <1>2, <1>3, <1>4 DEF RefusalIsJoined
<1>5. CASE refused[k] # None /\ hail[k].changed < refused[h]
  <2>1. hail[h].changed >= refused[k]
    BY <1>1, <1>2, <1>5, <1>n DEF RefusedRecently
  <2> QED
    BY <1>1, <1>2, <1>3, <1>5, <2>1 DEF RefusalIsJoined
<1> QED
  BY <1>1, <1>2, <1>3, <1>4, <1>5, <1>n

LEMMA CustomerInvNext ==
    ASSUME OneAtATime, ~Overlaps, ~LeavesSessions, MaxLag <= SESSION_AGE
    PROVE  CustomerInv /\ [Next]_vars => CustomerInv'
<1> SUFFICES ASSUME CustomerInv, [Next]_vars PROVE Joined'
  BY TypeNext DEF CustomerInv
<1>o. TypeOK
  BY DEF CustomerInv, TypeInv
<1>1. CASE Tick
  BY <1>1, TimePasses
<1>2. CASE UNCHANGED <<now, hail, refused, post>>
  BY <1>2, NothingHappens
<1>3. ASSUME NEW s \in Search, NEW m \in Moteur, NEW T \in (SUBSET Taxi) \ {{}},
             SearchStores(s, m, T)
      PROVE  Joined'
  BY <1>2, <1>3 DEF SearchStores
<1>4. ASSUME NEW s \in Search, SearchAnswers(s) \/ SearchFails(s) PROVE Joined'
  BY <1>2, <1>4 DEF SearchAnswers, SearchFails
<1>5. ASSUME NEW r \in Request, NEW m \in Moteur, NEW n \in Name, NEW id \in FakeId,
             PostBegins(r, m, n, id)
      PROVE  Joined'
  BY <1>5, PostJoins
<1>6. ASSUME NEW r \in Request, PostFails(r) PROVE Joined'
  <2>1. /\ UNCHANGED <<now, hail, refused>>
        /\ \A q \in Request : post'[q] \in {post[q], None}
    BY <1>o, <1>6 DEF PostFails, TypeOK
  <2> QED
    BY <2>1, NothingHappens
<1>7. ASSUME NEW r \in Request, NEW h \in Hail, PostCommits(r, h) PROVE Joined'
  <2>1. post[r] # None /\ post[r] \in Post
    BY <1>o, <1>7 DEF PostCommits, TypeOK
  <2> DEFINE row ==
        [moteur |-> post[r].moteur, name |-> post[r].name,
         session |-> IF post[r].session = None THEN h ELSE post[r].session,
         taxi |-> post[r].taxi, state |-> "open",
         changed |-> post[r].at, source |-> "added_by"]
  <2>2. /\ hail' = [hail EXCEPT ![h] = row] /\ h \notin Rows
        /\ UNCHANGED <<now, refused>>
    BY <1>7 DEF PostCommits, IsNext
  <2>3. row \in Row
    BY <2>1 DEF Row, Post
  <2>4. /\ row.moteur = post[r].moteur /\ row.name = post[r].name
        /\ row.state = "open" /\ row.changed = now
        /\ post[r].session # None => row.session = post[r].session
    BY <2>1 DEF CustomerInv, Joined, PostsJoin
  <2> HIDE DEF row
  <2>5. \A k \in OfCustomer(row.moteur, row.name) :
            /\ k \notin Open
            /\ hail[k].changed >= now \/ refused[k] # None
                    => hail[k].session = row.session
    <3>1. \A k \in OfCustomer(row.moteur, row.name) :
            /\ k \notin Open
            /\ hail[k].changed >= now \/ refused[k] # None
                    => hail[k].session = post[r].session
      BY <2>1, <2>4 DEF CustomerInv, Joined, PostsJoin
    <3>2. \A k \in OfCustomer(row.moteur, row.name) : hail[k].session # None
      BY <1>o, Numbers DEF OfCustomer
    <3> QED
      BY <2>4, <3>1, <3>2
  <2>6. \A q \in Request : post'[q] # None =>
            /\ post'[q] = post[q]
            /\ post[q].moteur # row.moteur \/ post[q].name # row.name
    <3> SUFFICES ASSUME NEW q \in Request, post'[q] # None
                 PROVE  /\ post'[q] = post[q]
                        /\ post[q].moteur # row.moteur \/ post[q].name # row.name
      OBVIOUS
    <3>1. q # r /\ post'[q] = post[q]
      BY <1>o, <1>7 DEF PostCommits, TypeOK
    <3> QED
      BY <2>1, <2>4, <3>1 DEF CustomerInv, Joined, PostsJoin
  <2> QED
    BY <2>2, <2>3, <2>4, <2>5, <2>6, CustomerGetsHail
<1>8. ASSUME NEW h \in Hail, NEW state \in {"open", "refused", "closed"},
             Changes(h, state)
      PROVE  Joined'
  BY <1>8, HailChanges
<1>9. ASSUME NEW h \in Hail, RedistributesNot(h) PROVE Joined'
  <2>1. /\ UNCHANGED <<now, hail, post>>
        /\ \A k \in Hail : refused'[k] \in {refused[k], None}
    BY <1>o, <1>9 DEF RedistributesNot, Redistributed, TypeOK
  <2> QED
    BY <2>1, NothingHappens
<1>10. ASSUME NEW h \in Hail, NEW g \in Hail, NEW t \in Taxi, Redistributes(h, g, t)
       PROVE  Joined'
  <2>1. /\ refused[h] # None /\ SessionAllows(h)
        /\ UNCHANGED <<now, post>>
        /\ \A k \in Hail : refused'[k] \in {refused[k], None}
    BY <1>o, <1>10 DEF Redistributes, Redistributed, TypeOK
  <2>2. h \in Rows /\ hail[h] \in Row
    BY <1>o, <2>1, SessionShowsOpenHails, RowsHaveTypes
  <2> DEFINE row == [hail[h] EXCEPT !.taxi = t, !.state = "open",
                                    !.changed = now, !.source = "reassignment"]
  <2>3. hail' = [hail EXCEPT ![g] = row] /\ g \notin Rows
    BY <1>10 DEF Redistributes, IsNext
  <2>4. row \in Row
    BY <1>o, <2>2 DEF Row, TypeOK
  <2>5. /\ row.session = hail[h].session /\ row.moteur = hail[h].moteur
        /\ row.name = hail[h].name /\ row.state = "open" /\ row.changed = now
    BY <2>2 DEF Row
  <2> HIDE DEF row
  <2>6. \A q \in Request : post'[q] # None =>
            /\ post'[q] = post[q]
            /\ post[q].moteur # row.moteur \/ post[q].name # row.name
    BY <1>10, <2>1, <2>5 DEF Redistributes, Redistributed
  <2> QED
    BY <2>1, <2>3, <2>4, <2>5, <2>6, SessionShowsOpenHails, CustomerGetsHail
<1>11. CASE UNCHANGED vars
  BY <1>2, <1>11 DEF vars
<1> QED
  BY <1>1, <1>3, <1>4, <1>5, <1>6, <1>7, <1>8, <1>9, <1>10, <1>11 DEF Next

\* A customer who hails again after a refusal, one hail at a time, does not get a
\* second taxi from the redistribution of the hail that was refused: POST /hails
\* finds a refusal that waits for it, and joins its session, where redistribution
\* finds his new hail. That needs redistribution to lag no more than the age
\* POST /hails looks back to, not to run in the midst of his request, and the
\* company not to name an older session before it has run.
THEOREM OneTaxiAtATime ==
    ASSUME OneAtATime, ~Overlaps, ~LeavesSessions, MaxLag <= SESSION_AGE
    PROVE  Spec => NoSecondTaxi
<1>1. Init => CustomerInv
  <2> SUFFICES ASSUME Init PROVE Joined
    BY TypeInit DEF CustomerInv
  <2>1. Rows = {} /\ Open = {}
    BY DEF Init, Rows, Open
  <2>2. (\A h \in Hail : refused[h] = None) /\ (\A r \in Request : post[r] = None)
    BY DEF Init
  <2> QED
    BY <2>1, <2>2 DEF Joined, ChangesArePast, RefusedRecently, OneIsOpen,
                      TimesTellSessions, OpenIsLatest, RefusalIsJoined, PostsJoin
<1>2. ASSUME CustomerInv, [Next]_vars,
             NEW g \in Hail, g \notin Rows, hail'[g] # None, hail'[g].source = "reassignment"
      PROVE  OfCustomer(hail'[g].moteur, hail'[g].name) \cap Open = {}
  <2>o. TypeOK /\ hail[g] = None
    BY <1>2 DEF CustomerInv, TypeInv, Rows
  <2>1. PICK h, k \in Hail, t \in Taxi : Redistributes(h, k, t)
    <3>1. ASSUME UNCHANGED hail PROVE FALSE
      BY <1>2, <2>o, <3>1
    <3>2. ASSUME NEW r \in Request, NEW h \in Hail, PostCommits(r, h) PROVE FALSE
      <4>1. hail'[g].source = "added_by"
        BY <1>2, <2>o, <3>2 DEF PostCommits, TypeOK
      <4> QED
        BY <1>2, <4>1
    <3>3. ASSUME NEW h \in Hail, NEW state \in {"open", "refused", "closed"},
                 Changes(h, state)
          PROVE  FALSE
      <4>1. hail'[g] = hail[g]
        BY <1>2, <2>o, <3>3 DEF Changes, Open, TypeOK
      <4> QED
        BY <1>2, <2>o, <4>1
    <3> QED
      BY <1>2, <3>1, <3>2, <3>3
         DEF Next, Tick, SearchStores, SearchAnswers, SearchFails, PostBegins, PostFails,
             RedistributesNot, vars
  <2>2. refused[h] # None /\ SessionAllows(h)
    BY <2>1 DEF Redistributes, Redistributed
  <2>3. k = g /\ h # g
    BY <1>2, <2>o, <2>1, <2>2, SessionShowsOpenHails DEF Redistributes, TypeOK
  <2>4. hail[h] \in Row
    BY <2>o, <2>2, RowsHaveTypes, SessionShowsOpenHails, <1>2
  <2>5. hail'[g].moteur = hail[h].moteur /\ hail'[g].name = hail[h].name
    BY <2>o, <2>1, <2>3, <2>4 DEF Redistributes, TypeOK, Row
  <2> QED
    BY <1>2, <2>2, <2>5, SessionShowsOpenHails
<1>3. CustomerInv /\ [Next]_vars =>
        [\A h \in Hail : h \notin Rows /\ hail'[h] # None /\ hail'[h].source = "reassignment"
            => OfCustomer(hail'[h].moteur, hail'[h].name) \cap Open = {}]_vars
  BY <1>2
<1> QED
  BY <1>1, <1>3, CustomerInvNext, PTL DEF Spec, NoSecondTaxi
===============================================================================
