--------------------------- MODULE RetentionProofs ----------------------------
(***************************************************************************)
(* Theorems about Retention, for any number of hails, taxis, reports and   *)
(* losses, and for any number of compute_stats_hails at once.              *)
(***************************************************************************)
EXTENDS Retention, TLAPS

USE RetentionAssumption

\* No town's shape overlaps another's where a customer stands.
TownsApart == InTwoTowns = {}

\* A vehicle is described by one operator.
OneOperatorEach == \A d, e \in Declared : d[1] = e[1] => d = e

-------------------------------------------------------------------------------
(* The invariants *)

WasCounted(h) == WasAdded(h) /\ Older(hail[h].at, COUNT_AFTER)

\* What a request adds is not older than requests last.
RequestsAreShort ==
    \A h \in Hail : hail[h] # None /\ hail[h].state = "adding"
                    => hail[h].at >= now - MaxDelay

\* Only hails old enough for every older one to be there are counted.
CountsAreOld ==
    /\ \A h \in stats : WasCounted(h)
    /\ \A c \in Counter : counting[c] # None => \A h \in counting[c] : WasCounted(h)

\* A counter has read all that is not counted; what it can no longer insert was
\* counted by another.
CountersMissNone ==
    \A c \in Counter : counting[c] # None =>
        /\ \A h \in Hail : WasCounted(h) => h \in stats \cup counting[c]
        /\ counting[c] \cap stats # {} => \A h \in Hail : WasCounted(h) => h \in stats

\* The count is behind by no more than the days the task is.
CountKeepsUp ==
    \A h \in Hail : WasAdded(h) /\ h \notin stats
                    => hail[h].at >= now - COUNT_AFTER - behind["compute_stats_hails"]

\* So is the blurring of hails.
HailBlurKeepsUp ==
    \A h \in Hail : IsThere(h) /\ ~hail[h].blurred
                    => hail[h].at >= now - BLUR_AFTER - behind["blur_hails"]

\* No hail is blurred before its request commits.
NewHailsAreExact ==
    \A h \in Hail : hail[h] # None /\ hail[h].state = "adding" => ~hail[h].blurred

\* What is marked as blurred keeps only what lies in no town.
BlurredIsForgotten ==
    \A h \in Hail : IsThere(h) /\ hail[h].blurred => hail[h].exact \subseteq Kept(h)

\* And that of positions, but for those blur_geotaxi is about to write.
PositionBlurKeepsUp ==
    \A e \in Declared : hash[e] # None /\ ~hash[e].blurred
        => /\ hash[e].at >= now - BLUR_AFTER - behind["blur_geotaxi"]
           /\ blurring # None /\ Older(hash[e].at, BLUR_AFTER)
              => \E b \in blurring : b[1] = e

\* A position in Redis was reported, and Redis has one of every taxi that
\* reported: that report or an earlier one.
ReportsAreKept ==
    \A e \in Declared :
        /\ hash[e] # None => reported[e] # None /\ hash[e].at <= reported[e]
        /\ reported[e] # None
           => reported[e] <= now /\ (e[1] \in taxis => hash[e] # None)

\* What blur_geotaxi will write is the last report, but for one of today.
ListIsRecent ==
    blurring # None => \A b \in blurring :
        /\ reported[b[1]] # None /\ b[2] <= reported[b[1]]
        /\ \/ reported[b[1]] = now
           \/ hash[b[1]] # None => hash[b[1]].at = b[2]

\* What delete_old_taxis takes for silent, or unknown, reported today at most.
SilenceIsRecent ==
    deleting.step = "delete" => \A e \in Declared : reported[e] # None /\ e[1] \in taxis =>
        /\ e[1] \in deleting.silent
           => reported[e] = now \/ hash[e].at <= now - DELETE_AFTER
        /\ e[1] \notin deleting.known => reported[e] = now

\* What is no longer a taxi may be wiped from Redis.
WipesTheDeleted ==
    deleting.step = "pipeline" => Candidates \cap taxis = {}

SilenceInv ==
    TypeOK /\ ReportsAreKept /\ ListIsRecent /\ SilenceIsRecent /\ WipesTheDeleted

BaseInv == TypeOK /\ RequestsAreShort /\ CountsAreOld

-------------------------------------------------------------------------------
(* Types *)

\* A row is something, and what the tasks write in it leaves it a row.
LEMMA RowsAreRows ==
    ASSUME NEW r \in Row
    PROVE  /\ r # None
           /\ [r EXCEPT !.state = "there"] \in Row
           /\ [r EXCEPT !.state = "deleted"] \in Row
           /\ \A S \in SUBSET Detail : [r EXCEPT !.blurred = TRUE, !.exact = S] \in Row
BY DEF Row

\* What a step may do to one row of hail: a request adds it within MaxDelay; a
\* task changes the state of one that was added, and leaves its date.
RowGoesOn(h) ==
    \/ hail'[h] = hail[h]
    \/ /\ hail[h] = None /\ hail'[h] # None /\ hail'[h].state = "adding"
       /\ hail'[h].at = now /\ ~hail'[h].blurred
    \/ /\ hail[h] # None /\ hail[h].state = "adding"
       /\ \/ hail'[h] = None
          \/ /\ hail'[h] # None /\ hail'[h].state = "there"
             /\ hail'[h].at = hail[h].at
             /\ hail'[h].blurred = hail[h].blurred /\ hail'[h].exact = hail[h].exact
    \/ /\ Blurrable(h)
       /\ hail'[h].state = "there" /\ hail'[h].at = hail[h].at
       /\ hail'[h].blurred /\ hail'[h].exact = Kept(h) /\ hail'[h] # None
    \/ /\ Deletable(h)
       /\ hail'[h].state = "deleted" /\ hail'[h].at = hail[h].at /\ hail'[h] # None

\* Every step keeps the rows, and changes none while the clock ticks.
LEMMA HailsGoOn ==
    ASSUME TypeOK, [Next]_vars, NEW h \in Hail
    PROVE  /\ hail' \in [Hail -> Row \cup {None}]
           /\ RowGoesOn(h)
           /\ hail'[h] # hail[h] => now' = now
<1>0. hail \in [Hail -> Row \cup {None}] /\ now \in Time /\ taxis \subseteq Taxi
  BY DEF TypeOK
<1>1. ASSUME NEW g \in Hail, NEW t \in Taxi, HailBegins(g, t)
      PROVE  /\ hail' \in [Hail -> Row \cup {None}] /\ now' = now /\ RowGoesOn(h)
  <2>1. DEFINE r == [at |-> now, taxi |-> t, state |-> "adding", blurred |-> FALSE,
                  exact |-> Detail]
  <2>2. r \in Row
    BY <1>0 DEF Row
  <2>3. hail[g] = None /\ hail' = [hail EXCEPT ![g] = r] /\ now' = now
    BY <1>1 DEF HailBegins
  <2>4. hail' \in [Hail -> Row \cup {None}]
    BY <1>0, <2>2, <2>3
  <2>5. CASE h = g
    <3>1. hail[h] = None /\ hail'[h] = r
      BY <1>0, <2>3, <2>5
    <3>2. r.state = "adding" /\ r.at = now /\ ~r.blurred /\ r # None
      BY <2>2, RowsAreRows
    <3> QED
      BY <2>3, <2>4, <3>1, <3>2 DEF RowGoesOn
  <2>6. CASE h # g
    BY <1>0, <2>3, <2>4, <2>6 DEF RowGoesOn
  <2> QED
    BY <2>5, <2>6
<1>2. ASSUME NEW g \in Hail, HailCommits(g)
      PROVE  /\ hail' \in [Hail -> Row \cup {None}] /\ now' = now /\ RowGoesOn(h)
  <2>1. hail[g] \in Row /\ hail[g] # None /\ hail[g].state = "adding"
    BY <1>0, <1>2 DEF HailCommits
  <2>2. hail' = [hail EXCEPT ![g] = [hail[g] EXCEPT !.state = "there"]] /\ now' = now
    BY <1>2 DEF HailCommits
  <2>3. /\ [hail[g] EXCEPT !.state = "there"] \in Row
        /\ [hail[g] EXCEPT !.state = "there"] # None
        /\ [hail[g] EXCEPT !.state = "there"].state = "there"
        /\ [hail[g] EXCEPT !.state = "there"].at = hail[g].at
        /\ [hail[g] EXCEPT !.state = "there"].blurred = hail[g].blurred
        /\ [hail[g] EXCEPT !.state = "there"].exact = hail[g].exact
    BY <2>1, RowsAreRows DEF Row
  <2> QED
    BY <1>0, <2>1, <2>2, <2>3 DEF RowGoesOn
<1>3. ASSUME NEW g \in Hail, HailFails(g)
      PROVE  /\ hail' \in [Hail -> Row \cup {None}] /\ now' = now /\ RowGoesOn(h)
  <2>1. /\ hail[g] # None /\ hail[g].state = "adding"
        /\ hail' = [hail EXCEPT ![g] = None] /\ now' = now
    BY <1>3 DEF HailFails
  <2>2. hail' \in [Hail -> Row \cup {None}]
    BY <1>0, <2>1
  <2>3. CASE h = g
    <3>1. hail[h] # None /\ hail[h].state = "adding" /\ now' = now
      BY <2>1, <2>3
    <3>2. hail'[h] = None
      BY <1>0, <2>1, <2>3
    <3>3. RowGoesOn(h)
      BY <3>1, <3>2 DEF RowGoesOn
    <3> QED
      BY <2>2, <3>1, <3>3
  <2>4. CASE h # g
    BY <1>0, <2>1, <2>2, <2>4 DEF RowGoesOn
  <2> QED
    BY <2>3, <2>4
<1>4. CASE BlurHails
  <2>1. \A g \in Hail : /\ Blurrable(g) => hail'[g] = [hail[g] EXCEPT !.blurred = TRUE,
                                                                   !.exact = Kept(g)]
                        /\ ~Blurrable(g) => hail'[g] = hail[g]
    BY <1>4 DEF BlurHails
  <2>2. hail' = [g \in Hail |-> hail'[g]] /\ now' = now
    BY <1>4 DEF BlurHails
  <2>3. \A g \in Hail : Blurrable(g) => hail[g] \in Row /\ hail[g].state = "there"
    BY <1>0 DEF Blurrable, IsThere
  <2>4. \A g \in Hail : Blurrable(g)
            => /\ hail'[g] \in Row /\ hail'[g].state = "there"
               /\ hail'[g].at = hail[g].at /\ hail'[g].blurred
               /\ hail'[g].exact = Kept(g)
    <3> SUFFICES ASSUME NEW g \in Hail, Blurrable(g)
                 PROVE  /\ hail'[g] \in Row /\ hail'[g].state = "there"
                        /\ hail'[g].at = hail[g].at /\ hail'[g].blurred
                        /\ hail'[g].exact = Kept(g)
      OBVIOUS
    <3>1. hail[g] \in Row /\ hail[g].state = "there"
      BY <2>3
    <3>2. hail'[g] = [hail[g] EXCEPT !.blurred = TRUE, !.exact = Kept(g)]
      BY <2>1
    <3>3. Kept(g) \subseteq Detail
      BY DEF Kept
    <3> QED
      BY <3>1, <3>2, <3>3 DEF Row
  <2>5. \A g \in Hail : hail'[g] \in Row \cup {None}
    BY <1>0, <2>1, <2>4
  <2>6. hail' \in [Hail -> Row \cup {None}]
    BY <2>2, <2>5
  <2> QED
    BY <2>1, <2>2, <2>4, <2>6 DEF RowGoesOn
<1>5. CASE DeleteOldHails
  <2>1. \A g \in Hail : /\ Deletable(g) => hail'[g] = [hail[g] EXCEPT !.state = "deleted"]
                        /\ ~Deletable(g) => hail'[g] = hail[g]
    BY <1>5 DEF DeleteOldHails
  <2>2. hail' = [g \in Hail |-> hail'[g]] /\ now' = now
    BY <1>5 DEF DeleteOldHails
  <2>3. \A g \in Hail : Deletable(g) => hail[g] \in Row
    BY <1>0 DEF Deletable, IsThere
  <2>4. \A g \in Hail : Deletable(g)
            => hail'[g] \in Row /\ hail'[g].state = "deleted" /\ hail'[g].at = hail[g].at
    <3> SUFFICES ASSUME NEW g \in Hail, Deletable(g)
                 PROVE  /\ hail'[g] \in Row /\ hail'[g].state = "deleted"
                        /\ hail'[g].at = hail[g].at
      OBVIOUS
    <3>1. hail[g] \in Row
      BY <2>3
    <3>2. hail'[g] = [hail[g] EXCEPT !.state = "deleted"]
      BY <2>1
    <3> QED
      BY <3>1, <3>2 DEF Row
  <2>5. \A g \in Hail : hail'[g] \in Row \cup {None}
    BY <1>0, <2>1, <2>4
  <2>6. hail' \in [Hail -> Row \cup {None}]
    BY <2>2, <2>5
  <2> QED
    BY <2>1, <2>2, <2>4, <2>6 DEF RowGoesOn
<1>6. CASE hail' = hail
  BY <1>0, <1>6 DEF RowGoesOn
<1>7. CASE \/ Tick \/ (\E e \in Declared : Report(e))
           \/ \E c \in Counter : CountBegins(c) \/ CountEnds(c) \/ CountIsLost(c)
  BY <1>6, <1>7 DEF Tick, Report, CountBegins, CountEnds, CountIsLost, hails
<1>8. CASE \/ BlurGeotaxiBegins \/ BlurGeotaxiEnds \/ DeleteTaxisBegins
           \/ DeleteTaxisGoesOn \/ DeletingIsLost \/ UNCHANGED vars
  BY <1>6, <1>8 DEF BlurGeotaxiBegins, BlurGeotaxiEnds, DeleteTaxisBegins, DeleteTaxisGoesOn,
     ListRedis, DeleteTaxis, DeleteTaxisRaises, DeleteFromRedis, DeletingIsLost, hails, vars
<1> QED
  BY <1>1, <1>2, <1>3, <1>4, <1>5, <1>7, <1>8 DEF Next

\* A hail that was added stays so, with its date; one that this step adds is
\* not older than requests last.
LEMMA AddedGoesOn ==
    ASSUME TypeOK, RequestsAreShort, [Next]_vars, NEW h \in Hail
    PROVE  /\ WasAdded(h) => WasAdded(h)' /\ hail'[h].at = hail[h].at
           /\ ~WasAdded(h) /\ WasAdded(h)' => hail'[h].at >= now - MaxDelay /\ now' = now
           /\ WasAdded(h)' => hail'[h].at \in Int
<1>0. /\ hail'[h] \in Row \cup {None} /\ hail[h] \in Row \cup {None}
      /\ RowGoesOn(h) /\ (hail'[h] # hail[h] => now' = now)
  BY HailsGoOn DEF TypeOK
<1>1. WasAdded(h)' => hail'[h].at \in Int
  BY <1>0 DEF WasAdded, Row, Time
<1>2. CASE hail'[h] = hail[h]
  BY <1>1, <1>2 DEF WasAdded
<1>3. CASE hail[h] = None /\ hail'[h].state = "adding"
  BY <1>1, <1>3 DEF WasAdded
<1>4. CASE hail[h] # None /\ hail[h].state = "adding" /\ hail'[h] # hail[h]
  <2>1. hail[h].at >= now - MaxDelay
    BY <1>4 DEF RequestsAreShort
  <2>2. WasAdded(h)' => hail'[h].at = hail[h].at
    BY <1>0, <1>4 DEF RowGoesOn, WasAdded, Blurrable, Deletable, IsThere
  <2>3. ~WasAdded(h) /\ now' = now
    BY <1>0, <1>4 DEF WasAdded
  <2> QED
    BY <1>1, <2>1, <2>2, <2>3
<1>5. CASE /\ IsThere(h) /\ hail'[h] # None /\ hail'[h].at = hail[h].at
           /\ hail'[h].state \in {"there", "deleted"}
  BY <1>1, <1>5 DEF IsThere, WasAdded
<1> QED
  BY <1>0, <1>2, <1>3, <1>4, <1>5 DEF RowGoesOn, Blurrable, Deletable

\* Only the clock changes the time.
LEMMA ClockGoesOn == [Next]_vars => Tick \/ now' = now
BY DEF Next, HailBegins, HailCommits, HailFails, Report, CountBegins, CountEnds,
   CountIsLost, BlurHails, DeleteOldHails, BlurGeotaxiBegins, BlurGeotaxiEnds,
   DeleteTaxisBegins, DeleteTaxisGoesOn, ListRedis, DeleteTaxis, DeleteTaxisRaises,
   DeleteFromRedis, DeletingIsLost, vars

\* No request is older than MaxDelay, since the clock waits for it.
LEMMA RequestsStayShort ==
    ASSUME TypeOK, RequestsAreShort, [Next]_vars
    PROVE  RequestsAreShort'
<1> SUFFICES ASSUME NEW h \in Hail, hail'[h] # None, hail'[h].state = "adding"
             PROVE  hail'[h].at >= now' - MaxDelay
  BY DEF RequestsAreShort
<1>0. /\ hail[h] \in Row \cup {None} /\ RowGoesOn(h) /\ (hail'[h] # hail[h] => now' = now)
      /\ now \in Int
  BY HailsGoOn DEF TypeOK, Time
<1>1. CASE hail'[h] # hail[h]
  <2>1. hail'[h].at = now
    BY <1>0, <1>1 DEF RowGoesOn
  <2> QED
    BY <1>0, <1>1, <2>1
<1>2. CASE hail'[h] = hail[h] /\ Tick
  <2>1. now - hail[h].at < MaxDelay /\ now' = now + 1 /\ hail[h].at \in Int
    BY <1>0, <1>2 DEF Tick, Row, Time
  <2> QED
    BY <1>0, <1>2, <2>1
<1>3. CASE hail'[h] = hail[h] /\ now' = now
  BY <1>3 DEF RequestsAreShort
<1>4. Tick \/ now' = now
  BY ClockGoesOn
<1> QED
  BY <1>1, <1>2, <1>3, <1>4

\* What was counted, or is about to be, stays added and gets no younger.
LEMMA CountsStayOld ==
    ASSUME BaseInv, [Next]_vars
    PROVE  CountsAreOld'
<1>0. TypeOK /\ RequestsAreShort /\ CountsAreOld /\ now \in Int /\ stats \subseteq Hail
      /\ \A c \in Counter : counting[c] # None => counting[c] \subseteq Hail
  BY DEF BaseInv, TypeOK, Time
<1>1. now' \in Int /\ now' >= now
  BY <1>0, ClockGoesOn DEF Tick
<1>2. ASSUME NEW h \in Hail, WasCounted(h)
      PROVE  WasCounted(h)'
  <2>1. WasAdded(h)' /\ hail'[h].at = hail[h].at /\ hail'[h].at \in Int
    BY <1>0, <1>2, AddedGoesOn DEF WasCounted
  <2>2. hail[h].at < now - COUNT_AFTER
    BY <1>2 DEF WasCounted, Older
  <2> QED
    BY <1>0, <1>1, <2>1, <2>2 DEF WasCounted, Older
<1>3. CASE UNCHANGED <<stats, counting>>
  BY <1>0, <1>2, <1>3 DEF CountsAreOld
<1>4. ASSUME NEW c \in Counter, CountBegins(c)
      PROVE  CountsAreOld'
  <2>1. \A h \in Hail : Countable(h) => WasCounted(h)
    BY DEF Countable, WasCounted, IsThere, WasAdded
  <2>2. stats' = stats /\ counting' = [counting EXCEPT ![c] = {h \in Hail : Countable(h)}]
    BY <1>4 DEF CountBegins
  <2>3. \A d \in Counter : \A h \in counting'[d] : counting'[d] # None => WasCounted(h) /\ h \in Hail
    BY <1>0, <2>1, <2>2 DEF CountsAreOld, TypeOK
  <2> QED
    BY <1>0, <1>2, <2>2, <2>3 DEF CountsAreOld
<1>5. ASSUME NEW c \in Counter, CountEnds(c) \/ CountIsLost(c)
      PROVE  CountsAreOld'
  <2>1. /\ stats' \subseteq stats \cup (IF counting[c] = None THEN {} ELSE counting[c])
        /\ counting' = [counting EXCEPT ![c] = None]
    BY <1>5 DEF CountEnds, CountIsLost
  <2>2. \A h \in stats' : WasCounted(h) /\ h \in Hail
    BY <1>0, <2>1 DEF CountsAreOld
  <2>3. \A d \in Counter : \A h \in counting'[d] : counting'[d] # None => WasCounted(h) /\ h \in Hail
    BY <1>0, <2>1 DEF CountsAreOld, TypeOK
  <2> QED
    BY <1>2, <2>2, <2>3 DEF CountsAreOld
<1>6. CASE \/ Tick \/ (\E e \in Declared : Report(e)) \/ BlurHails \/ DeleteOldHails
           \/ \E h \in Hail : HailCommits(h) \/ HailFails(h)
           \/ \E h \in Hail, t \in Taxi : HailBegins(h, t)
  BY <1>3, <1>6 DEF Tick, Report, BlurHails, DeleteOldHails, HailCommits, HailFails,
     HailBegins, hails
<1>7. CASE \/ BlurGeotaxiBegins \/ BlurGeotaxiEnds \/ DeleteTaxisBegins
           \/ DeleteTaxisGoesOn \/ DeletingIsLost \/ UNCHANGED vars
  BY <1>3, <1>7 DEF BlurGeotaxiBegins, BlurGeotaxiEnds, DeleteTaxisBegins, DeleteTaxisGoesOn,
     ListRedis, DeleteTaxis, DeleteTaxisRaises, DeleteFromRedis, DeletingIsLost, hails, vars
<1> QED
  BY <1>4, <1>5, <1>6, <1>7 DEF Next

PositionTypes ==
    /\ taxis \subseteq Taxi /\ hash \in [Declared -> Position \cup {None}]
    /\ reported \in [Declared -> Time \cup {None}] /\ reports \in 0..MaxReports
    /\ blurring \in (SUBSET (Declared \X Time)) \cup {None}
    /\ deleting \in Deleting

\* Types hold of what the tasks keep, whatever they do with it.
LEMMA TypesStay ==
    ASSUME BaseInv, [Next]_vars
    PROVE  TypeOK'
<1> USE DEF Time
<1>0. TypeOK /\ RequestsAreShort /\ CountsAreOld
  BY DEF BaseInv
<1>1. hail' \in [Hail -> Row \cup {None}]
  <2>1. CASE Hail = {}
    <3>1. hail' = hail
      BY <1>0, <2>1 DEF TypeOK, Next, Tick, HailBegins, HailCommits, HailFails, Report, CountBegins,
         CountEnds, CountIsLost, BlurHails, DeleteOldHails, BlurGeotaxiBegins, BlurGeotaxiEnds,
         DeleteTaxisBegins, DeleteTaxisGoesOn, ListRedis, DeleteTaxis, DeleteTaxisRaises,
         DeleteFromRedis, DeletingIsLost, vars, hails
    <3> QED
      BY <1>0, <3>1 DEF TypeOK
  <2>2. CASE Hail # {}
    BY <1>0, <2>2, HailsGoOn
  <2> QED
    BY <2>1, <2>2
<1>2. stats' \subseteq {h \in Hail : hail'[h] # None}
  <2>1. \A h \in stats' : WasAdded(h)'
    <3>1. CountsAreOld'
      BY CountsStayOld
    <3> QED
      BY <3>1 DEF CountsAreOld, WasCounted
  <2>2. stats' \subseteq Hail
    <3>1. stats \subseteq Hail /\ counting \in [Counter -> (SUBSET Hail) \cup {None}]
      BY <1>0 DEF TypeOK
    <3>2. stats' = stats \/ \E c \in Counter : counting[c] # None /\ stats' = stats \cup counting[c]
      BY DEF Next, Tick, HailBegins, HailCommits, HailFails, Report, CountBegins,
         CountEnds, CountIsLost, BlurHails, DeleteOldHails, BlurGeotaxiBegins, BlurGeotaxiEnds,
         DeleteTaxisBegins, DeleteTaxisGoesOn, ListRedis, DeleteTaxis, DeleteTaxisRaises,
         DeleteFromRedis, DeletingIsLost, vars, hails
    <3> QED
      BY <3>1, <3>2
  <2> QED
    BY <2>1, <2>2 DEF WasAdded
<1>3. counting' \in [Counter -> (SUBSET Hail) \cup {None}]
  <2>1. counting \in [Counter -> (SUBSET Hail) \cup {None}]
    BY <1>0 DEF TypeOK
  <2>2. \/ counting' = counting
        \/ \E c \in Counter, S \in (SUBSET Hail) \cup {None} :
              counting' = [counting EXCEPT ![c] = S]
    <3>1. ASSUME NEW c \in Counter, CountBegins(c)
          PROVE  \E S \in SUBSET Hail : counting' = [counting EXCEPT ![c] = S]
      BY <3>1 DEF CountBegins
    <3>2. ASSUME NEW c \in Counter, CountEnds(c) \/ CountIsLost(c)
          PROVE  counting' = [counting EXCEPT ![c] = None]
      BY <3>2 DEF CountEnds, CountIsLost
    <3> QED
      BY <3>1, <3>2 DEF Next, Tick, HailBegins, HailCommits, HailFails, Report,
         BlurHails, DeleteOldHails, BlurGeotaxiBegins, BlurGeotaxiEnds,
         DeleteTaxisBegins, DeleteTaxisGoesOn, ListRedis, DeleteTaxis, DeleteTaxisRaises,
         DeleteFromRedis, DeletingIsLost, vars, hails
  <2> QED
    BY <2>1, <2>2
<1>4. now' \in Time /\ losses' \in 0..MaxLosses
  <2>1. now' \in Time
    BY <1>0, ClockGoesOn DEF TypeOK, Tick, Time
  <2>2. losses' = losses \/ (losses < MaxLosses /\ losses' = losses + 1)
    <3>1. CASE DeletingIsLost \/ \E c \in Counter : CountIsLost(c)
      BY <3>1 DEF DeletingIsLost, CountIsLost
    <3>2. CASE \/ Tick \/ (\E e \in Declared : Report(e)) \/ BlurHails \/ DeleteOldHails
               \/ \E h \in Hail : HailCommits(h) \/ HailFails(h)
               \/ \E h \in Hail, t \in Taxi : HailBegins(h, t)
               \/ \E c \in Counter : CountBegins(c) \/ CountEnds(c)
      BY <3>2 DEF Tick, Report, BlurHails, DeleteOldHails, HailCommits, HailFails,
         HailBegins, CountBegins, CountEnds
    <3>3. CASE \/ BlurGeotaxiBegins \/ BlurGeotaxiEnds \/ DeleteTaxisBegins
               \/ DeleteTaxisGoesOn \/ UNCHANGED vars
      BY <3>3 DEF BlurGeotaxiBegins, BlurGeotaxiEnds, DeleteTaxisBegins, DeleteTaxisGoesOn,
         ListRedis, DeleteTaxis, DeleteTaxisRaises, DeleteFromRedis, vars
    <3> QED
      BY <3>1, <3>2, <3>3 DEF Next
  <2> QED
    BY <1>0, <2>1, <2>2 DEF TypeOK
<1>5. behind' \in [Daily -> 0..MaxOutage]
  <2>1. behind \in [Daily -> 0..MaxOutage]
    BY <1>0 DEF TypeOK
  <2>2. \/ behind' = behind
        \/ \E k \in Daily : HasRun(k)
        \/ Tick
    BY DEF Next, HailBegins, HailCommits, HailFails, Report, CountBegins,
       CountEnds, CountIsLost, BlurHails, DeleteOldHails, BlurGeotaxiBegins, BlurGeotaxiEnds,
       DeleteTaxisBegins, DeleteTaxisGoesOn, ListRedis, DeleteTaxis, DeleteTaxisRaises,
       DeleteFromRedis, DeletingIsLost, vars, Daily
  <2>3. CASE \E k \in Daily : HasRun(k)
    BY <2>1, <2>3 DEF HasRun
  <2>4. CASE Tick
    <3>1. \A k \in Daily : behind[k] \in 0..MaxOutage /\ behind[k] < MaxOutage
      BY <2>1, <2>4 DEF Tick
    <3>2. \A k \in Daily : behind[k] + 1 \in 0..MaxOutage
      BY <3>1
    <3> QED
      BY <2>4, <3>2 DEF Tick
  <2> QED
    BY <2>1, <2>2, <2>3, <2>4
<1>6. PositionTypes'
  <2> USE DEF PositionTypes
  <2>0. PositionTypes /\ now \in Time
    BY <1>0 DEF TypeOK
  <2>1. CASE UNCHANGED positions
    BY <2>0, <2>1 DEF positions
  <2>2. ASSUME NEW e \in Declared, Report(e)
        PROVE  PositionTypes'
    <3>1. [at |-> now, blurred |-> FALSE] \in Position
      BY <2>0 DEF Position
    <3>2. reports' \in 0..MaxReports
      BY <2>0, <2>2 DEF Report
    <3> QED
      BY <2>0, <2>2, <3>1, <3>2 DEF Report
  <2>3. CASE BlurGeotaxiBegins
    <3>1. \A e \in Silent(BLUR_AFTER) : e \in Declared /\ hash[e].at \in Time
      BY <2>0 DEF Silent, Position
    <3>2. blurring' \in SUBSET (Declared \X Time)
      BY <2>3, <3>1 DEF BlurGeotaxiBegins
    <3> QED
      BY <2>0, <2>3, <3>2 DEF BlurGeotaxiBegins
  <2>4. CASE BlurGeotaxiEnds
    <3>1. blurring \in SUBSET (Declared \X Time)
      BY <2>0, <2>4 DEF BlurGeotaxiEnds
    <3>2. ASSUME NEW e \in Declared, \E b \in blurring : b[1] = e
          PROVE  Blurred((CHOOSE b \in blurring : b[1] = e)[2]) \in Position
      <4>1. (CHOOSE b \in blurring : b[1] = e) \in Declared \X Time
        BY <3>1, <3>2
      <4> QED
        BY <4>1 DEF Blurred, Position
    <3>3. hash' \in [Declared -> Position \cup {None}]
      BY <2>0, <2>4, <3>2 DEF BlurGeotaxiEnds
    <3> QED
      BY <2>0, <2>4, <3>3 DEF BlurGeotaxiEnds
  <2>5. CASE DeleteTaxisBegins
    <3>1. {t \in taxis : Older(0, DELETE_AFTER) /\ ~IsReferenced(t)} \in SUBSET Taxi
      BY <2>0
    <3>2. deleting' \in Deleting
      BY <2>5, <3>1 DEF DeleteTaxisBegins, Deleting
    <3> QED
      BY <2>0, <2>5, <3>2 DEF DeleteTaxisBegins
  <2>6. CASE ListRedis
    <3>1. \A e \in Declared : e[1] \in Taxi
      OBVIOUS
    <3>2. /\ {e[1] : e \in Silent(DELETE_AFTER)} \in SUBSET Taxi
          /\ {e[1] : e \in {d \in Declared : hash[d] # None}} \in SUBSET Taxi
      BY <3>1 DEF Silent
    <3>3. deleting' \in Deleting
      BY <2>0, <2>6, <3>2 DEF ListRedis, Deleting
    <3> QED
      BY <2>0, <2>6, <3>3 DEF ListRedis
  <2>7. CASE DeleteTaxis
    BY <2>0, <2>7 DEF DeleteTaxis, Deleting
  <2>8. CASE DeleteTaxisRaises \/ DeletingIsLost
    BY <2>0, <2>8 DEF DeleteTaxisRaises, DeletingIsLost, Deleting, NotDeleting
  <2>9. CASE DeleteFromRedis
    BY <2>0, <2>9 DEF DeleteFromRedis, Deleting, NotDeleting
  <2> QED
    BY <2>1, <2>2, <2>3, <2>4, <2>5, <2>6, <2>7, <2>8, <2>9
    DEF Next, Tick, HailBegins, HailCommits, HailFails, CountBegins, CountEnds, CountIsLost,
        BlurHails, DeleteOldHails, DeleteTaxisGoesOn, vars
<1> QED
  BY <1>1, <1>2, <1>3, <1>4, <1>5, <1>6 DEF TypeOK, PositionTypes

\* Nothing was hailed, reported or deleted at time 0.
LEMMA InitIsRight ==
    Init => /\ BaseInv /\ CountedUpTo /\ CountedBeforeDeleted /\ CountersMissNone
            /\ CountKeepsUp /\ HailBlurKeepsUp /\ PositionBlurKeepsUp
            /\ ReportsAreKept /\ ListIsRecent /\ SilenceIsRecent /\ WipesTheDeleted
<1> SUFFICES ASSUME Init
             PROVE  /\ BaseInv /\ CountedUpTo /\ CountedBeforeDeleted /\ CountersMissNone
                    /\ CountKeepsUp /\ HailBlurKeepsUp /\ PositionBlurKeepsUp
                    /\ ReportsAreKept /\ ListIsRecent /\ SilenceIsRecent /\ WipesTheDeleted
  OBVIOUS
<1> USE DEF Init
<1>1. TypeOK
  <2>1. NotDeleting \in Deleting
    BY DEF NotDeleting, Deleting
  <2>2. behind \in [Daily -> 0..MaxOutage]
    OBVIOUS
  <2>3. reports \in 0..MaxReports /\ losses \in 0..MaxLosses /\ now \in Time
    BY DEF Time
  <2> QED
    BY <2>1, <2>2, <2>3 DEF TypeOK
<1>2. RequestsAreShort /\ CountsAreOld
  BY DEF RequestsAreShort, CountsAreOld
<1>3. /\ CountedUpTo /\ CountedBeforeDeleted /\ CountersMissNone
      /\ CountKeepsUp /\ HailBlurKeepsUp
  BY DEF CountedUpTo, CountedBeforeDeleted, CountersMissNone, CountKeepsUp, HailBlurKeepsUp,
         WasAdded, IsThere
<1>4. PositionBlurKeepsUp /\ ReportsAreKept /\ ListIsRecent
  BY DEF PositionBlurKeepsUp, ReportsAreKept, ListIsRecent
<1>5. SilenceIsRecent /\ WipesTheDeleted
  BY DEF SilenceIsRecent, WipesTheDeleted, NotDeleting
<1> QED
  BY <1>1, <1>2, <1>3, <1>4, <1>5 DEF BaseInv

\* Types, short requests and old counts hold together.
THEOREM BaseHolds == Spec => []BaseInv
<1>1. BaseInv /\ [Next]_vars => BaseInv'
  BY TypesStay, RequestsStayShort, CountsStayOld DEF BaseInv
<1> QED
  BY InitIsRight, <1>1, PTL DEF Spec

\* Every row and every list a task keeps is of its type, however many tasks
\* read and write at once.
THEOREM TypeCorrect == Spec => []TypeOK
<1>1. BaseInv => TypeOK
  BY DEF BaseInv
<1> QED
  BY <1>1, BaseHolds, PTL

-------------------------------------------------------------------------------
(* Counting *)

CountInv ==
    /\ BaseInv /\ CountedUpTo /\ CountedBeforeDeleted /\ CountersMissNone /\ CountKeepsUp

\* A day passes only between counts; a count, or another one that was first,
\* leaves no older hail out.
CountStep ==
    \/ UNCHANGED <<stats, counting, now>> /\ behind'["compute_stats_hails"] = behind["compute_stats_hails"]
    \/ Tick
    \/ \E c \in Counter : CountBegins(c) \/ CountEnds(c) \/ CountIsLost(c)

\* What a step means for the counters.
LEMMA StepsCount == ASSUME TypeOK, [Next]_vars PROVE CountStep
<1>1. behind \in [Daily -> 0..MaxOutage] /\ "compute_stats_hails" \in Daily
  BY DEF TypeOK, Daily
<1>2. CASE BlurHails \/ BlurGeotaxiEnds
  BY <1>1, <1>2 DEF BlurHails, BlurGeotaxiEnds, HasRun, CountStep, hails
<1> QED
  BY <1>2 DEF CountStep, Next, HailBegins, HailCommits, HailFails, Report, DeleteOldHails,
     BlurGeotaxiBegins, DeleteTaxisBegins, DeleteTaxisGoesOn, ListRedis, DeleteTaxis,
     DeleteTaxisRaises, DeleteFromRedis, DeletingIsLost, vars, hails

\* Whatever another process does, a hail that counts was counted before the
\* step, or is no younger.
LEMMA CountedGoesOn ==
    ASSUME BaseInv, [Next]_vars, now' = now, NEW h \in Hail
    PROVE  WasCounted(h)' => WasCounted(h)
<1>0. TypeOK /\ RequestsAreShort /\ now \in Int
  BY DEF BaseInv, TypeOK, Time
<1> SUFFICES ASSUME WasCounted(h)' PROVE WasCounted(h)
  OBVIOUS
<1>1. WasAdded(h)' /\ hail'[h].at < now - COUNT_AFTER /\ hail'[h].at \in Int
  BY <1>0, AddedGoesOn DEF WasCounted, Older
<1>2. WasAdded(h) /\ hail'[h].at = hail[h].at
  BY <1>0, <1>1, AddedGoesOn
<1> QED
  BY <1>1, <1>2 DEF WasCounted, Older

\* The counters go on missing none.
LEMMA CountersStayRight ==
    ASSUME TownsApart, CountInv, [Next]_vars
    PROVE  CountersMissNone' /\ CountedUpTo' /\ CountKeepsUp'
<1> DEFINE B == behind["compute_stats_hails"]
<1>0. /\ BaseInv /\ TypeOK /\ RequestsAreShort /\ CountsAreOld /\ CountedUpTo
      /\ CountedBeforeDeleted /\ CountersMissNone /\ CountKeepsUp
      /\ now \in Int /\ B \in Nat /\ B <= MaxOutage /\ stats \subseteq Hail
      /\ counting \in [Counter -> (SUBSET Hail) \cup {None}]
      /\ behind \in [Daily -> 0..MaxOutage] /\ "compute_stats_hails" \in Daily
  BY DEF CountInv, BaseInv, TypeOK, Time, Daily
<1>1. \A h \in Hail : /\ WasAdded(h) => WasAdded(h)' /\ hail'[h].at = hail[h].at
                      /\ ~WasAdded(h) /\ WasAdded(h)' => /\ hail'[h].at >= now - MaxDelay
                                                         /\ now' = now
                      /\ WasAdded(h)' => hail'[h].at \in Int
  BY <1>0, AddedGoesOn
<1>2. now' = now => \A h \in Hail : WasCounted(h)' => WasCounted(h)
  BY <1>0, CountedGoesOn
<1>3. \A h \in stats : WasAdded(h) /\ hail[h].at < now - COUNT_AFTER
  BY <1>0 DEF CountsAreOld, WasCounted, Older
<1>4. ASSUME stats' = stats
      PROVE  CountedUpTo'
  <2> SUFFICES ASSUME NEW h \in stats, NEW g \in Hail, WasAdded(g)', hail'[g].at <= hail'[h].at
               PROVE  g \in stats
    BY <1>4 DEF CountedUpTo
  <2>1. hail'[h].at = hail[h].at /\ hail[h].at < now - COUNT_AFTER /\ hail[h].at \in Int
    BY <1>0, <1>1, <1>3
  <2>2. WasAdded(g) /\ hail'[g].at = hail[g].at
    BY <1>0, <1>1, <2>1
  <2> QED
    BY <1>0, <2>1, <2>2 DEF CountedUpTo
<1>5. ASSUME stats' = stats, now' = now, B' >= B, B' \in Int
      PROVE  CountKeepsUp'
  <2> SUFFICES ASSUME NEW h \in Hail, WasAdded(h)', h \notin stats
               PROVE  hail'[h].at >= now - COUNT_AFTER - B'
    BY <1>5 DEF CountKeepsUp
  <2> QED
    BY <1>0, <1>1, <1>5 DEF CountKeepsUp
<1>6. CASE UNCHANGED <<stats, counting, now>> /\ B' = B
  <2>1. CountersMissNone'
    BY <1>0, <1>2, <1>6 DEF CountersMissNone
  <2> QED
    BY <1>0, <1>4, <1>5, <1>6, <2>1
<1>7. CASE Tick
  <2>1. /\ now' = now + 1 /\ B' = B + 1 /\ UNCHANGED <<stats, hail, counting>>
        /\ \A c \in Counter : counting[c] = None
    BY <1>0, <1>7 DEF Tick, hails
  <2>2. CountersMissNone'
    BY <2>1 DEF CountersMissNone
  <2>3. CountKeepsUp'
    <3> SUFFICES ASSUME NEW h \in Hail, WasAdded(h)', h \notin stats
                 PROVE  hail'[h].at >= now' - COUNT_AFTER - B'
      BY <2>1 DEF CountKeepsUp
    <3>1. WasAdded(h) /\ hail'[h].at = hail[h].at /\ hail[h].at \in Int
      BY <1>1, <2>1 DEF WasAdded
    <3> QED
      BY <1>0, <2>1, <3>1 DEF CountKeepsUp
  <2> QED
    BY <1>4, <2>1, <2>2, <2>3
<1>8. ASSUME NEW c \in Counter, CountBegins(c)
      PROVE  CountersMissNone' /\ CountedUpTo' /\ CountKeepsUp'
  <2>1. /\ counting' = [counting EXCEPT ![c] = {h \in Hail : Countable(h)}]
        /\ UNCHANGED <<now, hail, stats, behind>>
    BY <1>8 DEF CountBegins
  <2>2. ASSUME NEW h \in Hail, WasCounted(h), h \notin stats
        PROVE  Countable(h)
    <3>1. IsThere(h)
      BY <1>0, <2>2 DEF WasCounted, WasAdded, IsThere, CountedBeforeDeleted, TypeOK, Row
    <3>2. \A g \in stats : hail[h].at > hail[g].at
      BY <1>0, <1>1, <1>3, <2>1, <2>2 DEF WasCounted, CountedUpTo
    <3> QED
      BY <2>2, <3>1, <3>2 DEF Countable, WasCounted
  <2>3. \A h \in Hail : Countable(h) => h \notin stats
    BY <1>0, <1>1, <1>3, <2>1 DEF Countable
  <2>4. /\ \A h \in Hail : WasCounted(h) => h \in stats \cup {g \in Hail : Countable(g)}
        /\ {g \in Hail : Countable(g)} \cap stats = {}
    BY <2>2, <2>3
  <2>5. CountersMissNone'
    BY <1>0, <1>2, <2>1, <2>4 DEF CountersMissNone
  <2> QED
    BY <1>0, <1>4, <1>5, <2>1, <2>5
<1>9. ASSUME NEW c \in Counter, CountEnds(c)
      PROVE  CountersMissNone' /\ CountedUpTo' /\ CountKeepsUp'
  <2>1. /\ counting[c] # None /\ counting' = [counting EXCEPT ![c] = None]
        /\ UNCHANGED <<now, hail>> /\ B' = 0
        /\ stats' = IF Insertable(counting[c]) THEN stats \cup counting[c] ELSE stats
    BY <1>0, <1>9 DEF CountEnds, HasRun
  <2>2. stats \subseteq stats' /\ \A h \in Hail : WasCounted(h) => h \in stats'
    <3>1. CASE Insertable(counting[c])
      BY <1>0, <2>1, <3>1 DEF CountersMissNone
    <3>2. CASE ~Insertable(counting[c])
      BY <1>0, <2>1, <3>2 DEF CountersMissNone, Insertable, TownsApart
    <3> QED
      BY <3>1, <3>2
  <2>3. CountersMissNone'
    BY <1>0, <1>2, <2>1, <2>2 DEF CountersMissNone
  <2>4. \A h \in stats' : WasCounted(h) /\ h \in Hail
    BY <1>0, <2>1 DEF CountsAreOld
  <2>5. CountedUpTo'
    <3> SUFFICES ASSUME NEW h \in stats', NEW g \in Hail, WasAdded(g), hail[g].at <= hail[h].at
                 PROVE  g \in stats'
      BY <2>1 DEF CountedUpTo, WasAdded
    <3>1. hail[g].at \in Int /\ hail[h].at \in Int /\ hail[h].at < now - COUNT_AFTER
      BY <1>1, <2>1, <2>4 DEF WasCounted, Older, WasAdded
    <3> QED
      BY <1>0, <2>2, <3>1 DEF WasCounted, Older
  <2>6. CountKeepsUp'
    <3> SUFFICES ASSUME NEW h \in Hail, WasAdded(h), h \notin stats'
                 PROVE  hail[h].at >= now - COUNT_AFTER
      BY <1>0, <2>1 DEF CountKeepsUp, WasAdded
    <3>1. hail[h].at \in Int
      BY <1>1, <2>1
    <3> QED
      BY <1>0, <2>2, <3>1 DEF WasCounted, Older
  <2> QED
    BY <2>3, <2>5, <2>6
<1>10. ASSUME NEW c \in Counter, CountIsLost(c)
       PROVE  CountersMissNone' /\ CountedUpTo' /\ CountKeepsUp'
  <2>1. /\ counting' = [counting EXCEPT ![c] = None]
        /\ UNCHANGED <<now, hail, stats, behind>>
    BY <1>10 DEF CountIsLost
  <2>2. CountersMissNone'
    BY <1>0, <1>2, <2>1 DEF CountersMissNone
  <2> QED
    BY <1>0, <1>4, <1>5, <2>1, <2>2
<1>11. CountStep
  BY <1>0, StepsCount
<1> QED
  BY <1>6, <1>7, <1>8, <1>9, <1>10, <1>11 DEF CountStep

\* What is old enough to be deleted is old enough to have been counted, by as
\* many days as the count may be behind.
LEMMA DeletedStaysCounted ==
    ASSUME CountInv, [Next]_vars
    PROVE  CountedBeforeDeleted'
<1> SUFFICES ASSUME NEW h \in Hail, hail'[h] # None, hail'[h].state = "deleted"
             PROVE  h \in stats'
  BY DEF CountedBeforeDeleted
<1>0. /\ TypeOK /\ CountedBeforeDeleted /\ CountKeepsUp /\ now \in Int
      /\ behind["compute_stats_hails"] \in 0..MaxOutage
  BY DEF CountInv, BaseInv, TypeOK, Time, Daily
<1>1. stats \subseteq stats'
  BY <1>0, StepsCount DEF CountStep, Tick, CountBegins, CountEnds, CountIsLost, hails
<1>2. RowGoesOn(h)
  BY <1>0, HailsGoOn
<1>3. CASE hail'[h] = hail[h]
  BY <1>0, <1>1, <1>3 DEF CountedBeforeDeleted
<1>4. CASE Deletable(h)
  <2>1. WasAdded(h) /\ hail[h].at < now - DELETE_AFTER /\ hail[h].at \in Int
    BY <1>0, <1>4 DEF Deletable, IsThere, WasAdded, Older, TypeOK, Row, Time
  <2> QED
    BY <1>0, <1>1, <2>1 DEF CountKeepsUp
<1> QED
  BY <1>2, <1>3, <1>4 DEF RowGoesOn

\* The invariant the two results below are read from.
THEOREM CountInvHolds == TownsApart /\ Spec => []CountInv
<1>1. TownsApart /\ CountInv /\ [Next]_vars => CountInv'
  BY CountersStayRight, DeletedStaysCounted, TypesStay, RequestsStayShort, CountsStayOld
  DEF CountInv, BaseInv
<1>2. Init => CountInv
  BY InitIsRight DEF CountInv
<1>3. CASE TownsApart
  BY <1>1, <1>2, <1>3, PTL DEF Spec
<1>4. CASE ~TownsApart
  BY <1>4
<1> QED
  BY <1>3, <1>4

\* The date of the last row of stats_hails is where a count may start again,
\* whatever number of counts run at once.
THEOREM CountsRestartSafely == TownsApart /\ Spec => []CountedUpTo
<1>1. CountInv => CountedUpTo
  BY DEF CountInv
<1> QED
  BY <1>1, CountInvHolds, PTL

\* delete_old_hails deletes nothing that stats_hails lacks, though it does not
\* look there.
THEOREM DeletedWereCounted == TownsApart /\ Spec => []CountedBeforeDeleted
<1>1. CountInv => CountedBeforeDeleted
  BY DEF CountInv
<1> QED
  BY <1>1, CountInvHolds, PTL

-------------------------------------------------------------------------------
(* Blurring *)

\* A hail in its exact place is younger than the task is behind.
LEMMA HailBlurStays ==
    ASSUME BaseInv, HailBlurKeepsUp, [Next]_vars
    PROVE  HailBlurKeepsUp'
<1> DEFINE B == behind["blur_hails"]
<1>0. /\ TypeOK /\ RequestsAreShort /\ now \in Int
      /\ behind \in [Daily -> 0..MaxOutage] /\ "blur_hails" \in Daily /\ B \in Nat
  BY DEF BaseInv, TypeOK, Time, Daily
<1> SUFFICES ASSUME NEW h \in Hail, IsThere(h)', ~hail'[h].blurred
             PROVE  hail'[h].at >= now' - BLUR_AFTER - B'
  BY DEF HailBlurKeepsUp
<1>1. /\ RowGoesOn(h) /\ (hail'[h] # hail[h] => now' = now)
      /\ hail[h] \in Row \cup {None} /\ hail'[h] \in Row \cup {None}
  BY <1>0, HailsGoOn DEF TypeOK
<1>2. hail'[h].at \in Int
  BY <1>1 DEF IsThere, Row, Time
<1>3. CASE BlurHails
  <2>1. /\ B' = 0 /\ now' = now
        /\ Blurrable(h) => hail'[h].blurred
        /\ ~Blurrable(h) => hail'[h] = hail[h]
    <3>1. Blurrable(h) => hail[h] \in Row
      BY <1>0 DEF Blurrable, IsThere, TypeOK
    <3>2. Blurrable(h) => hail'[h] = [hail[h] EXCEPT !.blurred = TRUE, !.exact = Kept(h)]
      BY <1>3 DEF BlurHails
    <3>3. Blurrable(h) => hail'[h].blurred
      BY <3>1, <3>2 DEF Row
    <3>4. B' = 0 /\ now' = now /\ (~Blurrable(h) => hail'[h] = hail[h])
      BY <1>0, <1>3 DEF BlurHails, HasRun
    <3> QED
      BY <3>3, <3>4
  <2>2. ~Blurrable(h)
    BY <1>1, <2>1 DEF Blurrable, IsThere, Row
  <2>3. IsThere(h) /\ ~hail[h].blurred /\ hail'[h] = hail[h]
    BY <2>1, <2>2 DEF IsThere
  <2> QED
    BY <1>0, <1>2, <2>1, <2>2, <2>3 DEF Blurrable, Older
<1>4. CASE Tick
  <2>1. hail' = hail /\ now' = now + 1 /\ B' = B + 1
    BY <1>0, <1>4 DEF Tick, hails
  <2>2. IsThere(h) /\ ~hail[h].blurred /\ hail[h].at \in Int
    BY <1>2, <2>1 DEF IsThere
  <2> QED
    BY <1>0, <2>1, <2>2 DEF HailBlurKeepsUp
<1>5. CASE UNCHANGED <<now, B>>
  <2>1. CASE hail[h] # None /\ hail[h].state = "adding"
    <3>1. hail[h].at >= now - MaxDelay
      BY <1>0, <2>1 DEF RequestsAreShort
    <3>2. hail'[h].at = hail[h].at
      BY <1>1, <2>1 DEF RowGoesOn, Blurrable, Deletable, IsThere
    <3> QED
      BY <1>0, <1>2, <1>5, <3>1, <3>2
  <2>2. CASE ~(hail[h] # None /\ hail[h].state = "adding")
    <3>1. hail'[h] = hail[h]
      BY <1>1, <2>2 DEF RowGoesOn, IsThere
    <3>2. IsThere(h) /\ ~hail[h].blurred
      BY <3>1 DEF IsThere
    <3> QED
      BY <1>5, <3>1, <3>2 DEF HailBlurKeepsUp
  <2> QED
    BY <2>1, <2>2
<1>6. BlurHails \/ Tick \/ UNCHANGED <<now, B>>
  <2>1. CASE BlurGeotaxiEnds \/ \E c \in Counter : CountEnds(c)
    BY <1>0, <2>1 DEF BlurGeotaxiEnds, CountEnds, HasRun
  <2> QED
    BY <2>1 DEF Next, HailBegins, HailCommits, HailFails, Report, DeleteOldHails,
       CountBegins, CountIsLost, BlurGeotaxiBegins, DeleteTaxisBegins, DeleteTaxisGoesOn,
       ListRedis, DeleteTaxis, DeleteTaxisRaises, DeleteFromRedis, DeletingIsLost, vars
<1> QED
  BY <1>3, <1>4, <1>5, <1>6

\* Only blur_hails marks a hail, and it forgets what it can.
LEMMA BlurredStaysForgotten ==
    ASSUME TypeOK, BlurredIsForgotten, NewHailsAreExact, [Next]_vars
    PROVE  BlurredIsForgotten' /\ NewHailsAreExact'
<1>1. ASSUME NEW h \in Hail PROVE RowGoesOn(h)
  BY HailsGoOn
<1>2. BlurredIsForgotten'
  <2> SUFFICES ASSUME NEW h \in Hail, IsThere(h)', hail'[h].blurred
               PROVE  hail'[h].exact \subseteq Kept(h)
    BY DEF BlurredIsForgotten, Kept
  <2>1. CASE hail'[h] = hail[h]
    BY <2>1 DEF BlurredIsForgotten, IsThere
  <2>2. CASE hail[h] # None /\ hail[h].state = "adding" /\ hail'[h].blurred = hail[h].blurred
    BY <2>2 DEF NewHailsAreExact
  <2>3. CASE hail'[h].exact = Kept(h)
    BY <2>3
  <2> QED
    BY <1>1, <2>1, <2>2, <2>3 DEF RowGoesOn, IsThere
<1>3. NewHailsAreExact'
  BY <1>1 DEF NewHailsAreExact, RowGoesOn
<1> QED
  BY <1>2, <1>3

\* What a step may do to the positions, the list of blur_geotaxi and the clock.
PositionStep ==
    \/ UNCHANGED <<hash, blurring, reported, taxis, now>>
       /\ behind'["blur_geotaxi"] = behind["blur_geotaxi"]
    \/ Tick \/ \E e \in Declared : Report(e)
    \/ BlurGeotaxiBegins \/ BlurGeotaxiEnds \/ DeleteTaxis \/ DeleteFromRedis

\* Every other step leaves them alone.
LEMMA StepsOfPositions == ASSUME TypeOK, [Next]_vars PROVE PositionStep
<1>1. behind \in [Daily -> 0..MaxOutage] /\ "blur_geotaxi" \in Daily
  BY DEF TypeOK, Daily
<1>2. CASE BlurHails \/ \E c \in Counter : CountEnds(c)
  BY <1>1, <1>2 DEF BlurHails, CountEnds, HasRun, PositionStep, positions
<1> QED
  BY <1>2 DEF PositionStep, Next, HailBegins, HailCommits, HailFails, DeleteOldHails,
     CountBegins, CountIsLost, DeleteTaxisBegins, DeleteTaxisGoesOn, ListRedis,
     DeleteTaxisRaises, DeletingIsLost, vars, positions

\* A position in its exact place is younger than the task is behind, or on its list.
LEMMA PositionBlurStays ==
    ASSUME BaseInv, PositionBlurKeepsUp, [Next]_vars
    PROVE  PositionBlurKeepsUp'
<1> DEFINE B == behind["blur_geotaxi"]
<1>0. /\ TypeOK /\ now \in Int /\ hash \in [Declared -> Position \cup {None}]
      /\ behind \in [Daily -> 0..MaxOutage] /\ "blur_geotaxi" \in Daily /\ B \in Nat
  BY DEF BaseInv, TypeOK, Time, Daily
<1>1. CASE UNCHANGED <<hash, blurring, now>> /\ B' = B
  BY <1>1 DEF PositionBlurKeepsUp, Older
<1>2. CASE Tick
  <2>1. /\ UNCHANGED <<hash, blurring>> /\ blurring = None /\ now' = now + 1 /\ B' = B + 1
    BY <1>0, <1>2 DEF Tick, positions
  <2>2. \A e \in Declared : hash[e] # None => hash[e].at \in Int
    BY <1>0 DEF Position, Time
  <2> QED
    BY <1>0, <2>1, <2>2 DEF PositionBlurKeepsUp
<1>3. ASSUME NEW e \in Declared, Report(e)
      PROVE  PositionBlurKeepsUp'
  <2>1. /\ hash' = [hash EXCEPT ![e] = [at |-> now, blurred |-> FALSE]]
        /\ UNCHANGED <<now, blurring>> /\ B' = B
    BY <1>3 DEF Report
  <2>2. hash'[e].at = now /\ \A d \in Declared \ {e} : hash'[d] = hash[d]
    BY <1>0, <2>1
  <2> QED
    BY <1>0, <2>1, <2>2 DEF PositionBlurKeepsUp, Older
<1>4. CASE BlurGeotaxiBegins
  <2>1. /\ UNCHANGED <<hash, now>> /\ B' = B /\ blurring' = {<<e, hash[e].at>> : e \in Silent(BLUR_AFTER)}
    BY <1>4 DEF BlurGeotaxiBegins
  <2>2. ASSUME NEW e \in Declared, hash[e] # None, Older(hash[e].at, BLUR_AFTER)
        PROVE  \E b \in blurring' : b[1] = e
    <3>1. hash[e].at \in Int
      BY <1>0, <2>2 DEF Position, Time
    <3>2. e \in Silent(BLUR_AFTER)
      BY <1>0, <2>2, <3>1 DEF Silent, Older
    <3>3. <<e, hash[e].at>> \in blurring'
      BY <2>1, <3>2
    <3> QED
      BY <3>3
  <2> QED
    BY <2>1, <2>2 DEF PositionBlurKeepsUp, Older
<1>5. CASE BlurGeotaxiEnds
  <2>1. /\ blurring # None /\ blurring' = None /\ now' = now /\ B' = 0
        /\ \A e \in Declared :
              IF \E b \in blurring : b[1] = e
              THEN hash'[e] = Blurred((CHOOSE b \in blurring : b[1] = e)[2])
              ELSE hash'[e] = hash[e]
    BY <1>0, <1>5 DEF BlurGeotaxiEnds, HasRun
  <2> SUFFICES ASSUME NEW e \in Declared, hash'[e] # None, ~hash'[e].blurred
               PROVE  hash'[e].at >= now - BLUR_AFTER
    BY <1>0, <2>1 DEF PositionBlurKeepsUp
  <2>2. ~(\E b \in blurring : b[1] = e) /\ hash'[e] = hash[e]
    <3>1. CASE \E b \in blurring : b[1] = e
      <4>1. hash'[e] = Blurred((CHOOSE b \in blurring : b[1] = e)[2])
        BY <2>1, <3>1
      <4>2. hash'[e].blurred
        BY <4>1 DEF Blurred
      <4> QED
        BY <4>2
    <3> QED
      BY <2>1, <3>1
  <2>3. hash[e].at \in Int
    BY <1>0, <2>2 DEF Position, Time
  <2> QED
    BY <1>0, <2>1, <2>2, <2>3 DEF PositionBlurKeepsUp, Older
<1>6. CASE DeleteTaxis
  BY <1>1, <1>6 DEF DeleteTaxis
<1>7. CASE DeleteFromRedis
  <2>1. /\ UNCHANGED <<now, blurring>> /\ B' = B
        /\ \A e \in Declared : hash'[e] = None \/ hash'[e] = hash[e]
    BY <1>7 DEF DeleteFromRedis
  <2> QED
    BY <2>1 DEF PositionBlurKeepsUp, Older
<1>8. PositionStep
  BY <1>0, StepsOfPositions
<1> QED
  BY <1>1, <1>2, <1>3, <1>4, <1>5, <1>6, <1>7, <1>8 DEF PositionStep

\* No exact place outlives two months and the days the tasks may be late, but
\* for those of hails that lie in no town.
THEOREM PlacesAreForgotten == Spec => []NothingOldIsPrecise
<1> DEFINE I == /\ BaseInv /\ HailBlurKeepsUp /\ PositionBlurKeepsUp
                /\ BlurredIsForgotten /\ NewHailsAreExact
<1>1. I /\ [Next]_vars => I'
  BY HailBlurStays, PositionBlurStays, BlurredStaysForgotten, TypesStay, RequestsStayShort,
     CountsStayOld DEF BaseInv
<1>2. Init => I
  BY InitIsRight DEF Init, BlurredIsForgotten, NewHailsAreExact, IsThere
<1>3. ASSUME I PROVE NothingOldIsPrecise
  <2>0. /\ now \in Int /\ behind["blur_hails"] \in 0..MaxOutage /\ behind["blur_geotaxi"] \in 0..MaxOutage
        /\ hail \in [Hail -> Row \cup {None}] /\ hash \in [Declared -> Position \cup {None}]
    BY <1>3 DEF BaseInv, TypeOK, Time, Daily
  <2>1. ASSUME NEW h \in Hail, NEW d \in Detail, IsThere(h),
               Older(hail[h].at, BLUR_AFTER + MaxOutage), d \in hail[h].exact
        PROVE  <<h, d>> \in InNoTown
    <3>1. hail[h].at \in Int
      BY <2>0, <2>1 DEF IsThere, Row, Time
    <3>2. hail[h].blurred
      BY <1>3, <2>0, <2>1, <3>1 DEF HailBlurKeepsUp, Older
    <3> QED
      BY <1>3, <2>1, <3>2 DEF BlurredIsForgotten, Kept
  <2>2. ASSUME NEW e \in Declared, hash[e] # None, Older(hash[e].at, BLUR_AFTER + MaxOutage)
        PROVE  hash[e].blurred
    <3>1. hash[e].at \in Int
      BY <2>0, <2>2 DEF Position, Time
    <3> QED
      BY <1>3, <2>0, <2>2, <3>1 DEF PositionBlurKeepsUp, Older
  <2> QED
    BY <2>1, <2>2 DEF NothingOldIsPrecise
<1> QED
  BY <1>1, <1>2, <1>3, PTL DEF Spec

-------------------------------------------------------------------------------
(* Silence *)

\* Reports, the list of blur_geotaxi and what delete_old_taxis read stay in step.
LEMMA SilenceStays ==
    ASSUME OneOperatorEach, SilenceInv, [Next]_vars
    PROVE  ReportsAreKept' /\ ListIsRecent' /\ SilenceIsRecent' /\ WipesTheDeleted'
<1> USE DEF ReportsAreKept, ListIsRecent, SilenceIsRecent, WipesTheDeleted
<1>0. /\ ReportsAreKept /\ ListIsRecent /\ SilenceIsRecent /\ WipesTheDeleted /\ TypeOK
      /\ now \in Int /\ now \in Time /\ hash \in [Declared -> Position \cup {None}]
      /\ reported \in [Declared -> Time \cup {None}] /\ deleting \in Deleting
      /\ blurring \in (SUBSET (Declared \X Time)) \cup {None} /\ taxis \subseteq Taxi
  BY DEF SilenceInv, TypeOK, Time
<1>1. \A e \in Declared : /\ hash[e] # None => hash[e].at \in Int
                          /\ reported[e] # None => reported[e] \in Int
  BY <1>0 DEF Position, Time
<1>2. CASE UNCHANGED <<now, taxis, hash, reported, blurring, deleting>>
  BY <1>0, <1>2 DEF Candidates
<1>3. CASE Tick
  <2>1. /\ UNCHANGED <<taxis, hash, reported, blurring, deleting>> /\ now' = now + 1
        /\ blurring = None /\ deleting.step = "idle"
    BY <1>3 DEF Tick, positions
  <2> QED
    BY <1>0, <1>1, <2>1
<1>4. ASSUME NEW e \in Declared, Report(e)
      PROVE  ReportsAreKept' /\ ListIsRecent' /\ SilenceIsRecent' /\ WipesTheDeleted'
  <2>1. [at |-> now, blurred |-> FALSE] \in Position
    BY <1>0 DEF Position
  <2>2. /\ UNCHANGED <<now, taxis, blurring, deleting>>
        /\ hash'[e] # None /\ hash'[e].at = now /\ reported'[e] = now /\ now # None
        /\ \A d \in Declared \ {e} : hash'[d] = hash[d] /\ reported'[d] = reported[d]
    BY <1>0, <1>4, <2>1 DEF Report
  <2>3. ReportsAreKept' /\ SilenceIsRecent'
    BY <1>0, <1>1, <2>2
  <2>4. ListIsRecent'
    <3> SUFFICES ASSUME blurring # None, NEW b \in blurring
                 PROVE  /\ reported'[b[1]] # None /\ b[2] <= reported'[b[1]]
                        /\ \/ reported'[b[1]] = now
                           \/ hash'[b[1]] # None => hash'[b[1]].at = b[2]
      BY <2>2
    <3>1. b[1] \in Declared /\ b[2] \in Int
      BY <1>0 DEF Time
    <3>2. reported[b[1]] <= now /\ reported[b[1]] \in Int /\ b[2] <= reported[b[1]]
      BY <1>0, <1>1, <3>1
    <3> QED
      BY <1>0, <2>2, <3>1, <3>2
  <2>5. WipesTheDeleted'
    BY <1>0, <2>2 DEF Candidates
  <2> QED
    BY <2>3, <2>4, <2>5
<1>5. CASE BlurGeotaxiBegins
  <2>1. /\ blurring' = {<<e, hash[e].at>> : e \in Silent(BLUR_AFTER)}
        /\ UNCHANGED <<now, taxis, hash, reported, deleting>>
    BY <1>5 DEF BlurGeotaxiBegins
  <2>2. ASSUME NEW b \in blurring'
        PROVE  /\ reported[b[1]] # None /\ b[2] <= reported[b[1]]
               /\ hash[b[1]] # None => hash[b[1]].at = b[2]
    <3>1. PICK e \in Declared : hash[e] # None /\ b = <<e, hash[e].at>>
      BY <2>1 DEF Silent
    <3> QED
      BY <1>0, <3>1
  <2>3. ListIsRecent'
    BY <2>1, <2>2
  <2> QED
    BY <1>0, <2>1, <2>3 DEF Candidates
<1>6. CASE BlurGeotaxiEnds
  <2>1. /\ blurring # None /\ blurring' = None
        /\ UNCHANGED <<now, taxis, reported, deleting>>
        /\ hash' = [e \in Declared |->
                       IF \E b \in blurring : b[1] = e
                       THEN Blurred((CHOOSE b \in blurring : b[1] = e)[2])
                       ELSE hash[e]]
    BY <1>6 DEF BlurGeotaxiEnds
  <2>2. ASSUME NEW e \in Declared, \E b \in blurring : b[1] = e
        PROVE  /\ hash'[e] # None /\ reported[e] # None /\ hash'[e].at <= reported[e]
               /\ \/ reported[e] = now
                  \/ hash[e] # None => hash[e].at = hash'[e].at
    <3>1. PICK b \in blurring : b[1] = e /\ hash'[e] = Blurred(b[2])
      BY <2>1, <2>2
    <3>2. b[2] \in Time
      BY <1>0, <2>1
    <3>3. Blurred(b[2]) \in Position /\ Blurred(b[2]).at = b[2]
      BY <3>2 DEF Blurred, Position
    <3>4. hash'[e] # None /\ hash'[e].at = b[2]
      BY <3>1, <3>3
    <3> QED
      BY <1>0, <2>1, <3>1, <3>4
  <2>3. \A e \in Declared : ~(\E b \in blurring : b[1] = e) => hash'[e] = hash[e]
    BY <2>1
  <2>4. ReportsAreKept'
    BY <1>0, <2>1, <2>2, <2>3
  <2>5. SilenceIsRecent'
    BY <1>0, <1>1, <2>1, <2>2, <2>3
  <2> QED
    BY <1>0, <2>1, <2>4, <2>5 DEF Candidates
<1>7. CASE DeleteTaxisBegins
  BY <1>0, <1>7 DEF DeleteTaxisBegins
<1>8. CASE ListRedis
  <2>1. /\ UNCHANGED <<now, taxis, hash, reported, blurring>>
        /\ deleting'.step = "delete"
        /\ deleting'.silent = {e[1] : e \in Silent(DELETE_AFTER)}
        /\ deleting'.known = {e[1] : e \in {d \in Declared : hash[d] # None}}
    BY <1>0, <1>8 DEF ListRedis, Deleting
  <2>2. ASSUME NEW e \in Declared, e[1] \in deleting'.silent
        PROVE  hash[e].at <= now - DELETE_AFTER
    <3>1. PICK d \in Silent(DELETE_AFTER) : d[1] = e[1]
      BY <2>1, <2>2
    <3>2. d = e
      BY <3>1 DEF OneOperatorEach, Silent
    <3> QED
      BY <3>1, <3>2 DEF Silent
  <2>3. ASSUME NEW e \in Declared, e[1] \notin deleting'.known
        PROVE  hash[e] = None
    BY <2>1, <2>3
  <2> QED
    BY <1>0, <2>1, <2>2, <2>3
<1>9. CASE DeleteTaxis
  <2>1. /\ UNCHANGED <<now, hash, reported, blurring>> /\ taxis' = taxis \ Candidates
        /\ deleting' = [deleting EXCEPT !.step = "pipeline"]
    BY <1>9 DEF DeleteTaxis
  <2>2. deleting'.step = "pipeline" /\ Candidates' = Candidates
    BY <1>0, <2>1 DEF Deleting, Candidates
  <2> QED
    BY <1>0, <2>1, <2>2
<1>10. CASE DeleteTaxisRaises \/ DeletingIsLost
  BY <1>0, <1>10 DEF DeleteTaxisRaises, DeletingIsLost, NotDeleting
<1>11. CASE DeleteFromRedis
  <2>1. /\ deleting.step = "pipeline" /\ UNCHANGED <<now, taxis, reported, blurring>>
        /\ deleting'.step = "idle"
        /\ \A e \in Declared : \/ hash'[e] = hash[e]
                               \/ hash'[e] = None /\ e[1] \in Candidates \cup Orphans
    BY <1>11 DEF DeleteFromRedis, At, NotDeleting
  <2>2. \A e \in Declared : e[1] \in Candidates \cup Orphans => e[1] \notin taxis
    BY <1>0, <2>1 DEF Orphans
  <2>3. ReportsAreKept'
    BY <1>0, <2>1, <2>2
  <2>4. ListIsRecent'
    BY <1>0, <2>1
  <2> QED
    BY <2>1, <2>3, <2>4
<1>12. CASE \/ BlurHails \/ DeleteOldHails \/ UNCHANGED vars
            \/ \E c \in Counter : CountBegins(c) \/ CountEnds(c) \/ CountIsLost(c)
            \/ \E h \in Hail : HailCommits(h) \/ HailFails(h)
            \/ \E h \in Hail, t \in Taxi : HailBegins(h, t)
  BY <1>2, <1>12 DEF BlurHails, DeleteOldHails, CountBegins, CountEnds, CountIsLost,
     HailCommits, HailFails, HailBegins, vars, positions
<1> HIDE DEF ReportsAreKept, ListIsRecent, SilenceIsRecent, WipesTheDeleted
<1> QED
  BY <1>3, <1>4, <1>5, <1>6, <1>7, <1>8, <1>9, <1>10, <1>11, <1>12
  DEF Next, DeleteTaxisGoesOn

\* A taxi is deleted for its silence, but for a report of the same day, or one
\* that blur_geotaxi replaced.
THEOREM TaxisAreSilent == OneOperatorEach /\ Spec => SilentTaxisOnly
<1> DEFINE Deletes == \A t \in taxis \ taxis', e \in Declared :
                          e[1] = t /\ reported[e] # None
                          => \/ reported[e] <= now - DELETE_AFTER
                             \/ reported[e] = now
                             \/ hash[e] # None /\ hash[e].at < reported[e]
<1>1. OneOperatorEach /\ SilenceInv /\ BaseInv /\ [Next]_vars => SilenceInv'
  BY SilenceStays, TypesStay DEF SilenceInv
<1>2. Init => SilenceInv
  BY InitIsRight DEF SilenceInv, BaseInv
<1>3. ASSUME SilenceInv, [Next]_vars
      PROVE  Deletes
  <2>1. CASE DeleteTaxis
    <3> SUFFICES ASSUME NEW t \in taxis \ taxis', NEW e \in Declared, e[1] = t, reported[e] # None
                 PROVE  \/ reported[e] <= now - DELETE_AFTER
                        \/ reported[e] = now
                        \/ hash[e] # None /\ hash[e].at < reported[e]
      OBVIOUS
    <3>1. /\ deleting.step = "delete" /\ t \in Candidates /\ t \in taxis
      BY <2>1 DEF DeleteTaxis, At
    <3>2. t \in deleting.silent \/ t \notin deleting.known
      BY <3>1 DEF Candidates
    <3>3. /\ hash[e] # None /\ hash[e].at <= reported[e]
          /\ hash[e].at \in Int /\ reported[e] \in Int /\ now \in Int
      BY <1>3, <3>1 DEF SilenceInv, ReportsAreKept, TypeOK, Position, Time
    <3>4. reported[e] = now \/ hash[e].at <= now - DELETE_AFTER
      BY <1>3, <3>1, <3>2 DEF SilenceInv, SilenceIsRecent
    <3> QED
      BY <3>3, <3>4
  <2>2. CASE taxis' = taxis
    BY <2>2
  <2> QED
    BY <1>3, <2>1, <2>2 DEF Next, Tick, HailBegins, HailCommits, HailFails, Report, CountBegins,
       CountEnds, CountIsLost, BlurHails, DeleteOldHails, BlurGeotaxiBegins, BlurGeotaxiEnds,
       DeleteTaxisBegins, DeleteTaxisGoesOn, ListRedis, DeleteTaxisRaises, DeleteFromRedis,
       DeletingIsLost, vars, positions
<1>4. SilenceInv /\ [Next]_vars => [Deletes]_vars
  BY <1>3
<1>5. CASE OneOperatorEach
  <2>1. Spec => []SilenceInv
    BY <1>1, <1>2, <1>5, BaseHolds, PTL DEF Spec
  <2> QED
    BY <1>4, <2>1, PTL DEF Spec, SilentTaxisOnly
<1>6. CASE ~OneOperatorEach
  BY <1>6
<1> QED
  BY <1>5, <1>6
===============================================================================
