------------------------------- MODULE Statistics -------------------------------
(***************************************************************************)
(* The figures of the administration: counts of taxis and of hails at      *)
(* milestones of the past year, the outcomes of hails, their totals and    *)
(* averages by period, the fleets and the map, with the same four filters, *)
(* and the public ones of the conurbations, which have none. They are SQL  *)
(* queries over the rows of taxis and the copies of hails in stats_hails,  *)
(* and functions of them here; Retention has how the copies are made and   *)
(* taxis deleted. A date is <<year, month, day>>; what happens on a day    *)
(* comes before any query of that day. An average is the sum and the       *)
(* number of what it is taken over.                                        *)
(***************************************************************************)
EXTENDS Integers, Sequences, FiniteSets, FiniteSetsExt, Sums

CONSTANTS
    Taxi,
    Hail,
    Operator,
    Groupement,     \* operators with the role groupement
    Manager,        \* those who manage somebody
    ManagerOf,      \* User.manager_id
    Place,          \* of a taxi: the insee code of its ADS, its digits;
                    \* of a hail: the one of the town the customer was in,
                    \* or None where no town is found
    OperatorOf,     \* of a taxi: added_by; of a hail: whose taxi it was
    TaxiOf,         \* of a hail: stats_hails keeps a hash of its id; None
                    \* for one that was put there by hand
    DistanceOf,     \* of a hail: hail_distance, or None
    RadiusOf,       \* of <<t, o>>: of o's description of t's vehicle, or None
    Conurbation,
    Members,        \* of a conurbation: insee codes
    Departement,    \* numero of each departement, as digits
    StatusOf,       \* of a hail: those it may have a day later, when it may
                    \* still be waiting
    Duration,       \* environment: hours from reception to the timeout
    Days,           \* bound: the days on which anything happens
    threshold,
    None

HAIL_OUTCOMES ==
    {"finished", "declined_by_taxi", "declined_by_customer", "timeout_taxi",
     "timeout_ride", "timeout_customer", "incident_taxi", "incident_customer",
     "timeout_accepted_by_customer", "failure"}

ASSUME StatisticsAssumption ==
    /\ IsFiniteSet(Taxi) /\ IsFiniteSet(Hail) /\ IsFiniteSet(DOMAIN RadiusOf)
    /\ Groupement \subseteq Operator
    /\ ManagerOf \in [Operator -> Manager \cup {None}]
    /\ \A m \in Manager : \E o \in Operator : ManagerOf[o] = m
    /\ OperatorOf \in [Taxi \cup Hail -> Operator]
    /\ TaxiOf \in [Hail -> Taxi \cup {None}]
    /\ \A t \in Taxi : Place[t] # None
    /\ DistanceOf \in [Hail -> Nat \cup {None}]
    /\ DOMAIN RadiusOf \subseteq Taxi \X Operator
    /\ \A d \in DOMAIN RadiusOf : RadiusOf[d] \in Nat \cup {None}
    /\ Duration \subseteq Nat
    /\ None \notin Nat \cup Manager \cup Days

-------------------------------------------------------------------------------
(* Dates, as PostgreSQL computes them *)

IsLeapYear(y) == y % 4 = 0 /\ (y % 100 # 0 \/ y % 400 = 0)

MonthLength(y, m) ==
    CASE m = 2 -> IF IsLeapYear(y) THEN 29 ELSE 28
      [] m \in {4, 6, 9, 11} -> 30
      [] OTHER -> 31

\* Orders dates; a month counts 31 days.
Ordinal(date) == (date[1] * 12 + date[2]) * 31 + date[3]

Upto(a, b) == Ordinal(a) <= Ordinal(b)

IsDate(date) ==
    /\ date \in Int \X (1..12) \X (1..31)
    /\ date[3] <= MonthLength(date[1], date[2])

ASSUME DaysAreDates == \A d \in Days : IsDate(d)

\* A day the month does not have becomes its last day.
AddMonths(date, k) ==
    LET months == date[1] * 12 + date[2] - 1 + k
        y == months \div 12
        m == (months % 12) + 1
        last == MonthLength(y, m)
    IN  <<y, m, IF date[3] <= last THEN date[3] ELSE last>>

LeapYearsBefore(y) == (y - 1) \div 4 - (y - 1) \div 100 + (y - 1) \div 400

\* Since the beginning of the year 2000, a Saturday.
DayNumber(date) ==
    365 * (date[1] - 2000) + LeapYearsBefore(date[1]) - LeapYearsBefore(2000) + date[3]
        + MapThenSumSet(LAMBDA m : MonthLength(date[1], m), 1..date[2] - 1)

\* date_trunc; weeks begin on Mondays.
Trunc(interval, date) ==
    CASE interval = "day" -> date
      [] interval = "week" -> (DayNumber(date) + 4) \div 7
      [] interval = "month" -> <<date[1], date[2]>>

-------------------------------------------------------------------------------
VARIABLES
    today,
    taxi,           \* registered ones: added_at, last_update_at
    hail            \* stats_hails

vars == <<today, taxi, hail>>

Status == UNION {StatusOf[h] : h \in Hail}

TypeOK ==
    /\ today \in Days
    /\ taxi \in [Taxi -> [added : Days, updated : Days \cup {None}] \cup {None}]
    /\ hail \in [Hail -> [added : Days, status : Status,
                        timeout : Duration \cup {None}] \cup {None}]

Init ==
    /\ today \in {d \in Days : \A e \in Days : Upto(d, e)}
    /\ taxi = [t \in Taxi |-> None]
    /\ hail = [h \in Hail |-> None]

Taxis == {t \in Taxi : taxi[t] # None}
Hails == {h \in Hail : hail[h] # None}

DayPasses(d) ==
    /\ ~ Upto(d, today)
    /\ today' = d
    /\ UNCHANGED <<taxi, hail>>

Registers(t) ==
    /\ taxi[t] = None
    /\ taxi' = [taxi EXCEPT ![t] = [added |-> today, updated |-> None]]
    /\ UNCHANGED <<today, hail>>

\* PUT /taxis/:id, with another status
IsUpdated(t) ==
    /\ t \in Taxis
    /\ taxi' = [taxi EXCEPT ![t].updated = today]
    /\ UNCHANGED <<today, hail>>

IsDeleted(t) ==
    /\ t \in Taxis
    /\ taxi' = [taxi EXCEPT ![t] = None]
    /\ UNCHANGED <<today, hail>>

\* A day after the hail, at the earliest, in whatever status it is. The times of
\* a hail that was put there by hand may be missing.
IsCounted(h, d, status, timeout) ==
    /\ hail[h] = None
    /\ Upto(d, today) /\ d # today
    /\ status # "timeout_taxi" => timeout = None
    /\ hail' = [hail EXCEPT ![h] = [added |-> d, status |-> status,
                                    timeout |-> timeout]]
    /\ UNCHANGED <<today, taxi>>

Next ==
    \/ \E d \in Days : DayPasses(d)
    \/ \E t \in Taxi : Registers(t) \/ IsUpdated(t) \/ IsDeleted(t)
    \/ \E h \in Hail, d \in Days : \E status \in StatusOf[h],
          timeout \in Duration \cup {None} :
            IsCounted(h, d, status, timeout)

Spec == Init /\ [][Next]_vars

-------------------------------------------------------------------------------
(* Filters: an empty one lets everything pass. *)

Unfiltered == [departements |-> {}, insee |-> {}, groups |-> {}, manager |-> None]

\* substr(insee, 0, 3): positions count from 1, so three characters from 0 on are
\* two. Departements have two digits, but those overseas have three.
DepartementOf(insee) == SubSeq(insee, 1, 2)

\* NULL is in none.
IsIn(x, d) == Place[x] # None /\ DepartementOf(Place[x]) = d

\* apply_filters_to_taxis, apply_filters_to_hails
Passes(x, f) ==
    /\ f.departements # {} => \E d \in f.departements : IsIn(x, d)
    /\ f.insee # {} => Place[x] # None /\ Place[x] \in f.insee
    /\ f.groups # {} => OperatorOf[x] \in f.groups
    /\ f.manager # None => ManagerOf[OperatorOf[x]] = f.manager

-------------------------------------------------------------------------------
(* Figures at milestones *)

\* generate_series(now() - interval '1 year', now(), interval '3 month'): each
\* date comes from the one before it.
Series ==
    [now \in Days |->
        LET date[i \in 0..5] == IF i = 0 THEN AddMonths(now, -12)
                                         ELSE AddMonths(date[i - 1], 3)
        IN  {date[i] : i \in {j \in 0..5 : Upto(date[j], now)}}]

\* Mutant: ORDER BY milestone.
RankOfOldest(d, rows) == Cardinality({e \in rows : Upto(e, d)})

\* ORDER BY milestone DESC
Rank(d, rows) == Cardinality({e \in rows : Upto(d, e)})

\* GROUP BY milestone returns no row for one with nothing before it: the rest of
\* five is filled up with zeros.
AtMilestones(dateOf) ==
    LET Before(d) == {x \in DOMAIN dateOf : Upto(dateOf[x], d)}
        rows == {d \in Series[today] : Before(d) # {}}
        row(i) == UNION {Before(d) : d \in {e \in rows : Rank(e, rows) = i}}
    IN  [today |-> row(1), three_months_ago |-> row(2),
         six_months_ago |-> row(3), twelve_months_ago |-> row(5)]

Count(at) == [when \in DOMAIN at |-> Cardinality(at[when])]

\* since = None: of all times
Since(date, since) == date # None /\ (since # None => Upto(since, date))

AddedTaxis(f, since) ==
    [t \in {u \in Taxis : Passes(u, f) /\ Since(taxi[u].added, since)} |->
        taxi[t].added]

ConnectedTaxis(f, since) ==
    [t \in {u \in Taxis : Passes(u, f) /\ Since(taxi[u].updated, since)} |->
        taxi[t].updated]

get_registered_taxis(f, since) == Count(AtMilestones(AddedTaxis(f, since)))
get_connected_taxis(f, since) == Count(AtMilestones(ConnectedTaxis(f, since)))

\* Mutant: a ride that did not close is also one the taxi did not answer.
HasOutcomeOfAnyLength(h, outcome) ==
    CASE outcome = "timeout_ride" ->
            /\ hail[h].status = "timeout_taxi"
            /\ hail[h].timeout # None /\ hail[h].timeout > 1
      [] OTHER -> hail[h].status = outcome

\* A taxi that did not answer, or one that did not close the ride; NULL is
\* neither less nor more than an hour.
HasOutcome(h, outcome) ==
    CASE outcome = "timeout_taxi" ->
            /\ hail[h].status = outcome
            /\ hail[h].timeout # None /\ hail[h].timeout < 1
      [] outcome = "timeout_ride" ->
            /\ hail[h].status = "timeout_taxi"
            /\ hail[h].timeout # None /\ hail[h].timeout > 1
      [] OTHER -> hail[h].status = outcome

Received(f) == {h \in Hails : Passes(h, f) /\ Since(hail[h].added, threshold)}

get_hails_received(H) == Count(AtMilestones([h \in H |-> hail[h].added]))

\* func.avg leaves NULLs out.
Avg(value) ==
    LET X == {x \in DOMAIN value : value[x] # None} IN
    [sum |-> SumOver(value, X), over |-> Cardinality(X)]

\* Of all the hails counted, however old.
get_average_hail_distance(f) ==
    LET at == AtMilestones([h \in Received(f) |-> hail[h].added]) IN
    [when \in DOMAIN at |-> Avg([h \in at[when] |-> DistanceOf[h]])]

-------------------------------------------------------------------------------
(* Figures of a period: its first day, and the first day after it *)

CurrentYear == <<<<today[1], 1, 1>>, <<today[1] + 1, 1, 1>>>>
LastYear == <<<<today[1] - 1, 1, 1>>, <<today[1], 1, 1>>>>
LastThreeMonths == <<AddMonths(today, -3), today>>

Within(d, period) == Upto(period[1], d) /\ Upto(d, period[2]) /\ d # period[2]

InPeriod(period, f) ==
    {h \in Hails : Passes(h, f) /\ Within(hail[h].added, period)}

\* For each month of the period's years that has any, how many.
get_hails_total(period, f) ==
    LET Month(h) == hail[h].added[2] IN
    [m \in {Month(h) : h \in InPeriod(period, f)} |->
        Cardinality({h \in InPeriod(period, f) : Month(h) = m})]

\* Averages are over the days, weeks or months that had such a hail.
get_hails_average_per(interval, H) ==
    LET Part(h) == Trunc(interval, hail[h].added) IN
    Avg([part \in {Part(h) : h \in H} |-> Cardinality({h \in H : Part(h) = part})])

get_hails_average(period, f) ==
    LET H == InPeriod(period, f) IN
    [daily |-> get_hails_average_per("day", H),
     weekly |-> get_hails_average_per("week", H),
     monthly |-> get_hails_average_per("month", H),
     by_status |-> [status \in {"timeout_customer", "declined_by_customer",
                                 "incident_taxi", "declined_by_taxi"} |->
        LET those == {h \in H : hail[h].status = status} IN
        [daily |-> get_hails_average_per("day", those),
         weekly |-> get_hails_average_per("week", those),
         monthly |-> get_hails_average_per("month", those)]]]

\* GET /stats/hails, without the average times of transitions
stats_hails(f) ==
    [hails_received |-> get_hails_received(Received(f)),
     hails |-> [outcome \in HAIL_OUTCOMES |->
        get_hails_received({h \in Received(f) : HasOutcome(h, outcome)})],
     average_hail_distance |-> get_average_hail_distance(f),
     hails_total |-> [current_year |-> get_hails_total(CurrentYear, f),
                      last_year |-> get_hails_total(LastYear, f)],
     hails_average |-> [last_three_months |-> get_hails_average(LastThreeMonths, f),
                        current_year |-> get_hails_average(CurrentYear, f),
                        last_year |-> get_hails_average(LastYear, f)]]

-------------------------------------------------------------------------------
(* Figures of the taxis, and of the descriptions of their vehicles *)

\* Of all months together, whatever its name.
get_monthly_hails_per_taxi(f) ==
    Avg([t \in {u \in Taxis : Passes(u, f)} |->
            Cardinality({h \in Hails : TaxiOf[h] = t})])

\* Every description of the vehicle, whoever's: the filters are the taxi's.
Radius(f) ==
    [d \in {e \in DOMAIN RadiusOf : e[1] \in Taxis /\ Passes(e[1], f)} |->
        RadiusOf[d]]

get_average_radius(f) == Avg(Radius(f))

get_average_radius_change(f) ==
    LET changed == {d \in DOMAIN Radius(f) : RadiusOf[d] # None} IN
    [sum |-> Cardinality(changed), over |-> Cardinality(DOMAIN Radius(f))]

\* GET /stats/taxis, without the counts of ActiveTaxis
stats_taxis(f) ==
    [registered_taxis |-> get_registered_taxis(f, None),
     connected_taxis |-> get_connected_taxis(f, None),
     registered_taxis_since_threshold |-> get_registered_taxis(f, threshold),
     connected_taxis_since_threshold |-> get_connected_taxis(f, threshold),
     monthly_hails_per_taxi |-> get_monthly_hails_per_taxi(f),
     average_radius |-> get_average_radius(f),
     average_radius_change |-> get_average_radius_change(f)]

-------------------------------------------------------------------------------
(* The public figures of the conurbations *)

FirstOfMonth(date, k) == AddMonths(<<date[1], date[2], 1>>, -k)

\* How many taxis it had k months ago, for each month when it had any.
get_taxis_connected(c) ==
    LET Before(k) == {t \in Taxis : /\ Place[t] \in Members[c]
                                    /\ ~Upto(FirstOfMonth(today, k), taxi[t].added)}
    IN  [k \in {m \in 0..12 : Before(m) # {}} |-> Cardinality(Before(k))]

get_hails_count(c, when) ==
    Cardinality({h \in Hails : /\ Place[h] \in Members[c]
                               /\ Trunc("month", hail[h].added) = Trunc("month", when)})

\* Last month's hails compared with those of the same month a year before: the
\* dictionary of last year has no key for a conurbation that had none then.
get_hails_growth(c) ==
    LET this_month == get_hails_count(c, AddMonths(today, -1))
        last_year == get_hails_count(c, AddMonths(today, -13))
    IN  [sum |-> this_month - last_year, over |-> last_year,
         answers |-> this_month # 0 => last_year # 0]

-------------------------------------------------------------------------------
(* The fleets and the map *)

\* Outer joins, unless a filter asks for more of the taxi.
get_fleet_data(f) ==
    LET fleet(o) == {t \in Taxis : OperatorOf[t] = o /\ Passes(t, f)} IN
    [o \in {g \in Groupement : f = Unfiltered \/ fleet(g) # {}} |->
        Cardinality(fleet(o))]

stats_adsmap(f) ==
    LET In(d) == {t \in Taxis : Passes(t, f) /\ IsIn(t, d)} IN
    [d \in {e \in Departement : In(e) # {}} |-> Cardinality(In(d))]

-------------------------------------------------------------------------------
(* Properties *)

Earlier(d, days) == {e \in Days : Ordinal(e) <= Ordinal(d) - days}

Between(n, dateOf, months) ==
    LET ago == AddMonths(today, -months)
        Upon(E) == Cardinality({x \in DOMAIN dateOf : dateOf[x] \in E})
    IN  n \in Upon(Earlier(ago, 3))..Upon(Earlier(ago, 0))

AreCounted(figures, dateOf) ==
    /\ Between(figures.today, dateOf, 0)
    /\ Between(figures.three_months_ago, dateOf, 3)
    /\ Between(figures.six_months_ago, dateOf, 6)
    /\ Between(figures.twelve_months_ago, dateOf, 12)

InDepartement(d) == [Unfiltered EXCEPT !.departements = {d}]
OfOperators(ops) == [Unfiltered EXCEPT !.groups = ops]
OfManager(m) == [Unfiltered EXCEPT !.manager = m]

Filters ==
    {Unfiltered} \cup {InDepartement(d) : d \in Departement}
        \cup {OfOperators({o}) : o \in Operator} \cup {OfManager(m) : m \in Manager}

\* The rows that come back are matched with milestones by their order alone,
\* and milestones with no row are taken for the oldest. Each figure is the one
\* of its milestone all the same, at the end of a month too: nothing later than
\* the date it names is counted, and nothing is left out but what was added in
\* the three days before (a month may be shorter than the one it is taken from).
MilestonesAreCounted ==
    /\ Cardinality(Series[today]) = 5
    /\ \A f \in Filters :
        LET taxis == stats_taxis(f)
        IN  /\ AreCounted(taxis.registered_taxis, AddedTaxis(f, None))
            /\ AreCounted(taxis.connected_taxis, ConnectedTaxis(f, None))
            /\ AreCounted(taxis.registered_taxis_since_threshold,
                          AddedTaxis(f, threshold))
            /\ AreCounted(taxis.connected_taxis_since_threshold,
                          ConnectedTaxis(f, threshold))
            /\ AreCounted(get_hails_received(Received(f)),
                          [h \in Received(f) |-> hail[h].added])

\* A hail that was still waiting when it was copied has no outcome of the page,
\* nor has one the taxi let time out in just an hour, or in no known time.
HasConcluded(h) ==
    /\ hail[h].status \in HAIL_OUTCOMES \ {"timeout_ride"}
    /\ hail[h].status = "timeout_taxi" => hail[h].timeout \notin {None, 1}

\* The others have one each.
OutcomesAddUp(hails, f) ==
    LET concluded == {h \in Received(f) : HasConcluded(h)} IN
    SumOf([outcome \in HAIL_OUTCOMES |-> hails.hails[outcome].today])
        = get_hails_received(concluded).today

\* Every hail of a period is in one day, one week and one month of it, and in
\* no more parts with one status than with any.
AverageAddsUp(average, number) ==
    \A per \in {"daily", "weekly", "monthly"} :
        /\ average[per].sum = number
        /\ SumOf([st \in DOMAIN average.by_status |-> average.by_status[st][per].sum])
                <= number
        /\ \A st \in DOMAIN average.by_status :
                average.by_status[st][per].over <= average[per].over

YearsAddUp(hails, f) ==
    /\ InPeriod(CurrentYear, f) \cap InPeriod(LastYear, f) = {}
    /\ InPeriod(LastThreeMonths, f)
            \subseteq InPeriod(CurrentYear, f) \cup InPeriod(LastYear, f)
    /\ AverageAddsUp(hails.hails_average.current_year,
                     SumOf(hails.hails_total.current_year))
    /\ AverageAddsUp(hails.hails_average.last_year,
                     SumOf(hails.hails_total.last_year))
    /\ AverageAddsUp(hails.hails_average.last_three_months,
                     Cardinality(InPeriod(LastThreeMonths, f)))

Parts(X, f) == Cardinality({x \in X : Passes(x, f)})

\* A town that was not found, or is overseas, is in no departement.
Located(X) == {x \in X : \E d \in Departement : IsIn(x, d)}

FiltersAddUp(X) ==
    /\ Cardinality(Located(X)) = SumOf([d \in Departement |-> Parts(X, InDepartement(d))])
    /\ \A m \in Manager :
            Parts(X, OfManager(m)) = Parts(X, OfOperators({o \in Operator : ManagerOf[o] = m}))

\* Those of a taxi and of the descriptions of its vehicle: of the operators
\* taken together as of each, and of the hails of taxis no longer there none.
TaxiFiguresAddUp ==
    LET AddsUp(all, of) ==
            /\ all.sum = SumOf([o \in Operator |-> of[o].sum])
            /\ all.over = SumOf([o \in Operator |-> of[o].over])
    IN  /\ AddsUp(get_monthly_hails_per_taxi(Unfiltered),
                  [o \in Operator |-> get_monthly_hails_per_taxi(OfOperators({o}))])
        /\ AddsUp(get_average_radius(Unfiltered),
                  [o \in Operator |-> get_average_radius(OfOperators({o}))])
        /\ AddsUp(get_average_radius_change(Unfiltered),
                  [o \in Operator |-> get_average_radius_change(OfOperators({o}))])
        /\ get_average_radius(Unfiltered).over
                = get_average_radius_change(Unfiltered).sum
        /\ get_monthly_hails_per_taxi(Unfiltered).sum
                = Cardinality({h \in Hails : TaxiOf[h] \in Taxis})

\* A conurbation whose towns are those of a departement, in public and on the
\* pages of the administration: its taxis at the beginning of a month lie
\* between two milestones, and last month's hails are those of the year.
PublicFiguresAgree(c, f) ==
    LET registered == get_registered_taxis(f, None)
        months == get_taxis_connected(c)
        Connected(k) == IF k \in DOMAIN months THEN months[k] ELSE 0
        last == AddMonths(today, -1)
        growth == get_hails_growth(c)
        total == get_hails_total(
                    IF last[1] = today[1] THEN CurrentYear ELSE LastYear, f)
    IN  /\ Connected(0) <= registered.today
        /\ registered.three_months_ago \in Connected(3)..Connected(2)
        /\ registered.six_months_ago \in Connected(6)..Connected(5)
        /\ Connected(12) <= registered.twelve_months_ago
        /\ growth.sum + growth.over
                = IF last[2] \in DOMAIN total THEN total[last[2]] ELSE 0

IsOf(c, d) ==
    \A x \in Taxi \cup Hail : Place[x] \in Members[c] <=> IsIn(x, d)

\* Figures that count the same things in different ways add up to one another:
\* the outcomes to the hails that have come to one, days, weeks and months to
\* the year, each hail in one year, departements to the rows whose town is in
\* one of them, a manager's groups to the manager, the fleets, the radii and the
\* map to the registered taxis, and the public figures to those of the
\* administration.
FiguresAddUp ==
    /\ FiltersAddUp(Taxis) /\ FiltersAddUp(Hails)
    /\ TaxiFiguresAddUp
    /\ \A c \in Conurbation, d \in Departement :
            IsOf(c, d) =>
                PublicFiguresAgree(c, InDepartement(d))
    /\ \A f \in Filters : LET hails == stats_hails(f) IN
        /\ OutcomesAddUp(hails, f)
        /\ YearsAddUp(hails, f)
        /\ SumOf(stats_adsmap(f)) = Parts(Located(Taxis), f)
        /\ SumOf(get_fleet_data(f)) =
                Parts({t \in Taxis : OperatorOf[t] \in Groupement}, f)
===============================================================================
