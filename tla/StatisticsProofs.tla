---------------------------- MODULE StatisticsProofs ----------------------------
(***************************************************************************)
(* What holds of the figures of the administration whatever the tables     *)
(* hold: each is the one of its milestone, by an argument about months and *)
(* their lengths, and those that count the same things in different ways   *)
(* add up, by the lemma that parts of a finite set with different keys     *)
(* count together what the set counts. All follow in every state from its  *)
(* type, which every step preserves.                                       *)
(***************************************************************************)
EXTENDS Statistics, FiniteSetTheorems, FunctionTheorems, TLAPS

-------------------------------------------------------------------------------
(* Sizes and sums *)

\* The elements of a set whose key is one of these.
Having(S, key, keys) == {x \in S : key[x] \in keys}

\* If each key counts the elements of a finite set that have it, then the sum over
\* some keys counts the elements that have one of them.
LEMMA PartsAddUp ==
    ASSUME NEW S, IsFiniteSet(S), NEW key, NEW keys, NEW count,
           \A k \in keys : count[k] = Cardinality(Having(S, key, {k}))
    PROVE  SumOver(count, keys) = Cardinality(Having(S, key, keys))
<1> DEFINE Part(k) == {x \in S : key[x] = k}
           Whole == {x \in S : key[x] \in keys}
           Tagged == UNION {{k} \X (1..count[k]) : k \in keys}
           numbers == [k \in keys |-> CHOOSE b : b \in Bijection(1..Cardinality(Part(k)), Part(k))]
           f == [p \in Tagged |-> numbers[p[1]][p[2]]]
<1>0. \A k \in keys : count[k] = Cardinality(Part(k))
  <2>1. \A k : Having(S, key, {k}) = Part(k)
    BY DEF Having
  <2> QED
    BY <2>1, Zenon
<1>1. \A k \in keys : numbers[k] \in Bijection(1..count[k], Part(k))
  <2> SUFFICES ASSUME NEW k \in keys PROVE numbers[k] \in Bijection(1..count[k], Part(k))
    OBVIOUS
  <2>1. IsFiniteSet(Part(k))
    BY FS_Subset
  <2>2. \E b : b \in Bijection(1..Cardinality(Part(k)), Part(k))
    BY <2>1, FS_CardinalityType, Zenon DEF ExistsBijection
  <2>3. numbers[k] \in Bijection(1..Cardinality(Part(k)), Part(k))
    BY <2>2, Zenon
  <2> HIDE DEF Part, numbers
  <2> QED
    BY <1>0, <2>3
<1>2. \A p : p \in Tagged <=> \E k \in keys : \E i \in 1..count[k] : p = <<k, i>>
  OBVIOUS
<1>3. \A k \in keys : \A i \in 1..count[k] : f[<<k, i>>] = numbers[k][i]
  BY <1>2
<1>4. ASSUME NEW p \in Tagged
      PROVE  \E k \in keys : \E i \in 1..count[k] :
                p = <<k, i>> /\ f[p] = numbers[k][i] /\ f[p] \in Part(k)
  <2>1. PICK k \in keys : \E i \in 1..count[k] : p = <<k, i>>
    BY <1>2
  <2>2. PICK i \in 1..count[k] : p = <<k, i>>
    BY <2>1
  <2>3. numbers[k][i] \in Part(k)
    BY <1>1 DEF Bijection, Injection
  <2> QED
    BY <1>3, <2>2, <2>3
<1>5. \A p, q \in Tagged : f[p] = f[q] => p = q
  <2> SUFFICES ASSUME NEW p \in Tagged, NEW q \in Tagged, f[p] = f[q]
               PROVE  p = q
    BY Zenon
  <2>1. PICK k \in keys : \E i \in 1..count[k] :
                p = <<k, i>> /\ f[p] = numbers[k][i] /\ f[p] \in Part(k)
    BY <1>4, Zenon
  <2>2. PICK i \in 1..count[k] : p = <<k, i>> /\ f[p] = numbers[k][i]
    BY <2>1, Zenon
  <2>3. PICK l \in keys : \E j \in 1..count[l] :
                q = <<l, j>> /\ f[q] = numbers[l][j] /\ f[q] \in Part(l)
    BY <1>4, Zenon
  <2>4. PICK j \in 1..count[l] : q = <<l, j>> /\ f[q] = numbers[l][j]
    BY <2>3, Zenon
  <2>5. k = l
    BY <2>1, <2>3
  <2>6. numbers[k] \in [1..count[k] -> Part(k)] /\ IsInjective(numbers[k])
    BY <1>1 DEF Bijection, Injection
  <2>7. numbers[k][i] = numbers[k][j]
    BY <2>2, <2>4, <2>5, Zenon
  <2>8. i = j
    BY <2>5, <2>6, <2>7 DEF IsInjective
  <2> QED
    BY <2>2, <2>4, <2>5, <2>8, Zenon
<1>6. \A x \in Whole : \E p \in Tagged : f[p] = x
  <2> SUFFICES ASSUME NEW x \in Whole PROVE \E p \in Tagged : f[p] = x
    OBVIOUS
  <2>1. key[x] \in keys /\ x \in Part(key[x])
    OBVIOUS
  <2>2. PICK i \in 1..count[key[x]] : numbers[key[x]][i] = x
    BY <1>1, <2>1 DEF Bijection, Surjection
  <2>3. <<key[x], i>> \in Tagged
    BY <1>2, <2>1
  <2>4. f[<<key[x], i>>] = x
    BY <1>3, <2>1, <2>2
  <2> HIDE DEF f, Tagged
  <2> QED
    BY <2>3, <2>4
<1>7. f \in Injection(Tagged, Whole) /\ f \in Surjection(Tagged, Whole)
  <2>1. f \in [Tagged -> Whole]
    <3>1. f = [p \in Tagged |-> f[p]]
      OBVIOUS
    <3>2. \A p \in Tagged : f[p] \in Whole
      BY <1>4
    <3> HIDE DEF Tagged, Whole, f
    <3> QED
      BY <3>1, <3>2
  <2> HIDE DEF Tagged, Whole, f
  <2>2. DOMAIN f = Tagged
    BY <2>1
  <2> QED
    BY <1>5, <1>6, <2>1, <2>2 DEF Injection, Surjection, IsInjective
<1>8. IsFiniteSet(Whole)
  BY FS_Subset
<1>9. Cardinality(Tagged) = Cardinality(Whole)
  <2> HIDE DEF Tagged, Whole, f
  <2> QED
    BY <1>7, <1>8, FS_Injection
<1> QED
  BY <1>9 DEF SumOver, Having

\* Parts that no element of a finite set is left out of count together what it counts.
LEMMA GroupedSum ==
    ASSUME NEW S, IsFiniteSet(S), NEW key, NEW count,
           \A k \in DOMAIN count : count[k] = Cardinality(Having(S, key, {k})),
           \A x \in S : key[x] \in DOMAIN count
    PROVE  SumOf(count) = Cardinality(S)
<1>1. Having(S, key, DOMAIN count) = S
  BY DEF Having
<1>2. SumOver(count, DOMAIN count) = Cardinality(Having(S, key, DOMAIN count))
  BY PartsAddUp
<1> QED
  BY <1>1, <1>2 DEF SumOf

-------------------------------------------------------------------------------
(* Types *)

\* Empty tables have nothing with the wrong columns.
LEMMA TypeInit == Init => TypeOK
BY DEF Init, TypeOK

\* A row of stats_hails is written once; days pass and taxis change around it.
LEMMA TypeNext == TypeOK /\ [Next]_vars => TypeOK'
<1> SUFFICES ASSUME TypeOK, [Next]_vars PROVE TypeOK'
  OBVIOUS
<1> USE DEF TypeOK
<1>1. ASSUME NEW d \in Days, DayPasses(d) PROVE TypeOK'
  BY <1>1 DEF DayPasses
<1>2. ASSUME NEW t \in Taxi, Registers(t) PROVE TypeOK'
  BY <1>2 DEF Registers
<1>3. ASSUME NEW t \in Taxi, IsUpdated(t) PROVE TypeOK'
  BY <1>3 DEF IsUpdated, Taxis
<1>4. ASSUME NEW t \in Taxi, IsDeleted(t) PROVE TypeOK'
  BY <1>4 DEF IsDeleted, Taxis
<1>5. ASSUME NEW h \in Hail, NEW d \in Days, NEW status \in StatusOf[h],
             NEW timeout \in Duration \cup {None}, IsCounted(h, d, status, timeout)
      PROVE  TypeOK'
  BY <1>5 DEF IsCounted, Status
<1>6. CASE UNCHANGED vars
  BY <1>6 DEF vars
<1> QED
  BY <1>1, <1>2, <1>3, <1>4, <1>5, <1>6 DEF Next

\* The rows the queries read have the columns they name.
THEOREM TypeCorrect == Spec => []TypeOK
BY TypeInit, TypeNext, PTL DEF Spec

\* The tables are finite.
LEMMA FiniteRows ==
    /\ IsFiniteSet(Taxis) /\ IsFiniteSet(Hails)
    /\ Taxis \subseteq Taxi /\ Hails \subseteq Hail
BY FS_Subset, StatisticsAssumption DEF Taxis, Hails

-------------------------------------------------------------------------------
(* Dates *)

Months(date) == date[1] * 12 + date[2] - 1

\* No month is shorter than 28 days.
LEMMA MonthLengths ==
    \A y \in Int, m \in 1..12 : MonthLength(y, m) \in 28..31
BY DEF MonthLength

\* What a date is made of, and its place among dates.
LEMMA DateParts ==
    ASSUME NEW date, IsDate(date)
    PROVE  /\ date[1] \in Int /\ date[2] \in 1..12 /\ date[3] \in 1..31
           /\ Months(date) \in Int /\ Ordinal(date) \in Int
           /\ Ordinal(date) = (Months(date) + 1) * 31 + date[3]
           /\ date[3] <= MonthLength(date[1], date[2])
BY DEF IsDate, Months, Ordinal

\* Years and months follow from the number of months.
LEMMA SameMonth ==
    ASSUME NEW a, IsDate(a), NEW b, IsDate(b), Months(a) = Months(b)
    PROVE  a[1] = b[1] /\ a[2] = b[2]
BY DateParts DEF Months

\* A date of a later month is later, whatever its day.
LEMMA LaterMonth ==
    ASSUME NEW a, IsDate(a), NEW b, IsDate(b), Months(a) < Months(b)
    PROVE  Ordinal(a) < Ordinal(b)
BY DateParts

\* The day stays the same, or is the last of its month.
LEMMA MonthsAdded ==
    ASSUME NEW date, IsDate(date), NEW k \in Int
    PROVE  LET new == AddMonths(date, k) IN
           /\ IsDate(new) /\ Months(new) = Months(date) + k
           /\ new[3] = IF date[3] <= MonthLength(new[1], new[2])
                       THEN date[3] ELSE MonthLength(new[1], new[2])
<1> DEFINE months == date[1] * 12 + date[2] - 1 + k
           y == months \div 12
           m == (months % 12) + 1
           least == IF date[3] <= MonthLength(y, m) THEN date[3] ELSE MonthLength(y, m)
           new == AddMonths(date, k)
<1>1. date[1] \in Int /\ date[2] \in 1..12 /\ date[3] \in 1..31
  BY DateParts
<1>2. months \in Int /\ months = Months(date) + k
  BY <1>1 DEF Months
<1>3. y \in Int /\ m \in 1..12 /\ y * 12 + m - 1 = months
  <2> HIDE DEF months
  <2> QED
    BY <1>2
<1>4. new = <<y, m, least>>
  BY DEF AddMonths
<1> HIDE DEF months, y, m, new
<1>5. MonthLength(y, m) \in 28..31
  BY <1>3, MonthLengths
<1>6. new[1] = y /\ new[2] = m /\ new[3] = least
  BY <1>4
<1>7. IsDate(new)
  <2>1. new[3] \in 1..31 /\ new[3] <= MonthLength(y, m)
    BY <1>1, <1>5, <1>6
  <2> QED
    BY <1>3, <1>4, <1>6, <2>1 DEF IsDate
<1>8. Months(new) = Months(date) + k
  BY <1>2, <1>3, <1>6 DEF Months
<1> QED
  BY <1>6, <1>7, <1>8 DEF new

-------------------------------------------------------------------------------
(* Milestones *)

\* A quarter i of the year that ends today: the day of today, or a day before it
\* when it has gone through a shorter month.
IsMilestone(date, i) ==
    /\ IsDate(date)
    /\ Months(date) = Months(today) - 12 + 3 * i
    /\ date[3] <= today[3]
    /\ date[3] # today[3] => date[3] >= 28

\* generate_series begins a year ago.
LEMMA FirstMilestone ==
    ASSUME IsDate(today)
    PROVE  IsMilestone(AddMonths(today, -12), 0)
<1> DEFINE new == AddMonths(today, -12)
<1>1. /\ IsDate(new) /\ Months(new) = Months(today) + (-12)
      /\ new[3] = IF today[3] <= MonthLength(new[1], new[2])
                  THEN today[3] ELSE MonthLength(new[1], new[2])
  BY MonthsAdded
<1> HIDE DEF new
<1>2. MonthLength(new[1], new[2]) \in 28..31 /\ today[3] \in 1..31 /\ Months(today) \in Int
  BY <1>1, DateParts, MonthLengths
<1>3. IsMilestone(new, 0)
  BY <1>1, <1>2 DEF IsMilestone
<1> QED
  BY <1>3 DEF new

\* And goes on by three months from one milestone to the next.
LEMMA NextMilestone ==
    ASSUME IsDate(today), NEW i \in Int, NEW date, IsMilestone(date, i)
    PROVE  IsMilestone(AddMonths(date, 3), i + 1)
<1> DEFINE new == AddMonths(date, 3)
<1>1. /\ IsDate(new) /\ Months(new) = Months(date) + 3
      /\ new[3] = IF date[3] <= MonthLength(new[1], new[2])
                  THEN date[3] ELSE MonthLength(new[1], new[2])
  BY MonthsAdded DEF IsMilestone
<1> HIDE DEF new
<1>2. /\ MonthLength(new[1], new[2]) \in 28..31
      /\ today[3] \in 1..31 /\ Months(today) \in Int
      /\ date[3] \in 1..31 /\ Months(date) \in Int
  BY <1>1, DateParts, MonthLengths DEF IsMilestone
<1>3. IsMilestone(new, i + 1)
  BY <1>1, <1>2 DEF IsMilestone
<1> QED
  BY <1>3 DEF new

\* A milestone has come when it is one of the first five.
LEMMA MilestonesToCome ==
    ASSUME IsDate(today), NEW i \in 0..5, NEW date, IsMilestone(date, i)
    PROVE  Upto(date, today) <=> i <= 4
<1>1. /\ Months(today) \in Int /\ today[3] \in 1..31
      /\ Ordinal(today) = (Months(today) + 1) * 31 + today[3]
  BY DateParts
<1>2. /\ Months(date) \in Int /\ date[3] \in 1..31
      /\ Ordinal(date) = (Months(date) + 1) * 31 + date[3]
  BY DateParts DEF IsMilestone
<1> QED
  BY <1>1, <1>2 DEF IsMilestone, Upto

AreMilestones(date) ==
    /\ Series[today] = {date[i] : i \in 0..4}
    /\ \A i \in 0..4 : IsMilestone(date[i], i)

\* So there are five, and none in the future.
LEMMA SeriesAreMilestones ==
    ASSUME today \in Days
    PROVE  \E date : AreMilestones(date)
<1>0. IsDate(today)
  BY DaysAreDates
<1> DEFINE Step(f) == [i \in 0..5 |-> IF i = 0 THEN AddMonths(today, -12)
                                             ELSE AddMonths(f[i - 1], 3)]
           d0 == AddMonths(today, -12)
           d1 == AddMonths(d0, 3)
           d2 == AddMonths(d1, 3)
           d3 == AddMonths(d2, 3)
           d4 == AddMonths(d3, 3)
           d5 == AddMonths(d4, 3)
           g == [i \in 0..5 |-> CASE i = 0 -> d0 [] i = 1 -> d1 [] i = 2 -> d2
                                  [] i = 3 -> d3 [] i = 4 -> d4 [] i = 5 -> d5]
           date == CHOOSE f : f = Step(f)
<1>1. g = Step(g)
  <2> DEFINE e(i) == IF i = 0 THEN AddMonths(today, -12) ELSE AddMonths(g[i - 1], 3)
  <2>1. g[0] = d0 /\ g[1] = d1 /\ g[2] = d2 /\ g[3] = d3 /\ g[4] = d4 /\ g[5] = d5
    <3> HIDE DEF d0, d1, d2, d3, d4, d5
    <3> QED
      OBVIOUS
  <2>2. \A i \in 0..5 : i = 0 \/ i = 1 \/ i = 2 \/ i = 3 \/ i = 4 \/ i = 5
    OBVIOUS
  <2>3. e(0) = d0 /\ e(1) = d1 /\ e(2) = d2 /\ e(3) = d3 /\ e(4) = d4 /\ e(5) = d5
    <3> HIDE DEF g
    <3> QED
      BY <2>1
  <2>4. \A i \in 0..5 : g[i] = e(i)
    <3> HIDE DEF g, e, d0, d1, d2, d3, d4, d5
    <3> QED
      BY <2>1, <2>2, <2>3
  <2>5. g = [i \in 0..5 |-> g[i]]
    <3> HIDE DEF d0, d1, d2, d3, d4, d5
    <3> QED
      OBVIOUS
  <2>6. g = [i \in 0..5 |-> e(i)]
    <3> HIDE DEF g, e
    <3> QED
      BY <2>4, <2>5
  <2> QED
    BY <2>6 DEF e, Step
<1>2. date = Step(date)
  <2>1. \E f : f = Step(f)
    <3> HIDE DEF g, Step
    <3> QED
      BY <1>1
  <2> HIDE DEF Step
  <2> QED
    BY <2>1, Zenon
<1>3. Series[today] = {date[i] : i \in {j \in 0..5 : Upto(date[j], today)}}
  BY DEF Series
<1> HIDE DEF date, g, d0, d1, d2, d3, d4, d5
<1>4. date[0] = AddMonths(today, -12)
  BY <1>2
<1>5. \A i \in 1..5 : date[i] = AddMonths(date[i - 1], 3)
  BY <1>2
<1> HIDE DEF Step
<1>6. \A i \in 0..4 : IsMilestone(date[i], i) => IsMilestone(date[i + 1], i + 1)
  <2> SUFFICES ASSUME NEW i \in 0..4, IsMilestone(date[i], i)
               PROVE  IsMilestone(date[i + 1], i + 1)
    OBVIOUS
  <2>1. i + 1 \in 1..5 /\ (i + 1) - 1 = i
    OBVIOUS
  <2>2. date[i + 1] = AddMonths(date[i], 3)
    BY <1>5, <2>1
  <2> QED
    BY <1>0, <2>2, NextMilestone
<1>7. IsMilestone(date[0], 0) /\ IsMilestone(date[1], 1) /\ IsMilestone(date[2], 2)
      /\ IsMilestone(date[3], 3) /\ IsMilestone(date[4], 4) /\ IsMilestone(date[5], 5)
  <2>0. IsMilestone(date[0], 0)
    BY <1>0, <1>4, FirstMilestone
  <2>1. IsMilestone(date[1], 1)
    BY <1>6, <2>0
  <2>2. IsMilestone(date[2], 2)
    BY <1>6, <2>1
  <2>3. IsMilestone(date[3], 3)
    BY <1>6, <2>2
  <2>4. IsMilestone(date[4], 4)
    BY <1>6, <2>3
  <2>5. IsMilestone(date[5], 5)
    BY <1>6, <2>4
  <2> QED
    BY <2>0, <2>1, <2>2, <2>3, <2>4, <2>5
<1>8. \A i \in 0..5 : IsMilestone(date[i], i)
  <2>1. \A i \in 0..5 : i = 0 \/ i = 1 \/ i = 2 \/ i = 3 \/ i = 4 \/ i = 5
    OBVIOUS
  <2> QED
    BY <1>7, <2>1
<1>9. {j \in 0..5 : Upto(date[j], today)} = 0..4
  <2>1. \A j \in 0..5 : Upto(date[j], today) <=> j <= 4
    BY <1>0, <1>8, MilestonesToCome
  <2> QED
    BY <2>1
<1>10. AreMilestones(date)
  <2>1. \A i \in 0..4 : IsMilestone(date[i], i)
    BY <1>8
  <2>2. Series[today] = {date[i] : i \in 0..4}
    BY <1>3, <1>9
  <2> QED
    BY <2>1, <2>2 DEF AreMilestones
<1> QED
  BY <1>10

\* The five milestones, oldest first.
Milestone == CHOOSE date : AreMilestones(date)

\* They are different dates in order, each of a quarter of its own.
LEMMA MilestonesAre ==
    ASSUME today \in Days
    PROVE  /\ Series[today] = {Milestone[i] : i \in 0..4}
           /\ \A i \in 0..4 : /\ IsMilestone(Milestone[i], i)
                              /\ Ordinal(Milestone[i]) \in Int
           /\ \A i, j \in 0..4 : Upto(Milestone[i], Milestone[j]) <=> i <= j
           /\ \A i, j \in 0..4 : Milestone[i] = Milestone[j] => i = j
<1>1. AreMilestones(Milestone)
  <2>1. \E date : AreMilestones(date)
    BY SeriesAreMilestones
  <2> QED
    BY <2>1, Zenon DEF Milestone
<1>2. \A i \in 0..4 : IsMilestone(Milestone[i], i)
  BY <1>1 DEF AreMilestones
<1>3. \A i \in 0..4 : /\ Ordinal(Milestone[i]) \in Int /\ Months(Milestone[i]) \in Int
                      /\ IsDate(Milestone[i])
  BY <1>2, DateParts DEF IsMilestone
<1>4. Months(today) \in Int
  BY DaysAreDates, DateParts
<1>5. ASSUME NEW i \in 0..4, NEW j \in 0..4, i < j
      PROVE  Ordinal(Milestone[i]) < Ordinal(Milestone[j])
  <2>1. Months(Milestone[i]) < Months(Milestone[j])
    BY <1>2, <1>4, <1>5 DEF IsMilestone
  <2> QED
    BY <1>3, <2>1, LaterMonth
<1>6. \A i, j \in 0..4 : Upto(Milestone[i], Milestone[j]) <=> i <= j
  <2> SUFFICES ASSUME NEW i \in 0..4, NEW j \in 0..4
               PROVE  Upto(Milestone[i], Milestone[j]) <=> i <= j
    OBVIOUS
  <2>1. i < j \/ i = j \/ j < i
    OBVIOUS
  <2> QED
    BY <1>3, <1>5, <2>1 DEF Upto
<1>7. \A i, j \in 0..4 : Milestone[i] = Milestone[j] => i = j
  <2> SUFFICES ASSUME NEW i \in 0..4, NEW j \in 0..4, Milestone[i] = Milestone[j]
               PROVE  i = j
    OBVIOUS
  <2>1. i <= j /\ j <= i
    BY <1>3, <1>6 DEF Upto
  <2> QED
    BY <2>1
<1>8. Series[today] = {Milestone[i] : i \in 0..4}
  BY <1>1 DEF AreMilestones
<1> QED
  BY <1>2, <1>3, <1>6, <1>7, <1>8

\* From a milestone on there are those after it.
LEMMA LaterMilestones ==
    ASSUME today \in Days, NEW i \in 0..4
    PROVE  Cardinality({Milestone[j] : j \in i..4}) = 5 - i
<1> DEFINE later == {Milestone[j] : j \in i..4}
           f == [j \in i..4 |-> Milestone[j]]
<1>1. f \in [i..4 -> later]
  OBVIOUS
<1>2. \A j, k \in i..4 : f[j] = f[k] => j = k
  BY MilestonesAre
<1>3. \A d \in later : \E j \in i..4 : f[j] = d
  OBVIOUS
<1>4. IsFiniteSet(i..4) /\ Cardinality(i..4) = 5 - i
  BY FS_Interval
<1> HIDE DEF f, later
<1>5. ExistsBijection(i..4, later)
  <2>1. f \in Bijection(i..4, later)
    BY <1>1, <1>2, <1>3 DEF Bijection, Injection, Surjection, IsInjective
  <2> QED
    BY <2>1, Zenon DEF ExistsBijection
<1>6. Cardinality(later) = Cardinality(i..4)
  BY <1>4, <1>5, FS_Bijection
<1> QED
  BY <1>4, <1>6 DEF later

-------------------------------------------------------------------------------
(* What is counted at a milestone *)

BeforeDate(dateOf, d) == {x \in DOMAIN dateOf : Upto(dateOf[x], d)}

Dated(dateOf) ==
    /\ IsFiniteSet(DOMAIN dateOf)
    /\ \A x \in DOMAIN dateOf : dateOf[x] \in Days

\* Dates of rows have a place among dates.
LEMMA DatedRows ==
    ASSUME NEW dateOf, Dated(dateOf)
    PROVE  \A x \in DOMAIN dateOf : IsDate(dateOf[x]) /\ Ordinal(dateOf[x]) \in Int
BY DaysAreDates, DateParts DEF Dated

\* The rows that come back, the newest first, are those of the last milestones:
\* nothing is before one that has no row, nor before those that precede it.
LEMMA RowsAreOfMilestones ==
    ASSUME today \in Days, NEW dateOf, Dated(dateOf)
    PROVE  AtMilestones(dateOf) =
              [today |-> BeforeDate(dateOf, Milestone[4]),
               three_months_ago |-> BeforeDate(dateOf, Milestone[3]),
               six_months_ago |-> BeforeDate(dateOf, Milestone[2]),
               twelve_months_ago |-> BeforeDate(dateOf, Milestone[0])]
<1> DEFINE Before(d) == {x \in DOMAIN dateOf : Upto(dateOf[x], d)}
           rows == {d \in Series[today] : Before(d) # {}}
           row(i) == UNION {Before(d) : d \in {e \in rows : Rank(e, rows) = i}}
<1>1. \A i, j \in 0..4 : i <= j => Before(Milestone[i]) \subseteq Before(Milestone[j])
  <2> SUFFICES ASSUME NEW i \in 0..4, NEW j \in 0..4, i <= j,
                      NEW x \in DOMAIN dateOf, Upto(dateOf[x], Milestone[i])
               PROVE  Upto(dateOf[x], Milestone[j])
    OBVIOUS
  <2>1. Upto(Milestone[i], Milestone[j])
    BY MilestonesAre
  <2>2. /\ Ordinal(dateOf[x]) \in Int
        /\ Ordinal(Milestone[i]) \in Int /\ Ordinal(Milestone[j]) \in Int
    BY MilestonesAre, DatedRows
  <2> QED
    BY <2>1, <2>2 DEF Upto
<1>2. \A d : d \in rows <=> \E i \in 0..4 : d = Milestone[i] /\ Before(Milestone[i]) # {}
  <2> HIDE DEF Before
  <2> QED
    BY MilestonesAre
<1> HIDE DEF Before, rows
<1>3. ASSUME NEW i \in 0..4, Before(Milestone[i]) # {}
      PROVE  Rank(Milestone[i], rows) = 5 - i
  <2>1. {e \in rows : Upto(Milestone[i], e)} = {Milestone[j] : j \in i..4}
    <3>1. ASSUME NEW e \in rows, Upto(Milestone[i], e)
          PROVE  e \in {Milestone[j] : j \in i..4}
      <4>1. PICK j \in 0..4 : e = Milestone[j]
        BY <1>2
      <4>2. i <= j
        BY <3>1, <4>1, MilestonesAre
      <4> QED
        BY <4>1, <4>2
    <3>2. ASSUME NEW j \in i..4
          PROVE  Milestone[j] \in rows /\ Upto(Milestone[i], Milestone[j])
      <4>1. j \in 0..4 /\ i <= j
        OBVIOUS
      <4>2. Before(Milestone[j]) # {}
        BY <1>1, <1>3, <4>1
      <4> QED
        BY <1>2, <4>1, <4>2, MilestonesAre
    <3> QED
      BY <3>1, <3>2
  <2> QED
    BY <2>1, LaterMilestones DEF Rank
<1>4. ASSUME NEW i \in 0..4
      PROVE  row(5 - i) = Before(Milestone[i])
  <2> DEFINE those == {e \in rows : Rank(e, rows) = 5 - i}
  <2>1. \A e \in those : e = Milestone[i] /\ Before(Milestone[i]) # {}
    <3> SUFFICES ASSUME NEW e \in rows, Rank(e, rows) = 5 - i
                 PROVE  e = Milestone[i] /\ Before(Milestone[i]) # {}
      OBVIOUS
    <3>1. PICK j \in 0..4 : e = Milestone[j] /\ Before(Milestone[j]) # {}
      BY <1>2
    <3>2. 5 - j = 5 - i
      BY <1>3, <3>1
    <3>3. j = i
      BY <3>2
    <3> QED
      BY <3>1, <3>3
  <2>2. Before(Milestone[i]) # {} => Milestone[i] \in those
    BY <1>2, <1>3
  <2>3. row(5 - i) = UNION {Before(d) : d \in those}
    OBVIOUS
  <2> HIDE DEF those, row
  <2>4. CASE Before(Milestone[i]) = {}
    BY <2>1, <2>3, <2>4
  <2>5. CASE Before(Milestone[i]) # {}
    <3>1. those = {Milestone[i]}
      BY <2>1, <2>2, <2>5
    <3> QED
      BY <2>3, <3>1
  <2> QED
    BY <2>4, <2>5
<1>5. AtMilestones(dateOf) = [today |-> row(1), three_months_ago |-> row(2),
            six_months_ago |-> row(3), twelve_months_ago |-> row(5)]
  BY DEF AtMilestones, row, rows, Before
<1>6. /\ row(1) = Before(Milestone[4]) /\ row(2) = Before(Milestone[3])
      /\ row(3) = Before(Milestone[2]) /\ row(5) = Before(Milestone[0])
  <2> HIDE DEF row
  <2>1. row(5 - 4) = Before(Milestone[4]) /\ row(5 - 3) = Before(Milestone[3])
        /\ row(5 - 2) = Before(Milestone[2]) /\ row(5 - 0) = Before(Milestone[0])
    BY <1>4
  <2>2. 5 - 4 = 1 /\ 5 - 3 = 2 /\ 5 - 2 = 3 /\ 5 - 0 = 5
    OBVIOUS
  <2> QED
    BY <2>1, <2>2
<1>7. \A d : Before(d) = BeforeDate(dateOf, d)
  BY DEF Before, BeforeDate
<1> HIDE DEF row
<1> QED
  BY <1>5, <1>6, <1>7

\* What is counted before a milestone can be counted.
LEMMA FiniteBefore ==
    ASSUME NEW dateOf, Dated(dateOf), NEW d
    PROVE  /\ IsFiniteSet(BeforeDate(dateOf, d))
           /\ Cardinality(BeforeDate(dateOf, d)) \in Nat
BY FS_Subset, FS_CardinalityType DEF Dated, BeforeDate

\* Counts at milestones are counts of what is before them.
LEMMA CountedAtMilestones ==
    ASSUME today \in Days, NEW dateOf, Dated(dateOf)
    PROVE  Count(AtMilestones(dateOf)) =
              [today |-> Cardinality(BeforeDate(dateOf, Milestone[4])),
               three_months_ago |-> Cardinality(BeforeDate(dateOf, Milestone[3])),
               six_months_ago |-> Cardinality(BeforeDate(dateOf, Milestone[2])),
               twelve_months_ago |-> Cardinality(BeforeDate(dateOf, Milestone[0]))]
BY RowsAreOfMilestones DEF Count

\* A milestone is the day so many months ago, or one of the three before it.
LEMMA MilestonesAgo ==
    ASSUME today \in Days, NEW i \in 0..4
    PROVE  LET ago == AddMonths(today, -(12 - 3 * i)) IN
           /\ IsDate(ago) /\ Ordinal(ago) \in Int
           /\ Ordinal(Milestone[i]) \in (Ordinal(ago) - 3)..Ordinal(ago)
<1> DEFINE ago == AddMonths(today, -(12 - 3 * i))
           date == Milestone[i]
<1>1. IsDate(today)
  BY DaysAreDates
<1>2. /\ IsDate(ago) /\ Months(ago) = Months(today) + (-(12 - 3 * i))
      /\ ago[3] = IF today[3] <= MonthLength(ago[1], ago[2])
                  THEN today[3] ELSE MonthLength(ago[1], ago[2])
  <2> DEFINE k == -(12 - 3 * i)
  <2>1. k \in Int
    OBVIOUS
  <2> HIDE DEF k
  <2>2. /\ IsDate(AddMonths(today, k)) /\ Months(AddMonths(today, k)) = Months(today) + k
        /\ AddMonths(today, k)[3] =
                IF today[3] <= MonthLength(AddMonths(today, k)[1], AddMonths(today, k)[2])
                THEN today[3]
                ELSE MonthLength(AddMonths(today, k)[1], AddMonths(today, k)[2])
    BY <1>1, <2>1, MonthsAdded
  <2> QED
    BY <2>2 DEF k
<1>3. IsMilestone(date, i)
  BY MilestonesAre
<1> HIDE DEF ago, date
<1>4. /\ Months(today) \in Int /\ today[3] \in 1..31
      /\ Months(ago) \in Int /\ ago[3] \in 1..31
      /\ Ordinal(ago) \in Int /\ Ordinal(ago) = (Months(ago) + 1) * 31 + ago[3]
  BY <1>1, <1>2, DateParts
<1>5. /\ Months(date) \in Int /\ date[3] \in 1..31
      /\ Ordinal(date) \in Int /\ Ordinal(date) = (Months(date) + 1) * 31 + date[3]
      /\ date[3] <= MonthLength(date[1], date[2])
  BY <1>3, DateParts DEF IsMilestone
<1>6. Months(date) = Months(ago)
  BY <1>2, <1>3, <1>4, <1>5 DEF IsMilestone
<1>7. date[1] = ago[1] /\ date[2] = ago[2]
  BY <1>2, <1>3, <1>6, SameMonth DEF IsMilestone
<1>8. MonthLength(ago[1], ago[2]) \in 28..31
  BY <1>2, DateParts, MonthLengths
<1>9. date[3] <= ago[3] /\ ago[3] - 3 <= date[3]
  BY <1>2, <1>3, <1>4, <1>5, <1>7, <1>8 DEF IsMilestone
<1> QED
  BY <1>2, <1>4, <1>5, <1>6, <1>9 DEF ago, date

\* What is before a milestone was there so many months ago, and all of it but
\* the last three days.
LEMMA CountIsBetween ==
    ASSUME today \in Days, NEW dateOf, Dated(dateOf), NEW i \in 0..4
    PROVE  Between(Cardinality(BeforeDate(dateOf, Milestone[i])), dateOf, 12 - 3 * i)
<1> DEFINE ago == AddMonths(today, -(12 - 3 * i))
           Upon(E) == {x \in DOMAIN dateOf : dateOf[x] \in E}
           counted == BeforeDate(dateOf, Milestone[i])
<1>1. /\ Ordinal(ago) \in Int /\ Ordinal(Milestone[i]) \in Int
      /\ Ordinal(Milestone[i]) \in (Ordinal(ago) - 3)..Ordinal(ago)
  BY MilestonesAgo, MilestonesAre
<1> HIDE DEF ago
<1>2. Upon(Earlier(ago, 3)) \subseteq counted /\ counted \subseteq Upon(Earlier(ago, 0))
  <2> SUFFICES ASSUME NEW x \in DOMAIN dateOf
               PROVE  /\ dateOf[x] \in Earlier(ago, 3) => Upto(dateOf[x], Milestone[i])
                      /\ Upto(dateOf[x], Milestone[i]) => dateOf[x] \in Earlier(ago, 0)
    BY DEF BeforeDate
  <2>1. dateOf[x] \in Days /\ Ordinal(dateOf[x]) \in Int
    BY DatedRows DEF Dated
  <2> QED
    BY <1>1, <2>1 DEF Earlier, Upto
<1>3. /\ IsFiniteSet(counted) /\ IsFiniteSet(Upon(Earlier(ago, 0)))
      /\ IsFiniteSet(Upon(Earlier(ago, 3)))
  BY FiniteBefore, FS_Subset DEF Dated
<1> HIDE DEF Upon, counted
<1>4. /\ Cardinality(Upon(Earlier(ago, 3))) <= Cardinality(counted)
      /\ Cardinality(counted) <= Cardinality(Upon(Earlier(ago, 0)))
  BY <1>2, <1>3, FS_Subset
<1>5. /\ Cardinality(Upon(Earlier(ago, 3))) \in Nat /\ Cardinality(counted) \in Nat
      /\ Cardinality(Upon(Earlier(ago, 0))) \in Nat
  BY <1>3, FS_CardinalityType
<1>6. Cardinality(counted) \in
            Cardinality(Upon(Earlier(ago, 3)))..Cardinality(Upon(Earlier(ago, 0)))
  BY <1>4, <1>5
<1> QED
  BY <1>6 DEF Between, ago, Upon, counted

\* Four counts, each of its milestone.
LEMMA MilestoneCounts ==
    ASSUME today \in Days, NEW dateOf, Dated(dateOf), NEW figures,
           figures.today = Cardinality(BeforeDate(dateOf, Milestone[4])),
           figures.three_months_ago = Cardinality(BeforeDate(dateOf, Milestone[3])),
           figures.six_months_ago = Cardinality(BeforeDate(dateOf, Milestone[2])),
           figures.twelve_months_ago = Cardinality(BeforeDate(dateOf, Milestone[0]))
    PROVE  AreCounted(figures, dateOf)
<1>1. 12 - 3 * 4 = 0 /\ 12 - 3 * 3 = 3 /\ 12 - 3 * 2 = 6 /\ 12 - 3 * 0 = 12
  OBVIOUS
<1>2. \A i \in 0..4 :
        Between(Cardinality(BeforeDate(dateOf, Milestone[i])), dateOf, 12 - 3 * i)
  BY CountIsBetween
<1> QED
  BY <1>1, <1>2 DEF AreCounted

\* The rows of the tables have dates.
LEMMA RowsAreDated ==
    ASSUME TypeOK, NEW f, NEW since, NEW H \in SUBSET Hails
    PROVE  /\ Dated(AddedTaxis(f, since)) /\ Dated(ConnectedTaxis(f, since))
           /\ Dated([h \in H |-> hail[h].added])
<1> USE DEF TypeOK
<1>1. \A t \in Taxis : taxi[t].added \in Days /\ taxi[t].updated \in Days \cup {None}
  BY DEF Taxis
<1>2. \A h \in Hails : hail[h].added \in Days
  BY DEF Hails
<1>3. Dated(AddedTaxis(f, since))
  <2> DEFINE those == {u \in Taxis : Passes(u, f) /\ Since(taxi[u].added, since)}
  <2>1. IsFiniteSet(those)
    BY FiniteRows, FS_Subset
  <2> QED
    BY <1>1, <2>1 DEF Dated, AddedTaxis
<1>4. Dated(ConnectedTaxis(f, since))
  <2> DEFINE those == {u \in Taxis : Passes(u, f) /\ Since(taxi[u].updated, since)}
  <2>1. IsFiniteSet(those)
    BY FiniteRows, FS_Subset
  <2>2. \A t \in those : taxi[t].updated \in Days
    BY <1>1 DEF Since
  <2> QED
    BY <2>1, <2>2 DEF Dated, ConnectedTaxis
<1>5. Dated([h \in H |-> hail[h].added])
  <2>1. IsFiniteSet(H)
    BY FiniteRows, FS_Subset
  <2> QED
    BY <1>2, <2>1 DEF Dated
<1> QED
  BY <1>3, <1>4, <1>5

\* What a page counts are rows of the table.
LEMMA ReceivedAreHails == \A f : Received(f) \subseteq Hails
BY DEF Received

\* Figures that are counts of dated rows.
LEMMA CountsAreCounted ==
    ASSUME today \in Days, NEW dateOf, Dated(dateOf)
    PROVE  AreCounted(Count(AtMilestones(dateOf)), dateOf)
<1> DEFINE figures == Count(AtMilestones(dateOf))
<1>1. figures =
              [today |-> Cardinality(BeforeDate(dateOf, Milestone[4])),
               three_months_ago |-> Cardinality(BeforeDate(dateOf, Milestone[3])),
               six_months_ago |-> Cardinality(BeforeDate(dateOf, Milestone[2])),
               twelve_months_ago |-> Cardinality(BeforeDate(dateOf, Milestone[0]))]
  BY CountedAtMilestones
<1>2. /\ figures.today = Cardinality(BeforeDate(dateOf, Milestone[4]))
      /\ figures.three_months_ago = Cardinality(BeforeDate(dateOf, Milestone[3]))
      /\ figures.six_months_ago = Cardinality(BeforeDate(dateOf, Milestone[2]))
      /\ figures.twelve_months_ago = Cardinality(BeforeDate(dateOf, Milestone[0]))
  BY <1>1
<1> HIDE DEF figures
<1>3. AreCounted(figures, dateOf)
  BY <1>2, MilestoneCounts
<1> QED
  BY <1>3 DEF figures

\* Each figure is the one of its milestone, whatever rows come back.
THEOREM MilestonesCorrect == Spec => []MilestonesAreCounted
<1>1. ASSUME TypeOK PROVE MilestonesAreCounted
  <2>1. today \in Days
    BY <1>1 DEF TypeOK
  <2>2. Cardinality(Series[today]) = 5
    BY <2>1, MilestonesAre, LaterMilestones
  <2>3. ASSUME NEW f
        PROVE  LET taxis == stats_taxis(f)
               IN  /\ AreCounted(taxis.registered_taxis, AddedTaxis(f, None))
                   /\ AreCounted(taxis.connected_taxis, ConnectedTaxis(f, None))
                   /\ AreCounted(taxis.registered_taxis_since_threshold,
                                 AddedTaxis(f, threshold))
                   /\ AreCounted(taxis.connected_taxis_since_threshold,
                                 ConnectedTaxis(f, threshold))
                   /\ AreCounted(get_hails_received(Received(f)),
                                 [h \in Received(f) |-> hail[h].added])
    <3>1. /\ Dated(AddedTaxis(f, None)) /\ Dated(ConnectedTaxis(f, None))
          /\ Dated(AddedTaxis(f, threshold)) /\ Dated(ConnectedTaxis(f, threshold))
          /\ Dated([h \in Received(f) |-> hail[h].added])
      BY <1>1, RowsAreDated, ReceivedAreHails
    <3>2. /\ AreCounted(get_registered_taxis(f, None), AddedTaxis(f, None))
          /\ AreCounted(get_connected_taxis(f, None), ConnectedTaxis(f, None))
          /\ AreCounted(get_registered_taxis(f, threshold), AddedTaxis(f, threshold))
          /\ AreCounted(get_connected_taxis(f, threshold), ConnectedTaxis(f, threshold))
      BY <2>1, <3>1, CountsAreCounted DEF get_registered_taxis, get_connected_taxis
    <3>3. AreCounted(get_hails_received(Received(f)),
                     [h \in Received(f) |-> hail[h].added])
      BY <2>1, <3>1, CountsAreCounted DEF get_hails_received
    <3>4. /\ stats_taxis(f).registered_taxis = get_registered_taxis(f, None)
          /\ stats_taxis(f).connected_taxis = get_connected_taxis(f, None)
          /\ stats_taxis(f).registered_taxis_since_threshold
                = get_registered_taxis(f, threshold)
          /\ stats_taxis(f).connected_taxis_since_threshold
                = get_connected_taxis(f, threshold)
      BY DEF stats_taxis
    <3> QED
      BY <3>2, <3>3, <3>4
  <2> QED
    BY <2>2, <2>3 DEF MilestonesAreCounted
<1> QED
  BY <1>1, TypeCorrect, PTL

-------------------------------------------------------------------------------
(* Filters *)

\* What each filter lets through.
LEMMA FiltersPass ==
    /\ \A x : Passes(x, Unfiltered)
    /\ \A x, d : Passes(x, InDepartement(d)) <=> IsIn(x, d)
    /\ \A x, o : Passes(x, OfOperators({o})) <=> OperatorOf[x] = o
    /\ \A x, m : m \in Manager =>
            /\ Passes(x, OfManager(m)) <=> ManagerOf[OperatorOf[x]] = m
            /\ Passes(x, OfOperators({o \in Operator : ManagerOf[o] = m}))
                    <=> OperatorOf[x] \in {o \in Operator : ManagerOf[o] = m}
<1>1. \A x : Passes(x, Unfiltered)
  BY DEF Passes, Unfiltered
<1>2. \A x, d : Passes(x, InDepartement(d)) <=> IsIn(x, d)
  BY DEF Passes, Unfiltered, InDepartement
<1>3. \A x, o : Passes(x, OfOperators({o})) <=> OperatorOf[x] = o
  BY DEF Passes, Unfiltered, OfOperators
<1>4. ASSUME NEW x, NEW m \in Manager
      PROVE  /\ Passes(x, OfManager(m)) <=> ManagerOf[OperatorOf[x]] = m
             /\ Passes(x, OfOperators({o \in Operator : ManagerOf[o] = m}))
                    <=> OperatorOf[x] \in {o \in Operator : ManagerOf[o] = m}
  <2>1. m # None /\ {o \in Operator : ManagerOf[o] = m} # {}
    BY StatisticsAssumption
  <2>2. Passes(x, OfManager(m)) <=> ManagerOf[OperatorOf[x]] = m
    BY <2>1 DEF Passes, Unfiltered, OfManager
  <2>3. \A ops : ops # {} => (Passes(x, OfOperators(ops)) <=> OperatorOf[x] \in ops)
    BY DEF Passes, Unfiltered, OfOperators
  <2> QED
    BY <2>1, <2>2, <2>3
<1> QED
  BY <1>1, <1>2, <1>3, <1>4

\* Departements share out the rows, and a manager's are those of his operators.
LEMMA FiltersSplit ==
    ASSUME NEW X \in SUBSET (Taxi \cup Hail), IsFiniteSet(X)
    PROVE  FiltersAddUp(X)
<1>1. Cardinality(Located(X)) = SumOf([d \in Departement |-> Parts(X, InDepartement(d))])
  <2> DEFINE count == [d \in Departement |-> Parts(X, InDepartement(d))]
             S == Located(X)
             key == [x \in S |-> DepartementOf(Place[x])]
  <2>1. \A d \in Departement : {x \in X : Passes(x, InDepartement(d))} = Having(S, key, {d})
    BY FiltersPass DEF Having, Located, IsIn
  <2>2. \A d \in Departement : count[d] = Cardinality(Having(S, key, {d}))
    BY <2>1 DEF Parts
  <2>3. DOMAIN count = Departement
    OBVIOUS
  <2>4. \A x \in S : key[x] \in Departement
    BY DEF Located, IsIn
  <2>5. IsFiniteSet(S)
    BY FS_Subset DEF Located
  <2> HIDE DEF count, key, S
  <2>6. SumOf(count) = Cardinality(S)
    BY <2>2, <2>3, <2>4, <2>5, GroupedSum
  <2> QED
    BY <2>6 DEF count, S
<1>2. ASSUME NEW m \in Manager
      PROVE  Parts(X, OfManager(m)) = Parts(X, OfOperators({o \in Operator : ManagerOf[o] = m}))
  <2>1. \A x \in X : OperatorOf[x] \in Operator
    BY StatisticsAssumption
  <2>2. \A x \in X : Passes(x, OfManager(m))
            <=> Passes(x, OfOperators({o \in Operator : ManagerOf[o] = m}))
    BY <2>1, FiltersPass
  <2>3. {x \in X : Passes(x, OfManager(m))}
            = {x \in X : Passes(x, OfOperators({o \in Operator : ManagerOf[o] = m}))}
    BY <2>2
  <2> QED
    BY <2>3 DEF Parts
<1> QED
  BY <1>1, <1>2 DEF FiltersAddUp

-------------------------------------------------------------------------------
(* Figures of the taxis *)

\* Numbers of finitely many keys are finitely many.
LEMMA FiniteTags ==
    ASSUME NEW keys, IsFiniteSet(keys), NEW count, \A k \in keys : count[k] \in Nat
    PROVE  IsFiniteSet(UNION {{k} \X (1..count[k]) : k \in keys})
<1> DEFINE tags == [k \in keys |-> {k} \X (1..count[k])]
           sets == {{k} \X (1..count[k]) : k \in keys}
<1>1. \A T \in sets : IsFiniteSet(T)
  <2> SUFFICES ASSUME NEW k \in keys PROVE IsFiniteSet({k} \X (1..count[k]))
    OBVIOUS
  <2>1. count[k] \in Int
    OBVIOUS
  <2>2. IsFiniteSet(1..count[k])
    BY <2>1, FS_Interval
  <2>3. IsFiniteSet({k})
    BY FS_Singleton
  <2> QED
    BY <2>2, <2>3, FS_Product
<1>2. IsFiniteSet(sets)
  <2>1. tags \in [keys -> sets] /\ \A T \in sets : \E k \in keys : tags[k] = T
    OBVIOUS
  <2> HIDE DEF tags, sets
  <2>2. tags \in Surjection(keys, sets)
    BY <2>1 DEF Surjection
  <2> QED
    BY <2>2, FS_Surjection
<1> HIDE DEF sets
<1>3. IsFiniteSet(UNION sets)
  BY <1>1, <1>2, FS_UNION
<1> QED
  BY <1>3 DEF sets

\* The taxis that pass a filter.
Those(f) == {u \in Taxis : Passes(u, f)}

\* Of no filter, and of one operator.
LEMMA ThoseOf ==
    /\ Those(Unfiltered) = Taxis
    /\ \A o : Those(OfOperators({o})) = {t \in Taxis : OperatorOf[t] = o}
    /\ \A f : Those(f) \subseteq Taxis /\ IsFiniteSet(Those(f))
<1>1. \A f : Those(f) \subseteq Taxis /\ IsFiniteSet(Those(f))
  BY FiniteRows, FS_Subset DEF Those
<1> QED
  BY <1>1, FiltersPass DEF Those

\* Every taxi has an operator.
LEMMA OperatorsOf == \A t \in Taxis : OperatorOf[t] \in Operator
BY FiniteRows, StatisticsAssumption

\* The hails of the taxis there are.
LEMMA HailsPerTaxi ==
    ASSUME NEW f
    PROVE  /\ get_monthly_hails_per_taxi(f).sum
                = Cardinality({h \in Hails : TaxiOf[h] \in Those(f)})
           /\ get_monthly_hails_per_taxi(f).over = Cardinality(Those(f))
<1> DEFINE value == [t \in Those(f) |-> Cardinality({h \in Hails : TaxiOf[h] = t})]
           X == {x \in DOMAIN value : value[x] # None}
           key == [h \in Hails |-> TaxiOf[h]]
<1>1. IsFiniteSet(Hails)
  BY FiniteRows
<1>2. \A t : Cardinality({h \in Hails : TaxiOf[h] = t}) \in Nat
  BY <1>1, FS_Subset, FS_CardinalityType
<1>3. X = Those(f)
  <2>1. \A t \in Those(f) : value[t] \in Nat
    BY <1>2
  <2>2. None \notin Nat
    BY StatisticsAssumption
  <2>3. DOMAIN value = Those(f)
    OBVIOUS
  <2> HIDE DEF value
  <2> QED
    BY <2>1, <2>2, <2>3
<1>4. get_monthly_hails_per_taxi(f) = [sum |-> SumOver(value, X), over |-> Cardinality(X)]
  BY DEF get_monthly_hails_per_taxi, Avg, Those
<1>5. \A t : {h \in Hails : TaxiOf[h] = t} = Having(Hails, key, {t})
  BY DEF Having
<1>6. \A t \in Those(f) : value[t] = Cardinality(Having(Hails, key, {t}))
  BY <1>5
<1>7. {h \in Hails : TaxiOf[h] \in Those(f)} = Having(Hails, key, Those(f))
  BY DEF Having
<1> HIDE DEF value, X, key
<1>8. SumOver(value, Those(f)) = Cardinality(Having(Hails, key, Those(f)))
  BY <1>1, <1>6, PartsAddUp
<1> QED
  BY <1>3, <1>4, <1>7, <1>8

\* Operators share out the taxis and their hails.
LEMMA MonthlyAddUp ==
    LET all == get_monthly_hails_per_taxi(Unfiltered)
        of == [o \in Operator |-> get_monthly_hails_per_taxi(OfOperators({o}))]
    IN  /\ all.sum = SumOf([o \in Operator |-> of[o].sum])
        /\ all.over = SumOf([o \in Operator |-> of[o].over])
        /\ all.sum = Cardinality({h \in Hails : TaxiOf[h] \in Taxis})
<1> DEFINE all == get_monthly_hails_per_taxi(Unfiltered)
           of == [o \in Operator |-> get_monthly_hails_per_taxi(OfOperators({o}))]
           sums == [o \in Operator |-> of[o].sum]
           overs == [o \in Operator |-> of[o].over]
           H == {h \in Hails : TaxiOf[h] \in Taxis}
           ofHail == [h \in H |-> OperatorOf[TaxiOf[h]]]
           ofTaxi == [t \in Taxis |-> OperatorOf[t]]
<1>1. all.sum = Cardinality(H) /\ all.over = Cardinality(Taxis)
  BY HailsPerTaxi, ThoseOf
<1>2. \A o : /\ {h \in Hails : TaxiOf[h] \in Those(OfOperators({o}))} = Having(H, ofHail, {o})
             /\ Those(OfOperators({o})) = Having(Taxis, ofTaxi, {o})
  BY ThoseOf DEF Having
<1>3. \A o \in Operator :
            /\ get_monthly_hails_per_taxi(OfOperators({o})).sum
                    = Cardinality(Having(H, ofHail, {o}))
            /\ get_monthly_hails_per_taxi(OfOperators({o})).over
                    = Cardinality(Having(Taxis, ofTaxi, {o}))
  BY <1>2, HailsPerTaxi
<1>4. IsFiniteSet(H) /\ IsFiniteSet(Taxis)
  BY FiniteRows, FS_Subset
<1>5. (\A h \in H : ofHail[h] \in Operator) /\ (\A t \in Taxis : ofTaxi[t] \in Operator)
  BY OperatorsOf
<1>6. /\ DOMAIN sums = Operator /\ DOMAIN overs = Operator
      /\ \A o \in Operator : /\ sums[o] = Cardinality(Having(H, ofHail, {o}))
                             /\ overs[o] = Cardinality(Having(Taxis, ofTaxi, {o}))
  BY <1>3
<1> HIDE DEF sums, overs, H, ofHail, ofTaxi
<1>7. SumOf(sums) = Cardinality(H) /\ SumOf(overs) = Cardinality(Taxis)
  BY <1>4, <1>5, <1>6, GroupedSum
<1> QED
  BY <1>1, <1>7 DEF sums, overs, H

\* The descriptions of the vehicles of those taxis.
Described(f) == {d \in DOMAIN RadiusOf : d[1] \in Taxis /\ Passes(d[1], f)}
Chosen(f) == {d \in Described(f) : RadiusOf[d] # None}

\* Their radii, as the tags a sum counts.
Radii(f) == UNION {{d} \X (1..RadiusOf[d]) : d \in Chosen(f)}

\* The two figures of the radii, as sizes of these sets.
LEMMA ChosenRadii ==
    ASSUME NEW f
    PROVE  /\ IsFiniteSet(Described(f)) /\ IsFiniteSet(Chosen(f)) /\ IsFiniteSet(Radii(f))
           /\ get_average_radius(f) =
                [sum |-> Cardinality(Radii(f)), over |-> Cardinality(Chosen(f))]
           /\ get_average_radius_change(f) =
                [sum |-> Cardinality(Chosen(f)), over |-> Cardinality(Described(f))]
<1>1. IsFiniteSet(Described(f)) /\ IsFiniteSet(Chosen(f))
  <2>1. Described(f) \subseteq DOMAIN RadiusOf /\ Chosen(f) \subseteq DOMAIN RadiusOf
    BY DEF Described, Chosen
  <2> QED
    BY <2>1, StatisticsAssumption, FS_Subset
<1>2. \A d \in Chosen(f) : RadiusOf[d] \in Nat
  BY StatisticsAssumption DEF Chosen, Described
<1>3. IsFiniteSet(Radii(f))
  BY <1>1, <1>2, FiniteTags DEF Radii
<1>4. Radius(f) = [d \in Described(f) |-> RadiusOf[d]]
  BY DEF Radius, Described
<1>5. {d \in DOMAIN Radius(f) : Radius(f)[d] # None} = Chosen(f)
  BY <1>4 DEF Chosen
<1>6. SumOver(Radius(f), Chosen(f)) = Cardinality(Radii(f))
  <2>1. \A d \in Chosen(f) : Radius(f)[d] = RadiusOf[d]
    BY <1>4 DEF Chosen
  <2>2. UNION {{d} \X (1..Radius(f)[d]) : d \in Chosen(f)} = Radii(f)
    BY <2>1 DEF Radii
  <2> QED
    BY <2>2 DEF SumOver
<1>7. get_average_radius(f) =
            [sum |-> Cardinality(Radii(f)), over |-> Cardinality(Chosen(f))]
  BY <1>5, <1>6 DEF get_average_radius, Avg
<1>8. get_average_radius_change(f) =
            [sum |-> Cardinality(Chosen(f)), over |-> Cardinality(Described(f))]
  <2>1. DOMAIN Radius(f) = Described(f)
    BY <1>4
  <2>2. {d \in DOMAIN Radius(f) : RadiusOf[d] # None} = Chosen(f)
    BY <2>1 DEF Chosen
  <2> QED
    BY <2>1, <2>2 DEF get_average_radius_change
<1> QED
  BY <1>1, <1>3, <1>7, <1>8

\* A description is of a taxi of one operator.
LEMMA DescriptionsOf ==
    /\ \A d \in Described(Unfiltered) : OperatorOf[d[1]] \in Operator
    /\ \A d \in Chosen(Unfiltered) : OperatorOf[d[1]] \in Operator
    /\ \A o : Described(OfOperators({o})) = {d \in Described(Unfiltered) : OperatorOf[d[1]] = o}
    /\ \A o : Chosen(OfOperators({o})) = {d \in Chosen(Unfiltered) : OperatorOf[d[1]] = o}
<1>1. \A d \in Described(Unfiltered) : OperatorOf[d[1]] \in Operator
  BY OperatorsOf DEF Described
<1>2. \A o : Described(OfOperators({o})) = {d \in Described(Unfiltered) : OperatorOf[d[1]] = o}
  BY FiltersPass DEF Described
<1>3. \A o : Chosen(OfOperators({o})) = {d \in Chosen(Unfiltered) : OperatorOf[d[1]] = o}
  BY <1>2 DEF Chosen
<1>4. \A d \in Chosen(Unfiltered) : OperatorOf[d[1]] \in Operator
  BY <1>1 DEF Chosen
<1> QED
  BY <1>1, <1>2, <1>3, <1>4

\* Each number of a radius belongs to one description.
LEMMA RadiiOf ==
    /\ \A p \in Radii(Unfiltered) : OperatorOf[p[1][1]] \in Operator
    /\ \A o : Radii(OfOperators({o})) = {p \in Radii(Unfiltered) : OperatorOf[p[1][1]] = o}
<1>1. \A f, p : p \in Radii(f) <=>
            \E d \in Chosen(f) : \E i \in 1..RadiusOf[d] : p = <<d, i>>
  BY DEF Radii
<1>2. ASSUME NEW p \in Radii(Unfiltered) PROVE OperatorOf[p[1][1]] \in Operator
  <2>1. PICK d \in Chosen(Unfiltered) : \E i \in 1..RadiusOf[d] : p = <<d, i>>
    BY <1>1
  <2>2. p[1] = d
    BY <2>1
  <2> QED
    BY <2>2, DescriptionsOf
<1>3. ASSUME NEW o, NEW p
      PROVE  p \in Radii(OfOperators({o})) <=>
                p \in Radii(Unfiltered) /\ OperatorOf[p[1][1]] = o
  <2>1. \A d : d \in Chosen(OfOperators({o})) <=>
                    d \in Chosen(Unfiltered) /\ OperatorOf[d[1]] = o
    BY DescriptionsOf
  <2>2. \A d, i : p = <<d, i>> => p[1] = d
    OBVIOUS
  <2> QED
    BY <1>1, <2>1, <2>2
<1> QED
  BY <1>2, <1>3

\* Operators share out the radii and the changes of them.
LEMMA RadiiAddUp ==
    LET all == get_average_radius(Unfiltered)
        of == [o \in Operator |-> get_average_radius(OfOperators({o}))]
        change == get_average_radius_change(Unfiltered)
        changeOf == [o \in Operator |-> get_average_radius_change(OfOperators({o}))]
    IN  /\ all.sum = SumOf([o \in Operator |-> of[o].sum])
        /\ all.over = SumOf([o \in Operator |-> of[o].over])
        /\ change.sum = SumOf([o \in Operator |-> changeOf[o].sum])
        /\ change.over = SumOf([o \in Operator |-> changeOf[o].over])
        /\ all.over = change.sum
<1> DEFINE of == [o \in Operator |-> get_average_radius(OfOperators({o}))]
           changeOf == [o \in Operator |-> get_average_radius_change(OfOperators({o}))]
           sums == [o \in Operator |-> of[o].sum]
           overs == [o \in Operator |-> of[o].over]
           changeSums == [o \in Operator |-> changeOf[o].sum]
           changeOvers == [o \in Operator |-> changeOf[o].over]
           numbers == Radii(Unfiltered)
           chosen == Chosen(Unfiltered)
           described == Described(Unfiltered)
           ofNumber == [p \in numbers |-> OperatorOf[p[1][1]]]
           ofChosen == [d \in chosen |-> OperatorOf[d[1]]]
           ofDescribed == [d \in described |-> OperatorOf[d[1]]]
<1>1. /\ get_average_radius(Unfiltered).sum = Cardinality(numbers)
      /\ get_average_radius(Unfiltered).over = Cardinality(chosen)
      /\ get_average_radius_change(Unfiltered).sum = Cardinality(chosen)
      /\ get_average_radius_change(Unfiltered).over = Cardinality(described)
  BY ChosenRadii
<1>2. \A o : /\ Radii(OfOperators({o})) = Having(numbers, ofNumber, {o})
             /\ Chosen(OfOperators({o})) = Having(chosen, ofChosen, {o})
             /\ Described(OfOperators({o})) = Having(described, ofDescribed, {o})
  BY DescriptionsOf, RadiiOf DEF Having
<1>3. \A o \in Operator :
        /\ of[o].sum = Cardinality(Radii(OfOperators({o})))
        /\ of[o].over = Cardinality(Chosen(OfOperators({o})))
        /\ changeOf[o].sum = Cardinality(Chosen(OfOperators({o})))
        /\ changeOf[o].over = Cardinality(Described(OfOperators({o})))
  BY ChosenRadii
<1> HIDE DEF of, changeOf
<1>4. /\ DOMAIN sums = Operator /\ DOMAIN overs = Operator
      /\ DOMAIN changeSums = Operator /\ DOMAIN changeOvers = Operator
      /\ \A o \in Operator :
            /\ sums[o] = Cardinality(Having(numbers, ofNumber, {o}))
            /\ overs[o] = Cardinality(Having(chosen, ofChosen, {o}))
            /\ changeSums[o] = Cardinality(Having(chosen, ofChosen, {o}))
            /\ changeOvers[o] = Cardinality(Having(described, ofDescribed, {o}))
  <2> HIDE DEF ofNumber, ofChosen, ofDescribed, numbers, chosen, described
  <2> QED
    BY <1>2, <1>3
<1>5. IsFiniteSet(numbers) /\ IsFiniteSet(chosen) /\ IsFiniteSet(described)
  BY ChosenRadii
<1>6. /\ \A p \in numbers : ofNumber[p] \in Operator
      /\ \A d \in chosen : ofChosen[d] \in Operator
      /\ \A d \in described : ofDescribed[d] \in Operator
  BY DescriptionsOf, RadiiOf
<1> HIDE DEF sums, overs, changeSums, changeOvers, numbers, chosen, described,
             ofNumber, ofChosen, ofDescribed
<1>7. SumOf(sums) = Cardinality(numbers)
  BY <1>4, <1>5, <1>6, GroupedSum
<1>8. SumOf(overs) = Cardinality(chosen)
  BY <1>4, <1>5, <1>6, GroupedSum
<1>9. SumOf(changeSums) = Cardinality(chosen)
  BY <1>4, <1>5, <1>6, GroupedSum
<1>10. SumOf(changeOvers) = Cardinality(described)
  BY <1>4, <1>5, <1>6, GroupedSum
<1> QED
  BY <1>1, <1>7, <1>8, <1>9, <1>10
     DEF sums, overs, changeSums, changeOvers, of, changeOf

\* The figures of operators add up to those of all.
LEMMA TaxiFiguresOk == TaxiFiguresAddUp
BY MonthlyAddUp, RadiiAddUp DEF TaxiFiguresAddUp

\* The taxis of departements on the map, and of groups in the fleets.
LEMMA MapAddsUp ==
    ASSUME NEW f
    PROVE  SumOf(stats_adsmap(f)) = Parts(Located(Taxis), f)
<1> DEFINE count == stats_adsmap(f)
           S == {t \in Located(Taxis) : Passes(t, f)}
           key == [t \in S |-> DepartementOf(Place[t])]
           In(d) == {t \in Taxis : Passes(t, f) /\ IsIn(t, d)}
<1>1. IsFiniteSet(S)
  BY FiniteRows, FS_Subset DEF Located
<1>2. \A d \in Departement : In(d) = Having(S, key, {d})
  BY DEF Having, Located, IsIn
<1>3. count = [d \in {e \in Departement : In(e) # {}} |-> Cardinality(In(d))]
  BY DEF stats_adsmap
<1>4. ASSUME NEW t \in S PROVE key[t] \in DOMAIN count
  <2>1. key[t] = DepartementOf(Place[t]) /\ key[t] \in Departement
    BY DEF Located, IsIn
  <2>2. t \in In(key[t])
    BY <2>1 DEF Located, IsIn
  <2> HIDE DEF In, count
  <2> QED
    BY <1>3, <2>1, <2>2
<1> HIDE DEF count, S, key, In
<1>5. \A d \in DOMAIN count : count[d] = Cardinality(Having(S, key, {d}))
  BY <1>2, <1>3
<1>6. SumOf(count) = Cardinality(S)
  BY <1>1, <1>4, <1>5, GroupedSum
<1> QED
  BY <1>6 DEF count, S, Parts

\* The fleets of groups are the taxis of groups.
LEMMA FleetsAddUp ==
    ASSUME NEW f
    PROVE  SumOf(get_fleet_data(f)) = Parts({t \in Taxis : OperatorOf[t] \in Groupement}, f)
<1> DEFINE count == get_fleet_data(f)
           S == {t \in {u \in Taxis : OperatorOf[u] \in Groupement} : Passes(t, f)}
           key == [t \in S |-> OperatorOf[t]]
           fleet(o) == {t \in Taxis : OperatorOf[t] = o /\ Passes(t, f)}
<1>1. IsFiniteSet(S)
  BY FiniteRows, FS_Subset
<1>2. \A o \in Groupement : fleet(o) = Having(S, key, {o})
  BY DEF Having
<1>3. count = [o \in {g \in Groupement : f = Unfiltered \/ fleet(g) # {}} |->
                    Cardinality(fleet(o))]
  BY DEF get_fleet_data
<1>4. ASSUME NEW t \in S PROVE key[t] \in DOMAIN count
  <2>1. key[t] \in Groupement
    OBVIOUS
  <2>2. t \in fleet(key[t])
    OBVIOUS
  <2> HIDE DEF fleet, count, key
  <2> QED
    BY <1>3, <2>1, <2>2
<1> HIDE DEF count, S, key, fleet
<1>5. \A o \in DOMAIN count : count[o] = Cardinality(Having(S, key, {o}))
  BY <1>2, <1>3
<1>6. SumOf(count) = Cardinality(S)
  BY <1>1, <1>4, <1>5, GroupedSum
<1> QED
  BY <1>6 DEF count, S, Parts

-------------------------------------------------------------------------------
(* Figures of the hails *)

OutcomeOf(h) ==
    IF hail[h].status # "timeout_taxi" THEN hail[h].status
    ELSE IF hail[h].timeout < 1 THEN "timeout_taxi" ELSE "timeout_ride"

\* Every hail that has concluded has one outcome, and no other hail has any.
LEMMA OneOutcome ==
    ASSUME TypeOK, NEW h \in Hails
    PROVE  /\ HasConcluded(h) => OutcomeOf(h) \in HAIL_OUTCOMES
           /\ \A outcome \in HAIL_OUTCOMES :
                HasOutcome(h, outcome) <=> HasConcluded(h) /\ OutcomeOf(h) = outcome
<1>1. hail[h].timeout \in Nat \cup {None} /\ None \notin Nat
  BY FiniteRows, StatisticsAssumption DEF Hails, TypeOK
<1>2. CASE hail[h].status = "timeout_taxi"
  <2>1. CASE hail[h].timeout = None
    BY <1>2, <2>1 DEF HasOutcome, HasConcluded
  <2>2. CASE hail[h].timeout # None
    <3>1. hail[h].timeout \in Nat
      BY <1>1, <2>2
    <3> QED
      BY <1>2, <2>2, <3>1 DEF OutcomeOf, HasOutcome, HasConcluded, HAIL_OUTCOMES
  <2> QED
    BY <2>1, <2>2
<1>3. CASE hail[h].status # "timeout_taxi"
  BY <1>3 DEF OutcomeOf, HasOutcome, HasConcluded
<1> QED
  BY <1>2, <1>3

\* The first figure of a page of hails.
LEMMA ReceivedToday ==
    ASSUME TypeOK, NEW H \in SUBSET Hails
    PROVE  get_hails_received(H).today =
                Cardinality({h \in H : Upto(hail[h].added, Milestone[4])})
<1> DEFINE dateOf == [h \in H |-> hail[h].added]
<1>1. today \in Days /\ Dated(dateOf)
  BY RowsAreDated DEF TypeOK
<1>2. Count(AtMilestones(dateOf)).today = Cardinality(BeforeDate(dateOf, Milestone[4]))
  BY <1>1, CountedAtMilestones
<1>3. BeforeDate(dateOf, Milestone[4]) = {h \in H : Upto(hail[h].added, Milestone[4])}
  BY DEF BeforeDate
<1>4. get_hails_received(H) = Count(AtMilestones(dateOf))
  BY DEF get_hails_received
<1> QED
  BY <1>2, <1>3, <1>4

\* Each hail that has concluded is counted under one outcome, on the day it is
\* counted at all.
LEMMA OutcomesOk ==
    ASSUME TypeOK, NEW f
    PROVE  OutcomesAddUp(stats_hails(f), f)
<1> DEFINE hails == stats_hails(f)
           count == [outcome \in HAIL_OUTCOMES |-> hails.hails[outcome].today]
           concluded == {h \in Received(f) : HasConcluded(h)}
           S == {h \in concluded : Upto(hail[h].added, Milestone[4])}
           key == [h \in S |-> OutcomeOf(h)]
           With(outcome) == {h \in Received(f) : HasOutcome(h, outcome)}
<1>1. S \subseteq Hails /\ IsFiniteSet(S)
  BY ReceivedAreHails, FiniteRows, FS_Subset
<1>2. get_hails_received(concluded).today = Cardinality(S)
  <2>1. concluded \in SUBSET Hails
    BY ReceivedAreHails
  <2> HIDE DEF concluded
  <2> QED
    BY <2>1, ReceivedToday
<1>3. ASSUME NEW outcome \in HAIL_OUTCOMES
      PROVE  count[outcome] = Cardinality(Having(S, key, {outcome}))
  <2>1. hails.hails[outcome] = get_hails_received(With(outcome))
    BY DEF stats_hails
  <2>2. With(outcome) \in SUBSET Hails
    BY ReceivedAreHails
  <2>3. count[outcome] = get_hails_received(With(outcome)).today
    BY <2>1
  <2>4. \A h \in Received(f) :
            HasOutcome(h, outcome) <=> HasConcluded(h) /\ OutcomeOf(h) = outcome
    BY ReceivedAreHails, OneOutcome
  <2>5. {h \in With(outcome) : Upto(hail[h].added, Milestone[4])} = Having(S, key, {outcome})
    BY <2>4 DEF Having
  <2> HIDE DEF With, S, key, count
  <2> QED
    BY <2>2, <2>3, <2>5, ReceivedToday
<1>4. DOMAIN count = HAIL_OUTCOMES
  OBVIOUS
<1>5. \A h \in S : key[h] \in HAIL_OUTCOMES
  BY <1>1, OneOutcome
<1> HIDE DEF count, S, key, hails
<1>6. SumOf(count) = Cardinality(S)
  BY <1>1, <1>3, <1>4, <1>5, GroupedSum
<1> QED
  BY <1>2, <1>6 DEF OutcomesAddUp, count, hails

\* The parts of a period: each hail in one of them.
LEMMA PartsOfPeriod ==
    ASSUME NEW interval, NEW H \in SUBSET Hails
    PROVE  LET parts == {Trunc(interval, hail[h].added) : h \in H} IN
           /\ IsFiniteSet(parts)
           /\ get_hails_average_per(interval, H) =
                [sum |-> Cardinality(H), over |-> Cardinality(parts)]
<1> DEFINE parts == {Trunc(interval, hail[h].added) : h \in H}
           value == [part \in parts |->
                        Cardinality({h \in H : Trunc(interval, hail[h].added) = part})]
           key == [h \in H |-> Trunc(interval, hail[h].added)]
           X == {x \in DOMAIN value : value[x] # None}
<1>1. IsFiniteSet(H)
  BY FiniteRows, FS_Subset
<1>2. IsFiniteSet(parts)
  <2>1. key \in [H -> parts] /\ \A p \in parts : \E h \in H : key[h] = p
    OBVIOUS
  <2> HIDE DEF key, parts
  <2>2. key \in Surjection(H, parts)
    BY <2>1 DEF Surjection
  <2> QED
    BY <1>1, <2>2, FS_Surjection
<1>3. get_hails_average_per(interval, H) =
            [sum |-> SumOver(value, X), over |-> Cardinality(X)]
  BY DEF get_hails_average_per, Avg
<1>4. \A p : {h \in H : Trunc(interval, hail[h].added) = p} = Having(H, key, {p})
  BY DEF Having
<1>5. DOMAIN value = parts /\ \A p \in parts : value[p] = Cardinality(Having(H, key, {p}))
  BY <1>4
<1>6. \A h \in H : key[h] \in parts
  OBVIOUS
<1>7. X = parts
  <2>1. \A p : Having(H, key, {p}) \subseteq H
    BY DEF Having
  <2>2. \A p \in parts : value[p] \in Nat
    <3> HIDE DEF value, key, parts
    <3> QED
      BY <1>1, <1>5, <2>1, FS_Subset, FS_CardinalityType
  <2>3. None \notin Nat
    BY StatisticsAssumption
  <2> HIDE DEF value, parts
  <2> QED
    BY <1>5, <2>2, <2>3
<1> HIDE DEF value, key, parts, X
<1>8. SumOf(value) = Cardinality(H)
  BY <1>1, <1>5, <1>6, GroupedSum
<1>9. SumOver(value, X) = Cardinality(H)
  BY <1>5, <1>7, <1>8 DEF SumOf
<1> QED
  BY <1>2, <1>3, <1>7, <1>9 DEF parts

\* The hails of a period with a status, in a part of it.
LEMMA AveragesOk ==
    ASSUME TypeOK, NEW period, NEW f
    PROVE  AverageAddsUp(get_hails_average(period, f), Cardinality(InPeriod(period, f)))
<1> DEFINE H == InPeriod(period, f)
           average == get_hails_average(period, f)
           statuses == {"timeout_customer", "declined_by_customer",
                        "incident_taxi", "declined_by_taxi"}
           Shown(st) == {h \in H : hail[h].status = st}
           Interval(per) == CASE per = "daily" -> "day" [] per = "weekly" -> "week"
                              [] per = "monthly" -> "month"
           Period(interval, X) == {Trunc(interval, hail[h].added) : h \in X}
<1>1. H \in SUBSET Hails /\ IsFiniteSet(H)
  <2>1. H \in SUBSET Hails
    BY DEF InPeriod
  <2> QED
    BY <2>1, FiniteRows, FS_Subset
<1>2. \A st : Shown(st) \in SUBSET Hails /\ Shown(st) \subseteq H
  BY <1>1
<1>3. DOMAIN average.by_status = statuses
  BY DEF get_hails_average
<1>4. ASSUME NEW per \in {"daily", "weekly", "monthly"}
      PROVE  /\ average[per] = get_hails_average_per(Interval(per), H)
             /\ \A st \in statuses :
                    average.by_status[st][per] = get_hails_average_per(Interval(per), Shown(st))
  <2>1. average = [daily |-> get_hails_average_per("day", H),
                   weekly |-> get_hails_average_per("week", H),
                   monthly |-> get_hails_average_per("month", H),
                   by_status |-> [st \in statuses |->
                        [daily |-> get_hails_average_per("day", Shown(st)),
                         weekly |-> get_hails_average_per("week", Shown(st)),
                         monthly |-> get_hails_average_per("month", Shown(st))]]]
    BY DEF get_hails_average
  <2> HIDE DEF average, H, Shown, statuses
  <2>2. CASE per = "daily"
    BY <2>1, <2>2
  <2>3. CASE per = "weekly"
    BY <2>1, <2>3
  <2>4. CASE per = "monthly"
    BY <2>1, <2>4
  <2> QED
    BY <2>2, <2>3, <2>4
<1> HIDE DEF Interval, average
<1>5. ASSUME NEW per \in {"daily", "weekly", "monthly"}
      PROVE  /\ average[per].sum = Cardinality(H)
             /\ SumOf([st \in DOMAIN average.by_status |-> average.by_status[st][per].sum])
                    <= Cardinality(H)
             /\ \A st \in DOMAIN average.by_status :
                    average.by_status[st][per].over <= average[per].over
  <2> DEFINE interval == Interval(per)
             count == [st \in DOMAIN average.by_status |-> average.by_status[st][per].sum]
             key == [h \in H |-> hail[h].status]
  <2>0. \A X \in SUBSET Hails :
            /\ get_hails_average_per(interval, X).sum = Cardinality(X)
            /\ get_hails_average_per(interval, X).over = Cardinality(Period(interval, X))
            /\ IsFiniteSet(Period(interval, X))
    BY PartsOfPeriod
  <2>1. /\ average[per].sum = Cardinality(H)
        /\ average[per].over = Cardinality(Period(interval, H))
        /\ IsFiniteSet(Period(interval, H))
    <3> HIDE DEF H, Period
    <3> QED
      BY <1>1, <1>4, <2>0
  <2>2. \A st \in statuses :
            /\ average.by_status[st][per].sum = Cardinality(Shown(st))
            /\ average.by_status[st][per].over = Cardinality(Period(interval, Shown(st)))
    <3> HIDE DEF Shown, statuses, Period
    <3> QED
      BY <1>2, <1>4, <2>0
  <2>3. \A st \in statuses :
            average.by_status[st][per].over <= average[per].over
    <3> SUFFICES ASSUME NEW st \in statuses
                 PROVE  average.by_status[st][per].over <= average[per].over
      OBVIOUS
    <3>1. Period(interval, Shown(st)) \subseteq Period(interval, H)
      BY <1>2
    <3> HIDE DEF Period, Shown, H, statuses
    <3>2. Cardinality(Period(interval, Shown(st))) <= Cardinality(Period(interval, H))
      BY <2>1, <3>1, FS_Subset
    <3> QED
      BY <2>1, <2>2, <3>2
  <2>4. SumOf(count) <= Cardinality(H)
    <3>1. \A st : Shown(st) = Having(H, key, {st})
      BY DEF Having
    <3>2. DOMAIN count = statuses /\ \A st \in statuses : count[st] = Cardinality(Shown(st))
      BY <1>3, <2>2
    <3> HIDE DEF count, key, Shown, H, statuses
    <3>3. SumOver(count, statuses) = Cardinality(Having(H, key, statuses))
      BY <1>1, <3>1, <3>2, PartsAddUp
    <3>4. Having(H, key, statuses) \subseteq H
      BY DEF Having
    <3>5. Cardinality(Having(H, key, statuses)) <= Cardinality(H)
      BY <1>1, <3>4, FS_Subset
    <3> QED
      BY <3>2, <3>3, <3>5 DEF SumOf
  <2> HIDE DEF H, statuses
  <2> QED
    BY <1>3, <2>1, <2>3, <2>4
<1> HIDE DEF H
<1> QED
  BY <1>5 DEF AverageAddsUp, H, average

\* Months share out the hails of a year.
LEMMA TotalsOk ==
    ASSUME NEW period, NEW f
    PROVE  SumOf(get_hails_total(period, f)) = Cardinality(InPeriod(period, f))
<1> DEFINE H == InPeriod(period, f)
           count == get_hails_total(period, f)
           key == [h \in H |-> hail[h].added[2]]
<1>1. IsFiniteSet(H)
  <2>1. H \subseteq Hails
    BY DEF InPeriod
  <2> QED
    BY <2>1, FiniteRows, FS_Subset
<1>2. count = [m \in {hail[h].added[2] : h \in H} |->
                    Cardinality({h \in H : hail[h].added[2] = m})]
  BY DEF get_hails_total
<1>3. \A m : {h \in H : hail[h].added[2] = m} = Having(H, key, {m})
  BY DEF Having
<1>4. \A h \in H : key[h] \in DOMAIN count
  BY <1>2
<1>5. \A m \in DOMAIN count : count[m] = Cardinality(Having(H, key, {m}))
  BY <1>2, <1>3
<1> HIDE DEF count, H, key
<1>6. SumOf(count) = Cardinality(H)
  BY <1>1, <1>4, <1>5, GroupedSum
<1> QED
  BY <1>6 DEF count, H

-------------------------------------------------------------------------------
(* Periods *)

\* No two dates have the same place.
LEMMA SameDate ==
    ASSUME NEW a, IsDate(a), NEW b, IsDate(b), Ordinal(a) = Ordinal(b)
    PROVE  a = b
<1>1. /\ Months(a) \in Int /\ Ordinal(a) \in Int /\ Months(b) \in Int /\ Ordinal(b) \in Int
  BY DateParts
<1>2. Months(a) = Months(b)
  <2>1. Months(a) < Months(b) => Ordinal(a) < Ordinal(b)
    BY LaterMonth
  <2>2. Months(b) < Months(a) => Ordinal(b) < Ordinal(a)
    BY LaterMonth
  <2> QED
    BY <1>1, <2>1, <2>2
<1>3. a[3] = b[3]
  <2> DEFINE months == (Months(a) + 1) * 31
  <2>1. a[3] \in Int /\ b[3] \in Int /\ months \in Int
    BY <1>1, DateParts
  <2>2. Ordinal(a) = months + a[3]
    BY DateParts
  <2>3. Ordinal(b) = months + b[3]
    BY <1>2, DateParts
  <2> HIDE DEF months
  <2>4. \A n, x, y \in Int : n + x = n + y => x = y
    OBVIOUS
  <2>5. months + a[3] = months + b[3]
    BY <2>2, <2>3
  <2> QED
    BY <2>1, <2>4, <2>5
<1>4. a[1] = b[1] /\ a[2] = b[2]
  BY <1>2, SameMonth
<1>5. a = <<a[1], a[2], a[3]>> /\ b = <<b[1], b[2], b[3]>>
  BY DEF IsDate
<1> QED
  BY <1>3, <1>4, <1>5

\* The first day of a year.
LEMMA FirstDays ==
    ASSUME NEW y \in Int, NEW d, IsDate(d)
    PROVE  /\ Upto(<<y, 1, 1>>, d) <=> y <= d[1]
           /\ Upto(d, <<y, 1, 1>>) /\ d # <<y, 1, 1>> <=> d[1] < y
<1> DEFINE first == <<y, 1, 1>>
<1>1. first[1] = y /\ first[2] = 1 /\ first[3] = 1
  OBVIOUS
<1>2. IsDate(first)
  <2>1. MonthLength(y, 1) \in 28..31
    BY MonthLengths
  <2> QED
    BY <1>1, <2>1 DEF IsDate
<1>3. /\ d[1] \in Int /\ d[2] \in 1..12 /\ d[3] \in 1..31
      /\ Ordinal(d) = (d[1] * 12 + d[2]) * 31 + d[3]
      /\ Ordinal(first) = (y * 12 + 1) * 31 + 1
  BY <1>1, DateParts DEF Ordinal
<1> HIDE DEF first
<1>4. Upto(first, d) <=> y <= d[1]
  BY <1>3 DEF Upto
<1>5. Upto(d, first) /\ d # first => d[1] < y
  <2> SUFFICES ASSUME Upto(d, first), d # first PROVE d[1] < y
    OBVIOUS
  <2>1. Ordinal(d) # Ordinal(first)
    BY <1>2, SameDate
  <2>2. Ordinal(d) \in Int /\ Ordinal(first) \in Int
    BY <1>2, DateParts
  <2>3. Ordinal(d) <= Ordinal(first)
    BY DEF Upto
  <2>4. Ordinal(d) < Ordinal(first)
    BY <2>1, <2>2, <2>3
  <2> QED
    BY <1>3, <2>4
<1>6. d[1] < y => Upto(d, first) /\ d # first
  <2> SUFFICES ASSUME d[1] < y PROVE Upto(d, first) /\ d # first
    OBVIOUS
  <2>1. Ordinal(d) < Ordinal(first)
    BY <1>3
  <2> QED
    BY <1>3, <2>1 DEF Upto
<1> QED
  BY <1>4, <1>5, <1>6 DEF first

\* Which periods a date is within follows from its year.
LEMMA Years ==
    ASSUME today \in Days, NEW d, IsDate(d)
    PROVE  /\ Within(d, CurrentYear) <=> d[1] = today[1]
           /\ Within(d, LastYear) <=> d[1] = today[1] - 1
           /\ Within(d, LastThreeMonths) => d[1] = today[1] \/ d[1] = today[1] - 1
<1>1. IsDate(today)
  BY DaysAreDates
<1>2. /\ today[1] \in Int /\ today[1] + 1 \in Int /\ today[1] - 1 \in Int
      /\ today[2] \in 1..12 /\ today[3] \in 1..31
      /\ d[1] \in Int /\ d[2] \in 1..12 /\ d[3] \in 1..31
  BY <1>1, DateParts
<1>3. \A y \in Int : /\ Upto(<<y, 1, 1>>, d) <=> y <= d[1]
                     /\ Upto(d, <<y, 1, 1>>) /\ d # <<y, 1, 1>> <=> d[1] < y
  BY FirstDays
<1>4. Within(d, CurrentYear) <=> today[1] <= d[1] /\ d[1] < today[1] + 1
  BY <1>2, <1>3 DEF Within, CurrentYear
<1>5. Within(d, LastYear) <=> today[1] - 1 <= d[1] /\ d[1] < today[1]
  BY <1>2, <1>3 DEF Within, LastYear
<1>6. ASSUME Within(d, LastThreeMonths)
      PROVE  today[1] - 1 <= d[1] /\ d[1] <= today[1]
  <2> DEFINE begin == AddMonths(today, -3)
  <2>1. Upto(begin, d) /\ Upto(d, today)
    BY <1>6 DEF Within, LastThreeMonths
  <2>2. IsDate(begin) /\ Months(begin) = Months(today) + (-3)
    BY <1>1, MonthsAdded
  <2> HIDE DEF begin
  <2>3. /\ Months(d) \in Int /\ Months(today) \in Int /\ Months(begin) \in Int
        /\ Ordinal(d) \in Int /\ Ordinal(today) \in Int /\ Ordinal(begin) \in Int
    BY <1>1, <2>2, DateParts
  <2>4. Months(begin) <= Months(d)
    <3>1. Months(d) < Months(begin) => Ordinal(d) < Ordinal(begin)
      BY <2>2, LaterMonth
    <3> QED
      BY <2>1, <2>3, <3>1 DEF Upto
  <2>5. Months(d) <= Months(today)
    <3>1. Months(today) < Months(d) => Ordinal(today) < Ordinal(d)
      BY <1>1, LaterMonth
    <3> QED
      BY <2>1, <2>3, <3>1 DEF Upto
  <2> QED
    BY <1>2, <2>2, <2>3, <2>4, <2>5 DEF Months
<1> QED
  BY <1>2, <1>4, <1>5, <1>6

\* The figures of the years and of the last three months.
LEMMA YearsOk ==
    ASSUME TypeOK, NEW f
    PROVE  YearsAddUp(stats_hails(f), f)
<1> DEFINE hails == stats_hails(f)
<1>1. today \in Days
  BY DEF TypeOK
<1>2. \A h \in Hails : IsDate(hail[h].added)
  BY DaysAreDates DEF Hails, TypeOK
<1>3. \A h \in Hails :
        /\ ~(Within(hail[h].added, CurrentYear) /\ Within(hail[h].added, LastYear))
        /\ Within(hail[h].added, LastThreeMonths) =>
                Within(hail[h].added, CurrentYear) \/ Within(hail[h].added, LastYear)
  <2> SUFFICES ASSUME NEW h \in Hails
               PROVE  /\ ~(Within(hail[h].added, CurrentYear) /\ Within(hail[h].added, LastYear))
                      /\ Within(hail[h].added, LastThreeMonths) =>
                            Within(hail[h].added, CurrentYear) \/ Within(hail[h].added, LastYear)
    OBVIOUS
  <2> DEFINE d == hail[h].added
  <2>1. /\ Within(d, CurrentYear) <=> d[1] = today[1]
        /\ Within(d, LastYear) <=> d[1] = today[1] - 1
        /\ Within(d, LastThreeMonths) => d[1] = today[1] \/ d[1] = today[1] - 1
    BY <1>1, <1>2, Years
  <2>2. today[1] \in Int
    BY <1>1, DaysAreDates, DateParts
  <2> HIDE DEF d
  <2>3. ~(Within(d, CurrentYear) /\ Within(d, LastYear))
    BY <2>1, <2>2
  <2> QED
    BY <2>1, <2>3 DEF d
<1>4. InPeriod(CurrentYear, f) \cap InPeriod(LastYear, f) = {}
  BY <1>3 DEF InPeriod
<1>5. InPeriod(LastThreeMonths, f)
            \subseteq InPeriod(CurrentYear, f) \cup InPeriod(LastYear, f)
  BY <1>3 DEF InPeriod
<1>6. /\ hails.hails_average.current_year = get_hails_average(CurrentYear, f)
      /\ hails.hails_average.last_year = get_hails_average(LastYear, f)
      /\ hails.hails_average.last_three_months = get_hails_average(LastThreeMonths, f)
      /\ hails.hails_total.current_year = get_hails_total(CurrentYear, f)
      /\ hails.hails_total.last_year = get_hails_total(LastYear, f)
  BY DEF stats_hails
<1> HIDE DEF hails
<1>7. AverageAddsUp(hails.hails_average.current_year, SumOf(hails.hails_total.current_year))
  BY <1>6, AveragesOk, TotalsOk
<1>8. AverageAddsUp(hails.hails_average.last_year, SumOf(hails.hails_total.last_year))
  BY <1>6, AveragesOk, TotalsOk
<1>9. AverageAddsUp(hails.hails_average.last_three_months,
                    Cardinality(InPeriod(LastThreeMonths, f)))
  BY <1>6, AveragesOk
<1> QED
  BY <1>4, <1>5, <1>7, <1>8, <1>9 DEF YearsAddUp, hails

-------------------------------------------------------------------------------
(* The conurbations *)

\* The first day of the month, so many months ago.
LEMMA FirstsOfMonths ==
    ASSUME today \in Days, NEW k \in 0..12
    PROVE  LET first == FirstOfMonth(today, k) IN
           /\ IsDate(first) /\ first[3] = 1 /\ Months(first) = Months(today) - k
<1> DEFINE day == <<today[1], today[2], 1>>
           back == -k
           first == AddMonths(day, back)
<1>1. IsDate(today)
  BY DaysAreDates
<1>2. day[1] = today[1] /\ day[2] = today[2] /\ day[3] = 1
  OBVIOUS
<1>3. today[1] \in Int /\ today[2] \in 1..12
  BY <1>1, DateParts
<1>4. IsDate(day)
  <2>1. MonthLength(today[1], today[2]) \in 28..31
    BY <1>3, MonthLengths
  <2> QED
    BY <1>2, <1>3, <2>1 DEF IsDate
<1>5. Months(day) = Months(today) /\ Months(today) \in Int
  BY <1>2, <1>3 DEF Months
<1>6. back \in Int /\ back = -k
  OBVIOUS
<1>7. FirstOfMonth(today, k) = first
  BY DEF FirstOfMonth
<1> HIDE DEF day, back
<1>8. /\ IsDate(first) /\ Months(first) = Months(day) + back
      /\ first[3] = IF day[3] <= MonthLength(first[1], first[2])
                    THEN day[3] ELSE MonthLength(first[1], first[2])
  BY <1>4, <1>6, MonthsAdded
<1> HIDE DEF first
<1>9. MonthLength(first[1], first[2]) \in 28..31
  BY <1>8, DateParts, MonthLengths
<1> QED
  BY <1>2, <1>5, <1>6, <1>7, <1>8, <1>9

\* The taxis of a conurbation that were there before the month began.
BeforeMonth(c, k) ==
    {t \in Taxis : Place[t] \in Members[c] /\ ~Upto(FirstOfMonth(today, k), taxi[t].added)}

\* The public figure of a month, zero where it is not shown.
LEMMA ConnectedTaxisAre ==
    ASSUME NEW c, NEW k \in 0..12
    PROVE  LET months == get_taxis_connected(c) IN
           /\ (IF k \in DOMAIN months THEN months[k] ELSE 0) = Cardinality(BeforeMonth(c, k))
           /\ IsFiniteSet(BeforeMonth(c, k)) /\ Cardinality(BeforeMonth(c, k)) \in Nat
<1> DEFINE months == get_taxis_connected(c)
<1>1. months = [m \in {l \in 0..12 : BeforeMonth(c, l) # {}} |->
                    Cardinality(BeforeMonth(c, m))]
  BY DEF get_taxis_connected, BeforeMonth
<1> HIDE DEF months
<1>2. (IF k \in DOMAIN months THEN months[k] ELSE 0) = Cardinality(BeforeMonth(c, k))
  <2>1. CASE BeforeMonth(c, k) = {}
    <3>1. k \notin DOMAIN months
      BY <1>1, <2>1
    <3> QED
      BY <2>1, <3>1, FS_EmptySet
  <2>2. CASE BeforeMonth(c, k) # {}
    BY <1>1, <2>2
  <2> QED
    BY <2>1, <2>2
<1>3. IsFiniteSet(BeforeMonth(c, k))
  BY FiniteRows, FS_Subset DEF BeforeMonth
<1> QED
  BY <1>2, <1>3, FS_CardinalityType DEF months

\* The first of a month comes before the milestones of that month and of later
\* ones, and after those of the months before.
LEMMA MonthsAndMilestones ==
    ASSUME TypeOK, NEW c, NEW d, IsOf(c, d), NEW i \in 0..4, NEW k \in 0..12
    PROVE  LET counted == BeforeDate(AddedTaxis(InDepartement(d), None), Milestone[i]) IN
           /\ k >= 12 - 3 * i => Cardinality(BeforeMonth(c, k)) <= Cardinality(counted)
           /\ k < 12 - 3 * i => Cardinality(counted) <= Cardinality(BeforeMonth(c, k))
<1> DEFINE counted == BeforeDate(AddedTaxis(InDepartement(d), None), Milestone[i])
           first == FirstOfMonth(today, k)
<1>1. today \in Days /\ IsDate(today)
  BY DaysAreDates DEF TypeOK
<1>2. counted = {t \in Taxis : Place[t] \in Members[c] /\ Upto(taxi[t].added, Milestone[i])}
  <2>1. \A t \in Taxis : Since(taxi[t].added, None)
    BY StatisticsAssumption DEF Since, Taxis, TypeOK
  <2>2. \A t \in Taxis : Passes(t, InDepartement(d)) <=> Place[t] \in Members[c]
    BY FiltersPass, FiniteRows DEF IsOf
  <2> QED
    BY <2>1, <2>2 DEF AddedTaxis, BeforeDate
<1>3. /\ Months(today) \in Int
      /\ Ordinal(first) = (Months(today) - k + 1) * 31 + 1
  BY <1>1, DateParts, FirstsOfMonths
<1>4. \E day \in 1..31 : Ordinal(Milestone[i]) = (Months(today) - 12 + 3 * i + 1) * 31 + day
  <2>1. IsMilestone(Milestone[i], i)
    BY <1>1, MilestonesAre
  <2> QED
    BY <2>1, DateParts DEF IsMilestone
<1>5. \A t \in Taxis : Ordinal(taxi[t].added) \in Int
  BY DaysAreDates, DateParts DEF Taxis, TypeOK
<1>6. IsFiniteSet(counted) /\ IsFiniteSet(BeforeMonth(c, k))
  BY <1>2, FiniteRows, FS_Subset, ConnectedTaxisAre
<1>7. BeforeMonth(c, k) =
            {t \in Taxis : Place[t] \in Members[c] /\ ~Upto(first, taxi[t].added)}
  BY DEF BeforeMonth
<1> HIDE DEF counted, first
<1>8. ASSUME k >= 12 - 3 * i
      PROVE  Cardinality(BeforeMonth(c, k)) <= Cardinality(counted)
  <2>1. \A n \in Int : n < Ordinal(first) => n <= Ordinal(Milestone[i])
    BY <1>3, <1>4, <1>8
  <2>2. BeforeMonth(c, k) \subseteq counted
    BY <1>2, <1>3, <1>5, <1>7, <2>1 DEF Upto
  <2> QED
    BY <1>6, <2>2, FS_Subset
<1>9. ASSUME k < 12 - 3 * i
      PROVE  Cardinality(counted) <= Cardinality(BeforeMonth(c, k))
  <2>1. \A n \in Int : n <= Ordinal(Milestone[i]) => n < Ordinal(first)
    BY <1>3, <1>4, <1>9
  <2>2. counted \subseteq BeforeMonth(c, k)
    BY <1>2, <1>3, <1>5, <1>7, <2>1 DEF Upto
  <2> QED
    BY <1>6, <2>2, FS_Subset
<1> QED
  BY <1>8, <1>9 DEF counted

\* The hails of the last month are those of its year that are of it.
LEMMA LastMonth ==
    ASSUME TypeOK, NEW c, NEW d, IsOf(c, d)
    PROVE  LET last == AddMonths(today, -1)
               total == get_hails_total(IF last[1] = today[1] THEN CurrentYear ELSE LastYear,
                                        InDepartement(d))
           IN  get_hails_count(c, last) = IF last[2] \in DOMAIN total THEN total[last[2]] ELSE 0
<1> DEFINE last == AddMonths(today, -1)
           period == IF last[1] = today[1] THEN CurrentYear ELSE LastYear
           f == InDepartement(d)
           H == {h \in InPeriod(period, f) : hail[h].added[2] = last[2]}
           total == get_hails_total(period, f)
<1>1. today \in Days /\ IsDate(today)
  BY DaysAreDates DEF TypeOK
<1>2. /\ IsDate(last) /\ last[1] \in Int /\ last[2] \in 1..12
      /\ last[1] = today[1] \/ last[1] = today[1] - 1
  <2>1. IsDate(last) /\ Months(last) = Months(today) + (-1)
    BY <1>1, MonthsAdded
  <2> HIDE DEF last
  <2> QED
    BY <1>1, <2>1, DateParts DEF Months
<1> HIDE DEF last
<1>3. \A h \in Hails : IsDate(hail[h].added)
  BY DaysAreDates DEF Hails, TypeOK
<1>4. \A h \in Hails : Within(hail[h].added, period) <=> hail[h].added[1] = last[1]
  <2>1. \A h \in Hails : /\ Within(hail[h].added, CurrentYear) <=> hail[h].added[1] = today[1]
                         /\ Within(hail[h].added, LastYear) <=> hail[h].added[1] = today[1] - 1
    BY <1>1, <1>3, Years
  <2>2. CASE last[1] = today[1]
    BY <2>1, <2>2
  <2>3. CASE last[1] # today[1]
    BY <1>2, <2>1, <2>3
  <2> QED
    BY <2>2, <2>3
<1> HIDE DEF period
<1>5. \A h \in Hails : Passes(h, f) <=> Place[h] \in Members[c]
  BY FiltersPass, FiniteRows DEF IsOf
<1>6. H = {h \in Hails : Place[h] \in Members[c]
                /\ <<hail[h].added[1], hail[h].added[2]>> = <<last[1], last[2]>>}
  <2>1. \A h \in Hails : <<hail[h].added[1], hail[h].added[2]>> = <<last[1], last[2]>>
            <=> hail[h].added[1] = last[1] /\ hail[h].added[2] = last[2]
    OBVIOUS
  <2> HIDE DEF f
  <2> QED
    BY <1>4, <1>5, <2>1 DEF InPeriod
<1>7. get_hails_count(c, last) = Cardinality(H)
  <2>1. \A date : Trunc("month", date) = <<date[1], date[2]>>
    BY DEF Trunc
  <2> HIDE DEF H
  <2> QED
    BY <1>6, <2>1 DEF get_hails_count
<1>8. total = [m \in {hail[h].added[2] : h \in InPeriod(period, f)} |->
                    Cardinality({h \in InPeriod(period, f) : hail[h].added[2] = m})]
  BY DEF get_hails_total
<1> HIDE DEF f, total
<1>9. Cardinality(H) = IF last[2] \in DOMAIN total THEN total[last[2]] ELSE 0
  <2>1. last[2] \in DOMAIN total <=> H # {}
    BY <1>8
  <2>2. CASE H = {}
    BY <2>1, <2>2, FS_EmptySet
  <2>3. CASE H # {}
    BY <1>8, <2>1, <2>3
  <2> QED
    BY <2>2, <2>3
<1> QED
  BY <1>7, <1>9 DEF last, total, period, f

\* Together: the public figures of a conurbation and those of its departement.
LEMMA PublicFiguresOk ==
    ASSUME TypeOK, NEW c, NEW d, IsOf(c, d)
    PROVE  PublicFiguresAgree(c, InDepartement(d))
<1> DEFINE f == InDepartement(d)
           added == AddedTaxis(f, None)
           registered == get_registered_taxis(f, None)
           months == get_taxis_connected(c)
           Connected(k) == IF k \in DOMAIN months THEN months[k] ELSE 0
           last == AddMonths(today, -1)
           before == AddMonths(today, -13)
           counted(i) == Cardinality(BeforeDate(added, Milestone[i]))
<1>1. today \in Days /\ Dated(added)
  BY RowsAreDated DEF TypeOK
<1>2. /\ registered.today = counted(4) /\ registered.three_months_ago = counted(3)
      /\ registered.six_months_ago = counted(2) /\ registered.twelve_months_ago = counted(0)
  <2>1. registered = Count(AtMilestones(added))
    BY DEF get_registered_taxis
  <2> HIDE DEF registered, added
  <2> QED
    BY <1>1, <2>1, CountedAtMilestones
<1>3. \A k \in 0..12 : Connected(k) = Cardinality(BeforeMonth(c, k)) /\ Connected(k) \in Nat
  BY ConnectedTaxisAre
<1>4. \A i \in 0..4 : counted(i) \in Nat
  <2> HIDE DEF added
  <2> QED
    BY <1>1, FiniteBefore
<1>5. \A i \in 0..4, k \in 0..12 :
        /\ k >= 12 - 3 * i => Cardinality(BeforeMonth(c, k)) <= counted(i)
        /\ k < 12 - 3 * i => counted(i) <= Cardinality(BeforeMonth(c, k))
  BY MonthsAndMilestones
<1> HIDE DEF registered, added, Connected, counted
<1>6. /\ Connected(0) <= registered.today
      /\ registered.three_months_ago \in Connected(3)..Connected(2)
      /\ registered.six_months_ago \in Connected(6)..Connected(5)
      /\ Connected(12) <= registered.twelve_months_ago
  <2>1. Connected(0) <= counted(4)
    BY <1>3, <1>5
  <2>2. Connected(3) <= counted(3) /\ counted(3) <= Connected(2)
    BY <1>3, <1>5
  <2>3. Connected(6) <= counted(2) /\ counted(2) <= Connected(5)
    BY <1>3, <1>5
  <2>4. Connected(12) <= counted(0)
    BY <1>3, <1>5
  <2> QED
    BY <1>2, <1>3, <1>4, <2>1, <2>2, <2>3, <2>4
<1>7. get_hails_growth(c).sum + get_hails_growth(c).over = get_hails_count(c, last)
  <2>1. \A when : get_hails_count(c, when) \in Nat
    BY FiniteRows, FS_Subset, FS_CardinalityType DEF get_hails_count
  <2>2. /\ get_hails_growth(c).sum = get_hails_count(c, last) - get_hails_count(c, before)
        /\ get_hails_growth(c).over = get_hails_count(c, before)
    BY DEF get_hails_growth
  <2> HIDE DEF last, before
  <2>3. get_hails_count(c, last) \in Nat /\ get_hails_count(c, before) \in Nat
    BY <2>1
  <2> QED
    BY <2>2, <2>3
<1>8. LET total == get_hails_total(IF last[1] = today[1] THEN CurrentYear ELSE LastYear, f)
      IN  get_hails_count(c, last) = IF last[2] \in DOMAIN total THEN total[last[2]] ELSE 0
  BY LastMonth
<1> QED
  BY <1>6, <1>7, <1>8 DEF PublicFiguresAgree, registered, Connected

\* Figures that count the same things in different ways add up to one another,
\* whatever status a hail was copied in, and whether or not its town was found.
THEOREM FiguresCorrect == Spec => []FiguresAddUp
<1>1. ASSUME TypeOK PROVE FiguresAddUp
  <2>1. FiltersAddUp(Taxis) /\ FiltersAddUp(Hails)
    BY FiniteRows, FiltersSplit
  <2>2. \A c \in Conurbation, d \in Departement :
            IsOf(c, d) => PublicFiguresAgree(c, InDepartement(d))
    BY <1>1, PublicFiguresOk
  <2>3. ASSUME NEW f
        PROVE  LET hails == stats_hails(f) IN
               /\ OutcomesAddUp(hails, f)
               /\ YearsAddUp(hails, f)
               /\ SumOf(stats_adsmap(f)) = Parts(Located(Taxis), f)
               /\ SumOf(get_fleet_data(f)) =
                    Parts({t \in Taxis : OperatorOf[t] \in Groupement}, f)
    BY <1>1, OutcomesOk, YearsOk, MapAddsUp, FleetsAddUp
  <2> QED
    BY <2>1, <2>2, <2>3, TaxiFiguresOk DEF FiguresAddUp
<1> QED
  BY <1>1, TypeCorrect, PTL
===============================================================================
