---------------------------- MODULE PositionsProofs ----------------------------
(***************************************************************************)
(* Theorems about Positions and ActiveTaxis, for any numbers of taxis,     *)
(* operators, reports, cleaners and searches, any towns and ZUPC, and any  *)
(* limits validate_app_config accepts.                                     *)
(***************************************************************************)
EXTENDS ActiveTaxis, FiniteSetTheorems, FunctionTheorems, WellFoundedInduction, TLAPS

-------------------------------------------------------------------------------
(* Sizes and sums *)

\* The elements of a set whose key is one of these.
Having(S, key, keys) == {x \in S : key[x] \in keys}

\* If each key counts the elements of a finite set that have it, then the sum over
\* some keys counts the elements that have one of them.
LEMMA PartsAddUp ==
    ASSUME NEW S, IsFiniteSet(S), NEW key, NEW keys, NEW count,
           \A k \in keys : count[k] = Cardinality(Having(S, key, {k}))
    PROVE  SumOver(count, keys) = Cardinality(Having(S, key, keys))
<1> DEFINE Part(k) == {x \in S : key[x] = k}
           Whole == {x \in S : key[x] \in keys}
           Tagged == UNION {{k} \X (1..count[k]) : k \in keys}
           numbers == [k \in keys |-> CHOOSE b : b \in Bijection(1..Cardinality(Part(k)), Part(k))]
           f == [p \in Tagged |-> numbers[p[1]][p[2]]]
<1>0. \A k \in keys : count[k] = Cardinality(Part(k))
  <2>1. \A k : Having(S, key, {k}) = Part(k)
    BY DEF Having
  <2> QED
    BY <2>1, Zenon
<1>1. \A k \in keys : numbers[k] \in Bijection(1..count[k], Part(k))
  <2> SUFFICES ASSUME NEW k \in keys PROVE numbers[k] \in Bijection(1..count[k], Part(k))
    OBVIOUS
  <2>1. IsFiniteSet(Part(k))
    BY FS_Subset
  <2>2. \E b : b \in Bijection(1..Cardinality(Part(k)), Part(k))
    BY <2>1, FS_CardinalityType, Zenon DEF ExistsBijection
  <2>3. numbers[k] \in Bijection(1..Cardinality(Part(k)), Part(k))
    BY <2>2, Zenon
  <2> HIDE DEF Part, numbers
  <2> QED
    BY <1>0, <2>3
<1>2. \A p : p \in Tagged <=> \E k \in keys : \E i \in 1..count[k] : p = <<k, i>>
  OBVIOUS
<1>3. \A k \in keys : \A i \in 1..count[k] : f[<<k, i>>] = numbers[k][i]
  BY <1>2
<1>4. ASSUME NEW p \in Tagged
      PROVE  \E k \in keys : \E i \in 1..count[k] :
                p = <<k, i>> /\ f[p] = numbers[k][i] /\ f[p] \in Part(k)
  <2>1. PICK k \in keys : \E i \in 1..count[k] : p = <<k, i>>
    BY <1>2
  <2>2. PICK i \in 1..count[k] : p = <<k, i>>
    BY <2>1
  <2>3. numbers[k][i] \in Part(k)
    BY <1>1 DEF Bijection, Injection
  <2> QED
    BY <1>3, <2>2, <2>3
<1>5. \A p, q \in Tagged : f[p] = f[q] => p = q
  <2> SUFFICES ASSUME NEW p \in Tagged, NEW q \in Tagged, f[p] = f[q]
               PROVE  p = q
    BY Zenon
  <2>1. PICK k \in keys : \E i \in 1..count[k] :
                p = <<k, i>> /\ f[p] = numbers[k][i] /\ f[p] \in Part(k)
    BY <1>4, Zenon
  <2>2. PICK i \in 1..count[k] : p = <<k, i>> /\ f[p] = numbers[k][i]
    BY <2>1, Zenon
  <2>3. PICK l \in keys : \E j \in 1..count[l] :
                q = <<l, j>> /\ f[q] = numbers[l][j] /\ f[q] \in Part(l)
    BY <1>4, Zenon
  <2>4. PICK j \in 1..count[l] : q = <<l, j>> /\ f[q] = numbers[l][j]
    BY <2>3, Zenon
  <2>5. k = l
    BY <2>1, <2>3
  <2>6. numbers[k] \in [1..count[k] -> Part(k)] /\ IsInjective(numbers[k])
    BY <1>1 DEF Bijection, Injection
  <2>7. numbers[k][i] = numbers[k][j]
    BY <2>2, <2>4, <2>5, Zenon
  <2>8. i = j
    BY <2>5, <2>6, <2>7 DEF IsInjective
  <2> QED
    BY <2>2, <2>4, <2>5, <2>8, Zenon
<1>6. \A x \in Whole : \E p \in Tagged : f[p] = x
  <2> SUFFICES ASSUME NEW x \in Whole PROVE \E p \in Tagged : f[p] = x
    OBVIOUS
  <2>1. key[x] \in keys /\ x \in Part(key[x])
    OBVIOUS
  <2>2. PICK i \in 1..count[key[x]] : numbers[key[x]][i] = x
    BY <1>1, <2>1 DEF Bijection, Surjection
  <2>3. <<key[x], i>> \in Tagged
    BY <1>2, <2>1
  <2>4. f[<<key[x], i>>] = x
    BY <1>3, <2>1, <2>2
  <2> HIDE DEF f, Tagged
  <2> QED
    BY <2>3, <2>4
<1>7. f \in Injection(Tagged, Whole) /\ f \in Surjection(Tagged, Whole)
  <2>1. f \in [Tagged -> Whole]
    <3>1. f = [p \in Tagged |-> f[p]]
      OBVIOUS
    <3>2. \A p \in Tagged : f[p] \in Whole
      BY <1>4
    <3> HIDE DEF Tagged, Whole, f
    <3> QED
      BY <3>1, <3>2
  <2> HIDE DEF Tagged, Whole, f
  <2>2. DOMAIN f = Tagged
    BY <2>1
  <2> QED
    BY <1>5, <1>6, <2>1, <2>2 DEF Injection, Surjection, IsInjective
<1>8. IsFiniteSet(Whole)
  BY FS_Subset
<1>9. Cardinality(Tagged) = Cardinality(Whole)
  <2> HIDE DEF Tagged, Whole, f
  <2> QED
    BY <1>7, <1>8, FS_Injection
<1> QED
  BY <1>9 DEF SumOver, Having

-------------------------------------------------------------------------------
USE PositionsAssumption

\* A step that touches neither the keys of Redis nor those who write them.
LeavesIndexAlone == UNCHANGED <<now, redis, sending, cleaner>>

-------------------------------------------------------------------------------
(* The indexes *)

\* A request lasts MaxDelay at most: the clock waits for it.
ReportsAreTimely ==
    \A m \in sending : m.at <= now /\ now <= m.at + MaxDelay

\* Nobody reports from the future.
DatesArePast == \A e \in Declared : hash[e] # None => hash[e].at <= now

\* What a cleaner removes was old when it began, and is older now.
ThresholdsAreOld ==
    \A c \in Cleaner :
        cleaner[c].step # "idle" => cleaner[c].max + GPS_FRESHNESS <= now

\* What the main hash has, and is fresh, the indexes by entry have.
EntryIsIndexed(e) ==
    hash[e] # None /\ now < hash[e].at + GPS_FRESHNESS
        => timestamps[e] = hash[e].at /\ geoindex_2[e] = hash[e].place

\* The indexes by taxi have a date, too old by a request's length at most.
TaxiIsIndexed(e) ==
    hash[e] # None /\ now + MaxDelay < hash[e].at + GPS_FRESHNESS
        => /\ timestamps_id[e[1]] # None
           /\ hash[e].at <= timestamps_id[e[1]] + MaxDelay
           /\ geoindex[e[1]] # None

IndexInv ==
    /\ IndexTypes
    /\ ReportsAreTimely
    /\ DatesArePast
    /\ ThresholdsAreOld
    /\ \A e \in Declared : EntryIsIndexed(e) /\ TaxiIsIndexed(e)

\* Who is declared, and the numbers, as the proofs need them.
LEMMA Basics ==
    /\ GPS_FRESHNESS \in Nat \ {0} /\ MaxDelay \in Nat /\ MaxTime \in Nat
    /\ \A e \in Declared : e[1] \in Taxi /\ e[2] \in Operator /\ e = <<e[1], e[2]>>
    /\ None \notin Nat /\ None \notin [at : Nat, place : Distance]
    /\ Distance \subseteq Nat
BY DEF ConfigIsValid

\* A record of the hash is one.
LEMMA HashRecords ==
    ASSUME IndexTypes, NEW e \in Declared, hash[e] # None
    PROVE  hash[e].at \in Nat /\ hash[e].place \in Distance
BY DEF IndexTypes, Time

LEMMA IndexInvInit == Init => IndexInv
<1> SUFFICES ASSUME Init PROVE IndexInv
  OBVIOUS
<1>1. IndexTypes
  BY Basics DEF Init, IndexTypes, Time, Resting, Clean
<1>2. ReportsAreTimely /\ DatesArePast /\ ThresholdsAreOld
  BY DEF Init, ReportsAreTimely, DatesArePast, ThresholdsAreOld, Resting
<1>3. \A e \in Declared : EntryIsIndexed(e) /\ TaxiIsIndexed(e)
  BY DEF Init, EntryIsIndexed, TaxiIsIndexed
<1> QED
  BY <1>1, <1>2, <1>3 DEF IndexInv

\* What nobody writes stays as it is, whoever sends or cleans.
LEMMA KeysUnchanged ==
    ASSUME IndexInv, UNCHANGED <<now, redis>>
    PROVE  /\ DatesArePast'
           /\ \A e \in Declared : EntryIsIndexed(e)' /\ TaxiIsIndexed(e)'
<1>1. DatesArePast'
  BY DEF IndexInv, DatesArePast, redis
<1>2. \A e \in Declared : EntryIsIndexed(e)' /\ TaxiIsIndexed(e)'
  BY DEF IndexInv, EntryIsIndexed, TaxiIsIndexed, redis
<1> QED
  BY <1>1, <1>2

LEMMA IndexLeftAlone ==
    ASSUME IndexInv, LeavesIndexAlone
    PROVE  IndexInv'
<1>1. IndexTypes'
  BY DEF IndexInv, IndexTypes, LeavesIndexAlone, redis
<1>2. ReportsAreTimely' /\ ThresholdsAreOld'
  BY DEF IndexInv, ReportsAreTimely, ThresholdsAreOld, LeavesIndexAlone
<1> QED
  BY <1>1, <1>2, KeysUnchanged DEF IndexInv, LeavesIndexAlone

\* Time only makes what is indexed less fresh, and thresholds older.
LEMMA TickKeepsIndex ==
    ASSUME IndexInv, Tick
    PROVE  IndexInv'
<1> USE Basics
<1>1. now \in Nat /\ now' = now + 1 /\ now' \in Time
  BY DEF Tick, IndexInv, IndexTypes, Time
<1>2. IndexTypes'
  BY <1>1 DEF IndexInv, IndexTypes, Tick, redis
<1>3. ReportsAreTimely'
  <2> SUFFICES ASSUME NEW m \in sending PROVE m.at <= now' /\ now' <= m.at + MaxDelay
    BY DEF ReportsAreTimely, Tick
  <2>1. m.at \in Nat /\ m.at <= now /\ now - m.at < MaxDelay
    BY DEF IndexInv, IndexTypes, Report, ReportsAreTimely, Tick, Time
  <2> QED
    BY <1>1, <2>1
<1>4. DatesArePast'
  <2> SUFFICES ASSUME NEW e \in Declared, hash[e] # None PROVE hash[e].at <= now'
    BY DEF DatesArePast, Tick, redis
  <2> QED
    BY <1>1, HashRecords DEF IndexInv, DatesArePast
<1>5. ThresholdsAreOld'
  BY <1>1 DEF IndexInv, ThresholdsAreOld, IndexTypes, Tick
<1>6. ASSUME NEW e \in Declared
      PROVE  EntryIsIndexed(e)' /\ TaxiIsIndexed(e)'
  BY <1>1, HashRecords DEF IndexInv, EntryIsIndexed, TaxiIsIndexed, Tick, redis
<1> QED
  BY <1>2, <1>3, <1>4, <1>5, <1>6 DEF IndexInv

LEMMA ReportBeginsKeepsIndex ==
    ASSUME IndexInv, NEW o \in Operator, NEW T \in SUBSET Taxi,
           NEW places \in [T -> Distance], ReportBegins(o, places)
    PROVE  IndexInv'
<1> USE Basics
<1> DEFINE m == [op |-> o, at |-> now, places |-> places]
<1>1. sending' = sending \cup {m} /\ UNCHANGED <<now, redis, cleaner>>
  BY DEF ReportBegins
<1>2. m \in Report /\ m.at = now /\ now \in Nat
  BY DEF Report, IndexInv, IndexTypes, Time
<1>3. IndexTypes'
  BY <1>1, <1>2 DEF IndexInv, IndexTypes, redis
<1>4. ReportsAreTimely'
  BY <1>1, <1>2 DEF IndexInv, ReportsAreTimely
<1>5. ThresholdsAreOld'
  BY <1>1 DEF IndexInv, ThresholdsAreOld
<1> QED
  BY <1>1, <1>3, <1>4, <1>5, KeysUnchanged DEF IndexInv

LEMMA ReportFailsKeepsIndex ==
    ASSUME IndexInv, NEW m \in sending, ReportFails(m)
    PROVE  IndexInv'
<1>1. sending' = sending \ {m} /\ UNCHANGED <<now, redis, cleaner>>
  BY DEF ReportFails
<1>2. IndexTypes'
  BY <1>1 DEF IndexInv, IndexTypes, redis
<1>3. ReportsAreTimely' /\ ThresholdsAreOld'
  BY <1>1 DEF IndexInv, ReportsAreTimely, ThresholdsAreOld
<1> QED
  BY <1>1, <1>2, <1>3, KeysUnchanged DEF IndexInv

\* The five keys after the pipeline of a report.
LEMMA Written ==
    ASSUME IndexTypes, NEW m \in sending, ReportIsWritten(m)
    PROVE  /\ m \in Report
           /\ \A e \in Declared : Reported(m, e) =>
                /\ hash'[e] = [at |-> m.at, place |-> m.places[e[1]]]
                /\ geoindex_2'[e] = m.places[e[1]]
                /\ timestamps'[e] = m.at
           /\ \A e \in Declared : ~Reported(m, e) =>
                /\ hash'[e] = hash[e]
                /\ geoindex_2'[e] = geoindex_2[e]
                /\ timestamps'[e] = timestamps[e]
           /\ \A t \in Taxi : t \in DOMAIN m.places =>
                geoindex'[t] = m.places[t] /\ timestamps_id'[t] = m.at
           /\ \A t \in Taxi : t \notin DOMAIN m.places =>
                geoindex'[t] = geoindex[t] /\ timestamps_id'[t] = timestamps_id[t]
<1>1. m \in Report
  BY DEF IndexTypes
<1> QED
  BY <1>1 DEF ReportIsWritten

LEMMA WrittenTypes ==
    ASSUME IndexTypes, NEW m \in sending, ReportIsWritten(m)
    PROVE  IndexTypes'
<1> USE Basics
<1>1. m.at \in Time /\ m.places \in [DOMAIN m.places -> Distance]
  BY DEF IndexTypes, Report
<1>2. hash' \in [Declared -> [at : Time, place : Distance] \cup {None}]
  BY <1>1 DEF IndexTypes, ReportIsWritten, Reported
<1>3. geoindex' \in [Taxi -> Distance \cup {None}]
  BY <1>1 DEF IndexTypes, ReportIsWritten, Reported
<1>4. geoindex_2' \in [Declared -> Distance \cup {None}]
  BY <1>1 DEF IndexTypes, ReportIsWritten, Reported
<1>5. timestamps' \in [Declared -> Time \cup {None}]
  BY <1>1 DEF IndexTypes, ReportIsWritten, Reported
<1>6. timestamps_id' \in [Taxi -> Time \cup {None}]
  BY <1>1 DEF IndexTypes, ReportIsWritten, Reported
<1>7. sending' \subseteq Report /\ UNCHANGED <<now, cleaner>>
  BY DEF IndexTypes, ReportIsWritten
<1> QED
  BY <1>2, <1>3, <1>4, <1>5, <1>6, <1>7 DEF IndexTypes

\* A report puts its own date and place in the indexes by entry. The date it
\* puts in those by taxi may be older than another operator's, by its length.
LEMMA ReportIsWrittenKeepsIndex ==
    ASSUME IndexInv, NEW m \in sending, ReportIsWritten(m)
    PROVE  IndexInv'
<1> USE Basics
<1>1. IndexTypes /\ IndexTypes'
  BY WrittenTypes DEF IndexInv
<1>2. /\ m.at \in Nat /\ now \in Nat /\ m.at <= now /\ now <= m.at + MaxDelay
      /\ \A t \in DOMAIN m.places : m.places[t] \in Distance
      /\ now' = now
  BY <1>1 DEF IndexInv, IndexTypes, Report, Time, ReportsAreTimely, ReportIsWritten
<1>3. ReportsAreTimely' /\ ThresholdsAreOld'
  BY DEF IndexInv, ReportsAreTimely, ThresholdsAreOld, ReportIsWritten
<1>w. /\ \A e \in Declared : Reported(m, e) =>
            /\ hash'[e] = [at |-> m.at, place |-> m.places[e[1]]]
            /\ geoindex_2'[e] = m.places[e[1]]
            /\ timestamps'[e] = m.at
      /\ \A t \in Taxi : t \in DOMAIN m.places =>
            geoindex'[t] = m.places[t] /\ timestamps_id'[t] = m.at
  BY <1>1, Written
<1>4. ASSUME NEW e \in Declared
      PROVE  /\ hash'[e] # None => hash'[e].at <= now
             /\ EntryIsIndexed(e)'
             /\ TaxiIsIndexed(e)'
  <2>1. CASE Reported(m, e)
    <3>0. e[1] \in DOMAIN m.places /\ e[1] \in Taxi
      BY <2>1 DEF Reported
    <3>1. hash'[e].at = m.at /\ hash'[e].place = m.places[e[1]]
      <4>1. hash'[e] = [at |-> m.at, place |-> m.places[e[1]]]
        BY <1>w, <2>1
      <4> QED
        BY <4>1
    <3>2. timestamps'[e] = m.at /\ geoindex_2'[e] = m.places[e[1]]
      BY <1>w, <2>1
    <3>3. timestamps_id'[e[1]] = m.at /\ geoindex'[e[1]] = m.places[e[1]]
      BY <1>w, <3>0
    <3>4. EntryIsIndexed(e)'
      BY <3>1, <3>2 DEF EntryIsIndexed
    <3>5. TaxiIsIndexed(e)'
      <4>1. m.at # None /\ m.at <= m.at + MaxDelay
        BY <1>2
      <4>2. m.places[e[1]] # None
        BY <1>2, <3>0
      <4> QED
        BY <3>1, <3>3, <4>1, <4>2 DEF TaxiIsIndexed
    <3> QED
      BY <1>2, <3>1, <3>4, <3>5
  <2>2. CASE ~Reported(m, e)
    <3>1. /\ hash'[e] = hash[e] /\ timestamps'[e] = timestamps[e]
          /\ geoindex_2'[e] = geoindex_2[e]
      BY <1>1, <2>2, Written
    <3>2. hash[e] # None => hash[e].at \in Nat /\ hash[e].at <= now
      BY <1>1, HashRecords DEF IndexInv, DatesArePast
    <3>3. EntryIsIndexed(e)'
      BY <1>2, <3>1 DEF IndexInv, EntryIsIndexed
    <3>4. CASE e[1] \in DOMAIN m.places
      <4>1. timestamps_id'[e[1]] = m.at /\ geoindex'[e[1]] = m.places[e[1]]
        BY <1>1, <3>4, Written
      <4>2. m.at # None /\ m.places[e[1]] # None
        BY <1>2, <3>4
      <4>3. hash[e] # None => hash[e].at <= m.at + MaxDelay
        BY <1>2, <3>2
      <4>4. TaxiIsIndexed(e)'
        BY <3>1, <4>1, <4>2, <4>3 DEF TaxiIsIndexed
      <4> QED
        BY <1>2, <3>1, <3>2, <3>3, <4>4
    <3>5. CASE e[1] \notin DOMAIN m.places
      <4>1. timestamps_id'[e[1]] = timestamps_id[e[1]] /\ geoindex'[e[1]] = geoindex[e[1]]
        BY <1>1, <3>5, Written
      <4>2. TaxiIsIndexed(e)'
        BY <1>2, <3>1, <4>1 DEF IndexInv, TaxiIsIndexed
      <4> QED
        BY <3>1, <3>2, <3>3, <4>2
    <3> QED
      BY <3>4, <3>5
  <2> QED
    BY <2>1, <2>2
<1>5. DatesArePast'
  BY <1>2, <1>4 DEF DatesArePast
<1> QED
  BY <1>1, <1>3, <1>4, <1>5 DEF IndexInv

\* A cleaner's threshold is taken from the clock, and then only forgotten.
LEMMA CleanerSteps ==
    ASSUME IndexInv, NEW c \in Cleaner,
           CleanBegins(c) \/ CleanGoesOn(c) \/ CleanerLost(c)
    PROVE  /\ cleaner' \in [Cleaner -> [step : Clean, max : Int]]
           /\ ThresholdsAreOld'
           /\ UNCHANGED <<now, hash, sending>>
<1> USE Basics
<1>1. now \in Nat /\ cleaner \in [Cleaner -> [step : Clean, max : Int]]
  BY DEF IndexInv, IndexTypes, Time
<1>2. CASE CleanBegins(c)
  <2>1. /\ cleaner' = [cleaner EXCEPT ![c] =
                [step |-> "timestamps", max |-> now - GPS_FRESHNESS]]
        /\ UNCHANGED <<now, hash, sending>>
    BY <1>2 DEF CleanBegins, redis
  <2>2. ThresholdsAreOld'
    BY <1>1, <2>1 DEF IndexInv, ThresholdsAreOld
  <2> QED
    BY <1>1, <2>1, <2>2 DEF Clean
<1>3. CASE CleanGoesOn(c)
  <2>1. PICK from, to \in Clean : from # "idle" /\ GoesOn(c, from, to)
    BY <1>3 DEF CleanGoesOn, RemoveTimestamps, IntersectGeoindex2,
                RemoveTimestampsId, IntersectGeoindex, Clean
  <2>2. /\ cleaner' = [cleaner EXCEPT ![c] =
                IF to = "idle" THEN Resting ELSE [@ EXCEPT !.step = to]]
        /\ UNCHANGED <<now, hash, sending>>
    BY <2>1 DEF GoesOn
  <2>3. cleaner'[c] \in {Resting, [cleaner[c] EXCEPT !.step = to]}
    BY <1>1, <2>2
  <2>4. cleaner'[c] \in [step : Clean, max : Int]
    BY <1>1, <2>1, <2>3 DEF Resting, Clean
  <2>5. ThresholdsAreOld'
    <3> SUFFICES ASSUME NEW d \in Cleaner, cleaner'[d].step # "idle"
                 PROVE  cleaner'[d].max + GPS_FRESHNESS <= now'
      BY DEF ThresholdsAreOld
    <3>1. CASE d = c
      BY <1>1, <2>1, <2>2, <2>3, <3>1 DEF IndexInv, ThresholdsAreOld, GoesOn, Resting
    <3>2. CASE d # c
      BY <1>1, <2>2, <3>2 DEF IndexInv, ThresholdsAreOld
    <3> QED
      BY <3>1, <3>2
  <2> QED
    BY <1>1, <2>2, <2>4, <2>5
<1>4. CASE CleanerLost(c)
  <2>1. cleaner' = [cleaner EXCEPT ![c] = Resting] /\ UNCHANGED <<now, hash, sending>>
    BY <1>4 DEF CleanerLost, redis
  <2>2. ThresholdsAreOld'
    BY <1>1, <2>1 DEF IndexInv, ThresholdsAreOld, Resting
  <2> QED
    BY <1>1, <2>1, <2>2 DEF Resting, Clean
<1> QED
  BY <1>2, <1>3, <1>4

\* The two commands on dates take none that is fresh, the two on places none
\* that has a date.
LEMMA CleanKeepsIndex ==
    ASSUME IndexInv, NEW c \in Cleaner, CleanGoesOn(c)
    PROVE  IndexInv'
<1> USE Basics
<1>1. /\ cleaner' \in [Cleaner -> [step : Clean, max : Int]]
      /\ ThresholdsAreOld'
      /\ UNCHANGED <<now, hash, sending>>
  BY CleanerSteps
<1>2. /\ IndexTypes /\ now \in Nat /\ cleaner[c].max \in Int
      /\ cleaner[c].step # "idle" => cleaner[c].max + GPS_FRESHNESS <= now
      /\ timestamps \in [Declared -> Nat \cup {None}]
      /\ geoindex_2 \in [Declared -> Nat \cup {None}]
      /\ timestamps_id \in [Taxi -> Nat \cup {None}]
      /\ geoindex \in [Taxi -> Nat \cup {None}]
  <2>1. IndexTypes
    BY DEF IndexInv
  <2>2. now \in Nat /\ cleaner[c].max \in Int
    BY <2>1 DEF IndexTypes, Time
  <2>3. cleaner[c].step # "idle" => cleaner[c].max + GPS_FRESHNESS <= now
    BY DEF IndexInv, ThresholdsAreOld
  <2>4. Time \cup {None} \subseteq Nat \cup {None}
    BY DEF Time
  <2>5. Distance \cup {None} \subseteq Nat \cup {None}
    OBVIOUS
  <2>6. /\ timestamps \in [Declared -> Time \cup {None}]
        /\ timestamps_id \in [Taxi -> Time \cup {None}]
        /\ geoindex_2 \in [Declared -> Distance \cup {None}]
        /\ geoindex \in [Taxi -> Distance \cup {None}]
    BY <2>1 DEF IndexTypes
  <2>7. /\ timestamps \in [Declared -> Nat \cup {None}]
        /\ timestamps_id \in [Taxi -> Nat \cup {None}]
    BY <2>4, <2>6
  <2>8. /\ geoindex_2 \in [Declared -> Nat \cup {None}]
        /\ geoindex \in [Taxi -> Nat \cup {None}]
    BY <2>5, <2>6
  <2> QED
    BY <2>1, <2>2, <2>3, <2>7, <2>8
<1>3. ReportsAreTimely' /\ DatesArePast'
  BY <1>1 DEF IndexInv, ReportsAreTimely, DatesArePast
<1>4. /\ IndexTypes'
      /\ \A e \in Declared : EntryIsIndexed(e)' /\ TaxiIsIndexed(e)'
  <2>1. CASE RemoveTimestamps(c)
    <3>1. /\ timestamps' = WithoutOld(timestamps, cleaner[c].max)
          /\ UNCHANGED <<geoindex, geoindex_2, timestamps_id>>
          /\ cleaner[c].max + GPS_FRESHNESS <= now
      BY <1>2, <2>1 DEF RemoveTimestamps, GoesOn
    <3>2. timestamps' \in [Declared -> Time \cup {None}]
      BY <3>1, <1>2 DEF WithoutOld, IndexTypes
    <3>3. IndexTypes'
      BY <1>1, <1>2, <3>1, <3>2 DEF IndexTypes
    <3>4. ASSUME NEW e \in Declared PROVE EntryIsIndexed(e)' /\ TaxiIsIndexed(e)'
      <4>1. TaxiIsIndexed(e)'
        BY <1>1, <3>1 DEF IndexInv, TaxiIsIndexed
      <4>2. ASSUME hash[e] # None, now < hash[e].at + GPS_FRESHNESS
            PROVE  timestamps'[e] = timestamps[e]
        <5>1. timestamps[e] = hash[e].at /\ hash[e].at \in Nat
          BY <1>2, <4>2, HashRecords DEF IndexInv, EntryIsIndexed
        <5>2. timestamps[e] # None /\ ~(timestamps[e] <= cleaner[c].max)
          BY <1>2, <3>1, <4>2, <5>1
        <5> QED
          BY <1>2, <3>1, <5>2 DEF WithoutOld
      <4> QED
        BY <1>1, <3>1, <4>1, <4>2 DEF IndexInv, EntryIsIndexed
    <3> QED
      BY <3>3, <3>4
  <2>2. CASE IntersectGeoindex2(c)
    <3>1. /\ geoindex_2' = Intersected(geoindex_2, timestamps)
          /\ UNCHANGED <<geoindex, timestamps, timestamps_id>>
      BY <2>2 DEF IntersectGeoindex2
    <3>2. geoindex_2' \in [Declared -> Distance \cup {None}]
      BY <3>1, <1>2 DEF Intersected, IndexTypes
    <3>3. IndexTypes'
      BY <1>1, <1>2, <3>1, <3>2 DEF IndexTypes
    <3>4. ASSUME NEW e \in Declared PROVE EntryIsIndexed(e)' /\ TaxiIsIndexed(e)'
      <4>1. TaxiIsIndexed(e)'
        BY <1>1, <3>1 DEF IndexInv, TaxiIsIndexed
      <4>2. ASSUME hash[e] # None, now < hash[e].at + GPS_FRESHNESS
            PROVE  geoindex_2'[e] = geoindex_2[e]
        <5>1. timestamps[e] # None
          BY <1>2, <4>2, HashRecords DEF IndexInv, EntryIsIndexed
        <5> QED
          BY <1>2, <3>1, <5>1 DEF Intersected
      <4> QED
        BY <1>1, <3>1, <4>1, <4>2 DEF IndexInv, EntryIsIndexed
    <3> QED
      BY <3>3, <3>4
  <2>3. CASE RemoveTimestampsId(c)
    <3>1. /\ timestamps_id' = WithoutOld(timestamps_id, cleaner[c].max)
          /\ UNCHANGED <<geoindex, geoindex_2, timestamps>>
          /\ cleaner[c].max + GPS_FRESHNESS <= now
      BY <1>2, <2>3 DEF RemoveTimestampsId, GoesOn
    <3>2. timestamps_id' \in [Taxi -> Time \cup {None}]
      BY <3>1, <1>2 DEF WithoutOld, IndexTypes
    <3>3. IndexTypes'
      BY <1>1, <1>2, <3>1, <3>2 DEF IndexTypes
    <3>4. ASSUME NEW e \in Declared PROVE EntryIsIndexed(e)' /\ TaxiIsIndexed(e)'
      <4>1. EntryIsIndexed(e)'
        BY <1>1, <3>1 DEF IndexInv, EntryIsIndexed
      <4>2. ASSUME hash[e] # None, now + MaxDelay < hash[e].at + GPS_FRESHNESS
            PROVE  timestamps_id'[e[1]] = timestamps_id[e[1]]
        <5>1. /\ timestamps_id[e[1]] # None /\ hash[e].at \in Nat
              /\ hash[e].at <= timestamps_id[e[1]] + MaxDelay
          BY <1>2, <4>2, HashRecords DEF IndexInv, TaxiIsIndexed
        <5>2. timestamps_id[e[1]] \in Nat
          BY <1>2, <5>1
        <5>3. ~(timestamps_id[e[1]] <= cleaner[c].max)
          BY <1>2, <3>1, <4>2, <5>1, <5>2
        <5> QED
          BY <1>2, <3>1, <5>1, <5>3 DEF WithoutOld
      <4> QED
        BY <1>1, <3>1, <4>1, <4>2 DEF IndexInv, TaxiIsIndexed
    <3> QED
      BY <3>3, <3>4
  <2>4. CASE IntersectGeoindex(c)
    <3>1. /\ geoindex' = Intersected(geoindex, timestamps_id)
          /\ UNCHANGED <<geoindex_2, timestamps, timestamps_id>>
      BY <2>4 DEF IntersectGeoindex
    <3>2. geoindex' \in [Taxi -> Distance \cup {None}]
      BY <3>1, <1>2 DEF Intersected, IndexTypes
    <3>3. IndexTypes'
      BY <1>1, <1>2, <3>1, <3>2 DEF IndexTypes
    <3>4. ASSUME NEW e \in Declared PROVE EntryIsIndexed(e)' /\ TaxiIsIndexed(e)'
      <4>1. EntryIsIndexed(e)'
        BY <1>1, <3>1 DEF IndexInv, EntryIsIndexed
      <4>2. ASSUME hash[e] # None, now + MaxDelay < hash[e].at + GPS_FRESHNESS
            PROVE  geoindex'[e[1]] = geoindex[e[1]]
        <5>1. timestamps_id[e[1]] # None
          BY <4>2 DEF IndexInv, TaxiIsIndexed
        <5> QED
          BY <1>2, <3>1, <5>1 DEF Intersected
      <4> QED
        BY <1>1, <3>1, <4>1, <4>2 DEF IndexInv, TaxiIsIndexed
    <3> QED
      BY <3>3, <3>4
  <2> QED
    BY <2>1, <2>2, <2>3, <2>4 DEF CleanGoesOn
<1> QED
  BY <1>1, <1>3, <1>4 DEF IndexInv

\* Beginning and dying touch no key.
LEMMA CleanerComesAndGoes ==
    ASSUME IndexInv, NEW c \in Cleaner, CleanBegins(c) \/ CleanerLost(c)
    PROVE  IndexInv'
<1>1. UNCHANGED <<now, redis, sending>>
  BY DEF CleanBegins, CleanerLost
<1>2. cleaner' \in [Cleaner -> [step : Clean, max : Int]] /\ ThresholdsAreOld'
  BY CleanerSteps
<1>3. IndexTypes'
  BY <1>1, <1>2 DEF IndexInv, IndexTypes, redis
<1>4. ReportsAreTimely'
  BY <1>1 DEF IndexInv, ReportsAreTimely
<1> QED
  BY <1>1, <1>2, <1>3, <1>4, KeysUnchanged DEF IndexInv

\* Each step is one of those above.
LEMMA NextPositionSteps ==
    ASSUME [Next]_vars
    PROVE  \/ Tick
           \/ \E o \in Operator, T \in SUBSET Taxi :
                \E places \in [T -> Distance] : ReportBegins(o, places)
           \/ \E m \in sending : ReportIsWritten(m) \/ ReportFails(m)
           \/ \E c \in Cleaner : CleanBegins(c) \/ CleanGoesOn(c) \/ CleanerLost(c)
           \/ LeavesIndexAlone /\ UNCHANGED search
           \/ LeavesIndexAlone /\ UNCHANGED rows
              /\ \E w \in Worker : SearchBegins(w) \/ ReadDate(w) \/ SearchAnswers(w)
<1>1. ASSUME NEW e \in Declared, NEW s, NEW r, PutTaxi(e, s, r)
      PROVE  LeavesIndexAlone /\ UNCHANGED search
  BY <1>1 DEF PutTaxi, LeavesIndexAlone
<1>2. ASSUME NEW t \in Taxi, NEW s, Hailed(t) \/ HailEnds(t, s)
      PROVE  LeavesIndexAlone /\ UNCHANGED search
  BY <1>2 DEF Hailed, HailEnds, LeavesIndexAlone
<1>3. ASSUME NEW w \in Worker, SearchBegins(w) \/ ReadDate(w) \/ SearchAnswers(w)
      PROVE  LeavesIndexAlone /\ UNCHANGED rows
  BY <1>3 DEF SearchBegins, ReadDate, SearchAnswers, LeavesIndexAlone
<1>4. UNCHANGED vars => LeavesIndexAlone /\ UNCHANGED search
  BY DEF vars, LeavesIndexAlone
<1> QED
  BY <1>1, <1>2, <1>3, <1>4 DEF Next

LEMMA IndexInvNext == IndexInv /\ [Next]_vars => IndexInv'
<1> SUFFICES ASSUME IndexInv, [Next]_vars PROVE IndexInv'
  OBVIOUS
<1> QED
  BY NextPositionSteps, TickKeepsIndex, ReportBeginsKeepsIndex,
     ReportIsWrittenKeepsIndex, ReportFailsKeepsIndex, CleanKeepsIndex,
     CleanerComesAndGoes, IndexLeftAlone

LEMMA IndexesKept == Spec => []IndexInv
BY IndexInvInit, IndexInvNext, PTL DEF Spec

\* The indexes never miss a live position, whatever the cleaners do and
\* whenever they die: no cleaner is given a threshold that a fresh date, or one
\* that a late request of another operator has set back, is below.
THEOREM FreshPositionsAreIndexed == Spec => []FreshIsIndexed
<1>1. IndexInv => FreshIsIndexed
  <2> SUFFICES ASSUME IndexInv, NEW e \in Declared, hash[e] # None
               PROVE  /\ now - hash[e].at < GPS_FRESHNESS =>
                          timestamps[e] = hash[e].at /\ geoindex_2[e] = hash[e].place
                      /\ now - hash[e].at + MaxDelay < GPS_FRESHNESS =>
                          timestamps_id[e[1]] # None /\ geoindex[e[1]] # None
    BY DEF FreshIsIndexed
  <2>1. hash[e].at \in Nat /\ now \in Nat
    BY HashRecords, Basics DEF IndexInv, IndexTypes, Time
  <2> QED
    BY <2>1, Basics DEF IndexInv, EntryIsIndexed, TaxiIsIndexed
<1> QED
  BY <1>1, IndexesKept, PTL
-------------------------------------------------------------------------------
(* Counting the active taxis *)

\* The freshness is a whole number of minutes, as the default is.
WholeMinutes == \E k \in Nat : GPS_FRESHNESS = k * Minute

LEMMA CeilOfWhole ==
    ASSUME NEW k \in Nat, GPS_FRESHNESS = k * Minute
    PROVE  Ceil(GPS_FRESHNESS, Minute) = k
<1> DEFINE n == k * Minute + Minute - 1
           q == n \div Minute
<1>1. Minute \in Nat \ {0} /\ GPS_FRESHNESS \in Nat
  BY Basics
<1>2. n \in Nat /\ q \in Int
  BY <1>1
<1>3. q * Minute <= n /\ n < (q + 1) * Minute
  BY <1>1, <1>2
<1>4. q = k
  BY <1>1, <1>2, <1>3
<1> QED
  BY <1>1, <1>4 DEF Ceil

LEMMA MinutesAreFresh ==
    ASSUME NEW k \in Nat, GPS_FRESHNESS = k * Minute,
           NEW minutes \in Nat, minutes <= k
    PROVE  minutes * Minute <= GPS_FRESHNESS
<1>1. Minute \in Nat
  OBVIOUS
<1> QED
  BY <1>1

\* The index misses no taxi in the periods it is read for: they are not longer
\* than what the cleaning keeps.
THEOREM CountsAreComplete ==
    ASSUME WholeMinutes
    PROVE  Spec => []MinutesAreComplete
<1>1. IndexInv => MinutesAreComplete
  <2> SUFFICES ASSUME IndexInv, NEW minutes \in 1..3, NEW e \in Declared,
                      hash[e] # None, hash[e].at > now - minutes * Minute
               PROVE  e \in Updates(minutes)
    BY DEF MinutesAreComplete
  <2>1. PICK k \in Nat : GPS_FRESHNESS = k * Minute
    BY DEF WholeMinutes
  <2>2. /\ hash[e].at \in Nat /\ now \in Nat /\ minutes \in Nat /\ Minute \in Nat
        /\ minutes * Minute \in Nat /\ GPS_FRESHNESS \in Nat
    BY HashRecords, Basics DEF IndexInv, IndexTypes, Time
  <2>3. Ceil(GPS_FRESHNESS, Minute) = k
    BY <2>1, CeilOfWhole
  <2>4. CASE minutes <= k
    <3>1. minutes * Minute <= GPS_FRESHNESS
      BY <2>1, <2>2, <2>4, MinutesAreFresh
    <3>2. now < hash[e].at + GPS_FRESHNESS
      BY <2>2, <3>1
    <3>3. timestamps[e] = hash[e].at
      BY <3>2 DEF IndexInv, EntryIsIndexed
    <3>4. timestamps[e] # None /\ timestamps[e] >= now - minutes * Minute
      BY <2>2, <3>3, Basics
    <3> QED
      BY <2>3, <2>4, <3>4 DEF Updates, InTimestamps
  <2>5. CASE ~(minutes <= k)
    <3>1. hash[e].at >= now - minutes * Minute
      BY <2>2
    <3> QED
      BY <2>3, <2>5, <3>1 DEF Updates, InHash
  <2> QED
    BY <2>4, <2>5
<1> QED
  BY <1>1, IndexesKept, PTL

-------------------------------------------------------------------------------
(* What the search lists *)

\* The date of an entry in the index is that of the main hash.
DatesAgree ==
    \A e \in Declared : timestamps[e] # None =>
        hash[e] # None /\ timestamps[e] = hash[e].at

\* An operator has one report under way, and its others were before it.
ReportsInTurn ==
    /\ \A m, n \in sending : m.op = n.op => m = n
    /\ \A m \in sending, e \in Declared :
            e[2] = m.op /\ hash[e] # None => hash[e].at <= m.at

\* The main hash has every date a search has read, or a later one.
DateWasHeard(e, date) ==
    date # None => hash[e] # None /\ date <= hash[e].at

DatesWereHeard ==
    \A w \in Worker : \A e \in DOMAIN search[w].date :
        DateWasHeard(e, search[w].date[e])

SearchTypes ==
    search \in [Worker ->
        [step : {"idle", "dates"},
         date : UNION {[D -> Time \cup {None}] : D \in SUBSET Declared},
         rows : SUBSET [entry : Declared, place : Distance]]]

SearchInv ==
    /\ IndexInv
    /\ DatesAgree
    /\ ReportsInTurn
    /\ SearchTypes
    /\ DatesWereHeard

\* The main hash only gets later dates.
DatesGrow ==
    \A e \in Declared : hash[e] # None =>
        hash'[e] # None /\ hash[e].at <= hash'[e].at

LEMMA SearchInvInit == Init => SearchInv
<1> SUFFICES ASSUME Init PROVE SearchInv
  OBVIOUS
<1>1. IndexInv /\ DatesAgree /\ ReportsInTurn
  BY IndexInvInit DEF Init, DatesAgree, ReportsInTurn
<1>2. Idle \in [step : {"idle", "dates"},
                date : UNION {[D -> Time \cup {None}] : D \in SUBSET Declared},
                rows : SUBSET [entry : Declared, place : Distance]]
  <2>1. <<>> \in [{} -> Time \cup {None}]
    OBVIOUS
  <2> QED
    BY <2>1 DEF Idle
<1>3. SearchTypes /\ \A w \in Worker : search[w] = Idle
  BY <1>2 DEF Init, SearchTypes
<1> QED
  BY <1>1, <1>3 DEF SearchInv, DatesWereHeard, Idle

\* A search that goes on has heard of nothing the hash does not have.
LEMMA HeardStays ==
    ASSUME SearchInv, UNCHANGED search, DatesGrow,
           \A e \in Declared : hash'[e] # None => hash'[e].at \in Nat
    PROVE  SearchTypes' /\ DatesWereHeard'
<1>1. SearchTypes'
  BY DEF SearchInv, SearchTypes
<1>2. ASSUME NEW w \in Worker, NEW e \in DOMAIN search[w].date
      PROVE  DateWasHeard(e, search[w].date[e])'
  <2>1. e \in Declared /\ search[w].date[e] \in Nat \cup {None}
    BY DEF SearchInv, SearchTypes, Time
  <2>2. hash[e] # None => hash[e].at \in Nat
    BY <2>1, HashRecords DEF SearchInv, IndexInv
  <2>3. DateWasHeard(e, search[w].date[e])
    BY DEF SearchInv, DatesWereHeard
  <2> QED
    BY <2>1, <2>2, <2>3 DEF DateWasHeard, DatesGrow
<1> QED
  BY <1>1, <1>2 DEF DatesWereHeard

\* What is not a report leaves the hash alone.
LEMMA HashLeftAlone ==
    ASSUME SearchInv, IndexInv', UNCHANGED <<hash, search>>
    PROVE  SearchTypes' /\ DatesWereHeard'
<1>1. \A e \in Declared : hash[e] # None => hash[e].at \in Nat
  BY HashRecords DEF SearchInv, IndexInv
<1> QED
  BY <1>1, HeardStays DEF DatesGrow

LEMMA SearchSteps ==
    ASSUME SearchInv, LeavesIndexAlone, NEW w \in Worker,
           SearchBegins(w) \/ ReadDate(w) \/ SearchAnswers(w)
    PROVE  SearchTypes' /\ DatesWereHeard'
<1> USE Basics
<1> DEFINE Looks == [step : {"idle", "dates"},
                     date : UNION {[D -> Time \cup {None}] : D \in SUBSET Declared},
                     rows : SUBSET [entry : Declared, place : Distance]]
           Heard(s) == \A e \in DOMAIN s.date : DateWasHeard(e, s.date[e])
<1>1. search \in [Worker -> Looks] /\ \A v \in Worker : Heard(search[v])
  BY DEF SearchInv, SearchTypes, DatesWereHeard
<1>2. UNCHANGED <<hash, timestamps>>
  BY DEF LeavesIndexAlone, redis
<1>3. <<>> \in [{} -> Time \cup {None}]
  OBVIOUS
<1>4. ASSUME NEW s \in Looks, Heard(s), search' = [search EXCEPT ![w] = s]
      PROVE  SearchTypes' /\ DatesWereHeard'
  <2>1. SearchTypes'
    BY <1>1, <1>4 DEF SearchTypes
  <2>2. \A v \in Worker : Heard(search'[v])
    BY <1>1, <1>4
  <2> QED
    BY <1>2, <2>1, <2>2 DEF DateWasHeard, DatesWereHeard
<1>5. CASE SearchBegins(w)
  <2>1. PICK C \in Nearest(InRange) : search' = [search EXCEPT ![w] =
            [step |-> "dates", date |-> <<>>,
             rows |-> {[entry |-> e, place |-> geoindex_2[e]] : e \in C}]]
    BY <1>5 DEF SearchBegins
  <2>2. \A e \in C : e \in Declared /\ geoindex_2[e] \in Distance
    BY DEF Nearest, InRange, SearchInv, IndexInv, IndexTypes
  <2> DEFINE found == {[entry |-> e, place |-> geoindex_2[e]] : e \in C}
             s == [step |-> "dates", date |-> <<>>, rows |-> found]
  <2>3. found \in SUBSET [entry : Declared, place : Distance]
    BY <2>2
  <2>4. <<>> \in UNION {[D -> Time \cup {None}] : D \in SUBSET Declared}
    BY <1>3
  <2>5. s \in Looks /\ s.date = <<>>
    BY <2>3, <2>4
  <2>6. Heard(s)
    BY <2>5
  <2> QED
    BY <1>4, <2>1, <2>5, <2>6
<1>6. CASE ReadDate(w)
  <2>1. PICK r \in search[w].rows :
            search' = [search EXCEPT ![w].date = [d \in DOMAIN @ \cup {r.entry} |->
                            IF d = r.entry THEN timestamps[d] ELSE @[d]]]
    BY <1>6 DEF ReadDate
  <2> DEFINE f == search[w].date
             g == [d \in DOMAIN f \cup {r.entry} |->
                        IF d = r.entry THEN timestamps[d] ELSE f[d]]
             s == [search[w] EXCEPT !.date = g]
  <2>2. search[w] \in Looks /\ r.entry \in Declared
    BY <1>1
  <2>3. PICK D \in SUBSET Declared : f \in [D -> Time \cup {None}]
    BY <2>2
  <2>4. timestamps \in [Declared -> Time \cup {None}]
    BY DEF SearchInv, IndexInv, IndexTypes
  <2>5. g \in [D \cup {r.entry} -> Time \cup {None}]
    BY <2>2, <2>3, <2>4
  <2>6. D \cup {r.entry} \in SUBSET Declared
    BY <2>2
  <2>a. g \in UNION {[E -> Time \cup {None}] : E \in SUBSET Declared}
    BY <2>5, <2>6
  <2> HIDE DEF g
  <2>7. s \in Looks /\ s.date = g
    BY <2>2, <2>a
  <2> USE DEF g
  <2>8. Heard(s)
    <3> SUFFICES ASSUME NEW e \in DOMAIN g PROVE DateWasHeard(e, g[e])
      BY <2>7
    <3>1. CASE e = r.entry
      <4>1. g[e] = timestamps[e] /\ e \in Declared
        BY <2>2, <3>1
      <4>2. timestamps[e] # None => hash[e] # None /\ timestamps[e] = hash[e].at
        BY <4>1 DEF SearchInv, DatesAgree
      <4>3. hash[e] # None => hash[e].at \in Nat
        BY <4>1, HashRecords DEF SearchInv, IndexInv
      <4> QED
        BY <4>1, <4>2, <4>3 DEF DateWasHeard
    <3>2. CASE e # r.entry
      BY <1>1, <3>2
    <3> QED
      BY <3>1, <3>2
  <2>9. search' = [search EXCEPT ![w] = s]
    BY <1>1, <2>1
  <2> QED
    BY <1>4, <2>7, <2>8, <2>9
<1>7. CASE SearchAnswers(w)
  <2>1. search' = [search EXCEPT ![w] = Idle]
    BY <1>7 DEF SearchAnswers
  <2>2. Idle \in Looks /\ Heard(Idle)
    BY <1>3 DEF Idle
  <2> QED
    BY <1>4, <2>1, <2>2
<1> QED
  BY <1>5, <1>6, <1>7

LEMMA SearchInvNext ==
    ASSUME InTurn, SearchInv, [Next]_vars
    PROVE  SearchInv'
<1> USE Basics
<1>0. IndexInv /\ IndexInv'
  BY IndexInvNext DEF SearchInv
<1>1. CASE Tick
  <2>1. UNCHANGED <<hash, timestamps, sending, search>>
    BY <1>1 DEF Tick, redis
  <2> QED
    BY <1>0, <2>1, HashLeftAlone DEF SearchInv, DatesAgree, ReportsInTurn
<1>2. ASSUME NEW o \in Operator, NEW T \in SUBSET Taxi,
             NEW places \in [T -> Distance], ReportBegins(o, places)
      PROVE  SearchInv'
  <2> DEFINE m == [op |-> o, at |-> now, places |-> places]
  <2>1. /\ sending' = sending \cup {m} /\ UNCHANGED <<hash, timestamps, search>>
        /\ \A n \in sending : n.op # o
    BY <1>2 DEF ReportBegins, redis
  <2>2. m.op = o /\ m.at = now
    OBVIOUS
  <2>3. \A e \in Declared : hash[e] # None => hash[e].at <= now
    BY <1>0 DEF IndexInv, DatesArePast
  <2>4. ReportsInTurn'
    BY <2>1, <2>2, <2>3 DEF SearchInv, ReportsInTurn
  <2> QED
    BY <1>0, <2>1, <2>4, HashLeftAlone DEF SearchInv, DatesAgree
<1>3. ASSUME NEW m \in sending, ReportIsWritten(m)
      PROVE  SearchInv'
  <2>1. /\ sending' = sending \ {m} /\ UNCHANGED search
        /\ IndexTypes
    BY <1>0, <1>3 DEF ReportIsWritten, IndexInv
  <2>2. m.at \in Nat
    BY <2>1 DEF IndexTypes, Report, Time
  <2>3. ASSUME NEW e \in Declared
        PROVE  /\ timestamps'[e] # None =>
                        hash'[e] # None /\ timestamps'[e] = hash'[e].at
               /\ hash[e] # None => hash'[e] # None /\ hash[e].at <= hash'[e].at
    <3>0. hash[e] # None => hash[e].at \in Nat
      BY <2>1, HashRecords
    <3>1. CASE Reported(m, e)
      <4>1. /\ hash'[e] = [at |-> m.at, place |-> m.places[e[1]]]
            /\ timestamps'[e] = m.at
        BY <1>3, <2>1, <3>1, Written
      <4>2. hash'[e] # None /\ hash'[e].at = m.at
        <5>1. m.places[e[1]] \in Distance
          BY <2>1, <3>1 DEF IndexTypes, Report, Reported
        <5>2. [at |-> m.at, place |-> m.places[e[1]]] \in [at : Nat, place : Distance]
          BY <2>2, <5>1
        <5> QED
          BY <4>1, <5>2
      <4>3. hash[e] # None => hash[e].at <= m.at
        BY <3>1 DEF SearchInv, ReportsInTurn, Reported
      <4> QED
        BY <4>1, <4>2, <4>3
    <3>2. CASE ~Reported(m, e)
      <4>1. hash'[e] = hash[e] /\ timestamps'[e] = timestamps[e]
        BY <1>3, <2>1, <3>2, Written
      <4> QED
        BY <3>0, <4>1 DEF SearchInv, DatesAgree
    <3> QED
      BY <3>1, <3>2
  <2>4. DatesAgree' /\ DatesGrow
    BY <2>3 DEF DatesAgree, DatesGrow
  <2>5. ReportsInTurn'
    <3>1. ASSUME NEW n \in sending', NEW e \in Declared, e[2] = n.op, hash'[e] # None
          PROVE  hash'[e].at <= n.at
      <4>1. n \in sending /\ n # m /\ n.op # m.op
        BY <2>1, <3>1 DEF SearchInv, ReportsInTurn
      <4>2. ~Reported(m, e)
        BY <3>1, <4>1 DEF Reported
      <4>3. hash'[e] = hash[e]
        BY <1>3, <2>1, <4>2, Written
      <4> QED
        BY <3>1, <4>1, <4>3 DEF SearchInv, ReportsInTurn
    <3> QED
      BY <2>1, <3>1 DEF SearchInv, ReportsInTurn
  <2>6. \A e \in Declared : hash'[e] # None => hash'[e].at \in Nat
    BY <1>0 DEF IndexInv, IndexTypes, Time
  <2> QED
    BY <1>0, <2>1, <2>4, <2>5, <2>6, HeardStays DEF SearchInv
<1>4. ASSUME NEW m \in sending, ReportFails(m)
      PROVE  SearchInv'
  <2>1. sending' = sending \ {m} /\ UNCHANGED <<hash, timestamps, search>>
    BY <1>4 DEF ReportFails, redis
  <2>2. ReportsInTurn'
    BY <2>1 DEF SearchInv, ReportsInTurn
  <2> QED
    BY <1>0, <2>1, <2>2, HashLeftAlone DEF SearchInv, DatesAgree
<1>5. ASSUME NEW c \in Cleaner, CleanBegins(c) \/ CleanGoesOn(c) \/ CleanerLost(c)
      PROVE  SearchInv'
  <2>1. UNCHANGED <<hash, sending, search>>
    BY <1>5 DEF CleanBegins, CleanerLost, CleanGoesOn, RemoveTimestamps,
                IntersectGeoindex2, RemoveTimestampsId, IntersectGeoindex, GoesOn, redis
  <2>2. \A e \in Declared : timestamps'[e] \in {timestamps[e], None}
    <3>1. CASE RemoveTimestamps(c)
      <4>1. timestamps \in [Declared -> Nat \cup {None}] /\ cleaner[c].max \in Int
        BY <1>0 DEF IndexInv, IndexTypes, Time
      <4>2. timestamps' = WithoutOld(timestamps, cleaner[c].max)
        BY <3>1 DEF RemoveTimestamps
      <4> QED
        BY <4>1, <4>2 DEF WithoutOld
    <3>2. CASE ~RemoveTimestamps(c)
      <4>1. UNCHANGED timestamps
        BY <1>5, <3>2 DEF CleanBegins, CleanerLost, CleanGoesOn, IntersectGeoindex2,
                          RemoveTimestampsId, IntersectGeoindex, redis
      <4> QED
        BY <4>1
    <3> QED
      BY <3>1, <3>2
  <2>3. DatesAgree' /\ ReportsInTurn'
    BY <2>1, <2>2 DEF SearchInv, DatesAgree, ReportsInTurn
  <2> QED
    BY <1>0, <2>1, <2>3, HashLeftAlone DEF SearchInv
<1>6. CASE LeavesIndexAlone
  <2>1. UNCHANGED <<hash, timestamps, sending>>
    BY <1>6 DEF LeavesIndexAlone, redis
  <2>2. DatesAgree' /\ ReportsInTurn'
    BY <2>1 DEF SearchInv, DatesAgree, ReportsInTurn
  <2>3. CASE UNCHANGED search
    BY <1>0, <2>1, <2>2, <2>3, HashLeftAlone DEF SearchInv
  <2>4. ASSUME NEW w \in Worker, SearchBegins(w) \/ ReadDate(w) \/ SearchAnswers(w)
        PROVE  SearchInv'
    BY <1>0, <1>6, <2>2, <2>4, SearchSteps DEF SearchInv
  <2> QED
    BY <2>3, <2>4, NextPositionSteps, <1>1, <1>2, <1>3, <1>4, <1>5
<1> QED
  BY <1>1, <1>2, <1>3, <1>4, <1>5, <1>6, NextPositionSteps

\* When each operator's reports come one after the other, a hail to a taxi the
\* search lists with its own operator's description is accepted at that moment:
\* the date the search read in the index is not later than what the creation
\* of the hail reads in the main hash, and the rest both read in the rows.
THEOREM ListedCanBeHailed ==
    ASSUME InTurn
    PROVE  Spec => []OwnListedCanBeHailed
<1>1. SearchInv => OwnListedCanBeHailed
  <2> SUFFICES ASSUME SearchInv, NEW w \in Worker, DatesAreRead(w),
                      NEW r \in CanBeListed(w), r.entry[2] = Owner[r.entry[1]]
               PROVE  CanBeHailed(r.entry[1])
    BY DEF OwnListedCanBeHailed
  <2> DEFINE e == r.entry
  <2>1. /\ r \in search[w].rows /\ e[1] \notin hailed /\ status[e] = "free"
        /\ search[w].date[e] # None
        /\ search[w].date[e] + GPS_FRESHNESS >= now
    BY DEF CanBeListed, Listable
  <2>2. e \in Declared /\ e = <<e[1], Owner[e[1]]>>
    BY <2>1, Basics DEF SearchInv, SearchTypes
  <2>3. e \in DOMAIN search[w].date
    BY <2>1 DEF DatesAreRead
  <2>4. search[w].date[e] \in Nat
    BY <2>1, <2>3 DEF SearchInv, SearchTypes, Time
  <2>5. hash[e] # None /\ search[w].date[e] <= hash[e].at
    BY <2>1, <2>3 DEF SearchInv, DatesWereHeard, DateWasHeard
  <2>6. hash[e].at \in Nat /\ now \in Nat /\ GPS_FRESHNESS \in Nat
    BY <2>2, <2>5, HashRecords, Basics DEF SearchInv, IndexInv, IndexTypes, Time
  <2>7. IsOnline(e)
    BY <2>1, <2>4, <2>5, <2>6 DEF IsOnline
  <2> QED
    BY <2>1, <2>2, <2>7 DEF CanBeHailed
<1>2. SearchInv /\ [Next]_vars => SearchInv'
  BY SearchInvNext
<1> QED
  BY <1>1, <1>2, SearchInvInit, PTL DEF Spec

-------------------------------------------------------------------------------
(* Types of the rows, the counters and the searches *)

\* A sequence of operators without one of them is a sequence of operators.
LEMMA RemovalTypes ==
    ASSUME NEW S, NEW s \in Seq(S), NEW x
    PROVE  RemoveFirst(s, x) \in Seq(S)
<1> DEFINE I == {i \in 1..Len(s) : s[i] = x}
<1>1. CASE I = {}
  BY <1>1 DEF RemoveFirst
<1>2. CASE I # {}
  <2>1. I \subseteq Nat
    OBVIOUS
  <2>2. PICK i \in I : \A j \in I : ~(<<j, i>> \in OpToRel(<, Nat))
    BY <1>2, <2>1, WFMin, NatLessThanWellFounded
  <2>3. \A j \in I : ~(j < i)
    <3> HIDE DEF I
    <3> QED
      BY <2>1, <2>2 DEF OpToRel
  <2>4. \A j \in I : i <= j
    BY <2>1, <2>3
  <2> DEFINE k == CHOOSE n \in I : \A j \in I : n <= j
  <2>5. k \in I
    BY <2>4
  <2>6. RemoveFirst(s, x) = SubSeq(s, 1, k - 1) \o SubSeq(s, k + 1, Len(s))
    BY <1>2 DEF RemoveFirst, RemoveAt, SelectInSeq, Min
  <2>7. k \in 1..Len(s)
    BY <2>5
  <2> HIDE DEF k
  <2>8. SubSeq(s, 1, k - 1) \in Seq(S) /\ SubSeq(s, k + 1, Len(s)) \in Seq(S)
    BY <2>7
  <2> QED
    BY <2>6, <2>8
<1> QED
  BY <1>1, <1>2

\* A search is a record of three fields, and has read dates of its own rows only.
IsSearch(s) ==
    /\ s = [step |-> s.step, rows |-> s.rows, date |-> s.date]
    /\ s.step \in {"idle", "dates"}
    /\ DOMAIN s.date \subseteq {r.entry : r \in s.rows}

RowTypes ==
    /\ status \in [Declared -> {"free", "answering", "occupied", "off"}]
    /\ updated \in [Taxi -> Seq(Operator)]
    /\ radius = [e \in Declared |-> radius[e]]
    /\ \A e \in Declared : RadiusIsValid(radius[e])
    /\ hailed \subseteq Taxi

SearchesAreRecords ==
    search = [w \in Worker |-> search[w]] /\ \A w \in Worker : IsSearch(search[w])

TypeInv ==
    /\ IndexInv
    /\ RowTypes
    /\ sent \in 0..MaxReports /\ losses \in 0..MaxLosses
    /\ SearchesAreRecords

LEMMA TypeInvInit == Init => TypeInv
<1> SUFFICES ASSUME Init PROVE TypeInv
  OBVIOUS
<1>1. RowTypes
  BY Basics DEF Init, RowTypes, RadiusIsValid
<1>2. IsSearch(Idle)
  BY DEF Idle, IsSearch
<1>3. SearchesAreRecords
  BY <1>2 DEF Init, SearchesAreRecords
<1> QED
  BY <1>1, <1>3, IndexInvInit DEF Init, TypeInv

\* A driver sets a status or a radius, a hail begins or ends.
LEMMA RowsKeepTypes ==
    ASSUME RowTypes,
           \/ \E e \in Declared : \E s \in AskedOfTaxi \cup {status[e]} : \E r : PutTaxi(e, s, r)
           \/ \E t \in Taxi : Hailed(t) \/ \E s \in AskedOfTaxi : HailEnds(t, s)
    PROVE  RowTypes' /\ UNCHANGED <<sent, losses, search>>
<1> DEFINE Statuses == {"free", "answering", "occupied", "off"}
<1>1. AskedOfTaxi \subseteq Statuses
  OBVIOUS
<1>2. ASSUME NEW e \in Declared, NEW s \in AskedOfTaxi \cup {status[e]}, NEW r, PutTaxi(e, s, r)
      PROVE  RowTypes' /\ UNCHANGED <<sent, losses, search>>
  <2>1. e[1] \in Taxi /\ e[2] \in Operator /\ s \in Statuses
    BY <1>1, Basics DEF RowTypes
  <2>2. /\ status' = [status EXCEPT ![e] = s] /\ radius' = [radius EXCEPT ![e] = r]
        /\ RadiusIsValid(r) /\ UNCHANGED hailed
        /\ \/ updated' = updated
           \/ updated' = [updated EXCEPT ![e[1]] = <<e[2]>> \o RemoveFirst(@, e[2])]
    BY <1>2 DEF PutTaxi
  <2>3. RemoveFirst(updated[e[1]], e[2]) \in Seq(Operator)
    BY <2>1, RemovalTypes DEF RowTypes
  <2>4. <<e[2]>> \o RemoveFirst(updated[e[1]], e[2]) \in Seq(Operator)
    BY <2>1, <2>3
  <2>5. updated' \in [Taxi -> Seq(Operator)]
    BY <2>1, <2>2, <2>4 DEF RowTypes
  <2>6. radius' = [d \in Declared |-> radius'[d]] /\ \A d \in Declared : RadiusIsValid(radius'[d])
    BY <2>2 DEF RowTypes
  <2> QED
    BY <1>2, <2>1, <2>2, <2>5, <2>6 DEF RowTypes, PutTaxi, RadiusIsValid
<1>3. ASSUME NEW t \in Taxi, Hailed(t) \/ \E s \in AskedOfTaxi : HailEnds(t, s)
      PROVE  RowTypes' /\ UNCHANGED <<sent, losses, search>>
  BY <1>1, <1>3 DEF RowTypes, RadiusIsValid, Hailed, HailEnds
<1> QED
  BY <1>2, <1>3

LEMMA SearchesKeepTypes ==
    ASSUME SearchesAreRecords, NEW w \in Worker,
           SearchBegins(w) \/ ReadDate(w) \/ SearchAnswers(w)
    PROVE  SearchesAreRecords' /\ UNCHANGED <<rows, sent, losses>>
<1>1. ASSUME NEW s, IsSearch(s), search' = [search EXCEPT ![w] = s]
      PROVE  SearchesAreRecords'
  BY <1>1 DEF SearchesAreRecords, IsSearch
<1>2. CASE SearchBegins(w)
  <2>1. PICK C \in Nearest(InRange) : search' = [search EXCEPT ![w] =
            [step |-> "dates", date |-> <<>>,
             rows |-> {[entry |-> e, place |-> geoindex_2[e]] : e \in C}]]
    BY <1>2 DEF SearchBegins
  <2>2. IsSearch([step |-> "dates", date |-> <<>>,
                  rows |-> {[entry |-> e, place |-> geoindex_2[e]] : e \in C}])
    BY DEF IsSearch
  <2> QED
    BY <1>1, <1>2, <2>1, <2>2 DEF SearchBegins
<1>3. CASE ReadDate(w)
  <2>1. PICK r \in search[w].rows :
            search' = [search EXCEPT ![w].date = [d \in DOMAIN @ \cup {r.entry} |->
                            IF d = r.entry THEN timestamps[d] ELSE @[d]]]
    BY <1>3 DEF ReadDate
  <2> DEFINE g == [d \in DOMAIN search[w].date \cup {r.entry} |->
                        IF d = r.entry THEN timestamps[d] ELSE search[w].date[d]]
  <2>2. IsSearch(search[w])
    BY DEF SearchesAreRecords
  <2>3. DOMAIN g = DOMAIN search[w].date \cup {r.entry}
    OBVIOUS
  <2>4. search' = [search EXCEPT ![w] = [search[w] EXCEPT !.date = g]]
    BY <2>1 DEF SearchesAreRecords
  <2> HIDE DEF g
  <2>5. [search[w] EXCEPT !.date = g] = [step |-> search[w].step, rows |-> search[w].rows, date |-> g]
    BY <2>2 DEF IsSearch
  <2>6. IsSearch([step |-> search[w].step, rows |-> search[w].rows, date |-> g])
    BY <2>2, <2>3 DEF IsSearch
  <2> QED
    BY <1>1, <1>3, <2>4, <2>5, <2>6 DEF ReadDate
<1>4. CASE SearchAnswers(w)
  <2>1. IsSearch(Idle)
    BY DEF Idle, IsSearch
  <2> QED
    BY <1>1, <1>4, <2>1 DEF SearchAnswers
<1> QED
  BY <1>2, <1>3, <1>4

LEMMA TypeInvNext == TypeInv /\ [Next]_vars => TypeInv'
<1> SUFFICES ASSUME TypeInv, [Next]_vars PROVE TypeInv'
  OBVIOUS
<1>1. IndexInv'
  BY IndexInvNext DEF TypeInv
<1>2. UNCHANGED rows => RowTypes'
  BY DEF TypeInv, rows, RowTypes, RadiusIsValid
<1>3. UNCHANGED search => SearchesAreRecords'
  BY DEF TypeInv, SearchesAreRecords
<1>4. CASE Tick \/ UNCHANGED vars
  BY <1>1, <1>2, <1>3, <1>4 DEF Tick, vars, TypeInv
<1>5. ASSUME NEW o, NEW places, ReportBegins(o, places) PROVE TypeInv'
  <2>1. sent' \in 0..MaxReports
    BY <1>5 DEF ReportBegins, TypeInv
  <2> QED
    BY <1>1, <1>2, <1>3, <1>5, <2>1 DEF ReportBegins, TypeInv
<1>6. ASSUME NEW m, ReportIsWritten(m) \/ ReportFails(m) PROVE TypeInv'
  BY <1>1, <1>2, <1>3, <1>6 DEF ReportIsWritten, ReportFails, TypeInv
<1>7. ASSUME NEW c, CleanBegins(c) \/ CleanGoesOn(c) PROVE TypeInv'
  BY <1>1, <1>2, <1>3, <1>7 DEF CleanBegins, CleanGoesOn, RemoveTimestamps,
     IntersectGeoindex2, RemoveTimestampsId, IntersectGeoindex, GoesOn, TypeInv
<1>8. ASSUME NEW c, CleanerLost(c) PROVE TypeInv'
  <2>1. losses' \in 0..MaxLosses
    BY <1>8 DEF CleanerLost, TypeInv
  <2> QED
    BY <1>1, <1>2, <1>3, <1>8, <2>1 DEF CleanerLost, TypeInv
<1>9. CASE \/ \E e \in Declared : \E s \in AskedOfTaxi \cup {status[e]},
                  r \in Radius \cup {radius[e], None} : PutTaxi(e, s, r)
           \/ \E t \in Taxi : Hailed(t) \/ \E s \in AskedOfTaxi : HailEnds(t, s)
  <2>1. RowTypes' /\ UNCHANGED <<sent, losses, search>>
    BY <1>9, RowsKeepTypes DEF TypeInv
  <2> QED
    BY <1>1, <1>3, <2>1 DEF TypeInv
<1>10. ASSUME NEW w \in Worker, SearchBegins(w) \/ ReadDate(w) \/ SearchAnswers(w)
       PROVE  TypeInv'
  BY <1>1, <1>2, <1>10, SearchesKeepTypes DEF TypeInv
<1> QED
  BY <1>4, <1>5, <1>6, <1>7, <1>8, <1>9, <1>10 DEF Next

\* Keys, rows, requests, cleaners and searches keep their types; a vehicle's
\* descriptions are in the order of their last updates.
THEOREM TypeCorrect == Spec => []TypeOK
<1>1. TypeInv => TypeOK
  BY DEF TypeInv, IndexInv, RowTypes, SearchesAreRecords, IsSearch, TypeOK
<1> QED
  BY <1>1, TypeInvInit, TypeInvNext, PTL DEF Spec

-------------------------------------------------------------------------------
(* The six tables *)

\* What the task logs: entries, one for each taxi.
IsLog(log) ==
    /\ log \subseteq Taxi \X Operator
    /\ \A d, e \in log : d[1] = e[1] => d = e

Logged(log) == {e[1] : e \in log}

\* The dictionary has one entry of each taxi heard of.
LEMMA LogsAreLogs ==
    ASSUME NEW minutes, NEW log \in Logs(minutes)
    PROVE  IsLog(log) /\ Logged(log) = {e[1] : e \in Updates(minutes)}
<1> DEFINE heard == {e[1] : e \in Updates(minutes)}
<1>1. PICK operator \in Kept(minutes) : log = ToLog(minutes, operator)
  BY DEF Logs
<1>2. operator \in [heard -> Operator]
  BY <1>1 DEF Kept
<1>3. heard \subseteq Taxi
  BY PositionsAssumption DEF Updates, InTimestamps, InHash
<1>4. log = {<<t, operator[t]>> : t \in heard}
  BY <1>1, <1>2 DEF ToLog
<1> HIDE DEF heard
<1>5. IsLog(log)
  BY <1>2, <1>3, <1>4 DEF IsLog
<1>6. Logged(log) = heard
  <2>1. \A e \in log : e[1] \in heard
    BY <1>4
  <2>2. \A t \in heard : <<t, operator[t]>> \in log /\ <<t, operator[t]>>[1] = t
    BY <1>4
  <2> QED
    BY <2>1, <2>2 DEF Logged
<1> QED
  BY <1>5, <1>6 DEF heard

\* As many taxis as entries.
LEMMA OneEntryEach ==
    ASSUME NEW log, IsLog(log), NEW X \in SUBSET log
    PROVE  /\ IsFiniteSet(X) /\ IsFiniteSet(Logged(X))
           /\ Cardinality(X) = Cardinality(Logged(X))
<1> DEFINE f == [e \in X |-> e[1]]
<1>1. Logged(X) \subseteq Taxi
  BY DEF IsLog, Logged
<1>2. IsFiniteSet(Logged(X))
  BY <1>1, FS_Subset, ActiveTaxisAssumption
<1>3. f \in [X -> Logged(X)]
  BY DEF Logged
<1>4. \A d, e \in X : f[d] = f[e] => d = e
  BY DEF IsLog
<1>5. \A t \in Logged(X) : \E e \in X : f[e] = t
  BY DEF Logged
<1>6. f \in Injection(X, Logged(X)) /\ f \in Surjection(X, Logged(X))
  <2> HIDE DEF f
  <2> QED
    BY <1>3, <1>4, <1>5 DEF Injection, Surjection, IsInjective
<1> QED
  BY <1>2, <1>6, FS_Injection

LEMMA FreeAreLogged ==
    ASSUME NEW log, IsLog(log)
    PROVE  Free(log) \subseteq log /\ IsFiniteSet(Free(log)) /\ IsFiniteSet(log)
<1>1. Free(log) \subseteq log
  BY DEF Free
<1> QED
  BY <1>1, OneEntryEach

\* The taxis of some of the towns in the table.
LEMMA TownsCount ==
    ASSUME NEW log, IsLog(log), NEW K \in SUBSET DOMAIN ByInsee(log)
    PROVE  SumOver(ByInsee(log), K) = Cardinality({t \in Logged(log) : TownOf[t] \in K})
<1>1. IsFiniteSet(Logged(log))
  BY OneEntryEach
<1>2. \A keys : Having(Logged(log), TownOf, keys) = {t \in Logged(log) : TownOf[t] \in keys}
  BY DEF Having
<1>3. \A c \in K : ByInsee(log)[c] = Cardinality(Having(Logged(log), TownOf, {c}))
  <2> SUFFICES ASSUME NEW c \in K
               PROVE  ByInsee(log)[c] = Cardinality(Having(Logged(log), TownOf, {c}))
    OBVIOUS
  <2>1. {t \in Logged(log) : TownOf[t] = c} = Having(Logged(log), TownOf, {c})
    BY <1>2
  <2> QED
    BY <2>1 DEF ByInsee, Logged
<1>4. SumOver(ByInsee(log), K) = Cardinality(Having(Logged(log), TownOf, K))
  BY <1>1, <1>3, PartsAddUp
<1> QED
  BY <1>2, <1>4

LEMMA TownsInTable ==
    ASSUME NEW log, IsLog(log)
    PROVE  /\ DOMAIN ByInsee(log) = {TownOf[t] : t \in Logged(log)}
           /\ \A t \in Logged(log) : TownOf[t] \in DOMAIN ByInsee(log)
BY DEF ByInsee, Logged

\* The free entries that some of the keys of the table have.
LEMMA FreeCount ==
    ASSUME NEW log, IsLog(log), NEW K \in SUBSET DOMAIN ByInseeAndOperator(log)
    PROVE  SumOver(ByInseeAndOperator(log), K) =
               Cardinality({e \in Free(log) : <<TownOf[e[1]], e[2]>> \in K})
<1> DEFINE S == Free(log)
           key == [e \in S |-> <<TownOf[e[1]], e[2]>>]
<1>1. IsFiniteSet(S)
  BY FreeAreLogged
<1>2. \A keys : Having(S, key, keys) = {e \in S : <<TownOf[e[1]], e[2]>> \in keys}
  BY DEF Having
<1>3. \A k \in K : ByInseeAndOperator(log)[k] = Cardinality(Having(S, key, {k}))
  <2> SUFFICES ASSUME NEW k \in K
               PROVE  ByInseeAndOperator(log)[k] = Cardinality(Having(S, key, {k}))
    OBVIOUS
  <2>1. {e \in S : <<TownOf[e[1]], e[2]>> = k} = Having(S, key, {k})
    BY DEF Having
  <2> QED
    BY <2>1 DEF ByInseeAndOperator
<1> HIDE DEF S, key
<1>4. SumOver(ByInseeAndOperator(log), K) = Cardinality(Having(S, key, K))
  BY <1>1, <1>3, PartsAddUp
<1> QED
  BY <1>2, <1>4 DEF S

LEMMA OperatorsCount ==
    ASSUME NEW log, IsLog(log)
    PROVE  SumOf(ByOperator(log)) = Cardinality(log)
<1> DEFINE key == [e \in log |-> e[2]]
           K == DOMAIN ByOperator(log)
<1>1. IsFiniteSet(log)
  BY FreeAreLogged
<1>2. \A o \in K : ByOperator(log)[o] = Cardinality(Having(log, key, {o}))
  <2> SUFFICES ASSUME NEW o \in K
               PROVE  ByOperator(log)[o] = Cardinality(Having(log, key, {o}))
    OBVIOUS
  <2>1. {e \in log : e[2] = o} = Having(log, key, {o})
    BY DEF Having
  <2> QED
    BY <2>1 DEF ByOperator
<1>3. Having(log, key, K) = log
  BY DEF Having, ByOperator
<1> HIDE DEF key, K
<1>4. SumOver(ByOperator(log), K) = Cardinality(Having(log, key, K))
  BY <1>1, <1>2, PartsAddUp
<1> QED
  BY <1>3, <1>4 DEF K, SumOf

LEMMA TablesOfLogsAgree ==
    ASSUME NEW log, IsLog(log)
    PROVE  TablesAgree(log)
<1> DEFINE insee == ByInseeAndOperator(log)
           zupc == ByZupcAndOperator(log)
<1>1. Total(log) = Cardinality(Logged(log)) /\ Total(log) = Cardinality(log)
  BY OneEntryEach DEF Total, Logged
<1>2. SumOf(ByInsee(log)) = Total(log)
  <2>1. {t \in Logged(log) : TownOf[t] \in DOMAIN ByInsee(log)} = Logged(log)
    BY TownsInTable
  <2> QED
    BY <1>1, <2>1, TownsCount DEF SumOf
<1>3. SumOf(ByOperator(log)) = Total(log)
  BY <1>1, OperatorsCount
<1>4. SumOf(insee) = Cardinality(Free(log))
  <2>1. {e \in Free(log) : <<TownOf[e[1]], e[2]>> \in DOMAIN insee} = Free(log)
    BY DEF ByInseeAndOperator
  <2> QED
    BY <2>1, FreeCount DEF SumOf
<1>5. ASSUME NEW k \in DOMAIN zupc
      PROVE  zupc[k] = SumOver(insee,
                {j \in DOMAIN insee : j[1] \in TownsOf[k[1]] /\ j[2] = k[2]})
  <2> DEFINE K == {j \in DOMAIN insee : j[1] \in TownsOf[k[1]] /\ j[2] = k[2]}
  <2>1. zupc[k] = Cardinality({e \in Free(log) :
                        TownOf[e[1]] \in TownsOf[k[1]] /\ e[2] = k[2]})
    BY DEF ByZupcAndOperator
  <2>2. \A e \in Free(log) : <<TownOf[e[1]], e[2]>> \in DOMAIN insee
    BY DEF ByInseeAndOperator
  <2>3. {e \in Free(log) : TownOf[e[1]] \in TownsOf[k[1]] /\ e[2] = k[2]}
            = {e \in Free(log) : <<TownOf[e[1]], e[2]>> \in K}
    BY <2>2
  <2>4. K \in SUBSET DOMAIN insee
    OBVIOUS
  <2> HIDE DEF K
  <2>5. SumOver(insee, K) = Cardinality({e \in Free(log) : <<TownOf[e[1]], e[2]>> \in K})
    BY <2>4, FreeCount
  <2>6. zupc[k] = SumOver(insee, K)
    BY <2>1, <2>3, <2>5
  <2> QED
    BY <2>6 DEF K
<1> QED
  BY <1>2, <1>3, <1>4, <1>5 DEF TablesAgree

-------------------------------------------------------------------------------
(* The pages *)

\* The towns a page counts.
TownsAt(place) == IF place \in Town THEN {place} ELSE TownsOf[place]

\* A page without filters shows the taxis of its towns.
LEMMA ActiveInPlace ==
    ASSUME NEW log, IsLog(log), NEW place \in Town \cup Zupc
    PROVE  get_nb_active_taxis(log, place) =
               Cardinality({t \in Logged(log) : TownOf[t] \in TownsAt(place)})
<1> DEFINE insee == ByInsee(log)
           those == {t \in Logged(log) : TownOf[t] \in TownsAt(place)}
<1>1. \A t \in Logged(log) : TownOf[t] \in DOMAIN insee
  BY TownsInTable
<1>2. CASE place \in Town
  <2>1. those = {t \in Logged(log) : TownOf[t] = place}
    BY <1>2 DEF TownsAt
  <2>2. CASE place \in DOMAIN insee
    BY <1>2, <2>1, <2>2 DEF get_nb_active_taxis, Value, ByInsee, Logged
  <2>3. CASE place \notin DOMAIN insee
    <3>1. those = {}
      BY <1>1, <2>1, <2>3
    <3>2. get_nb_active_taxis(log, place) = 0
      BY <1>2, <2>3 DEF get_nb_active_taxis, Value
    <3> QED
      BY <3>1, <3>2, FS_EmptySet
  <2> QED
    BY <2>2, <2>3
<1>3. CASE place \notin Town
  <2> DEFINE K == TownsOf[place] \cap DOMAIN insee
             zupc == ByZupc(log)
  <2>1. place \in Zupc /\ TownsAt(place) = TownsOf[place]
    BY <1>3 DEF TownsAt
  <2>2. those = {t \in Logged(log) : TownOf[t] \in K}
    BY <1>1, <2>1
  <2>3. get_nb_active_taxis(log, place) = Value(zupc, place)
    BY <1>3 DEF get_nb_active_taxis
  <2>4. CASE K # {}
    <3>1. Value(zupc, place) = SumOver(insee, K)
      BY <2>1, <2>4 DEF Value, ByZupc
    <3>2. K \in SUBSET DOMAIN ByInsee(log)
      OBVIOUS
    <3> HIDE DEF K
    <3>3. SumOver(ByInsee(log), K) = Cardinality({t \in Logged(log) : TownOf[t] \in K})
      BY <3>2, TownsCount
    <3> QED
      BY <2>2, <2>3, <3>1, <3>3
  <2>5. CASE K = {}
    <3>1. Value(zupc, place) = 0
      BY <2>5 DEF Value, ByZupc
    <3>2. those = {}
      BY <2>2, <2>5
    <3> QED
      BY <2>3, <3>1, <3>2, FS_EmptySet
  <2> QED
    BY <2>4, <2>5
<1> QED
  BY <1>2, <1>3

\* A page of an operator shows his free ones.
LEMMA FreeInPlace ==
    ASSUME NEW log, IsLog(log), NEW place \in Town \cup Zupc, NEW o \in Operator
    PROVE  get_nb_active_taxis_of(log, place, o) =
               Cardinality({e \in Free(log) : TownOf[e[1]] \in TownsAt(place) /\ e[2] = o})
<1> DEFINE those == {e \in Free(log) : TownOf[e[1]] \in TownsAt(place) /\ e[2] = o}
<1>1. Cardinality({}) = 0
  BY FS_EmptySet
<1>2. CASE place \in Town
  <2> DEFINE table == ByInseeAndOperator(log)
  <2>1. those = {e \in Free(log) : <<TownOf[e[1]], e[2]>> = <<place, o>>}
    BY <1>2 DEF TownsAt
  <2>2. get_nb_active_taxis_of(log, place, o) = Value(table, <<place, o>>)
    BY <1>2 DEF get_nb_active_taxis_of
  <2>3. CASE <<place, o>> \in DOMAIN table
    BY <2>1, <2>2, <2>3 DEF Value, ByInseeAndOperator
  <2>4. CASE <<place, o>> \notin DOMAIN table
    <3>1. those = {}
      BY <2>1, <2>4 DEF ByInseeAndOperator
    <3> QED
      BY <1>1, <2>2, <2>4, <3>1 DEF Value
  <2> QED
    BY <2>3, <2>4
<1>3. CASE place \notin Town
  <2> DEFINE table == ByZupcAndOperator(log)
  <2>1. place \in Zupc /\ TownsAt(place) = TownsOf[place]
    BY <1>3 DEF TownsAt
  <2>2. get_nb_active_taxis_of(log, place, o) = Value(table, <<place, o>>)
    BY <1>3 DEF get_nb_active_taxis_of
  <2>3. CASE <<place, o>> \in DOMAIN table
    BY <2>1, <2>2, <2>3 DEF Value, ByZupcAndOperator
  <2>4. CASE <<place, o>> \notin DOMAIN table
    <3>1. ASSUME NEW e \in those PROVE place \in DOMAIN ByZupc(log)
      <4>1. e[1] \in Logged(log) /\ TownOf[e[1]] \in TownsOf[place]
        BY <2>1, FreeAreLogged DEF Logged
      <4>2. TownOf[e[1]] \in DOMAIN ByInsee(log)
        BY <4>1, TownsInTable
      <4> QED
        BY <2>1, <4>1, <4>2 DEF ByZupc
    <3>2. DOMAIN table = {j \in (DOMAIN ByZupc(log)) \X Operator :
            {e \in Free(log) : TownOf[e[1]] \in TownsOf[j[1]] /\ e[2] = j[2]} # {}}
      BY DEF ByZupcAndOperator
    <3>3. ASSUME those # {} PROVE FALSE
      <4>1. place \in DOMAIN ByZupc(log)
        BY <3>1, <3>3
      <4>2. \A S : place \in S => <<place, o>> \in S \X Operator
        OBVIOUS
      <4>3. <<place, o>> \in (DOMAIN ByZupc(log)) \X Operator
        BY <4>1, <4>2
      <4>4. {e \in Free(log) : TownOf[e[1]] \in TownsOf[place] /\ e[2] = o} # {}
        BY <2>1, <3>3
      <4> HIDE DEF table, those
      <4> QED
        BY <2>4, <3>2, <4>3, <4>4
    <3> QED
      BY <1>1, <2>2, <2>4, <3>3 DEF Value
  <2> QED
    BY <2>3, <2>4
<1> QED
  BY <1>2, <1>3

\* All the operators' free taxis in a place are some of its taxis.
LEMMA FreeFit ==
    ASSUME NEW log, IsLog(log), NEW place \in Town \cup Zupc
    PROVE  LET count == [o \in Operator |-> get_nb_active_taxis_of(log, place, o)]
           IN  SumOver(count, Operator) <= get_nb_active_taxis(log, place)
<1> DEFINE count == [o \in Operator |-> get_nb_active_taxis_of(log, place, o)]
           S == {e \in Free(log) : TownOf[e[1]] \in TownsAt(place)}
           T == {t \in Logged(log) : TownOf[t] \in TownsAt(place)}
           key == [e \in S |-> e[2]]
<1>1. S \in SUBSET log
  BY FreeAreLogged
<1>2. \A o \in Operator : count[o] = Cardinality(Having(S, key, {o}))
  <2> SUFFICES ASSUME NEW o \in Operator
               PROVE  count[o] = Cardinality(Having(S, key, {o}))
    OBVIOUS
  <2>1. {e \in Free(log) : TownOf[e[1]] \in TownsAt(place) /\ e[2] = o}
            = Having(S, key, {o})
    BY DEF Having
  <2>2. count[o] = get_nb_active_taxis_of(log, place, o)
    OBVIOUS
  <2>3. get_nb_active_taxis_of(log, place, o) = Cardinality(
            {e \in Free(log) : TownOf[e[1]] \in TownsAt(place) /\ e[2] = o})
    BY FreeInPlace
  <2> HIDE DEF count, S, key
  <2> QED
    BY <2>1, <2>2, <2>3
<1>3. Having(S, key, Operator) = S
  <2>1. \A e \in S : e[2] \in Operator
    BY <1>1 DEF IsLog
  <2> QED
    BY <2>1 DEF Having
<1>4. Logged(S) \subseteq T
  BY <1>1 DEF Logged
<1>5. T \subseteq Logged(log) /\ IsFiniteSet(Logged(log))
  BY OneEntryEach
<1>6. get_nb_active_taxis(log, place) = Cardinality(T)
  BY ActiveInPlace
<1> HIDE DEF count, S, T, key
<1>7. IsFiniteSet(S) /\ Cardinality(S) = Cardinality(Logged(S))
  BY <1>1, OneEntryEach
<1>8. SumOver(count, Operator) = Cardinality(S)
  BY <1>2, <1>3, <1>7, PartsAddUp
<1>9. Cardinality(Logged(S)) <= Cardinality(T)
  BY <1>4, <1>5, FS_Subset
<1> QED
  BY <1>6, <1>7, <1>8, <1>9 DEF count

\* The towns together have the taxis of the country.
LEMMA ConnectedNow ==
    ASSUME NEW log, IsLog(log), NEW towns \in SUBSET Town
    PROVE  get_realtime_connected_taxis(log, towns) =
               Cardinality({t \in Logged(log) : TownOf[t] \in towns})
<1> DEFINE K == DOMAIN ByInsee(log) \cap towns
<1>1. {t \in Logged(log) : TownOf[t] \in towns} = {t \in Logged(log) : TownOf[t] \in K}
  BY TownsInTable
<1>2. K \in SUBSET DOMAIN ByInsee(log)
  OBVIOUS
<1>3. get_realtime_connected_taxis(log, towns) = SumOver(ByInsee(log), K)
  BY DEF get_realtime_connected_taxis
<1> HIDE DEF K
<1> QED
  BY <1>1, <1>2, <1>3, TownsCount

LEMMA PagesOfLogsAgree ==
    ASSUME NEW log, IsLog(log)
    PROVE  PagesAgree(log)
<1>1. get_realtime_connected_taxis(log, Town) = Total(log)
  <2>1. {t \in Logged(log) : TownOf[t] \in Town} = Logged(log)
    BY ActiveTaxisAssumption DEF IsLog, Logged
  <2> QED
    BY <2>1, ConnectedNow DEF Total, Logged
<1>2. ASSUME NEW c \in Town,
             NEW place \in UNION {DOMAIN p[2] :
                p \in {<<o, zupc_list(log, {c}, o)>> : o \in Operator}}
      PROVE  LET pages == {<<o, zupc_list(log, {c}, o)>> : o \in Operator}
                 shown == {<<p[1], p[2][place]>> : p \in pages}
                 free == UNION {{s[1]} \X (1..s[2].operators) : s \in shown}
             IN  \A s \in shown : Cardinality(free) <= s[2].total
  <2> DEFINE pages == {<<o, zupc_list(log, {c}, o)>> : o \in Operator}
             shown == {<<p[1], p[2][place]>> : p \in pages}
             free == UNION {{s[1]} \X (1..s[2].operators) : s \in shown}
             zupcs == {z \in Zupc : TownsOf[z] \cap {c} # {}}
             places == IF zupcs = {} THEN {c} ELSE zupcs
             count == [o \in Operator |-> get_nb_active_taxis_of(log, place, o)]
  <2>1. \A o \in Operator : zupc_list(log, {c}, o) =
                [p \in places |-> _get_zupc_stats(log, p, o)]
    BY DEF zupc_list
  <2>2. place \in places
    <3>1. PICK p \in pages : place \in DOMAIN p[2]
      OBVIOUS
    <3>2. PICK o \in Operator : p = <<o, zupc_list(log, {c}, o)>>
      BY <3>1
    <3> HIDE DEF places
    <3> QED
      BY <2>1, <3>1, <3>2
  <2>3. place \in Town \cup Zupc
    <3>1. places \subseteq Town \cup Zupc
      OBVIOUS
    <3> QED
      BY <2>2, <3>1
  <2>4. \A o \in Operator : zupc_list(log, {c}, o)[place] = _get_zupc_stats(log, place, o)
    <3> SUFFICES ASSUME NEW o \in Operator
                 PROVE  zupc_list(log, {c}, o)[place] = _get_zupc_stats(log, place, o)
      OBVIOUS
    <3>1. zupc_list(log, {c}, o) = [p \in places |-> _get_zupc_stats(log, p, o)]
      BY <2>1
    <3> HIDE DEF places
    <3> QED
      BY <2>2, <3>1
  <2>5. \A s : s \in shown <=>
            \E o \in Operator : s = <<o, _get_zupc_stats(log, place, o)>>
    <3>1. \A o \in Operator : <<o, zupc_list(log, {c}, o)>> \in pages
      OBVIOUS
    <3>2. ASSUME NEW s, NEW o \in Operator, s = <<o, _get_zupc_stats(log, place, o)>>
          PROVE  s \in shown
      <4> DEFINE p == <<o, zupc_list(log, {c}, o)>>
      <4>1. p \in pages /\ s = <<p[1], p[2][place]>>
        BY <2>4, <3>1, <3>2
      <4> HIDE DEF p, pages
      <4> QED
        BY <4>1
    <3>3. ASSUME NEW s \in shown
          PROVE  \E o \in Operator : s = <<o, _get_zupc_stats(log, place, o)>>
      <4>1. PICK p \in pages : s = <<p[1], p[2][place]>>
        OBVIOUS
      <4>2. PICK o \in Operator : p = <<o, zupc_list(log, {c}, o)>>
        OBVIOUS
      <4> QED
        BY <2>4, <4>1, <4>2
    <3> QED
      BY <3>2, <3>3
  <2>6. \A o : /\ _get_zupc_stats(log, place, o).operators
                    = get_nb_active_taxis_of(log, place, o)
              /\ _get_zupc_stats(log, place, o).total = get_nb_active_taxis(log, place)
    BY DEF _get_zupc_stats
  <2> HIDE DEF shown
  <2>8. \A s \in shown : s[2].total = get_nb_active_taxis(log, place)
    BY <2>5, <2>6
  <2>9. free = UNION {{o} \X (1..count[o]) : o \in Operator}
    <3>1. \A s \in shown : s[1] \in Operator /\ s[2].operators = count[s[1]]
      BY <2>5, <2>6
    <3>2. \A o \in Operator : \E s \in shown : s[1] = o
      <4> SUFFICES ASSUME NEW o \in Operator PROVE \E s \in shown : s[1] = o
        OBVIOUS
      <4> DEFINE s == <<o, _get_zupc_stats(log, place, o)>>
      <4>1. s \in shown /\ s[1] = o
        BY <2>5
      <4> QED
        BY <4>1
    <3> HIDE DEF count
    <3> QED
      BY <3>1, <3>2
  <2>7. SumOver(count, Operator) <= get_nb_active_taxis(log, place)
    BY <2>3, FreeFit
  <2>10. SumOver(count, Operator) = Cardinality(free)
    BY <2>9 DEF SumOver
  <2>11. \A s \in shown : Cardinality(free) <= s[2].total
    <3> HIDE DEF free, count
    <3> QED
      BY <2>7, <2>8, <2>10
  <2> QED
    BY <2>11 DEF shown
<1>3. ASSUME NEW z \in Zupc, NEW o \in Operator
      PROVE  zupc_live(log, o)[z].total = get_realtime_connected_taxis(log, TownsOf[z])
  <2>1. z \notin Town /\ TownsOf[z] \subseteq Town
    BY ActiveTaxisAssumption
  <2>2. TownsAt(z) = TownsOf[z]
    BY <2>1 DEF TownsAt
  <2>3. zupc_live(log, o)[z].total = get_nb_active_taxis(log, z)
    BY DEF zupc_live, _get_zupc_stats
  <2>4. get_nb_active_taxis(log, z)
            = Cardinality({t \in Logged(log) : TownOf[t] \in TownsAt(z)})
    BY ActiveInPlace
  <2>5. get_realtime_connected_taxis(log, TownsOf[z])
            = Cardinality({t \in Logged(log) : TownOf[t] \in TownsOf[z]})
    BY <2>1, ConnectedNow
  <2> QED
    BY <2>2, <2>3, <2>4, <2>5
<1> QED
  BY <1>1, <1>2, <1>3 DEF PagesAgree

\* The six tables and the pages that show them agree, whatever runs of the task
\* read from the index or from the hashes.
THEOREM GroupsCorrect == Spec => []GroupsAddUp
<1>1. GroupsAddUp
  <2>1. ASSUME NEW minutes, NEW log \in Logs(minutes)
        PROVE  /\ Total(log) = Cardinality({e[1] : e \in Updates(minutes)})
               /\ TablesAgree(log) /\ PagesAgree(log)
    BY LogsAreLogs, TablesOfLogsAgree, PagesOfLogsAgree DEF Total, Logged
  <2> QED
    BY <2>1 DEF GroupsAddUp
<1> QED
  BY <1>1, PTL
===============================================================================
