--------------------------- MODULE RegistrationProofs ---------------------------
(***************************************************************************)
(* Theorems about Registration, for any number of operators, of requests   *)
(* at once and of clean-ups, and for any plates they share.                *)
(***************************************************************************)
EXTENDS Registration, FiniteSetTheorems, TLAPS

\* What a foreign key holds: the table and the id of a row.
Reference == Kind \X Nat

Key == Operator \cup {Plate[o] : o \in Operator} \cup SUBSET Reference

RowRecord ==
    [kind : Kind, id : Nat, key : Key, by : Operator \cup {None},
     refs : SUBSET Reference, old : BOOLEAN]

Request ==
    [kind : Part \cup {"taxi"}, by : Operator, found : SUBSET Reference,
     refs : SUBSET Reference, description : SUBSET Reference]

Cleaning == [kind : {"driver", "ads", "description"}, ids : SUBSET Reference]

Types ==
    /\ rows \subseteq RowRecord
    /\ last \in [Kind -> Nat]
    /\ request \in [Worker -> Request \cup {None}]
    /\ clean \in Cleaning \cup {None}
    /\ told \in [Operator -> SUBSET (Part \cup {"taxi"})]
    /\ exposed \subseteq {"taxi"} \X Nat
    /\ \A r \in rows : r.id \in 1..last[r.kind]

\* An id of the table was given, so no row will get it again.
WasGiven(x) == x \in Reference /\ x[2] <= last[x[1]]

\* Which tables a row of a table refers to.
Shape(kind, refs) ==
    /\ kind = "taxi" => {x[1] : x \in refs} = Part
    /\ kind = "description" => {x[1] : x \in refs} = {"vehicle"}
    /\ kind = "ads" => \A x \in refs : x[1] = "vehicle"
    /\ kind \in {"driver", "vehicle"} => refs = {}

OneRowPerId == \A r, s \in rows : Id(r) = Id(s) => r = s

OneRowPerKey ==
    \A r, s \in rows : r.kind = s.kind /\ r.key = s.key /\ r.by = s.by => r = s

\* Foreign keys: a row refers to the right tables, and to rows that are there.
RowsReferToRows ==
    \A r \in rows : Shape(r.kind, r.refs) /\ \A x \in r.refs : IsThere(x)

\* A description is unique by the vehicle it is of.
DescriptionsAreOfOne ==
    \A d \in Rows("description") : d.key = d.refs /\ \E x \in Reference : d.refs = {x}

\* What a request holds: ids of rows that were there, and of vehicles that
\* still are, since nothing deletes a vehicle.
Holds(q) ==
    /\ \A x \in q.found \cup q.refs \cup q.description : WasGiven(x)
    /\ \A x \in q.found : x[1] = q.kind
    /\ \A x \in q.description : x[1] = "description"
    /\ Shape(q.kind, q.refs)
    /\ \A x \in q.found \cup q.refs : x[1] = "vehicle" => IsThere(x)
    /\ q.kind = "vehicle" /\ q.found # {} => \E x \in Reference : q.found = {x}

RequestsHold == \A w \in Worker : request[w] # None => Holds(request[w])

CleaningHolds ==
    clean # None => \A x \in clean.ids : WasGiven(x) /\ x[1] = clean.kind

BaseInv ==
    /\ Types
    /\ OneRowPerId /\ OneRowPerKey
    /\ RowsReferToRows /\ DescriptionsAreOfOne
    /\ RequestsHold /\ CleaningHolds

-------------------------------------------------------------------------------
(* Operators of the model *)

LEMMA Kinds == Kind = {"ads", "driver", "vehicle", "description", "taxi"}
BY DEF Kind, Part

\* The row an id is of.
LEMMA ThereIsARow ==
    ASSUME NEW x, IsThere(x)
    PROVE  \E r \in rows : Id(r) = x
BY DEF IsThere, Ids

LEMMA IdsAreReferences ==
    ASSUME Types, NEW S \in SUBSET rows
    PROVE  /\ Ids(S) \in SUBSET Reference
           /\ \A x \in Ids(S) : WasGiven(x) /\ IsThere(x)
<1>1. ASSUME NEW r \in S
      PROVE  Id(r) \in Reference /\ WasGiven(Id(r)) /\ IsThere(Id(r))
  <2>1. r \in rows /\ r.kind \in Kind /\ r.id \in Nat /\ r.id <= last[r.kind]
    BY DEF Types, RowRecord
  <2>2. Id(r) = <<r.kind, r.id>> /\ Id(r) \in Reference
    BY <2>1 DEF Id, Reference
  <2>3. WasGiven(Id(r))
    BY <2>1, <2>2 DEF WasGiven
  <2>4. IsThere(Id(r))
    BY <2>1 DEF IsThere, Ids
  <2> QED
    BY <2>2, <2>3, <2>4
<1> QED
  BY <1>1 DEF Ids

\* A search by what is unique finds one row at most.
LEMMA OneIsFound ==
    ASSUME BaseInv, NEW kind, NEW key, NEW by
    PROVE  /\ Found(kind, key, by) \subseteq rows
           /\ \A r \in Found(kind, key, by) : r.kind = kind /\ r.key = key /\ r.by = by
           /\ \A r, s \in Found(kind, key, by) : r = s
           /\ \A x \in Ids(Found(kind, key, by)) : x[1] = kind
<1>1. \A r \in Found(kind, key, by) : r \in rows /\ r.kind = kind /\ r.key = key /\ r.by = by
  BY DEF Found, Rows
<1>2. \A r, s \in Found(kind, key, by) : r = s
  BY <1>1 DEF BaseInv, OneRowPerKey
<1> QED
  BY <1>1, <1>2 DEF Ids, Id

LEMMA RowIsRecord ==
    ASSUME NEW kind \in Kind, NEW id \in Nat, NEW key \in Key,
           NEW by \in Operator \cup {None}, NEW refs \in SUBSET Reference
    PROVE  Row(kind, id, key, by, refs) \in RowRecord
<1>1. FALSE \in BOOLEAN
  OBVIOUS
<1> QED
  BY <1>1, Zenon DEF Row, RowRecord

\* Three rows that are one of each table at most are one of each.
LEMMA PartsAreThree ==
    ASSUME BaseInv, NEW o \in Operator, Cardinality(Parts(o)) = 3
    PROVE  {x[1] : x \in Ids(Parts(o))} = Part
<1> DEFINE A == Found("ads", o, o)
           D == Found("driver", o, o)
           V == Vehicle(o)
<1>1. /\ \A r, s \in A : r = s /\ \A x \in A : x.kind = "ads"
      /\ \A r, s \in D : r = s /\ \A x \in D : x.kind = "driver"
      /\ \A r, s \in V : r = s /\ \A x \in V : x.kind = "vehicle"
  BY OneIsFound DEF Vehicle
<1>2. Parts(o) = A \cup D \cup V
  BY DEF Parts
<1> HIDE DEF A, D, V
<1>3. ASSUME NEW r, NEW s, Parts(o) \subseteq {r, s}
      PROVE  FALSE
  <2>1. IsFiniteSet({r, s}) /\ Cardinality({r, s}) <= 2
    <3>1. IsFiniteSet({r}) /\ Cardinality({r}) = 1
      BY FS_Singleton
    <3>2. {r, s} = {r} \cup {s}
      OBVIOUS
    <3> QED
      BY <3>1, <3>2, FS_AddElement
  <2>2. Cardinality(Parts(o)) <= Cardinality({r, s})
    BY <1>3, <2>1, FS_Subset
  <2>3. Cardinality({r, s}) \in Nat
    BY <2>1, FS_CardinalityType
  <2> QED
    BY <2>1, <2>2, <2>3
<1>4. \E a, d, v : A \subseteq {a} /\ D \subseteq {d} /\ V \subseteq {v}
  <2>1. /\ A \subseteq {CHOOSE a : a \in A} /\ D \subseteq {CHOOSE d : d \in D}
        /\ V \subseteq {CHOOSE v : v \in V}
    BY <1>1
  <2> QED
    BY <2>1
<1>5. A # {} /\ D # {} /\ V # {}
  BY <1>2, <1>3, <1>4
<1>6. \A r \in Parts(o) : Id(r)[1] = r.kind /\ r.kind \in Part
  BY <1>1, <1>2 DEF Id, Part
<1>7. \A k \in Part : \E r \in Parts(o) : r.kind = k
  BY <1>1, <1>2, <1>5 DEF Part
<1>8. \A x \in Ids(Parts(o)) : x[1] \in Part
  BY <1>6 DEF Ids
<1>9. \A k \in Part : \E x \in Ids(Parts(o)) : x[1] = k
  BY <1>6, <1>7 DEF Ids
<1> QED
  BY <1>8, <1>9

\* What a POST /vehicles inserts, in full.
LEMMA VehicleRowsInFull ==
    ASSUME NEW q
    PROVE  LET v == Row("vehicle", last["vehicle"] + 1, Plate[q.by], None, {})
               of == IF q.found = {} THEN {Id(v)} ELSE q.found
               d == Row("description", last["description"] + 1, of, q.by, of)
           IN  /\ q.found = {} => v \in VehicleRows(q)
               /\ VehicleRows(q) \subseteq {v, d}
               /\ v \in VehicleRows(q) => q.found = {}
BY DEF VehicleRows, Fresh, Row

\* Rows to insert are new, one per table, and refer to the right tables.
LEMMA InsertedRows ==
    ASSUME BaseInv, NEW q \in Request, Holds(q)
    PROVE  /\ Inserted(q) \subseteq RowRecord
           /\ \A n \in Inserted(q) :
                /\ n.id = last[n.kind] + 1 /\ n.old = FALSE
                /\ Shape(n.kind, n.refs)
                /\ n.kind \in {q.kind, "description"}
                /\ n.kind = "taxi" => n.by = q.by /\ n.refs = q.refs
                /\ n.kind \in {"ads", "driver", "description"} => n.by = q.by
                /\ n.kind = "description" =>
                        n.key = n.refs /\ \E x \in Reference : n.refs = {x}
                /\ \A x \in n.refs : WasGiven(x) \/ x \in Ids(Inserted(q))
           /\ \A n, m \in Inserted(q) : n.kind = m.kind => n = m
<1>0. last \in [Kind -> Nat] /\ q.by \in Operator /\ q.refs \in SUBSET Reference
  BY DEF BaseInv, Types, Request
<1>1. CASE q.kind = "vehicle"
  <2> DEFINE v == Row("vehicle", last["vehicle"] + 1, Plate[q.by], None, {})
             of == IF q.found = {} THEN {Id(v)} ELSE q.found
             d == Row("description", last["description"] + 1, of, q.by, of)
  <2>1. Inserted(q) \subseteq {v, d}
    BY <1>1, VehicleRowsInFull DEF Inserted
  <2>2. v = [kind |-> "vehicle", id |-> last["vehicle"] + 1, key |-> Plate[q.by],
             by |-> None, refs |-> {}, old |-> FALSE]
    BY DEF Row
  <2>3. v \in RowRecord /\ Shape(v.kind, v.refs)
    <3>1. Plate[q.by] \in Key
      BY <1>0 DEF Key
    <3>2. last["vehicle"] + 1 \in Nat /\ "vehicle" \in Kind
      BY <1>0, Kinds
    <3>3. v \in RowRecord
      BY <3>1, <3>2, RowIsRecord
    <3>4. Shape("vehicle", {})
      BY DEF Shape
    <3> QED
      BY <2>2, <3>3, <3>4
  <2>4. Id(v) = <<"vehicle", last["vehicle"] + 1>> /\ Id(v) \in Reference
    BY <1>0, <2>2, Kinds DEF Id, Reference
  <2>5. \E x \in Reference : of = {x} /\ x[1] = "vehicle"
    <3>1. CASE q.found = {}
      <4>1. of = {Id(v)}
        BY <3>1
      <4> QED
        BY <2>4, <4>1
    <3>2. CASE q.found # {}
      BY <1>1, <3>2 DEF Holds
    <3> QED
      BY <3>1, <3>2
  <2> HIDE DEF of, v
  <2>6. d = [kind |-> "description", id |-> last["description"] + 1, key |-> of,
             by |-> q.by, refs |-> of, old |-> FALSE]
    BY DEF Row
  <2>7. d \in RowRecord /\ Shape(d.kind, d.refs)
    <3>1. PICK x \in Reference : of = {x} /\ x[1] = "vehicle"
      BY <2>5
    <3>2. of \in SUBSET Reference /\ of \in Key
      BY <3>1 DEF Key
    <3>3. last["description"] + 1 \in Nat /\ "description" \in Kind
      BY <1>0, Kinds
    <3>4. d \in RowRecord
      BY <1>0, <3>2, <3>3, RowIsRecord DEF d
    <3>5. {y[1] : y \in of} = {"vehicle"}
      BY <3>1
    <3>6. Shape("description", of)
      BY <3>5 DEF Shape
    <3> QED
      BY <2>6, <3>4, <3>6
  <2>8. d.key = d.refs /\ \E x \in Reference : d.refs = {x}
    BY <2>5, <2>6
  <2> HIDE DEF d
  <2>9. ASSUME NEW m \in Inserted(q)
        PROVE  /\ m \in RowRecord /\ Shape(m.kind, m.refs)
               /\ m.id = last[m.kind] + 1 /\ m.old = FALSE
               /\ m.kind \in {"vehicle", "description"}
               /\ m.kind = "description" => m = d /\ m.by = q.by
               /\ m.kind = "vehicle" => m = v
               /\ \A x \in m.refs : WasGiven(x) \/ x \in Ids(Inserted(q))
    <3>1. CASE m = v
      BY <2>2, <2>3, <3>1
    <3>2. CASE m = d
      <4>1. ASSUME NEW x \in of PROVE WasGiven(x) \/ x \in Ids(Inserted(q))
        <5>1. CASE q.found = {}
          <6>1. v \in Inserted(q) /\ of = {Id(v)}
            BY <1>1, <5>1, VehicleRowsInFull DEF Inserted, v, of
          <6> QED
            BY <4>1, <6>1 DEF Ids
        <5>2. CASE q.found # {}
          BY <4>1, <5>2 DEF Holds, of
        <5> QED
          BY <5>1, <5>2
      <4> QED
        BY <2>6, <2>7, <3>2, <4>1
    <3> QED
      BY <2>1, <3>1, <3>2
  <2> QED
    BY <1>1, <2>8, <2>9
<1>2. CASE q.kind # "vehicle"
  <2> DEFINE n == Row(q.kind, last[q.kind] + 1,
                      IF q.kind = "taxi" THEN q.refs ELSE q.by, q.by, q.refs)
  <2>1. Inserted(q) \subseteq {n}
    BY <1>2 DEF Inserted, Fresh
  <2>2. n = [kind |-> q.kind, id |-> last[q.kind] + 1,
             key |-> IF q.kind = "taxi" THEN q.refs ELSE q.by,
             by |-> q.by, refs |-> q.refs, old |-> FALSE]
    BY DEF Row
  <2>3. q.kind \in Kind \ {"vehicle", "description"}
    BY <1>2, Kinds DEF Request, Part
  <2> HIDE DEF n
  <2>4. n \in RowRecord
    <3>1. (IF q.kind = "taxi" THEN q.refs ELSE q.by) \in Key
      BY <1>0 DEF Key
    <3>2. last[q.kind] + 1 \in Nat /\ q.kind \in Kind
      BY <1>0, <2>3
    <3> QED
      BY <1>0, <3>1, <3>2, RowIsRecord DEF n
  <2>5. Shape(n.kind, n.refs)
    BY <2>2 DEF Holds
  <2>6. /\ n.id = last[n.kind] + 1 /\ n.old = FALSE /\ n.kind = q.kind
        /\ n.by = q.by /\ n.refs = q.refs
        /\ \A x \in q.refs : WasGiven(x)
    BY <2>2 DEF Holds
  <2>7. \A m \in Inserted(q) : m = n
    BY <2>1
  <2> QED
    BY <2>3, <2>4, <2>5, <2>6, <2>7
<1> QED
  BY <1>1, <1>2

\* What is left of a row when a request commits: all but the vehicle of an ADS.
IsStill(r, s) ==
    /\ s.kind = r.kind /\ s.id = r.id /\ s.key = r.key /\ s.by = r.by
    /\ s.kind # "ads" => s = r

LEMMA RowsOfACommit ==
    ASSUME BaseInv, NEW w \in Worker, Commits(w)
    PROVE  /\ request[w] \in Request /\ Holds(request[w])
           /\ \A r \in rows : \E s \in rows' : IsStill(r, s)
           /\ \A s \in rows' :
                \/ \E r \in rows : /\ s = WithVehicle(r, request[w])
                                   /\ IsStill(r, s) /\ s \in RowRecord
                                   /\ s.refs \in {r.refs, request[w].refs}
                                   /\ s.refs = r.refs
                                      \/ (r.kind = "ads" /\ request[w].kind = "ads")
                \/ s \in Inserted(request[w])
           /\ Inserted(request[w]) \subseteq rows'
           /\ \A n \in Inserted(request[w]) : Unique(n) /\ RefersToRows(n)
           /\ last' \in [Kind -> Nat]
           /\ \A k \in Kind : last[k] <= last'[k]
           /\ \A n \in Inserted(request[w]) : last'[n.kind] = last[n.kind] + 1
<1> DEFINE q == request[w]
<1>1. q \in Request /\ Holds(q)
  BY DEF Commits, BaseInv, Types, RequestsHold
<1>2. rows' = {WithVehicle(r, q) : r \in rows} \cup Inserted(q)
  BY DEF Commits
<1>3. ASSUME NEW r \in rows
      PROVE  LET s == WithVehicle(r, q) IN
             /\ IsStill(r, s) /\ s \in RowRecord /\ s.refs \in {r.refs, q.refs}
             /\ s.refs = r.refs \/ (r.kind = "ads" /\ q.kind = "ads")
  <2>1. r \in RowRecord
    BY DEF BaseInv, Types
  <2>2. CASE q.kind = "ads" /\ Id(r) \in q.found
    <3>1. r.kind = "ads"
      BY <1>1, <2>2 DEF Holds, Id
    <3>2. WithVehicle(r, q) = [r EXCEPT !.refs = q.refs]
      BY <2>2 DEF WithVehicle
    <3>3. q.refs \in SUBSET Reference
      BY <1>1 DEF Request
    <3> QED
      BY <2>1, <2>2, <3>1, <3>2, <3>3 DEF IsStill, RowRecord
  <2>3. CASE ~(q.kind = "ads" /\ Id(r) \in q.found)
    <3>1. WithVehicle(r, q) = r
      BY <2>3 DEF WithVehicle
    <3> QED
      BY <2>1, <3>1 DEF IsStill
  <2> QED
    BY <2>2, <2>3
<1>4. \A n \in Inserted(q) : Unique(n) /\ RefersToRows(n)
  BY DEF Commits, CanCommit
<1>5. /\ last' = [k \in Kind |->
                        IF \E r \in Inserted(q) : r.kind = k THEN last[k] + 1 ELSE last[k]]
      /\ last \in [Kind -> Nat]
  BY DEF Commits, BaseInv, Types
<1>6. last' \in [Kind -> Nat] /\ \A k \in Kind : last[k] <= last'[k]
  BY <1>5
<1>7. \A n \in Inserted(q) : last'[n.kind] = last[n.kind] + 1
  BY <1>1, <1>5, InsertedRows DEF RowRecord
<1>8. /\ \A r \in rows : \E s \in rows' : IsStill(r, s)
      /\ \A s \in rows' :
            \/ \E r \in rows : /\ s = WithVehicle(r, q)
                               /\ IsStill(r, s) /\ s \in RowRecord
                               /\ s.refs \in {r.refs, q.refs}
                               /\ s.refs = r.refs \/ (r.kind = "ads" /\ q.kind = "ads")
            \/ s \in Inserted(q)
      /\ Inserted(q) \subseteq rows'
  BY <1>2, <1>3
<1> QED
  BY <1>1, <1>4, <1>6, <1>7, <1>8
-------------------------------------------------------------------------------
(* Tables, requests and the clean-up *)

LEMMA BaseInit == Init => BaseInv
<1> SUFFICES ASSUME Init PROVE BaseInv
  OBVIOUS
<1>1. /\ request \in [Worker -> Request \cup {None}] /\ clean \in Cleaning \cup {None}
      /\ told \in [Operator -> SUBSET (Part \cup {"taxi"})]
      /\ exposed \subseteq {"taxi"} \X Nat /\ last \in [Kind -> Nat]
      /\ RequestsHold /\ CleaningHolds
  BY DEF Init, RequestsHold, CleaningHolds
<1>2. CASE rows = {}
  BY <1>1, <1>2 DEF BaseInv, Types, OneRowPerId, OneRowPerKey, RowsReferToRows,
                    DescriptionsAreOfOne, Rows
<1>3. CASE rows # {}
  <2>1. PICK o \in Veteran : rows = Registered(o)
    BY <1>3 DEF Init
  <2>2. o \in Operator
    BY RegistrationAssumption
  <2>3. last = [k \in Kind |-> 1]
    BY <1>3 DEF Init
  <2> DEFINE D == Row("driver", 1, o, o, {})
             V == Row("vehicle", 1, Plate[o], None, {})
             A == Row("ads", 1, o, o, {})
             P == {<<"driver", 1>>, <<"vehicle", 1>>, <<"ads", 1>>}
             E == Row("description", 1, {<<"vehicle", 1>>}, o, {<<"vehicle", 1>>})
             T == Row("taxi", 1, P, o, P)
             Old(r) == [r EXCEPT !.old = TRUE]
  <2>4. Ids({D, V, A}) = P /\ Id(V) = <<"vehicle", 1>>
    BY DEF Ids, Id, Row
  <2>5. rows = {Old(D), Old(V), Old(A), Old(E), Old(T)}
    BY <2>1, <2>4 DEF Registered
  <2>6. P \in SUBSET Reference /\ {<<"vehicle", 1>>} \in SUBSET Reference
    BY Kinds DEF Reference
  <2>7. {D, V, A, E, T} \subseteq RowRecord
    <3>1. o \in Key /\ Plate[o] \in Key /\ P \in Key /\ {<<"vehicle", 1>>} \in Key
      BY <2>2, <2>6 DEF Key
    <3>2. D \in RowRecord /\ A \in RowRecord
      BY <2>2, <3>1, RowIsRecord, Kinds
    <3>3. V \in RowRecord
      BY <3>1, RowIsRecord, Kinds
    <3>4. E \in RowRecord
      BY <2>2, <2>6, <3>1, RowIsRecord, Kinds
    <3>5. T \in RowRecord
      BY <2>2, <2>6, <3>1, RowIsRecord, Kinds
    <3> QED
      BY <3>2, <3>3, <3>4, <3>5
  <2>8. ASSUME NEW r \in RowRecord
        PROVE  /\ Old(r) \in RowRecord /\ Old(r).kind = r.kind /\ Old(r).id = r.id
               /\ Old(r).key = r.key /\ Old(r).by = r.by /\ Old(r).refs = r.refs
    <3>1. TRUE \in BOOLEAN
      OBVIOUS
    <3> QED
      BY <3>1 DEF RowRecord
  <2>9. /\ D.kind = "driver" /\ D.id = 1 /\ D.refs = {}
        /\ V.kind = "vehicle" /\ V.id = 1 /\ V.refs = {}
        /\ A.kind = "ads" /\ A.id = 1 /\ A.refs = {}
        /\ E.kind = "description" /\ E.id = 1 /\ E.refs = {<<"vehicle", 1>>} /\ E.key = E.refs
        /\ T.kind = "taxi" /\ T.id = 1 /\ T.refs = P
    BY DEF Row
  <2>10. /\ rows \subseteq RowRecord
         /\ \A r \in rows : r.id = 1 /\ r.kind \in Kind
         /\ \A r, s \in rows : r.kind = s.kind => r = s
    <3> HIDE DEF D, V, A, E, T, P, Old
    <3>1. rows \subseteq RowRecord
      BY <2>5, <2>7, <2>8
    <3>2. \A r \in rows : \E s \in {D, V, A, E, T} : r = Old(s) /\ r.kind = s.kind /\ r.id = 1
      BY <2>5, <2>7, <2>8, <2>9
    <3>3. \A r, s \in {D, V, A, E, T} : r.kind = s.kind => r = s
      BY <2>9
    <3>4. \A r, s \in rows : r.kind = s.kind => r = s
      BY <3>2, <3>3
    <3> QED
      BY <3>1, <3>2, <3>4 DEF RowRecord
  <2>11. Types
    <3>1. \A r \in rows : r.id \in 1..last[r.kind]
      BY <2>3, <2>10
    <3> QED
      BY <1>1, <2>10, <3>1 DEF Types
  <2>12. OneRowPerId /\ OneRowPerKey
    BY <2>10 DEF OneRowPerId, OneRowPerKey, Id
  <2>13. ASSUME NEW r \in rows
         PROVE  /\ Shape(r.kind, r.refs) /\ \A x \in r.refs : IsThere(x)
                /\ r.kind = "description" => r.key = r.refs /\ \E x \in Reference : r.refs = {x}
    <3>1. /\ Shape("driver", {}) /\ Shape("vehicle", {}) /\ Shape("ads", {})
          /\ Shape("description", {<<"vehicle", 1>>}) /\ Shape("taxi", P)
      BY DEF Shape, Part
    <3>2. \A x \in P : IsThere(x)
      <4> HIDE DEF D, V, A, E, T, Old
      <4>1. Id(Old(D)) = <<"driver", 1>> /\ Id(Old(V)) = <<"vehicle", 1>> /\ Id(Old(A)) = <<"ads", 1>>
        BY <2>7, <2>8, <2>9 DEF Id
      <4> QED
        BY <2>5, <4>1 DEF IsThere, Ids
    <3> HIDE DEF D, V, A, E, T, Old
    <3>3. PICK s \in {D, V, A, E, T} : r = Old(s)
      BY <2>5
    <3>4. r.kind = s.kind /\ r.key = s.key /\ r.refs = s.refs
      BY <2>7, <2>8, <3>3
    <3>5. Shape(s.kind, s.refs)
      BY <2>9, <3>1
    <3>6. s.refs \subseteq P
      BY <2>9
    <3>7. s.kind = "description" => s = E
      BY <2>9
    <3> QED
      BY <2>6, <2>9, <3>2, <3>4, <3>5, <3>6, <3>7
  <2> QED
    BY <1>1, <2>11, <2>12, <2>13 DEF BaseInv, RowsReferToRows, DescriptionsAreOfOne, Rows
<1> QED
  BY <1>2, <1>3

\* What a request finds is there, of the tables it looks in, and unique.
LEMMA PostsHold ==
    ASSUME BaseInv, NEW w \in Worker, NEW o \in Operator, Posts(w, o)
    PROVE  \E q \in Request :
                /\ Holds(q) /\ q.by = o
                /\ q.kind = "taxi" => /\ TaxiCanBeMade(o) /\ q.refs = Ids(Parts(o))
                                      /\ q.description = Ids(Description(o))
                /\ request' = [request EXCEPT ![w] = q]
                /\ UNCHANGED <<rows, last, told, clean, exposed>>
<1>1. ASSUME NEW kind \in Part \cup {"taxi"}, NEW found \in SUBSET rows,
             NEW refs \in SUBSET Reference, NEW description \in SUBSET rows,
             Serve(w, o, kind, found, refs, description),
             \A x \in Ids(found) : x[1] = kind,
             \A x \in Ids(description) : x[1] = "description",
             Shape(kind, refs),
             \A x \in refs : WasGiven(x) /\ IsThere(x),
             kind = "vehicle" /\ found # {} => \E x \in Reference : Ids(found) = {x},
             kind = "taxi" => /\ TaxiCanBeMade(o) /\ refs = Ids(Parts(o))
                              /\ description = Description(o)
      PROVE  \E q \in Request :
                /\ Holds(q) /\ q.by = o
                /\ q.kind = "taxi" => /\ TaxiCanBeMade(o) /\ q.refs = Ids(Parts(o))
                                      /\ q.description = Ids(Description(o))
                /\ request' = [request EXCEPT ![w] = q]
                /\ UNCHANGED <<rows, last, told, clean, exposed>>
  <2> DEFINE q == [kind |-> kind, by |-> o, found |-> Ids(found), refs |-> refs,
                   description |-> Ids(description)]
  <2>1. Ids(found) \in SUBSET Reference /\ Ids(description) \in SUBSET Reference
    BY IdsAreReferences DEF BaseInv
  <2>2. q \in Request
    BY <2>1 DEF Request
  <2>3. \A x \in Ids(found) \cup Ids(description) : WasGiven(x) /\ IsThere(x)
    BY IdsAreReferences DEF BaseInv
  <2>4. q.found # {} => found # {}
    BY DEF Ids
  <2>5. Holds(q)
    BY <1>1, <2>3, <2>4 DEF Holds
  <2>6. request' = [request EXCEPT ![w] = q] /\ UNCHANGED <<rows, last, told, clean, exposed>>
    BY <1>1 DEF Serve
  <2> QED
    BY <1>1, <2>2, <2>5, <2>6
<1>2. /\ Vehicle(o) \subseteq rows /\ Description(o) \subseteq rows /\ Parts(o) \subseteq rows
      /\ \A x \in Ids(Vehicle(o)) : x[1] = "vehicle"
      /\ \A x \in Ids(Description(o)) : x[1] = "description"
      /\ \A r, s \in Vehicle(o) : r = s
      /\ Ids({}) = {}
  <2>1. Vehicle(o) = Found("vehicle", Plate[o], None)
    BY DEF Vehicle
  <2>2. /\ Vehicle(o) \subseteq rows /\ \A x \in Ids(Vehicle(o)) : x[1] = "vehicle"
        /\ \A r, s \in Vehicle(o) : r = s
    BY <2>1, OneIsFound
  <2>3. Parts(o) \subseteq rows
    BY <2>2, OneIsFound DEF Parts
  <2>4. Ids({}) = {}
    BY DEF Ids
  <2>5. /\ Description(o) \subseteq rows
        /\ \A x \in Ids(Description(o)) : x[1] = "description"
    <3>1. CASE Vehicle(o) = {}
      BY <2>4, <3>1 DEF Description
    <3>2. CASE Vehicle(o) # {}
      BY <3>2, OneIsFound DEF Description
    <3> QED
      BY <3>1, <3>2
  <2> QED
    BY <2>2, <2>3, <2>4, <2>5
<1>3. CASE PostDriver(w, o)
  <2>1. Serve(w, o, "driver", Found("driver", o, o), {}, {})
    BY <1>3 DEF PostDriver
  <2>2. Shape("driver", {})
    BY DEF Shape
  <2> QED
    BY <1>1, <1>2, <2>1, <2>2, OneIsFound DEF Part
<1>4. CASE PostVehicle(w, o)
  <2>1. Vehicle(o) # {} => \E x \in Reference : Ids(Vehicle(o)) = {x}
    <3>1. ASSUME Vehicle(o) # {} PROVE \E x \in Reference : Ids(Vehicle(o)) = {x}
      <4>1. PICK r : r \in Vehicle(o)
        BY <3>1
      <4>2. Ids(Vehicle(o)) = {Id(r)}
        BY <1>2, <4>1 DEF Ids
      <4>3. Ids(Vehicle(o)) \in SUBSET Reference
        BY <1>2, IdsAreReferences DEF BaseInv
      <4> QED
        BY <4>2, <4>3
    <3> QED
      BY <3>1
  <2>2. Shape("vehicle", {})
    BY DEF Shape
  <2> QED
    BY <1>1, <1>2, <1>4, <2>1, <2>2 DEF PostVehicle, Part
<1>5. CASE PostAds(w, o)
  <2> DEFINE refs == IF o \in NamesVehicle THEN Ids(Vehicle(o)) ELSE {}
  <2>1. refs \in SUBSET Reference /\ \A x \in refs : WasGiven(x) /\ IsThere(x)
    BY <1>2, IdsAreReferences DEF BaseInv
  <2>2. Shape("ads", refs)
    BY <1>2 DEF Shape
  <2>3. Serve(w, o, "ads", Found("ads", o, o), refs, {})
    BY <1>5 DEF PostAds
  <2> HIDE DEF refs
  <2> QED
    BY <1>1, <1>2, <2>1, <2>2, <2>3, OneIsFound DEF Part
<1>6. CASE PostTaxi(w, o)
  <2> DEFINE refs == Ids(Parts(o))
  <2>1. refs \in SUBSET Reference /\ \A x \in refs : WasGiven(x) /\ IsThere(x)
    BY <1>2, IdsAreReferences DEF BaseInv
  <2>2. Shape("taxi", refs)
    BY <1>6, PartsAreThree DEF PostTaxi, TaxiCanBeMade, Shape
  <2> QED
    BY <1>1, <1>2, <1>6, <2>1, <2>2, OneIsFound DEF PostTaxi
<1> QED
  BY <1>3, <1>4, <1>5, <1>6 DEF Posts

\* What a request holds stays true: ids are not given again, vehicles stay.
LEMMA HoldsStay ==
    ASSUME Types, NEW q \in Request, Holds(q),
           last' \in [Kind -> Nat], \A k \in Kind : last[k] <= last'[k],
           \A x : IsThere(x) /\ x[1] = "vehicle" => IsThere(x)'
    PROVE  Holds(q)'
<1>1. ASSUME NEW x, WasGiven(x) PROVE WasGiven(x)'
  <2>1. x \in Reference /\ x[1] \in Kind /\ x[2] \in Nat /\ x[2] <= last[x[1]]
    BY <1>1 DEF WasGiven, Reference
  <2>2. last[x[1]] \in Nat /\ last'[x[1]] \in Nat /\ last[x[1]] <= last'[x[1]]
    BY <2>1 DEF Types
  <2> QED
    BY <2>1, <2>2 DEF WasGiven
<1> QED
  BY <1>1 DEF Holds

\* Tables that only lose rows nobody refers to.
LEMMA TablesStay ==
    ASSUME BaseInv, rows' \subseteq rows, UNCHANGED last,
           \A r \in rows' : \A x \in r.refs : IsThere(x)',
           \A r \in rows : r.kind = "vehicle" => r \in rows'
    PROVE  /\ OneRowPerId' /\ OneRowPerKey' /\ RowsReferToRows' /\ DescriptionsAreOfOne'
           /\ rows' \subseteq RowRecord /\ last' \in [Kind -> Nat]
           /\ \A r \in rows' : r.id \in 1..last'[r.kind]
           /\ \A q \in Request : Holds(q) => Holds(q)'
<1>1. /\ rows' \subseteq RowRecord /\ last' \in [Kind -> Nat]
      /\ \A r \in rows' : r.id \in 1..last'[r.kind]
  BY DEF BaseInv, Types
<1>2. OneRowPerId' /\ OneRowPerKey'
  BY DEF BaseInv, OneRowPerId, OneRowPerKey
<1>3. RowsReferToRows'
  BY DEF BaseInv, RowsReferToRows
<1>4. DescriptionsAreOfOne'
  BY DEF BaseInv, DescriptionsAreOfOne, Rows
<1>5. \A x : IsThere(x) /\ x[1] = "vehicle" => IsThere(x)'
  BY DEF IsThere, Ids, Id
<1>6. ASSUME NEW q \in Request, Holds(q) PROVE Holds(q)'
  <2>1. Types /\ \A k \in Kind : last[k] <= last'[k]
    BY DEF BaseInv, Types
  <2> QED
    BY <1>1, <1>5, <1>6, <2>1, HoldsStay
<1> QED
  BY <1>1, <1>2, <1>3, <1>4, <1>6

\* A row that still refers to what is there, when nothing goes.
LEMMA RefersStill ==
    ASSUME BaseInv, UNCHANGED rows
    PROVE  /\ \A r \in rows' : \A x \in r.refs : IsThere(x)'
           /\ \A r \in rows : r.kind = "vehicle" => r \in rows'
BY DEF BaseInv, RowsReferToRows, IsThere

LEMMA CommitKeepsBase ==
    ASSUME BaseInv, NEW w \in Worker, Commits(w)
    PROVE  BaseInv'
<1> DEFINE q == request[w]
<1>1. /\ q \in Request /\ Holds(q)
      /\ \A r \in rows : \E s \in rows' : IsStill(r, s)
      /\ \A s \in rows' :
                \/ \E r \in rows : /\ s = WithVehicle(r, q)
                                   /\ IsStill(r, s) /\ s \in RowRecord
                                   /\ s.refs \in {r.refs, q.refs}
                                   /\ s.refs = r.refs \/ (r.kind = "ads" /\ q.kind = "ads")
                \/ s \in Inserted(q)
      /\ Inserted(q) \subseteq rows'
      /\ \A n \in Inserted(q) : Unique(n) /\ RefersToRows(n)
      /\ last' \in [Kind -> Nat]
      /\ \A k \in Kind : last[k] <= last'[k]
      /\ \A n \in Inserted(q) : last'[n.kind] = last[n.kind] + 1
  BY RowsOfACommit
<1> DEFINE I == Inserted(q)
<1>2. /\ I \subseteq RowRecord
      /\ \A n \in I :
                /\ n.id = last[n.kind] + 1 /\ n.old = FALSE
                /\ Shape(n.kind, n.refs)
                /\ n.kind = "description" =>
                        n.key = n.refs /\ \E x \in Reference : n.refs = {x}
                /\ \A x \in n.refs : WasGiven(x) \/ x \in Ids(I)
      /\ \A n, m \in I : n.kind = m.kind => n = m
  BY <1>1, InsertedRows
<1>3. /\ rows \subseteq RowRecord /\ last \in [Kind -> Nat]
      /\ \A r \in rows : r.kind \in Kind /\ r.id \in Nat /\ r.id <= last[r.kind] /\ 1 <= r.id
  BY DEF BaseInv, Types, RowRecord
<1>4. request' = [request EXCEPT ![w] = None] /\ UNCHANGED clean
  BY DEF Commits
<1>5. told' = [told EXCEPT ![q.by] = IF Wants(q.by, q.kind) THEN @ \cup {q.kind} ELSE @]
  BY DEF Commits
<1>6. exposed' = IF IsExposed(q)
                 THEN exposed \cup {Id(r) : r \in {s \in Inserted(q) : s.kind = "taxi"}}
                 ELSE exposed
  BY DEF Commits
<1>t. \A n \in I : n.kind \in Kind /\ n.id \in Nat
  BY <1>2 DEF RowRecord
<1>7. exposed' \subseteq {"taxi"} \X Nat
  <2>1. \A n \in I : n.kind = "taxi" => Id(n) \in {"taxi"} \X Nat
    BY <1>t DEF Id
  <2> QED
    BY <1>6, <2>1 DEF BaseInv, Types
<1>8. told' \in [Operator -> SUBSET (Part \cup {"taxi"})]
  <2>1. q.kind \in Part \cup {"taxi"} /\ told \in [Operator -> SUBSET (Part \cup {"taxi"})]
    BY <1>1 DEF Request, BaseInv, Types
  <2> HIDE DEF q
  <2> QED
    BY <1>5, <2>1
<1> HIDE DEF q, I
<1>9. \A x : IsThere(x) => IsThere(x)'
  BY <1>1 DEF IsThere, Ids, Id, IsStill
<1>10. Types'
  <2>1. rows' \subseteq RowRecord
    BY <1>1, <1>2 DEF I
  <2>2. ASSUME NEW s \in rows' PROVE s.id \in 1..last'[s.kind]
    <3>1. CASE s \in I
      BY <1>1, <1>2, <1>3, <1>t, <3>1 DEF I
    <3>2. CASE s \notin I
      <4>1. PICK r \in rows : IsStill(r, s)
        BY <1>1, <3>2 DEF I
      <4>2. s.kind = r.kind /\ s.id = r.id
        BY <4>1 DEF IsStill
      <4>3. last'[r.kind] \in Nat /\ last[r.kind] \in Nat /\ last[r.kind] <= last'[r.kind]
        BY <1>1, <1>3
      <4> QED
        BY <1>3, <4>2, <4>3
    <3> QED
      BY <3>1, <3>2
  <2>3. request' \in [Worker -> Request \cup {None}] /\ clean' \in Cleaning \cup {None}
    BY <1>4 DEF BaseInv, Types
  <2> QED
    BY <1>1, <1>7, <1>8, <2>1, <2>2, <2>3 DEF Types
<1>11. ASSUME NEW s \in rows', NEW n \in I PROVE (Id(s) = Id(n) \/ (s.kind = n.kind /\ s.key = n.key /\ s.by = n.by)) => s = n
  <2>1. CASE s \in I
    BY <1>2, <1>11, <2>1 DEF Id
  <2>2. CASE s \notin I
    <3>1. PICK r \in rows : IsStill(r, s)
      BY <1>1, <2>2 DEF I
    <3>2. s.kind = r.kind /\ s.id = r.id /\ s.key = r.key /\ s.by = r.by
      BY <3>1 DEF IsStill
    <3>3. Id(s) # Id(n)
      <4>1. n.id = last[n.kind] + 1 /\ last[n.kind] \in Nat
        BY <1>2, <1>3, <1>11, <1>t
      <4>2. r.kind = n.kind => r.id # n.id
        BY <1>3, <4>1
      <4> QED
        BY <3>2, <4>2 DEF Id
    <3>4. ~(r.kind = n.kind /\ r.key = n.key /\ r.by = n.by)
      BY <1>1, <1>11, <3>1 DEF Unique, Rows, I
    <3> QED
      BY <3>2, <3>3, <3>4
  <2> QED
    BY <2>1, <2>2
<1>12. ASSUME NEW s \in rows' \ I, NEW t \in rows' \ I
       PROVE  (Id(s) = Id(t) \/ (s.kind = t.kind /\ s.key = t.key /\ s.by = t.by)) => s = t
  <2>1. PICK a \in rows : s = WithVehicle(a, q) /\ IsStill(a, s)
    BY <1>1 DEF I
  <2>2. PICK b \in rows : t = WithVehicle(b, q) /\ IsStill(b, t)
    BY <1>1 DEF I
  <2>3. Id(s) = Id(a) /\ Id(t) = Id(b)
    BY <2>1, <2>2 DEF IsStill, Id
  <2>4. (Id(a) = Id(b) \/ (a.kind = b.kind /\ a.key = b.key /\ a.by = b.by)) => a = b
    BY DEF BaseInv, OneRowPerId, OneRowPerKey
  <2> QED
    BY <2>1, <2>2, <2>3, <2>4 DEF IsStill
<1>13. OneRowPerId' /\ OneRowPerKey'
  <2>1. ASSUME NEW s \in rows', NEW t \in rows'
        PROVE  (Id(s) = Id(t) \/ (s.kind = t.kind /\ s.key = t.key /\ s.by = t.by)) => s = t
    BY <1>11, <1>12
  <2> QED
    BY <2>1 DEF OneRowPerId, OneRowPerKey, Id
<1>14. ASSUME NEW s \in rows'
       PROVE  Shape(s.kind, s.refs) /\ \A x \in s.refs : IsThere(x)'
  <2>1. CASE s \in I
    <3>1. ASSUME NEW x \in s.refs PROVE IsThere(x)'
      <4>1. IsThere(x) \/ x[2] > last[x[1]]
        BY <1>1, <2>1 DEF RefersToRows, I
      <4>2. WasGiven(x) \/ x \in Ids(I)
        BY <1>2, <2>1
      <4>3. WasGiven(x) => ~(x[2] > last[x[1]])
        BY <1>3 DEF WasGiven, Reference
      <4>4. x \in Ids(I) => IsThere(x)'
        BY <1>1 DEF IsThere, Ids, Id, I
      <4> QED
        BY <1>9, <4>1, <4>2, <4>3, <4>4
    <3> QED
      BY <1>2, <2>1, <3>1
  <2>2. CASE s \notin I
    <3>1. PICK r \in rows : /\ IsStill(r, s) /\ s.refs \in {r.refs, q.refs}
                            /\ s.refs = r.refs \/ (r.kind = "ads" /\ q.kind = "ads")
      BY <1>1, <2>2 DEF I
    <3>2. s.kind = r.kind /\ Shape(r.kind, r.refs) /\ \A x \in r.refs : IsThere(x)
      BY <3>1 DEF IsStill, BaseInv, RowsReferToRows
    <3>3. CASE s.refs = r.refs
      BY <1>9, <3>2, <3>3
    <3>4. CASE s.refs = q.refs /\ r.kind = "ads" /\ q.kind = "ads"
      <4>1. Shape("ads", q.refs) /\ \A x \in q.refs : x[1] = "vehicle" => IsThere(x)
        BY <1>1, <3>4 DEF Holds
      <4>2. \A x \in q.refs : IsThere(x)
        BY <4>1 DEF Shape
      <4> QED
        BY <1>9, <3>2, <3>4, <4>1, <4>2
    <3> QED
      BY <3>1, <3>3, <3>4
  <2> QED
    BY <2>1, <2>2
<1>15. RowsReferToRows'
  BY <1>14 DEF RowsReferToRows, Shape
<1>16. DescriptionsAreOfOne'
  <2>1. ASSUME NEW d \in rows', d.kind = "description"
        PROVE  d.key = d.refs /\ \E x \in Reference : d.refs = {x}
    <3>1. CASE d \in I
      BY <1>2, <2>1, <3>1
    <3>2. CASE d \notin I
      <4>1. PICK r \in rows : IsStill(r, d)
        BY <1>1, <3>2 DEF I
      <4>2. d = r
        BY <2>1, <4>1 DEF IsStill
      <4> QED
        BY <2>1, <4>2 DEF BaseInv, DescriptionsAreOfOne, Rows
    <3> QED
      BY <3>1, <3>2
  <2> QED
    BY <2>1 DEF DescriptionsAreOfOne, Rows
<1>17. RequestsHold'
  <2> SUFFICES ASSUME NEW v \in Worker, request'[v] # None
               PROVE  Holds(request[v])'
    BY DEF RequestsHold
  <2>1. request'[v] = request[v] /\ request[v] # None
    BY <1>4 DEF BaseInv, Types
  <2>2. PICK p \in Request : p = request[v]
    BY <2>1 DEF BaseInv, Types
  <2>3. Holds(p)
    BY <2>1, <2>2 DEF BaseInv, RequestsHold
  <2>4. Types
    BY DEF BaseInv
  <2>5. Holds(p)'
    BY <1>1, <1>9, <2>3, <2>4, HoldsStay
  <2>6. request'[v] = p
    BY <2>1, <2>2
  <2> QED
    BY <2>5, <2>6 DEF Holds
<1>18. CleaningHolds'
  <2> SUFFICES ASSUME clean # None, NEW x \in clean.ids
               PROVE  WasGiven(x)' /\ x[1] = clean.kind
    BY <1>4 DEF CleaningHolds
  <2>1. x \in Reference /\ x[2] <= last[x[1]] /\ x[1] = clean.kind
    BY DEF BaseInv, CleaningHolds, WasGiven
  <2>2. x[1] \in Kind /\ x[2] \in Nat
    BY <2>1 DEF Reference
  <2>3. last[x[1]] \in Nat /\ last'[x[1]] \in Nat /\ last[x[1]] <= last'[x[1]]
    BY <1>1, <1>3, <2>2
  <2> QED
    BY <2>1, <2>2, <2>3 DEF WasGiven
<1> QED
  BY <1>10, <1>13, <1>15, <1>16, <1>17, <1>18 DEF BaseInv

\* A request's worker changes, the tables do not.
LEMMA RequestChanges ==
    ASSUME BaseInv, UNCHANGED <<rows, last, told, clean, exposed>>, NEW w \in Worker,
           NEW q \in Request \cup {None}, q # None => Holds(q),
           request' = [request EXCEPT ![w] = q]
    PROVE  BaseInv'
<1>1. /\ OneRowPerId' /\ OneRowPerKey' /\ RowsReferToRows' /\ DescriptionsAreOfOne'
      /\ \A p \in Request : Holds(p) => Holds(p)'
  BY RefersStill, TablesStay
<1>2. request' \in [Worker -> Request \cup {None}]
  BY DEF BaseInv, Types
<1>3. Types'
  BY <1>2 DEF BaseInv, Types
<1>4. ASSUME NEW v \in Worker, request'[v] # None PROVE Holds(request[v])'
  <2>1. request'[v] \in {q, request[v]}
    BY DEF BaseInv, Types
  <2>2. PICK p \in Request : p = request'[v] /\ Holds(p)
    BY <1>4, <2>1 DEF BaseInv, Types, RequestsHold
  <2>3. Holds(p)'
    BY <1>1, <2>2
  <2> QED
    BY <2>2, <2>3 DEF Holds
<1>5. RequestsHold'
  BY <1>4 DEF RequestsHold
<1>6. CleaningHolds'
  BY DEF BaseInv, CleaningHolds, WasGiven
<1> QED
  BY <1>1, <1>3, <1>5, <1>6 DEF BaseInv

\* Rows go that nobody refers to, or none do, and requests stay.
LEMMA RowsGo ==
    ASSUME BaseInv, rows' \subseteq rows, UNCHANGED <<last, request, exposed>>,
           told' \in [Operator -> SUBSET (Part \cup {"taxi"})],
           clean' \in Cleaning \cup {None}, CleaningHolds',
           \A r \in rows' : \A x \in r.refs : IsThere(x)',
           \A r \in rows : r.kind = "vehicle" => r \in rows'
    PROVE  BaseInv'
<1>1. /\ OneRowPerId' /\ OneRowPerKey' /\ RowsReferToRows' /\ DescriptionsAreOfOne'
      /\ rows' \subseteq RowRecord /\ last' \in [Kind -> Nat]
      /\ \A r \in rows' : r.id \in 1..last'[r.kind]
      /\ \A p \in Request : Holds(p) => Holds(p)'
  BY TablesStay
<1>2. Types'
  BY <1>1 DEF BaseInv, Types
<1>3. ASSUME NEW v \in Worker, request'[v] # None PROVE Holds(request[v])'
  <2>1. PICK p \in Request : p = request[v] /\ Holds(p)
    BY <1>3 DEF BaseInv, Types, RequestsHold
  <2>2. Holds(p)'
    BY <1>1, <2>1
  <2> QED
    BY <2>1, <2>2 DEF Holds
<1>4. RequestsHold'
  BY <1>3 DEF RequestsHold
<1> QED
  BY <1>1, <1>2, <1>4 DEF BaseInv

\* What delete_old_orphans reads are ids of the table it is at.
LEMMA CleaningSteps ==
    ASSUME BaseInv, CleanBegins \/ ListsOrphans \/ DeletesOrphans \/ DeletionRaises
    PROVE  /\ clean' \in Cleaning \cup {None} /\ CleaningHolds'
           /\ UNCHANGED <<last, request, told, exposed>>
<1>1. UNCHANGED <<last, request, told, exposed>>
  BY DEF CleanBegins, ListsOrphans, DeletesOrphans, DeletionRaises
<1>2. \A kind \in {"driver", "ads", "description"} :
            At(kind) \in Cleaning /\ At(kind).ids = {}
            /\ TableAfter(kind) \in {At("ads"), At("description"), None}
  BY DEF At, Cleaning, TableAfter
<1>3. clean' \in {At("driver"), At("ads"), At("description"), None}
      => clean' \in Cleaning \cup {None} /\ CleaningHolds'
  BY <1>2 DEF CleaningHolds
<1>4. clean \in Cleaning \cup {None}
  BY DEF BaseInv, Types
<1>5. CASE CleanBegins \/ DeletesOrphans \/ DeletionRaises
  BY <1>1, <1>2, <1>3, <1>4, <1>5 DEF CleanBegins, DeletesOrphans, DeletionRaises, Cleaning
<1>6. CASE ListsOrphans
  <2> DEFINE orphans == {r \in Rows(clean.kind) : IsOrphan(r)}
  <2>1. /\ clean \in Cleaning
        /\ clean' = IF Ids(orphans) = {} THEN TableAfter(clean.kind)
                                       ELSE [clean EXCEPT !.ids = Ids(orphans)]
    BY <1>4, <1>6 DEF ListsOrphans
  <2>2. CASE Ids(orphans) = {}
    BY <1>1, <1>2, <1>3, <2>1, <2>2 DEF Cleaning
  <2>3. CASE Ids(orphans) # {}
    <3>1. orphans \in SUBSET rows /\ \A x \in Ids(orphans) : x[1] = clean.kind
      BY DEF Rows, Ids, Id
    <3>2. Ids(orphans) \in SUBSET Reference /\ \A x \in Ids(orphans) : WasGiven(x)
      BY <3>1, IdsAreReferences DEF BaseInv
    <3>3. clean' \in Cleaning /\ clean'.ids = Ids(orphans) /\ clean'.kind = clean.kind
      BY <2>1, <2>3, <3>2 DEF Cleaning
    <3>4. CleaningHolds'
      BY <1>1, <3>1, <3>2, <3>3 DEF CleaningHolds, WasGiven
    <3> QED
      BY <1>1, <3>3, <3>4
  <2> QED
    BY <2>2, <2>3
<1> QED
  BY <1>5, <1>6

\* What is deleted is referred to by nothing, and is no vehicle.
LEMMA DeletedRows ==
    ASSUME BaseInv, DeletesOrphans \/ \E t \in Rows("taxi") : OldTaxiIsDeleted(t)
    PROVE  /\ rows' \subseteq rows
           /\ \A r \in rows' : \A x \in r.refs : IsThere(x)'
           /\ \A r \in rows : r.kind = "vehicle" => r \in rows'
<1>1. CASE DeletesOrphans
  <2>1. /\ rows' = {r \in rows : Id(r) \notin clean.ids}
        /\ \A r \in rows : \A x \in r.refs : x \notin clean.ids
        /\ \A x \in clean.ids : x[1] = clean.kind
        /\ clean.kind \in {"driver", "ads", "description"}
    BY <1>1 DEF DeletesOrphans, IsReferenced, BaseInv, Types, CleaningHolds, Cleaning
  <2>2. ASSUME NEW r \in rows', NEW x \in r.refs PROVE IsThere(x)'
    <3>1. PICK s \in rows : Id(s) = x
      BY <2>1, ThereIsARow DEF BaseInv, RowsReferToRows
    <3>2. s \in rows'
      BY <2>1, <3>1
    <3> QED
      BY <3>1, <3>2 DEF IsThere, Ids, Id
  <2>3. \A r \in rows : r.kind = "vehicle" => r \in rows'
    BY <2>1 DEF Id
  <2> QED
    BY <2>1, <2>2, <2>3
<1>2. CASE \E t \in Rows("taxi") : OldTaxiIsDeleted(t)
  <2>1. PICK t \in Rows("taxi") : rows' = rows \ {t}
    BY <1>2 DEF OldTaxiIsDeleted
  <2>2. t.kind = "taxi" /\ t \in rows
    BY DEF Rows
  <2>3. ASSUME NEW r \in rows', NEW x \in r.refs PROVE IsThere(x)'
    <3>1. PICK s \in rows : Id(s) = x
      BY <2>1, ThereIsARow DEF BaseInv, RowsReferToRows
    <3>2. Shape(r.kind, r.refs) /\ r.kind \in Kind
      BY <2>1 DEF BaseInv, RowsReferToRows, Types, RowRecord
    <3>3. x[1] \in Part
      BY <3>2, Kinds DEF Shape, Part
    <3>4. s.kind # "taxi"
      BY <3>1, <3>3 DEF Id, Part
    <3>5. s \in rows'
      BY <2>1, <2>2, <3>4
    <3> QED
      BY <3>1, <3>5 DEF IsThere, Ids, Id
  <2>4. \A r \in rows : r.kind = "vehicle" => r \in rows'
    BY <2>1, <2>2
  <2> QED
    BY <2>1, <2>3, <2>4
<1> QED
  BY <1>1, <1>2

LEMMA BaseNext == BaseInv /\ [Next]_vars => BaseInv'
<1> SUFFICES ASSUME BaseInv, [Next]_vars PROVE BaseInv'
  OBVIOUS
<1>1. ASSUME NEW w \in Worker, NEW o \in Operator, Posts(w, o) PROVE BaseInv'
  BY <1>1, PostsHold, RequestChanges
<1>2. ASSUME NEW o \in Operator, IsRefused(o) PROVE BaseInv'
  <2>1. told' \in [Operator -> SUBSET (Part \cup {"taxi"})]
    BY <1>2 DEF IsRefused, BaseInv, Types
  <2>2. UNCHANGED <<rows, last, request, clean, exposed>>
    BY <1>2 DEF IsRefused
  <2>3. clean' \in Cleaning \cup {None} /\ CleaningHolds'
    BY <2>2 DEF BaseInv, Types, CleaningHolds, WasGiven
  <2> QED
    BY <2>1, <2>2, <2>3, RefersStill, RowsGo
<1>3. ASSUME NEW w \in Worker, Commits(w) PROVE BaseInv'
  BY <1>3, CommitKeepsBase
<1>4. ASSUME NEW w \in Worker, Fails(w) PROVE BaseInv'
  <2>1. request' = [request EXCEPT ![w] = None] /\ UNCHANGED <<rows, last, told, clean, exposed>>
    BY <1>4 DEF Fails
  <2> QED
    BY <2>1, RequestChanges
<1>5. CASE CleanBegins \/ ListsOrphans \/ DeletionRaises
  <2>1. UNCHANGED rows
    BY <1>5 DEF CleanBegins, ListsOrphans, DeletionRaises
  <2>2. told' \in [Operator -> SUBSET (Part \cup {"taxi"})]
    BY <1>5, CleaningSteps DEF BaseInv, Types
  <2> QED
    BY <1>5, <2>1, <2>2, CleaningSteps, RefersStill, RowsGo
<1>6. CASE DeletesOrphans
  <2>1. told' \in [Operator -> SUBSET (Part \cup {"taxi"})]
    BY <1>6, CleaningSteps DEF BaseInv, Types
  <2> QED
    BY <1>6, <2>1, CleaningSteps, DeletedRows, RowsGo
<1>7. ASSUME NEW t \in Rows("taxi"), OldTaxiIsDeleted(t) PROVE BaseInv'
  <2>1. UNCHANGED <<last, request, told, clean, exposed>>
    BY <1>7 DEF OldTaxiIsDeleted
  <2>2. clean' \in Cleaning \cup {None} /\ CleaningHolds'
        /\ told' \in [Operator -> SUBSET (Part \cup {"taxi"})]
    BY <2>1 DEF BaseInv, Types, CleaningHolds, WasGiven
  <2> QED
    BY <1>7, <2>1, <2>2, DeletedRows, RowsGo
<1>8. CASE UNCHANGED vars
  <2>1. UNCHANGED <<rows, last, request, told, clean, exposed>>
    BY <1>8 DEF vars
  <2>2. clean' \in Cleaning \cup {None} /\ CleaningHolds'
        /\ told' \in [Operator -> SUBSET (Part \cup {"taxi"})]
    BY <2>1 DEF BaseInv, Types, CleaningHolds, WasGiven
  <2> QED
    BY <2>1, <2>2, RefersStill, RowsGo
<1> QED
  BY <1>1, <1>2, <1>3, <1>4, <1>5, <1>6, <1>7, <1>8 DEF Next

LEMMA BaseHolds == Spec => []BaseInv
BY BaseInit, BaseNext, PTL DEF Spec

\* Types, and foreign keys: whatever commits in whatever order, a row refers to
\* rows that are there, a taxi to one of each of the three tables.
THEOREM TypeCorrect == Spec => []TypeOK
<1>1. BaseInv => TypeOK
  <2> SUFFICES ASSUME BaseInv PROVE TypeOK
    OBVIOUS
  <2>1. Types
    BY DEF BaseInv
  <2>2. ASSUME NEW r \in rows
        PROVE  /\ r.kind \in Kind /\ r.id \in 1..last[r.kind]
               /\ r.by \in Operator \cup {None} /\ r.old \in BOOLEAN
               /\ {x[1] : x \in r.refs} =
                    CASE r.kind = "taxi" -> Part
                      [] r.kind = "description" -> {"vehicle"}
                      [] r.kind = "ads" /\ r.refs # {} -> {"vehicle"}
                      [] OTHER -> {}
               /\ \A x \in r.refs : IsThere(x)
    <3>1. /\ r.kind \in Kind /\ r.id \in 1..last[r.kind]
          /\ r.by \in Operator \cup {None} /\ r.old \in BOOLEAN
      BY <2>1 DEF Types, RowRecord
    <3>2. Shape(r.kind, r.refs) /\ \A x \in r.refs : IsThere(x)
      BY DEF BaseInv, RowsReferToRows
    <3>3. CASE r.kind = "taxi"
      BY <3>1, <3>2, <3>3 DEF Shape
    <3>4. CASE r.kind = "description"
      BY <3>1, <3>2, <3>4 DEF Shape
    <3>5. CASE r.kind = "ads" /\ r.refs # {}
      <4>1. {x[1] : x \in r.refs} = {"vehicle"}
        BY <3>2, <3>5 DEF Shape
      <4> QED
        BY <3>1, <3>2, <3>5, <4>1
    <3>6. CASE r.kind \in {"ads", "driver", "vehicle"} /\ r.refs = {}
      <4>1. {x[1] : x \in r.refs} = {}
        BY <3>6
      <4> QED
        BY <3>1, <3>2, <3>6, <4>1
    <3> QED
      BY <3>1, <3>2, <3>3, <3>4, <3>5, <3>6, Kinds DEF Shape
  <2>3. \A w \in Worker : request[w] = None \/ request[w].kind \in Part \cup {"taxi"}
    BY <2>1 DEF Types, Request
  <2>4. clean = None \/ clean.kind \in {"driver", "ads", "description"}
    BY <2>1 DEF Types, Cleaning
  <2> QED
    BY <2>1, <2>2, <2>3, <2>4 DEF TypeOK, Types
<1> QED
  BY <1>1, BaseHolds, PTL
-------------------------------------------------------------------------------
(* A taxi is made of its operator's ADS and driver *)

\* The ADS and the drivers among some rows are the operator's.
AreHis(refs, o) ==
    \A r \in rows : Id(r) \in refs /\ r.kind \in {"ads", "driver"} => r.by = o

TaxisAreHis == \A t \in Rows("taxi") : AreHis(t.refs, t.by)

RequestsAreHis ==
    \A w \in Worker : request[w] # None /\ request[w].kind = "taxi"
        => AreHis(request[w].refs, request[w].by)

HisInv == BaseInv /\ TaxisAreHis /\ RequestsAreHis

\* Rows that go, or none.
LEMMA HisStay ==
    ASSUME rows' \subseteq rows, NEW refs, NEW o, AreHis(refs, o)
    PROVE  AreHis(refs, o)'
BY DEF AreHis

LEMMA HisInvInit == Init => HisInv
<1> SUFFICES ASSUME Init PROVE HisInv
  OBVIOUS
<1>1. RequestsAreHis
  BY DEF Init, RequestsAreHis
<1>2. TaxisAreHis
  <2>1. CASE rows = {}
    BY <2>1 DEF TaxisAreHis, Rows
  <2>2. CASE rows # {}
    <3>1. PICK o \in Veteran : rows = Registered(o)
      BY <2>2 DEF Init
    <3>2. \A r \in rows : r.kind \in {"ads", "driver", "taxi"} => r.by = o
      BY <3>1 DEF Registered, Row
    <3> QED
      BY <3>2 DEF TaxisAreHis, AreHis, Rows
  <2> QED
    BY <2>1, <2>2
<1> QED
  BY <1>1, <1>2, BaseInit DEF HisInv

\* New rows have new ids: nothing that was referred to changes its operator.
LEMMA HisAfterCommit ==
    ASSUME BaseInv, NEW w \in Worker, Commits(w),
           NEW refs, \A x \in refs : WasGiven(x), NEW o, AreHis(refs, o)
    PROVE  AreHis(refs, o)'
<1> SUFFICES ASSUME NEW s \in rows', Id(s) \in refs, s.kind \in {"ads", "driver"}
             PROVE  s.by = o
  BY DEF AreHis, Id
<1>1. last \in [Kind -> Nat]
  BY DEF BaseInv, Types
<1>2. CASE s \in Inserted(request[w])
  <2>0. request[w] \in Request /\ Holds(request[w])
    BY RowsOfACommit
  <2>1. s.id = last[s.kind] + 1 /\ s.kind \in Kind
    <3>1. s \in RowRecord /\ s.id = last[s.kind] + 1
      BY <1>2, <2>0, InsertedRows
    <3> QED
      BY <3>1 DEF RowRecord
  <2>2. s.id <= last[s.kind]
    BY DEF WasGiven, Id
  <2> QED
    BY <1>1, <2>1, <2>2
<1>3. CASE s \notin Inserted(request[w])
  <2>1. PICK r \in rows : IsStill(r, s)
    BY <1>3, RowsOfACommit
  <2>2. Id(r) = Id(s) /\ r.kind = s.kind /\ r.by = s.by
    BY <2>1 DEF IsStill, Id
  <2> QED
    BY <2>2 DEF AreHis
<1> QED
  BY <1>2, <1>3

\* References were given: of rows, and of requests.
LEMMA ReferencesWereGiven ==
    ASSUME BaseInv
    PROVE  /\ \A r \in rows : \A x \in r.refs : WasGiven(x)
           /\ \A w \in Worker : request[w] # None => \A x \in request[w].refs : WasGiven(x)
<1>1. ASSUME NEW x, IsThere(x) PROVE WasGiven(x)
  BY <1>1, IdsAreReferences DEF IsThere, BaseInv
<1> QED
  BY <1>1 DEF BaseInv, RowsReferToRows, RequestsHold, Holds

\* The rows a POST /taxis has found are its operator's.
LEMMA PartsAreHis ==
    ASSUME BaseInv, NEW o \in Operator
    PROVE  AreHis(Ids(Parts(o)), o)
<1> SUFFICES ASSUME NEW r \in rows, Id(r) \in Ids(Parts(o)), r.kind \in {"ads", "driver"}
             PROVE  r.by = o
  BY DEF AreHis
<1>1. PICK s \in Parts(o) : Id(s) = Id(r)
  BY DEF Ids
<1>2. s \in rows
  BY <1>1, OneIsFound DEF Parts, Vehicle
<1>3. s = r
  BY <1>1, <1>2 DEF BaseInv, OneRowPerId
<1> QED
  BY <1>1, <1>3, OneIsFound DEF Parts, Vehicle

LEMMA HisInvNext == HisInv /\ [Next]_vars => HisInv'
<1> SUFFICES ASSUME HisInv, [Next]_vars PROVE HisInv'
  OBVIOUS
<1>0. BaseInv /\ BaseInv'
  BY BaseNext DEF HisInv
<1>1. ASSUME rows' \subseteq rows, UNCHANGED request PROVE HisInv'
  <2>1. TaxisAreHis'
    BY <1>1, HisStay DEF HisInv, TaxisAreHis, Rows
  <2>2. RequestsAreHis'
    <3> SUFFICES ASSUME NEW w \in Worker, request[w] # None, request[w].kind = "taxi"
                 PROVE  AreHis(request[w].refs, request[w].by)'
      BY <1>1 DEF RequestsAreHis
    <3>1. AreHis(request[w].refs, request[w].by)
      BY DEF HisInv, RequestsAreHis
    <3> QED
      BY <1>1, <3>1 DEF AreHis
  <2> QED
    BY <1>0, <2>1, <2>2 DEF HisInv
<1>2. ASSUME NEW w \in Worker, NEW o \in Operator, Posts(w, o) PROVE HisInv'
  <2>1. PICK q \in Request :
            /\ q.by = o
            /\ q.kind = "taxi" => q.refs = Ids(Parts(o))
            /\ request' = [request EXCEPT ![w] = q]
            /\ UNCHANGED rows
    BY <1>0, <1>2, PostsHold
  <2>2. TaxisAreHis'
    BY <2>1 DEF HisInv, TaxisAreHis, AreHis, Rows
  <2>3. RequestsAreHis'
    <3> SUFFICES ASSUME NEW v \in Worker, request'[v] # None, request'[v].kind = "taxi"
                 PROVE  AreHis(request[v].refs, request[v].by)'
      BY DEF RequestsAreHis
    <3>1. CASE v = w
      <4>1. request'[v] = q
        BY <1>0, <2>1, <3>1 DEF BaseInv, Types
      <4>2. AreHis(q.refs, q.by)
        BY <1>0, <2>1, <4>1, PartsAreHis
      <4> QED
        BY <2>1, <4>1, <4>2 DEF AreHis
    <3>2. CASE v # w
      <4>1. request'[v] = request[v]
        BY <1>0, <2>1, <3>2 DEF BaseInv, Types
      <4>2. AreHis(request[v].refs, request[v].by)
        BY <4>1 DEF HisInv, RequestsAreHis
      <4> QED
        BY <2>1, <4>1, <4>2 DEF AreHis
    <3> QED
      BY <3>1, <3>2
  <2> QED
    BY <1>0, <2>2, <2>3 DEF HisInv
<1>3. ASSUME NEW w \in Worker, Fails(w) PROVE HisInv'
  <2>1. request' = [request EXCEPT ![w] = None] /\ UNCHANGED rows
    BY <1>3 DEF Fails
  <2>2. TaxisAreHis'
    BY <2>1 DEF HisInv, TaxisAreHis, AreHis, Rows
  <2>3. RequestsAreHis'
    <3> SUFFICES ASSUME NEW v \in Worker, request'[v] # None, request'[v].kind = "taxi"
                 PROVE  AreHis(request[v].refs, request[v].by)'
      BY DEF RequestsAreHis
    <3>1. request'[v] = request[v]
      BY <1>0, <2>1 DEF BaseInv, Types
    <3>2. AreHis(request[v].refs, request[v].by)
      BY <3>1 DEF HisInv, RequestsAreHis
    <3> QED
      BY <2>1, <3>1, <3>2 DEF AreHis
  <2> QED
    BY <1>0, <2>2, <2>3 DEF HisInv
<1>4. ASSUME NEW w \in Worker, Commits(w) PROVE HisInv'
  <2> DEFINE q == request[w]
  <2>1. /\ q \in Request /\ Holds(q) /\ q # None
        /\ request' = [request EXCEPT ![w] = None]
    BY <1>0, <1>4, RowsOfACommit DEF Commits
  <2>2. \A x \in q.refs : WasGiven(x)
    BY <2>1 DEF Holds
  <2>3. ASSUME NEW t \in rows', t.kind = "taxi" PROVE AreHis(t.refs, t.by)'
    <3>1. CASE t \in Inserted(q)
      <4>1. t.by = q.by /\ t.refs = q.refs /\ q.kind = "taxi"
        <5>1. t.kind \in {q.kind, "description"}
          BY <1>0, <2>1, <3>1, InsertedRows
        <5> QED
          BY <1>0, <2>1, <2>3, <3>1, <5>1, InsertedRows
      <4>2. AreHis(q.refs, q.by)
        BY <2>1, <4>1 DEF HisInv, RequestsAreHis
      <4> HIDE DEF q
      <4>3. PICK refs, o : refs = q.refs /\ o = q.by
        OBVIOUS
      <4>4. AreHis(refs, o)'
        BY <1>0, <1>4, <2>2, <4>2, <4>3, HisAfterCommit
      <4> QED
        BY <4>1, <4>3, <4>4
    <3>2. CASE t \notin Inserted(q)
      <4>1. PICK r \in rows : IsStill(r, t)
        BY <1>0, <1>4, <3>2, RowsOfACommit
      <4>2. t = r
        BY <2>3, <4>1 DEF IsStill
      <4>3. AreHis(t.refs, t.by) /\ \A x \in t.refs : WasGiven(x)
        BY <1>0, <2>3, <4>2, ReferencesWereGiven DEF HisInv, TaxisAreHis, Rows
      <4> QED
        BY <1>0, <1>4, <4>3, HisAfterCommit
    <3> QED
      BY <3>1, <3>2
  <2>4. TaxisAreHis'
    BY <2>3 DEF TaxisAreHis, Rows
  <2>5. RequestsAreHis'
    <3> SUFFICES ASSUME NEW v \in Worker, request'[v] # None, request'[v].kind = "taxi"
                 PROVE  AreHis(request[v].refs, request[v].by)'
      BY DEF RequestsAreHis
    <3>1. request'[v] = request[v]
      BY <1>0, <2>1 DEF BaseInv, Types
    <3>2. PICK refs, o : refs = request[v].refs /\ o = request[v].by
      OBVIOUS
    <3>3. AreHis(refs, o) /\ \A x \in refs : WasGiven(x)
      BY <1>0, <3>1, <3>2, ReferencesWereGiven DEF HisInv, RequestsAreHis
    <3>4. AreHis(refs, o)'
      BY <1>0, <1>4, <3>3, HisAfterCommit
    <3> QED
      BY <3>1, <3>2, <3>4 DEF AreHis
  <2> QED
    BY <1>0, <2>4, <2>5 DEF HisInv
<1>5. ASSUME NEW o \in Operator, IsRefused(o) PROVE HisInv'
  BY <1>1, <1>5 DEF IsRefused
<1>6. CASE CleanBegins \/ ListsOrphans \/ DeletesOrphans \/ DeletionRaises
  BY <1>0, <1>1, <1>6, DeletedRows DEF CleanBegins, ListsOrphans, DeletesOrphans, DeletionRaises
<1>7. ASSUME NEW t \in Rows("taxi"), OldTaxiIsDeleted(t) PROVE HisInv'
  BY <1>1, <1>7 DEF OldTaxiIsDeleted
<1>8. CASE UNCHANGED vars
  BY <1>1, <1>8 DEF vars
<1> QED
  BY <1>2, <1>3, <1>4, <1>5, <1>6, <1>7, <1>8 DEF Next

\* No licence has two rows, and no taxi is made of another operator's ADS or
\* driver, however many requests found nothing at the same time: the unique
\* keys decide at the commit, and ids are never given twice.
THEOREM CheckDbIsSatisfied == Spec => []CheckDbFindsNothing
<1>1. ASSUME HisInv, NEW kind \in Kind PROVE check_duplicates(kind) = {}
  BY <1>1 DEF HisInv, BaseInv, OneRowPerKey, check_duplicates, Rows
<1>2. ASSUME HisInv, NEW kind \in {"ads", "driver"} PROVE check_sharing(kind) = {}
  BY <1>2 DEF HisInv, TaxisAreHis, AreHis, check_sharing, Rows
<1>3. HisInv => CheckDbFindsNothing
  BY <1>1, <1>2 DEF CheckDbFindsNothing
<1> QED
  BY <1>3, HisInvInit, HisInvNext, PTL DEF Spec
-------------------------------------------------------------------------------
(* A taxi keeps the description of its vehicle *)

IsComplete(t) ==
    \/ Id(t) \in exposed
    \/ \E d \in Rows("description") : d.by = t.by /\ d.refs \subseteq t.refs

\* A description that the clean-up is about to delete is of no other taxi.
CleaningIsSafe ==
    clean # None => \A d \in Rows("description"), t \in Rows("taxi") :
        Id(d) \in clean.ids /\ d.by = t.by /\ d.refs \subseteq t.refs => Id(t) \in exposed

\* Among the rows a taxi is made of there is one vehicle.
HasOneVehicle(t) ==
    \E v \in t.refs : v[1] = "vehicle" /\ \A x \in t.refs : x[1] = "vehicle" => x = v

\* A POST /taxis refers to one vehicle, and has seen its operator's description.
SawDescription(q) ==
    \E v \in q.refs :
        /\ v[1] = "vehicle"
        /\ \A x \in q.refs : x[1] = "vehicle" => x = v
        /\ q.description # {}
        /\ \A d \in Rows("description") :
                Id(d) \in q.description => d.by = q.by /\ d.refs = {v}

RequestsSawDescription ==
    \A w \in Worker : request[w] # None /\ request[w].kind = "taxi"
        => SawDescription(request[w])

CompleteInv ==
    /\ BaseInv
    /\ \A t \in Rows("taxi") : IsComplete(t) /\ HasOneVehicle(t)
    /\ CleaningIsSafe
    /\ RequestsSawDescription

LEMMA CompleteInvInit == Init => CompleteInv
<1> SUFFICES ASSUME Init PROVE CompleteInv
  OBVIOUS
<1>1. CleaningIsSafe /\ RequestsSawDescription
  BY DEF Init, CleaningIsSafe, RequestsSawDescription
<1>2. \A t \in Rows("taxi") : IsComplete(t) /\ HasOneVehicle(t)
  <2>1. CASE rows = {}
    BY <2>1 DEF Rows
  <2>2. CASE rows # {}
    <3>1. PICK o \in Veteran : rows = Registered(o)
      BY <2>2 DEF Init
    <3> DEFINE D == Row("driver", 1, o, o, {})
               V == Row("vehicle", 1, Plate[o], None, {})
               A == Row("ads", 1, o, o, {})
               E == Row("description", 1, {Id(V)}, o, {Id(V)})
               T == Row("taxi", 1, Ids({D, V, A}), o, Ids({D, V, A}))
               Old(r) == [r EXCEPT !.old = TRUE]
    <3>2. rows = {Old(D), Old(V), Old(A), Old(E), Old(T)}
      BY <3>1 DEF Registered
    <3>3. /\ Old(E).kind = "description" /\ Old(E).by = o /\ Old(E).refs = {Id(V)}
          /\ Old(T).kind = "taxi" /\ Old(T).by = o /\ Old(T).refs = Ids({D, V, A})
          /\ Old(D).kind = "driver" /\ Old(V).kind = "vehicle" /\ Old(A).kind = "ads"
      BY DEF Row
    <3>4. {Id(V)} \subseteq Ids({D, V, A})
      BY DEF Ids
    <3>6. HasOneVehicle(Old(T))
      <4>1. Ids({D, V, A}) = {<<"driver", 1>>, <<"vehicle", 1>>, <<"ads", 1>>}
        BY DEF Ids, Id, Row
      <4> HIDE DEF D, V, A, E, T, Old
      <4>2. /\ Old(T).refs = {<<"driver", 1>>, <<"vehicle", 1>>, <<"ads", 1>>}
            /\ <<"vehicle", 1>> \in Old(T).refs
        BY <3>3, <4>1
      <4>3. \A x \in Old(T).refs : x[1] = "vehicle" => x = <<"vehicle", 1>>
        BY <4>2
      <4> QED
        BY <4>2, <4>3 DEF HasOneVehicle
    <3> HIDE DEF D, V, A, E, T, Old
    <3>5. Old(E) \in Rows("description") /\ \A t \in Rows("taxi") : t = Old(T)
      BY <3>2, <3>3 DEF Rows
    <3> QED
      BY <3>3, <3>4, <3>5, <3>6 DEF IsComplete
  <2> QED
    BY <2>1, <2>2
<1> QED
  BY <1>1, <1>2, BaseInit DEF CompleteInv

\* Where descriptions only go, or stay, what a request has seen remains true.
LEMMA SawStays ==
    ASSUME NEW q, SawDescription(q),
           \A d \in Rows("description")' : Id(d) \in q.description => d \in Rows("description")
    PROVE  SawDescription(q)'
BY DEF SawDescription, Id

\* The one description of a vehicle by an operator, as a POST /taxis sees it.
LEMMA PostSawDescription ==
    ASSUME BaseInv, NEW o \in Operator, TaxiCanBeMade(o), NEW q,
           q.refs = Ids(Parts(o)), q.description = Ids(Description(o)), q.by = o
    PROVE  SawDescription(q)
<1>1. Cardinality(Parts(o)) = 3 /\ Description(o) # {}
  BY DEF TaxiCanBeMade
<1>2. PICK v \in Vehicle(o) : TRUE
  BY <1>1 DEF Description
<1>3. /\ v \in rows /\ v.kind = "vehicle" /\ Vehicle(o) = {v}
      /\ Vehicle(o) \subseteq Parts(o)
  BY <1>2, OneIsFound DEF Vehicle, Parts
<1>4. Id(v) \in q.refs /\ Id(v)[1] = "vehicle"
  BY <1>3 DEF Ids, Id
<1>5. ASSUME NEW x \in q.refs, x[1] = "vehicle" PROVE x = Id(v)
  <2>1. PICK r \in Parts(o) : x = Id(r)
    BY DEF Ids
  <2>2. r.kind = "vehicle"
    BY <1>5, <2>1 DEF Id
  <2>3. r \in Vehicle(o)
    BY <2>2, OneIsFound DEF Parts
  <2> QED
    BY <1>3, <2>1, <2>3
<1>6. q.description # {}
  BY <1>1 DEF Ids
<1>7. ASSUME NEW d \in Rows("description"), Id(d) \in q.description
      PROVE  d.by = o /\ d.refs = {Id(v)}
  <2>1. PICK e \in Description(o) : Id(e) = Id(d)
    BY <1>7 DEF Ids
  <2>2. Description(o) = Found("description", Ids(Vehicle(o)), o)
    BY <1>3 DEF Description
  <2>3. e \in rows /\ e.key = Ids(Vehicle(o)) /\ e.by = o
    BY <2>1, <2>2, OneIsFound
  <2>4. d = e
    BY <2>1, <2>3 DEF Rows, BaseInv, OneRowPerId
  <2>5. d.refs = d.key
    BY DEF BaseInv, DescriptionsAreOfOne
  <2>6. Ids(Vehicle(o)) = {Id(v)}
    BY <1>3 DEF Ids
  <2> QED
    BY <2>3, <2>4, <2>5, <2>6
<1> QED
  BY <1>4, <1>5, <1>6, <1>7 DEF SawDescription

\* A commit changes no description and no taxi; those it inserts have new ids.
LEMMA DescriptionsAndTaxisStay ==
    ASSUME BaseInv, NEW w \in Worker, Commits(w),
           NEW s \in rows', s.kind \in {"description", "taxi"}
    PROVE  \/ s \in rows
           \/ s \in Inserted(request[w]) /\ ~WasGiven(Id(s))
<1>1. CASE s \in Inserted(request[w])
  <2>0. request[w] \in Request /\ Holds(request[w])
    BY RowsOfACommit
  <2>1. s.id = last[s.kind] + 1
    BY <1>1, <2>0, InsertedRows
  <2>3. s.kind \in Kind /\ last \in [Kind -> Nat]
    BY Kinds DEF BaseInv, Types
  <2>2. ~(s.id <= last[s.kind])
    BY <2>1, <2>3
  <2> QED
    BY <1>1, <2>2 DEF WasGiven, Id
<1>2. CASE s \notin Inserted(request[w])
  <2>1. PICK r \in rows : IsStill(r, s)
    BY <1>2, RowsOfACommit
  <2> QED
    BY <2>1 DEF IsStill
<1> QED
  BY <1>1, <1>2

LEMMA RowsOfTwoTablesStay ==
    ASSUME BaseInv, NEW w \in Worker, Commits(w),
           NEW r \in rows, r.kind \in {"description", "taxi"}
    PROVE  r \in rows'
<1>1. PICK s \in rows' : IsStill(r, s)
  BY RowsOfACommit
<1> QED
  BY <1>1 DEF IsStill

\* The new taxi of a commit across no deletion: the description that the
\* request had seen is there, and the clean-up has not listed it.
LEMMA NewTaxi ==
    ASSUME CompleteInv, NEW w \in Worker, Commits(w),
           NEW t \in Inserted(request[w]), t.kind = "taxi", ~IsExposed(request[w])
    PROVE  /\ \E d \in Rows("description") : d.by = t.by /\ d.refs \subseteq t.refs
           /\ clean # None => \A e \in Rows("description") :
                    e.by = t.by /\ e.refs \subseteq t.refs => Id(e) \notin clean.ids
<1> DEFINE q == request[w]
<1>0. BaseInv /\ q \in Request /\ Holds(q) /\ q # None
  BY RowsOfACommit DEF CompleteInv, Commits
<1>1. q.kind = "taxi" /\ t.by = q.by /\ t.refs = q.refs
  <2>1. t.kind \in {q.kind, "description"}
    BY <1>0, InsertedRows
  <2> QED
    BY <1>0, <2>1, InsertedRows
<1>2. PICK v \in q.refs :
            /\ v[1] = "vehicle"
            /\ \A x \in q.refs : x[1] = "vehicle" => x = v
            /\ q.description # {}
            /\ \A d \in Rows("description") :
                    Id(d) \in q.description => d.by = q.by /\ d.refs = {v}
  BY <1>0, <1>1 DEF CompleteInv, RequestsSawDescription, SawDescription
<1>3. PICK x \in q.description : IsThere(x) /\ ~(clean # None /\ x \in clean.ids)
  BY <1>2 DEF IsExposed
<1>4. PICK d \in rows : Id(d) = x
  BY <1>3, ThereIsARow
<1>5. d \in Rows("description")
  BY <1>0, <1>3, <1>4 DEF Holds, Id, Rows
<1>6. d.by = t.by /\ d.refs = {v}
  BY <1>1, <1>2, <1>3, <1>4, <1>5
<1>7. ASSUME NEW e \in Rows("description"), e.by = t.by, e.refs \subseteq t.refs
      PROVE  e = d
  <2>1. e \in rows /\ e.kind = "description" /\ d.kind = "description"
    BY <1>5 DEF Rows
  <2>2. e.key = e.refs /\ d.key = d.refs
    BY <1>0, <1>5 DEF BaseInv, DescriptionsAreOfOne
  <2>3. PICK y \in Reference : e.refs = {y}
    BY <1>0 DEF BaseInv, DescriptionsAreOfOne
  <2>4. {z[1] : z \in e.refs} = {"vehicle"}
    BY <1>0, <2>1 DEF BaseInv, RowsReferToRows, Shape
  <2>5. y[1] = "vehicle" /\ y \in q.refs
    BY <1>1, <1>7, <2>3, <2>4
  <2>6. y = v
    BY <1>2, <2>5
  <2> QED
    BY <1>0, <1>6, <1>7, <2>1, <2>2, <2>3, <2>6 DEF BaseInv, OneRowPerKey
<1> QED
  BY <1>1, <1>2, <1>3, <1>4, <1>5, <1>6, <1>7

\* A new taxi is made of what its request referred to.
LEMMA NewTaxiHasOneVehicle ==
    ASSUME CompleteInv, NEW w \in Worker, Commits(w),
           NEW t \in Inserted(request[w]), t.kind = "taxi"
    PROVE  HasOneVehicle(t)
<1> DEFINE q == request[w]
<1>0. BaseInv /\ q \in Request /\ Holds(q) /\ q # None
  BY RowsOfACommit DEF CompleteInv, Commits
<1>1. t.kind \in {q.kind, "description"}
  BY <1>0, InsertedRows
<1>2. q.kind = "taxi" /\ t.refs = q.refs
  BY <1>0, <1>1, InsertedRows
<1>3. SawDescription(q)
  BY <1>0, <1>2 DEF CompleteInv, RequestsSawDescription
<1> QED
  BY <1>2, <1>3 DEF SawDescription, HasOneVehicle

LEMMA CommitKeepsComplete ==
    ASSUME CompleteInv, BaseInv', NEW w \in Worker, Commits(w)
    PROVE  CompleteInv'
<1> DEFINE q == request[w]
<1>0. /\ BaseInv /\ q \in Request /\ Holds(q)
      /\ request' = [request EXCEPT ![w] = None] /\ UNCHANGED clean
  BY RowsOfACommit DEF CompleteInv, Commits
<1>1. /\ exposed \subseteq exposed'
      /\ \A t \in Inserted(q) : t.kind = "taxi" /\ IsExposed(q) => Id(t) \in exposed'
  BY DEF Commits
<1> HIDE DEF q
<1>2. \A d \in Rows("description") : d \in Rows("description")'
  BY <1>0, RowsOfTwoTablesStay DEF Rows
<1>3. ASSUME NEW t \in Rows("taxi")' PROVE IsComplete(t)' /\ HasOneVehicle(t)
  <2>1. CASE t \in rows
    <3>1. IsComplete(t) /\ HasOneVehicle(t)
      BY <1>3, <2>1 DEF CompleteInv, Rows
    <3> QED
      BY <1>1, <1>2, <3>1 DEF IsComplete, Id
  <2>2. CASE t \notin rows
    <3>1. t \in Inserted(q) /\ t.kind = "taxi"
      BY <1>0, <1>3, <2>2, DescriptionsAndTaxisStay DEF Rows, q
    <3>2. HasOneVehicle(t)
      BY <3>1, NewTaxiHasOneVehicle DEF q
    <3>3. CASE IsExposed(q)
      BY <1>1, <3>1, <3>2, <3>3 DEF IsComplete, Id
    <3>4. CASE ~IsExposed(q)
      <4>1. \E d \in Rows("description") : d.by = t.by /\ d.refs \subseteq t.refs
        BY <3>1, <3>4, NewTaxi DEF q
      <4> QED
        BY <1>2, <3>2, <4>1 DEF IsComplete
    <3> QED
      BY <3>3, <3>4
  <2> QED
    BY <2>1, <2>2
<1>4. CleaningIsSafe'
  <2> SUFFICES ASSUME clean # None, NEW d \in Rows("description")', NEW t \in Rows("taxi")',
                      Id(d) \in clean.ids, d.by = t.by, d.refs \subseteq t.refs
               PROVE  Id(t) \in exposed'
    BY <1>0 DEF CleaningIsSafe, Id
  <2>1. d \in Rows("description")
    <3>1. WasGiven(Id(d))
      BY <1>0 DEF BaseInv, CleaningHolds
    <3> QED
      BY <1>0, <3>1, DescriptionsAndTaxisStay DEF Rows
  <2>2. CASE t \in rows
    <3>1. t \in Rows("taxi")
      BY <2>2 DEF Rows
    <3> QED
      BY <1>1, <2>1, <3>1 DEF CompleteInv, CleaningIsSafe
  <2>3. CASE t \notin rows
    <3>1. t \in Inserted(q) /\ t.kind = "taxi"
      BY <1>0, <2>3, DescriptionsAndTaxisStay DEF Rows, q
    <3>2. CASE ~IsExposed(q)
      BY <2>1, <3>1, <3>2, NewTaxi DEF q
    <3> QED
      BY <1>1, <3>1, <3>2
  <2> QED
    BY <2>2, <2>3
<1>5. RequestsSawDescription'
  <2> SUFFICES ASSUME NEW v \in Worker, request'[v] # None, request'[v].kind = "taxi"
               PROVE  SawDescription(request[v])'
    BY DEF RequestsSawDescription
  <2>1. request'[v] = request[v]
    BY <1>0 DEF BaseInv, Types
  <2>2. PICK p : p = request[v]
    OBVIOUS
  <2>3. SawDescription(p) /\ \A x \in p.description : WasGiven(x)
    BY <1>0, <2>1, <2>2 DEF CompleteInv, RequestsSawDescription, BaseInv, RequestsHold, Holds
  <2>4. ASSUME NEW d \in Rows("description")', Id(d) \in p.description
        PROVE  d \in Rows("description")
    BY <1>0, <2>3, <2>4, DescriptionsAndTaxisStay DEF Rows
  <2>5. SawDescription(p)'
    BY <2>3, <2>4, SawStays
  <2> QED
    BY <2>1, <2>2, <2>5 DEF SawDescription
<1> QED
  BY <1>3, <1>4, <1>5 DEF CompleteInv, HasOneVehicle

\* Requests stay, and what goes is no description, or one the clean-up listed.
LEMMA CompleteAfterRowsGo ==
    ASSUME CompleteInv, BaseInv', rows' \subseteq rows, UNCHANGED <<request, exposed>>,
           CleaningIsSafe',
           \A d \in Rows("description") :
                d \in rows' \/ (clean # None /\ Id(d) \in clean.ids)
    PROVE  CompleteInv'
<1>1. \A d \in Rows("description")' : d \in Rows("description")
  BY DEF Rows
<1>2. ASSUME NEW t \in Rows("taxi")' PROVE IsComplete(t)' /\ HasOneVehicle(t)
  <2>1. t \in Rows("taxi") /\ IsComplete(t) /\ HasOneVehicle(t)
    BY <1>2 DEF Rows, CompleteInv
  <2>2. CASE Id(t) \in exposed
    BY <2>1, <2>2 DEF IsComplete, Id
  <2>3. CASE Id(t) \notin exposed
    <3>1. PICK d \in Rows("description") : d.by = t.by /\ d.refs \subseteq t.refs
      BY <2>1, <2>3 DEF IsComplete
    <3>2. ~(clean # None /\ Id(d) \in clean.ids)
      BY <2>1, <2>3, <3>1 DEF CompleteInv, CleaningIsSafe
    <3>3. d \in Rows("description")'
      BY <3>2 DEF Rows
    <3> QED
      BY <2>1, <3>1, <3>3 DEF IsComplete
  <2> QED
    BY <2>2, <2>3
<1>3. RequestsSawDescription'
  <2> SUFFICES ASSUME NEW v \in Worker, request[v] # None, request[v].kind = "taxi"
               PROVE  SawDescription(request[v])'
    BY DEF RequestsSawDescription
  <2>1. PICK p : p = request[v] /\ SawDescription(p)
    BY DEF CompleteInv, RequestsSawDescription
  <2>2. SawDescription(p)'
    BY <1>1, <2>1, SawStays
  <2> QED
    BY <2>1, <2>2 DEF SawDescription
<1> QED
  BY <1>2, <1>3 DEF CompleteInv, HasOneVehicle

LEMMA CompleteInvNext == CompleteInv /\ [Next]_vars => CompleteInv'
<1> SUFFICES ASSUME CompleteInv, [Next]_vars PROVE CompleteInv'
  OBVIOUS
<1>0. BaseInv /\ BaseInv'
  BY BaseNext DEF CompleteInv
<1>1. ASSUME NEW w \in Worker, NEW q, UNCHANGED <<rows, clean, exposed>>,
             request' = [request EXCEPT ![w] = q],
             q # None /\ q.kind = "taxi" => SawDescription(q)
      PROVE  CompleteInv'
  <2>1. /\ \A t \in Rows("taxi")' : IsComplete(t)' /\ HasOneVehicle(t)'
        /\ CleaningIsSafe'
    BY <1>1 DEF CompleteInv, IsComplete, HasOneVehicle, CleaningIsSafe, Rows, Id
  <2>2. RequestsSawDescription'
    <3> SUFFICES ASSUME NEW v \in Worker, request'[v] # None, request'[v].kind = "taxi"
                 PROVE  SawDescription(request[v])'
      BY DEF RequestsSawDescription
    <3>1. request'[v] \in {q, request[v]}
      BY <1>0, <1>1 DEF BaseInv, Types
    <3>2. PICK p : p = request'[v] /\ SawDescription(p)
      BY <1>1, <3>1 DEF CompleteInv, RequestsSawDescription
    <3>3. SawDescription(p)'
      BY <1>1, <3>2, SawStays DEF Rows
    <3> QED
      BY <3>2, <3>3 DEF SawDescription
  <2> QED
    BY <1>0, <2>1, <2>2 DEF CompleteInv
<1>2. ASSUME NEW w \in Worker, NEW o \in Operator, Posts(w, o) PROVE CompleteInv'
  <2>1. PICK q \in Request :
            /\ q.by = o
            /\ q.kind = "taxi" => /\ TaxiCanBeMade(o) /\ q.refs = Ids(Parts(o))
                                  /\ q.description = Ids(Description(o))
            /\ request' = [request EXCEPT ![w] = q]
            /\ UNCHANGED <<rows, last, told, clean, exposed>>
    BY <1>0, <1>2, PostsHold
  <2>2. q.kind = "taxi" => SawDescription(q)
    BY <1>0, <2>1, PostSawDescription
  <2> QED
    BY <1>1, <2>1, <2>2
<1>3. ASSUME NEW w \in Worker, Fails(w) PROVE CompleteInv'
  BY <1>1, <1>3 DEF Fails
<1>4. ASSUME NEW w \in Worker, Commits(w) PROVE CompleteInv'
  BY <1>0, <1>4, CommitKeepsComplete
<1>5. ASSUME UNCHANGED <<rows, request, exposed>>, CleaningIsSafe' PROVE CompleteInv'
  BY <1>0, <1>5, CompleteAfterRowsGo DEF Rows
<1>6. ASSUME UNCHANGED <<rows, request, exposed, clean>> PROVE CompleteInv'
  <2>1. CleaningIsSafe'
    BY <1>6 DEF CompleteInv, CleaningIsSafe, Rows, Id
  <2> QED
    BY <1>5, <1>6, <2>1
<1>7. ASSUME NEW o \in Operator, IsRefused(o) PROVE CompleteInv'
  BY <1>6, <1>7 DEF IsRefused
<1>8. \A kind : TableAfter(kind) # None => TableAfter(kind).ids = {}
  BY DEF TableAfter, At
<1>9. CASE CleanBegins \/ DeletionRaises
  <2>1. clean' # None => clean'.ids = {}
    BY <1>9 DEF CleanBegins, DeletionRaises, At
  <2>2. CleaningIsSafe'
    BY <2>1 DEF CleaningIsSafe
  <2> QED
    BY <1>5, <1>9, <2>2 DEF CleanBegins, DeletionRaises
<1>10. CASE ListsOrphans
  <2> DEFINE orphans == {r \in Rows(clean.kind) : IsOrphan(r)}
  <2>1. /\ clean # None /\ UNCHANGED <<rows, request, exposed>>
        /\ clean' = IF Ids(orphans) = {} THEN TableAfter(clean.kind)
                                       ELSE [clean EXCEPT !.ids = Ids(orphans)]
    BY <1>10 DEF ListsOrphans
  <2>2. CleaningIsSafe'
    <3> SUFFICES ASSUME clean' # None, NEW d \in Rows("description"), NEW t \in Rows("taxi"),
                        Id(d) \in clean'.ids, d.refs \subseteq t.refs
                 PROVE  FALSE
      BY <2>1 DEF CleaningIsSafe, Rows, Id
    <3>1. Ids(orphans) # {}
      BY <1>8, <2>1
    <3>2. clean'.ids = Ids(orphans)
      BY <1>0, <2>1, <3>1 DEF BaseInv, Types, Cleaning
    <3>3. PICK r \in orphans : Id(r) = Id(d)
      BY <3>2 DEF Ids
    <3>4. r = d
      BY <1>0, <3>3 DEF Rows, BaseInv, OneRowPerId
    <3> QED
      BY <3>3, <3>4 DEF IsOrphan, Rows
  <2> QED
    BY <1>5, <2>1, <2>2
<1>11. CASE DeletesOrphans
  <2>1. /\ clean # None /\ rows' = {r \in rows : Id(r) \notin clean.ids}
        /\ clean' = TableAfter(clean.kind) /\ UNCHANGED <<request, exposed>>
    BY <1>11 DEF DeletesOrphans
  <2>2. CleaningIsSafe'
    BY <1>8, <2>1 DEF CleaningIsSafe
  <2>3. \A d \in Rows("description") : d \in rows' \/ Id(d) \in clean.ids
    BY <2>1 DEF Rows
  <2> QED
    BY <1>0, <2>1, <2>2, <2>3, CompleteAfterRowsGo
<1>12. ASSUME NEW t \in Rows("taxi"), OldTaxiIsDeleted(t) PROVE CompleteInv'
  <2>1. rows' = rows \ {t} /\ UNCHANGED <<request, exposed, clean>> /\ t.kind = "taxi"
    BY <1>12 DEF OldTaxiIsDeleted, Rows
  <2>2. CleaningIsSafe'
    BY <2>1 DEF CompleteInv, CleaningIsSafe, Rows, Id
  <2>3. \A d \in Rows("description") : d \in rows'
    BY <2>1 DEF Rows
  <2> QED
    BY <1>0, <2>1, <2>2, <2>3, CompleteAfterRowsGo
<1>13. CASE UNCHANGED vars
  BY <1>6, <1>13 DEF vars
<1> QED
  BY <1>2, <1>3, <1>4, <1>7, <1>9, <1>10, <1>11, <1>12, <1>13 DEF Next

\* A taxi has one vehicle, and that vehicle one description by an operator.
LEMMA IsListedOnce ==
    ASSUME CompleteInv, NEW o, NEW p \in taxis_list(o), NEW q \in taxis_list(o), p[1] = q[1]
    PROVE  p = q
<1>1. /\ p = <<p[1], p[2]>> /\ q = <<q[1], q[2]>>
      /\ p[1] \in Rows("taxi")
      /\ p[2] \in Rows("description") /\ q[2] \in Rows("description")
      /\ p[2].by = o /\ q[2].by = o
      /\ p[2].refs \subseteq p[1].refs /\ q[2].refs \subseteq p[1].refs
  BY DEF taxis_list
<1>2. PICK v \in p[1].refs : \A x \in p[1].refs : x[1] = "vehicle" => x = v
  BY <1>1 DEF CompleteInv, HasOneVehicle
<1>3. ASSUME NEW d \in Rows("description"), d.refs \subseteq p[1].refs
      PROVE  d \in rows /\ d.kind = "description" /\ d.key = {v}
  <2>1. d \in rows /\ d.kind = "description"
    BY DEF Rows
  <2>2. d.key = d.refs /\ \E y \in Reference : d.refs = {y}
    BY DEF CompleteInv, BaseInv, DescriptionsAreOfOne
  <2>3. PICK y \in Reference : d.refs = {y}
    BY <2>2
  <2>4. {z[1] : z \in d.refs} = {"vehicle"}
    BY <2>1 DEF CompleteInv, BaseInv, RowsReferToRows, Shape
  <2>5. y[1] = "vehicle" /\ y \in p[1].refs
    BY <1>3, <2>3, <2>4
  <2> QED
    BY <1>2, <2>1, <2>2, <2>3, <2>5
<1>4. p[2] = q[2]
  BY <1>1, <1>3 DEF CompleteInv, BaseInv, OneRowPerKey
<1> QED
  BY <1>1, <1>4

\* An operator's list shows a taxi of his once, unless it was inserted after the
\* clean-up had listed its description, and then at most once: there is one
\* description per vehicle and operator, so what the clean-up lists is what the
\* taxi would have needed.
THEOREM TaxisStayComplete == Spec => []TaxiIsComplete
<1>1. ASSUME CompleteInv, NEW t \in Rows("taxi"), Id(t) \notin exposed
      PROVE  \E p \in taxis_list(t.by) : p[1] = t
  <2>1. PICK d \in Rows("description") : d.by = t.by /\ d.refs \subseteq t.refs
    BY <1>1 DEF CompleteInv, IsComplete
  <2>2. <<t, d>> \in taxis_list(t.by)
    BY <2>1 DEF taxis_list
  <2> QED
    BY <2>2
<1>2. ASSUME CompleteInv, NEW t \in Rows("taxi"),
             NEW p \in taxis_list(t.by), NEW q \in taxis_list(t.by), p[1] = t, q[1] = t
      PROVE  p = q
  BY <1>2, IsListedOnce
<1>3. CompleteInv => TaxiIsComplete
  BY <1>1, <1>2 DEF TaxiIsComplete
<1> QED
  BY <1>3, CompleteInvInit, CompleteInvNext, PTL DEF Spec
===============================================================================
