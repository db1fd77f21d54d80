---------------------------- MODULE RowLocksProofs ----------------------------
(***************************************************************************)
(* Theorems about RowLocks: locks exclude each other, and the transactions *)
(* cut into lock requests still implement TaxiBooking, for every set of    *)
(* transactions. The argument: whoever has a taxi's key found the index    *)
(* without another active hail of the taxi, and nobody can add one before  *)
(* the key is given back. And which deadlocks there can be: none among     *)
(* redistributions and changes, which take their locks in one order.       *)
(***************************************************************************)
EXTENDS RowLocks, FiniteSetTheorems, TLAPS

\* What the proofs need of the constants.
LEMMA Constants ==
    /\ MaxHails \in Nat
    /\ None \notin Taxi \cup Session \cup Hail
BY RowLocksAssumption

\* A transaction is a kind and a hail.
LEMMA Transactions ==
    \A x \in Tx : /\ x[1] \in {"create", "reassign", "change", "send"}
                  /\ x[2] \in Hail
                  /\ x = <<x[1], x[2]>>
<1> SUFFICES ASSUME NEW x \in Tx
             PROVE  /\ x[1] \in {"create", "reassign", "change", "send"}
                    /\ x[2] \in Hail
                    /\ x = <<x[1], x[2]>>
  OBVIOUS
<1>1. x \in {"create", "reassign", "change", "send"} \X Hail
  BY RowLocksAssumption, Zenon
<1> QED
  BY <1>1

\* A lock is of one kind and about one thing.
LEMMA LockKinds ==
    /\ \A h \in Hail : Row(h) \in Lock
    /\ \A t \in Taxi : Description(t) \in Lock /\ IndexKey(t) \in Lock
    /\ \A t, u : IndexKey(t) = IndexKey(u) => t = u
    /\ \A t, u : IndexKey(t) # Row(u) /\ IndexKey(t) # Description(u)
BY DEF Row, Description, IndexKey, Lock

\* The locks a transaction about taxi t may ask for: no key but that of t.
Allowed(t) == {k \in Lock : \A u \in Taxi : k = IndexKey(u) => t = u}

\* Rows and descriptions are allowed, and the key of the taxi itself.
LEMMA AllowedLocks ==
    /\ \A t, h : h \in Hail => Row(h) \in Allowed(t)
    /\ \A t : \A u \in Taxi : Description(u) \in Allowed(t)
    /\ \A t \in Taxi : IndexKey(t) \in Allowed(t)
BY LockKinds DEF Allowed

\* A session's hails come in a sequence of rows that begins.
LEMMA OrdersAreRows ==
    ASSUME NEW H \in SUBSET Hail, H # {}, NEW order \in InIdOrder(H), NEW t
    PROVE  /\ order \in Seq(Allowed(t))
           /\ order # <<>>
           /\ Head(order) \in Allowed(t)
           /\ \A u : Head(order) # IndexKey(u)
           /\ Tail(order) \in Seq(Allowed(t))
<1>1. IsFiniteSet(H)
  <2>1. IsFiniteSet(1..MaxHails)
    BY Constants, FS_Interval
  <2> QED
    BY <2>1, FS_Subset DEF Hail
<1>2. Cardinality(H) \in Nat /\ Cardinality(H) # 0
  BY <1>1, FS_CardinalityType, FS_EmptySet
<1>3. PICK o \in [1..Cardinality(H) -> H] :
         order = [i \in DOMAIN o |-> Row(o[i])]
  BY DEF InIdOrder, AnyOrder, SetToSeqs
<1>4. order \in [1..Cardinality(H) -> Allowed(t)]
  BY <1>3, AllowedLocks
<1>5. order \in Seq(Allowed(t)) /\ Len(order) = Cardinality(H)
  BY <1>2, <1>4
<1>6. order # <<>> /\ Head(order) = Row(o[1])
  BY <1>2, <1>3, <1>5
<1>7. Head(order) \in Allowed(t) /\ Tail(order) \in Seq(Allowed(t))
  BY <1>5, <1>6
<1>8. o[1] \in Hail
  BY <1>2, <1>3
<1>9. \A u : Head(order) # IndexKey(u)
  BY <1>6, <1>8, LockKinds
<1> QED
  BY <1>5, <1>6, <1>7, <1>9

-------------------------------------------------------------------------------

\* x is about to insert a hail, and knows for which taxi.
Inserting(x) ==
    pc[x] = "running" /\ x[1] \in {"create", "reassign"} /\ aim[x] # None

\* A transaction asks for no taxi's key but its own taxi's.
AsksForItsTaxi ==
    \A x \in Tx : /\ todo[x] \in Seq(Allowed(aim[x]))
                  /\ holds[x] \subseteq Allowed(aim[x])

\* Hails that exist have a taxi.
Placed == \A h \in Hail : hail[h] # "absent" => on[h] \in Taxi

\* All but creations run about a hail that exists.
RunsOnARow ==
    \A x \in Tx : pc[x] = "running" /\ x[1] # "create" => hail[x[2]] # "absent"

\* The id of a new hail is nobody else's.
InsertsItsOwn ==
    \A x \in Tx : Inserting(x) =>
        /\ new[x] \in Hail
        /\ hail[new[x]] = "absent"
        /\ \A y \in Tx : Inserting(y) /\ new[y] = new[x] => y = x

\* Changes and sends are about the taxi of their hail.
StaysWithItsHail ==
    \A x \in Tx : pc[x] = "running" /\ x[1] \in {"change", "send"} =>
        aim[x] = on[x[2]] /\ new[x] = x[2]

\* Nobody inserts without the key.
TakesTheKey ==
    \A x \in Tx : Inserting(x) =>
        \/ IndexKey(aim[x]) \in holds[x]
        \/ todo[x] = <<IndexKey(aim[x])>>
        \/ todo[x] = <<IndexKey(aim[x]), Description(aim[x])>>

\* Who has a taxi's key may make its hail the taxi's active one.
KeysAreGood ==
    \A x \in Tx, t \in Taxi : IndexKey(t) \in holds[x] => KeyIsUnused(t, new[x])

TxInv ==
    /\ TypeOK
    /\ AsksForItsTaxi
    /\ Placed
    /\ RunsOnARow
    /\ InsertsItsOwn
    /\ StaysWithItsHail
    /\ TakesTheKey
    /\ KeysAreGood

\* What is allowed are locks, alone and in a sequence.
LEMMA AllowedAreLocks == \A t : Allowed(t) \subseteq Lock /\ Seq(Allowed(t)) \subseteq Seq(Lock)
BY DEF Allowed

\* A transaction that begins, with locks that were free and no key among them.
LEMMA BeginsKeeps ==
    ASSUME TxInv,
           NEW x \in Tx, NEW t \in Taxi \cup {None}, NEW got, NEW need,
           Begins(x, t, got, need),
           got \in SUBSET Allowed(t),
           \A u \in Taxi : IndexKey(u) \notin got,
           need \in Seq(Allowed(t)),
           x[1] = "create" => need = <<IndexKey(t)>> /\ IsUnused(x[2]),
           x[1] = "reassign" => t = None,
           x[1] \in {"change", "send"} => t = on[x[2]],
           x[1] # "create" => hail[x[2]] # "absent"
    PROVE  TxInv'
<1> USE DEF TxInv
<1>1. /\ x \in Tx /\ pc[x] = "idle"
      /\ pc' = [pc EXCEPT ![x] = "running"]
      /\ aim' = [aim EXCEPT ![x] = t]
      /\ new' = [new EXCEPT ![x] = IF x[1] = "reassign" THEN None ELSE x[2]]
      /\ holds' = [holds EXCEPT ![x] = got]
      /\ todo' = [todo EXCEPT ![x] = need]
      /\ hail' = hail /\ on' = on /\ session' = session /\ desc' = desc
      /\ \A y \in Tx \ {x} : got \cap holds[y] = {}
  BY DEF Begins, rows, Free, Has
<1>2. x[2] \in Hail
  BY <1>1, Transactions
<1>t. /\ hail \in [Hail -> Reached \cup {"absent", "refused", "closed"}]
      /\ on \in [Hail -> Taxi \cup {None}]
      /\ session \in [Hail -> Session \cup {None}]
      /\ desc \in [Taxi -> {"free", "not free"}]
      /\ pc \in [Tx -> {"idle", "running", "done", "failed"}]
      /\ aim \in [Tx -> Taxi \cup {None}]
      /\ new \in [Tx -> Hail \cup {None}]
      /\ todo \in [Tx -> Seq(Lock)]
      /\ holds \in [Tx -> SUBSET Lock]
      /\ \A y \in Tx : holds[y] # {} => pc[y] = "running"
      /\ \A y, z \in Tx : y # z => holds[y] \cap holds[z] = {}
  BY DEF TypeOK
<1>d. /\ DOMAIN pc = Tx /\ DOMAIN aim = Tx /\ DOMAIN new = Tx
      /\ DOMAIN todo = Tx /\ DOMAIN holds = Tx
  BY <1>t
<1>x. /\ pc'[x] = "running" /\ aim'[x] = t /\ todo'[x] = need
      /\ holds'[x] = got
      /\ x[1] # "reassign" => new'[x] = x[2]
  BY <1>1, <1>d
<1>y. \A y \in Tx \ {x} : /\ pc'[y] = pc[y] /\ aim'[y] = aim[y]
                          /\ new'[y] = new[y] /\ todo'[y] = todo[y]
                          /\ holds'[y] = holds[y]
  BY <1>1, <1>d
<1>3. TypeOK'
  <2>1. need \in Seq(Lock) /\ got \in SUBSET Lock
    BY AllowedAreLocks
  <2>2. ASSUME NEW y \in Tx, NEW z \in Tx, y # z
        PROVE  holds'[y] \cap holds'[z] = {}
    <3>1. holds[y] \cap holds[z] = {}
      BY <1>t, <2>2
    <3>2. CASE y = x
      BY <1>1, <1>t, <2>2, <3>2
    <3>3. CASE z = x
      BY <1>1, <1>t, <2>2, <3>3
    <3>4. CASE y # x /\ z # x
      BY <1>1, <1>t, <3>1, <3>4
    <3> QED
      BY <3>2, <3>3, <3>4
  <2> QED
    <3>1. /\ pc' \in [Tx -> {"idle", "running", "done", "failed"}]
          /\ aim' \in [Tx -> Taxi \cup {None}]
          /\ new' \in [Tx -> Hail \cup {None}]
          /\ todo' \in [Tx -> Seq(Lock)]
          /\ holds' \in [Tx -> SUBSET Lock]
      BY <1>1, <1>2, <1>t, <2>1
    <3>2. \A y \in Tx : holds'[y] # {} => pc'[y] = "running"
      BY <1>t, <1>x, <1>y
    <3> QED
      BY <1>1, <1>t, <2>2, <3>1, <3>2 DEF TypeOK
<1>r. UNCHANGED <<hail, on>>
  BY <1>1
<1> HIDE DEF TxInv
<1>4. AsksForItsTaxi'
  <2>1. AsksForItsTaxi
    BY DEF TxInv
  <2> SUFFICES ASSUME NEW y \in Tx
               PROVE  /\ todo'[y] \in Seq(Allowed(aim'[y]))
                      /\ holds'[y] \subseteq Allowed(aim'[y])
    BY DEF AsksForItsTaxi, Allowed
  <2>2. CASE y = x
    BY <1>x, <2>2
  <2>3. CASE y # x
    BY <1>y, <2>1, <2>3 DEF AsksForItsTaxi
  <2> QED
    BY <2>2, <2>3
<1>5. Placed' /\ RunsOnARow'
  <2>1. Placed /\ RunsOnARow
    BY DEF TxInv
  <2> QED
    BY <1>x, <1>y, <1>r, <2>1 DEF Placed, RunsOnARow
<1>6. \A y \in Tx \ {x} : Inserting(y)' <=> Inserting(y)
  BY <1>y DEF Inserting
<1>7. Inserting(x)' => /\ new'[x] = x[2] /\ need = <<IndexKey(t)>>
                       /\ IsUnused(x[2])
  BY <1>x DEF Inserting
<1>8. InsertsItsOwn'
  <2>1. InsertsItsOwn
    BY DEF TxInv
  <2> QED
    BY <1>2, <1>6, <1>7, <1>y, <1>r, <2>1 DEF InsertsItsOwn, IsUnused
<1>9. StaysWithItsHail'
  <2>1. StaysWithItsHail
    BY DEF TxInv
  <2> QED
    BY <1>x, <1>y, <1>r, <2>1 DEF StaysWithItsHail
<1>10. TakesTheKey'
  <2>1. TakesTheKey
    BY DEF TxInv
  <2> QED
    BY <1>6, <1>7, <1>x, <1>y, <2>1 DEF TakesTheKey
<1>11. KeysAreGood'
  <2>1. KeysAreGood
    BY DEF TxInv
  <2>2. ASSUME NEW y \in Tx, NEW u \in Taxi, IndexKey(u) \in holds'[y]
        PROVE  KeyIsUnused(u, new[y])'
    <3>1. y # x
      BY <1>x, <2>2
    <3>2. KeyIsUnused(u, new[y]) /\ new'[y] = new[y]
      BY <1>y, <2>1, <2>2, <3>1 DEF KeysAreGood
    <3> QED
      BY <1>r, <3>2 DEF KeyIsUnused, IsActive
  <2> QED
    BY <2>2 DEF KeysAreGood
<1> QED
  BY <1>3, <1>4, <1>5, <1>8, <1>9, <1>10, <1>11 DEF TxInv

RowTypes ==
    /\ hail \in [Hail -> Reached \cup {"absent", "refused", "closed"}]
    /\ on \in [Hail -> Taxi \cup {None}]
    /\ session \in [Hail -> Session \cup {None}]
    /\ desc \in [Taxi -> {"free", "not free"}]

\* What the end of transaction x may do to the rows: to one hail, which x has
\* inserted, or which was there and stays on its taxi; and the hail becomes
\* active only if x has the key.
Commit(x) ==
    \E g \in Hail :
        /\ \A h \in Hail \ {g} : hail'[h] = hail[h] /\ on'[h] = on[h]
        /\ hail'[g] # "absent" => on'[g] \in Taxi
        /\ hail[g] # "absent" => hail'[g] # "absent" /\ on'[g] = on[g]
        /\ hail[g] = "absent" /\ hail'[g] # "absent"
              => Inserting(x) /\ new[x] = g
        /\ hail'[g] \in Reached =>
              \/ hail[g] \in Reached
              \/ IndexKey(on'[g]) \in holds[x] /\ new[x] = g

\* A transaction that ends.
LEMMA EndsKeeps ==
    ASSUME TxInv, NEW x \in Tx, NEW how \in {"idle", "done", "failed"},
           Ends(x, how), RowTypes', Commit(x)
    PROVE  TxInv'
<1>1. PICK g \in Hail :
        /\ \A h \in Hail \ {g} : hail'[h] = hail[h] /\ on'[h] = on[h]
        /\ hail'[g] # "absent" => on'[g] \in Taxi
        /\ hail[g] # "absent" => hail'[g] # "absent" /\ on'[g] = on[g]
        /\ hail[g] = "absent" /\ hail'[g] # "absent"
              => Inserting(x) /\ new[x] = g
        /\ hail'[g] \in Reached =>
              \/ hail[g] \in Reached
              \/ IndexKey(on'[g]) \in holds[x] /\ new[x] = g
  BY DEF Commit
<1>t. /\ pc \in [Tx -> {"idle", "running", "done", "failed"}]
      /\ aim \in [Tx -> Taxi \cup {None}]
      /\ new \in [Tx -> Hail \cup {None}]
      /\ todo \in [Tx -> Seq(Lock)]
      /\ holds \in [Tx -> SUBSET Lock]
      /\ \A y \in Tx : holds[y] # {} => pc[y] = "running"
      /\ \A y, z \in Tx : y # z => holds[y] \cap holds[z] = {}
  BY DEF TxInv, TypeOK
<1>x. /\ pc'[x] = how /\ aim'[x] = None /\ todo'[x] = <<>>
      /\ holds'[x] = {} /\ new'[x] = None
  BY <1>t DEF Ends
<1>y. \A y \in Tx \ {x} : /\ pc'[y] = pc[y] /\ aim'[y] = aim[y]
                          /\ new'[y] = new[y] /\ todo'[y] = todo[y]
                          /\ holds'[y] = holds[y]
  BY <1>t DEF Ends
<1>2. TypeOK'
  <2>1. \A y, z \in Tx : y # z => holds'[y] \cap holds'[z] = {}
    BY <1>t, <1>x, <1>y
  <2>2. \A y \in Tx : holds'[y] # {} => pc'[y] = "running"
    BY <1>t, <1>x, <1>y
  <2>3. /\ pc' \in [Tx -> {"idle", "running", "done", "failed"}]
        /\ aim' \in [Tx -> Taxi \cup {None}]
        /\ new' \in [Tx -> Hail \cup {None}]
        /\ todo' \in [Tx -> Seq(Lock)]
        /\ holds' \in [Tx -> SUBSET Lock]
    BY <1>t DEF Ends
  <2> QED
    BY <2>1, <2>2, <2>3 DEF TypeOK, RowTypes
<1>3. AsksForItsTaxi'
  <2>1. AsksForItsTaxi
    BY DEF TxInv
  <2> SUFFICES ASSUME NEW y \in Tx
               PROVE  /\ todo'[y] \in Seq(Allowed(aim'[y]))
                      /\ holds'[y] \subseteq Allowed(aim'[y])
    BY DEF AsksForItsTaxi, Allowed
  <2>2. CASE y = x
    <3>1. <<>> \in Seq(Allowed(None))
      OBVIOUS
    <3> QED
      BY <1>x, <2>2, <3>1
  <2>3. CASE y # x
    BY <1>y, <2>1, <2>3 DEF AsksForItsTaxi
  <2> QED
    BY <2>2, <2>3
<1>4. Placed'
  BY <1>1 DEF TxInv, Placed
<1>5. RunsOnARow'
  <2>1. RunsOnARow
    BY DEF TxInv
  <2>2. \A y \in Tx : y[2] \in Hail
    BY Transactions
  <2> QED
    BY <1>1, <1>x, <1>y, <2>1, <2>2 DEF RunsOnARow
<1>6. ~Inserting(x)' /\ \A y \in Tx \ {x} : Inserting(y)' <=> Inserting(y)
  BY <1>x, <1>y DEF Inserting
<1>7. InsertsItsOwn'
  <2>1. InsertsItsOwn
    BY DEF TxInv
  <2>2. ASSUME NEW y \in Tx, Inserting(y)'
        PROVE  hail'[new'[y]] = "absent"
    <3>1. y # x /\ Inserting(y) /\ new'[y] = new[y]
      BY <1>6, <1>y, <2>2
    <3>2. new[y] \in Hail /\ hail[new[y]] = "absent"
      BY <2>1, <3>1 DEF InsertsItsOwn
    <3>3. ~(Inserting(x) /\ new[x] = new[y])
      BY <2>1, <3>1 DEF InsertsItsOwn
    <3> QED
      BY <1>1, <3>1, <3>2, <3>3
  <2> QED
    BY <1>6, <1>y, <2>1, <2>2 DEF InsertsItsOwn
<1>8. StaysWithItsHail'
  <2>1. StaysWithItsHail /\ RunsOnARow
    BY DEF TxInv
  <2>2. ASSUME NEW y \in Tx, pc'[y] = "running", y[1] \in {"change", "send"}
        PROVE  aim'[y] = on'[y[2]] /\ new'[y] = y[2]
    <3>1. y # x
      BY <1>x, <2>2
    <3>2. /\ pc[y] = "running" /\ aim'[y] = on[y[2]] /\ new'[y] = y[2]
          /\ hail[y[2]] # "absent" /\ y[2] \in Hail
      BY <1>y, <2>1, <2>2, <3>1, Transactions DEF StaysWithItsHail, RunsOnARow
    <3> QED
      BY <1>1, <3>2
  <2> QED
    BY <2>2 DEF StaysWithItsHail
<1>9. TakesTheKey'
  BY <1>6, <1>y DEF TxInv, TakesTheKey
<1>10. KeysAreGood'
  <2>1. KeysAreGood
    BY DEF TxInv
  <2>2. ASSUME NEW y \in Tx, NEW u \in Taxi, IndexKey(u) \in holds'[y],
               NEW h \in Hail \ {new'[y]}, IsActive(h)'
        PROVE  on'[h] # u
    <3>1. y # x /\ IndexKey(u) \in holds[y] /\ new'[y] = new[y]
      BY <1>x, <1>y, <2>2
    <3>2. KeyIsUnused(u, new[y])
      BY <2>1, <3>1 DEF KeysAreGood
    <3>3. IndexKey(u) \notin holds[x]
      BY <1>t, <3>1
    <3>4. CASE IsActive(h)
      <4>1. on'[h] = on[h]
        BY <1>1, <3>4 DEF IsActive, Reached
      <4> QED
        BY <2>2, <3>1, <3>2, <3>4, <4>1 DEF KeyIsUnused
    <3>5. CASE ~IsActive(h)
      BY <1>1, <2>2, <3>3, <3>5 DEF IsActive
    <3> QED
      BY <3>4, <3>5
  <2> QED
    BY <2>2 DEF KeysAreGood, KeyIsUnused
<1> QED
  BY <1>2, <1>3, <1>4, <1>5, <1>7, <1>8, <1>9, <1>10 DEF TxInv

\* A sequence that is not empty has a first element and a rest.
LEMMA HeadAndTail ==
    ASSUME NEW S, NEW s \in Seq(S), s # <<>>
    PROVE  Head(s) \in S /\ Tail(s) \in Seq(S)
OBVIOUS

\* A transaction that gets the lock it waits for.
LEMMA AcquiresKeeps ==
    ASSUME TxInv, NEW x \in Tx, Acquires(x)
    PROVE  TxInv'
<1> DEFINE r == Head(todo[x])
<1>t. /\ pc \in [Tx -> {"idle", "running", "done", "failed"}]
      /\ aim \in [Tx -> Taxi \cup {None}]
      /\ todo \in [Tx -> Seq(Lock)]
      /\ holds \in [Tx -> SUBSET Lock]
      /\ \A y \in Tx : holds[y] # {} => pc[y] = "running"
      /\ \A y, z \in Tx : y # z => holds[y] \cap holds[z] = {}
  BY DEF TxInv, TypeOK
<1>1. /\ pc[x] = "running" /\ todo[x] # <<>>
      /\ \A y \in Tx \ {x} : r \notin holds[y]
      /\ r = IndexKey(aim[x]) => KeyIsUnused(aim[x], new[x])
  BY DEF Acquires, Waiting, Free, Has
<1>u. UNCHANGED <<hail, on, session, desc, pc, aim, new>>
  BY DEF Acquires, rows
<1>x. holds'[x] = holds[x] \cup {r} /\ todo'[x] = Tail(todo[x])
  BY <1>t DEF Acquires
<1>y. \A y \in Tx \ {x} : todo'[y] = todo[y] /\ holds'[y] = holds[y]
  BY <1>t DEF Acquires
<1>2. /\ r \in Allowed(aim[x])
      /\ Tail(todo[x]) \in Seq(Allowed(aim[x]))
  <2>1. todo[x] \in Seq(Allowed(aim[x]))
    BY DEF TxInv, AsksForItsTaxi
  <2> QED
    BY <1>1, <2>1, HeadAndTail
<1>3. TypeOK'
  <2>1. r \in Lock /\ Tail(todo[x]) \in Seq(Lock)
    BY <1>2, AllowedAreLocks
  <2>2. todo' \in [Tx -> Seq(Lock)] /\ holds' \in [Tx -> SUBSET Lock]
    BY <1>t, <2>1 DEF Acquires
  <2>3. \A y \in Tx : holds'[y] # {} => pc'[y] = "running"
    BY <1>t, <1>1, <1>u, <1>y
  <2>4. \A y, z \in Tx : y # z => holds'[y] \cap holds'[z] = {}
    <3>1. \A y \in Tx \ {x} : holds'[x] \cap holds'[y] = {}
      BY <1>t, <1>1, <1>x, <1>y
    <3>2. \A y, z \in Tx \ {x} : y # z => holds'[y] \cap holds'[z] = {}
      BY <1>t, <1>y
    <3> QED
      BY <3>1, <3>2
  <2> QED
    BY <1>u, <2>2, <2>3, <2>4 DEF TypeOK, TxInv
<1>4. AsksForItsTaxi'
  <2>1. AsksForItsTaxi
    BY DEF TxInv
  <2> SUFFICES ASSUME NEW y \in Tx
               PROVE  /\ todo'[y] \in Seq(Allowed(aim[y]))
                      /\ holds'[y] \subseteq Allowed(aim[y])
    BY <1>u DEF AsksForItsTaxi, Allowed
  <2>2. CASE y = x
    BY <1>x, <1>2, <2>1, <2>2 DEF AsksForItsTaxi
  <2>3. CASE y # x
    BY <1>y, <2>1, <2>3 DEF AsksForItsTaxi
  <2> QED
    BY <2>2, <2>3
<1>5. Placed' /\ RunsOnARow' /\ StaysWithItsHail'
  BY <1>u DEF TxInv, Placed, RunsOnARow, StaysWithItsHail
<1>6. InsertsItsOwn'
  BY <1>u DEF TxInv, InsertsItsOwn, Inserting
<1>7. TakesTheKey'
  <2> SUFFICES ASSUME NEW y \in Tx, Inserting(y)
               PROVE  \/ IndexKey(aim[y]) \in holds'[y]
                      \/ todo'[y] = <<IndexKey(aim[y])>>
                      \/ todo'[y] = <<IndexKey(aim[y]), Description(aim[y])>>
    BY <1>u DEF TakesTheKey, Inserting
  <2>1. \/ IndexKey(aim[y]) \in holds[y]
        \/ todo[y] = <<IndexKey(aim[y])>>
        \/ todo[y] = <<IndexKey(aim[y]), Description(aim[y])>>
    BY DEF TxInv, TakesTheKey
  <2>2. CASE y = x
    BY <1>x, <2>1, <2>2
  <2>3. CASE y # x
    BY <1>y, <2>1, <2>3
  <2> QED
    BY <2>2, <2>3
<1>8. KeysAreGood'
  <2>1. ASSUME NEW y \in Tx, NEW u \in Taxi, IndexKey(u) \in holds'[y]
        PROVE  KeyIsUnused(u, new[y])
    <3>1. CASE IndexKey(u) \in holds[y]
      BY <3>1 DEF TxInv, KeysAreGood
    <3>2. CASE IndexKey(u) \notin holds[y]
      <4>1. y = x /\ r = IndexKey(u)
        BY <1>x, <1>y, <2>1, <3>2
      <4>2. aim[x] = u
        BY <1>2, <4>1 DEF Allowed
      <4> QED
        BY <1>1, <4>1, <4>2
    <3> QED
      BY <3>1, <3>2
  <2> QED
    BY <1>u, <2>1 DEF KeysAreGood, KeyIsUnused, IsActive
<1> QED
  BY <1>3, <1>4, <1>5, <1>6, <1>7, <1>8 DEF TxInv

\* A reassignment that chooses taxi t and the id g.
LEMMA ChoosesKeeps ==
    ASSUME TxInv, NEW h \in Hail, NEW g \in Hail, NEW t \in Taxi,
           ReassignChooses(h, t, g)
    PROVE  TxInv'
<1> DEFINE x == <<"reassign", h>>
<1>t. /\ aim \in [Tx -> Taxi \cup {None}]
      /\ new \in [Tx -> Hail \cup {None}]
      /\ todo \in [Tx -> Seq(Lock)]
      /\ holds \in [Tx -> SUBSET Lock]
  BY DEF TxInv, TypeOK
<1>1. /\ x \in Tx /\ pc[x] = "running" /\ aim[x] = None /\ IsUnused(g)
      /\ x[1] = "reassign"
  BY DEF ReassignChooses
<1>u. UNCHANGED <<hail, on, session, desc, pc, holds>>
  BY DEF ReassignChooses, rows
<1>x. /\ aim'[x] = t /\ new'[x] = g
      /\ todo'[x] = <<IndexKey(t), Description(t)>>
  BY <1>1, <1>t DEF ReassignChooses
<1>y. \A y \in Tx \ {x} : /\ aim'[y] = aim[y] /\ new'[y] = new[y]
                          /\ todo'[y] = todo[y]
  BY <1>1, <1>t DEF ReassignChooses
<1>2. \A u \in Taxi : IndexKey(u) \notin holds[x]
  <2>1. holds[x] \subseteq Allowed(None)
    BY <1>1 DEF TxInv, AsksForItsTaxi
  <2> QED
    BY <2>1, Constants DEF Allowed
<1>3. IndexKey(t) \in Allowed(t) /\ Description(t) \in Allowed(t)
  BY AllowedLocks
<1>4. TypeOK'
  <2>1. <<IndexKey(t), Description(t)>> \in Seq(Lock)
    BY LockKinds
  <2>2. /\ aim' \in [Tx -> Taxi \cup {None}]
        /\ new' \in [Tx -> Hail \cup {None}]
        /\ todo' \in [Tx -> Seq(Lock)]
    BY <1>t, <2>1 DEF ReassignChooses
  <2> QED
    BY <1>u, <2>2 DEF TypeOK, TxInv
<1>5. AsksForItsTaxi'
  <2>1. AsksForItsTaxi
    BY DEF TxInv
  <2> SUFFICES ASSUME NEW y \in Tx
               PROVE  /\ todo'[y] \in Seq(Allowed(aim'[y]))
                      /\ holds'[y] \subseteq Allowed(aim'[y])
    BY DEF AsksForItsTaxi, Allowed
  <2>2. CASE y = x
    <3>1. <<IndexKey(t), Description(t)>> \in Seq(Allowed(t))
      BY <1>3
    <3>2. holds[x] \subseteq Allowed(t)
      BY <1>2, <1>t, <1>1 DEF Allowed
    <3> QED
      BY <1>x, <1>u, <2>2, <3>1, <3>2
  <2>3. CASE y # x
    BY <1>y, <1>u, <2>1, <2>3 DEF AsksForItsTaxi
  <2> QED
    BY <2>2, <2>3
<1>6. Placed' /\ RunsOnARow'
  BY <1>u DEF TxInv, Placed, RunsOnARow
<1>7. \A y \in Tx \ {x} : Inserting(y)' <=> Inserting(y)
  BY <1>y, <1>u DEF Inserting
<1>8. InsertsItsOwn'
  <2>1. InsertsItsOwn
    BY DEF TxInv
  <2> QED
    BY <1>1, <1>7, <1>x, <1>y, <1>u, <2>1 DEF InsertsItsOwn, IsUnused
<1>9. StaysWithItsHail'
  <2>1. StaysWithItsHail
    BY DEF TxInv
  <2> QED
    BY <1>1, <1>y, <1>u, <2>1 DEF StaysWithItsHail
<1>10. TakesTheKey'
  <2>1. TakesTheKey
    BY DEF TxInv
  <2> QED
    BY <1>7, <1>x, <1>y, <1>u, <2>1 DEF TakesTheKey
<1>11. KeysAreGood'
  <2>1. KeysAreGood
    BY DEF TxInv
  <2>2. ASSUME NEW y \in Tx, NEW u \in Taxi, IndexKey(u) \in holds'[y]
        PROVE  KeyIsUnused(u, new[y])'
    <3>1. y # x /\ IndexKey(u) \in holds[y]
      BY <1>2, <1>u, <2>2
    <3>2. KeyIsUnused(u, new[y]) /\ new'[y] = new[y]
      BY <1>y, <2>1, <3>1 DEF KeysAreGood
    <3> QED
      BY <1>u, <3>2 DEF KeyIsUnused, IsActive
  <2> QED
    BY <2>2 DEF KeysAreGood
<1> QED
  BY <1>4, <1>5, <1>6, <1>8, <1>9, <1>10, <1>11 DEF TxInv

\* A step in which no transaction and no hail takes part.
LEMMA OthersKeep ==
    ASSUME TxInv, desc' \in [Taxi -> {"free", "not free"}],
           UNCHANGED <<hail, on, session, pc, aim, new, todo, holds>>
    PROVE  TxInv'
<1>1. TypeOK'
  BY DEF TxInv, TypeOK
<1>2. AsksForItsTaxi'
  BY DEF TxInv, AsksForItsTaxi, Allowed
<1>3. Placed' /\ RunsOnARow' /\ InsertsItsOwn' /\ StaysWithItsHail'
  BY DEF TxInv, Placed, RunsOnARow, InsertsItsOwn, StaysWithItsHail, Inserting
<1>4. TakesTheKey' /\ KeysAreGood'
  BY DEF TxInv, TakesTheKey, KeysAreGood, Inserting, KeyIsUnused, IsActive
<1> QED
  BY <1>1, <1>2, <1>3, <1>4 DEF TxInv

-------------------------------------------------------------------------------
\* The actions

\* A transaction may end and leave the rows alone.
LEMMA EndsWithoutChange ==
    ASSUME TxInv, NEW x \in Tx, UNCHANGED rows
    PROVE  RowTypes' /\ Commit(x)
<1>1. RowTypes'
  BY DEF TxInv, TypeOK, RowTypes, rows
<1>2. Commit(x)
  BY Transactions DEF TxInv, Placed, Commit, rows
<1> QED
  BY <1>1, <1>2

\* The end of a creation or a reassignment: the key is there, since nothing is
\* left to do.
LEMMA InsertIsCommit ==
    ASSUME TxInv, NEW x \in Tx, NEW s \in Session, InsertCommits(x, s)
    PROVE  RowTypes' /\ Commit(x)
<1>1. /\ Inserting(x) /\ todo[x] = <<>>
      /\ hail' = [hail EXCEPT ![new[x]] = "received"]
      /\ on' = [on EXCEPT ![new[x]] = aim[x]]
      /\ session' = [session EXCEPT ![new[x]] = s]
      /\ desc' = [desc EXCEPT ![aim[x]] = "not free"]
  BY DEF InsertCommits, Ready, Inserting
<1>2. new[x] \in Hail /\ hail[new[x]] = "absent"
  BY <1>1 DEF TxInv, InsertsItsOwn
<1>3. aim[x] \in Taxi
  BY <1>1 DEF TxInv, TypeOK, Inserting
<1>4. IndexKey(aim[x]) \in holds[x]
  <2>1. \A a, b : <<>> # <<a>> /\ <<>> # <<a, b>>
    OBVIOUS
  <2>2. TakesTheKey
    BY DEF TxInv
  <2> QED
    BY <1>1, <2>1, <2>2 DEF TakesTheKey
<1>5. RowTypes'
  BY <1>1, <1>2, <1>3 DEF TxInv, TypeOK, RowTypes, Reached
<1>6. /\ \A h \in Hail \ {new[x]} : hail'[h] = hail[h] /\ on'[h] = on[h]
      /\ on'[new[x]] = aim[x]
  BY <1>1, <1>2 DEF TxInv, TypeOK
<1> QED
  BY <1>1, <1>2, <1>3, <1>4, <1>5, <1>6 DEF Commit

\* The end of a change: no hail becomes active.
LEMMA ChangeIsCommit ==
    ASSUME TxInv, NEW h \in Hail, NEW st, NEW d, ChangeCommits(h, st, d)
    PROVE  RowTypes' /\ Commit(<<"change", h>>)
<1> DEFINE x == <<"change", h>>
<1>1. /\ x \in Tx /\ pc[x] = "running"
      /\ <<hail[h], st, d>> \in Changes
      /\ hail' = [hail EXCEPT ![h] = st]
      /\ desc' = [desc EXCEPT ![on[h]] = d]
      /\ UNCHANGED <<on, session>>
  BY DEF ChangeCommits, Ready
<1>2. /\ st \in Reached \cup {"refused", "closed"}
      /\ d \in {"free", "not free"}
      /\ st \in Reached => hail[h] \in Reached
      /\ st # "absent" /\ hail[h] # "absent"
  BY <1>1 DEF Changes, Reached
<1>3. on[h] \in Taxi
  BY <1>2 DEF TxInv, Placed
<1>4. RowTypes'
  BY <1>1, <1>2, <1>3 DEF TxInv, TypeOK, RowTypes
<1>5. hail'[h] = st /\ \A g \in Hail \ {h} : hail'[g] = hail[g]
  BY <1>1 DEF TxInv, TypeOK
<1> QED
  BY <1>1, <1>2, <1>3, <1>4, <1>5 DEF Commit

\* The end of a send: it revives a hail only with the key.
LEMMA SendIsCommit ==
    ASSUME TxInv, NEW h \in Hail, SendCommits(h)
    PROVE  RowTypes' /\ Commit(<<"send", h>>)
<1> DEFINE x == <<"send", h>>
           st == IF IndexKey(aim[x]) \in holds[x] THEN "reached" ELSE "closed"
<1>1. /\ x \in Tx /\ pc[x] = "running" /\ x[1] = "send" /\ x[2] = h
      /\ hail' = [hail EXCEPT ![h] = st]
      /\ desc' = IF Description(aim[x]) \in holds[x]
                 THEN [desc EXCEPT ![aim[x]] = "free"]
                 ELSE desc
      /\ UNCHANGED <<on, session>>
  BY DEF SendCommits, Ready
<1>2. aim[x] = on[h] /\ new[x] = h /\ hail[h] # "absent"
  BY <1>1 DEF TxInv, StaysWithItsHail, RunsOnARow
<1>3. on[h] \in Taxi
  BY <1>2 DEF TxInv, Placed
<1>4. RowTypes'
  BY <1>1, <1>2, <1>3 DEF TxInv, TypeOK, RowTypes, Reached
<1>5. hail'[h] = st /\ \A g \in Hail \ {h} : hail'[g] = hail[g]
  BY <1>1 DEF TxInv, TypeOK
<1>6. st # "absent" /\ (st \in Reached => IndexKey(aim[x]) \in holds[x])
  BY DEF Reached
<1> QED
  BY <1>1, <1>2, <1>3, <1>4, <1>5, <1>6 DEF Commit

\* Some transaction ends in this step.
SomeEnds ==
    \E x \in Tx, how \in {"idle", "done", "failed"} :
        Ends(x, how) /\ RowTypes' /\ Commit(x)

\* No hail changes in this step, and the invariant holds after it.
Keeps == UNCHANGED <<hail, on>> /\ TxInv'

\* Each step is of one of two kinds.
LEMMA StepsEndOrKeep ==
    ASSUME TxInv, [Next]_vars
    PROVE  SomeEnds \/ Keeps
<1>1. ASSUME NEW h \in Hail, NEW t \in Taxi, CreateBegins(h, t)
      PROVE  Keeps
  <2> DEFINE x == <<"create", h>>
  <2>1. /\ x \in Tx /\ x[1] = "create" /\ x[2] = h /\ IsUnused(h)
        /\ Begins(x, t, {Description(t)}, <<IndexKey(t)>>)
        /\ UNCHANGED <<hail, on>>
    BY <1>1 DEF CreateBegins, Begins, rows
  <2>2. /\ {Description(t)} \in SUBSET Allowed(t)
        /\ \A u \in Taxi : IndexKey(u) \notin {Description(t)}
        /\ <<IndexKey(t)>> \in Seq(Allowed(t))
    BY AllowedLocks, LockKinds
  <2> HIDE DEF x
  <2>3. TxInv'
    BY <2>1, <2>2, BeginsKeeps
  <2> QED
    BY <2>1, <2>3 DEF Keeps
<1>2. ASSUME NEW h \in Hail, ReassignBegins(h)
      PROVE  Keeps
  <2> DEFINE x == <<"reassign", h>>
             H == SessionHails(session[h])
  <2>1. PICK order \in InIdOrder(H) :
           Begins(x, None, {Head(order)}, Tail(order))
    BY <1>2 DEF ReassignBegins
  <2>2. /\ x \in Tx /\ x[1] = "reassign" /\ x[2] = h /\ hail[h] # "absent"
        /\ UNCHANGED <<hail, on>>
    BY <1>2, <2>1 DEF ReassignBegins, Begins, rows
  <2>3. H \in SUBSET Hail /\ H # {}
    BY <2>2 DEF SessionHails
  <2>4. /\ {Head(order)} \in SUBSET Allowed(None)
        /\ \A u \in Taxi : IndexKey(u) \notin {Head(order)}
        /\ Tail(order) \in Seq(Allowed(None))
    BY <2>3, OrdersAreRows
  <2> HIDE DEF x
  <2>5. TxInv'
    BY <2>1, <2>2, <2>4, BeginsKeeps
  <2> QED
    BY <2>2, <2>5 DEF Keeps
<1>3. ASSUME NEW h \in Hail, ChangeBegins(h)
      PROVE  Keeps
  <2> DEFINE x == <<"change", h>>
  <2>1. /\ x \in Tx /\ x[1] = "change" /\ x[2] = h /\ hail[h] # "absent"
        /\ Begins(x, on[h], {Row(h)}, <<Description(on[h])>>)
        /\ UNCHANGED <<hail, on>>
    BY <1>3 DEF ChangeBegins, Begins, rows
  <2>2. on[h] \in Taxi
    BY <2>1 DEF TxInv, Placed
  <2>3. /\ {Row(h)} \in SUBSET Allowed(on[h])
        /\ \A u \in Taxi : IndexKey(u) \notin {Row(h)}
        /\ <<Description(on[h])>> \in Seq(Allowed(on[h]))
    BY <2>2, AllowedLocks, LockKinds
  <2> HIDE DEF x
  <2>4. TxInv'
    BY <2>1, <2>2, <2>3, BeginsKeeps
  <2> QED
    BY <2>1, <2>4 DEF Keeps
<1>4. ASSUME NEW h \in Hail, SendBegins(h)
      PROVE  Keeps
  <2> DEFINE x == <<"send", h>>
             t == on[h]
  <2>1. PICK need \in {<<Row(h), IndexKey(t)>>, <<Row(h), Description(t)>>,
                       <<Description(t), Row(h)>>, <<Row(h)>>} :
           Begins(x, t, {}, need)
    BY <1>4 DEF SendBegins
  <2>2. /\ x \in Tx /\ x[1] = "send" /\ x[2] = h /\ hail[h] # "absent"
        /\ UNCHANGED <<hail, on>>
    BY <1>4, <2>1 DEF SendBegins, Begins, rows
  <2>3. t \in Taxi
    BY <2>2 DEF TxInv, Placed
  <2>4. need \in Seq(Allowed(t))
    <3>1. /\ Row(h) \in Allowed(t) /\ IndexKey(t) \in Allowed(t)
          /\ Description(t) \in Allowed(t)
      BY <2>3, AllowedLocks
    <3> HIDE DEF t
    <3>2. /\ <<Row(h), IndexKey(t)>> \in Seq(Allowed(t))
          /\ <<Row(h), Description(t)>> \in Seq(Allowed(t))
          /\ <<Description(t), Row(h)>> \in Seq(Allowed(t))
          /\ <<Row(h)>> \in Seq(Allowed(t))
      BY <3>1
    <3> QED
      BY <2>1, <3>2
  <2> HIDE DEF x
  <2>5. TxInv'
    BY <2>1, <2>2, <2>3, <2>4, BeginsKeeps
  <2> QED
    BY <2>2, <2>5 DEF Keeps
<1>5. ASSUME NEW h \in Hail, NEW g \in Hail, NEW t \in Taxi,
             ReassignChooses(h, t, g)
      PROVE  Keeps
  BY <1>5, ChoosesKeeps DEF Keeps, ReassignChooses, rows
<1>6. ASSUME NEW x \in Tx, Acquires(x)
      PROVE  Keeps
  BY <1>6, AcquiresKeeps DEF Keeps, Acquires, rows
<1>7. ASSUME NEW t \in Taxi, NEW d \in AskedOfTaxi, DriverSetsStatus(t, d)
      PROVE  Keeps
  <2>1. d \in {"free", "not free"}
    BY RowLocksAssumption
  <2>2. desc' \in [Taxi -> {"free", "not free"}]
    BY <1>7, <2>1 DEF DriverSetsStatus, TxInv, TypeOK
  <2> QED
    BY <1>7, <2>2, OthersKeep DEF DriverSetsStatus, Keeps
<1>8. CASE UNCHANGED vars
  <2>1. desc' \in [Taxi -> {"free", "not free"}]
    BY <1>8 DEF vars, rows, TxInv, TypeOK
  <2> QED
    BY <1>8, <2>1, OthersKeep DEF vars, rows, Keeps
<1>9. ASSUME NEW h \in Hail, ReassignGivesUp(h)
      PROVE  SomeEnds
  BY <1>9, EndsWithoutChange DEF ReassignGivesUp, SomeEnds
<1>10. ASSUME NEW x \in Tx, ViolatesIndex(x)
       PROVE  SomeEnds
  BY <1>10, EndsWithoutChange DEF ViolatesIndex, SomeEnds
<1>11. ASSUME NEW x \in Tx, NEW s \in Session, InsertCommits(x, s)
       PROVE  SomeEnds
  BY <1>11, InsertIsCommit DEF InsertCommits, SomeEnds
<1>12. ASSUME NEW h \in Hail, NEW st, NEW d, ChangeCommits(h, st, d)
       PROVE  SomeEnds
  BY <1>12, ChangeIsCommit DEF ChangeCommits, SomeEnds
<1>13. ASSUME NEW h \in Hail, ChangeIsRefused(h)
       PROVE  SomeEnds
  BY <1>13, EndsWithoutChange DEF ChangeIsRefused, SomeEnds
<1>14. ASSUME NEW h \in Hail, SendCommits(h)
       PROVE  SomeEnds
  BY <1>14, SendIsCommit DEF SendCommits, SomeEnds
<1>15. ASSUME NEW x \in Tx, DeadlockAborts(x)
       PROVE  SomeEnds
  BY <1>15, EndsWithoutChange DEF DeadlockAborts, SomeEnds
<1> QED
  BY <1>1, <1>2, <1>3, <1>4, <1>5, <1>6, <1>7, <1>8, <1>9, <1>10, <1>11,
     <1>12, <1>13, <1>14, <1>15 DEF Next

\* TxInv always holds.
LEMMA Invariant == Spec => []TxInv
<1>1. Init => TxInv
  <2> SUFFICES ASSUME Init PROVE TxInv
    OBVIOUS
  <2>1. TypeOK
    <3>1. <<>> \in Seq(Lock)
      OBVIOUS
    <3> QED
      BY <3>1 DEF Init, TypeOK
  <2>2. \A t : <<>> \in Seq(Allowed(t))
    OBVIOUS
  <2>3. AsksForItsTaxi /\ KeysAreGood
    BY <2>2 DEF Init, AsksForItsTaxi, KeysAreGood
  <2>4. Placed /\ RunsOnARow /\ InsertsItsOwn /\ StaysWithItsHail /\ TakesTheKey
    BY DEF Init, Placed, RunsOnARow, InsertsItsOwn, StaysWithItsHail,
           TakesTheKey, Inserting
  <2> QED
    BY <2>1, <2>3, <2>4 DEF TxInv
<1>2. TxInv /\ [Next]_vars => TxInv'
  BY StepsEndOrKeep, EndsKeeps DEF SomeEnds, Keeps
<1> QED
  BY <1>1, <1>2, PTL DEF Spec

\* Types hold, and no lock ever has two owners.
THEOREM TypeCorrect == Spec => []TypeOK
<1>1. TxInv => TypeOK
  BY DEF TxInv
<1> QED
  BY <1>1, Invariant, PTL

-------------------------------------------------------------------------------
\* One hail per taxi

Serves(h, t) == IsActive(h) /\ on[h] = t

OneActiveHailPerTaxi ==
    \A g, h \in Hail : IsActive(g) /\ IsActive(h) /\ on[g] = on[h] => g = h

\* A step touches at most one hail; if the hail is active after it, no other
\* one of its taxi is; if it was active, it stays on its taxi.
Moves(h) ==
    /\ \A g \in Hail \ {h} : hail'[g] = hail[g] /\ on'[g] = on[g]
    /\ IsActive(h)' => on'[h] \in Taxi /\ KeyIsUnused(on'[h], h)
    /\ IsActive(h) => on[h] \in Taxi /\ on'[h] = on[h]

\* A commit moves one hail: with a good key, or an active one that stays so.
LEMMA CommitMoves ==
    ASSUME TxInv, OneActiveHailPerTaxi, NEW x \in Tx, Commit(x)
    PROVE  \E h \in Hail : Moves(h)
<1>1. PICK g \in Hail :
        /\ \A h \in Hail \ {g} : hail'[h] = hail[h] /\ on'[h] = on[h]
        /\ hail'[g] # "absent" => on'[g] \in Taxi
        /\ hail[g] # "absent" => hail'[g] # "absent" /\ on'[g] = on[g]
        /\ hail[g] = "absent" /\ hail'[g] # "absent"
              => Inserting(x) /\ new[x] = g
        /\ hail'[g] \in Reached =>
              \/ hail[g] \in Reached
              \/ IndexKey(on'[g]) \in holds[x] /\ new[x] = g
  BY DEF Commit
<1>2. IsActive(g) => on[g] \in Taxi /\ on'[g] = on[g]
  BY <1>1 DEF IsActive, Reached, TxInv, Placed
<1>3. ASSUME IsActive(g)'
      PROVE  on'[g] \in Taxi /\ KeyIsUnused(on'[g], g)
  <2>1. on'[g] \in Taxi
    BY <1>1, <1>3 DEF IsActive, Reached
  <2>2. CASE IsActive(g)
    BY <1>2, <2>1, <2>2 DEF OneActiveHailPerTaxi, KeyIsUnused
  <2>3. CASE ~IsActive(g)
    BY <1>1, <1>3, <2>1, <2>3 DEF IsActive, TxInv, KeysAreGood
  <2> QED
    BY <2>1, <2>2, <2>3
<1> QED
  BY <1>1, <1>2, <1>3 DEF Moves

\* And so does every step, or none.
LEMMA StepsMove ==
    ASSUME TxInv, OneActiveHailPerTaxi, [Next]_vars
    PROVE  UNCHANGED <<hail, on>> \/ \E h \in Hail : Moves(h)
BY StepsEndOrKeep, CommitMoves DEF SomeEnds, Keeps

\* A taxi has one active hail, when nobody checks and writes in one step.
LEMMA OneActiveHail == Spec => []OneActiveHailPerTaxi
<1>1. Init => OneActiveHailPerTaxi
  BY DEF Init, OneActiveHailPerTaxi, IsActive, Reached
<1>2. TxInv /\ OneActiveHailPerTaxi /\ [Next]_vars => OneActiveHailPerTaxi'
  <2> SUFFICES ASSUME TxInv, OneActiveHailPerTaxi, [Next]_vars
               PROVE  OneActiveHailPerTaxi'
    OBVIOUS
  <2>1. CASE UNCHANGED <<hail, on>>
    BY <2>1 DEF OneActiveHailPerTaxi, IsActive
  <2>2. ASSUME NEW h \in Hail, Moves(h)
        PROVE  OneActiveHailPerTaxi'
    <3>1. \A g \in Hail \ {h} : (IsActive(g)' <=> IsActive(g)) /\ on'[g] = on[g]
      BY <2>2 DEF Moves, IsActive
    <3>2. \A g \in Hail \ {h} : IsActive(g) /\ IsActive(h)' => on[g] # on'[h]
      BY <2>2 DEF Moves, KeyIsUnused
    <3> QED
      BY <3>1, <3>2 DEF OneActiveHailPerTaxi
  <2> QED
    BY <2>1, <2>2, StepsMove
<1> QED
  BY <1>1, <1>2, Invariant, PTL DEF Spec

-------------------------------------------------------------------------------
\* The refinement of TaxiBooking

\* A slot holds the hail that the taxi serves, or None.
SlotsServe ==
    \A t \in Taxi : /\ \A h \in Hail : Slot(t) = h <=> Serves(h, t)
                    /\ Slot(t) = None <=> \A h \in Hail : ~Serves(h, t)

\* The CHOOSE of the mapping picks the hail the taxi serves.
LEMMA SlotMeaning == OneActiveHailPerTaxi => SlotsServe
<1> SUFFICES ASSUME OneActiveHailPerTaxi, NEW t \in Taxi
             PROVE  /\ \A h \in Hail : Slot(t) = h <=> Serves(h, t)
                    /\ Slot(t) = None <=> \A h \in Hail : ~Serves(h, t)
  BY DEF SlotsServe
<1>1. CASE \E h \in Hail : Serves(h, t)
  <2>1. Slot(t) \in Hail /\ Serves(Slot(t), t)
    BY <1>1 DEF Slot, Serves
  <2> QED
    BY <1>1, <2>1, Constants DEF OneActiveHailPerTaxi, Serves
<1>2. CASE ~ \E h \in Hail : Serves(h, t)
  BY <1>2, Constants DEF Slot, Serves
<1> QED
  BY <1>1, <1>2

\* A taxi that serves the same hails after a step has the same in its slot.
LEMMA SlotStays ==
    ASSUME SlotsServe, SlotsServe', NEW t \in Taxi,
           \A h \in Hail : Serves(h, t)' <=> Serves(h, t)
    PROVE  Slot(t)' = Slot(t)
<1>1. CASE \E h \in Hail : Serves(h, t)
  <2>1. PICK h \in Hail : Serves(h, t)
    BY <1>1
  <2> QED
    BY <2>1 DEF SlotsServe
<1>2. CASE ~ \E h \in Hail : Serves(h, t)
  BY <1>2 DEF SlotsServe
<1> QED
  BY <1>1, <1>2

\* Transactions cut into lock requests implement the slots of TaxiBooking:
\* every step books an empty slot, empties one, or leaves all slots alone.
THEOREM BookingRefinement == Spec => ImplementsTaxiBooking
<1> DEFINE slots == [t \in Taxi |-> Slot(t)]
<1>1. Init => Booked!Init
  BY DEF Init, Booked!Init, Slot, IsActive, Reached
<1>2. ASSUME TxInv, OneActiveHailPerTaxi, SlotsServe, SlotsServe', [Next]_vars
      PROVE  [Booked!Next]_slots
  <2>1. CASE UNCHANGED <<hail, on>>
    <3>1. \A t \in Taxi : Slot(t)' = Slot(t)
      BY <1>2, <2>1, SlotStays DEF Serves, IsActive
    <3> QED
      BY <3>1
  <2>2. ASSUME NEW h \in Hail, Moves(h)
        PROVE  [Booked!Next]_slots
    <3>1. \A g \in Hail \ {h}, t \in Taxi : Serves(g, t)' <=> Serves(g, t)
      BY <2>2 DEF Moves, Serves, IsActive
    <3>2. CASE IsActive(h)' <=> IsActive(h)
      <4>1. \A t \in Taxi : Serves(h, t)' <=> Serves(h, t)
        BY <2>2, <3>2 DEF Moves, Serves
      <4>2. \A t \in Taxi : Slot(t)' = Slot(t)
        BY <1>2, <3>1, <4>1, SlotStays
      <4> QED
        BY <4>2
    <3>3. CASE ~IsActive(h) /\ IsActive(h)'
      <4>1. PICK t \in Taxi : t = on'[h]
        BY <2>2, <3>3 DEF Moves
      <4>2. Serves(h, t)' /\ \A u \in Taxi : ~Serves(h, u)
        BY <3>3, <4>1 DEF Serves
      <4>3. \A g \in Hail : ~Serves(g, t)
        BY <2>2, <3>3, <4>1, <4>2 DEF Moves, KeyIsUnused, Serves
      <4>4. Slot(t) = None /\ Slot(t)' = h /\ \A u \in Taxi : Slot(u) # h
        BY <1>2, <4>2, <4>3 DEF SlotsServe
      <4>5. \A u \in Taxi \ {t} : Serves(h, u)' <=> Serves(h, u)
        BY <4>1, <4>2 DEF Serves
      <4>6. \A u \in Taxi \ {t} : Slot(u)' = Slot(u)
        BY <1>2, <3>1, <4>5, SlotStays
      <4>7. slots' = [slots EXCEPT ![t] = h]
        BY <4>4, <4>6
      <4>8. Booked!Book(t, h)
        BY <4>4, <4>7 DEF Booked!Book
      <4> QED
        BY <4>8 DEF Booked!Next
    <3>4. CASE IsActive(h) /\ ~IsActive(h)'
      <4>1. PICK t \in Taxi : t = on[h]
        BY <2>2, <3>4 DEF Moves
      <4>2. Serves(h, t) /\ \A u \in Taxi : ~Serves(h, u)'
        BY <3>4, <4>1 DEF Serves
      <4>3. \A g \in Hail : ~Serves(g, t)'
        BY <1>2, <3>1, <4>2 DEF OneActiveHailPerTaxi, Serves
      <4>4. Slot(t) # None
        BY <1>2, <4>2 DEF SlotsServe
      <4>n. Slot(t)' = None
        BY <1>2, <4>3 DEF SlotsServe
      <4>5. \A u \in Taxi \ {t} : Serves(h, u)' <=> Serves(h, u)
        BY <4>1, <4>2 DEF Serves
      <4>6. \A u \in Taxi \ {t} : Slot(u)' = Slot(u)
        BY <1>2, <3>1, <4>5, SlotStays
      <4>7. slots' = [slots EXCEPT ![t] = None]
        BY <4>n, <4>6
      <4>8. Booked!Release(t)
        BY <4>4, <4>7 DEF Booked!Release
      <4> QED
        BY <4>8 DEF Booked!Next
    <3> QED
      BY <3>2, <3>3, <3>4
  <2> QED
    BY <1>2, <2>1, <2>2, StepsMove
<1> QED
  BY <1>1, <1>2, Invariant, OneActiveHail, SlotMeaning, PTL
  DEF Spec, Booked!Spec, ImplementsTaxiBooking

-------------------------------------------------------------------------------
\* Deadlocks

\* Locks of different kinds differ, and rows are told apart by their ids.
LEMMA LockNames ==
    /\ \A h : Row(h)[2] = h
    /\ \A h, t : Row(h) # Description(t) /\ Row(h) # IndexKey(t)
    /\ \A t, u : Description(t) # IndexKey(u)
    /\ \A g, h : Row(g) = Row(h) => g = h
BY DEF Row, Description, IndexKey

\* The locks x has are of rows only (but for the key k).
OnlyRows(x) == \A r \in holds[x] : \E k \in Hail : r = Row(k)
OnlyRowsAnd(x, key) == \A r \in holds[x] : r = key \/ \E k \in Hail : r = Row(k)

\* x takes rows only, from the least id up, and has those below what it needs.
RowsInOrder(x) ==
    /\ OnlyRows(x)
    /\ \A i \in DOMAIN todo[x] : \E k \in Hail : todo[x][i] = Row(k)
    /\ \A i, j \in DOMAIN todo[x] : i < j => todo[x][i][2] < todo[x][j][2]
    /\ \A r \in holds[x] : \A i \in DOMAIN todo[x] : r[2] < todo[x][i][2]

\* How far a running transaction of each kind may be with its locks.
CreatePlan(x) == Description(aim[x]) \in holds[x]

ReassignPlan(x) ==
    \/ aim[x] = None /\ RowsInOrder(x)
    \/ /\ aim[x] # None
       /\ \/ /\ todo[x] = <<IndexKey(aim[x]), Description(aim[x])>>
             /\ OnlyRows(x)
          \/ /\ todo[x] = <<Description(aim[x])>>
             /\ OnlyRowsAnd(x, IndexKey(aim[x]))
          \/ todo[x] = <<>>

ChangePlan(x) ==
    \/ holds[x] = {Row(x[2])} /\ todo[x] = <<Description(aim[x])>>
    \/ todo[x] = <<>>

SendPlan(x) ==
    \/ /\ holds[x] = {}
       /\ todo[x] \in {<<Row(x[2]), IndexKey(aim[x])>>,
                       <<Row(x[2]), Description(aim[x])>>,
                       <<Description(aim[x]), Row(x[2])>>,
                       <<Row(x[2])>>}
    \/ /\ holds[x] = {Row(x[2])}
       /\ todo[x] \in {<<IndexKey(aim[x])>>, <<Description(aim[x])>>}
    \/ Description(aim[x]) \in holds[x] /\ todo[x] = <<Row(x[2])>>
    \/ todo[x] = <<>>

Plan(x) ==
    pc[x] = "running" =>
        \/ x[1] = "create" /\ CreatePlan(x)
        \/ x[1] = "reassign" /\ ReassignPlan(x)
        \/ x[1] = "change" /\ ChangePlan(x)
        \/ x[1] = "send" /\ SendPlan(x)

LocksGoToPlan == \A x \in Tx : Plan(x)

\* A transaction whose locks are as they were is at the same place of its plan.
LEMMA PlanStays ==
    ASSUME NEW x \in Tx, Plan(x), pc'[x] = pc[x], aim'[x] = aim[x],
           todo'[x] = todo[x], holds'[x] = holds[x]
    PROVE  Plan(x)'
<1>1. OnlyRows(x)' = OnlyRows(x) /\ RowsInOrder(x)' = RowsInOrder(x)
  BY DEF OnlyRows, RowsInOrder
<1>2. \A key : OnlyRowsAnd(x, key)' = OnlyRowsAnd(x, key)
  BY DEF OnlyRowsAnd
<1>3. ReassignPlan(x)' = ReassignPlan(x)
  BY <1>1, <1>2 DEF ReassignPlan
<1>4. /\ CreatePlan(x)' = CreatePlan(x)
      /\ ChangePlan(x)' = ChangePlan(x)
      /\ SendPlan(x)' = SendPlan(x)
  BY DEF CreatePlan, ChangePlan, SendPlan
<1>5. QED
  BY <1>3, <1>4 DEF Plan

\* Where one transaction moves, the others are where they were.
LEMMA PlanOfOne ==
    ASSUME TypeOK, LocksGoToPlan, NEW x \in Tx, Plan(x)',
           NEW pcx, NEW aimx, NEW todox, NEW holdsx,
           pc' = [pc EXCEPT ![x] = pcx],
           aim' = [aim EXCEPT ![x] = aimx],
           todo' = [todo EXCEPT ![x] = todox],
           holds' = [holds EXCEPT ![x] = holdsx]
    PROVE  LocksGoToPlan'
<1>1. \A y \in Tx \ {x} : /\ pc'[y] = pc[y] /\ aim'[y] = aim[y]
                          /\ todo'[y] = todo[y] /\ holds'[y] = holds[y]
  BY DEF TypeOK
<1>2. QED
  BY <1>1, PlanStays DEF LocksGoToPlan

\* An end takes a transaction out of its plan.
LEMMA EndIsPlanned ==
    ASSUME TypeOK, LocksGoToPlan, NEW x \in Tx, NEW how, how # "running",
           Ends(x, how)
    PROVE  LocksGoToPlan'
<1>1. /\ pc' = [pc EXCEPT ![x] = how] /\ aim' = [aim EXCEPT ![x] = None]
      /\ todo' = [todo EXCEPT ![x] = <<>>] /\ holds' = [holds EXCEPT ![x] = {}]
  BY DEF Ends
<1>2. pc'[x] # "running"
  BY <1>1 DEF TypeOK
<1>3. Plan(x)'
  BY <1>2 DEF Plan
<1>4. QED
  BY <1>1, <1>3, PlanOfOne

\* A beginning is planned when the locks it gives and asks for are.
LEMMA BeginIsPlanned ==
    ASSUME TypeOK, LocksGoToPlan, NEW x, NEW t, NEW got, NEW need,
           Begins(x, t, got, need),
           /\ aim'[x] = t /\ holds'[x] = got /\ todo'[x] = need
           => Plan(x)'
    PROVE  LocksGoToPlan'
<1>1. /\ x \in Tx
      /\ pc' = [pc EXCEPT ![x] = "running"] /\ aim' = [aim EXCEPT ![x] = t]
      /\ todo' = [todo EXCEPT ![x] = need] /\ holds' = [holds EXCEPT ![x] = got]
  BY DEF Begins
<1>2. aim'[x] = t /\ holds'[x] = got /\ todo'[x] = need
  BY <1>1 DEF TypeOK
<1>3. QED
  BY <1>1, <1>2, PlanOfOne

\* The rows of a session, the first of them taken.
LEMMA RowsBeginInOrder ==
    ASSUME NEW H \in SUBSET Hail, H # {}, NEW order \in InIdOrder(H), NEW x,
           holds'[x] = {Head(order)}, todo'[x] = Tail(order)
    PROVE  RowsInOrder(x)'
<1>1. IsFiniteSet(H)
  <2>1. IsFiniteSet(1..MaxHails)
    BY Constants, FS_Interval
  <2> QED
    BY <2>1, FS_Subset DEF Hail
<1>2. Cardinality(H) \in Nat /\ Cardinality(H) # 0
  BY <1>1, FS_CardinalityType, FS_EmptySet
<1>3. PICK o \in [1..Cardinality(H) -> H] :
         order = [i \in DOMAIN o |-> Row(o[i])]
  BY DEF InIdOrder, AnyOrder, SetToSeqs
<1>4. /\ order \in Seq({Row(k) : k \in Hail}) /\ order # <<>>
      /\ Len(order) = Cardinality(H)
      /\ \A i \in 1..Len(order) : \E k \in Hail : order[i] = Row(k)
  <2>1. \A i \in 1..Cardinality(H) : order[i] = Row(o[i]) /\ o[i] \in Hail
    BY <1>3
  <2>2. order \in [1..Cardinality(H) -> {Row(k) : k \in Hail}]
    BY <1>3, <2>1
  <2>3. QED
    BY <1>2, <2>1, <2>2
<1>5. \A i, j \in 1..Len(order) : i < j => order[i][2] < order[j][2]
  BY <1>4 DEF InIdOrder
<1>6. /\ Head(order) = order[1]
      /\ DOMAIN Tail(order) = 1..(Len(order) - 1)
      /\ \A i \in 1..(Len(order) - 1) : Tail(order)[i] = order[i + 1]
      /\ Len(order) \in Nat /\ Len(order) >= 1
  BY <1>4
<1>7. \A i \in DOMAIN Tail(order) : \E k \in Hail : Tail(order)[i] = Row(k)
  BY <1>4, <1>6
<1>8. \A i, j \in DOMAIN Tail(order) :
         i < j => Tail(order)[i][2] < Tail(order)[j][2]
  BY <1>5, <1>6
<1>9. \A i \in DOMAIN Tail(order) : Head(order)[2] < Tail(order)[i][2]
  BY <1>5, <1>6
<1>10. \E k \in Hail : Head(order) = Row(k)
  BY <1>4, <1>6
<1>11. QED
  BY <1>7, <1>8, <1>9, <1>10 DEF RowsInOrder, OnlyRows

\* Taking the next row keeps the order.
LEMMA NextRowInOrder ==
    ASSUME NEW x, NEW s \in Seq(Lock), s # <<>>, todo[x] = s, RowsInOrder(x),
           todo'[x] = Tail(s), holds'[x] = holds[x] \cup {Head(s)}
    PROVE  RowsInOrder(x)'
<1>1. /\ Head(s) = s[1] /\ 1 \in DOMAIN s
      /\ DOMAIN s = 1..Len(s) /\ Len(s) \in Nat
      /\ DOMAIN Tail(s) = 1..(Len(s) - 1)
      /\ \A i \in 1..(Len(s) - 1) : Tail(s)[i] = s[i + 1]
  OBVIOUS
<1>2. \A i \in DOMAIN Tail(s) : i + 1 \in DOMAIN s /\ 1 < i + 1
  BY <1>1
<1>3. /\ \A i \in DOMAIN s : \E k \in Hail : s[i] = Row(k)
      /\ \A i, j \in DOMAIN s : i < j => s[i][2] < s[j][2]
      /\ \A r \in holds[x] : \A i \in DOMAIN s : r[2] < s[i][2]
      /\ OnlyRows(x)
  BY DEF RowsInOrder
<1>4. \A i \in DOMAIN Tail(s) : \E k \in Hail : Tail(s)[i] = Row(k)
  BY <1>1, <1>2, <1>3
<1>5. \A i, j \in DOMAIN Tail(s) : i < j => Tail(s)[i][2] < Tail(s)[j][2]
  <2> SUFFICES ASSUME NEW i \in DOMAIN Tail(s), NEW j \in DOMAIN Tail(s), i < j
               PROVE  Tail(s)[i][2] < Tail(s)[j][2]
    OBVIOUS
  <2>1. i + 1 \in DOMAIN s /\ j + 1 \in DOMAIN s /\ i + 1 < j + 1
    BY <1>1
  <2>2. Tail(s)[i] = s[i + 1] /\ Tail(s)[j] = s[j + 1]
    BY <1>1
  <2>3. QED
    BY <1>3, <2>1, <2>2
<1>6. \A r \in holds[x] \cup {Head(s)} :
         \A i \in DOMAIN Tail(s) : r[2] < Tail(s)[i][2]
  BY <1>1, <1>2, <1>3
<1>7. \A r \in holds[x] \cup {Head(s)} : \E k \in Hail : r = Row(k)
  BY <1>1, <1>3 DEF OnlyRows
<1>8. QED
  BY <1>4, <1>5, <1>6, <1>7 DEF RowsInOrder, OnlyRows

\* A transaction that gets its next lock moves on in its plan.
LEMMA AcquireIsPlanned ==
    ASSUME TypeOK, LocksGoToPlan, NEW x \in Tx, Acquires(x)
    PROVE  LocksGoToPlan'
<1>0. PICK s \in Seq(Lock) : s = todo[x]
  BY DEF TypeOK
<1>1. /\ pc[x] = "running" /\ s # <<>>
      /\ holds' = [holds EXCEPT ![x] = @ \cup {Head(s)}]
      /\ todo' = [todo EXCEPT ![x] = Tail(s)]
      /\ UNCHANGED <<pc, aim>>
  BY <1>0 DEF Acquires, Waiting
<1>2. s \in Seq(Lock)
  OBVIOUS
<1>3. /\ todo'[x] = Tail(s)
      /\ holds'[x] = holds[x] \cup {Head(s)}
      /\ pc'[x] = "running" /\ aim'[x] = aim[x]
  BY <1>1 DEF TypeOK
<1>4. Plan(x) /\ todo[x] = s
  BY <1>0 DEF LocksGoToPlan
<1>5. ASSUME x[1] = "create" PROVE Plan(x)'
  BY <1>1, <1>3, <1>4, <1>5 DEF Plan, CreatePlan
<1>6. ASSUME x[1] = "reassign" PROVE Plan(x)'
  <2>1. ReassignPlan(x)
    BY <1>1, <1>4, <1>6 DEF Plan
  <2>2. CASE aim[x] = None /\ RowsInOrder(x)
    <3>1. RowsInOrder(x)'
      BY <1>1, <1>2, <1>3, <1>4, <2>2, NextRowInOrder
    <3>2. QED
      BY <1>3, <1>6, <2>2, <3>1 DEF Plan, ReassignPlan
  <2>3. CASE /\ aim[x] # None
             /\ s = <<IndexKey(aim[x]), Description(aim[x])>>
             /\ OnlyRows(x)
    <3>1. Head(s) = IndexKey(aim[x]) /\ Tail(s) = <<Description(aim[x])>>
      BY <2>3
    <3>2. OnlyRowsAnd(x, IndexKey(aim[x]))'
      BY <1>3, <2>3, <3>1 DEF OnlyRows, OnlyRowsAnd
    <3>3. ReassignPlan(x)'
      BY <1>3, <2>3, <3>1, <3>2 DEF ReassignPlan
    <3>4. QED
      BY <1>6, <3>3 DEF Plan
  <2>4. CASE aim[x] # None /\ s = <<Description(aim[x])>>
    <3>1. Tail(s) = <<>>
      BY <2>4
    <3>2. QED
      BY <1>3, <1>6, <2>4, <3>1 DEF Plan, ReassignPlan
  <2>5. QED
    BY <1>1, <1>4, <2>1, <2>2, <2>3, <2>4 DEF ReassignPlan
<1>7. ASSUME x[1] = "change" PROVE Plan(x)'
  <2>1. s = <<Description(aim[x])>>
    BY <1>1, <1>4, <1>7 DEF Plan, ChangePlan
  <2>2. Tail(s) = <<>>
    BY <2>1
  <2>3. QED
    BY <1>3, <1>7, <2>2 DEF Plan, ChangePlan
<1>8. ASSUME x[1] = "send" PROVE Plan(x)'
  <2> DEFINE row == Row(x[2])
             key == IndexKey(aim[x])
             description == Description(aim[x])
  <2>1. /\ \/ /\ holds[x] = {}
              /\ s \in {<<row, key>>, <<row, description>>, <<description, row>>,
                        <<row>>}
           \/ holds[x] = {row} /\ s \in {<<key>>, <<description>>}
           \/ description \in holds[x] /\ s = <<row>>
    BY <1>1, <1>4, <1>8 DEF Plan, SendPlan
  <2>2. /\ holds'[x] = holds[x] \cup {Head(s)} /\ todo'[x] = Tail(s)
        /\ aim'[x] = aim[x]
    BY <1>3
  <2> SUFFICES \/ /\ holds'[x] = {row}
                  /\ Tail(s) \in {<<key>>, <<description>>}
               \/ description \in holds'[x] /\ Tail(s) = <<row>>
               \/ Tail(s) = <<>>
    BY <1>3, <1>8, <2>2 DEF Plan, SendPlan
  <2> HIDE DEF row, key, description
  <2>3. CASE holds[x] = {} /\ s = <<row, key>>
    <3>1. Head(s) = row /\ Tail(s) = <<key>>
      BY <2>3
    <3>2. QED
      BY <2>2, <2>3, <3>1
  <2>4. CASE holds[x] = {} /\ s = <<row, description>>
    <3>1. Head(s) = row /\ Tail(s) = <<description>>
      BY <2>4
    <3>2. QED
      BY <2>2, <2>4, <3>1
  <2>5. CASE s = <<description, row>>
    <3>1. Head(s) = description /\ Tail(s) = <<row>>
      BY <2>5
    <3>2. QED
      BY <2>2, <3>1
  <2>6. CASE s \in {<<row>>, <<key>>, <<description>>}
    <3>1. PICK r : s = <<r>>
      BY <2>6
    <3>2. Tail(s) = <<>>
      BY <3>1
    <3>3. QED
      BY <3>2
  <2>7. QED
    BY <2>1, <2>3, <2>4, <2>5, <2>6
<1>9. Plan(x)'
  BY <1>5, <1>6, <1>7, <1>8, Transactions
<1>10. \A y \in Tx \ {x} : /\ pc'[y] = pc[y] /\ aim'[y] = aim[y]
                           /\ todo'[y] = todo[y] /\ holds'[y] = holds[y]
  BY <1>1 DEF TypeOK
<1>11. QED
  BY <1>9, <1>10, PlanStays DEF LocksGoToPlan

\* A redistribution that has all its rows goes on to key and description.
LEMMA ChoiceIsPlanned ==
    ASSUME TypeOK, LocksGoToPlan, NEW h \in Hail, NEW t \in Taxi, NEW g \in Hail,
           ReassignChooses(h, t, g)
    PROVE  LocksGoToPlan'
<1> DEFINE x == <<"reassign", h>>
<1>1. /\ x \in Tx /\ x[1] = "reassign" /\ pc[x] = "running" /\ aim[x] = None
      /\ aim' = [aim EXCEPT ![x] = t]
      /\ todo' = [todo EXCEPT ![x] = <<IndexKey(t), Description(t)>>]
      /\ UNCHANGED <<pc, holds>>
  BY DEF ReassignChooses
<1> HIDE DEF x
<1>2. /\ aim'[x] = t /\ todo'[x] = <<IndexKey(t), Description(t)>>
      /\ pc'[x] = "running" /\ holds'[x] = holds[x]
  BY <1>1 DEF TypeOK
<1>3. t # None
  BY RowLocksAssumption
<1>4. OnlyRows(x)'
  BY <1>1, <1>2 DEF LocksGoToPlan, Plan, ReassignPlan, RowsInOrder, OnlyRows
<1>5. ReassignPlan(x)'
  BY <1>2, <1>3, <1>4 DEF ReassignPlan
<1>6. Plan(x)'
  BY <1>1, <1>5 DEF Plan
<1>7. \A y \in Tx \ {x} : /\ pc'[y] = pc[y] /\ aim'[y] = aim[y]
                          /\ todo'[y] = todo[y] /\ holds'[y] = holds[y]
  BY <1>1 DEF TypeOK
<1>8. QED
  BY <1>6, <1>7, PlanStays DEF LocksGoToPlan

LEMMA StepsArePlanned ==
    ASSUME TypeOK, LocksGoToPlan, [Next]_vars
    PROVE  LocksGoToPlan'
<1>1. ASSUME NEW h \in Hail, NEW t \in Taxi, CreateBegins(h, t)
      PROVE  LocksGoToPlan'
  <2> DEFINE x == <<"create", h>>
  <2>1. Begins(x, t, {Description(t)}, <<IndexKey(t)>>) /\ x[1] = "create"
    BY <1>1 DEF CreateBegins
  <2> HIDE DEF x
  <2>2. aim'[x] = t /\ holds'[x] = {Description(t)} => Plan(x)'
    BY <2>1 DEF Plan, CreatePlan
  <2>3. QED
    BY <2>1, <2>2, BeginIsPlanned
<1>2. ASSUME NEW h \in Hail, ReassignBegins(h)
      PROVE  LocksGoToPlan'
  <2> DEFINE x == <<"reassign", h>>
             H == SessionHails(session[h])
  <2>1. PICK order \in InIdOrder(H) :
           Begins(x, None, {Head(order)}, Tail(order))
    BY <1>2 DEF ReassignBegins
  <2>2. H \in SUBSET Hail /\ H # {} /\ x[1] = "reassign"
    BY <1>2 DEF SessionHails, ReassignBegins
  <2> HIDE DEF x, H
  <2>3. ASSUME aim'[x] = None, holds'[x] = {Head(order)}, todo'[x] = Tail(order)
        PROVE  Plan(x)'
    <3>1. RowsInOrder(x)'
      BY <2>2, <2>3, RowsBeginInOrder
    <3>2. QED
      BY <2>2, <2>3, <3>1 DEF Plan, ReassignPlan
  <2>4. QED
    BY <2>1, <2>3, BeginIsPlanned
<1>3. ASSUME NEW h \in Hail, ChangeBegins(h)
      PROVE  LocksGoToPlan'
  <2> DEFINE x == <<"change", h>>
  <2>1. /\ Begins(x, on[h], {Row(h)}, <<Description(on[h])>>)
        /\ x[1] = "change" /\ x[2] = h
    BY <1>3 DEF ChangeBegins
  <2> HIDE DEF x
  <2>2. /\ aim'[x] = on[h] /\ holds'[x] = {Row(h)}
        /\ todo'[x] = <<Description(on[h])>>
        => Plan(x)'
    BY <2>1 DEF Plan, ChangePlan
  <2>3. QED
    BY <2>1, <2>2, BeginIsPlanned
<1>4. ASSUME NEW h \in Hail, SendBegins(h)
      PROVE  LocksGoToPlan'
  <2> DEFINE x == <<"send", h>>
             t == on[h]
  <2>1. PICK need \in {<<Row(h), IndexKey(t)>>, <<Row(h), Description(t)>>,
                       <<Description(t), Row(h)>>, <<Row(h)>>} :
           Begins(x, t, {}, need)
    BY <1>4 DEF SendBegins
  <2>2. x[1] = "send" /\ x[2] = h
    OBVIOUS
  <2> HIDE DEF x, t
  <2>3. aim'[x] = t /\ holds'[x] = {} /\ todo'[x] = need => Plan(x)'
    BY <2>1, <2>2 DEF Plan, SendPlan
  <2>4. QED
    BY <2>1, <2>3, BeginIsPlanned
<1>5. ASSUME NEW x \in Tx,
             \/ Ends(x, "idle") \/ Ends(x, "done") \/ Ends(x, "failed")
      PROVE  LocksGoToPlan'
  BY <1>5, EndIsPlanned
<1>6. ASSUME UNCHANGED <<pc, aim, todo, holds>> PROVE LocksGoToPlan'
  BY <1>6, PlanStays DEF LocksGoToPlan
<1>7. ASSUME \/ \E h \in Hail : ReassignGivesUp(h) \/ ChangeIsRefused(h)
                                \/ SendCommits(h)
             \/ \E x \in Tx : ViolatesIndex(x) \/ DeadlockAborts(x)
             \/ \E x \in Tx, s \in Session : InsertCommits(x, s)
             \/ \E h \in Hail : \E st, d : ChangeCommits(h, st, d)
      PROVE  \E x \in Tx :
                Ends(x, "idle") \/ Ends(x, "done") \/ Ends(x, "failed")
  BY <1>7 DEF ReassignGivesUp, ChangeIsRefused, SendCommits, ViolatesIndex,
              DeadlockAborts, InsertCommits, ChangeCommits
<1>8. ASSUME \/ \E t \in Taxi, d \in AskedOfTaxi : DriverSetsStatus(t, d)
             \/ UNCHANGED vars
      PROVE  UNCHANGED <<pc, aim, todo, holds>>
  BY <1>8 DEF DriverSetsStatus, vars
<1>9. QED
  BY <1>1, <1>2, <1>3, <1>4, <1>5, <1>6, <1>7, <1>8, AcquireIsPlanned,
     ChoiceIsPlanned
  DEF Next

\* A nonempty set of hails has a greatest one.
LEMMA GreatestHail ==
    ASSUME NEW K \in SUBSET Hail, K # {}
    PROVE  \E m \in K : \A k \in K : k <= m
<1> DEFINE T == {MaxHails - k : k \in K}
<1>1. /\ MaxHails \in Nat /\ \A k \in K : k \in Nat /\ k <= MaxHails
  BY Constants DEF Hail
<1>2. T \subseteq Nat /\ T # {}
  BY <1>1
<1>3. PICK x \in T : \A y \in T : ~(<<y, x>> \in OpToRel(<, Nat))
  BY <1>2, WFMin, NatLessThanWellFounded
<1>4. \A y \in T : ~(y < x)
  BY <1>2, <1>3 DEF OpToRel
<1>5. PICK m \in K : x = MaxHails - m
  BY <1>3
<1>6. ASSUME NEW k \in K PROVE k <= m
  <2>1. ~(MaxHails - k < MaxHails - m)
    BY <1>4, <1>5
  <2>2. QED
    BY <1>1, <2>1
<1>7. QED
  BY <1>6

\* What is left of a circle when nobody in it has a description: each waits for
\* a row, and who holds that row waits for a row with a greater id.
LEMMA CirclesOfRowsClimb ==
    ASSUME TxInv, OneActiveHailPerTaxi, LocksGoToPlan,
           NEW S \in Circles,
           \A x \in S : x[1] \in {"create", "send"}
                        => Description(aim[x]) \notin holds[x]
    PROVE  \A x \in S : \E k \in Hail :
              /\ Head(todo[x]) = Row(k)
              /\ \E y \in S, m \in Hail : k < m /\ Head(todo[y]) = Row(m)
<1>1. ASSUME NEW x \in S
      PROVE  /\ x \in Tx /\ pc[x] = "running" /\ todo[x] # <<>> /\ Plan(x)
             /\ x[1] # "create"
             /\ x[1] = "reassign" => ReassignPlan(x)
             /\ x[1] = "change" => ChangePlan(x)
             /\ x[1] = "send" => SendPlan(x)
             /\ x[1] \in {"reassign", "change", "send"}
  <2>1. x \in Tx /\ pc[x] = "running" /\ todo[x] # <<>>
    BY DEF Circles, Waiting
  <2>2. Plan(x)
    BY <2>1 DEF LocksGoToPlan
  <2>3. x[1] # "create"
    BY <2>1, <2>2 DEF Plan, CreatePlan
  <2>4. QED
    BY <2>1, <2>2, <2>3, Transactions DEF Plan
<1>2. \A x \in S : /\ \E y \in S : x # y /\ Has(y, Head(todo[x]))
                   /\ \E y \in S : x # y /\ Has(x, Head(todo[y]))
  BY DEF Circles, Circle, WaitsFor
\* Sends in the circle have written their row.
<1>3. ASSUME NEW x \in S, x[1] = "send"
      PROVE  /\ holds[x] = {Row(x[2])}
             /\ todo[x] \in {<<IndexKey(aim[x])>>, <<Description(aim[x])>>}
  <2>1. SendPlan(x) /\ todo[x] # <<>> /\ Description(aim[x]) \notin holds[x]
    BY <1>1, <1>3
  <2>2. holds[x] # {}
    <3>1. PICK r : Has(x, r)
      BY <1>2
    <3>2. QED
      BY <3>1 DEF Has
  <2>3. QED
    BY <2>1, <2>2 DEF SendPlan
\* Nobody in the circle has a description, so nobody waits for one.
<1>4. ASSUME NEW x \in S, NEW t PROVE ~Has(x, Description(t))
  <2>1. Description(t) \notin holds[x]
    <3>1. CASE x[1] = "send"
      BY <1>3, <3>1, LockNames
    <3>2. CASE x[1] = "change"
      <4>1. holds[x] = {Row(x[2])}
        BY <1>1, <3>2 DEF ChangePlan
      <4>2. QED
        BY <4>1, LockNames
    <3>3. CASE x[1] = "reassign"
      <4>1. OnlyRows(x) \/ OnlyRowsAnd(x, IndexKey(aim[x]))
        BY <1>1, <3>3 DEF ReassignPlan, RowsInOrder
      <4>2. QED
        BY <4>1, LockNames DEF OnlyRows, OnlyRowsAnd
    <3>4. QED
      BY <1>1, <3>1, <3>2, <3>3
  <2>2. QED
    BY <2>1, LockNames DEF Has
<1>5. \A x \in S : \A t : Head(todo[x]) # Description(t)
  BY <1>2, <1>4
\* So there is no change among them, and a send waits for its taxi's key.
<1>6. \A x \in S : x[1] # "change"
  <2> SUFFICES ASSUME NEW x \in S, x[1] = "change" PROVE FALSE
    OBVIOUS
  <2>1. todo[x] = <<Description(aim[x])>>
    BY <1>1 DEF ChangePlan
  <2>2. Head(todo[x]) = Description(aim[x])
    BY <2>1
  <2>3. QED
    BY <1>5, <2>2
<1>7. ASSUME NEW x \in S, x[1] = "send"
      PROVE  Head(todo[x]) = IndexKey(aim[x]) /\ aim[x] = on[x[2]]
  <2>1. todo[x] \in {<<IndexKey(aim[x])>>, <<Description(aim[x])>>}
    BY <1>3, <1>7
  <2>2. Head(todo[x]) \in {IndexKey(aim[x]), Description(aim[x])}
    <3>1. CASE todo[x] = <<IndexKey(aim[x])>>
      BY <3>1
    <3>2. CASE todo[x] = <<Description(aim[x])>>
      BY <3>2
    <3>3. QED
      BY <2>1, <3>1, <3>2
  <2>3. aim[x] = on[x[2]]
    BY <1>1, <1>7 DEF TxInv, StaysWithItsHail
  <2>4. QED
    BY <1>5, <2>2, <2>3
\* Who has a key, a send, would wait for another one that has the same.
<1>8. ASSUME NEW y \in S, NEW t, Has(y, IndexKey(t))
      PROVE  y[1] = "send" /\ IsActive(y[2]) /\ on[y[2]] = t /\ y[2] \in Hail
  <2>1. y[1] = "send"
    <3> SUFFICES ASSUME y[1] # "send" PROVE FALSE
      OBVIOUS
    <3>1. y[1] = "reassign" /\ IndexKey(t) \in holds[y]
      BY <1>1, <1>6, <1>8 DEF Has
    <3>2. ~OnlyRows(y)
      BY <3>1, LockNames DEF OnlyRows
    <3>3. todo[y] = <<Description(aim[y])>>
      BY <1>1, <3>1, <3>2 DEF ReassignPlan, RowsInOrder
    <3>4. Head(todo[y]) = Description(aim[y])
      BY <3>3
    <3>5. QED
      BY <1>5, <3>4
  <2>2. IndexKey(t) \notin holds[y]
    BY <1>3, <2>1, LockNames
  <2>3. IsActive(y[2]) /\ IndexKey(t) = IndexKey(on[y[2]])
    BY <1>8, <2>2 DEF Has
  <2>4. y[2] \in Hail
    BY <1>1, Transactions
  <2>5. QED
    BY <2>1, <2>3, <2>4, LockKinds
<1>9. ASSUME NEW x \in S, NEW t PROVE Head(todo[x]) # IndexKey(t)
  <2> SUFFICES ASSUME Head(todo[x]) = IndexKey(t) PROVE FALSE
    OBVIOUS
  <2>1. PICK y \in S : Has(y, IndexKey(t))
    BY <1>2
  <2>2. y[1] = "send" /\ IsActive(y[2]) /\ on[y[2]] = t /\ y[2] \in Hail
    BY <1>8, <2>1
  <2>3. Head(todo[y]) = IndexKey(t)
    BY <1>7, <2>2
  <2>4. PICK z \in S : y # z /\ Has(z, IndexKey(t))
    BY <1>2, <2>3
  <2>5. z[1] = "send" /\ IsActive(z[2]) /\ on[z[2]] = t /\ z[2] \in Hail
    BY <1>8, <2>4
  <2>6. y[2] = z[2]
    BY <2>2, <2>5 DEF OneActiveHailPerTaxi
  <2>7. y = z
    BY <1>1, <2>2, <2>5, <2>6, Transactions
  <2>8. QED
    BY <2>4, <2>7
\* There remain redistributions that wait for rows.
<1>10. ASSUME NEW x \in S
       PROVE  /\ x[1] = "reassign" /\ RowsInOrder(x)
              /\ \E k \in Hail : Head(todo[x]) = Row(k)
              /\ 1 \in DOMAIN todo[x] /\ Head(todo[x]) = todo[x][1]
  <2>1. x[1] = "reassign"
    BY <1>1, <1>6, <1>7, <1>9
  <2>2. RowsInOrder(x)
    <3>1. ASSUME todo[x] = <<IndexKey(aim[x]), Description(aim[x])>>
          PROVE  Head(todo[x]) = IndexKey(aim[x])
      BY <3>1
    <3>2. ASSUME todo[x] = <<Description(aim[x])>>
          PROVE  Head(todo[x]) = Description(aim[x])
      BY <3>2
    <3>3. QED
      BY <1>1, <1>5, <1>9, <2>1, <3>1, <3>2 DEF ReassignPlan
  <2>3. todo[x] \in Seq(Lock) /\ todo[x] # <<>>
    BY <1>1 DEF TxInv, TypeOK
  <2>4. 1 \in DOMAIN todo[x] /\ Head(todo[x]) = todo[x][1]
    BY <2>3
  <2>5. QED
    BY <2>1, <2>2, <2>4 DEF RowsInOrder
<1>11. ASSUME NEW x \in S
       PROVE  \E k \in Hail :
                 /\ Head(todo[x]) = Row(k)
                 /\ \E y \in S, m \in Hail : k < m /\ Head(todo[y]) = Row(m)
  <2>1. PICK k \in Hail : Head(todo[x]) = Row(k)
    BY <1>10
  <2>2. PICK y \in S : Has(y, Row(k))
    BY <1>2, <2>1
  <2>3. Row(k) \in holds[y]
    BY <1>10, <2>2 DEF Has
  <2>4. PICK m \in Hail : Head(todo[y]) = Row(m)
    BY <1>10
  <2>5. Row(k)[2] < Row(m)[2]
    BY <1>10, <2>3, <2>4 DEF RowsInOrder
  <2>6. QED
    BY <2>1, <2>4, <2>5, LockNames
<1>12. QED
  BY <1>11

\* Every deadlock takes a creation or an operator task that has a description
\* and asks for another lock: rows before keys before descriptions, and rows by
\* their ids, is an order in which redistributions and changes alone, however
\* many, never wait in a circle.
THEOREM DeadlocksNeedADescription == Spec => []DeadlocksTakeADescription
<1>1. Init => LocksGoToPlan
  BY DEF Init, LocksGoToPlan, Plan
<1>2. TypeOK /\ LocksGoToPlan /\ [Next]_vars => LocksGoToPlan'
  BY StepsArePlanned
<1>3. ASSUME TxInv, OneActiveHailPerTaxi, LocksGoToPlan
      PROVE  DeadlocksTakeADescription
  <2> SUFFICES ASSUME NEW S \in Circles, S # {},
                      \A x \in S : x[1] \in {"create", "send"}
                                   => Description(aim[x]) \notin holds[x]
               PROVE  FALSE
    BY DEF DeadlocksTakeADescription
  <2> DEFINE Awaited == {k \in Hail : \E x \in S : Head(todo[x]) = Row(k)}
  <2>1. \A x \in S : \E k \in Hail :
           /\ Head(todo[x]) = Row(k)
           /\ \E y \in S, m \in Hail : k < m /\ Head(todo[y]) = Row(m)
    BY <1>3, CirclesOfRowsClimb
  <2>2. Awaited \in SUBSET Hail /\ Awaited # {}
    BY <2>1
  <2>3. PICK m \in Awaited : \A k \in Awaited : k <= m
    BY <2>2, GreatestHail, Zenon
  <2>4. \E k \in Awaited : m < k
    <3>1. PICK x \in S : Head(todo[x]) = Row(m)
      BY <2>3
    <3>2. PICK k \in Hail : Head(todo[x]) = Row(k)
                            /\ \E y \in S, n \in Hail :
                                  k < n /\ Head(todo[y]) = Row(n)
      BY <2>1
    <3>3. k = m
      BY <3>1, <3>2, LockNames
    <3>4. QED
      BY <3>2, <3>3
  <2>5. QED
    BY <2>3, <2>4, Constants DEF Hail
<1>4. TxInv => TypeOK
  BY DEF TxInv
<1>5. QED
  BY <1>1, <1>2, <1>3, <1>4, Invariant, OneActiveHail, PTL DEF Spec
===============================================================================
