------------------------------ MODULE ActiveTaxis ------------------------------
(***************************************************************************)
(* What store_active_taxis makes of the positions: six counts of the taxis *)
(* heard of in the last minutes, which it logs to six tables; and what the *)
(* pages of the ZUPC and of the administration read there. They are        *)
(* functions of the entries the task reads from Redis (Updates) and of the *)
(* rows of the vehicles, for a page that finds one run of the task.        *)
(***************************************************************************)
EXTENDS Positions, Sums

CONSTANTS
    Town,
    TownOf,         \* of the taxi's ADS
    Zupc,
    TownsOf         \* the towns whose taxis are allowed in a ZUPC

ASSUME ActiveTaxisAssumption ==
    /\ TownOf \in [Taxi -> Town]
    /\ TownsOf \in [Zupc -> SUBSET Town]
    /\ IsFiniteSet(Taxi)
    /\ Town \cap Zupc = {}      \* insee codes and ids

-------------------------------------------------------------------------------
(* The entries that count *)

\* The dictionary keyed by taxi keeps the operator whose entry comes last: the
\* index is read in the order of dates, the hashes in any order.
Kept(minutes) ==
    LET entries == Updates(minutes)
        IsLast(e) == minutes <= Ceil(GPS_FRESHNESS, Minute)
            => \A d \in entries : d[1] = e[1] => timestamps[d] <= timestamps[e]
    IN  {operator \in [{e[1] : e \in entries} -> Operator] :
            \A t \in DOMAIN operator :
                <<t, operator[t]>> \in entries /\ IsLast(<<t, operator[t]>>)}

\* Mutant: a list of pairs instead of the dictionary.
ToLogEvery(minutes, operator) == Updates(minutes)

\* Each taxi with the description of its vehicle by that operator.
ToLog(minutes, operator) == {<<t, operator[t]>> : t \in DOMAIN operator}

-------------------------------------------------------------------------------
(* _log_active_taxis *)

Total(log) == Cardinality({e[1] : e \in log})

ByInsee(log) ==
    [c \in {TownOf[e[1]] : e \in log} |->
        Cardinality({t \in {e[1] : e \in log} : TownOf[t] = c})]

\* A town no active taxi is from counts zero.
ByZupc(log) ==
    LET insee == ByInsee(log) IN
    [z \in {y \in Zupc : TownsOf[y] \cap DOMAIN insee # {}} |->
        SumOver(insee, TownsOf[z] \cap DOMAIN insee)]

ByOperator(log) ==
    [o \in {e[2] : e \in log} |-> Cardinality({e \in log : e[2] = o})]

Free(log) == {e \in log : status[e] = "free"}

ByInseeAndOperator(log) ==
    [k \in {<<TownOf[e[1]], e[2]>> : e \in Free(log)} |->
        Cardinality({e \in Free(log) : <<TownOf[e[1]], e[2]>> = k})]

ByZupcAndOperator(log) ==
    LET In(z, o) == {e \in Free(log) : TownOf[e[1]] \in TownsOf[z] /\ e[2] = o}
    IN  [k \in {j \in (DOMAIN ByZupc(log)) \X Operator : In(j[1], j[2]) # {}} |->
            Cardinality(In(k[1], k[2]))]

-------------------------------------------------------------------------------
(* Who reads them: a town is asked for by its insee code, a ZUPC by its id. *)

Value(table, key) == IF key \in DOMAIN table THEN table[key] ELSE 0

\* get_nb_active_taxis, of everybody and of one operator: the table is chosen
\* by the arguments that are there.
get_nb_active_taxis(log, place) ==
    Value(IF place \in Town THEN ByInsee(log) ELSE ByZupc(log), place)

get_nb_active_taxis_of(log, place, o) ==
    Value(IF place \in Town THEN ByInseeAndOperator(log) ELSE ByZupcAndOperator(log),
          <<place, o>>)

\* What an admin who is also the operator o is told.
_get_zupc_stats(log, place, o) ==
    [total |-> get_nb_active_taxis(log, place),
     operators |-> get_nb_active_taxis_of(log, place, o)]

\* GET /zupc, of a point in these towns: their ZUPC, or themselves without one.
zupc_list(log, towns, o) ==
    LET zupcs == {z \in Zupc : TownsOf[z] \cap towns # {}} IN
    [place \in (IF zupcs = {} THEN towns ELSE zupcs) |-> _get_zupc_stats(log, place, o)]

\* GET /zupc/live
zupc_live(log, o) == [z \in Zupc |-> _get_zupc_stats(log, z, o)]

\* connected_taxis_now of GET /stats/taxis, filtered by town (by operator it is
\* always zero)
get_realtime_connected_taxis(log, towns) ==
    LET insee == ByInsee(log) IN SumOver(insee, DOMAIN insee \cap towns)

-------------------------------------------------------------------------------
(* Properties *)

\* What a run of the task may log.
Logs(minutes) == {ToLog(minutes, operator) : operator \in Kept(minutes)}

TablesAgree(log) ==
    LET insee == ByInseeAndOperator(log)
        zupc == ByZupcAndOperator(log)
    IN  /\ SumOf(ByInsee(log)) = Total(log)
        /\ SumOf(ByOperator(log)) = Total(log)
        /\ SumOf(insee) = Cardinality(Free(log))
        /\ \A k \in DOMAIN zupc : zupc[k] = SumOver(insee,
                {j \in DOMAIN insee : j[1] \in TownsOf[k[1]] /\ j[2] = k[2]})

\* The free taxis of all the operators in a place are no more than its taxis, a
\* ZUPC has those of its towns, and the towns together those of the country.
PagesAgree(log) ==
    LET Now(towns) == get_realtime_connected_taxis(log, towns)
        Fits(shown) ==
            LET free == UNION {{s[1]} \X (1..s[2].operators) : s \in shown} IN
            \A s \in shown : Cardinality(free) <= s[2].total
    IN  /\ Now(Town) = Total(log)
        /\ \A c \in Town :
            LET pages == {<<o, zupc_list(log, {c}, o)>> : o \in Operator} IN
            \A place \in UNION {DOMAIN p[2] : p \in pages} :
                Fits({<<p[1], p[2][place]>> : p \in pages})
        /\ \A z \in Zupc, o \in Operator :
            zupc_live(log, o)[z].total = Now(TownsOf[z])

\* The six tables tell of the same taxis, although a taxi reports through
\* several operators and towns belong to several ZUPC: every taxi heard of is
\* counted in one town and for one operator, and the free ones of each operator
\* in a ZUPC are those of its towns. So do the pages that show them.
GroupsAddUp ==
    LET last == Logs(1)         \* from the index
        longer == Logs(2)       \* from the hashes, with a freshness of a minute
    IN  /\ \A log \in last : Total(log) = Cardinality({e[1] : e \in Updates(1)})
        /\ \A log \in longer : Total(log) = Cardinality({e[1] : e \in Updates(2)})
        /\ \A log \in last \cup longer : TablesAgree(log)
        /\ \A log \in last : PagesAgree(log)
===============================================================================
