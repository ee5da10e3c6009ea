--------------------------------- MODULE Stat ---------------------------------
(***************************************************************************)
(* The statistics of util/stat.cpp.  Each thread updates its own map from  *)
(* keys to integers, which it creates, and enters into the vector          *)
(* stat_thread_data_list, at its first use.  Any thread may add up, or     *)
(* take the maximum of, the maps of all threads.                           *)
(*                                                                         *)
(* Every access to a map is made under the mutex of that map and is one    *)
(* step here.  Entering a map into the vector is done under a mutex as     *)
(* well, but the queries walk the vector without taking it: when the       *)
(* vector has grown meanwhile their iterator points into freed storage.    *)
(***************************************************************************)
EXTENDS Integers, Sequences, FiniteSets, Functions

CONSTANTS
    Threads,    \* the threads that keep statistics
    None,       \* no map, no key
    Keys,       \* the keys in use: a subset of AllKeys
    INT64_MIN,  \* the least integer: below every value
    Values,     \* the values that are set
    MaxUpdates, \* bound: calls that change a map
    MaxQueries  \* bound: calls that visit all maps

\* Three keys, each used the way the header describes: a counter that is only
\* incremented, a maximum, and a value that is set and decremented at will.
AllKeys == {"hits", "peak", "gauge"}

ASSUME StatConstants ==
    /\ IsFiniteSet(Threads) /\ None \notin Threads
    /\ Keys \subseteq AllKeys
    /\ \A K \in SUBSET AllKeys : None \notin [K -> Int]
    /\ INT64_MIN \in Int /\ INT64_MIN < 0 /\ Values \subseteq Int
    /\ MaxUpdates \in Nat /\ MaxQueries \in Nat
    /\ \A v \in Values : v - MaxUpdates > INT64_MIN

VARIABLES
    key,        \* each thread's value of stat_pthread_key: has it a map?
    pc,         \* where each thread is in stat_init_thread_data
    holder,     \* who holds stat_thread_data_list_mutex
    list,       \* stat_thread_data_list: the owners of the maps in it
    storage,    \* the address of the vector's elements: it changes when it grows
    capacity,   \* how many elements the storage has room for
    data,       \* each thread's map int_value; None when there is none
    updates,    \* how many updates were made
    query,      \* the running query: what it asks for; None when there is none
    iter,       \* its iterator: storage and position
    result,     \* what it has computed
    before,     \* history: the sum of the counter and the maximum when it began
    queries,    \* how many queries were begun
    destroyed,  \* was stat_destroy() called?
    undefined   \* what undefined behaviour has happened: "no" or its cause

registry == <<key, pc, holder, list, storage, capacity>>
reading  == <<query, iter, result, before, queries>>
vars     == <<registry, data, updates, reading, destroyed, undefined>>

Queries == {[op |-> "all", key |-> None]}
             \cup [op : {"sum", "max"}, key : Keys]

\* int_value[k]: a key that is looked up this way and absent is entered with 0.
Lookup(f, k) == IF k \in DOMAIN f THEN f[k] ELSE 0

\* int_value[k] = v.
Put(f, k, v) == [x \in DOMAIN f \cup {k} |-> IF x = k THEN v ELSE f[x]]

Registered == {t \in Threads : data[t] # None}

Total(k) == SumFunction([t \in Registered |-> Lookup(data[t], k)])

Greatest(k) ==
    LET vs == {data[t][k] : t \in {u \in Registered : k \in DOMAIN data[u]}}
    IN  IF vs = {} THEN INT64_MIN ELSE CHOOSE v \in vs : \A w \in vs : w <= v

NoResult == [sum |-> [k \in Keys |-> 0], max |-> [k \in Keys |-> INT64_MIN]]

Init ==
    /\ key = [t \in Threads |-> FALSE] /\ pc = [t \in Threads |-> "idle"]
    /\ holder = None /\ list = <<>> /\ storage = 0 /\ capacity = 0
    /\ data = [t \in Threads |-> None] /\ updates = 0
    /\ query = None /\ iter = [storage |-> 0, pos |-> 1] /\ result = NoResult
    /\ before = [sum |-> 0, max |-> INT64_MIN]
    /\ queries = 0
    /\ destroyed = FALSE /\ undefined = "no"

Defined == undefined = "no"

-----------------------------------------------------------------------------
(* stat_init_thread_data: a thread's first use.                            *)

InitThreadData(t) ==
    /\ Defined /\ pc[t] = "idle" /\ ~key[t] /\ holder = None
    /\ holder' = t
    /\ key' = [key EXCEPT ![t] = TRUE]
    /\ data' = [data EXCEPT ![t] = <<>>]
    /\ pc' = [pc EXCEPT ![t] = "push"]
    /\ UNCHANGED <<list, storage, capacity, updates, reading,
                   destroyed, undefined>>

\* push_back() and the release of the mutex.  A vector without room for one
\* more moves its elements to storage of twice the size.
PushThreadData(t) ==
    /\ Defined /\ pc[t] = "push"
    /\ list' = Append(list, t)
    /\ IF Len(list) < capacity
       THEN UNCHANGED <<storage, capacity>>
       ELSE /\ storage' = storage + 1
            /\ capacity' = IF capacity = 0 THEN 1 ELSE 2 * capacity
    /\ holder' = None
    /\ pc' = [pc EXCEPT ![t] = "idle"]
    /\ UNCHANGED <<key, data, updates, reading, destroyed, undefined>>

-----------------------------------------------------------------------------
(* Updates.  A thread whose map was deleted by stat_destroy() still has    *)
(* the pointer to it.                                                      *)

Touch(t) ==
    /\ Defined /\ key[t] /\ pc[t] = "idle" /\ updates < MaxUpdates
    /\ updates' = updates + 1
    /\ UNCHANGED <<registry, reading, destroyed>>

Update(t, k, v) ==
    /\ data' = [data EXCEPT ![t] = Put(@, k, v)]
    /\ UNCHANGED undefined

StatSet(t, v) ==
    /\ "gauge" \in Keys /\ Touch(t) /\ data[t] # None
    /\ Update(t, "gauge", v)

StatSetMax(t, v) ==
    /\ "peak" \in Keys /\ Touch(t) /\ data[t] # None
    /\ LET old == Lookup(data[t], "peak")
       IN  Update(t, "peak", IF v > old THEN v ELSE old)

StatIncr(t) ==
    /\ "hits" \in Keys /\ Touch(t) /\ data[t] # None
    /\ Update(t, "hits", Lookup(data[t], "hits") + 1)

StatDecr(t) ==
    /\ "gauge" \in Keys /\ Touch(t) /\ data[t] # None
    /\ Update(t, "gauge", Lookup(data[t], "gauge") - 1)

\* stat_get() reads the thread's own value with operator[]: it may enter a 0.
StatGet(t, k) ==
    /\ Touch(t) /\ data[t] # None
    /\ data' = [data EXCEPT ![t] = Put(@, k, Lookup(@, k))]
    /\ UNCHANGED undefined

\* Any of these calls after stat_destroy().
TouchDeleted(t) ==
    /\ Touch(t) /\ data[t] = None
    /\ undefined' = "deleted map"
    /\ UNCHANGED data

\* stat_destroy(): clear() keeps the storage.
StatDestroy ==
    /\ Defined /\ ~destroyed /\ holder = None
    /\ destroyed' = TRUE
    /\ data' = [t \in Threads |-> None]
    /\ list' = <<>>
    /\ UNCHANGED <<key, pc, holder, storage, capacity, updates,
                   reading, undefined>>

-----------------------------------------------------------------------------
(* Queries: stat_get_all, stat_get_sum, stat_get_max.                      *)

QueryBegin(q) ==
    /\ Defined /\ query = None /\ queries < MaxQueries
    /\ query' = q
    /\ iter' = [storage |-> storage, pos |-> 1]
    /\ result' = NoResult
    /\ before' = [sum |-> Total("hits"), max |-> Greatest("peak")]
    /\ queries' = queries + 1
    /\ UNCHANGED <<registry, data, updates, destroyed, undefined>>

\* data_iter != end(): the iterator is before the end or at it, or it is one
\* that never meets it.
InRange == iter.storage = storage /\ iter.pos \in DOMAIN list
AtEnd   == iter.storage = storage /\ iter.pos = Len(list) + 1

Max2(a, b) == IF a < b THEN b ELSE a

\* Mutant: the last map read wins.
AssignSum(f, ks) == [k \in Keys |-> IF k \in ks THEN Lookup(f, k)
                                    ELSE result.sum[k]]

AddToSum(f, ks) == [k \in Keys |-> IF k \in ks THEN result.sum[k] + Lookup(f, k)
                                   ELSE result.sum[k]]

AddToMax(f, ks) == [k \in Keys |-> IF k \in ks \cap DOMAIN f
                                   THEN Max2(result.max[k], f[k])
                                   ELSE result.max[k]]

\* The body of the loop, for one map.  stat_get_sum() reads with operator[].
QueryVisit ==
    /\ Defined /\ query # None /\ InRange
    /\ LET t  == list[iter.pos]
           f  == data[t]
           ks == IF query.op = "all" THEN Keys ELSE {query.key}
       IN  /\ result' = [sum |-> AddToSum(f, ks), max |-> AddToMax(f, ks)]
           /\ data' = IF query.op = "sum"
                      THEN [data EXCEPT ![t] = Put(f, query.key, Lookup(f, query.key))]
                      ELSE data
    /\ iter' = [iter EXCEPT !.pos = @ + 1]
    /\ UNCHANGED <<registry, updates, query, before, queries,
                   destroyed, undefined>>

\* The query returns and its caller has used the result.
QueryEnd ==
    /\ Defined /\ query # None /\ AtEnd
    /\ query' = None
    /\ UNCHANGED <<registry, data, updates, iter, result, before,
                   queries, destroyed, undefined>>

\* The vector has moved, or was cleared behind the iterator: the query reads
\* storage that is not the vector's.
QueryAstray ==
    /\ Defined /\ query # None /\ ~InRange /\ ~AtEnd
    /\ undefined' = IF destroyed THEN "deleted map" ELSE "stale iterator"
    /\ UNCHANGED <<registry, data, updates, reading, destroyed>>

-----------------------------------------------------------------------------
Next ==
    \/ \E t \in Threads :
          \/ InitThreadData(t) \/ PushThreadData(t)
          \/ StatIncr(t) \/ StatDecr(t) \/ TouchDeleted(t)
          \/ \E v \in Values : StatSet(t, v) \/ StatSetMax(t, v)
          \/ \E k \in Keys : StatGet(t, k)
    \/ StatDestroy
    \/ \E q \in Queries : QueryBegin(q)
    \/ QueryVisit \/ QueryEnd \/ QueryAstray

Spec == Init /\ [][Next]_vars

-----------------------------------------------------------------------------
(* Properties.                                                             *)

\* Every variable has its type.
TypeOK ==
    /\ key \in [Threads -> BOOLEAN]
    /\ pc \in [Threads -> {"idle", "push"}]
    /\ holder \in Threads \cup {None}
    /\ list \in Seq(Threads) /\ Len(list) <= Cardinality(Threads)
    /\ storage \in Nat /\ capacity \in Nat /\ Len(list) <= capacity
    /\ \A t \in Threads : data[t] # None => DOMAIN data[t] \subseteq Keys
    /\ updates \in 0 .. MaxUpdates /\ queries \in 0 .. MaxQueries
    /\ query \in Queries \cup {None}
    /\ iter \in [storage : Nat, pos : Nat \ {0}]
    /\ destroyed \in BOOLEAN
    /\ undefined \in {"no", "stale iterator", "deleted map"}

\* Does the running query return the sum (the maximum) of k?
Asked(op, k) == k \in Keys /\ query # None /\ (query.op = "all" \/ query = [op |-> op, key |-> k])

Returning == Defined /\ ~destroyed /\ query # None /\ AtEnd

\* A counter that is only incremented: the sum a query returns lies between
\* the true total when it was called and the true total when it returns,
\* although the maps are read one after the other and threads come and go; the
\* same for the maximum of a key that is only raised with stat_set_max().
ResultWindow ==
    Returning =>
        /\ Asked("sum", "hits") =>
              before.sum <= result.sum["hits"] /\ result.sum["hits"] <= Total("hits")
        /\ Asked("max", "peak") =>
              before.max <= result.max["peak"] /\ result.max["peak"] <= Greatest("peak")

=============================================================================
