------------------------------- MODULE Tables -------------------------------
(***************************************************************************)
(* Workers that compute decision diagram operations over the unique table  *)
(* and the operation cache, and the collection that runs when the table is *)
(* full: sylvan_gc_go of src/sylvan_common.c with the retry of             *)
(* _mtbdd_makenode (src/sylvan_mtbdd.c).  The operation with key k yields  *)
(* the node Node[k].  A worker is idle, in cache_get, in llmsset_lookup,   *)
(* in cache_put, or rehashes.                                              *)
(***************************************************************************)
EXTENDS NodeTable, OpCache
CONSTANTS Node          \* key -> pair
VARIABLES held,         \* <<key, index>> of the results still referenced
          torehash,     \* marked buckets no worker has rehashed yet
          rehashing,    \* per worker: the one it is rehashing, or NoOne
          collector,    \* the worker that collects, or NoOne
          again         \* per worker: the collection has been tried already
vars == <<tabvars, pc, cachevars, held, torehash, rehashing, collector, again>>
NoOne == -1

ASSUME OpsAssumption ==
    /\ Users = Workers
    /\ Node \in [Keys -> Pairs] /\ Slot \in [Keys -> 0 .. Slots - 1]

Init == /\ llmsset_create /\ pc = [w \in Workers |-> "idle"]
        /\ cache_create
        /\ held = {} /\ torehash = {} /\ collector = NoOne
        /\ rehashing = [w \in Workers |-> NoOne]
        /\ again = [w \in Workers |-> FALSE]
SameGc == UNCHANGED <<torehash, rehashing, collector, again>>

(* An operation starts, except while the others are in the collection. *)
Begin(w, k) ==
    /\ pc[w] = "idle" /\ collector = NoOne
    /\ At(w, "get") /\ StartGet(w, k)
    /\ UNCHANGED <<tabvars, held>> /\ SameGc
Get(w) == /\ pc[w] = "get" /\ cache_get(w)
          /\ UNCHANGED <<tabvars, pc, held>> /\ SameGc
Finish(w) == /\ At(w, "idle")
             /\ cpc' = [cpc EXCEPT ![w] = "idle"] /\ key' = [key EXCEPT ![w] = <<0, 0>>]
             /\ got' = [got EXCEPT ![w] = 0] /\ seen' = seen
Hit(w) == /\ pc[w] = "get" /\ cpc[w] = "hit"
          /\ held' = held \cup {<<key[w], got[w]>>}
          /\ Finish(w) /\ UNCHANGED <<tabvars, cstatus, entry>> /\ SameGc
Miss(w) == /\ pc[w] = "get" /\ cpc[w] = "miss"
           /\ StartLookup(w, Node[key[w]])
           /\ UNCHANGED <<cachevars, held>> /\ SameGc
Look(w) == llmsset_lookup(w) /\ UNCHANGED <<cachevars, held>> /\ SameGc
Found(w) == /\ pc[w] = "found" /\ At(w, "put") /\ StartPut(w, res[w])
            /\ held' = held \cup {<<key[w], res[w]>>}
            /\ again' = [again EXCEPT ![w] = FALSE]
            /\ res' = [res EXCEPT ![w] = 0] /\ want' = [want EXCEPT ![w] = Zero]
            /\ UNCHANGED <<Shared, line, off, cidx, left, reg, torehash, rehashing, collector>>
Put(w) == /\ pc[w] = "put" /\ cache_put(w)
          /\ UNCHANGED <<tabvars, pc, held>> /\ SameGc
Over(w) == /\ pc[w] = "put" /\ cpc[w] = "over" /\ Finish(w)
           /\ UNCHANGED <<tabvars, cstatus, entry, held>> /\ SameGc
(* The program lets go of a result. *)
Drop == /\ \E h \in held : held' = held \ {h}
        /\ collector = NoOne /\ \A w \in Workers : pc[w] \in {"idle", "full"}
        /\ UNCHANGED <<tabvars, pc, cachevars>> /\ SameGc

(* sylvan_gc_go up to the parallel rehash.  The other workers are waiting  *)
(* at the beginning of an operation or for the collection themselves.      *)
Marked == {0, 1} \cup {h[2] : h \in held}
sylvan_gc_aggressive_resize ==
    /\ table_size' = IF table_size < max_size THEN 2 * table_size ELSE table_size
    /\ threshold' = IF table_size < max_size THEN Lines ELSE threshold
llmsset_reset_region == my_region' = [w \in Workers |-> NoRegion]
sylvan_gc_go(w) ==
    /\ pc[w] = "full" /\ ~again[w] /\ collector = NoOne
    /\ \A v \in Workers : pc[v] \in {"idle", "full"}
    /\ cache_clear
    /\ bitmap1' = {} /\ bitmap2' = Marked /\ llmsset_reset_region
    /\ sylvan_gc_aggressive_resize
    /\ table' = [b \in Buckets |-> Empty]
    /\ torehash' = Marked /\ collector' = w
    /\ again' = [v \in Workers |-> pc[v] = "full"]
    /\ UNCHANGED <<data, max_size, want, line, off, cidx, left, reg, res, pc, cpc, key, seen, got,
                   held, rehashing>>

(* The marked buckets, 0 and 1 among them, are shared out to the workers. *)
llmsset_rehash_par(w) ==
    /\ collector # NoOne /\ rehashing[w] = NoOne
    /\ \E i \in torehash : /\ rehashing' = [rehashing EXCEPT ![w] = i]
                           /\ torehash' = torehash \ {i}
    /\ UNCHANGED <<tabvars, pc, cachevars, held, collector, again>>
llmsset_rehash_bucket(w) ==
    /\ rehashing[w] # NoOne /\ RehashBucket(w, rehashing[w])
    /\ rehashing' = IF table' = table THEN rehashing ELSE [rehashing EXCEPT ![w] = NoOne]
    /\ UNCHANGED <<data, bitmap1, bitmap2, table_size, max_size, my_region, want, cidx, left, reg, res>>
    /\ UNCHANGED <<pc, cachevars, held, torehash, collector, again>>

(* The table has been collected: every worker that waited looks again. *)
EndGc ==
    /\ collector # NoOne /\ torehash = {} /\ \A w \in Workers : rehashing[w] = NoOne
    /\ collector' = NoOne
    /\ pc' = [w \in Workers |-> IF pc[w] = "full" THEN "probe" ELSE pc[w]]
    /\ UNCHANGED <<tabvars, cachevars, held, torehash, rehashing, again>>

WorkerStep(w) ==
    \/ Get(w) \/ Hit(w) \/ Miss(w) \/ Look(w) \/ Found(w) \/ Put(w) \/ Over(w)
    \/ sylvan_gc_go(w) \/ llmsset_rehash_par(w) \/ llmsset_rehash_bucket(w)
Next == \/ Drop \/ EndGc
        \/ \E w \in Workers : (\E k \in Keys : Begin(w, k)) \/ WorkerStep(w)
Spec == Init /\ [][Next]_vars

-----------------------------------------------------------------------------
(* Every node in the table is found by a lookup of its contents: there is  *)
(* no second node like it, no hole before it in its probe sequence, and    *)
(* the threshold reaches it, in the middle of a parallel rehash too.       *)
UniqueNodes == \A b \in Buckets :
                  table[b] \notin {Empty, 0, 1} => Find(data[table[b]]) = table[b]

(* Whatever way a result came, from the cache or the table, and whatever   *)
(* has been collected since, it is the node a lookup finds.                *)
ResultsTrue == collector = NoOne => \A h \in held : Find(Node[h[1]]) = h[2]

(* No two workers fill the same region or hold the same data bucket, and   *)
(* what they hold is marked in use and not yet in the table.               *)
OwnBuckets ==
    \A w \in Workers :
        /\ my_region[w] = NoRegion \/ my_region[w] \in bitmap1
        /\ cidx[w] # 0 => cidx[w] \in bitmap2 /\ \A b \in Buckets : table[b] # cidx[w]
        /\ \A v \in Workers \ {w} :
              /\ my_region[v] = my_region[w] => my_region[w] = NoRegion
              /\ cidx[v] = cidx[w] => cidx[w] = 0
=============================================================================
