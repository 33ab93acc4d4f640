------------------------------ MODULE OpCache ------------------------------
(***************************************************************************)
(* The operation cache of src/sylvan_cache.c: entries of three key words   *)
(* and a result, guarded by a status word that is a lock, part of the hash *)
(* and a counter of puts.  Readers take no lock.  A key is modelled by two *)
(* words; one step is one access to a word of the entry or of the status.  *)
(***************************************************************************)
EXTENDS Integers
CONSTANTS Users,       \* the threads that use the cache
          Slots,       \* cache_size buckets, numbered from 0
          Keys,        \* pairs of words
          Slot,        \* key -> bucket and
          Part,        \* key -> the part of the hash that status keeps
          TAG          \* 2^16 in the code
VARIABLES cstatus,     \* bucket -> [lock, part, tag]
          entry,       \* bucket -> [a, b, res]
          cpc, key, seen, got   \* per user: place, key, status read, result
cachevars == <<cstatus, entry, cpc, key, seen, got>>

NoStatus == [lock |-> FALSE, part |-> 0, tag |-> 0]
NoEntry == [a |-> 0, b |-> 0, res |-> 0]
cache_table == [s \in 0 .. Slots - 1 |-> NoEntry]
cache_status == [s \in 0 .. Slots - 1 |-> NoStatus]
cache_create == /\ cstatus = cache_status /\ entry = cache_table
                /\ cpc = [u \in Users |-> "idle"]
                /\ key = [u \in Users |-> <<0, 0>>]
                /\ seen = [u \in Users |-> NoStatus] /\ got = [u \in Users |-> 0]
cache_clear == cstatus' = cache_status /\ entry' = cache_table

CAt(u, l) == cpc' = [cpc EXCEPT ![u] = l]
CEnd(u, l) == /\ CAt(u, l) /\ seen' = [seen EXCEPT ![u] = NoStatus]
Stat(u) == cstatus[Slot[key[u]]]
Entry(u) == entry[Slot[key[u]]]

StartGet(u, k) == /\ key' = [key EXCEPT ![u] = k] /\ got' = [got EXCEPT ![u] = 0]
                  /\ CAt(u, "get") /\ UNCHANGED <<cstatus, entry, seen>>
GetStatus(u) ==
    /\ cpc[u] = "get"
    /\ \/ /\ ~Stat(u).lock /\ Stat(u).part = Part[key[u]]
          /\ seen' = [seen EXCEPT ![u] = Stat(u)] /\ CAt(u, "key")
       \/ /\ Stat(u).lock \/ Stat(u).part # Part[key[u]]
          /\ CAt(u, "miss") /\ UNCHANGED seen
    /\ UNCHANGED <<cstatus, entry, key, got>>
(* The words of the key are read one after the other. *)
GetWord(u, l, same, m) ==
    /\ cpc[u] = l
    /\ \/ same /\ CAt(u, m) /\ UNCHANGED seen
       \/ ~same /\ CEnd(u, "miss")
    /\ UNCHANGED <<cstatus, entry, key, got>>
GetKey(u) == \/ GetWord(u, "key", Entry(u).a = key[u][1], "keyb")
             \/ GetWord(u, "keyb", Entry(u).b = key[u][2], "res")
GetRes(u) ==
    /\ cpc[u] = "res"
    /\ got' = [got EXCEPT ![u] = Entry(u).res]
    /\ CAt(u, "check") /\ UNCHANGED <<cstatus, entry, key, seen>>
(* Mutant: the status is not read a second time. *)
TakeAnyway(u) ==
    /\ cpc[u] = "check"
    /\ CEnd(u, "hit") /\ UNCHANGED <<got, cstatus, entry, key>>
CheckStatus(u) ==
    /\ cpc[u] = "check"
    /\ \/ Stat(u) = seen[u] /\ CEnd(u, "hit") /\ UNCHANGED got
       \/ Stat(u) # seen[u] /\ CEnd(u, "miss") /\ got' = [got EXCEPT ![u] = 0]
    /\ UNCHANGED <<cstatus, entry, key>>
cache_get(u) == GetStatus(u) \/ GetKey(u) \/ GetRes(u) \/ CheckStatus(u)

StartPut(u, r) == /\ got' = [got EXCEPT ![u] = r]
                  /\ CAt(u, "put") /\ UNCHANGED <<cstatus, entry, key, seen>>
PutStatus(u) ==
    /\ cpc[u] = "put"
    /\ \/ Stat(u).lock /\ CAt(u, "over") /\ UNCHANGED seen
       \/ /\ ~Stat(u).lock
          /\ seen' = [seen EXCEPT ![u] = Stat(u)] /\ CAt(u, "claim")
    /\ UNCHANGED <<cstatus, entry, key, got>>
NewStatus(u) == [lock |-> FALSE, part |-> Part[key[u]], tag |-> (seen[u].tag + 1) % TAG]
PutClaim(u) ==
    /\ cpc[u] = "claim"
    /\ \/ /\ Stat(u) = seen[u]
          /\ cstatus' = [cstatus EXCEPT ![Slot[key[u]]] = [NewStatus(u) EXCEPT !.lock = TRUE]]
          /\ CAt(u, "worda") /\ UNCHANGED seen
       \/ Stat(u) # seen[u] /\ CEnd(u, "over") /\ UNCHANGED cstatus
    /\ UNCHANGED <<entry, key, got>>
PutWord(u, l, e, m) ==
    /\ cpc[u] = l /\ CAt(u, m)
    /\ entry' = [entry EXCEPT ![Slot[key[u]]] = e]
    /\ UNCHANGED <<cstatus, key, seen, got>>
PutData(u) ==
    \/ PutWord(u, "worda", [Entry(u) EXCEPT !.a = key[u][1]], "wordb")
    \/ PutWord(u, "wordb", [Entry(u) EXCEPT !.b = key[u][2]], "wordres")
    \/ PutWord(u, "wordres", [Entry(u) EXCEPT !.res = got[u]], "unlock")
PutUnlock(u) ==
    /\ cpc[u] = "unlock"
    /\ cstatus' = [cstatus EXCEPT ![Slot[key[u]]] = NewStatus(u)]
    /\ CEnd(u, "over") /\ UNCHANGED <<entry, key, got>>
cache_put(u) == PutStatus(u) \/ PutClaim(u) \/ PutData(u) \/ PutUnlock(u)
=============================================================================
