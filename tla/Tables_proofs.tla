--------------------------- MODULE Tables_proofs ----------------------------
(***************************************************************************)
(* Theorems about Tables for any number of workers, any sizes of cache     *)
(* line, region and table, and any hash function.                          *)
(***************************************************************************)
EXTENDS Tables, FiniteSetTheorems, TLAPS

-----------------------------------------------------------------------------
(* The inductive invariant.                                                *)

Sizes == CHOOSE S \in SUBSET (MinSize .. MaxSize) :
            MinSize \in S /\ \A s \in S : s = MaxSize \/ 2 * s \in S
Places == {"idle", "get", "probe", "claim", "cas", "full", "found", "put"}
Looking == {"probe", "claim", "cas"}
Words == {0} \cup {k[1] : k \in Keys} \cup {k[2] : k \in Keys}
Entries == [a : Words, b : Words, res : Buckets]

TableType ==
    /\ table \in [Buckets -> Buckets \cup {Empty}]
    /\ data \in [Buckets -> Pairs \cup {Zero}]
    /\ bitmap2 \in SUBSET Buckets
    /\ table_size \in Sizes /\ max_size \in {MinSize, MaxSize}
    /\ table_size % LINE = 0 /\ table_size % REGION = 0
    /\ threshold \in Nat \ {0}
WorkerType ==
    /\ my_region \in [Workers -> {NoRegion} \cup 0 .. Regions - 1]
    /\ reg \in [Workers -> {NoRegion} \cup 0 .. Regions - 1]
    /\ pc \in [Workers -> Places]
    /\ want \in [Workers -> Pairs \cup {Zero}]
    /\ line \in [Workers -> Nat] /\ off \in [Workers -> 0 .. LINE]
    /\ cidx \in [Workers -> Buckets] /\ res \in [Workers -> Buckets]
CacheType ==
    /\ entry \in [0 .. Slots - 1 -> Entries]
    /\ got \in [Workers -> Buckets]
    /\ DOMAIN cpc = Workers /\ DOMAIN key = Workers
    /\ \A w \in Workers : pc[w] # "idle" => key[w] \in Keys
GcType ==
    /\ torehash \in SUBSET Buckets
    /\ rehashing \in [Workers -> Buckets \cup {NoOne}]
    /\ collector \in Workers \cup {NoOne}

(* The probe sequence of p, numbered from 0. *)
Pos(p, n) == ProbeAt(p, n \div LINE, n % LINE, table_size)
Here(w) == line[w] * LINE + off[w]
Occupied(p, k) == \A n \in 0 .. k - 1 : table[Pos(p, n)] # Empty
Others(p, k) == \A n \in 0 .. k - 1 : data[table[Pos(p, n)]] # p
SeatAt(p, i, n) == /\ n < threshold * LINE
                   /\ table[Pos(p, n)] = i /\ data[i] = p
                   /\ Occupied(p, n) /\ Others(p, n)

(* Every node of the table sits where the probe sequence of its contents   *)
(* meets it first.                                                         *)
Seats == \A b \in Buckets :
            table[b] \notin {Empty, 0, 1} =>
               \E n \in Nat : SeatAt(data[table[b]], table[b], n)

(* The data buckets: those of the table are in use and hold pairs, but for *)
(* the two unused ones.                                                    *)
InUse ==
    /\ {0, 1} \subseteq bitmap2 /\ data[0] = Zero /\ data[1] = Zero
    /\ \A b \in Buckets : table[b] # Empty => table[b] \in bitmap2
    /\ \A i \in bitmap2 \ {0, 1} : data[i] \in Pairs

(* What a lookup has passed did not hold its pair and never will. *)
PassedBy(w) ==
    /\ pc[w] \in Looking => /\ line[w] < threshold /\ off[w] < LINE
                            /\ Occupied(want[w], Here(w))
                            /\ Others(want[w], Here(w))
    /\ pc[w] \in Looking \cup {"full"} => want[w] \in Pairs
    /\ pc[w] \notin Looking /\ rehashing[w] = NoOne => line[w] = 0 /\ off[w] = 0
Passed == \A w \in Workers : PassedBy(w)

(* A claimed bucket is in use, holds the pair looked for, is in the region *)
(* of the worker and not yet in the table, nor claimed by another worker.  *)
Claims ==
    \A w \in Workers :
        /\ my_region[w] # NoRegion => my_region[w] \in bitmap1
        /\ \A v \in Workers \ {w} : my_region[v] = my_region[w] => my_region[w] = NoRegion
        /\ pc[w] # "claim" => reg[w] = NoRegion
        /\ pc[w] = "cas" => cidx[w] # 0
        /\ pc[w] \notin {"probe", "cas"} => cidx[w] = 0
        /\ cidx[w] # 0 =>
             /\ cidx[w] \in bitmap2 \ {0, 1} /\ data[cidx[w]] = want[w]
             /\ my_region[w] # NoRegion
             /\ cidx[w] \in my_region[w] * REGION .. my_region[w] * REGION + REGION - 1
             /\ \A b \in Buckets : table[b] # cidx[w]
             /\ \A v \in Workers \ {w} : cidx[v] # cidx[w]

(* The collection: everyone else waits; a marked bucket is still to be     *)
(* rehashed, or in the hands of one worker, or in the table; no two hold   *)
(* the same pair.                                                          *)
Collecting ==
    /\ collector # NoOne => \A w \in Workers : pc[w] \in {"idle", "full"}
    /\ collector = NoOne => torehash = {} /\ \A w \in Workers : rehashing[w] = NoOne
    /\ torehash \subseteq bitmap2
    /\ \A b \in Buckets : table[b] \notin torehash
    /\ \A w \in Workers :
          rehashing[w] # NoOne =>
             /\ rehashing[w] \in bitmap2 \ torehash
             /\ \A b \in Buckets : table[b] # rehashing[w]
             /\ \A v \in Workers \ {w} : rehashing[v] # rehashing[w]
             /\ line[w] < threshold
             /\ Occupied(data[rehashing[w]], Here(w))
    /\ collector # NoOne =>
          \A i, j \in bitmap2 \ {0, 1} : data[i] = data[j] => i = j

(* A result is a node of the table, or will be one after the collection. *)
Reach(i) == \/ i \in {0, 1} \cup torehash
            \/ \E b \in Buckets : table[b] = i
            \/ \E w \in Workers : rehashing[w] = i
Results ==
    /\ \A h \in held : h[2] \in Buckets /\ Reach(h[2])
    /\ \A s \in 0 .. Slots - 1 : Reach(entry[s].res)
    /\ \A w \in Workers :
          /\ Reach(got[w]) /\ Reach(res[w])
          /\ pc[w] # "found" => res[w] = 0
          /\ pc[w] \notin {"get", "put"} => got[w] = 0
          /\ pc[w] = "get" /\ cpc[w] \in {"get", "key", "keyb", "miss"} => got[w] = 0

IInv == /\ TableType /\ WorkerType /\ CacheType /\ GcType
        /\ Seats /\ InUse /\ Passed /\ Claims /\ Collecting /\ Results

-----------------------------------------------------------------------------
(* Arithmetic of probe sequences and regions.                              *)

LEMMA DivMod ==
    ASSUME NEW a \in Nat, NEW d \in Nat \ {0}
    PROVE  a \div d \in Nat /\ a % d \in 0 .. d - 1 /\ a = d * (a \div d) + (a % d)
OBVIOUS

LEMMA DivMul ==
    ASSUME NEW l \in Nat, NEW d \in Nat \ {0}, NEW o \in 0 .. d - 1
    PROVE  (l * d + o) \div d = l /\ (l * d + o) % d = o
OBVIOUS

LEMMA Product ==
    ASSUME NEW a \in Nat, NEW b \in Nat
    PROVE  a * b \in Nat
OBVIOUS

LEMMA Rows ==
    ASSUME NEW a \in Nat, NEW b \in Nat, NEW d \in Nat, a < b
    PROVE  a * d + d <= b * d /\ a * d \in Nat /\ b * d \in Nat
OBVIOUS

LEMMA DivBound ==
    ASSUME NEW s \in Nat, NEW d \in Nat \ {0}, NEW q \in Nat, s < d * q
    PROVE  s \div d < q
OBVIOUS

(* The size of the table: a whole number of cache lines and of regions,    *)
(* and twice the size fits as long as it is not the maximum.               *)
LEMMA TableSize ==
    ASSUME TableType
    PROVE  /\ table_size \in 2 .. MaxSize
           /\ table_size < max_size => 2 * table_size \in Sizes
           /\ Regions \in Nat \ {0} /\ Regions * REGION = table_size
           /\ {0, 1} \subseteq Buckets
PROOF
<1> USE TableAssumption DEF TableType, Regions, Buckets
<1>1. /\ Sizes \in SUBSET (MinSize .. MaxSize) /\ MinSize \in Sizes
      /\ \A s \in Sizes : s = MaxSize \/ 2 * s \in Sizes
  BY SizesAssumption DEF Sizes
<1>2. table_size \in 2 .. MaxSize /\ max_size <= MaxSize
  BY <1>1
<1>3. table_size = REGION * (table_size \div REGION) /\ table_size \div REGION \in Nat
  <2>1. table_size \in Nat
    BY <1>2
  <2>2. table_size = REGION * (table_size \div REGION) + (table_size % REGION)
        /\ table_size \div REGION \in Nat
    BY <2>1, DivMod
  <2> QED BY <2>1, <2>2
<1>4. table_size \div REGION # 0
  BY <1>2, <1>3
<1>5. table_size < max_size => 2 * table_size \in Sizes
  BY <1>1, <1>2
<1> QED BY <1>2, <1>3, <1>4, <1>5

(* Every bucket of a probe sequence is one of the table. *)
LEMMA ProbeIn ==
    ASSUME TableType, NEW p \in Pairs \cup {Zero}, NEW l \in Nat, NEW o \in Nat
    PROVE  ProbeAt(p, l, o, table_size) \in Buckets
PROOF
<1> USE TableAssumption
<1>1. table_size \in Nat \ {0} /\ table_size <= MaxSize
  BY TableSize
<1> DEFINE start == (Hash[p] + l * Step(p)) % table_size
           q == table_size \div LINE
<1>2. Hash[p] \in Nat
  OBVIOUS
<1>3. Step(p) \in Nat
  <2>1. Hash[p] \div LINE \in Nat
    BY <1>2, DivMod
  <2>2. 2 * (Hash[p] \div LINE) + 1 \in Nat
    BY <2>1
  <2> QED BY <2>2 DEF Step
<1>4. Hash[p] + l * Step(p) \in Nat
  BY <1>2, <1>3
<1>5. start \in 0 .. table_size - 1
  BY <1>1, <1>4, DivMod
<1>6. table_size = LINE * q /\ q \in Nat
  <2>1. table_size = LINE * q + (table_size % LINE) /\ q \in Nat
    BY <1>1, DivMod
  <2>2. table_size % LINE = 0
    BY DEF TableType
  <2> QED BY <1>1, <2>1, <2>2
<1> HIDE DEF start, q
<1>7. start \div LINE \in Nat /\ start \div LINE < q
  <2>1. start \in Nat /\ start < LINE * q
    BY <1>1, <1>5, <1>6
  <2> QED BY <2>1, <1>6, DivBound, DivMod
<1>8. (start + o) % LINE \in 0 .. LINE - 1
  <2>1. start + o \in Nat
    BY <1>1, <1>5
  <2> QED BY <2>1, DivMod
<1>9. (start \div LINE) * LINE + LINE <= q * LINE /\ (start \div LINE) * LINE \in Nat
  BY <1>6, <1>7, Rows
<1>10. LINE * (start \div LINE) + ((start + o) % LINE) \in 0 .. table_size - 1
  BY <1>1, <1>6, <1>7, <1>8, <1>9
<1> QED BY <1>1, <1>10 DEF ProbeAt, start, Buckets

LEMMA PosIn ==
    ASSUME TableType, NEW p \in Pairs \cup {Zero}, NEW n \in Nat
    PROVE  Pos(p, n) \in Buckets
PROOF
<1>1. n \div LINE \in Nat /\ n % LINE \in Nat
  BY DivMod, TableAssumption
<1> QED BY <1>1, ProbeIn DEF Pos

(* Where a worker stands in a probe sequence. *)
LEMMA HereFacts ==
    ASSUME WorkerType, NEW w \in Workers
    PROVE  /\ Here(w) \in Nat
           /\ \A p : off[w] < LINE => Pos(p, Here(w)) = ProbeAt(p, line[w], off[w], table_size)
           /\ (line[w] + 1) * LINE = line[w] * LINE + LINE
           /\ \A t \in Nat : line[w] < t /\ off[w] < LINE => Here(w) < t * LINE
PROOF
<1> USE TableAssumption DEF WorkerType
<1>1. line[w] \in Nat /\ off[w] \in 0 .. LINE /\ line[w] * LINE \in Nat
  OBVIOUS
<1>2. Here(w) \in Nat
  BY <1>1 DEF Here
<1>3. ASSUME off[w] < LINE
      PROVE  Here(w) \div LINE = line[w] /\ Here(w) % LINE = off[w]
  <2>1. off[w] \in 0 .. LINE - 1
    BY <1>1, <1>3
  <2> QED BY <1>1, <2>1, DivMul DEF Here
<1>4. (line[w] + 1) * LINE = line[w] * LINE + LINE
  BY <1>1
<1>5. ASSUME NEW t \in Nat, line[w] < t, off[w] < LINE
      PROVE  Here(w) < t * LINE
  <2>1. line[w] * LINE + LINE <= t * LINE /\ t * LINE \in Nat
    BY <1>1, <1>5, Rows
  <2> QED BY <1>1, <1>5, <2>1 DEF Here
<1> QED BY <1>2, <1>3, <1>4, <1>5 DEF Pos

(* A region lies inside the table. *)
LEMMA RegionIn ==
    ASSUME TableType, NEW r \in 0 .. Regions - 1
    PROVE  /\ r * REGION \in Nat
           /\ r * REGION .. r * REGION + REGION - 1 \subseteq Buckets
PROOF
<1> USE TableAssumption
<1>1. r * REGION + REGION <= Regions * REGION /\ r * REGION \in Nat
  BY TableSize, Rows
<1> QED BY <1>1, TableSize DEF Buckets

(* Two regions have no bucket in common. *)
LEMMA RegionsApart ==
    ASSUME NEW r \in Nat, NEW s \in Nat, r # s,
           NEW i \in r * REGION .. r * REGION + REGION - 1
    PROVE  i \notin s * REGION .. s * REGION + REGION - 1
PROOF
<1> USE TableAssumption
<1>1. r * REGION \in Nat /\ s * REGION \in Nat
  OBVIOUS
<1>2. CASE r < s
  BY <1>1, <1>2, Rows
<1>3. CASE s < r
  BY <1>1, <1>3, Rows
<1> QED BY <1>2, <1>3

LEMMA WorkersNat == Workers \subseteq Nat
PROOF
<1>1. Cardinality(Workers) \in Nat
  BY WorkersAssumption, FS_CardinalityType
<1> QED BY <1>1, WorkersAssumption

(* The region a worker tries first exists. *)
LEMMA FirstIn ==
    ASSUME TableType, NEW w \in Workers
    PROVE  FirstRegion(w) \in 0 .. Regions - 1
PROOF
<1> DEFINE n == Cardinality(Workers)
<1>1. n \in Nat \ {0} /\ w \in 0 .. n - 1
  BY WorkersAssumption, FS_CardinalityType, FS_EmptySet
<1>2. Regions \in Nat \ {0}
  BY TableSize
<1> HIDE DEF n
<1>3. /\ w * Regions + Regions <= n * Regions
      /\ w * Regions \in Nat /\ n * Regions \in Nat
  BY <1>1, <1>2, Rows
<1>4. w * Regions < n * Regions
  BY <1>2, <1>3
<1>5. (w * Regions) \div n < Regions /\ (w * Regions) \div n \in Nat
  BY <1>1, <1>2, <1>3, <1>4, DivBound, DivMod
<1> QED BY <1>2, <1>5 DEF FirstRegion, n

(* A step that only adds to the table and keeps the data in use. *)
Grows ==
    /\ table_size' = table_size
    /\ \A b \in Buckets : table[b] # Empty => table'[b] = table[b]
    /\ \A i \in bitmap2 : data'[i] = data[i]

(* What has been passed stays passed when the table only grows. *)
LEMMA Grow ==
    ASSUME TableType, InUse, Grows,
           NEW p \in Pairs \cup {Zero}, NEW k \in Nat, Occupied(p, k)
    PROVE  Occupied(p, k)' /\ (Others(p, k) => Others(p, k)')
PROOF
<1> SUFFICES ASSUME NEW n \in 0 .. k - 1
             PROVE  /\ table'[Pos(p, n)'] # Empty
                    /\ Others(p, k) => data'[table'[Pos(p, n)']] # p
  BY DEF Occupied, Others
<1> USE DEF Grows
<1>1. Pos(p, n)' = Pos(p, n)
  BY DEF Pos
<1>2. Pos(p, n) \in Buckets
  BY PosIn
<1>3. table[Pos(p, n)] # Empty
  BY DEF Occupied
<1>4. table'[Pos(p, n)] = table[Pos(p, n)] /\ table[Pos(p, n)] \in bitmap2
  BY <1>2, <1>3 DEF InUse
<1>5. Others(p, k) => data[table[Pos(p, n)]] # p
  BY DEF Others
<1> QED BY <1>1, <1>3, <1>4, <1>5

(* ... and a node keeps its seat. *)
LEMMA SeatKept ==
    ASSUME TableType, InUse, Grows, threshold' \in Nat, threshold' >= threshold,
           NEW p \in Pairs \cup {Zero}, NEW i \in Buckets, NEW n \in Nat, SeatAt(p, i, n)
    PROVE  SeatAt(p, i, n)'
PROOF
<1> USE DEF SeatAt
<1>1. threshold * LINE <= threshold' * LINE
  <2>1. CASE threshold' = threshold
    <3>1. threshold * LINE \in Nat
      BY Product, TableAssumption DEF TableType
    <3> QED BY <2>1, <3>1
  <2>2. CASE threshold' > threshold
    <3>1. threshold * LINE + LINE <= threshold' * LINE
          /\ threshold * LINE \in Nat /\ threshold' * LINE \in Nat
      BY <2>2, Rows, TableAssumption DEF TableType
    <3> QED BY <3>1, TableAssumption
  <2> QED BY <2>1, <2>2 DEF TableType
<1>2. n < threshold' * LINE
  <2>1. threshold * LINE \in Nat /\ threshold' * LINE \in Nat
    BY Product, TableAssumption DEF TableType
  <2> QED BY <1>1, <2>1
<1>3. Pos(p, n)' = Pos(p, n) /\ Pos(p, n) \in Buckets
  BY PosIn DEF Pos, Grows
<1>4. i # Empty
  BY DEF Buckets, Empty
<1>5. table'[Pos(p, n)] = i /\ i \in bitmap2 /\ data'[i] = p
  BY <1>3, <1>4 DEF Grows, InUse
<1>6. Occupied(p, n)' /\ Others(p, n)'
  BY Grow
<1> QED BY <1>2, <1>3, <1>5, <1>6

LEMMA SeatsKept ==
    ASSUME TableType, TableType', InUse, Grows, Seats, threshold' >= threshold,
           \A b \in Buckets : table'[b] \notin {table[b], Empty, 0, 1} =>
              \E n \in Nat : SeatAt(data[table[b]], table[b], n)'
    PROVE  Seats'
PROOF
<1> SUFFICES ASSUME NEW b \in Buckets, table'[b] \notin {Empty, 0, 1}, table'[b] = table[b]
             PROVE  \E n \in Nat : SeatAt(data[table[b]], table[b], n)'
  BY DEF Seats
<1>1. table[b] \in bitmap2 /\ table[b] \in Buckets
  BY DEF InUse, TableType
<1>2. data[table[b]] \in Pairs \cup {Zero} /\ data'[table'[b]] = data[table[b]]
  BY <1>1 DEF TableType, Grows
<1>3. PICK n \in Nat : SeatAt(data[table[b]], table[b], n)
  BY DEF Seats
<1> DEFINE p == data[table[b]]
           i == table[b]
<1>4. ASSUME NEW q, NEW j, q = p, j = i
      PROVE  SeatAt(q, j, n)'
  <2>1. SeatAt(q, j, n) /\ q \in Pairs \cup {Zero} /\ j \in Buckets
    BY <1>1, <1>2, <1>3, <1>4
  <2> QED BY <2>1, SeatKept DEF TableType
<1>5. SeatAt(data[table[b]], table[b], n)'
  BY <1>2, <1>4 DEF SeatAt, Occupied, Others, Pos
<1> QED BY <1>5

-----------------------------------------------------------------------------
(* The initial states.                                                     *)

LEMMA InitInv == Init => IInv
PROOF
<1> SUFFICES ASSUME Init PROVE IInv
  OBVIOUS
<1> USE TableAssumption DEF Init, llmsset_create, cache_create
<1>1. MinSize \in Sizes /\ MinSize \in MinSize .. MaxSize
  BY SizesAssumption DEF Sizes
<1>2. {0, 1} \subseteq Buckets
  BY <1>1 DEF Buckets
<1>3. TableType
  BY <1>1, <1>2 DEF TableType
<1>4. WorkerType
  BY <1>2 DEF WorkerType, Places
<1>5. CacheType
  <2>1. 0 \in Words
    BY DEF Words
  <2>2. NoEntry \in Entries
    BY <1>2, <2>1 DEF NoEntry, Entries
  <2>3. entry \in [0 .. Slots - 1 -> Entries]
    BY <2>2 DEF cache_table
  <2>4. Users = Workers
    BY OpsAssumption
  <2>5. DOMAIN cpc = Workers /\ DOMAIN key = Workers
    BY <2>4
  <2>6. got \in [Workers -> Buckets]
    BY <1>2, <2>4
  <2>7. \A w \in Workers : pc[w] = "idle"
    OBVIOUS
  <2> QED BY <2>3, <2>5, <2>6, <2>7 DEF CacheType
<1>6. GcType
  BY DEF GcType
<1>7. Seats
  BY DEF Seats
<1>8. InUse
  BY <1>2 DEF InUse
<1>9. Passed
  BY DEF Passed, PassedBy, Looking
<1>10. Claims
  BY DEF Claims
<1>11. Collecting
  BY DEF Collecting, Empty
<1>12. Results
  BY OpsAssumption DEF Results, Reach, cache_table, NoEntry
<1> QED BY <1>3, <1>4, <1>5, <1>6, <1>7, <1>8, <1>9, <1>10, <1>11, <1>12 DEF IInv

-----------------------------------------------------------------------------
(* One lemma per operation: it preserves the invariant.                    *)

(* Steps of a worker outside the table and the collection. *)
LEMMA CacheFrame ==
    ASSUME IInv, UNCHANGED <<tabvars, torehash, rehashing, collector>>,
           pc' \in [Workers -> Places], collector # NoOne => pc' = pc,
           \A w \in Workers : pc'[w] = pc[w] \/ {pc[w], pc'[w]} \subseteq {"idle", "get", "put"}
    PROVE  /\ TableType' /\ WorkerType' /\ GcType'
           /\ Seats' /\ InUse' /\ Passed' /\ Claims' /\ Collecting'
PROOF
<1> USE DEF IInv, tabvars
<1>1. TableType'
  BY DEF TableType
<1>2. WorkerType'
  BY DEF WorkerType, Regions
<1>3. GcType'
  BY DEF GcType
<1>4. Seats'
  BY DEF Seats, SeatAt, Occupied, Others, Pos
<1>5. InUse'
  BY DEF InUse
<1>6. Passed'
  BY DEF Passed, PassedBy, Looking, Occupied, Others, Pos, Here
<1>7. Claims'
  BY DEF Claims
<1>8. Collecting'
  BY DEF Collecting, Occupied, Pos, Here
<1> QED BY <1>1, <1>2, <1>3, <1>4, <1>5, <1>6, <1>7, <1>8

LEMMA BeginInv ==
    ASSUME IInv, NEW w \in Workers, NEW k \in Keys, Begin(w, k)
    PROVE  IInv'
PROOF
<1> USE DEF Begin, StartGet, At, CAt, SameGc, tabvars
<1>1. pc' \in [Workers -> Places]
  BY DEF IInv, WorkerType, Places
<1>2. \A v \in Workers : pc'[v] = pc[v] \/ {pc[v], pc'[v]} \subseteq {"idle", "get", "put"}
  BY DEF IInv, WorkerType
<1>3. /\ TableType' /\ WorkerType' /\ GcType'
      /\ Seats' /\ InUse' /\ Passed' /\ Claims' /\ Collecting'
  BY <1>1, <1>2, CacheFrame
<1>4. CacheType'
  BY TableSize DEF IInv, WorkerType, CacheType
<1>5. Results'
  BY ZenonT(60) DEF IInv, WorkerType, CacheType, Results, Reach
<1> QED BY <1>3, <1>4, <1>5 DEF IInv

LEMMA GetInv ==
    ASSUME IInv, NEW w \in Workers, Get(w)
    PROVE  IInv'
PROOF
<1> USE DEF Get, CAt, SameGc, tabvars
<1>1. /\ TableType' /\ WorkerType' /\ GcType'
      /\ Seats' /\ InUse' /\ Passed' /\ Claims' /\ Collecting'
  BY CacheFrame DEF IInv, WorkerType
<1>2. Slot[key[w]] \in 0 .. Slots - 1
  BY OpsAssumption DEF IInv, CacheType
<1>3. Entry(w).res \in Buckets /\ Reach(Entry(w).res) /\ 0 \in Buckets
  BY <1>2, TableSize DEF IInv, CacheType, Entries, Results, Entry
<1>4. CacheType'
  BY <1>3 DEF IInv, CacheType, cache_get, GetStatus, GetKey, GetWord, GetRes, CheckStatus, CEnd
<1>5. /\ UNCHANGED <<entry, key>>
      /\ \A v \in Workers \ {w} : cpc'[v] = cpc[v] /\ got'[v] = got[v]
      /\ Reach(got'[w])
      /\ cpc'[w] \in {"get", "key", "keyb", "miss"} => got'[w] = 0
  <2>1. /\ Reach(got[w]) /\ Reach(0)
        /\ cpc[w] \in {"get", "key", "keyb", "miss"} => got[w] = 0
    BY DEF IInv, Results, Reach
  <2>2. CASE GetStatus(w)
    BY <2>1, <2>2 DEF IInv, CacheType, GetStatus
  <2>3. CASE GetKey(w)
    BY <2>1, <2>3 DEF IInv, CacheType, GetKey, GetWord, CEnd
  <2>4. CASE GetRes(w)
    BY <1>3, <2>4 DEF IInv, CacheType, GetRes
  <2>5. CASE CheckStatus(w)
    BY <2>1, <2>5 DEF IInv, CacheType, CheckStatus, CEnd
  <2> QED BY <2>2, <2>3, <2>4, <2>5 DEF cache_get
<1>6. Results'
  BY <1>5 DEF IInv, CacheType, Results, Reach
<1> QED BY <1>1, <1>4, <1>6 DEF IInv

LEMMA PutInv ==
    ASSUME IInv, NEW w \in Workers, Put(w)
    PROVE  IInv'
PROOF
<1> USE DEF Put, CAt, SameGc, tabvars
<1>1. /\ TableType' /\ WorkerType' /\ GcType'
      /\ Seats' /\ InUse' /\ Passed' /\ Claims' /\ Collecting'
  BY CacheFrame DEF IInv, WorkerType
<1>2. Slot[key[w]] \in 0 .. Slots - 1 /\ key[w] \in Keys
  BY OpsAssumption DEF IInv, CacheType
<1>3. key[w][1] \in Words /\ key[w][2] \in Words
  BY <1>2 DEF Words
<1>4. Entry(w) \in Entries /\ Reach(Entry(w).res)
  BY <1>2 DEF IInv, CacheType, Results, Entry
<1>5. got[w] \in Buckets /\ Reach(got[w])
  BY DEF IInv, CacheType, Results
<1>6. \/ entry' = entry
      \/ \E e \in Entries : Reach(e.res) /\ entry' = [entry EXCEPT ![Slot[key[w]]] = e]
  <2>1. CASE PutStatus(w) \/ PutClaim(w) \/ PutUnlock(w)
    BY <2>1 DEF PutStatus, PutClaim, PutUnlock
  <2>2. ASSUME NEW e \in Entries, Reach(e.res), NEW l, NEW m, PutWord(w, l, e, m)
        PROVE  \E x \in Entries : Reach(x.res) /\ entry' = [entry EXCEPT ![Slot[key[w]]] = x]
    BY <2>2 DEF PutWord
  <2>3. /\ [Entry(w) EXCEPT !.a = key[w][1]] \in Entries
        /\ [Entry(w) EXCEPT !.a = key[w][1]].res = Entry(w).res
        /\ [Entry(w) EXCEPT !.b = key[w][2]] \in Entries
        /\ [Entry(w) EXCEPT !.b = key[w][2]].res = Entry(w).res
        /\ [Entry(w) EXCEPT !.res = got[w]] \in Entries
        /\ [Entry(w) EXCEPT !.res = got[w]].res = got[w]
    BY <1>3, <1>4, <1>5 DEF Entries
  <2>4. CASE PutData(w)
    BY <1>4, <1>5, <2>2, <2>3, <2>4 DEF PutData
  <2> QED BY <2>1, <2>4 DEF cache_put
<1>7. /\ UNCHANGED <<key, got>> /\ DOMAIN cpc' = DOMAIN cpc
      /\ \A v \in Workers \ {w} : cpc'[v] = cpc[v]
  BY DEF IInv, CacheType, cache_put, PutStatus, PutClaim, PutData, PutWord, PutUnlock, CEnd
<1>8. CacheType'
  BY <1>2, <1>6, <1>7 DEF IInv, CacheType
<1>9. \A s \in 0 .. Slots - 1 : Reach(entry'[s].res)
  BY <1>2, <1>6 DEF IInv, CacheType, Results
<1>10. Results'
  BY <1>7, <1>9 DEF IInv, CacheType, Results, Reach
<1> QED BY <1>1, <1>8, <1>10 DEF IInv

(* The end of an operation. *)
LEMMA FinishInv ==
    ASSUME IInv, NEW w \in Workers, Finish(w), pc[w] \in {"get", "put"},
           UNCHANGED <<tabvars, entry>>, SameGc,
           \A h \in held' : h \in held \/ h[2] = got[w]
    PROVE  IInv'
PROOF
<1> USE DEF Finish, At, SameGc, tabvars
<1>1. pc' \in [Workers -> Places]
  BY DEF IInv, WorkerType, Places
<1>2. \A v \in Workers : pc'[v] = pc[v] \/ {pc[v], pc'[v]} \subseteq {"idle", "get", "put"}
  BY DEF IInv, WorkerType
<1>3. collector = NoOne
  BY DEF IInv, Collecting
<1>4. /\ TableType' /\ WorkerType' /\ GcType'
      /\ Seats' /\ InUse' /\ Passed' /\ Claims' /\ Collecting'
  BY <1>1, <1>2, <1>3, CacheFrame
<1>5. CacheType'
  BY TableSize DEF IInv, WorkerType, CacheType
<1>6. res[w] = 0
  BY DEF IInv, Results
<1>7. got[w] \in Buckets /\ Reach(got[w])
  BY DEF IInv, CacheType, Results
<1>8. Results'
  <2>1. \A h \in held' : h[2] \in Buckets /\ Reach(h[2])
    BY <1>7 DEF IInv, Results
  <2>2. \A v \in Workers : got'[v] \in {0, got[v]} /\ (v # w => pc'[v] = pc[v])
    BY DEF IInv, WorkerType, CacheType
  <2>3. /\ pc'[w] = "idle" /\ got'[w] = 0
        /\ \A v \in Workers \ {w} : cpc'[v] = cpc[v] /\ got'[v] = got[v]
    BY DEF IInv, WorkerType, CacheType
  <2> QED BY <1>6, <2>1, <2>2, <2>3 DEF IInv, Results, Reach
<1> QED BY <1>4, <1>5, <1>8 DEF IInv

LEMMA HitInv ==
    ASSUME IInv, NEW w \in Workers, Hit(w)
    PROVE  IInv'
BY FinishInv DEF Hit

LEMMA OverInv ==
    ASSUME IInv, NEW w \in Workers, Over(w)
    PROVE  IInv'
BY FinishInv DEF Over

LEMMA DropInv ==
    ASSUME IInv, Drop
    PROVE  IInv'
PROOF
<1> USE DEF Drop, SameGc, tabvars, cachevars
<1>1. /\ TableType' /\ WorkerType' /\ GcType'
      /\ Seats' /\ InUse' /\ Passed' /\ Claims' /\ Collecting'
  BY CacheFrame DEF IInv, WorkerType
<1>2. CacheType'
  BY DEF IInv, CacheType
<1>3. Results'
  BY DEF IInv, Results, Reach
<1> QED BY <1>1, <1>2, <1>3 DEF IInv

(* llmsset_lookup begins. *)
LEMMA MissInv ==
    ASSUME IInv, NEW w \in Workers, Miss(w)
    PROVE  IInv'
PROOF
<1> USE DEF Miss, StartLookup, At, SameGc, Shared, cachevars
<1>1. Node[key[w]] \in Pairs
  BY OpsAssumption DEF IInv, CacheType
<1>2. collector = NoOne /\ rehashing[w] = NoOne
  BY DEF IInv, Collecting
<1>3. TableType' /\ GcType' /\ InUse'
  BY DEF IInv, TableType, GcType, InUse
<1>4. WorkerType'
  BY <1>1, TableSize, TableAssumption DEF IInv, WorkerType, Regions, Places
<1>5. CacheType'
  BY DEF IInv, WorkerType, CacheType
<1>6. Seats'
  BY DEF IInv, Seats, SeatAt, Occupied, Others, Pos
<1>7. Passed'
  <2>1. line'[w] = 0 /\ off'[w] = 0 /\ want'[w] \in Pairs
    BY <1>1 DEF IInv, WorkerType
  <2>2. Here(w)' = 0
    BY <2>1, TableAssumption DEF Here
  <2>3. /\ line'[w] < threshold' /\ off'[w] < LINE
        /\ Occupied(want[w], Here(w))' /\ Others(want[w], Here(w))'
    BY <2>1, <2>2, TableAssumption DEF IInv, TableType, Occupied, Others
  <2>4. ASSUME NEW v \in Workers \ {w}
        PROVE  /\ line'[v] = line[v] /\ off'[v] = off[v] /\ want'[v] = want[v] /\ pc'[v] = pc[v]
               /\ Here(v)' = Here(v) /\ Occupied(want[v], Here(v))' = Occupied(want[v], Here(v))
               /\ Others(want[v], Here(v))' = Others(want[v], Here(v))
    BY DEF IInv, WorkerType, Here, Occupied, Others, Pos
  <2> QED BY <1>2, <2>1, <2>3, <2>4 DEF IInv, Passed, PassedBy
<1>8. Claims'
  BY TableSize DEF IInv, WorkerType, Claims
<1>9. Collecting'
  BY <1>2 DEF IInv, Collecting, WorkerType
<1>10. Results'
  BY ZenonT(60) DEF IInv, WorkerType, CacheType, Results, Reach
<1> QED BY <1>3, <1>4, <1>5, <1>6, <1>7, <1>8, <1>9, <1>10 DEF IInv

(* What the steps of a lookup leave alone. *)
WorkersKept(w) ==
    \A v \in Workers \ {w} :
        /\ pc'[v] = pc[v] /\ want'[v] = want[v] /\ line'[v] = line[v] /\ off'[v] = off[v]
        /\ cidx'[v] = cidx[v] /\ reg'[v] = reg[v] /\ res'[v] = res[v]
        /\ my_region'[v] = my_region[v]

LEMMA PassedKept ==
    ASSUME IInv, Grows, NEW w \in Workers, WorkersKept(w), SameGc,
           threshold' = threshold, PassedBy(w)'
    PROVE  Passed'
PROOF
<1> SUFFICES ASSUME NEW v \in Workers \ {w} PROVE PassedBy(v)'
  BY DEF Passed
<1> USE DEF WorkersKept, SameGc
<1>1. PassedBy(v)
  BY DEF IInv, Passed
<1>2. ASSUME pc[v] \in Looking
      PROVE  Occupied(want[v], Here(v))' /\ Others(want[v], Here(v))'
  <2>1. Occupied(want[v], Here(v)) /\ Others(want[v], Here(v)) /\ want[v] \in Pairs
    BY <1>1, <1>2 DEF PassedBy
  <2>2. Here(v) \in Nat /\ Here(v)' = Here(v) /\ want'[v] = want[v]
    BY HereFacts DEF IInv, Here
  <2>3. ASSUME NEW p, NEW k, p = want[v], k = Here(v)
        PROVE  Occupied(p, k)' /\ Others(p, k)'
    BY <2>1, <2>2, <2>3, Grow DEF IInv
  <2> QED BY <2>2, <2>3 DEF Occupied, Others, Pos
<1> QED BY <1>1, <1>2 DEF PassedBy

LEMMA LookFrame ==
    ASSUME IInv, Grows, NEW w \in Workers, WorkersKept(w), SameGc,
           UNCHANGED <<cachevars, held>>, TableType', WorkerType', pc[w] \in Looking,
           pc'[w] \notin {"idle", "get", "put"}, pc'[w] # "found" => res'[w] = 0,
           Reach(res[w])'
    PROVE  CacheType' /\ GcType' /\ Collecting' /\ Results'
PROOF
<1> USE DEF WorkersKept, SameGc, cachevars, Looking
<1>1. collector = NoOne
  BY DEF IInv, Collecting
<1>2. CacheType' /\ GcType'
  BY DEF IInv, CacheType, GcType
<1>3. Collecting'
  BY <1>1 DEF IInv, Collecting
<1>4. ASSUME NEW i \in Buckets, Reach(i)
      PROVE  Reach(i)'
  BY <1>4 DEF Reach, Grows, Buckets, Empty
<1>5. \A v \in Workers : got[v] \in Buckets /\ res[v] \in Buckets
  BY DEF IInv, CacheType, WorkerType
<1>6. \A s \in 0 .. Slots - 1 : entry[s].res \in Buckets
  BY DEF IInv, CacheType, Entries
<1>7. \A h \in held' : h[2] \in Buckets /\ Reach(h[2])'
  BY <1>4 DEF IInv, Results
<1>8. \A s \in 0 .. Slots - 1 : Reach(entry[s].res)'
  BY <1>4, <1>6 DEF IInv, Results, Reach
<1>9. \A v \in Workers : Reach(got[v])' /\ Reach(res[v])'
  BY <1>4, <1>5 DEF IInv, Results, Reach
<1>10. Results'
  BY <1>7, <1>8, <1>9 DEF IInv, Results
<1> QED BY <1>2, <1>3, <1>10

(* The bucket a lookup reads. *)
LEMMA BucketFacts ==
    ASSUME IInv, NEW w \in Workers, pc[w] \in Looking
    PROVE  /\ want[w] \in Pairs /\ off[w] < LINE /\ line[w] < threshold
           /\ Bucket(w) \in Buckets /\ Pos(want[w], Here(w)) = Bucket(w)
           /\ Here(w) < threshold * LINE /\ Here(w) \in Nat
           /\ Occupied(want[w], Here(w)) /\ Others(want[w], Here(w))
           /\ collector = NoOne
PROOF
<1>1. PassedBy(w)
  BY DEF IInv, Passed
<1>2. /\ want[w] \in Pairs /\ off[w] < LINE /\ line[w] < threshold
      /\ Occupied(want[w], Here(w)) /\ Others(want[w], Here(w))
  BY <1>1 DEF PassedBy
<1>3. line[w] \in Nat /\ off[w] \in Nat /\ threshold \in Nat
  BY DEF IInv, WorkerType, TableType
<1>4. Bucket(w) \in Buckets
  BY <1>2, <1>3, ProbeIn DEF IInv, Bucket
<1>5. /\ Pos(want[w], Here(w)) = Bucket(w)
      /\ Here(w) < threshold * LINE /\ Here(w) \in Nat
  BY <1>2, <1>3, HereFacts DEF IInv, Bucket
<1>6. collector = NoOne
  BY DEF IInv, Collecting, Looking
<1> QED BY <1>2, <1>4, <1>5, <1>6

(* The node is found: the bucket claimed in vain is released. *)
LEMMA FoundHereInv ==
    ASSUME IInv, NEW w \in Workers, pc[w] \in {"probe", "cas"},
           NEW v, v = table[Bucket(w)], v # Empty,
           bitmap2' = bitmap2 \ (IF cidx[w] = 0 THEN {} ELSE {cidx[w]}),
           Return(w, v, "found"), UNCHANGED <<data, bitmap1, my_region>>,
           UNCHANGED <<cachevars, held>>, SameGc
    PROVE  IInv'
PROOF
<1> USE DEF Return, At
<1>1. pc[w] \in Looking
  BY DEF Looking
<1>2. Bucket(w) \in Buckets /\ v \in Buckets
  BY <1>1, BucketFacts DEF IInv, TableType
<1>3. WorkersKept(w)
  BY DEF IInv, WorkerType, WorkersKept
<1>4. Grows
  BY DEF Grows
<1>5. TableType'
  BY DEF IInv, TableType
<1>6. WorkerType'
  BY <1>2, TableSize, TableAssumption DEF IInv, WorkerType, Regions, Places
<1>7. InUse'
  BY DEF IInv, InUse, Claims
<1>8. Seats'
  BY <1>4, <1>5, SeatsKept DEF IInv, TableType
<1>9. PassedBy(w)'
  BY DEF IInv, WorkerType, PassedBy, Looking
<1>10. Passed'
  BY <1>3, <1>4, <1>9, PassedKept
<1>11. Claims'
  BY DEF IInv, WorkerType, Claims
<1>12. Reach(res[w])'
  BY <1>2 DEF IInv, WorkerType, Reach
<1>13. pc'[w] = "found"
  BY DEF IInv, WorkerType
<1>14. CacheType' /\ GcType' /\ Collecting' /\ Results'
  BY <1>1, <1>3, <1>4, <1>5, <1>6, <1>12, <1>13, LookFrame
<1> QED BY <1>5, <1>6, <1>7, <1>8, <1>10, <1>11, <1>14 DEF IInv

(* The lookup gives up, and leaves what it claimed to the collection. *)
LEMMA GiveUpInv ==
    ASSUME IInv, NEW w \in Workers, pc[w] \in Looking, Return(w, 0, "full"),
           UNCHANGED <<data, bitmap1, bitmap2, my_region>>,
           UNCHANGED <<cachevars, held>>, SameGc
    PROVE  IInv'
PROOF
<1> USE DEF Return, At
<1>1. 0 \in Buckets
  BY TableSize DEF IInv
<1>2. want[w] \in Pairs /\ rehashing[w] = NoOne
  BY BucketFacts DEF IInv, Collecting
<1>3. WorkersKept(w)
  BY DEF IInv, WorkerType, WorkersKept
<1>4. Grows
  BY DEF Grows
<1>5. TableType'
  BY DEF IInv, TableType
<1>6. WorkerType'
  BY <1>1, TableAssumption DEF IInv, WorkerType, Regions, Places
<1>7. InUse'
  BY DEF IInv, InUse
<1>8. Seats'
  BY <1>4, <1>5, SeatsKept DEF IInv, TableType
<1>9. PassedBy(w)'
  BY <1>2 DEF IInv, WorkerType, PassedBy, Looking
<1>10. Passed'
  BY <1>3, <1>4, <1>9, PassedKept
<1>11. Claims'
  BY DEF IInv, WorkerType, Claims
<1>12. pc'[w] = "full" /\ res'[w] = 0
  BY DEF IInv, WorkerType
<1>13. CacheType' /\ GcType' /\ Collecting' /\ Results'
  BY <1>3, <1>4, <1>5, <1>6, <1>12, LookFrame DEF Reach
<1> QED BY <1>5, <1>6, <1>7, <1>8, <1>10, <1>11, <1>13 DEF IInv

(* On to the next bucket. *)
LEMMA AdvanceInv ==
    ASSUME IInv, NEW w \in Workers, pc[w] \in {"probe", "cas"},
           table[Bucket(w)] # Empty, ~Equal(w, table[Bucket(w)]), Advance(w),
           UNCHANGED <<cachevars, held>>, SameGc
    PROVE  IInv'
PROOF
<1>1. pc[w] \in Looking
  BY DEF Looking
<1>2. CASE Return(w, 0, "full") /\ UNCHANGED <<data, bitmap1, bitmap2, my_region>>
  BY <1>1, <1>2, GiveUpInv
<1>3. ASSUME At(w, "probe"), UNCHANGED <<Shared, want, cidx, left, reg, res>>,
             line' \in [Workers -> Nat], off' \in [Workers -> 0 .. LINE],
             \A v \in Workers \ {w} : line'[v] = line[v] /\ off'[v] = off[v],
             line'[w] < threshold, off'[w] < LINE, Here(w)' = Here(w) + 1
      PROVE  IInv'
  <2> USE <1>3 DEF At, Shared
  <2>1. WorkersKept(w)
    BY DEF IInv, WorkerType, WorkersKept
  <2>2. Grows
    BY DEF Grows
  <2>3. TableType'
    BY DEF IInv, TableType
  <2>4. WorkerType'
    BY DEF IInv, WorkerType, Regions, Places
  <2>5. InUse'
    BY DEF IInv, InUse
  <2>6. Seats'
    BY <2>2, <2>3, SeatsKept DEF IInv, TableType
  <2>7. PassedBy(w)'
    <3>1. /\ want[w] \in Pairs /\ Here(w) \in Nat /\ Pos(want[w], Here(w)) = Bucket(w)
          /\ Occupied(want[w], Here(w)) /\ Others(want[w], Here(w))
      BY <1>1, BucketFacts
    <3>2. \A n \in 0 .. Here(w) : n \in 0 .. Here(w) - 1 \/ n = Here(w)
      BY <3>1
    <3>3. \A n \in 0 .. Here(w) : /\ table[Pos(want[w], n)] # Empty
                                  /\ data[table[Pos(want[w], n)]] # want[w]
      BY <3>1, <3>2 DEF Occupied, Others, Equal
    <3>4. Occupied(want[w], Here(w))' /\ Others(want[w], Here(w))'
      BY <3>1, <3>3 DEF Occupied, Others, Pos
    <3> QED BY <3>1, <3>4 DEF PassedBy, Looking, IInv, WorkerType
  <2>8. Passed'
    BY <2>1, <2>2, <2>7, PassedKept
  <2>9. Claims'
    BY DEF IInv, WorkerType, Claims
  <2>10. pc'[w] = "probe" /\ res'[w] = 0
    BY DEF IInv, WorkerType, Results
  <2>11. CacheType' /\ GcType' /\ Collecting' /\ Results'
    BY <1>1, <2>1, <2>2, <2>3, <2>4, <2>10, LookFrame DEF Reach
  <2> QED BY <2>3, <2>4, <2>5, <2>6, <2>8, <2>9, <2>11 DEF IInv
<1>4. line[w] \in Nat /\ off[w] \in 0 .. LINE /\ LINE \in Nat \ {0} /\ threshold \in Nat
  BY TableAssumption DEF IInv, WorkerType, TableType
<1>5. CASE /\ off[w] + 1 < LINE
           /\ off' = [off EXCEPT ![w] = @ + 1]
           /\ At(w, "probe")
           /\ UNCHANGED <<Shared, want, line, cidx, left, reg, res>>
  <2>1. off'[w] = off[w] + 1 /\ line'[w] = line[w] /\ off' \in [Workers -> 0 .. LINE]
    BY <1>4, <1>5 DEF IInv, WorkerType
  <2>2. Here(w)' = Here(w) + 1
    BY <1>4, <2>1, Product DEF Here
  <2> QED BY <1>1, <1>3, <1>4, <1>5, <2>1, <2>2, BucketFacts DEF IInv, WorkerType
<1>6. CASE /\ off[w] + 1 = LINE /\ line[w] + 1 < threshold
           /\ off' = [off EXCEPT ![w] = 0] /\ line' = [line EXCEPT ![w] = @ + 1]
           /\ At(w, "probe")
           /\ UNCHANGED <<Shared, want, cidx, left, reg, res>>
  <2>1. /\ off'[w] = 0 /\ line'[w] = line[w] + 1
        /\ off' \in [Workers -> 0 .. LINE] /\ line' \in [Workers -> Nat]
    BY <1>4, <1>6 DEF IInv, WorkerType
  <2>2. (line[w] + 1) * LINE = line[w] * LINE + LINE /\ line[w] * LINE \in Nat
    BY <1>4, HereFacts, Product DEF IInv
  <2>3. Here(w)' = Here(w) + 1
    BY <1>4, <1>6, <2>1, <2>2 DEF Here
  <2> QED BY <1>3, <1>4, <1>6, <2>1, <2>3 DEF IInv, WorkerType
<1> QED BY <1>2, <1>5, <1>6 DEF Advance

LEMMA CompareInv ==
    ASSUME IInv, NEW w \in Workers, pc[w] \in {"probe", "cas"},
           table[Bucket(w)] # Empty, Compare(w, table[Bucket(w)]),
           UNCHANGED <<cachevars, held>>, SameGc
    PROVE  IInv'
BY FoundHereInv, AdvanceInv DEF Compare

LEMMA ReadBucketInv ==
    ASSUME IInv, NEW w \in Workers, ReadBucket(w), UNCHANGED <<cachevars, held>>, SameGc
    PROVE  IInv'
PROOF
<1> DEFINE v == table[Bucket(w)]
<1>1. pc[w] = "probe" /\ pc[w] \in Looking
  BY DEF ReadBucket, Looking
<1>2. CASE v # Empty /\ Compare(w, v)
  BY <1>1, <1>2, CompareInv
<1>3. ASSUME NEW l \in {"cas", "claim"}, At(w, l), UNCHANGED <<Shared, want, line, off, cidx, res>>,
             l = "cas" => cidx[w] # 0 /\ reg' = reg, l = "claim" => cidx[w] = 0,
             reg' \in [Workers -> {NoRegion} \cup 0 .. Regions - 1],
             \A u \in Workers \ {w} : reg'[u] = reg[u]
      PROVE  IInv'
  <2> USE <1>3 DEF At, Shared
  <2>1. WorkersKept(w) /\ Grows
    BY DEF IInv, WorkerType, WorkersKept, Grows
  <2>2. TableType'
    BY DEF IInv, TableType
  <2>3. WorkerType'
    BY DEF IInv, WorkerType, Regions, Places
  <2>4. InUse'
    BY DEF IInv, InUse
  <2>5. Seats'
    BY <2>1, <2>2, SeatsKept DEF IInv, TableType
  <2>6. PassedBy(w)'
    <3>1. PassedBy(w)
      BY DEF IInv, Passed
    <3>2. pc'[w] \in Looking
      BY DEF IInv, WorkerType, Looking
    <3> QED BY <1>1, <3>1, <3>2 DEF PassedBy, Here, Occupied, Others, Pos
  <2>7. Passed'
    BY <2>1, <2>6, PassedKept
  <2>8. Claims'
    BY <1>1 DEF IInv, WorkerType, Claims
  <2>9. pc'[w] = l /\ res'[w] = 0
    BY <1>1 DEF IInv, WorkerType, Results
  <2>10. CacheType' /\ GcType' /\ Collecting' /\ Results'
    BY <1>1, <2>1, <2>2, <2>3, <2>9, LookFrame DEF Reach
  <2> QED BY <2>2, <2>3, <2>4, <2>5, <2>7, <2>8, <2>10 DEF IInv
<1>4. CASE v = Empty /\ cidx[w] # 0 /\ At(w, "cas") /\ UNCHANGED tabvars
  BY <1>3, <1>4 DEF IInv, WorkerType, tabvars, Shared
<1>5. CASE /\ v = Empty /\ cidx[w] = 0
           /\ reg' = [reg EXCEPT ![w] = my_region[w]]
           /\ left' = [left EXCEPT ![w] = Regions]
           /\ At(w, "claim")
           /\ UNCHANGED <<Shared, want, line, off, cidx, res>>
  BY <1>3, <1>5 DEF IInv, WorkerType
<1> QED BY <1>1, <1>2, <1>4, <1>5 DEF ReadBucket

(* claim_data_bucket finds a bucket, which no one else uses. *)
LEMMA ClaimBucketInv ==
    ASSUME IInv, NEW w \in Workers, ClaimBucket(w), UNCHANGED <<cachevars, held>>, SameGc
    PROVE  IInv'
PROOF
<1> USE DEF ClaimBucket, At
<1>1. PICK b \in FreeIn(reg[w]) : /\ bitmap2' = bitmap2 \cup {b}
                                  /\ data' = [data EXCEPT ![b] = want[w]]
                                  /\ cidx' = [cidx EXCEPT ![w] = b]
  OBVIOUS
<1>2. my_region[w] \in 0 .. Regions - 1 /\ reg[w] = my_region[w]
  BY DEF IInv, WorkerType
<1>3. /\ b \in Buckets /\ b \notin bitmap2
      /\ b \in my_region[w] * REGION .. my_region[w] * REGION + REGION - 1
  BY <1>1, <1>2, RegionIn DEF IInv, FreeIn
<1>4. pc[w] = "claim" /\ pc[w] \in Looking /\ want[w] \in Pairs
  BY BucketFacts DEF Looking
<1>5. /\ b \notin {0, 1} /\ \A c \in Buckets : table[c] # b
      /\ \A v \in Workers : cidx[v] # b
  <2>1. b \notin {0, 1} /\ \A c \in Buckets : table[c] # b
    BY <1>3 DEF IInv, InUse, Buckets, Empty
  <2>2. \A v \in Workers : cidx[v] # b
    BY <1>3, <2>1 DEF IInv, Claims
  <2> QED BY <2>1, <2>2
<1>6. WorkersKept(w)
  BY <1>1 DEF IInv, WorkerType, WorkersKept
<1>7. Grows
  BY <1>1, <1>3 DEF IInv, TableType, Grows
<1>8. TableType'
  BY <1>1, <1>3, <1>4 DEF IInv, TableType
<1>9. WorkerType'
  BY <1>1, <1>3 DEF IInv, WorkerType, Regions, Places
<1>10. InUse'
  BY <1>1, <1>3, <1>4, <1>5 DEF IInv, TableType, InUse
<1>11. Seats'
  BY <1>7, <1>8, SeatsKept DEF IInv, TableType
<1>12. PassedBy(w)'
  <2>1. /\ Occupied(want[w], Here(w)) /\ Others(want[w], Here(w)) /\ Here(w) \in Nat
        /\ line[w] < threshold /\ off[w] < LINE
    BY <1>4, BucketFacts
  <2>2. ASSUME NEW p, NEW k, p = want[w], k = Here(w)
        PROVE  Occupied(p, k)' /\ Others(p, k)'
    BY <1>4, <1>7, <2>1, <2>2, Grow DEF IInv
  <2>3. Here(w)' = Here(w)
    BY DEF Here
  <2>4. Occupied(want[w], Here(w))' /\ Others(want[w], Here(w))'
    BY <2>2, <2>3 DEF Occupied, Others, Pos
  <2> QED BY <1>4, <2>1, <2>4 DEF IInv, WorkerType, PassedBy, Looking
<1>13. Passed'
  BY <1>6, <1>7, <1>12, PassedKept
<1>14. Claims'
  <2>1. /\ cidx'[w] = b /\ pc'[w] = "cas" /\ reg'[w] = NoRegion /\ data'[b] = want[w]
        /\ data'[b] = want'[w] /\ b \in bitmap2'
    BY <1>1, <1>3 DEF IInv, WorkerType, TableType
  <2>2. \A v \in Workers \ {w} : /\ pc'[v] = pc[v] /\ reg'[v] = reg[v] /\ cidx'[v] = cidx[v]
                                 /\ cidx[v] # 0 => data'[cidx[v]] = data[cidx[v]]
    BY <1>1, <1>3, <1>5 DEF IInv, WorkerType, TableType, Claims
  <2>3. my_region' = my_region /\ want' = want /\ table' = table /\ bitmap1' = bitmap1
    OBVIOUS
  <2> QED BY <1>1, <1>2, <1>3, <1>5, <2>1, <2>2, <2>3 DEF IInv, Claims, NoRegion
<1>15. pc'[w] = "cas" /\ res'[w] = 0
  BY DEF IInv, WorkerType, Results
<1>16. CacheType' /\ GcType' /\ Collecting' /\ Results'
  BY <1>4, <1>6, <1>7, <1>8, <1>9, <1>15, LookFrame DEF Reach
<1> QED BY <1>8, <1>9, <1>10, <1>11, <1>13, <1>14, <1>16 DEF IInv

(* The next region: taken only when no worker has it. *)
LEMMA NextRegionInv ==
    ASSUME IInv, NEW w \in Workers, NextRegion(w), UNCHANGED <<cachevars, held>>, SameGc
    PROVE  IInv'
PROOF
<1> DEFINE r == IF reg[w] = NoRegion THEN FirstRegion(w) ELSE (reg[w] + 1) % Regions
<1>1. r \in 0 .. Regions - 1
  <2>1. CASE reg[w] = NoRegion
    BY <2>1, FirstIn DEF IInv
  <2>2. CASE reg[w] # NoRegion
    <3>1. reg[w] + 1 \in Nat /\ Regions \in Nat \ {0}
      BY <2>2, TableSize DEF IInv, WorkerType
    <3> QED BY <2>2, <3>1, DivMod
  <2> QED BY <2>1, <2>2
<1>2. /\ pc[w] = "claim" /\ pc[w] \in Looking
      /\ reg' = [reg EXCEPT ![w] = r]
      /\ \/ UNCHANGED <<bitmap1, my_region>>
         \/ /\ r \notin bitmap1
            /\ bitmap1' = bitmap1 \cup {r}
            /\ my_region' = [my_region EXCEPT ![w] = r]
      /\ UNCHANGED <<table, data, bitmap2, table_size, max_size, threshold, pc, want, line, off,
                     cidx, res>>
  BY DEF NextRegion, Looking
<1> HIDE DEF r
<1>3. WorkersKept(w) /\ Grows
  BY <1>2 DEF IInv, WorkerType, WorkersKept, Grows
<1>4. TableType'
  BY <1>2 DEF IInv, TableType
<1>5. WorkerType'
  BY <1>1, <1>2 DEF IInv, WorkerType, Regions, Places
<1>6. InUse'
  BY <1>2 DEF IInv, InUse
<1>7. Seats'
  BY <1>2, <1>3, <1>4, SeatsKept DEF IInv, TableType
<1>8. Passed'
  <2>1. PassedBy(w)'
    BY <1>2 DEF IInv, Passed, PassedBy, Looking, Here, Occupied, Others, Pos
  <2> QED BY <1>2, <1>3, <2>1, PassedKept
<1>9. Claims'
  BY <1>1, <1>2 DEF IInv, WorkerType, Claims
<1>10. res'[w] = 0
  BY <1>2 DEF IInv, WorkerType, Results
<1>11. CacheType' /\ GcType' /\ Collecting' /\ Results'
  BY <1>2, <1>3, <1>4, <1>5, <1>10, LookFrame DEF Reach
<1> QED BY <1>4, <1>5, <1>6, <1>7, <1>8, <1>9, <1>11 DEF IInv

LEMMA NoBucketInv ==
    ASSUME IInv, NEW w \in Workers, NoBucket(w), UNCHANGED <<cachevars, held>>, SameGc
    PROVE  IInv'
BY GiveUpInv DEF NoBucket, Looking

(* The compare-and-swap: the new node sits where its probe sequence first  *)
(* met an empty bucket.                                                    *)
LEMMA PublishInv ==
    ASSUME IInv, NEW w \in Workers, Publish(w), UNCHANGED <<cachevars, held>>, SameGc
    PROVE  IInv'
PROOF
<1> DEFINE b == Bucket(w)
           i == cidx[w]
<1>1. pc[w] = "cas" /\ pc[w] \in Looking
  BY DEF Publish, Looking
<1>2. CASE table[b] # Empty /\ Compare(w, table[b])
  BY <1>1, <1>2, CompareInv
<1>3. CASE /\ table[b] = Empty
           /\ table' = [table EXCEPT ![b] = i]
           /\ res' = [res EXCEPT ![w] = i]
           /\ cidx' = [cidx EXCEPT ![w] = 0]
           /\ line' = [line EXCEPT ![w] = 0] /\ off' = [off EXCEPT ![w] = 0]
           /\ At(w, "found")
           /\ UNCHANGED <<data, bitmap1, bitmap2, table_size, max_size, threshold, my_region,
                          want, left, reg>>
  <2>1. /\ b \in Buckets /\ Pos(want[w], Here(w)) = b /\ Here(w) \in Nat
        /\ Here(w) < threshold * LINE /\ want[w] \in Pairs
        /\ Occupied(want[w], Here(w)) /\ Others(want[w], Here(w))
    BY <1>1, BucketFacts
  <2>2. /\ i \in bitmap2 \ {0, 1} /\ i \in Buckets /\ data[i] = want[w] /\ i # 0
        /\ \A c \in Buckets : table[c] # i
        /\ \A v \in Workers \ {w} : cidx[v] # i
    BY <1>1 DEF IInv, Claims, WorkerType
  <2> HIDE DEF b, i
  <2> USE <1>3 DEF At
  <2>3. WorkersKept(w)
    BY DEF IInv, WorkerType, WorkersKept
  <2>4. Grows
    BY <2>1 DEF IInv, TableType, Grows
  <2>5. TableType'
    BY <2>1, <2>2 DEF IInv, TableType
  <2>6. WorkerType'
    BY <2>2, TableSize, TableAssumption DEF IInv, WorkerType, Regions, Places
  <2>7. InUse'
    BY <2>1, <2>2 DEF IInv, TableType, InUse
  <2>8. Seats'
    <3>1. \A c \in Buckets : table'[c] # table[c] => c = b
      BY <2>1 DEF IInv, TableType
    <3>2. table'[b] = i /\ data'[i] = want[w]
      BY <2>1, <2>2 DEF IInv, TableType
    <3>3. ASSUME NEW p, NEW j, NEW n \in Nat, NEW c \in Buckets,
                 p = want[w], j = i, n = Here(w), c = b
          PROVE  SeatAt(p, j, n)'
      <4>1. Occupied(p, n)' /\ Others(p, n)'
        BY <2>1, <2>4, <3>3, Grow DEF IInv
      <4>2. Pos(p, n)' = c /\ n < threshold' * LINE
        BY <2>1, <3>3 DEF Pos
      <4>3. table'[c] = j /\ data'[j] = p
        BY <3>2, <3>3
      <4> QED BY <4>1, <4>2, <4>3 DEF SeatAt
    <3>4. ASSUME NEW c \in Buckets, c = b
          PROVE  \E n \in Nat : SeatAt(data[table[c]], table[c], n)'
      <4>1. PICK n \in Nat : n = Here(w)
        BY <2>1
      <4>2. SeatAt(data[table[c]], table[c], n)'
        BY <3>2, <3>3, <3>4, <4>1 DEF SeatAt, Occupied, Others, Pos
      <4> QED BY <4>2
    <3> QED BY <2>1, <2>4, <2>5, <3>1, <3>4, SeatsKept DEF IInv, TableType
  <2>9. PassedBy(w)'
    BY DEF IInv, WorkerType, PassedBy, Looking
  <2>10. Passed'
    BY <2>3, <2>4, <2>9, PassedKept
  <2>11. Claims'
    <3>1. \A v \in Workers \ {w} : cidx[v] # 0 => \A c \in Buckets : table'[c] # cidx[v]
      BY <2>1, <2>2 DEF IInv, TableType, Claims
    <3>2. /\ cidx'[w] = 0 /\ pc'[w] = "found" /\ reg'[w] = NoRegion
          /\ \A v \in Workers \ {w} : cidx'[v] = cidx[v] /\ pc'[v] = pc[v] /\ reg'[v] = reg[v]
      BY <1>1 DEF IInv, WorkerType, Claims
    <3> QED BY <3>1, <3>2 DEF IInv, Claims
  <2>12. Reach(res[w])' /\ pc'[w] = "found"
    BY <2>1, <2>2 DEF IInv, TableType, WorkerType, Reach
  <2>13. CacheType' /\ GcType' /\ Collecting' /\ Results'
    BY <1>1, <2>3, <2>4, <2>5, <2>6, <2>12, LookFrame
  <2> QED BY <2>5, <2>6, <2>7, <2>8, <2>10, <2>11, <2>13 DEF IInv
<1> QED BY <1>1, <1>2, <1>3 DEF Publish

LEMMA LookInv ==
    ASSUME IInv, NEW w \in Workers, Look(w)
    PROVE  IInv'
BY ReadBucketInv, ClaimBucketInv, NextRegionInv, NoBucketInv, PublishInv DEF Look, llmsset_lookup

(* The result goes to the caller and into the cache. *)
LEMMA FoundInv ==
    ASSUME IInv, NEW w \in Workers, Found(w)
    PROVE  IInv'
PROOF
<1> USE DEF Found, StartPut, At, CAt, Shared
<1>1. 0 \in Buckets /\ collector = NoOne
  BY TableSize DEF IInv, Collecting
<1>2. TableType' /\ GcType' /\ InUse'
  BY DEF IInv, TableType, GcType, InUse
<1>3. WorkerType'
  BY <1>1 DEF IInv, WorkerType, Regions, Places
<1>4. CacheType'
  BY DEF IInv, WorkerType, CacheType
<1>5. Seats'
  BY DEF IInv, Seats, SeatAt, Occupied, Others, Pos
<1>6. Passed'
  <2>1. ASSUME NEW v \in Workers
        PROVE  PassedBy(v)'
    <3>1. PassedBy(v)
      BY DEF IInv, Passed
    <3>2. CASE v = w
      BY <3>1, <3>2 DEF IInv, WorkerType, PassedBy, Looking
    <3>3. CASE v # w
      BY <3>1, <3>3 DEF IInv, WorkerType, PassedBy, Here, Occupied, Others, Pos
    <3> QED BY <3>2, <3>3
  <2> QED BY <2>1 DEF Passed
<1>7. Claims'
  BY DEF IInv, WorkerType, Claims
<1>8. Collecting'
  BY <1>1 DEF IInv, Collecting
<1>9. Results'
  <2>1. res[w] \in Buckets /\ Reach(res[w])
    BY DEF IInv, WorkerType, Results
  <2>2. /\ pc'[w] = "put" /\ got'[w] = res[w] /\ res'[w] = 0
        /\ \A v \in Workers \ {w} : /\ pc'[v] = pc[v] /\ got'[v] = got[v] /\ res'[v] = res[v]
                                    /\ cpc'[v] = cpc[v]
    BY DEF IInv, WorkerType, CacheType
  <2>3. \A h \in held' : h[2] \in Buckets /\ Reach(h[2])
    BY <2>1 DEF IInv, Results
  <2> QED BY <2>1, <2>2, <2>3 DEF IInv, Results, Reach
<1> QED BY <1>2, <1>3, <1>4, <1>5, <1>6, <1>7, <1>8, <1>9 DEF IInv

-----------------------------------------------------------------------------
(* The collection.                                                         *)

(* There is one seat for each pair. *)
LEMMA SeatUnique ==
    ASSUME NEW p, NEW i, NEW j, NEW n \in Nat, NEW m \in Nat, SeatAt(p, i, n), SeatAt(p, j, m)
    PROVE  i = j
PROOF
<1> USE DEF SeatAt
<1>1. CASE n < m
  BY <1>1, n \in 0 .. m - 1 DEF Others
<1>2. CASE m < n
  BY <1>2, m \in 0 .. n - 1 DEF Others
<1>3. CASE n = m
  BY <1>3
<1> QED BY <1>1, <1>2, <1>3

LEMMA Doubled ==
    ASSUME NEW s \in Nat, NEW d \in Nat \ {0}, s % d = 0
    PROVE  (2 * s) % d = 0
PROOF
<1>1. s \div d \in Nat /\ s = d * (s \div d)
  <2>1. s \div d \in Nat /\ s = d * (s \div d) + (s % d)
    BY DivMod
  <2> QED BY <2>1
<1> DEFINE q == s \div d
<1> HIDE DEF q
<1>2. 2 * q \in Nat /\ 2 * s = (2 * q) * d + 0
  BY <1>1 DEF q
<1>3. ((2 * q) * d + 0) % d = 0
  BY <1>2, DivMul, 0 \in 0 .. d - 1
<1> QED BY <1>2, <1>3

LEMMA GcInv ==
    ASSUME IInv, NEW w \in Workers, sylvan_gc_go(w)
    PROVE  IInv'
PROOF
<1> USE DEF sylvan_gc_go, sylvan_gc_aggressive_resize, llmsset_reset_region, cache_clear
<1>1. /\ torehash = {} /\ \A v \in Workers : rehashing[v] = NoOne /\ pc[v] \in {"idle", "full"}
      /\ \A v \in Workers : /\ res[v] = 0 /\ got[v] = 0 /\ cidx[v] = 0 /\ reg[v] = NoRegion
                            /\ line[v] = 0 /\ off[v] = 0
  BY DEF IInv, Collecting, Results, Claims, Passed, PassedBy, Looking
<1>2. \A i \in Marked : /\ i \in Buckets /\ i \in bitmap2
                        /\ i \notin {0, 1} => \E b \in Buckets : table[b] = i
  <2>1. {0, 1} \subseteq Buckets /\ {0, 1} \subseteq bitmap2
    BY TableSize DEF IInv, InUse
  <2>2. \A h \in held : h[2] \in Buckets /\ Reach(h[2])
    BY DEF IInv, Results
  <2>3. ASSUME NEW h \in held, h[2] \notin {0, 1}
        PROVE  \E b \in Buckets : table[b] = h[2]
    BY <1>1, <2>2, <2>3 DEF Reach, Buckets, NoOne
  <2>4. \A h \in held : h[2] \in bitmap2
    BY <2>1, <2>2, <2>3 DEF IInv, InUse, Buckets, Empty
  <2> QED BY <2>1, <2>2, <2>3, <2>4 DEF Marked
<1>3. {0, 1} \subseteq Marked /\ \A h \in held : h[2] \in Marked
  BY DEF Marked
<1>4. TableType'
  <2>1. table_size \in Nat /\ LINE \in Nat \ {0} /\ REGION \in Nat \ {0} /\ Lines \in Nat \ {0}
    BY TableSize, TableAssumption DEF IInv
  <2>2. (2 * table_size) % LINE = 0 /\ (2 * table_size) % REGION = 0
    BY <2>1, Doubled DEF IInv, TableType
  <2>3. table_size' \in Sizes /\ table_size' % LINE = 0 /\ table_size' % REGION = 0
    BY <2>2, TableSize DEF IInv, TableType
  <2>4. threshold' \in Nat \ {0}
    BY <2>1 DEF IInv, TableType
  <2> QED BY <1>2, <2>3, <2>4 DEF IInv, TableType
<1>5. WorkerType'
  <2>1. reg \in [Workers -> {NoRegion} \cup 0 .. Regions' - 1]
    BY <1>1 DEF IInv, WorkerType
  <2> QED BY <2>1 DEF IInv, WorkerType
<1>6. CacheType'
  <2>1. 0 \in Words /\ 0 \in Buckets
    BY TableSize DEF IInv, Words
  <2>2. cache_table \in [0 .. Slots - 1 -> Entries]
    BY <2>1 DEF cache_table, NoEntry, Entries
  <2> QED BY <2>2 DEF IInv, CacheType
<1>7. GcType'
  BY <1>2 DEF IInv, GcType
<1>8. Seats'
  BY DEF Seats
<1>9. InUse'
  BY <1>2, <1>3 DEF IInv, InUse
<1>10. Passed'
  BY <1>1 DEF IInv, Passed, PassedBy, Looking
<1>11. Claims'
  BY <1>1 DEF IInv, WorkerType, Claims
<1>12. Collecting'
  <2>1. \A b \in Buckets : table'[b] \notin Marked
    BY <1>2 DEF Buckets, Empty
  <2>2. ASSUME NEW i \in Marked \ {0, 1}, NEW j \in Marked \ {0, 1}, data[i] = data[j]
        PROVE  i = j
    <3>1. PICK b \in Buckets, c \in Buckets : table[b] = i /\ table[c] = j
      BY <1>2
    <3>2. i # Empty /\ j # Empty
      BY <1>2 DEF Buckets, Empty
    <3>3. PICK n \in Nat : SeatAt(data[i], i, n)
      BY <3>1, <3>2 DEF IInv, Seats
    <3>4. PICK m \in Nat : SeatAt(data[j], j, m)
      BY <3>1, <3>2 DEF IInv, Seats
    <3> QED BY <2>2, <3>3, <3>4, SeatUnique
  <2>3. collector' # NoOne
    BY WorkersNat DEF NoOne
  <2> QED BY <1>1, <2>1, <2>2, <2>3 DEF Collecting
<1>13. Results'
  <2>1. \A s \in 0 .. Slots - 1 : entry'[s].res = 0
    BY DEF cache_table, NoEntry
  <2>2. \A h \in held : h[2] \in torehash' /\ h[2] \in Buckets
    BY <1>2, <1>3
  <2> QED BY <1>1, <2>1, <2>2 DEF IInv, Results, Reach
<1> QED BY <1>4, <1>5, <1>6, <1>7, <1>8, <1>9, <1>10, <1>11, <1>12, <1>13 DEF IInv

LEMMA EndGcInv ==
    ASSUME IInv, EndGc
    PROVE  IInv'
PROOF
<1> USE DEF EndGc, tabvars, cachevars
<1>1. \A w \in Workers : /\ pc[w] \in {"idle", "full"} /\ line[w] = 0 /\ off[w] = 0
                         /\ pc[w] = "full" => want[w] \in Pairs
  BY DEF IInv, Collecting, Passed, PassedBy, Looking
<1>2. TableType' /\ CacheType' /\ GcType' /\ InUse'
  BY <1>1 DEF IInv, TableType, CacheType, GcType, InUse
<1>3. WorkerType'
  BY DEF IInv, WorkerType, Regions, Places
<1>4. Seats'
  BY DEF IInv, Seats, SeatAt, Occupied, Others, Pos
<1>5. Passed'
  <2>1. ASSUME NEW w \in Workers
        PROVE  PassedBy(w)'
    <3>1. Here(w)' = 0
      BY <1>1, TableAssumption DEF Here
    <3>2. Occupied(want[w], Here(w))' /\ Others(want[w], Here(w))'
      BY <3>1 DEF Occupied, Others
    <3>3. line'[w] = 0 /\ off'[w] = 0 /\ threshold' > 0 /\ LINE > 0
      BY <1>1, TableAssumption DEF IInv, TableType
    <3>4. pc'[w] \in {"idle", "probe"} /\ (pc'[w] = "probe" => want[w] \in Pairs)
      BY <1>1
    <3> QED BY <3>2, <3>3, <3>4 DEF PassedBy, Looking
  <2> QED BY <2>1 DEF Passed
<1>6. Claims'
  BY <1>1 DEF IInv, Claims
<1>7. Collecting'
  BY DEF IInv, Collecting
<1>8. Results'
  BY <1>1 DEF IInv, Results, Reach
<1> QED BY <1>2, <1>3, <1>4, <1>5, <1>6, <1>7, <1>8 DEF IInv

LEMMA RehashParInv ==
    ASSUME IInv, NEW w \in Workers, llmsset_rehash_par(w)
    PROVE  IInv'
PROOF
<1> USE DEF llmsset_rehash_par, tabvars, cachevars
<1>1. PICK i \in torehash : /\ rehashing' = [rehashing EXCEPT ![w] = i]
                            /\ torehash' = torehash \ {i}
  OBVIOUS
<1>2. TableType' /\ WorkerType' /\ CacheType' /\ InUse'
  BY DEF IInv, TableType, WorkerType, Regions, CacheType, InUse
<1>3. GcType'
  BY <1>1 DEF IInv, GcType
<1>4. Seats'
  BY DEF IInv, Seats, SeatAt, Occupied, Others, Pos
<1>5. i \in Buckets /\ i # NoOne /\ rehashing'[w] = i /\ line[w] = 0 /\ off[w] = 0
  BY <1>1 DEF IInv, GcType, Buckets, NoOne, Passed, PassedBy, Collecting, Looking
<1>6. Passed'
  BY <1>1, <1>5 DEF IInv, GcType, Passed, PassedBy, Occupied, Others, Pos, Here
<1>7. Claims'
  BY DEF IInv, Claims
<1>8. Collecting'
  <2>1. Here(w)' = 0
    BY <1>5, TableAssumption DEF Here
  <2>2. line'[w] < threshold' /\ Occupied(data[rehashing[w]], Here(w))'
    BY <1>5, <2>1 DEF Occupied, IInv, TableType
  <2>3. ASSUME NEW v \in Workers, rehashing'[v] # NoOne
        PROVE  /\ rehashing'[v] \in bitmap2' \ torehash'
               /\ \A b \in Buckets : table'[b] # rehashing'[v]
               /\ \A u \in Workers \ {v} : rehashing'[u] # rehashing'[v]
    BY <1>1, <1>5, <2>3 DEF IInv, GcType, Collecting
  <2>4. ASSUME NEW v \in Workers \ {w}, rehashing'[v] # NoOne
        PROVE  line'[v] < threshold' /\ Occupied(data[rehashing[v]], Here(v))'
    BY <1>1, <2>4 DEF IInv, GcType, Collecting, Occupied, Pos, Here
  <2> QED BY <1>1, <2>2, <2>3, <2>4 DEF IInv, GcType, Collecting
<1>9. Results'
  <2>1. ASSUME NEW j \in Buckets, Reach(j)
        PROVE  Reach(j)'
    BY <1>1, <1>5, <2>1 DEF IInv, GcType, Reach, Buckets, NoOne
  <2>2. /\ \A v \in Workers : got[v] \in Buckets /\ res[v] \in Buckets
        /\ \A s \in 0 .. Slots - 1 : entry[s].res \in Buckets
    BY DEF IInv, CacheType, WorkerType, Entries
  <2> QED BY <2>1, <2>2 DEF IInv, Results, Reach
<1> QED BY <1>2, <1>3, <1>4, <1>6, <1>7, <1>8, <1>9 DEF IInv

(* llmsset_rehash_bucket, one attempt. *)
LEMMA RehashInv ==
    ASSUME IInv, NEW w \in Workers, llmsset_rehash_bucket(w)
    PROVE  IInv'
PROOF
<1> USE DEF llmsset_rehash_bucket, cachevars
<1> DEFINE i == rehashing[w]
           b == ProbeAt(data[i], line[w], off[w], table_size)
           nextline == off' = [off EXCEPT ![w] = 0] /\ line' = [line EXCEPT ![w] = @ + 1]
<1>1. /\ i \in Buckets /\ i \in bitmap2 \ torehash
      /\ \A c \in Buckets : table[c] # i
      /\ \A v \in Workers \ {w} : rehashing[v] # i
      /\ line[w] < threshold /\ Occupied(data[i], Here(w))
  BY DEF IInv, GcType, Collecting
<1>2. data[i] \in Pairs \cup {Zero} /\ collector # NoOne
  BY <1>1 DEF IInv, TableType, Collecting
<1>3. \A v \in Workers : pc[v] \in {"idle", "full"} /\ pc[v] \notin Looking
  BY <1>2 DEF IInv, Collecting, Looking
<1>4. line[w] \in Nat /\ off[w] \in 0 .. LINE /\ LINE \in Nat \ {0} /\ threshold \in Nat \ {0}
  BY TableAssumption DEF IInv, WorkerType, TableType
<1>5. Here(w) \in Nat /\ (line[w] + 1) * LINE = line[w] * LINE + LINE /\ line[w] * LINE \in Nat
  BY <1>4, HereFacts, Product DEF IInv
<1>6. ASSUME off[w] < LINE
      PROVE  b \in Buckets /\ Pos(data[i], Here(w)) = b /\ Here(w) < threshold * LINE
  BY <1>1, <1>2, <1>4, <1>6, ProbeIn, HereFacts, SMTT(60) DEF IInv
(* What every attempt leaves alone: *)
<1>7. CacheType' /\ Claims'
  <2>1. UNCHANGED <<data, bitmap1, bitmap2, table_size, my_region, want, cidx, reg, pc, entry,
                    got, cpc, key>>
    OBVIOUS
  <2>2. \A v \in Workers : cidx[v] = 0
    BY <1>3 DEF IInv, Claims
  <2> QED BY <2>1, <2>2, <1>3 DEF IInv, CacheType, Claims
<1>8. ASSUME line' \in [Workers -> Nat], off' \in [Workers -> 0 .. LINE],
             rehashing' = rehashing,
             \A v \in Workers \ {w} : line'[v] = line[v] /\ off'[v] = off[v],
             line'[w] < threshold', threshold' \in {threshold, threshold + 1}, table' = table,
             Occupied(data[i], Here(w)')
      PROVE  IInv'
  <2> USE <1>8
  <2>1. threshold' \in Nat \ {0} /\ threshold' >= threshold
    BY <1>4
  <2>2. TableType' /\ InUse' /\ GcType'
    BY <2>1 DEF IInv, TableType, InUse, GcType
  <2>3. WorkerType'
    BY DEF IInv, WorkerType, Regions
  <2>4. Seats'
    BY <2>1, <2>2, SeatsKept DEF IInv, TableType, Grows
  <2>5. Passed'
    BY <1>1, <1>3 DEF IInv, Passed, PassedBy, NoOne, Buckets
  <2>6. Collecting'
    <3>1. ASSUME NEW v \in Workers, rehashing'[v] # NoOne
          PROVE  line'[v] < threshold' /\ Occupied(data[rehashing[v]], Here(v))'
      <4>1. CASE v = w
        BY <4>1 DEF Occupied, Pos
      <4>2. CASE v # w
        <5>1. line[v] < threshold /\ Occupied(data[rehashing[v]], Here(v)) /\ line[v] \in Nat
          BY <3>1 DEF IInv, WorkerType, Collecting
        <5>2. Here(v)' = Here(v)
          BY <4>2 DEF Here
        <5>3. line'[v] < threshold'
          BY <1>4, <2>1, <4>2, <5>1
        <5>4. Occupied(data[rehashing[v]], Here(v))'
          BY <5>1, <5>2 DEF Occupied, Pos
        <5> QED BY <5>3, <5>4
      <4> QED BY <4>1, <4>2
    <3> QED BY <3>1 DEF IInv, Collecting
  <2>7. Results'
    BY DEF IInv, Results, Reach
  <2> QED BY <1>7, <2>2, <2>3, <2>4, <2>5, <2>6, <2>7 DEF IInv
(* The bucket is empty: *)
<1>9. CASE /\ off[w] < LINE /\ table[b] = Empty
           /\ table' = [table EXCEPT ![b] = i]
           /\ line' = [line EXCEPT ![w] = 0] /\ off' = [off EXCEPT ![w] = 0]
           /\ UNCHANGED threshold
  <2>1. b \in Buckets /\ Pos(data[i], Here(w)) = b /\ Here(w) < threshold * LINE
    BY <1>6, <1>9
  <2>2. i # Empty
    BY <1>1 DEF Buckets, Empty
  <2> HIDE DEF b
  <2>3. rehashing' = [rehashing EXCEPT ![w] = NoOne]
    <3>1. table'[b] = i /\ table[b] # i
      BY <1>9, <2>1, <2>2 DEF IInv, TableType
    <3> QED BY <3>1
  <2>4. PICK c \in Buckets, j \in Buckets, k \in Nat, p \in Pairs \cup {Zero} :
           c = b /\ j = i /\ k = Here(w) /\ p = data[i]
    BY <1>1, <1>2, <1>5, <2>1
  <2> HIDE DEF i
  <2>5. /\ table' = [table EXCEPT ![c] = j] /\ table[c] = Empty
        /\ Pos(p, k) = c /\ k < threshold * LINE /\ data[j] = p /\ Occupied(p, k)
        /\ j \in bitmap2 \ torehash /\ \A x \in Buckets : table[x] # j
        /\ j = rehashing[w] /\ \A v \in Workers \ {w} : rehashing[v] # j
    BY <1>1, <1>9, <2>1, <2>4 DEF i
  <2>6. Grows
    BY <2>5 DEF IInv, TableType, Grows
  <2>7. TableType' /\ InUse' /\ GcType'
    BY <1>9, <2>3, <2>5 DEF IInv, TableType, InUse, GcType
  <2>8. WorkerType'
    BY <1>4, <1>9 DEF IInv, WorkerType, Regions
  <2>9. Seats'
    <3>1. ASSUME j \notin {0, 1}
          PROVE  SeatAt(p, j, k)'
      <4>1. p \in Pairs /\ Zero \notin Pairs
        BY <2>5, <3>1, TableAssumption DEF IInv, InUse
      <4>2. ASSUME NEW n \in 0 .. k - 1, data[table[Pos(p, n)]] = p
            PROVE  FALSE
        <5>1. Pos(p, n) \in Buckets
          BY PosIn DEF IInv
        <5>2. table[Pos(p, n)] # Empty /\ table[Pos(p, n)] # j
          BY <2>5, <5>1 DEF Occupied
        <5>3. table[Pos(p, n)] \in bitmap2
          BY <5>1, <5>2 DEF IInv, InUse
        <5>4. table[Pos(p, n)] \notin {0, 1}
          BY <4>1, <4>2 DEF IInv, InUse
        <5> QED BY <1>2, <2>5, <3>1, <4>2, <5>2, <5>3, <5>4 DEF IInv, Collecting
      <4>3. Others(p, k)
        BY <4>2 DEF Others
      <4>4. Occupied(p, k)' /\ Others(p, k)'
        BY <2>5, <2>6, <4>3, Grow DEF IInv
      <4>5. Pos(p, k)' = c /\ table'[c] = j /\ data'[j] = p /\ k < threshold' * LINE
        BY <1>9, <2>5 DEF Pos, IInv, TableType
      <4> QED BY <4>4, <4>5 DEF SeatAt
    <3>2. ASSUME NEW x \in Buckets, table'[x] \notin {table[x], Empty, 0, 1}
          PROVE  \E n \in Nat : SeatAt(data[table[x]], table[x], n)'
      <4>1. x = c /\ table'[x] = j /\ data'[j] = p
        BY <2>5, <3>2 DEF IInv, TableType
      <4>2. SeatAt(data[table[x]], table[x], k)'
        BY <3>1, <3>2, <4>1 DEF SeatAt, Occupied, Others, Pos
      <4> QED BY <4>2
    <3> QED BY <1>4, <1>9, <2>6, <2>7, <3>2, SeatsKept DEF IInv
  <2>10. Passed'
    BY <1>3, <1>9, <2>3 DEF IInv, WorkerType, GcType, Passed, PassedBy
  <2>11. Collecting'
    <3>1. ASSUME NEW v \in Workers, rehashing'[v] # NoOne
          PROVE  line'[v] < threshold' /\ Occupied(data[rehashing[v]], Here(v))'
      <4>1. v # w /\ rehashing'[v] = rehashing[v] /\ line'[v] = line[v] /\ off'[v] = off[v]
        BY <1>9, <2>3, <3>1 DEF IInv, GcType, WorkerType
      <4>2. /\ line[v] < threshold /\ Occupied(data[rehashing[v]], Here(v))
            /\ data[rehashing[v]] \in Pairs \cup {Zero}
        BY <3>1, <4>1 DEF IInv, GcType, TableType, Collecting
      <4>3. Here(v)' = Here(v) /\ Here(v) \in Nat
        BY <4>1, HereFacts DEF IInv, Here
      <4>4. PICK q \in Pairs \cup {Zero}, m \in Nat : q = data[rehashing[v]] /\ m = Here(v)
        BY <4>2, <4>3
      <4>5. Occupied(q, m)'
        BY <2>6, <4>2, <4>4, Grow DEF IInv
      <4>6. Occupied(data[rehashing[v]], Here(v))'
        BY <4>1, <4>3, <4>4, <4>5 DEF Occupied, Pos
      <4> QED BY <1>9, <4>1, <4>2, <4>6
    <3>2. \A x \in Buckets : table'[x] \notin torehash
      BY <2>5 DEF IInv, TableType, Collecting
    <3>3. ASSUME NEW v \in Workers, rehashing'[v] # NoOne
          PROVE  /\ rehashing'[v] \in bitmap2' \ torehash'
                 /\ \A x \in Buckets : table'[x] # rehashing'[v]
                 /\ \A u \in Workers \ {v} : rehashing'[u] # rehashing'[v]
      <4>1. v # w /\ rehashing'[v] = rehashing[v]
        BY <2>3, <3>3 DEF IInv, GcType
      <4>2. \A x \in Buckets : table'[x] # rehashing[v]
        BY <2>5, <3>3, <4>1 DEF IInv, TableType, Collecting
      <4>3. \A u \in Workers \ {v} : rehashing'[u] # rehashing[v]
        BY <2>3, <3>3, <4>1 DEF IInv, GcType, Collecting
      <4> QED BY <3>3, <4>1, <4>2, <4>3 DEF IInv, Collecting
    <3> QED BY <1>2, <3>1, <3>2, <3>3 DEF IInv, Collecting
  <2>12. Results'
    <3>1. ASSUME NEW r \in Buckets, Reach(r)
          PROVE  Reach(r)'
      <4>1. CASE r = j
        BY <2>5, <4>1 DEF Reach, IInv, TableType
      <4>2. CASE r # j /\ \E x \in Buckets : table[x] = r
        <5>1. PICK x \in Buckets : table[x] = r
          BY <4>2
        <5>2. table'[x] = r
          BY <2>5, <5>1 DEF Buckets, Empty, IInv, TableType
        <5> QED BY <5>2 DEF Reach
      <4>3. CASE r # j /\ ~\E x \in Buckets : table[x] = r
        BY <2>3, <2>5, <3>1, <4>3 DEF Reach, IInv, GcType
      <4> QED BY <4>1, <4>2, <4>3
    <3>2. /\ \A v \in Workers : got[v] \in Buckets /\ res[v] \in Buckets
          /\ \A s \in 0 .. Slots - 1 : entry[s].res \in Buckets
      BY DEF IInv, CacheType, WorkerType, Entries
    <3> QED BY <3>1, <3>2 DEF IInv, Results, Reach
  <2> QED BY <1>7, <2>7, <2>8, <2>9, <2>10, <2>11, <2>12 DEF IInv
(* or it is not, and the probe sequence goes on: *)
<1>10. ASSUME table[b] # Empty, off[w] < LINE
       PROVE  \A n \in 0 .. Here(w) : table[Pos(data[i], n)] # Empty
  <2>1. Pos(data[i], Here(w)) = b
    BY <1>6, <1>10
  <2>2. \A n \in 0 .. Here(w) : n \in 0 .. Here(w) - 1 \/ n = Here(w)
    BY <1>5
  <2> QED BY <1>1, <1>10, <2>1, <2>2 DEF Occupied
<1> HIDE DEF i
<1>11. CASE /\ off[w] + 1 < LINE /\ table[b] # Empty
            /\ off' = [off EXCEPT ![w] = @ + 1]
            /\ UNCHANGED <<table, line, threshold>>
  <2>1. off'[w] = off[w] + 1 /\ off' \in [Workers -> 0 .. LINE] /\ off[w] < LINE
    BY <1>4, <1>11 DEF IInv, WorkerType
  <2>2. Here(w)' = Here(w) + 1
    BY <1>4, <1>5, <1>11, <2>1 DEF Here
  <2>3. Occupied(data[i], Here(w)')
    BY <1>5, <1>10, <1>11, <2>1, <2>2 DEF Occupied
  <2> QED BY <1>1, <1>4, <1>8, <1>11, <2>1, <2>3 DEF IInv, WorkerType
<1>12. ASSUME nextline, line[w] + 1 < threshold', threshold' \in {threshold, threshold + 1},
              table' = table, Occupied(data[i], (line[w] + 1) * LINE)
       PROVE  IInv'
  <2>1. /\ off'[w] = 0 /\ line'[w] = line[w] + 1
        /\ off' \in [Workers -> 0 .. LINE] /\ line' \in [Workers -> Nat]
    BY <1>4, <1>12 DEF IInv, WorkerType
  <2>2. Here(w)' = (line[w] + 1) * LINE
    BY <1>5, <1>4, <2>1 DEF Here
  <2> QED BY <1>4, <1>8, <1>12, <2>1, <2>2 DEF IInv, WorkerType
<1>13. CASE /\ off[w] + 1 = LINE /\ table[b] # Empty /\ line[w] + 1 # threshold
            /\ nextline /\ UNCHANGED <<table, threshold>>
  <2>1. line[w] + 1 < threshold /\ off[w] < LINE /\ (line[w] + 1) * LINE = Here(w) + 1
    BY <1>1, <1>4, <1>5, <1>13 DEF Here
  <2>2. Occupied(data[i], (line[w] + 1) * LINE)
    BY <1>5, <1>10, <1>13, <2>1 DEF Occupied
  <2> QED BY <1>12, <1>13, <2>1, <2>2
<1>14. CASE /\ off[w] + 1 = LINE /\ table[b] # Empty /\ line[w] + 1 = threshold
            /\ off' = [off EXCEPT ![w] = LINE]
            /\ UNCHANGED <<table, line, threshold>>
  <2>1. off'[w] = LINE /\ off' \in [Workers -> 0 .. LINE] /\ off[w] < LINE
    BY <1>4, <1>14 DEF IInv, WorkerType
  <2>2. Here(w)' = Here(w) + 1
    BY <1>4, <1>5, <1>14, <2>1 DEF Here
  <2>3. Occupied(data[i], Here(w)')
    BY <1>5, <1>10, <1>14, <2>1, <2>2 DEF Occupied
  <2> QED BY <1>1, <1>4, <1>8, <1>14, <2>1, <2>3 DEF IInv, WorkerType
<1>15. CASE off[w] = LINE /\ threshold' = Raised(w) /\ nextline /\ UNCHANGED table
  <2>1. (line[w] + 1) * LINE = Here(w) /\ line[w] + 1 < threshold' /\ threshold' = threshold + 1
    BY <1>1, <1>4, <1>5, <1>15 DEF Here, Raised
  <2> QED BY <1>1, <1>12, <1>15, <2>1
<1> QED BY <1>9, <1>11, <1>13, <1>14, <1>15 DEF RehashBucket, i

-----------------------------------------------------------------------------
(* The theorems.                                                           *)

LEMMA IInvInductive == IInv /\ [Next]_vars => IInv'
PROOF
<1> SUFFICES ASSUME IInv, [Next]_vars PROVE IInv'
  OBVIOUS
<1>1. CASE Drop
  BY <1>1, DropInv
<1>2. CASE EndGc
  BY <1>2, EndGcInv
<1>3. ASSUME NEW w \in Workers, (\E k \in Keys : Begin(w, k)) \/ WorkerStep(w)
      PROVE  IInv'
  BY <1>3, BeginInv, GetInv, HitInv, MissInv, LookInv, FoundInv, PutInv, OverInv, GcInv,
     RehashParInv, RehashInv DEF WorkerStep
<1>4. CASE UNCHANGED vars
  <2> USE <1>4 DEF vars, tabvars, cachevars
  <2>1. /\ TableType' /\ WorkerType' /\ GcType'
        /\ Seats' /\ InUse' /\ Passed' /\ Claims' /\ Collecting'
    BY CacheFrame DEF IInv, WorkerType
  <2>2. CacheType' /\ Results'
    BY DEF IInv, CacheType, Results, Reach
  <2> QED BY <2>1, <2>2 DEF IInv
<1> QED BY <1>1, <1>2, <1>3, <1>4 DEF Next

(* The node of a seat is what a lookup finds. *)
LEMMA SeatFound ==
    ASSUME TableType, NEW p, NEW i \in Buckets, NEW n \in Nat, SeatAt(p, i, n)
    PROVE  Find(p) = i
PROOF
<1> DEFINE at(m) == table[ProbeAt(p, m \div LINE, m % LINE, table_size)]
           stops == {m \in 0 .. threshold * LINE - 1 : at(m) = Empty \/ data[at(m)] = p}
           first == CHOOSE m \in stops : \A k \in stops : m <= k
<1>1. threshold * LINE \in Nat
  BY Product, TableAssumption DEF TableType
<1>2. n \in stops /\ at(n) = i
  BY <1>1 DEF SeatAt, Pos
<1>3. ASSUME NEW m \in stops
      PROVE  n <= m
  <2>1. m \in Nat /\ (at(m) = Empty \/ data[at(m)] = p)
    BY <1>1
  <2>2. m \notin 0 .. n - 1
    BY <2>1 DEF SeatAt, Occupied, Others, Pos
  <2> QED BY <2>1, <2>2
<1>4. \A m \in stops : m \in Nat
  BY <1>1
<1>5. Find(p) = IF stops = {} THEN 0 ELSE IF at(first) = Empty THEN 0 ELSE at(first)
  BY DEF Find
<1> HIDE DEF stops
<1>6. first = n
  <2>1. first \in stops /\ \A k \in stops : first <= k
    BY <1>2, <1>3
  <2> HIDE DEF first
  <2>2. first <= n /\ n <= first /\ first \in Nat
    BY <1>2, <1>3, <1>4, <2>1
  <2> QED BY <2>2
<1>7. i # Empty
  BY DEF Buckets, Empty
<1> HIDE DEF first, at
<1>8. at(first) = i /\ stops # {}
  BY <1>2, <1>6
<1> QED BY <1>5, <1>7, <1>8

(* UniqueNodes of the run sylvan_tables: at any moment, in the middle of   *)
(* lookups, compare-and-swaps and a parallel rehash of any number of       *)
(* workers, every node in the hash array is the one a lookup of its        *)
(* contents finds.                                                         *)
THEOREM NodesUnique == Spec => []UniqueNodes
PROOF
<1>1. IInv => UniqueNodes
  <2> SUFFICES ASSUME IInv, NEW b \in Buckets, table[b] \notin {Empty, 0, 1}
               PROVE  Find(data[table[b]]) = table[b]
    BY DEF UniqueNodes
  <2>1. PICK n \in Nat : SeatAt(data[table[b]], table[b], n)
    BY DEF IInv, Seats
  <2>2. table[b] \in Buckets
    BY DEF IInv, TableType
  <2> QED BY <2>1, <2>2, SeatFound DEF IInv
<1> QED BY <1>1, InitInv, IInvInductive, PTL DEF Spec

(* OwnBuckets of the run sylvan_tables: claim_data_bucket never gives a    *)
(* region or a data bucket to two workers, and what a worker has claimed   *)
(* is in use and not in the hash array.                                    *)
THEOREM BucketsOwned == Spec => []OwnBuckets
PROOF
<1>1. IInv => OwnBuckets
  BY DEF IInv, WorkerType, Claims, OwnBuckets
<1> QED BY <1>1, InitInv, IInvInductive, PTL DEF Spec

(* A claimed bucket lies in the region of the worker that claimed it, and  *)
(* in the region of no other worker: the word of bitmap2 that              *)
(* release_data_bucket clears without a lock is written by one worker      *)
(* only, which is why the model may claim and release in one step.         *)
OwnRegion ==
    \A w, v \in Workers :
        cidx[w] # 0 =>
           /\ my_region[w] # NoRegion
           /\ (cidx[w] \in my_region[v] * REGION .. my_region[v] * REGION + REGION - 1) <=> v = w
THEOREM RegionOwned == Spec => []OwnRegion
PROOF
<1>1. ASSUME IInv PROVE OwnRegion
  <2> SUFFICES ASSUME NEW w \in Workers, NEW v \in Workers, cidx[w] # 0
               PROVE  /\ my_region[w] # NoRegion
                      /\ cidx[w] \in my_region[v] * REGION .. my_region[v] * REGION + REGION - 1
                         <=> v = w
    BY DEF OwnRegion
  <2>1. /\ my_region[w] # NoRegion
        /\ cidx[w] \in my_region[w] * REGION .. my_region[w] * REGION + REGION - 1
        /\ v # w => my_region[v] # my_region[w]
    BY <1>1 DEF IInv, Claims
  <2>2. my_region[w] \in Nat /\ my_region[v] \in Nat \cup {NoRegion} /\ cidx[w] \in Nat
    BY <1>1, <2>1, TableSize DEF IInv, WorkerType, Buckets
  <2>3. CASE v # w /\ my_region[v] = NoRegion
    BY <2>1, <2>2, <2>3, TableAssumption DEF NoRegion
  <2>4. CASE v # w /\ my_region[v] # NoRegion
    BY <2>1, <2>2, <2>4, RegionsApart
  <2> QED BY <2>1, <2>3, <2>4
<1> QED BY <1>1, InitInv, IInvInductive, PTL DEF Spec

(* Whatever the cache answers, and however often the table has been        *)
(* collected and doubled since, a result that is still referenced is one   *)
(* of the two unused buckets or a node that a lookup of its contents       *)
(* finds: the collection loses no result.  (That it is the node of its key *)
(* is ResultsTrue, which holds only while the 16-bit counter of the cache  *)
(* does not wrap inside one cache_get: TLC checks it.)                     *)
ResultsLive == collector = NoOne =>
                  \A h \in held : h[2] \in {0, 1} \/ Find(data[h[2]]) = h[2]
THEOREM ResultsKept == Spec => []ResultsLive
PROOF
<1>1. ASSUME IInv PROVE ResultsLive
  <2> SUFFICES ASSUME collector = NoOne, NEW h \in held, h[2] \notin {0, 1}
               PROVE  Find(data[h[2]]) = h[2]
    BY DEF ResultsLive
  <2>1. h[2] \in Buckets /\ Reach(h[2]) /\ h[2] # Empty
    BY <1>1 DEF IInv, Results, Buckets, Empty
  <2>2. PICK b \in Buckets : table[b] = h[2]
    BY <1>1, <2>1 DEF IInv, Collecting, Reach, Buckets, NoOne
  <2>3. PICK n \in Nat : SeatAt(data[h[2]], h[2], n)
    BY <1>1, <2>1, <2>2 DEF IInv, Seats
  <2> QED BY <1>1, <2>1, <2>3, SeatFound DEF IInv
<1> QED BY <1>1, InitInv, IInvInductive, PTL DEF Spec

(* No step of any worker changes the contents of a node that is still      *)
(* referenced: its data bucket is not given out again.                     *)
ContentsKept == [][\A h \in held \cap held' : data'[h[2]] = data[h[2]]]_vars
THEOREM ContentsStable == Spec => ContentsKept
PROOF
<1>1. ASSUME IInv, [Next]_vars
      PROVE  [\A h \in held \cap held' : data'[h[2]] = data[h[2]]]_vars
  <2>1. CASE UNCHANGED data
    BY <2>1
  <2>2. ASSUME NEW w \in Workers, ClaimBucket(w)
        PROVE  \A h \in held : data'[h[2]] = data[h[2]]
    <3>1. PICK b \in FreeIn(reg[w]) : data' = [data EXCEPT ![b] = want[w]]
      BY <2>2 DEF ClaimBucket
    <3>2. ASSUME NEW h \in held
          PROVE  h[2] \in bitmap2 /\ h[2] \in Buckets
      <4>1. h[2] \in Buckets /\ Reach(h[2]) /\ h[2] # Empty /\ h[2] # NoOne
        BY <1>1 DEF IInv, Results, Buckets, Empty, NoOne
      <4> QED BY <1>1, <4>1 DEF IInv, Reach, InUse, Collecting
    <3> QED BY <1>1, <3>1, <3>2 DEF IInv, TableType, FreeIn
  <2>3. ASSUME NEW w \in Workers, Look(w)
        PROVE  UNCHANGED data \/ ClaimBucket(w)
    BY <2>3 DEF Look, llmsset_lookup, ReadBucket, NextRegion, NoBucket, Publish, Compare,
                Advance, Return, Shared, tabvars
  <2>4. ASSUME NEW w \in Workers, WorkerStep(w), ~Look(w)
        PROVE  UNCHANGED data
    BY <2>4 DEF WorkerStep, Get, Hit, Miss, StartLookup, Found, Put, Over, sylvan_gc_go,
                llmsset_rehash_par, llmsset_rehash_bucket, Shared, tabvars
  <2>5. ASSUME NEW w \in Workers, NEW k \in Keys, Begin(w, k)
        PROVE  UNCHANGED data
    BY <2>5 DEF Begin, tabvars
  <2>6. CASE Drop \/ EndGc \/ UNCHANGED vars
    BY <2>6 DEF Drop, EndGc, vars, tabvars
  <2> QED BY <1>1, <2>1, <2>2, <2>3, <2>4, <2>5, <2>6 DEF Next
<1> QED BY <1>1, InitInv, IInvInductive, PTL DEF Spec, ContentsKept
=============================================================================
