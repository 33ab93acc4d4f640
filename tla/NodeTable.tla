----------------------------- MODULE NodeTable -----------------------------
(***************************************************************************)
(* The unique table of decision diagram nodes, src/sylvan_table.c.  A      *)
(* bucket of the hash array holds the index of a data bucket, if any; data *)
(* buckets are handed out region by region to the workers.  One step is    *)
(* one access to the hash array or to the bitmap of regions; the bitmap of *)
(* data buckets and the data are only touched by the owner of the region.  *)
(***************************************************************************)
EXTENDS Integers, FiniteSets
CONSTANTS Workers,     \* numbered from 0
          Pairs,       \* the contents of nodes
          Zero,        \* what the data of the unused buckets 0 and 1 hold
          Hash,        \* pair -> hash_rehash
          LINE,        \* buckets of a cache line
          REGION,      \* data buckets of a region
          MinSize, MaxSize,
          Lines        \* the initial threshold: lines probed before giving up
VARIABLES table, data,
          bitmap1,     \* the regions handed out
          bitmap2,     \* the data buckets in use
          table_size, max_size, threshold,
          my_region,
          pc, want,    \* per worker: place and pair looked up
          line, off,   \* per worker: place in the probe sequence
          cidx, left,  \* per worker: claimed bucket, regions left to try
          reg,         \* per worker: the region being tried
          res          \* per worker: result of llmsset_lookup
tabvars == <<table, data, bitmap1, bitmap2, table_size, max_size, threshold,
             my_region, want, line, off, cidx, left, reg, res>>

NoRegion == -1
Empty == -1        \* a bucket without hash and index
Regions == table_size \div REGION
Buckets == 0 .. MaxSize - 1
Step(p) == LINE * (2 * (Hash[p] \div LINE) + 1)

ASSUME TableAssumption ==
    /\ LINE \in Nat \ {0} /\ REGION \in Nat \ {0} /\ Lines \in Nat \ {0}
    /\ MinSize \in Nat /\ MaxSize \in Nat /\ MinSize >= 2
    /\ MinSize % LINE = 0 /\ MinSize % REGION = 0
    /\ Zero \notin Pairs /\ Hash \in [Pairs \cup {Zero} -> Nat]

(* Both sizes are powers of two: doubling the first one meets the second. *)
ASSUME SizesAssumption ==
    \E S \in SUBSET (MinSize .. MaxSize) :
        MinSize \in S /\ \A s \in S : s = MaxSize \/ 2 * s \in S

(* Worker ids are given out from 0 on by lace_n_workers_id. *)
ASSUME WorkersAssumption ==
    /\ IsFiniteSet(Workers) /\ Workers # {}
    /\ Workers = 0 .. Cardinality(Workers) - 1

(* The bucket after l whole cache lines and o steps in the next one. *)
ProbeAt(p, l, o, size) ==
    LET start == (Hash[p] + l * Step(p)) % size
    IN  LINE * (start \div LINE) + ((start + o) % LINE)
Bucket(w) == ProbeAt(want[w], line[w], off[w], table_size)

llmsset_create ==
    /\ table = [b \in Buckets |-> Empty] /\ data = [b \in Buckets |-> Zero]
    /\ bitmap1 = {} /\ bitmap2 = {0, 1}
    /\ table_size = MinSize /\ max_size \in {MinSize, MaxSize} /\ threshold = Lines
    /\ my_region = [w \in Workers |-> NoRegion]
    /\ want = [w \in Workers |-> Zero]
    /\ line = [w \in Workers |-> 0] /\ off = [w \in Workers |-> 0]
    /\ cidx = [w \in Workers |-> 0] /\ left = [w \in Workers |-> 0]
    /\ reg = [w \in Workers |-> NoRegion]
    /\ res = [w \in Workers |-> 0]

At(w, l) == pc' = [pc EXCEPT ![w] = l]
Shared == <<table, data, bitmap1, bitmap2, table_size, max_size, threshold, my_region>>

(* The beginning of llmsset_lookup2. *)
StartLookup(w, p) ==
    /\ want' = [want EXCEPT ![w] = p]
    /\ line' = [line EXCEPT ![w] = 0] /\ off' = [off EXCEPT ![w] = 0]
    /\ cidx' = [cidx EXCEPT ![w] = 0]
    /\ At(w, "probe")
    /\ UNCHANGED <<Shared, left, reg, res>>

(* A return, by way of the place l; the local variables die. *)
Return(w, i, l) ==
    /\ res' = [res EXCEPT ![w] = i]
    /\ cidx' = [cidx EXCEPT ![w] = 0]
    /\ line' = [line EXCEPT ![w] = 0] /\ off' = [off EXCEPT ![w] = 0]
    /\ left' = [left EXCEPT ![w] = 0] /\ reg' = [reg EXCEPT ![w] = NoRegion]
    /\ At(w, l)
    /\ UNCHANGED <<table, table_size, max_size, threshold, want>>

(* On to the next bucket of the probe sequence, or give up. *)
Advance(w) ==
    \/ /\ off[w] + 1 < LINE
       /\ off' = [off EXCEPT ![w] = @ + 1]
       /\ At(w, "probe")
       /\ UNCHANGED <<Shared, want, line, cidx, left, reg, res>>
    \/ /\ off[w] + 1 = LINE /\ line[w] + 1 < threshold
       /\ off' = [off EXCEPT ![w] = 0] /\ line' = [line EXCEPT ![w] = @ + 1]
       /\ At(w, "probe")
       /\ UNCHANGED <<Shared, want, cidx, left, reg, res>>
    \/ /\ off[w] + 1 = LINE /\ line[w] + 1 = threshold
       /\ Return(w, 0, "full")
       /\ UNCHANGED <<data, bitmap1, bitmap2, my_region>>

Equal(w, v) == data[v] = want[w]

(* The bucket holds v: the node looked for, and the data bucket claimed in *)
(* vain is released, or another one.                                       *)
Compare(w, v) ==
    \/ /\ Equal(w, v)
       /\ bitmap2' = bitmap2 \ (IF cidx[w] = 0 THEN {} ELSE {cidx[w]})
       /\ Return(w, v, "found")
       /\ UNCHANGED <<data, bitmap1, my_region>>
    \/ ~Equal(w, v) /\ Advance(w)

ReadBucket(w) ==
    LET v == table[Bucket(w)]
    IN  /\ pc[w] = "probe"
        /\ \/ v # Empty /\ Compare(w, v)
           \/ /\ v = Empty /\ cidx[w] # 0
              /\ At(w, "cas") /\ UNCHANGED tabvars
           \/ /\ v = Empty /\ cidx[w] = 0
              /\ reg' = [reg EXCEPT ![w] = my_region[w]]
              /\ left' = [left EXCEPT ![w] = Regions]
              /\ At(w, "claim")
              /\ UNCHANGED <<Shared, want, line, off, cidx, res>>

(* claim_data_bucket: the first free bucket of the region, ... *)
FreeIn(r) == (r * REGION .. r * REGION + REGION - 1) \ bitmap2
ClaimBucket(w) ==
    /\ pc[w] = "claim" /\ reg[w] # NoRegion /\ reg[w] = my_region[w]
    /\ \E b \in FreeIn(reg[w]) :
          /\ \A y \in FreeIn(reg[w]) : b <= y
          /\ bitmap2' = bitmap2 \cup {b}
          /\ data' = [data EXCEPT ![b] = want[w]]
          /\ cidx' = [cidx EXCEPT ![w] = b]
    /\ left' = [left EXCEPT ![w] = 0] /\ reg' = [reg EXCEPT ![w] = NoRegion]
    /\ At(w, "cas")
    /\ UNCHANGED <<table, bitmap1, table_size, max_size, threshold, my_region, want, line, off, res>>

(* ... or the next region, from a place of its own when w has none, ... *)
FirstRegion(w) == (w * Regions) \div Cardinality(Workers)
(* Mutant: a region is taken without looking whether it is free. *)
GrabRegion(w) ==
    LET r == IF reg[w] = NoRegion THEN FirstRegion(w) ELSE (reg[w] + 1) % Regions
    IN  /\ pc[w] = "claim" /\ left[w] > 0
        /\ reg[w] = my_region[w] => reg[w] = NoRegion \/ FreeIn(reg[w]) = {}
        /\ reg' = [reg EXCEPT ![w] = r]
        /\ bitmap1' = bitmap1 \cup {r}
        /\ my_region' = [my_region EXCEPT ![w] = r]
        /\ left' = [left EXCEPT ![w] = Regions]
        /\ UNCHANGED <<table, data, bitmap2, table_size, max_size, threshold, pc, want, line, off,
                       cidx, res>>
NextRegion(w) ==
    LET r == IF reg[w] = NoRegion THEN FirstRegion(w) ELSE (reg[w] + 1) % Regions
    IN  /\ pc[w] = "claim" /\ left[w] > 0
        /\ reg[w] = my_region[w] => reg[w] = NoRegion \/ FreeIn(reg[w]) = {}
        /\ reg' = [reg EXCEPT ![w] = r]
        /\ \/ /\ r \in bitmap1
              /\ left' = [left EXCEPT ![w] = @ - 1]
              /\ UNCHANGED <<bitmap1, my_region>>
           \/ /\ r \notin bitmap1
              /\ bitmap1' = bitmap1 \cup {r}
              /\ my_region' = [my_region EXCEPT ![w] = r]
              /\ left' = [left EXCEPT ![w] = Regions]
        /\ UNCHANGED <<table, data, bitmap2, table_size, max_size, threshold, pc, want, line, off,
                       cidx, res>>

(* ... until every region has been tried. *)
NoBucket(w) ==
    /\ pc[w] = "claim" /\ left[w] = 0
    /\ reg[w] = my_region[w] => FreeIn(reg[w]) = {}
    /\ Return(w, 0, "full")
    /\ UNCHANGED <<data, bitmap1, bitmap2, my_region>>

(* The compare-and-swap that publishes the node, or meets another one. *)
Publish(w) ==
    LET b == Bucket(w)
    IN  /\ pc[w] = "cas"
        /\ \/ /\ table[b] = Empty
              /\ table' = [table EXCEPT ![b] = cidx[w]]
              /\ res' = [res EXCEPT ![w] = cidx[w]]
              /\ cidx' = [cidx EXCEPT ![w] = 0]
              /\ line' = [line EXCEPT ![w] = 0] /\ off' = [off EXCEPT ![w] = 0]
              /\ At(w, "found")
              /\ UNCHANGED <<data, bitmap1, bitmap2, table_size, max_size, threshold, my_region,
                             want, left, reg>>
           \/ table[b] # Empty /\ Compare(w, table[b])

llmsset_lookup(w) ==
    \/ ReadBucket(w) \/ ClaimBucket(w) \/ NextRegion(w) \/ NoBucket(w) \/ Publish(w)

(* Mutant: the probe sequences grow and the threshold does not. *)
NotRaised(w) == threshold
Raised(w) == threshold + 1
(* llmsset_rehash_bucket, one attempt: data bucket i goes into the bucket  *)
(* it meets when that is empty; otherwise the probe sequence goes on, and  *)
(* the threshold with it: it is tested (off becomes LINE) and then raised, *)
(* so that two workers that find it too low both raise it.                 *)
RehashBucket(w, i) ==
    LET b == ProbeAt(data[i], line[w], off[w], table_size)
        nextline == off' = [off EXCEPT ![w] = 0] /\ line' = [line EXCEPT ![w] = @ + 1]
    IN  \/ /\ off[w] < LINE /\ table[b] = Empty
           /\ table' = [table EXCEPT ![b] = i]
           /\ line' = [line EXCEPT ![w] = 0] /\ off' = [off EXCEPT ![w] = 0]
           /\ UNCHANGED threshold
        \/ /\ off[w] + 1 < LINE /\ table[b] # Empty
           /\ off' = [off EXCEPT ![w] = @ + 1]
           /\ UNCHANGED <<table, line, threshold>>
        \/ /\ off[w] + 1 = LINE /\ table[b] # Empty /\ line[w] + 1 # threshold
           /\ nextline /\ UNCHANGED <<table, threshold>>
        \/ /\ off[w] + 1 = LINE /\ table[b] # Empty /\ line[w] + 1 = threshold
           /\ off' = [off EXCEPT ![w] = LINE]
           /\ UNCHANGED <<table, line, threshold>>
        \/ /\ off[w] = LINE
           /\ threshold' = Raised(w)
           /\ nextline /\ UNCHANGED table

(* What a lookup of p alone would find now: the index, or 0. *)
Find(p) ==
    LET at(n) == table[ProbeAt(p, n \div LINE, n % LINE, table_size)]
        stops == {n \in 0 .. threshold * LINE - 1 : at(n) = Empty \/ data[at(n)] = p}
        first == CHOOSE n \in stops : \A m \in stops : n <= m
    IN  IF stops = {} THEN 0 ELSE IF at(first) = Empty THEN 0 ELSE at(first)
=============================================================================
