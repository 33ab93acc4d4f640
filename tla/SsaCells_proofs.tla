-------------------------- MODULE SsaCells_proofs ---------------------------
(***************************************************************************)
(* The cells of SsaPool in a program with one thread, for any block size,  *)
(* any number of blocks, registers and bytes of memory: every count is the *)
(* number of pointers, the ring holds the free cells, and a cell keeps its *)
(* set as long as a tag points to it.                                      *)
(***************************************************************************)
EXTENDS SsaPool_proofs, FiniteSetTheorems

-----------------------------------------------------------------------------
(* The steps of an operation that are still to be done.                    *)

Setting == {"copy", "move", "null"}

(* After a pointer has been set the next member begins. *)
Begins(s, i) ==
    s[i].op = "inc" \/ (s[i].op = "dec" /\ i < Len(s) /\ s[i + 1].op # "copy")

(* What is counted for a copy is copied next, what is discounted is        *)
(* overwritten next.                                                       *)
Member(t, s, i) ==
    /\ s[i].op = "inc" =>
          \/ i + 1 <= Len(s) /\ s[i + 1] = copy(tmp(t), s[i].a)
          \/ /\ i + 2 <= Len(s) /\ s[i + 1].op = "dec" /\ s[i + 1].a # tmp(t)
             /\ s[i + 2] = copy(s[i + 1].a, s[i].a)
    /\ s[i].op = "dec" =>
          i + 1 <= Len(s) /\ s[i + 1].op \in Setting /\ s[i + 1].a = s[i].a
    /\ s[i].op \in Setting => i = Len(s) \/ Begins(s, i + 1)
    /\ s[i].op = "move" => s[i].b = tmp(t) /\ s[i].a # tmp(t)
Members(t, s) == \A i \in 1 .. Len(s) : Member(t, s, i)

(* The temporary is written once, and moved next. *)
ToTmp(t, s, i) == s[i].op = "copy" /\ s[i].a = tmp(t)
Temporary(t, s) ==
    \A i \in 1 .. Len(s) : ToTmp(t, s, i) => i + 2 = Len(s) /\ s[i + 2].op = "move"

(* The cache is written by a combination, in the order left key, right     *)
(* key, value, before the result is stored; the end of a thread only       *)
(* clears it.                                                              *)
CacheTags(t) == {cl(t), cr(t), cv(t)}
Fills(t, s, i) == s[i].op = "copy" /\ s[i].a = cv(t)
Caches(t, c, s, i) ==
    /\ c.op = "fini" => s[i].op \in {"dec", "null"}
    /\ s[i].op \in Setting /\ s[i].a \in CacheTags(t) =>
          \/ c.op = "fini"
          \/ /\ c.op = "combine" /\ s[i].op = "copy"
             /\ s[i].a = cl(t) => s[i].b = c.dst
             /\ s[i].a = cr(t) => s[i].b = c.src
             /\ s[i].a = cv(t) => s[i].b \in {c.dst, c.src, tmp(t)}
             /\ \E j \in i .. Len(s) : Fills(t, s, j)
    /\ Fills(t, s, i) => \A j \in 1 .. Len(s) :
          /\ j < i /\ s[j].op \in Setting => s[j].op = "copy" /\ s[j].a \in {cl(t), cr(t)}
          /\ j > i /\ s[j].op \in Setting => s[j].a \notin CacheTags(t)
Program(t, c, s) == \A i \in 1 .. Len(s) : Caches(t, c, s, i)

Pending(t) ==
    /\ todo[t] # <<>> => pc[t] = "run"
    /\ Members(t, todo[t]) /\ Temporary(t, todo[t])
    /\ Program(t, call[t], todo[t])
    /\ ld[t] # NoLoad => /\ Counting(t) /\ ssa_ref[todo[t][1].a] # NULL
                         /\ ld[t].cell = ssa_ref[todo[t][1].a]
                         /\ ld[t].val = ref_count[ld[t].cell]
    /\ ssa_ref[tmp(t)] # NULL =>
          /\ todo[t] # <<>>
          /\ \/ todo[t][Len(todo[t])].op = "move"
             \/ todo[t][Len(todo[t])] = null(tmp(t))
          /\ \A i \in 1 .. Len(todo[t]) : ~ToTmp(t, todo[t], i)

-----------------------------------------------------------------------------
(* The counts.                                                             *)

(* A count is ahead of the pointers between the increment for a copy and   *)
(* the copy, and while the cell taken from the ring is being filled; it is *)
(* behind them between a decrement and the overwriting of the pointer.     *)
Taken == {"cube", "fill"}
Plus(t, c) ==
    LET s == todo[t]
    IN  IF \/ pc[t] \in Taken /\ victim[t] = c
           \/ s # <<>> /\ s[1].op = "copy" /\ ssa_ref[s[1].b] = c
           \/ s # <<>> /\ s[1].op = "dec" /\ s[2].op = "copy" /\ ssa_ref[s[2].b] = c
        THEN 1 ELSE 0
Minus(t, c) ==
    LET s == todo[t]
    IN  IF s # <<>> /\ s[1].op \in Setting /\ ssa_ref[s[1].a] = c THEN 1 ELSE 0
Counts(t) ==
    \A c \in Cell :
        IF ref_count[c] = UNUSED THEN Refs(c) = {} /\ Plus(t, c) = 0
        ELSE ref_count[c] = Cardinality(Refs(c)) + Plus(t, c) - Minus(t, c)

-----------------------------------------------------------------------------
(* The cells.                                                              *)

Unused(c) == c \in Allocated /\ Reclaimable(c) /\ prot[c] = 0 /\ Refs(c) = {}
Cells(t) ==
    \A c \in Cell :
        /\ prot[c] \in {0, 1} /\ bdd[c] # {}
        /\ c \notin Allocated => ref_count[c] = UNUSED
        /\ ref_count[c] = UNUSED => prot[c] = 0
        /\ Refs(c) # {} => c \in Allocated /\ prot[c] = 1 /\ bdd[c] # Junk

(* Between the head it pops and the count it sets a thread owns a free     *)
(* cell that is not in the ring.                                           *)
Outside(c) == \A i \in Slot : InRing(i) => q[i] # c
Queue ==
    /\ \A i \in Slot : InRing(i) => Unused(q[i])
    /\ \A i, j \in Slot : InRing(i) /\ InRing(j) /\ q[i] = q[j] => i = j
Ring(t) ==
    /\ Queue
    /\ pc[t] \in {"test", "lock", "cas"} \cup GcPC => idx[t] = hd
    /\ pc[t] \in {"lock", "gc_begin", "gc"} => hd = tl
    /\ pc[t] = "cas" => hd # tl
    /\ pc[t] = "take" => Unused(q[idx[t]]) /\ Outside(q[idx[t]])
    /\ pc[t] = "mark" => Unused(victim[t]) /\ Outside(victim[t])
    /\ pc[t] \in Taken =>
          /\ victim[t] \in Allocated /\ prot[victim[t]] = 0 /\ Refs(victim[t]) = {}
          /\ Outside(victim[t])

(* The slots a scan has filled hold the free cells it has met. *)
Found(n) == {c \in 0 .. n - 1 : Reclaimable(c)}
Scan(t) ==
    LET k == Ahead(temp_t[t], tl) IN
    /\ pc[t] = "gc" =>
          /\ it[t] <= nblk * SSA_BLK
          /\ k < SSA_BLK - 1 /\ empty_count[t] = SSA_BLK - 1 - k
          /\ Cardinality(Found(it[t])) = k
          /\ \A i \in Slot : Ahead(i, tl) < k => Unused(q[i]) /\ q[i] < it[t]
          /\ \A i, j \in Slot : Ahead(i, tl) < k /\ Ahead(j, tl) < k /\ q[i] = q[j] => i = j
    /\ pc[t] = "gc_add" =>
          /\ Cardinality(Found(nblk * SSA_BLK)) < SSA_BLK - 1 - SSA_BLK \div 2

-----------------------------------------------------------------------------
(* The values.                                                             *)

(* What the worker answered, until it is stored. *)
Holding == {"head", "test", "lock", "cas", "take", "mark"} \cup GcPC
Answer(t) ==
    /\ pc[t] \in {"combine", "call"} => call[t].op = "combine"
    /\ pc[t] \in Holding \cup {"fill"} => call[t].op \in {"alloc", "combine"}
    /\ call[t].op = "combine" => call[t].dst \in RegTag(t) /\ call[t].src \in RegTag(t)
    /\ call[t].op = "alloc" => call[t].dst \in Mem
    /\ pc[t] \in {"combine", "call", "compare"} => call[t].op = "combine"
    /\ call[t].op = "combine" /\ pc[t] \in Holding \cup {"compare", "fill"} =>
          /\ ssa_ref[call[t].dst] # NULL /\ ssa_ref[call[t].src] # NULL
          /\ res[t] = bdd[ssa_ref[call[t].dst]] \cup bdd[ssa_ref[call[t].src]]
    /\ pc[t] = "fill" => res[t] \notin {Junk, {}}

Filling(t) == \E i \in 1 .. Len(todo[t]) : Fills(t, todo[t], i)
Coherent(t) ==
    ssa_ref[cv(t)] # NULL =>
        /\ ssa_ref[cl(t)] # NULL /\ ssa_ref[cr(t)] # NULL
        /\ bdd[ssa_ref[cv(t)]] = bdd[ssa_ref[cl(t)]] \cup bdd[ssa_ref[cr(t)]]
ToCome(t, x) == \E i \in 1 .. Len(todo[t]) : todo[t][i].op \in Setting /\ todo[t][i].a = x
CacheInv(t) ==
    /\ ~Filling(t) /\ ~(pc[t] = "run" /\ call[t].op = "fini") => Coherent(t)
    /\ \A i \in 1 .. Len(todo[t]) : Fills(t, todo[t], i) =>
          LET v == todo[t][i].b  d == call[t].dst  s == call[t].src IN
          /\ ssa_ref[v] # NULL /\ ssa_ref[d] # NULL /\ ssa_ref[s] # NULL
          /\ bdd[ssa_ref[v]] = bdd[ssa_ref[d]] \cup bdd[ssa_ref[s]]
          /\ ToCome(t, cl(t)) \/ ssa_ref[cl(t)] = ssa_ref[d]
          /\ ToCome(t, cr(t)) \/ ssa_ref[cr(t)] = ssa_ref[s]
    /\ pc[t] = "off" => \A x \in CacheTags(t) : ssa_ref[x] = NULL
    /\ pc[t] = "run" /\ call[t].op = "fini" =>
          \A x \in CacheTags(t) : ssa_ref[x] = NULL \/ ToCome(t, x)

-----------------------------------------------------------------------------
(* Arithmetic of the ring.                                                 *)

LEMMA AheadForm ==
    ASSUME NEW h \in Slot, NEW t \in Slot
    PROVE  /\ Ahead(h, t) = IF h >= t THEN h - t ELSE h - t + SSA_BLK
           /\ Ahead(h, t) \in 0 .. SSA_BLK - 1
           /\ EmptyCount(t, h) = SSA_BLK - 1 - Ahead(h, t)
           /\ (h + 1) % SSA_BLK = IF h = SSA_BLK - 1 THEN 0 ELSE h + 1
PROOF
<1>1. SSA_BLK \in Nat \ {0, 1, 2} /\ h \in 0 .. SSA_BLK - 1 /\ t \in 0 .. SSA_BLK - 1
  BY BlkAssumption DEF Slot
<1>2. Ahead(h, t) = IF h >= t THEN h - t ELSE h - t + SSA_BLK
  <2>1. CASE h >= t
    <3>1. h - t + SSA_BLK = SSA_BLK * 1 + (h - t)
      BY <1>1
    <3> QED BY <1>1, <2>1, <3>1 DEF Ahead
  <2>2. CASE h < t
    BY <1>1, <2>2 DEF Ahead
  <2> QED BY <1>1, <2>1, <2>2
<1>3. (h + 1) % SSA_BLK = IF h = SSA_BLK - 1 THEN 0 ELSE h + 1
  BY <1>1
<1> QED BY <1>1, <1>2, <1>3 DEF EmptyCount

(* The counters fit their words. *)
LEMMA WordFacts ==
    /\ Word \in Nat /\ UNUSED = Word - 1 /\ UNUSED > 1
    /\ Cardinality(Tags) \in Nat /\ Cardinality(Tags) + 1 < UNUSED
PROOF
<1>1. Word \in Nat /\ Cardinality(Tags) \in Nat /\ Cardinality(Tags) + 2 < Word
  BY WordAssumption, CountAssumption, FS_CardinalityType
<1> QED BY <1>1 DEF UNUSED

(* The pointers to a cell, as a function f of the variables gives them.    *)
RefsOf(f, c) == {v \in Tags : f[v] = c}

LEMMA RefsFinite ==
    ASSUME NEW f, NEW c
    PROVE  /\ IsFiniteSet(RefsOf(f, c)) /\ Cardinality(RefsOf(f, c)) \in Nat
           /\ Cardinality(RefsOf(f, c)) <= Cardinality(Tags)
           /\ Cardinality(RefsOf(f, c)) = 0 <=> RefsOf(f, c) = {}
PROOF
<1>1. RefsOf(f, c) \subseteq Tags
  BY DEF RefsOf
<1>2. IsFiniteSet(RefsOf(f, c)) /\ Cardinality(RefsOf(f, c)) <= Cardinality(Tags)
  BY <1>1, CountAssumption, FS_Subset
<1> QED BY <1>2, FS_CardinalityType, FS_EmptySet

(* Setting one pointer moves one reference. *)
Sets(f, g, a) == \A v \in Tags : g[v] = IF v = a THEN g[a] ELSE f[v]

LEMMA SetOne ==
    ASSUME NEW f, NEW g, NEW a \in Tags, Sets(f, g, a), NEW c
    PROVE  Cardinality(RefsOf(g, c))
             = Cardinality(RefsOf(f, c)) + (IF g[a] = c THEN 1 ELSE 0) - (IF f[a] = c THEN 1 ELSE 0)
PROOF
<1> DEFINE y == g[a]
           R == RefsOf(f, c)
           S == RefsOf(g, c)
<1>1. IsFiniteSet(R) /\ Cardinality(R) \in Nat
  BY RefsFinite
<1>2. /\ f[a] = c => a \in R
      /\ f[a] # c => a \notin R
  BY DEF RefsOf
<1>3. \A v : v \in S <=> v \in Tags /\ (IF v = a THEN y = c ELSE f[v] = c)
  BY DEF RefsOf, Sets
<1>4. \A v : v \in R <=> v \in Tags /\ f[v] = c
  BY DEF RefsOf
<1> HIDE DEF R, S, y
<1>5. CASE (y = c) <=> (f[a] = c)
  <2>1. S = R
    BY <1>3, <1>4, <1>5
  <2> QED BY <1>1, <1>5, <2>1 DEF R, S, y
<1>6. CASE y = c /\ f[a] # c
  <2>1. S = R \cup {a}
    BY <1>3, <1>4, <1>6
  <2>2. Cardinality(S) = Cardinality(R) + 1
    BY <1>1, <1>2, <1>6, <2>1, FS_AddElement
  <2> QED BY <1>1, <1>6, <2>2 DEF R, S, y
<1>7. CASE y # c /\ f[a] = c
  <2>1. S = R \ {a}
    BY <1>3, <1>4, <1>7
  <2>2. Cardinality(S) = Cardinality(R) - 1
    BY <1>1, <1>2, <1>7, <2>1, FS_RemoveElement
  <2> QED BY <1>1, <1>7, <2>2 DEF R, S, y
<1> QED BY <1>5, <1>6, <1>7

-----------------------------------------------------------------------------
(* The steps to be done, as sequences.                                     *)

LEMMA TailFacts ==
    ASSUME NEW t \in Threads, NEW s \in Seq(MicroOp(t)), s # <<>>
    PROVE  /\ Len(s) \in Nat \ {0} /\ Head(s) = s[1] /\ s[1] \in MicroOp(t)
           /\ Tail(s) \in Seq(MicroOp(t)) /\ Len(Tail(s)) = Len(s) - 1
           /\ \A i \in 1 .. Len(s) - 1 : Tail(s)[i] = s[i + 1]
           /\ Tail(s) = <<>> <=> Len(s) = 1
PROOF
<1>1. Len(s) \in Nat \ {0} /\ Head(s) = s[1] /\ s[1] \in MicroOp(t)
  OBVIOUS
<1>2. /\ Tail(s) \in Seq(MicroOp(t)) /\ Len(Tail(s)) = Len(s) - 1
      /\ \A i \in 1 .. Len(Tail(s)) : Tail(s)[i] = s[i + 1]
  BY HeadTailProperties
<1>3. Tail(s) = <<>> <=> Len(s) = 1
  BY <1>1, <1>2, EmptySeq
<1> QED BY <1>1, <1>2, <1>3

(* r is what is left of s after its first k steps. *)
Rest(r, s, k) == Len(s) = Len(r) + k /\ \A i \in 1 .. Len(r) : r[i] = s[i + k]

LEMMA MemberRest ==
    ASSUME NEW t, NEW r, NEW s, NEW k \in Nat, Len(r) \in Nat, Rest(r, s, k), NEW i \in 1 .. Len(r)
    PROVE  /\ Member(t, r, i) <=> Member(t, s, i + k)
           /\ ToTmp(t, r, i) <=> ToTmp(t, s, i + k)
           /\ Begins(r, i) <=> Begins(s, i + k)
PROOF
<1> DEFINE m == i + k
<1>1. /\ r[i] = s[m] /\ i \in Nat /\ m \in Nat
      /\ i + 1 <= Len(r) <=> m + 1 <= Len(s)
      /\ i + 2 <= Len(r) <=> m + 2 <= Len(s)
      /\ i < Len(r) <=> m < Len(s)
      /\ i = Len(r) <=> m = Len(s)
  BY DEF Rest
<1>2. /\ i + 1 <= Len(r) => r[i + 1] = s[m + 1]
      /\ i + 2 <= Len(r) => r[i + 2] = s[m + 2]
  BY DEF Rest
<1>3. /\ i + 1 < Len(r) <=> m + 1 < Len(s)
      /\ i + 1 < Len(r) => i + 2 <= Len(r)
      /\ i # Len(r) => i + 1 <= Len(r)
      /\ i < Len(r) => i + 1 <= Len(r)
      /\ (i + 1) + 1 = i + 2 /\ (m + 1) + 1 = m + 2
  BY <1>1 DEF Rest
<1> HIDE DEF m
<1>4. Begins(r, i) <=> Begins(s, m)
  BY <1>1, <1>2, <1>3 DEF Begins
<1>5. i + 1 <= Len(r) => (Begins(r, i + 1) <=> Begins(s, m + 1))
  BY <1>1, <1>2, <1>3 DEF Begins
<1>6. Member(t, r, i) <=> Member(t, s, m)
  BY <1>1, <1>2, <1>3, <1>5, SMTT(60) DEF Member
<1> QED BY <1>1, <1>4, <1>6 DEF m, ToTmp

LEMMA TailRest ==
    ASSUME NEW t \in Threads, NEW s \in Seq(MicroOp(t)), s # <<>>
    PROVE  Rest(Tail(s), s, 1) /\ Len(Tail(s)) \in Nat
BY TailFacts DEF Rest

LEMMA MembersTail ==
    ASSUME NEW t \in Threads, NEW s \in Seq(MicroOp(t)), s # <<>>,
           Members(t, s), Temporary(t, s)
    PROVE  Members(t, Tail(s)) /\ Temporary(t, Tail(s))
PROOF
<1> DEFINE r == Tail(s)
<1>1. Rest(r, s, 1) /\ Len(r) \in Nat
  BY TailRest
<1> HIDE DEF r
<1>2. ASSUME NEW i \in 1 .. Len(r) PROVE Member(t, r, i)
  <2>1. i + 1 \in 1 .. Len(s)
    BY <1>1 DEF Rest
  <2> QED BY <1>1, <2>1, MemberRest DEF Members
<1>3. ASSUME NEW i \in 1 .. Len(r), ToTmp(t, r, i) PROVE i + 2 = Len(r) /\ r[i + 2].op = "move"
  <2>0. i + 1 \in 1 .. Len(s)
    BY <1>1 DEF Rest
  <2>1. i + 1 \in 1 .. Len(s) /\ ToTmp(t, s, i + 1)
    BY <1>1, <1>3, <2>0, MemberRest
  <2>2. (i + 1) + 2 = Len(s) /\ s[(i + 1) + 2].op = "move"
    BY <2>1 DEF Temporary
  <2>3. i + 2 \in 1 .. Len(r) /\ i + 2 = Len(r) /\ (i + 1) + 2 = (i + 2) + 1
    BY <1>1, <2>1, <2>2 DEF Rest
  <2>4. r[i + 2] = s[(i + 2) + 1]
    BY <1>1, <2>3 DEF Rest
  <2> QED BY <2>2, <2>3, <2>4
<1> QED BY <1>2, <1>3 DEF Members, Temporary, r

LEMMA CachesRest ==
    ASSUME NEW t, NEW c, NEW r, NEW s, NEW k \in Nat, Len(r) \in Nat, Rest(r, s, k),
           NEW i \in 1 .. Len(r), Caches(t, c, s, i + k)
    PROVE  Caches(t, c, r, i)
PROOF
<1> DEFINE m == i + k
<1>1. r[i] = s[m] /\ m \in 1 .. Len(s)
  BY DEF Rest
<1>2. ASSUME NEW j \in m .. Len(s), Fills(t, s, j)
      PROVE  \E l \in i .. Len(r) : Fills(t, r, l)
  <2>1. j - k \in i .. Len(r) /\ (j - k) + k = j /\ j - k \in 1 .. Len(r)
    BY DEF Rest
  <2>2. r[j - k] = s[j]
    BY <2>1 DEF Rest
  <2> QED BY <1>2, <2>1, <2>2 DEF Fills
<1>3. ASSUME NEW j \in 1 .. Len(r)
      PROVE  /\ r[j] = s[j + k] /\ j + k \in 1 .. Len(s)
             /\ j < i <=> j + k < m
             /\ j > i <=> j + k > m
  BY DEF Rest
<1> HIDE DEF m
<1>4. Caches(t, c, s, m)
  BY DEF m
<1>5. r[i].op \in Setting /\ r[i].a \in CacheTags(t) =>
          \/ c.op = "fini"
          \/ /\ c.op = "combine" /\ r[i].op = "copy"
             /\ r[i].a = cl(t) => r[i].b = c.dst
             /\ r[i].a = cr(t) => r[i].b = c.src
             /\ r[i].a = cv(t) => r[i].b \in {c.dst, c.src, tmp(t)}
             /\ \E j \in i .. Len(r) : Fills(t, r, j)
  BY <1>1, <1>2, <1>4 DEF Caches
<1>6. ASSUME Fills(t, r, i), NEW j \in 1 .. Len(r)
      PROVE  /\ j < i /\ r[j].op \in Setting => r[j].op = "copy" /\ r[j].a \in {cl(t), cr(t)}
             /\ j > i /\ r[j].op \in Setting => r[j].a \notin CacheTags(t)
  <2>1. Fills(t, s, m)
    BY <1>1, <1>6 DEF Fills
  <2> QED BY <1>3, <1>4, <2>1 DEF Caches
<1> QED BY <1>1, <1>4, <1>5, <1>6 DEF Caches

LEMMA ProgramTail ==
    ASSUME NEW t \in Threads, NEW c, NEW s \in Seq(MicroOp(t)), s # <<>>, Program(t, c, s)
    PROVE  Program(t, c, Tail(s))
PROOF
<1> DEFINE r == Tail(s)
<1>1. Rest(r, s, 1) /\ Len(r) \in Nat
  BY TailRest
<1> HIDE DEF r
<1>2. ASSUME NEW i \in 1 .. Len(r) PROVE Caches(t, c, r, i)
  <2>1. i + 1 \in 1 .. Len(s)
    BY <1>1 DEF Rest
  <2> QED BY <1>1, <2>1, CachesRest DEF Program
<1> QED BY <1>2 DEF Program, r

-----------------------------------------------------------------------------
(* The steps each operation begins with.                                   *)

Good(t, c, s) ==
    /\ s \in Seq(MicroOp(t)) /\ s # <<>> /\ Begins(s, 1)
    /\ Members(t, s) /\ Temporary(t, s) /\ Program(t, c, s)

(* An assignment before the steps r. *)
LEMMA AssignFirst ==
    ASSUME NEW t \in Threads, NEW x \in TagsOf(t), NEW y \in TagsOf(t),
           NEW r \in Seq(MicroOp(t))
    PROVE  LET s == Assign(x, y) \o r IN
           /\ s \in Seq(MicroOp(t)) /\ Rest(r, s, 3) /\ Len(r) \in Nat
           /\ s[1] = inc(y) /\ s[2] = dec(x) /\ s[3] = copy(x, y)
PROOF
<1> DEFINE u == Assign(x, y)
           s == u \o r
<1>1. u \in Seq(MicroOp(t)) /\ Len(u) = 3 /\ u[1] = inc(y) /\ u[2] = dec(x) /\ u[3] = copy(x, y)
  <2>1. u \in Seq(MicroOp(t))
    BY StepsType
  <2> QED BY <2>1 DEF Assign
<1> HIDE DEF u
<1>2. /\ s \in Seq(MicroOp(t)) /\ Len(s) = 3 + Len(r) /\ Len(r) \in Nat
      /\ \A i \in 1 .. 3 + Len(r) : s[i] = IF i <= 3 THEN u[i] ELSE r[i - 3]
  <2>1. /\ s \in Seq(MicroOp(t)) /\ Len(s) = Len(u) + Len(r)
        /\ \A i \in 1 .. Len(u) + Len(r) : s[i] = IF i <= Len(u) THEN u[i] ELSE r[i - Len(u)]
    BY <1>1, ConcatProperties
  <2> QED BY <1>1, <2>1
<1> HIDE DEF s
<1>3. Rest(r, s, 3)
  <2>1. ASSUME NEW i \in 1 .. Len(r) PROVE r[i] = s[i + 3]
    <3>1. i + 3 \in 1 .. 3 + Len(r) /\ ~(i + 3 <= 3) /\ (i + 3) - 3 = i
      BY <1>2
    <3> QED BY <1>2, <3>1
  <2> QED BY <1>2, <2>1 DEF Rest
<1>4. s[1] = u[1] /\ s[2] = u[2] /\ s[3] = u[3]
  <2>1. 1 \in 1 .. 3 + Len(r) /\ 2 \in 1 .. 3 + Len(r) /\ 3 \in 1 .. 3 + Len(r)
    BY <1>2
  <2> QED BY <1>2, <2>1
<1> QED BY <1>1, <1>2, <1>3, <1>4 DEF s, u

LEMMA AssignMembers ==
    ASSUME NEW t \in Threads, NEW x \in TagsOf(t), NEW y \in TagsOf(t), x # tmp(t),
           NEW r \in Seq(MicroOp(t)), NEW s, Rest(r, s, 3), Len(r) \in Nat,
           s[1] = inc(y), s[2] = dec(x), s[3] = copy(x, y),
           Members(t, r), Temporary(t, r), Len(r) = 0 \/ Begins(r, 1)
    PROVE  Members(t, s) /\ Temporary(t, s) /\ Begins(s, 1)
PROOF
<1>1. /\ s[1].op = "inc" /\ s[1].a = y /\ s[2].op = "dec" /\ s[2].a = x
      /\ s[3].op = "copy" /\ s[3].a = x
  BY DEF inc, dec, copy
<1>2. Len(s) = Len(r) + 3
  BY DEF Rest
<1>3. ASSUME NEW i \in 1 .. Len(s), i > 3
      PROVE  /\ i - 3 \in 1 .. Len(r) /\ (i - 3) + 3 = i
  BY <1>2, <1>3
<1>4. ASSUME NEW i \in 1 .. Len(s) PROVE Member(t, s, i)
  <2>1. CASE i = 1
    BY <1>1, <1>2, <2>1 DEF Member, Setting
  <2>2. CASE i = 2
    BY <1>1, <1>2, <2>2 DEF Member, Setting
  <2>3. CASE i = 3
    <3>1. Len(r) # 0 => Begins(s, 4)
      <4>1. Len(r) # 0 => 1 \in 1 .. Len(r) /\ 1 + 3 = 4
        OBVIOUS
      <4>2. Len(r) # 0 => (Begins(r, 1) <=> Begins(s, 1 + 3))
        BY <4>1, MemberRest
      <4> QED BY <4>1, <4>2
    <3> QED BY <1>1, <1>2, <2>3, <3>1 DEF Member, Setting
  <2>4. CASE i > 3
    <3>1. Member(t, r, i - 3)
      BY <1>3, <2>4 DEF Members
    <3>2. Member(t, s, (i - 3) + 3)
      BY <1>3, <2>4, <3>1, MemberRest
    <3> QED BY <1>3, <2>4, <3>2
  <2> QED BY <1>2, <2>1, <2>2, <2>3, <2>4
<1>5. ASSUME NEW i \in 1 .. Len(s), ToTmp(t, s, i) PROVE i + 2 = Len(s) /\ s[i + 2].op = "move"
  <2>1. i > 3
    BY <1>1, <1>2, <1>5 DEF ToTmp
  <2>2. ToTmp(t, r, i - 3)
    <3>1. ToTmp(t, r, i - 3) <=> ToTmp(t, s, (i - 3) + 3)
      BY <1>3, <2>1, MemberRest
    <3> QED BY <1>3, <1>5, <2>1, <3>1
  <2>3. (i - 3) + 2 = Len(r) /\ r[(i - 3) + 2].op = "move"
    BY <1>3, <2>1, <2>2 DEF Temporary
  <2>4. (i - 3) + 2 \in 1 .. Len(r) /\ ((i - 3) + 2) + 3 = i + 2
    BY <1>2, <2>1, <2>3
  <2> QED BY <1>2, <2>3, <2>4 DEF Rest
<1>6. Begins(s, 1)
  BY <1>1 DEF Begins
<1> QED BY <1>4, <1>5, <1>6 DEF Members, Temporary

LEMMA OwnApart ==
    ASSUME NEW t \in Threads
    PROVE  /\ cl(t) # cr(t) /\ cl(t) # cv(t) /\ cr(t) # cv(t)
           /\ tmp(t) \notin CacheTags(t)
           /\ \A v \in Mem \cup RegTag(t) : v \notin CacheTags(t) /\ v # tmp(t)
PROOF
<1>1. /\ cl(t) # cr(t) /\ cl(t) # cv(t) /\ cr(t) # cv(t)
      /\ tmp(t) # cl(t) /\ tmp(t) # cr(t) /\ tmp(t) # cv(t)
  BY DEF cl, cr, cv, tmp
<1>2. ASSUME NEW v \in Mem PROVE v \notin CacheTags(t) /\ v # tmp(t)
  BY TagAssumption DEF CacheTags, cl, cr, cv, tmp
<1>3. ASSUME NEW v \in RegTag(t) PROVE v \notin CacheTags(t) /\ v # tmp(t)
  <2>1. PICK x \in Regs : v = <<t, x>>
    BY DEF RegTag
  <2>2. x \notin {"cb_cache_l", "cb_cache_r", "cb_cache_v", "tmp"}
    BY TagAssumption
  <2> QED BY <2>1, <2>2 DEF CacheTags, cl, cr, cv, tmp
<1> QED BY <1>1, <1>2, <1>3 DEF CacheTags

(* Steps that leave the cache alone. *)
Plain(t, s) == \A i \in 1 .. Len(s) : s[i].op \in Setting => s[i].a \notin CacheTags(t)

LEMMA PlainProgram ==
    ASSUME NEW t, NEW s, NEW c, Plain(t, s), c.op # "fini"
    PROVE  Program(t, c, s) /\ \A i \in 1 .. Len(s) : ~Fills(t, s, i)
BY DEF Plain, Program, Caches, Fills, Setting, CacheTags

LEMMA KeyFirst ==
    ASSUME NEW t \in Threads, NEW c, c.op = "combine", NEW x, NEW y,
           \/ x = cl(t) /\ y = c.dst
           \/ x = cr(t) /\ y = c.src,
           NEW r, NEW s, Rest(r, s, 3), Len(r) \in Nat,
           s[1] = inc(y), s[2] = dec(x), s[3] = copy(x, y),
           Program(t, c, r), \E j \in 1 .. Len(r) : Fills(t, r, j)
    PROVE  Program(t, c, s) /\ \E j \in 1 .. Len(s) : Fills(t, s, j)
PROOF
<1>1. /\ s[1].op = "inc" /\ s[2].op = "dec"
      /\ s[3].op = "copy" /\ s[3].a = x /\ s[3].b = y
  BY DEF inc, dec, copy
<1>2. Len(s) = Len(r) + 3
  BY DEF Rest
<1>3. ASSUME NEW i \in 1 .. Len(s), i > 3
      PROVE  /\ i - 3 \in 1 .. Len(r) /\ (i - 3) + 3 = i /\ r[i - 3] = s[i]
  BY <1>2, <1>3 DEF Rest
<1>4. \E j \in 4 .. Len(s) : Fills(t, s, j)
  <2>1. PICK j \in 1 .. Len(r) : Fills(t, r, j)
    OBVIOUS
  <2>2. j + 3 \in 4 .. Len(s) /\ s[j + 3] = r[j]
    BY <1>2 DEF Rest
  <2> QED BY <2>1, <2>2 DEF Fills
<1>5. x # cv(t) /\ x \in {cl(t), cr(t)}
  BY OwnApart
<1>6. ASSUME NEW i \in 1 .. Len(s) PROVE Caches(t, c, s, i)
  <2>1. CASE i = 1 \/ i = 2
    BY <1>1, <2>1 DEF Caches, Fills, Setting
  <2>2. CASE i = 3
    <3>1. \E j \in 3 .. Len(s) : Fills(t, s, j)
      BY <1>4
    <3>2. ~Fills(t, s, 3)
      BY <1>1, <1>5 DEF Fills
    <3> QED BY <1>1, <2>2, <3>1, <3>2, OwnApart DEF Caches
  <2>3. CASE i > 3
    <3> DEFINE k == i - 3
    <3>1. k \in 1 .. Len(r) /\ k + 3 = i /\ r[k] = s[i] /\ Caches(t, c, r, k)
      BY <1>3, <2>3 DEF Program
    <3> HIDE DEF k
    <3>2. ASSUME NEW j \in k .. Len(r), Fills(t, r, j)
          PROVE  \E l \in i .. Len(s) : Fills(t, s, l)
      <4>1. j + 3 \in i .. Len(s) /\ s[j + 3] = r[j]
        BY <1>2, <3>1 DEF Rest
      <4> QED BY <3>2, <4>1 DEF Fills
    <3>3. ASSUME Fills(t, s, i), NEW j \in 1 .. Len(s)
          PROVE  /\ j < i /\ s[j].op \in Setting => s[j].op = "copy" /\ s[j].a \in {cl(t), cr(t)}
                 /\ j > i /\ s[j].op \in Setting => s[j].a \notin CacheTags(t)
      <4>1. Fills(t, r, k)
        BY <3>1, <3>3 DEF Fills
      <4>2. CASE j > 3
        <5>1. j - 3 \in 1 .. Len(r) /\ r[j - 3] = s[j]
          BY <1>3, <4>2
        <5>2. (j < i <=> j - 3 < k) /\ (j > i <=> j - 3 > k)
          BY <3>1, SMTT(60)
        <5> QED BY <3>1, <4>1, <5>1, <5>2 DEF Caches
      <4>3. CASE j \in 1 .. 3
        BY <1>1, <1>5, <2>3, <4>3 DEF Setting
      <4> QED BY <4>2, <4>3
    <3>4. s[i].op \in Setting /\ s[i].a \in CacheTags(t) =>
            /\ s[i].op = "copy"
            /\ s[i].a = cl(t) => s[i].b = c.dst
            /\ s[i].a = cr(t) => s[i].b = c.src
            /\ s[i].a = cv(t) => s[i].b \in {c.dst, c.src, tmp(t)}
            /\ \E j \in i .. Len(s) : Fills(t, s, j)
      BY <3>1, <3>2 DEF Caches
    <3> QED BY <3>3, <3>4 DEF Caches
  <2> QED BY <1>2, <2>1, <2>2, <2>3
<1> QED BY <1>2, <1>4, <1>6 DEF Program

LEMMA ValueFirst ==
    ASSUME NEW t \in Threads, NEW c, c.op = "combine", NEW y, y \in {c.dst, c.src, tmp(t)},
           NEW r, NEW s, Rest(r, s, 3), Len(r) \in Nat,
           s[1] = inc(y), s[2] = dec(cv(t)), s[3] = copy(cv(t), y), Plain(t, r)
    PROVE  /\ Program(t, c, s) /\ \E j \in 1 .. Len(s) : Fills(t, s, j)
           /\ \A i \in 1 .. Len(s) : Fills(t, s, i) => s[i].b = y
PROOF
<1>1. /\ s[1].op = "inc" /\ s[2].op = "dec"
      /\ s[3].op = "copy" /\ s[3].a = cv(t) /\ s[3].b = y
  BY DEF inc, dec, copy
<1>2. Len(s) = Len(r) + 3
  BY DEF Rest
<1>3. ASSUME NEW i \in 1 .. Len(s), i > 3, s[i].op \in Setting
      PROVE  s[i].a \notin CacheTags(t)
  <2>1. i - 3 \in 1 .. Len(r) /\ (i - 3) + 3 = i
    BY <1>2, <1>3
  <2>2. r[i - 3] = s[i]
    BY <2>1 DEF Rest
  <2> QED BY <1>3, <2>1, <2>2 DEF Plain
<1>4. ASSUME NEW i \in 1 .. Len(s), Fills(t, s, i) PROVE i = 3
  BY <1>1, <1>2, <1>3, <1>4 DEF Fills, Setting, CacheTags
<1>5. ASSUME NEW i \in 1 .. Len(s) PROVE Caches(t, c, s, i)
  <2>1. CASE i = 1 \/ i = 2
    BY <1>1, <2>1 DEF Caches, Fills, Setting
  <2>2. CASE i = 3
    <3>1. \E j \in 3 .. Len(s) : Fills(t, s, j)
      <4>1. 3 \in 3 .. Len(s) /\ Fills(t, s, 3)
        BY <1>1, <1>2 DEF Fills
      <4> QED BY <4>1
    <3>2. ASSUME NEW j \in 1 .. Len(s)
          PROVE  /\ j < 3 => s[j].op \notin Setting
                 /\ j > 3 /\ s[j].op \in Setting => s[j].a \notin CacheTags(t)
      BY <1>1, <1>3 DEF Setting
    <3> QED BY <1>1, <2>2, <3>1, <3>2, OwnApart DEF Caches
  <2>3. CASE i > 3
    BY <1>3, <1>4, <2>3 DEF Caches
  <2> QED BY <1>2, <2>1, <2>2, <2>3
<1>6. 3 \in 1 .. Len(s) /\ Fills(t, s, 3)
  BY <1>1, <1>2 DEF Fills
<1> QED BY <1>1, <1>4, <1>5, <1>6 DEF Program

(* A variable that is discounted and then moved into or cleared. *)
LEMMA PairGood ==
    ASSUME NEW t \in Threads, NEW d \in TagsOf(t), NEW m \in MicroOp(t),
           m.a = d, m.op = "null" \/ (m.op = "move" /\ m.b = tmp(t) /\ d # tmp(t))
    PROVE  LET s == <<dec(d), m>> IN
           /\ s \in Seq(MicroOp(t)) /\ Len(s) = 2 /\ s[1] = dec(d) /\ s[2] = m
           /\ Members(t, s) /\ Temporary(t, s) /\ Begins(s, 1)
           /\ \A i \in 1 .. 2 : ~ToTmp(t, s, i)
           /\ d \notin CacheTags(t) => Plain(t, s)
PROOF
<1> DEFINE s == <<dec(d), m>>
<1>1. dec(d) \in MicroOp(t) /\ dec(d).op = "dec" /\ dec(d).a = d
  BY DEF dec, MicroOp
<1>2. s \in Seq(MicroOp(t)) /\ Len(s) = 2 /\ s[1] = dec(d) /\ s[2] = m
  BY <1>1
<1> HIDE DEF s
<1>3. /\ s[1].op = "dec" /\ s[1].a = d /\ s[2].a = d /\ s[2].op \in {"null", "move"}
      /\ s[2].op = "move" => s[2].b = tmp(t) /\ d # tmp(t)
  BY <1>1, <1>2
<1>4. Member(t, s, 1) /\ Member(t, s, 2)
  BY <1>2, <1>3 DEF Member, Setting
<1>5. ~ToTmp(t, s, 1) /\ ~ToTmp(t, s, 2)
  BY <1>3 DEF ToTmp
<1>6. Begins(s, 1)
  BY <1>2, <1>3 DEF Begins
<1>7. \A i \in 1 .. Len(s) : i = 1 \/ i = 2
  BY <1>2
<1>8. Members(t, s) /\ Temporary(t, s)
  BY <1>4, <1>5, <1>7 DEF Members, Temporary
<1>9. d \notin CacheTags(t) => Plain(t, s)
  BY <1>3, <1>7 DEF Plain
<1> QED BY <1>2, <1>5, <1>6, <1>7, <1>8, <1>9 DEF s

LEMMA ReturnGood ==
    ASSUME NEW t \in Threads, NEW v \in TagsOf(t), NEW d \in Mem \cup RegTag(t),
           NEW c, c.op # "fini"
    PROVE  LET s == Construct(tmp(t), v) \o MoveTo(d, tmp(t)) IN
           Good(t, c, s) /\ Plain(t, s)
PROOF
<1> DEFINE p == Construct(tmp(t), v)
           r == MoveTo(d, tmp(t))
           s == p \o r
<1>1. d \in TagsOf(t) /\ tmp(t) \in TagsOf(t) /\ d # tmp(t) /\ d \notin CacheTags(t)
      /\ tmp(t) \notin CacheTags(t)
  BY OwnTags, OwnApart
<1>2. p \in Seq(MicroOp(t)) /\ r \in Seq(MicroOp(t))
  BY <1>1, StepsType
<1>3. Len(p) = 2 /\ p[1] = inc(v) /\ p[2] = copy(tmp(t), v)
  BY <1>2 DEF Construct
<1>4. Len(r) = 2 /\ r[1] = dec(d) /\ r[2] = move(d, tmp(t))
  BY <1>2 DEF MoveTo
<1> HIDE DEF p, r
<1>5. /\ s \in Seq(MicroOp(t)) /\ Len(s) = Len(p) + Len(r)
      /\ \A i \in 1 .. Len(p) + Len(r) : s[i] = IF i <= Len(p) THEN p[i] ELSE r[i - Len(p)]
  BY <1>2, ConcatProperties
<1> HIDE DEF s
<1>6. /\ Len(s) = 4 /\ s[1] = inc(v) /\ s[2] = copy(tmp(t), v)
      /\ s[3] = dec(d) /\ s[4] = move(d, tmp(t))
  BY <1>3, <1>4, <1>5
<1>7. /\ s[1].op = "inc" /\ s[1].a = v /\ s[2].op = "copy" /\ s[2].a = tmp(t)
      /\ s[3].op = "dec" /\ s[3].a = d /\ s[4].op = "move" /\ s[4].a = d /\ s[4].b = tmp(t)
  BY <1>6 DEF inc, copy, dec, move
<1>8. \A i \in 1 .. Len(s) : i \in {1, 2, 3, 4}
  BY <1>6
<1>9. Begins(s, 1) /\ Begins(s, 3)
  BY <1>6, <1>7 DEF Begins
<1>10. Member(t, s, 1) /\ Member(t, s, 2) /\ Member(t, s, 3) /\ Member(t, s, 4)
  BY <1>1, <1>6, <1>7, <1>9 DEF Member, Setting
<1>11. Members(t, s)
  BY <1>8, <1>10 DEF Members
<1>12. Temporary(t, s)
  <2>1. ~ToTmp(t, s, 1) /\ ~ToTmp(t, s, 3) /\ ~ToTmp(t, s, 4)
    BY <1>7 DEF ToTmp
  <2> QED BY <1>6, <1>7, <1>8, <2>1 DEF Temporary
<1>13. Plain(t, s)
  BY <1>1, <1>7, <1>8 DEF Plain, Setting
<1>14. Program(t, c, s)
  BY <1>13, PlainProgram
<1>15. s # <<>>
  BY <1>6
<1> QED BY <1>5, <1>9, <1>11, <1>12, <1>13, <1>14, <1>15 DEF Good, s, p, r

LEMMA ClearGood ==
    ASSUME NEW t \in Threads, NEW d \in Mem \cup RegTag(t), NEW c, c.op # "fini"
    PROVE  Good(t, c, Clear(d))
PROOF
<1> DEFINE s == <<dec(d), null(d)>>
<1>1. d \in TagsOf(t) /\ d \notin CacheTags(t)
  BY OwnTags, OwnApart
<1>2. null(d) \in MicroOp(t) /\ null(d).a = d /\ null(d).op = "null"
  BY <1>1 DEF null, MicroOp
<1>3. /\ s \in Seq(MicroOp(t)) /\ Len(s) = 2
      /\ Members(t, s) /\ Temporary(t, s) /\ Begins(s, 1) /\ Plain(t, s)
  BY <1>1, <1>2, PairGood
<1>4. s # <<>>
  OBVIOUS
<1> HIDE DEF s
<1>5. Program(t, c, s)
  BY <1>3, PlainProgram
<1> QED BY <1>3, <1>4, <1>5 DEF Good, Clear, s

LEMMA StoreGood ==
    ASSUME NEW t \in Threads, NEW x \in Mem \cup RegTag(t), NEW y \in TagsOf(t),
           NEW c, c.op # "fini"
    PROVE  Good(t, c, Assign(x, y))
PROOF
<1> DEFINE s == Assign(x, y)
           r == <<>>
<1>1. x \in TagsOf(t) /\ x # tmp(t) /\ x \notin CacheTags(t)
  BY OwnTags, OwnApart
<1>2. s \in Seq(MicroOp(t))
  BY <1>1, StepsType
<1>3. /\ Len(s) = 3 /\ s[1] = inc(y) /\ s[2] = dec(x) /\ s[3] = copy(x, y) /\ s # <<>>
  BY DEF Assign
<1>4. r \in Seq(MicroOp(t)) /\ Len(r) = 0
  OBVIOUS
<1> HIDE DEF s, r
<1>5. Rest(r, s, 3) /\ Members(t, r) /\ Temporary(t, r)
  BY <1>3, <1>4 DEF Rest, Members, Temporary
<1>6. Members(t, s) /\ Temporary(t, s) /\ Begins(s, 1)
  <2>1. Len(r) \in Nat /\ (Len(r) = 0 \/ Begins(r, 1))
    BY <1>4
  <2> QED BY <1>1, <1>3, <1>4, <1>5, <2>1, AssignMembers
<1>7. Plain(t, s)
  <2>1. s[1].op = "inc" /\ s[2].op = "dec" /\ s[3].a = x
    BY <1>3 DEF inc, dec, copy
  <2> QED BY <1>1, <1>3, <2>1 DEF Plain, Setting
<1>8. Program(t, c, s)
  BY <1>7, PlainProgram
<1> QED BY <1>2, <1>3, <1>6, <1>8 DEF Good, s

(* A fresh tag is assigned to a byte and its temporary destroyed. *)
LEMMA AllocGood ==
    ASSUME NEW t \in Threads, NEW x \in Mem \cup RegTag(t), NEW c, c.op # "fini"
    PROVE  LET s == Assign(x, tmp(t)) \o Destroy(tmp(t)) IN
           /\ Good(t, c, s) /\ s[Len(s)] = null(tmp(t))
           /\ \A i \in 1 .. Len(s) : ~ToTmp(t, s, i) /\ ~Fills(t, s, i)
PROOF
<1> DEFINE y == tmp(t)
           r == <<dec(y), null(y)>>
           s == Assign(x, y) \o r
<1>1. x \in TagsOf(t) /\ x # y /\ x \notin CacheTags(t) /\ y \in TagsOf(t) /\ y \notin CacheTags(t)
  BY OwnTags, OwnApart
<1>2. null(y) \in MicroOp(t) /\ null(y).a = y /\ null(y).op = "null"
  BY <1>1 DEF null, MicroOp
<1>3. /\ r \in Seq(MicroOp(t)) /\ Len(r) = 2 /\ r[1] = dec(y) /\ r[2] = null(y)
      /\ Members(t, r) /\ Temporary(t, r) /\ Begins(r, 1) /\ Plain(t, r)
      /\ ~ToTmp(t, r, 1) /\ ~ToTmp(t, r, 2)
  BY <1>1, <1>2, PairGood
<1> HIDE DEF r
<1>4. /\ s \in Seq(MicroOp(t)) /\ Rest(r, s, 3)
      /\ s[1] = inc(y) /\ s[2] = dec(x) /\ s[3] = copy(x, y)
  BY <1>1, <1>3, AssignFirst, ZenonT(60)
<1> HIDE DEF s, y
<1>5. Members(t, s) /\ Temporary(t, s) /\ Begins(s, 1)
  <2>1. x # tmp(t) /\ Len(r) \in Nat
    BY <1>1, <1>3 DEF y
  <2> QED BY <1>1, <1>3, <1>4, <2>1, AssignMembers
<1>6. /\ Len(s) = 5 /\ s # <<>> /\ s[4] = dec(y) /\ s[5] = null(y)
  <2>1. Len(s) = 5 /\ s[1 + 3] = r[1] /\ s[2 + 3] = r[2]
    BY <1>3, <1>4 DEF Rest
  <2> QED BY <1>3, <2>1
<1>7. \A i \in 1 .. Len(s) : i \in {1, 2, 3, 4, 5}
  BY <1>6
<1>8. /\ s[1].op = "inc" /\ s[2].op = "dec" /\ s[3].op = "copy" /\ s[3].a = x
      /\ s[4].op = "dec" /\ s[5].op = "null" /\ s[5].a = y
  BY <1>4, <1>6 DEF inc, dec, copy, null
<1>9. Plain(t, s)
  BY <1>1, <1>7, <1>8 DEF Plain, Setting
<1>10. \A i \in 1 .. Len(s) : ~ToTmp(t, s, i)
  BY <1>1, <1>7, <1>8 DEF ToTmp, y
<1>11. Program(t, c, s) /\ \A i \in 1 .. Len(s) : ~Fills(t, s, i)
  BY <1>9, PlainProgram
<1> QED BY <1>4, <1>5, <1>6, <1>10, <1>11 DEF Good, s, r, y, Destroy

LEMMA AssignKeeps ==
    ASSUME NEW t \in Threads, NEW x, NEW y, x # tmp(t),
           NEW r, NEW s, Rest(r, s, 3), Len(r) \in Nat \ {0},
           s[1] = inc(y), s[2] = dec(x), s[3] = copy(x, y)
    PROVE  /\ s[Len(s)] = r[Len(r)]
           /\ (\A i \in 1 .. Len(r) : ~ToTmp(t, r, i)) => \A i \in 1 .. Len(s) : ~ToTmp(t, s, i)
           /\ \A i \in 1 .. Len(r) : i + 3 \in 1 .. Len(s) /\ s[i + 3] = r[i]
           /\ \A i \in 1 .. Len(s) : i > 3 => i - 3 \in 1 .. Len(r) /\ s[i] = r[i - 3]
PROOF
<1>1. Len(s) = Len(r) + 3 /\ Len(r) \in 1 .. Len(r)
  BY DEF Rest
<1>2. s[Len(s)] = r[Len(r)]
  BY <1>1 DEF Rest
<1>3. \A i \in 1 .. Len(r) : i + 3 \in 1 .. Len(s) /\ s[i + 3] = r[i]
  BY <1>1 DEF Rest
<1>4. ASSUME NEW i \in 1 .. Len(s), i > 3 PROVE i - 3 \in 1 .. Len(r) /\ s[i] = r[i - 3]
  <2>1. i - 3 \in 1 .. Len(r) /\ (i - 3) + 3 = i
    BY <1>1, <1>4
  <2> QED BY <1>3, <2>1
<1>5. ASSUME \A i \in 1 .. Len(r) : ~ToTmp(t, r, i), NEW i \in 1 .. Len(s) PROVE ~ToTmp(t, s, i)
  <2>1. CASE i > 3
    BY <1>4, <1>5, <2>1 DEF ToTmp
  <2>2. CASE i \in 1 .. 3
    BY <2>2 DEF ToTmp, inc, dec, copy
  <2> QED BY <1>1, <2>1, <2>2
<1> QED BY <1>2, <1>3, <1>4, <1>5

(* Steps that write v, which stands for the union of the operands, into the *)
(* cache after its keys.                                                    *)
CacheProgram(t, c, s, v) ==
    /\ Good(t, c, s)
    /\ \E i \in 1 .. Len(s) : Fills(t, s, i)
    /\ \A i \in 1 .. Len(s) : Fills(t, s, i) => s[i].b = v
    /\ \E i \in 1 .. Len(s) : s[i].op \in Setting /\ s[i].a = cl(t)
    /\ \E i \in 1 .. Len(s) : s[i].op \in Setting /\ s[i].a = cr(t)
NoTmp(t, s) == \A i \in 1 .. Len(s) : ~ToTmp(t, s, i)

(* What filling the cache does first: the left key, the right key, the value. *)
WithCache(t, d, b, v, z) == FillCache(t, d, b, v) \o z
InTurn(t, d, b, v, z) == Assign(cl(t), d) \o (Assign(cr(t), b) \o (Assign(cv(t), v) \o z))

LEMMA FillFirst ==
    ASSUME NEW t \in Threads, NEW d \in TagsOf(t), NEW b \in TagsOf(t), NEW v \in TagsOf(t),
           NEW z \in Seq(MicroOp(t))
    PROVE  WithCache(t, d, b, v, z) = InTurn(t, d, b, v, z)
PROOF
<1> DEFINE A == Assign(cl(t), d)
           B == Assign(cr(t), b)
           C == Assign(cv(t), v)
           s1 == A \o (B \o (C \o z))
<1>1. cl(t) \in TagsOf(t) /\ cr(t) \in TagsOf(t) /\ cv(t) \in TagsOf(t)
  BY OwnTags
<1>2. A \in Seq(MicroOp(t)) /\ B \in Seq(MicroOp(t)) /\ C \in Seq(MicroOp(t))
  BY <1>1, StepsType
<1>3. FillCache(t, d, b, v) = (A \o B) \o C
  BY DEF FillCache
<1> HIDE DEF A, B, C
<1> DEFINE Then(x, y) == x \o y
           T == Seq(MicroOp(t))
<1>4. \A x, y \in T : Then(x, y) \in T
  BY ConcatProperties
<1>5. \A x, y, w \in T : Then(Then(x, y), w) = Then(x, Then(y, w))
  BY ConcatAssociative, SMTT(30)
<1>6. A \in T /\ B \in T /\ C \in T /\ z \in T
  BY <1>2
<1>7. FillCache(t, d, b, v) \o z = Then(Then(Then(A, B), C), z) /\ s1 = Then(A, Then(B, Then(C, z)))
  BY <1>3, Zenon
<1> HIDE DEF Then, T, s1
<1>8. Then(Then(A, B), Then(C, z)) = Then(A, Then(B, Then(C, z)))
  BY <1>4, <1>5, <1>6
<1>9. Then(Then(Then(A, B), C), z) = Then(Then(A, B), Then(C, z))
  BY <1>4, <1>5, <1>6
<1> QED BY <1>7, <1>8, <1>9 DEF WithCache, InTurn, s1, A, B, C

(* The cache is filled, left key, right key and value, before the steps z. *)
LEMMA FillGood ==
    ASSUME NEW t \in Threads, NEW c, c.op = "combine",
           c.dst \in RegTag(t), c.src \in RegTag(t),
           NEW v \in {c.dst, c.src, tmp(t)},
           NEW z \in Seq(MicroOp(t)), z # <<>>, Begins(z, 1),
           Members(t, z), Temporary(t, z), Plain(t, z)
    PROVE  LET s == FillCache(t, c.dst, c.src, v) \o z IN
           /\ CacheProgram(t, c, s, v) /\ s[Len(s)] = z[Len(z)]
           /\ NoTmp(t, z) => NoTmp(t, s)
PROOF
<1> DEFINE A == Assign(cl(t), c.dst)
           B == Assign(cr(t), c.src)
           C == Assign(cv(t), v)
           s3 == C \o z
           s2 == B \o s3
           s1 == A \o s2
<1>1. /\ c.dst \in TagsOf(t) /\ c.src \in TagsOf(t) /\ v \in TagsOf(t)
      /\ cl(t) \in TagsOf(t) /\ cr(t) \in TagsOf(t) /\ cv(t) \in TagsOf(t)
  BY OwnTags
<1>2. cl(t) # tmp(t) /\ cr(t) # tmp(t) /\ cv(t) # tmp(t)
  BY OwnApart DEF CacheTags
<1>3. Len(z) \in Nat \ {0}
  BY EmptySeq
<1>4. FillCache(t, c.dst, c.src, v) \o z = s1
  <2>1. WithCache(t, c.dst, c.src, v, z) = InTurn(t, c.dst, c.src, v, z)
    BY <1>1, FillFirst
  <2> QED BY <2>1, Zenon DEF WithCache, InTurn
<1>5. /\ s3 \in Seq(MicroOp(t)) /\ Rest(z, s3, 3)
      /\ s3[1] = inc(v) /\ s3[2] = dec(cv(t)) /\ s3[3] = copy(cv(t), v)
  BY <1>1, AssignFirst, ZenonT(60)
<1> HIDE DEF s3
<1>6. /\ s2 \in Seq(MicroOp(t)) /\ Rest(s3, s2, 3) /\ Len(s3) \in Nat
      /\ s2[1] = inc(c.src) /\ s2[2] = dec(cr(t)) /\ s2[3] = copy(cr(t), c.src)
  BY <1>1, <1>5, AssignFirst, ZenonT(60)
<1> HIDE DEF s2
<1>7. /\ s1 \in Seq(MicroOp(t)) /\ Rest(s2, s1, 3) /\ Len(s2) \in Nat
      /\ s1[1] = inc(c.dst) /\ s1[2] = dec(cl(t)) /\ s1[3] = copy(cl(t), c.dst)
  BY <1>1, <1>6, AssignFirst, ZenonT(60)
<1> HIDE DEF s1, A, B, C
<1>8. Len(s3) = Len(z) + 3 /\ Len(s2) = Len(s3) + 3 /\ Len(s1) = Len(s2) + 3
  BY <1>5, <1>6, <1>7 DEF Rest
<1>9. Len(z) \in Nat /\ Len(s3) \in Nat \ {0} /\ Len(s2) \in Nat \ {0} /\ Len(s1) \in Nat \ {0}
  BY <1>3, <1>8
<1>10. Members(t, s3) /\ Temporary(t, s3) /\ Begins(s3, 1)
  BY <1>1, <1>2, <1>5, <1>9, AssignMembers
<1>11. Members(t, s2) /\ Temporary(t, s2) /\ Begins(s2, 1)
  BY <1>1, <1>2, <1>5, <1>6, <1>10, AssignMembers
<1>12. Members(t, s1) /\ Temporary(t, s1) /\ Begins(s1, 1)
  BY <1>1, <1>2, <1>6, <1>7, <1>11, AssignMembers
<1>13. /\ Program(t, c, s3) /\ \E j \in 1 .. Len(s3) : Fills(t, s3, j)
       /\ \A i \in 1 .. Len(s3) : Fills(t, s3, i) => s3[i].b = v
  BY <1>5, <1>9, ValueFirst, SMTT(60)
<1>14. Program(t, c, s2) /\ \E j \in 1 .. Len(s2) : Fills(t, s2, j)
  BY <1>6, <1>13, KeyFirst
<1>15. Program(t, c, s1) /\ \E j \in 1 .. Len(s1) : Fills(t, s1, j)
  BY <1>7, <1>14, KeyFirst
<1>16. /\ s3[Len(s3)] = z[Len(z)]
       /\ (\A i \in 1 .. Len(z) : ~ToTmp(t, z, i)) => \A i \in 1 .. Len(s3) : ~ToTmp(t, s3, i)
  <2>1. Rest(z, s3, 3)
    BY <1>5
  <2>2. s3[1] = inc(v) /\ s3[2] = dec(cv(t)) /\ s3[3] = copy(cv(t), v)
    BY <1>5
  <2> QED BY <1>2, <1>3, <2>1, <2>2, AssignKeeps, SMTT(60)
<1>17. /\ s2[Len(s2)] = s3[Len(s3)]
       /\ (\A i \in 1 .. Len(s3) : ~ToTmp(t, s3, i)) => \A i \in 1 .. Len(s2) : ~ToTmp(t, s2, i)
       /\ \A i \in 1 .. Len(s2) : i > 3 => i - 3 \in 1 .. Len(s3) /\ s2[i] = s3[i - 3]
  BY <1>2, <1>6, <1>9, AssignKeeps, SMTT(60)
<1>18. /\ s1[Len(s1)] = s2[Len(s2)]
       /\ (\A i \in 1 .. Len(s2) : ~ToTmp(t, s2, i)) => \A i \in 1 .. Len(s1) : ~ToTmp(t, s1, i)
       /\ \A i \in 1 .. Len(s1) : i > 3 => i - 3 \in 1 .. Len(s2) /\ s1[i] = s2[i - 3]
       /\ \A i \in 1 .. Len(s2) : i + 3 \in 1 .. Len(s1) /\ s1[i + 3] = s2[i]
  BY <1>2, <1>7, <1>9, AssignKeeps, SMTT(60)
<1>19. ASSUME NEW i \in 1 .. Len(s2), Fills(t, s2, i) PROVE s2[i].b = v
  <2>1. i > 3
    <3>1. s2[1].op = "inc" /\ s2[2].op = "dec" /\ s2[3].a = cr(t)
      BY <1>6 DEF inc, dec, copy
    <3> QED BY <1>9, <1>19, <3>1, OwnApart DEF Fills
  <2> QED BY <1>13, <1>17, <1>19, <2>1 DEF Fills
<1>20. ASSUME NEW i \in 1 .. Len(s1), Fills(t, s1, i) PROVE s1[i].b = v
  <2>1. i > 3
    <3>1. s1[1].op = "inc" /\ s1[2].op = "dec" /\ s1[3].a = cl(t)
      BY <1>7 DEF inc, dec, copy
    <3> QED BY <1>9, <1>20, <3>1, OwnApart DEF Fills
  <2> QED BY <1>18, <1>19, <1>20, <2>1, ZenonT(60) DEF Fills
<1>21. /\ 3 \in 1 .. Len(s1) /\ s1[3].op \in Setting /\ s1[3].a = cl(t)
       /\ 6 \in 1 .. Len(s1) /\ s1[6].op \in Setting /\ s1[6].a = cr(t)
  <2>1. 3 \in 1 .. Len(s2) /\ 3 + 3 = 6
    BY <1>3, <1>8
  <2>2. s1[6] = s2[3] /\ 6 \in 1 .. Len(s1) /\ 3 \in 1 .. Len(s1)
    BY <1>8, <1>9, <1>18, <2>1
  <2> QED BY <1>6, <1>7, <2>2 DEF copy, Setting
<1>22. s1 # <<>>
  BY <1>9
<1>23. Good(t, c, s1)
  BY <1>7, <1>12, <1>15, <1>22 DEF Good
<1>24. CacheProgram(t, c, s1, v)
  BY <1>15, <1>20, <1>21, <1>23 DEF CacheProgram
<1>25. s1[Len(s1)] = z[Len(z)] /\ (NoTmp(t, z) => NoTmp(t, s1))
  BY <1>16, <1>17, <1>18 DEF NoTmp
<1> HIDE DEF s1
<1> QED BY <1>4, <1>24, <1>25

LEMMA FiniGood ==
    ASSUME NEW t \in Threads, NEW c, c.op = "fini"
    PROVE  LET s == Destroy(cl(t)) \o Destroy(cr(t)) \o Destroy(cv(t)) IN
           /\ Good(t, c, s)
           /\ \A x \in CacheTags(t) : \E i \in 1 .. Len(s) : s[i].op \in Setting /\ s[i].a = x
PROOF
<1> DEFINE A == Destroy(cl(t))
           B == Destroy(cr(t))
           C == Destroy(cv(t))
           p == A \o B
           s == p \o C
<1>1. A \in Seq(MicroOp(t)) /\ B \in Seq(MicroOp(t)) /\ C \in Seq(MicroOp(t))
  BY OwnTags, StepsType
<1>2. /\ Len(A) = 2 /\ A[1] = dec(cl(t)) /\ A[2] = null(cl(t))
      /\ Len(B) = 2 /\ B[1] = dec(cr(t)) /\ B[2] = null(cr(t))
      /\ Len(C) = 2 /\ C[1] = dec(cv(t)) /\ C[2] = null(cv(t))
  BY DEF Destroy
<1> HIDE DEF A, B, C
<1>3. /\ p \in Seq(MicroOp(t)) /\ Len(p) = Len(A) + Len(B)
      /\ \A i \in 1 .. Len(A) + Len(B) : p[i] = IF i <= Len(A) THEN A[i] ELSE B[i - Len(A)]
  BY <1>1, ConcatProperties
<1> HIDE DEF p
<1>4. /\ s \in Seq(MicroOp(t)) /\ Len(s) = Len(p) + Len(C)
      /\ \A i \in 1 .. Len(p) + Len(C) : s[i] = IF i <= Len(p) THEN p[i] ELSE C[i - Len(p)]
  <2>1. p \in Seq(MicroOp(t)) /\ C \in Seq(MicroOp(t))
    BY <1>1, <1>3
  <2> QED BY <2>1, ConcatProperties
<1> HIDE DEF s
<1>5. Len(p) = 4 /\ p[1] = dec(cl(t)) /\ p[2] = null(cl(t)) /\ p[3] = dec(cr(t)) /\ p[4] = null(cr(t))
  BY <1>2, <1>3
<1>6. /\ Len(s) = 6 /\ s[1] = dec(cl(t)) /\ s[2] = null(cl(t)) /\ s[3] = dec(cr(t))
      /\ s[4] = null(cr(t)) /\ s[5] = dec(cv(t)) /\ s[6] = null(cv(t))
  BY <1>2, <1>4, <1>5
<1>7. /\ s[1].op = "dec" /\ s[2].op = "null" /\ s[3].op = "dec" /\ s[4].op = "null"
      /\ s[5].op = "dec" /\ s[6].op = "null"
      /\ s[1].a = cl(t) /\ s[2].a = cl(t) /\ s[3].a = cr(t) /\ s[4].a = cr(t)
      /\ s[5].a = cv(t) /\ s[6].a = cv(t)
  BY <1>6 DEF dec, null
<1>8. \A i \in 1 .. Len(s) : i \in {1, 2, 3, 4, 5, 6}
  BY <1>6
<1>9. Begins(s, 1) /\ Begins(s, 3) /\ Begins(s, 5) /\ s # <<>>
  <2>1. s # <<>>
    BY <1>6
  <2>2. Begins(s, 1)
    BY <1>6, <1>7 DEF Begins
  <2>3. Begins(s, 3)
    BY <1>6, <1>7 DEF Begins
  <2>4. Begins(s, 5)
    BY <1>6, <1>7 DEF Begins
  <2> QED BY <2>1, <2>2, <2>3, <2>4
<1>10. /\ Member(t, s, 1) /\ Member(t, s, 2) /\ Member(t, s, 3)
       /\ Member(t, s, 4) /\ Member(t, s, 5) /\ Member(t, s, 6)
  BY <1>6, <1>7, <1>9 DEF Member, Setting
<1>11. Members(t, s)
  BY <1>8, <1>10 DEF Members
<1>12. \A i \in 1 .. Len(s) : s[i].op \in {"dec", "null"}
  BY <1>7, <1>8
<1>13. Temporary(t, s)
  BY <1>12 DEF Temporary, ToTmp
<1>14. Program(t, c, s)
  BY <1>12 DEF Program, Caches, Fills
<1>15. \A x \in CacheTags(t) : \E i \in 1 .. Len(s) : s[i].op \in Setting /\ s[i].a = x
  <2>1. 2 \in 1 .. Len(s) /\ 4 \in 1 .. Len(s) /\ 6 \in 1 .. Len(s)
    BY <1>6
  <2> QED BY <1>7, <2>1 DEF CacheTags, Setting
<1> QED BY <1>4, <1>9, <1>11, <1>13, <1>14, <1>15 DEF Good, s, p, A, B, C

-----------------------------------------------------------------------------
(* The counts.                                                             *)

(* Outside "run" nothing is to be done and the temporary is empty. *)
LEMMA NothingToDo ==
    ASSUME NEW t \in Threads, Pending(t), pc[t] # "run"
    PROVE  todo[t] = <<>> /\ ld[t] = NoLoad /\ ssa_ref[tmp(t)] = NULL
BY DEF Pending, Counting

(* The part of Plus and Minus that the next step s[1] is responsible for,  *)
(* when f gives the pointers.                                              *)
Counted(s, f, c) ==
    /\ s # <<>>
    /\ \/ s[1].op = "copy" /\ f[s[1].b] = c
       \/ s[1].op = "dec" /\ s[2].op = "copy" /\ f[s[2].b] = c
Discounted(s, f, c) == s # <<>> /\ s[1].op \in Setting /\ f[s[1].a] = c

LEMMA CountsForm ==
    ASSUME NEW t \in Threads
    PROVE  /\ Counts(t) <=>
              \A c \in Cell :
                 LET p == IF (pc[t] \in Taken /\ victim[t] = c) \/ Counted(todo[t], ssa_ref, c) THEN 1 ELSE 0
                     m == IF Discounted(todo[t], ssa_ref, c) THEN 1 ELSE 0
                     n == Cardinality(RefsOf(ssa_ref, c))
                 IN  IF ref_count[c] = UNUSED THEN n = 0 /\ p = 0 ELSE ref_count[c] = n + p - m
           /\ Counts(t)' <=>
              \A c \in Cell :
                 LET p == IF (pc'[t] \in Taken /\ victim'[t] = c) \/ Counted(todo'[t], ssa_ref', c) THEN 1 ELSE 0
                     m == IF Discounted(todo'[t], ssa_ref', c) THEN 1 ELSE 0
                     n == Cardinality(RefsOf(ssa_ref', c))
                 IN  IF ref_count'[c] = UNUSED THEN n = 0 /\ p = 0 ELSE ref_count'[c] = n + p - m
PROOF
<1>1. ASSUME NEW c PROVE Refs(c) = RefsOf(ssa_ref, c) /\ Refs(c)' = RefsOf(ssa_ref', c)
  BY DEF Refs, RefsOf
<1>2. ASSUME NEW c
      PROVE  /\ Plus(t, c) = IF (pc[t] \in Taken /\ victim[t] = c) \/ Counted(todo[t], ssa_ref, c) THEN 1 ELSE 0
             /\ Minus(t, c) = IF Discounted(todo[t], ssa_ref, c) THEN 1 ELSE 0
  BY DEF Plus, Minus, Counted, Discounted
<1>3. ASSUME NEW c
      PROVE  /\ Plus(t, c)' = IF (pc'[t] \in Taken /\ victim'[t] = c) \/ Counted(todo'[t], ssa_ref', c) THEN 1 ELSE 0
             /\ Minus(t, c)' = IF Discounted(todo'[t], ssa_ref', c) THEN 1 ELSE 0
  BY DEF Plus, Minus, Counted, Discounted
<1>4. ASSUME NEW c
      PROVE  /\ Refs(c) = {} <=> Cardinality(RefsOf(ssa_ref, c)) = 0
             /\ Refs(c)' = {} <=> Cardinality(RefsOf(ssa_ref', c)) = 0
  BY <1>1, RefsFinite
<1>5. Counts(t) <=>
              \A c \in Cell :
                 LET p == IF (pc[t] \in Taken /\ victim[t] = c) \/ Counted(todo[t], ssa_ref, c) THEN 1 ELSE 0
                     m == IF Discounted(todo[t], ssa_ref, c) THEN 1 ELSE 0
                     n == Cardinality(RefsOf(ssa_ref, c))
                 IN  IF ref_count[c] = UNUSED THEN n = 0 /\ p = 0 ELSE ref_count[c] = n + p - m
  BY <1>1, <1>2, <1>4 DEF Counts
<1>6. Counts(t)' <=>
              \A c \in Cell :
                 LET p == IF (pc'[t] \in Taken /\ victim'[t] = c) \/ Counted(todo'[t], ssa_ref', c) THEN 1 ELSE 0
                     m == IF Discounted(todo'[t], ssa_ref', c) THEN 1 ELSE 0
                     n == Cardinality(RefsOf(ssa_ref', c))
                 IN  IF ref_count'[c] = UNUSED THEN n = 0 /\ p = 0 ELSE ref_count'[c] = n + p - m
  BY <1>1, <1>3, <1>4 DEF Counts
<1> QED BY <1>5, <1>6

(* When one step is done the next one answers for the counts. *)
LEMMA CountedTail ==
    ASSUME NEW t \in Threads, NEW s \in Seq(MicroOp(t)), s # <<>>, Member(t, s, 1),
           NEW f, NEW g, NEW c
    PROVE  /\ s[1].op = "inc" =>
                /\ ~Counted(s, f, c) /\ ~Discounted(s, f, c)
                /\ Counted(Tail(s), f, c) <=> f[s[1].a] = c
                /\ (Len(s) >= 2 /\ ToTmp(t, s, 2) => f[tmp(t)] # c) => ~Discounted(Tail(s), f, c)
           /\ s[1].op = "dec" =>
                /\ Counted(Tail(s), f, c) <=> Counted(s, f, c)
                /\ ~Discounted(s, f, c)
                /\ Discounted(Tail(s), f, c) <=> f[s[1].a] = c
           /\ s[1].op \in Setting =>
                /\ Counted(s, f, c) <=> s[1].op = "copy" /\ f[s[1].b] = c
                /\ Discounted(s, f, c) <=> f[s[1].a] = c
                /\ ~Counted(Tail(s), g, c) /\ ~Discounted(Tail(s), g, c)
PROOF
<1> DEFINE r == Tail(s)
<1>1. /\ Len(s) \in Nat \ {0} /\ Len(r) = Len(s) - 1 /\ (r = <<>> <=> Len(s) = 1)
      /\ Len(s) >= 2 => r[1] = s[2]
      /\ Len(s) >= 3 => r[2] = s[3]
  <2>1. /\ Len(s) \in Nat \ {0} /\ Len(r) = Len(s) - 1 /\ (r = <<>> <=> Len(s) = 1)
        /\ \A i \in 1 .. Len(s) - 1 : r[i] = s[i + 1]
    BY TailFacts
  <2> HIDE DEF r
  <2> QED BY <2>1
<1> HIDE DEF r
<1>2. CASE s[1].op = "inc"
  <2>1. \/ Len(s) >= 2 /\ r[1] = copy(tmp(t), s[1].a)
        \/ /\ Len(s) >= 3 /\ r[1].op = "dec" /\ r[2] = copy(r[1].a, s[1].a)
    BY <1>1, <1>2 DEF Member
  <2>2. \A x, y : copy(x, y).op = "copy" /\ copy(x, y).a = x /\ copy(x, y).b = y
    BY DEF copy
  <2>3. r # <<>> /\ (Counted(r, f, c) <=> f[s[1].a] = c)
    BY <1>1, <2>1, <2>2 DEF Counted
  <2>4. ~Counted(s, f, c) /\ ~Discounted(s, f, c)
    BY <1>2 DEF Counted, Discounted, Setting
  <2>5. (Len(s) >= 2 /\ ToTmp(t, s, 2) => f[tmp(t)] # c) => ~Discounted(r, f, c)
    BY <1>1, <2>1, <2>2 DEF Discounted, ToTmp, Setting
  <2> QED BY <1>2, <2>3, <2>4, <2>5 DEF r, Setting
<1>3. CASE s[1].op = "dec"
  <2>1. Len(s) >= 2 /\ r[1] = s[2] /\ s[2].op \in Setting /\ s[2].a = s[1].a /\ r # <<>>
    BY <1>1, <1>3 DEF Member
  <2>2. Counted(r, f, c) <=> Counted(s, f, c)
    BY <1>3, <2>1 DEF Counted, Setting
  <2>3. ~Discounted(s, f, c) /\ (Discounted(r, f, c) <=> f[s[1].a] = c)
    BY <1>3, <2>1 DEF Discounted, Setting
  <2> QED BY <1>3, <2>2, <2>3 DEF r, Setting
<1>4. CASE s[1].op \in Setting
  <2>1. Len(s) = 1 \/ Begins(s, 2)
    BY <1>4 DEF Member
  <2>2. ~Counted(r, g, c) /\ ~Discounted(r, g, c)
    <3>1. CASE Len(s) = 1
      BY <1>1, <3>1 DEF Counted, Discounted
    <3>2. CASE Len(s) # 1
      <4>1. Len(s) >= 2 /\ r[1] = s[2]
        BY <1>1, <3>2
      <4>2. r[1].op = "inc" \/ (r[1].op = "dec" /\ r[2].op # "copy")
        BY <1>1, <2>1, <3>2, <4>1 DEF Begins
      <4> QED BY <4>2 DEF Counted, Discounted, Setting
    <3> QED BY <3>1, <3>2
  <2>3. /\ Counted(s, f, c) <=> s[1].op = "copy" /\ f[s[1].b] = c
        /\ Discounted(s, f, c) <=> f[s[1].a] = c
    BY <1>4 DEF Counted, Discounted, Setting
  <2> QED BY <1>4, <2>2, <2>3 DEF r, Setting
<1> QED BY <1>2, <1>3, <1>4

(* An operation begins where the counts are exact. *)
LEMMA CountsBegin ==
    ASSUME NEW t \in Threads, Counts(t), todo[t] = <<>>, pc[t] \notin Taken, pc'[t] \notin Taken,
           UNCHANGED <<ref_count, ssa_ref>>, todo'[t] = <<>> \/ Begins(todo'[t], 1)
    PROVE  Counts(t)'
PROOF
<1>1. ASSUME NEW c
      PROVE  /\ ~Counted(todo[t], ssa_ref, c) /\ ~Discounted(todo[t], ssa_ref, c)
             /\ ~Counted(todo'[t], ssa_ref, c) /\ ~Discounted(todo'[t], ssa_ref, c)
  BY DEF Counted, Discounted, Begins, Setting
<1> QED BY <1>1, CountsForm

LEMMA CountsFrame ==
    ASSUME NEW t \in Threads, Counts(t), pc[t] \in Taken <=> pc'[t] \in Taken,
           UNCHANGED <<ref_count, ssa_ref, victim>>, todo'[t] = todo[t]
    PROVE  Counts(t)'
BY CountsForm

LEMMA AllocatedRange ==
    ASSUME TypeOK
    PROVE  /\ nblk * SSA_BLK \in Nat /\ nblk * SSA_BLK <= MaxBlocks * SSA_BLK
           /\ MaxBlocks * SSA_BLK \in Nat
           /\ \A c : c \in Allocated <=> c \in Nat /\ c < nblk * SSA_BLK
           /\ \A c : c \in Cell <=> c \in Nat /\ c < MaxBlocks * SSA_BLK
           /\ Allocated \subseteq Cell /\ NULL \notin Cell
PROOF
<1>1. nblk \in 1 .. MaxBlocks /\ MaxBlocks \in 1 .. MaxBlocks
  BY BoundAssumption DEF TypeOK
<1>2. /\ nblk * SSA_BLK \in Nat /\ nblk * SSA_BLK <= MaxBlocks * SSA_BLK
      /\ MaxBlocks * SSA_BLK \in Nat
  BY <1>1, BlockRange
<1>3. /\ \A c : c \in Allocated <=> c \in Nat /\ c < nblk * SSA_BLK
      /\ \A c : c \in Cell <=> c \in Nat /\ c < MaxBlocks * SSA_BLK
  BY <1>2 DEF Allocated, Cell
<1>4. Allocated \subseteq Cell
  BY <1>2, <1>3
<1>5. NULL \notin Cell
  BY <1>3 DEF NULL
<1> QED BY <1>2, <1>3, <1>4, <1>5

LEMMA CountsMark ==
    ASSUME TypeOK, NEW t \in Threads, Counts(t), todo[t] = <<>>, pc[t] = "mark", MarkVictim(t),
           Unused(victim[t])
    PROVE  Counts(t)'
PROOF
<1> DEFINE v == victim[t]
<1>1. /\ v \in Cell /\ Cardinality(RefsOf(ssa_ref, v)) = 0
  <2>1. v \in Cell /\ RefsOf(ssa_ref, v) = {}
    BY AllocatedRange DEF Unused, Refs, RefsOf
  <2> QED BY <2>1, RefsFinite
<1>2. /\ pc'[t] \in Taken /\ pc[t] \notin Taken /\ victim'[t] = v /\ ssa_ref' = ssa_ref
      /\ todo'[t] = todo[t] /\ ref_count' = [ref_count EXCEPT ![v] = 1]
  BY DEF MarkVictim, Taken, TypeOK
<1>3. ASSUME NEW c
      PROVE  ~Counted(todo[t], ssa_ref, c) /\ ~Discounted(todo[t], ssa_ref, c)
  BY DEF Counted, Discounted
<1>4. 1 # UNUSED /\ DOMAIN ref_count = Cell
  BY WordFacts DEF TypeOK
<1> HIDE DEF v
<1>5. ASSUME NEW c \in Cell
      PROVE  LET p == IF (pc'[t] \in Taken /\ victim'[t] = c) \/ Counted(todo'[t], ssa_ref', c) THEN 1 ELSE 0
                 m == IF Discounted(todo'[t], ssa_ref', c) THEN 1 ELSE 0
                 n == Cardinality(RefsOf(ssa_ref', c))
             IN  IF ref_count'[c] = UNUSED THEN n = 0 /\ p = 0 ELSE ref_count'[c] = n + p - m
  <2>1. CASE c = v
    BY <1>1, <1>2, <1>3, <1>4, <2>1
  <2>2. CASE c # v
    <3>1. ref_count'[c] = ref_count[c]
      BY <1>2, <1>4, <2>2
    <3>2. LET n == Cardinality(RefsOf(ssa_ref, c))
          IN  IF ref_count[c] = UNUSED THEN n = 0 ELSE ref_count[c] = n + 0 - 0
      BY <1>2, <1>3, CountsForm
    <3> QED BY <1>2, <1>3, <2>2, <3>1, <3>2
  <2> QED BY <2>1, <2>2
<1> QED BY <1>5, CountsForm

LEMMA CountsFill ==
    ASSUME TypeOK, NEW t \in Threads, Counts(t), todo[t] = <<>>, ssa_ref[tmp(t)] = NULL,
           FillVictim(t), victim[t] \in Cell, Begins(todo'[t], 1)
    PROVE  Counts(t)'
PROOF
<1> DEFINE v == victim[t]
<1>1. tmp(t) \in Tags /\ DOMAIN ssa_ref = Tags /\ v # NULL
  BY OwnTags, AllocatedRange DEF TypeOK
<1>2. /\ pc[t] \in Taken /\ pc'[t] \notin Taken /\ ref_count' = ref_count
      /\ ssa_ref' = [ssa_ref EXCEPT ![tmp(t)] = v]
  BY DEF FillVictim, Goto, Taken, TypeOK
<1>3. ASSUME NEW c
      PROVE  /\ ~Counted(todo[t], ssa_ref, c) /\ ~Discounted(todo[t], ssa_ref, c)
             /\ ~Counted(todo'[t], ssa_ref', c) /\ ~Discounted(todo'[t], ssa_ref', c)
  BY DEF Counted, Discounted, Begins, Setting
<1> HIDE DEF v
<1>4. ASSUME NEW c \in Cell
      PROVE  LET p == IF (pc'[t] \in Taken /\ victim'[t] = c) \/ Counted(todo'[t], ssa_ref', c) THEN 1 ELSE 0
                 m == IF Discounted(todo'[t], ssa_ref', c) THEN 1 ELSE 0
                 n == Cardinality(RefsOf(ssa_ref', c))
             IN  IF ref_count'[c] = UNUSED THEN n = 0 /\ p = 0 ELSE ref_count'[c] = n + p - m
  <2>1. c # NULL
    BY AllocatedRange
  <2>2. Cardinality(RefsOf(ssa_ref', c)) = Cardinality(RefsOf(ssa_ref, c))
          + (IF v = c THEN 1 ELSE 0) - (IF ssa_ref[tmp(t)] = c THEN 1 ELSE 0)
    <3>1. ssa_ref'[tmp(t)] = v /\ \A x \in Tags : ssa_ref'[x] = IF x = tmp(t) THEN ssa_ref'[tmp(t)] ELSE ssa_ref[x]
      BY <1>1, <1>2
    <3>2. tmp(t) \in Tags
      BY <1>1
    <3>3. Sets(ssa_ref, ssa_ref', tmp(t))
      BY <3>1 DEF Sets
    <3>4. Cardinality(RefsOf(ssa_ref', c)) = Cardinality(RefsOf(ssa_ref, c))
            + (IF ssa_ref'[tmp(t)] = c THEN 1 ELSE 0) - (IF ssa_ref[tmp(t)] = c THEN 1 ELSE 0)
      BY <3>2, <3>3, SetOne
    <3> QED BY <3>1, <3>4
  <2>3. Cardinality(RefsOf(ssa_ref, c)) \in Nat
    BY RefsFinite
  <2>4. LET n == Cardinality(RefsOf(ssa_ref, c))
            p == IF v = c THEN 1 ELSE 0
        IN  IF ref_count[c] = UNUSED THEN n = 0 /\ p = 0 ELSE ref_count[c] = n + p - 0
    BY <1>2, <1>3, CountsForm DEF v
  <2>5. LET n == Cardinality(RefsOf(ssa_ref', c))
        IN  IF ref_count[c] = UNUSED THEN n = 0 ELSE ref_count[c] = n
    BY <2>1, <2>2, <2>3, <2>4
  <2>6. Cardinality(RefsOf(ssa_ref', c)) \in Nat
    BY RefsFinite
  <2>7. pc'[t] \notin Taken /\ ~Counted(todo'[t], ssa_ref', c) /\ ~Discounted(todo'[t], ssa_ref', c)
    BY <1>2, <1>3
  <2>8. ref_count'[c] = ref_count[c]
    BY <1>2
  <2> QED BY <2>5, <2>6, <2>7, <2>8
<1> QED BY <1>4, CountsForm

(* ++ and -- of a NULL pointer. *)
LEMMA CountsSkip ==
    ASSUME TypeOK, NEW t \in Threads, Counts(t), Pending(t), LoadCount(t),
           ssa_ref[Head(todo[t]).a] = NULL
    PROVE  Counts(t)'
PROOF
<1> DEFINE s == todo[t]
<1>1. /\ pc[t] = "run" /\ s # <<>> /\ s \in Seq(MicroOp(t)) /\ todo'[t] = Tail(s)
      /\ UNCHANGED <<ref_count, ssa_ref, pc>> /\ Head(s).op \in {"inc", "dec"}
  BY DEF LoadCount, Counting, TypeOK, cellVars
<1> HIDE DEF s
<1>2. Head(s) = s[1] /\ Len(s) \in Nat \ {0}
  BY <1>1, TailFacts
<1>3. Member(t, s, 1)
  <2>1. Members(t, s)
    BY DEF Pending, s
  <2> QED BY <1>2, <2>1 DEF Members
<1>4. ssa_ref[s[1].a] = NULL
  BY <1>2 DEF s
<1>5. ASSUME NEW c \in Cell
      PROVE  /\ Counted(Tail(s), ssa_ref, c) <=> Counted(s, ssa_ref, c)
             /\ ~Discounted(s, ssa_ref, c) /\ ~Discounted(Tail(s), ssa_ref, c)
  <2>1. c # NULL
    BY AllocatedRange
  <2>2. Len(s) >= 2 /\ ToTmp(t, s, 2) => ssa_ref[tmp(t)] # c
    <3>1. Len(s) >= 2 => 2 \in 1 .. Len(s)
      BY <1>2
    <3> QED BY <2>1, <3>1 DEF Pending, s
  <2> QED BY <1>1, <1>2, <1>3, <1>4, <2>1, <2>2, CountedTail, ZenonT(60)
<1>6. pc[t] \notin Taken /\ pc'[t] \notin Taken
  BY <1>1 DEF Taken
<1> QED BY <1>1, <1>5, <1>6, CountsForm DEF s

(* A non-NULL pointer points to a cell whose count is in use. *)
LEMMA PointedUsed ==
    ASSUME NEW t \in Threads, Counts(t), NEW x \in Tags, ssa_ref[x] \in Cell
    PROVE  ref_count[ssa_ref[x]] # UNUSED /\ Cardinality(RefsOf(ssa_ref, ssa_ref[x])) >= 1
PROOF
<1>1. PICK c \in Cell : c = ssa_ref[x]
  OBVIOUS
<1>2. x \in RefsOf(ssa_ref, c)
  BY <1>1 DEF RefsOf
<1>3. Cardinality(RefsOf(ssa_ref, c)) # 0 /\ Cardinality(RefsOf(ssa_ref, c)) \in Nat
  BY <1>2, RefsFinite
<1>4. ref_count[c] # UNUSED
  BY <1>3, CountsForm
<1> QED BY <1>1, <1>3, <1>4

(* ++ and -- of a pointer that is not NULL, once the word is loaded. *)
LEMMA CountsStore ==
    ASSUME TypeOK, NEW t \in Threads, Counts(t), Pending(t), StoreCount(t)
    PROVE  Counts(t)'
PROOF
<1> DEFINE s == todo[t]
           k == ld[t].cell
<1>1. /\ pc[t] = "run" /\ s # <<>> /\ s \in Seq(MicroOp(t)) /\ todo'[t] = Tail(s)
      /\ UNCHANGED <<ssa_ref, pc>> /\ Head(s).op \in {"inc", "dec"}
      /\ ref_count' = [ref_count EXCEPT ![k] = IF Head(s).op = "inc" THEN Inc(ld[t].val) ELSE Dec(ld[t].val)]
  BY DEF StoreCount, Counting, TypeOK
<1>2. Head(s) = s[1] /\ Len(s) \in Nat \ {0} /\ s[1] \in MicroOp(t)
  BY <1>1, TailFacts
<1>3. Member(t, s, 1)
  <2>1. Members(t, s)
    BY DEF Pending
  <2> QED BY <1>2, <2>1 DEF Members
<1>4. /\ ssa_ref[s[1].a] = k /\ k \in Cell /\ ld[t].val = ref_count[k] /\ s[1].a \in Tags
  <2>1. ld[t] # NoLoad
    BY DEF StoreCount
  <2>2. s[1].a \in Tags
    BY <1>2, OwnTags DEF MicroOp
  <2>3. /\ ssa_ref[s[1].a] # NULL /\ ssa_ref[s[1].a] = k /\ ld[t].val = ref_count[k]
    BY <2>1 DEF Pending
  <2> QED BY <2>2, <2>3 DEF TypeOK
<1>5. ref_count[k] # UNUSED /\ Cardinality(RefsOf(ssa_ref, k)) >= 1 /\ ref_count[k] \in U64
  BY <1>4, PointedUsed DEF TypeOK
<1>6. pc[t] \notin Taken /\ pc'[t] \notin Taken /\ DOMAIN ref_count = Cell
  BY <1>1 DEF Taken, TypeOK
<1>7. ASSUME NEW c \in Cell
      PROVE  Len(s) >= 2 /\ ToTmp(t, s, 2) => ssa_ref[tmp(t)] # c
  <2>1. Len(s) >= 2 => 2 \in 1 .. Len(s)
    BY <1>2
  <2>2. c # NULL
    BY AllocatedRange
  <2> QED BY <2>1, <2>2 DEF Pending
<1> HIDE DEF s, k
<1>8. ASSUME NEW c \in Cell
      PROVE  LET p == IF Counted(s, ssa_ref, c) THEN 1 ELSE 0
                 m == IF Discounted(s, ssa_ref, c) THEN 1 ELSE 0
                 n == Cardinality(RefsOf(ssa_ref, c))
             IN  /\ IF ref_count[c] = UNUSED THEN n = 0 /\ p = 0 ELSE ref_count[c] = n + p - m
                 /\ n \in Nat /\ n <= Cardinality(Tags)
  BY <1>6, CountsForm, RefsFinite DEF s
<1>9. /\ Word \in Nat /\ UNUSED = Word - 1 /\ Cardinality(Tags) \in Nat
      /\ Cardinality(Tags) + 1 < UNUSED
  BY WordFacts
<1>10. ASSUME NEW c \in Cell
      PROVE  LET p == IF Counted(Tail(s), ssa_ref, c) THEN 1 ELSE 0
                 m == IF Discounted(Tail(s), ssa_ref, c) THEN 1 ELSE 0
                 n == Cardinality(RefsOf(ssa_ref, c))
             IN  IF ref_count'[c] = UNUSED THEN n = 0 /\ p = 0 ELSE ref_count'[c] = n + p - m
  <2> DEFINE n == Cardinality(RefsOf(ssa_ref, c))
  <2>0. n \in Nat /\ n <= Cardinality(Tags)
    BY <1>8
  <2>1. CASE s[1].op = "inc"
    <3>1. /\ ~Counted(s, ssa_ref, c) /\ ~Discounted(s, ssa_ref, c)
          /\ Counted(Tail(s), ssa_ref, c) <=> k = c
          /\ ~Discounted(Tail(s), ssa_ref, c)
      BY <1>1, <1>3, <1>4, <1>7, <2>1, CountedTail, ZenonT(60)
    <3>2. CASE c = k
      <4>1. ref_count[c] = n
        BY <1>5, <1>8, <3>1, <3>2
      <4>2. Inc(ref_count[c]) = n + 1 /\ n + 1 # UNUSED
        <5> HIDE DEF n
        <5>1. n + 1 < Word /\ n + 1 \in Nat /\ n + 1 # UNUSED
          BY <1>9, <2>0
        <5>2. (n + 1) % Word = n + 1
          BY <1>9, <5>1
        <5> QED BY <4>1, <5>1, <5>2 DEF Inc
      <4>3. ref_count'[c] = n + 1
        BY <1>1, <1>2, <1>4, <1>6, <2>1, <3>2, <4>2
      <4> HIDE DEF n
      <4>4. IF ref_count'[c] = UNUSED THEN n = 0 /\ 1 = 0 ELSE ref_count'[c] = n + 1 - 0
        BY <2>0, <4>2, <4>3
      <4> QED BY <3>1, <3>2, <4>4 DEF n
    <3>3. CASE c # k
      <4>1. ref_count'[c] = ref_count[c]
        BY <1>1, <1>6, <3>3
      <4> QED BY <1>8, <3>1, <3>3, <4>1
    <3> QED BY <3>2, <3>3
  <2>2. CASE s[1].op = "dec"
    <3> DEFINE p == IF Counted(s, ssa_ref, c) THEN 1 ELSE 0
    <3>0. p \in {0, 1}
      OBVIOUS
    <3>1. /\ Counted(Tail(s), ssa_ref, c) <=> Counted(s, ssa_ref, c)
          /\ ~Discounted(s, ssa_ref, c)
          /\ Discounted(Tail(s), ssa_ref, c) <=> k = c
      <4>1. /\ Counted(Tail(s), ssa_ref, c) <=> Counted(s, ssa_ref, c)
            /\ ~Discounted(s, ssa_ref, c)
            /\ Discounted(Tail(s), ssa_ref, c) <=> ssa_ref[s[1].a] = c
        BY <1>1, <1>3, <2>2, CountedTail
      <4> QED BY <1>4, <4>1
    <3> HIDE DEF p
    <3>2. CASE c = k
      <4>1. ref_count[c] = n + p /\ n >= 1
        BY <1>5, <1>8, <2>0, <3>0, <3>1, <3>2 DEF p
      <4>2. Dec(ref_count[c]) = n + p - 1 /\ n + p - 1 # UNUSED
        <5> HIDE DEF n, p
        <5>1. n + p - 1 < Word /\ n + p - 1 \in Nat /\ n + p - 1 # UNUSED
          BY <1>9, <2>0, <3>0, <4>1
        <5>2. (n + p) + Word - 1 = Word * 1 + (n + p - 1)
          BY <1>9, <2>0, <3>0
        <5>3. (Word * 1 + (n + p - 1)) % Word = n + p - 1
          BY <1>9, <5>1
        <5> QED BY <4>1, <5>1, <5>2, <5>3 DEF Dec
      <4>3. ref_count'[c] = n + p - 1
        <5>1. ref_count'[c] = Dec(ref_count[c])
          BY <1>1, <1>2, <1>4, <1>6, <2>2, <3>2
        <5> QED BY <4>2, <5>1
      <4> HIDE DEF n, p
      <4>4. IF ref_count'[c] = UNUSED THEN n = 0 /\ p = 0 ELSE ref_count'[c] = n + p - 1
        BY <4>2, <4>3
      <4> QED BY <3>1, <3>2, <4>4 DEF n, p
    <3>3. CASE c # k
      <4>1. ref_count'[c] = ref_count[c]
        BY <1>1, <1>6, <3>3
      <4> QED BY <1>8, <3>1, <3>3, <4>1, SMTT(60)
    <3> QED BY <3>2, <3>3
  <2> QED BY <1>1, <1>2, <2>1, <2>2
<1> QED BY <1>1, <1>6, <1>10, CountsForm DEF s

(* What SetPointer does to the pointers. *)
LEMMA PointerSet ==
    ASSUME TypeOK, NEW t \in Threads, Pending(t), SetPointer(t)
    PROVE  LET s == todo[t] IN
           /\ pc[t] = "run" /\ s # <<>> /\ s \in Seq(MicroOp(t)) /\ s[1] \in MicroOp(t)
           /\ s[1].op \in Setting /\ s[1].a \in Tags /\ s[1].b \in Tags /\ Member(t, s, 1)
           /\ Len(s) \in Nat \ {0}
           /\ todo'[t] = Tail(s) /\ UNCHANGED <<cellVars, pc, call, ld>>
           /\ \A x \in Tags : x # s[1].a /\ (s[1].op = "move" => x # s[1].b) => ssa_ref'[x] = ssa_ref[x]
           /\ s[1].op = "copy" => ssa_ref'[s[1].a] = ssa_ref[s[1].b]
           /\ s[1].op = "null" => ssa_ref'[s[1].a] = NULL
           /\ s[1].op = "move" => /\ ssa_ref'[s[1].a] = ssa_ref[s[1].b] /\ ssa_ref'[s[1].b] = NULL
                                  /\ s[1].b = tmp(t) /\ s[1].a # tmp(t)
PROOF
<1> DEFINE s == todo[t]
<1>1. /\ pc[t] = "run" /\ s # <<>> /\ s \in Seq(MicroOp(t)) /\ todo'[t] = Tail(s)
      /\ UNCHANGED <<cellVars, pc, call, ld>> /\ Head(s).op \notin {"inc", "dec"}
      /\ ssa_ref' =
         CASE Head(s).op = "copy" -> [ssa_ref EXCEPT ![Head(s).a] = ssa_ref[Head(s).b]]
           [] Head(s).op = "move" -> [ssa_ref EXCEPT ![Head(s).a] = ssa_ref[Head(s).b], ![Head(s).b] = NULL]
           [] Head(s).op = "null" -> [ssa_ref EXCEPT ![Head(s).a] = NULL]
  BY DEF SetPointer, Counting, TypeOK
<1>2. Members(t, s) /\ DOMAIN ssa_ref = Tags
  BY DEF Pending, TypeOK
<1> HIDE DEF s
<1>3. Head(s) = s[1] /\ Len(s) \in Nat \ {0} /\ s[1] \in MicroOp(t)
  BY <1>1, TailFacts
<1>4. s[1].op \in Setting /\ s[1].a \in Tags /\ s[1].b \in Tags
  BY <1>1, <1>3, OwnTags DEF MicroOp, Setting
<1>5. Member(t, s, 1)
  BY <1>2, <1>3 DEF Members
<1>6. s[1].op = "move" => s[1].b = tmp(t) /\ s[1].a # tmp(t)
  BY <1>5 DEF Member
<1> DEFINE a == s[1].a
           b == s[1].b
           o == s[1].op
<1>7. /\ o \in Setting /\ a \in Tags /\ b \in Tags /\ (o = "move" => a # b)
      /\ ssa_ref' =
           CASE o = "copy" -> [ssa_ref EXCEPT ![a] = ssa_ref[b]]
             [] o = "move" -> [ssa_ref EXCEPT ![a] = ssa_ref[b], ![b] = NULL]
             [] o = "null" -> [ssa_ref EXCEPT ![a] = NULL]
  BY <1>1, <1>3, <1>4, <1>6
<1> HIDE DEF a, b, o
<1>8. /\ \A x \in Tags : x # a /\ (o = "move" => x # b) => ssa_ref'[x] = ssa_ref[x]
      /\ o = "copy" => ssa_ref'[a] = ssa_ref[b]
      /\ o = "null" => ssa_ref'[a] = NULL
      /\ o = "move" => ssa_ref'[a] = ssa_ref[b] /\ ssa_ref'[b] = NULL
  <2>1. CASE o = "copy"
    <3>1. ssa_ref' = [ssa_ref EXCEPT ![a] = ssa_ref[b]]
      BY <1>7, <2>1
    <3> QED BY <1>2, <1>7, <2>1, <3>1
  <2>2. CASE o = "move"
    <3>1. ssa_ref' = [ssa_ref EXCEPT ![a] = ssa_ref[b], ![b] = NULL]
      BY <1>7, <2>2
    <3> QED BY <1>2, <1>7, <2>2, <3>1
  <2>3. CASE o = "null"
    <3>1. ssa_ref' = [ssa_ref EXCEPT ![a] = NULL]
      BY <1>7, <2>3
    <3> QED BY <1>2, <1>7, <2>3, <3>1
  <2> QED BY <1>7, <2>1, <2>2, <2>3 DEF Setting
<1> QED BY <1>1, <1>3, <1>4, <1>5, <1>6, <1>8 DEF a, b, o, s

LEMMA CountsSet ==
    ASSUME TypeOK, NEW t \in Threads, Counts(t), Pending(t), SetPointer(t)
    PROVE  Counts(t)'
PROOF
<1> DEFINE s == todo[t]
           a == s[1].a
           b == s[1].b
           o == s[1].op
<1>1. /\ pc[t] = "run" /\ s # <<>> /\ s \in Seq(MicroOp(t))
      /\ o \in Setting /\ a \in Tags /\ b \in Tags /\ Member(t, s, 1)
      /\ todo'[t] = Tail(s) /\ UNCHANGED <<cellVars, pc>>
  BY PointerSet
<1>2. /\ \A x \in Tags : x # a /\ (o = "move" => x # b) => ssa_ref'[x] = ssa_ref[x]
      /\ o = "copy" => ssa_ref'[a] = ssa_ref[b]
      /\ o = "null" => ssa_ref'[a] = NULL
      /\ o = "move" => ssa_ref'[a] = ssa_ref[b] /\ ssa_ref'[b] = NULL /\ a # b
  BY PointerSet
<1>3. pc[t] \notin Taken /\ pc'[t] \notin Taken /\ ref_count' = ref_count
  BY <1>1 DEF Taken, cellVars
<1>4. ASSUME NEW c
      PROVE  /\ Counted(s, ssa_ref, c) <=> o = "copy" /\ ssa_ref[b] = c
             /\ Discounted(s, ssa_ref, c) <=> ssa_ref[a] = c
             /\ ~Counted(Tail(s), ssa_ref', c) /\ ~Discounted(Tail(s), ssa_ref', c)
  BY <1>1, CountedTail, ZenonT(60)
<1> HIDE DEF s, a, b, o
<1>5. ASSUME NEW c \in Cell
      PROVE  Cardinality(RefsOf(ssa_ref', c)) = Cardinality(RefsOf(ssa_ref, c))
               + (IF o = "copy" /\ ssa_ref[b] = c THEN 1 ELSE 0) - (IF ssa_ref[a] = c THEN 1 ELSE 0)
  <2>0. c # NULL
    BY AllocatedRange
  <2>1. CASE o # "move"
    <3>1. Sets(ssa_ref, ssa_ref', a)
      BY <1>2, <2>1 DEF Sets
    <3>2. Cardinality(RefsOf(ssa_ref', c)) = Cardinality(RefsOf(ssa_ref, c))
             + (IF ssa_ref'[a] = c THEN 1 ELSE 0) - (IF ssa_ref[a] = c THEN 1 ELSE 0)
      BY <1>1, <3>1, SetOne
    <3>3. ssa_ref'[a] = c <=> o = "copy" /\ ssa_ref[b] = c
      BY <1>1, <1>2, <2>0, <2>1 DEF Setting
    <3> QED BY <3>2, <3>3
  <2>2. CASE o = "move"
    <3> DEFINE f == [x \in Tags |-> IF x = a THEN ssa_ref[b] ELSE ssa_ref[x]]
    <3>1. Sets(ssa_ref, f, a) /\ Sets(f, ssa_ref', b) /\ f[a] = ssa_ref[b] /\ f[b] = ssa_ref[b]
      BY <1>1, <1>2, <2>2 DEF Sets
    <3> HIDE DEF f
    <3>2. Cardinality(RefsOf(f, c)) = Cardinality(RefsOf(ssa_ref, c))
             + (IF f[a] = c THEN 1 ELSE 0) - (IF ssa_ref[a] = c THEN 1 ELSE 0)
      BY <1>1, <3>1, SetOne
    <3>3. Cardinality(RefsOf(ssa_ref', c)) = Cardinality(RefsOf(f, c))
             + (IF ssa_ref'[b] = c THEN 1 ELSE 0) - (IF f[b] = c THEN 1 ELSE 0)
      BY <1>1, <3>1, SetOne
    <3>4. Cardinality(RefsOf(f, c)) \in Nat /\ Cardinality(RefsOf(ssa_ref, c)) \in Nat
      BY RefsFinite
    <3> QED BY <1>2, <2>0, <2>2, <3>1, <3>2, <3>3, <3>4
  <2> QED BY <2>1, <2>2
<1>6. ASSUME NEW c \in Cell
      PROVE  LET n == Cardinality(RefsOf(ssa_ref', c))
             IN  IF ref_count[c] = UNUSED THEN n = 0 ELSE ref_count[c] = n
  <2>1. Cardinality(RefsOf(ssa_ref, c)) \in Nat /\ Cardinality(RefsOf(ssa_ref', c)) \in Nat
    BY RefsFinite
  <2>2. LET p == IF o = "copy" /\ ssa_ref[b] = c THEN 1 ELSE 0
            m == IF ssa_ref[a] = c THEN 1 ELSE 0
            n == Cardinality(RefsOf(ssa_ref, c))
        IN  IF ref_count[c] = UNUSED THEN n = 0 /\ p = 0 ELSE ref_count[c] = n + p - m
    BY <1>3, <1>4, CountsForm DEF s
  <2> QED BY <1>5, <2>1, <2>2
<1>7. ASSUME NEW c \in Cell PROVE Cardinality(RefsOf(ssa_ref', c)) \in Nat
  BY RefsFinite
<1>8. ASSUME NEW c \in Cell
      PROVE  LET p == IF (pc'[t] \in Taken /\ victim'[t] = c) \/ Counted(todo'[t], ssa_ref', c) THEN 1 ELSE 0
                 m == IF Discounted(todo'[t], ssa_ref', c) THEN 1 ELSE 0
                 n == Cardinality(RefsOf(ssa_ref', c))
             IN  IF ref_count'[c] = UNUSED THEN n = 0 /\ p = 0 ELSE ref_count'[c] = n + p - m
  <2>1. pc'[t] \notin Taken /\ ~Counted(todo'[t], ssa_ref', c) /\ ~Discounted(todo'[t], ssa_ref', c)
    BY <1>1, <1>3, <1>4
  <2>2. ref_count'[c] = ref_count[c]
    BY <1>3
  <2> QED BY <1>6, <1>7, <2>1, <2>2
<1> QED BY <1>8, CountsForm

-----------------------------------------------------------------------------
(* The steps to be done.                                                   *)

LEMMA PendingBegin ==
    ASSUME NEW t \in Threads, Pending(t), todo[t] = <<>>,
           ssa_ref'[tmp(t)] = ssa_ref[tmp(t)], ld'[t] = ld[t],
           todo'[t] = <<>> \/ (pc'[t] = "run" /\ Good(t, call'[t], todo'[t]))
    PROVE  Pending(t)'
PROOF
<1>1. ld[t] = NoLoad /\ ssa_ref[tmp(t)] = NULL
  BY DEF Pending, Counting
<1>2. Members(t, todo'[t]) /\ Temporary(t, todo'[t]) /\ Program(t, call'[t], todo'[t])
  <2>1. CASE todo'[t] = <<>>
    BY <2>1 DEF Members, Temporary, Program
  <2>2. CASE todo'[t] # <<>>
    BY <2>2 DEF Good
  <2> QED BY <2>1, <2>2
<1> QED BY <1>1, <1>2 DEF Pending

LEMMA TailLast ==
    ASSUME NEW t \in Threads, NEW s \in Seq(MicroOp(t)), s # <<>>
    PROVE  /\ Len(s) # 1 => Tail(s) # <<>> /\ Tail(s)[Len(Tail(s))] = s[Len(s)]
           /\ (\A i \in 1 .. Len(s) : i > 1 => ~ToTmp(t, s, i)) =>
                 \A i \in 1 .. Len(Tail(s)) : ~ToTmp(t, Tail(s), i)
PROOF
<1> DEFINE r == Tail(s)
<1>1. /\ Len(s) \in Nat \ {0} /\ Len(r) = Len(s) - 1 /\ (r = <<>> <=> Len(s) = 1)
      /\ \A i \in 1 .. Len(s) - 1 : r[i] = s[i + 1]
  BY TailFacts
<1> HIDE DEF r
<1>2. Len(s) # 1 => r # <<>> /\ r[Len(r)] = s[Len(s)]
  <2>1. Len(s) # 1 => Len(r) \in 1 .. Len(s) - 1 /\ Len(r) + 1 = Len(s)
    BY <1>1
  <2> QED BY <1>1, <2>1
<1>3. ASSUME \A i \in 1 .. Len(s) : i > 1 => ~ToTmp(t, s, i), NEW i \in 1 .. Len(r)
      PROVE  ~ToTmp(t, r, i)
  <2>1. i + 1 \in 1 .. Len(s) /\ i + 1 > 1 /\ r[i] = s[i + 1]
    BY <1>1
  <2> QED BY <1>3, <2>1 DEF ToTmp
<1> QED BY <1>2, <1>3 DEF r

(* One step less to do. *)
LEMMA PendingTail ==
    ASSUME TypeOK, NEW t \in Threads, Pending(t), todo[t] # <<>>,
           todo'[t] = Tail(todo[t]), pc'[t] = pc[t], call'[t] = call[t], ld'[t] = NoLoad,
           \/ todo[t][1].op \in {"inc", "dec"} /\ ssa_ref'[tmp(t)] = ssa_ref[tmp(t)]
           \/ SetPointer(t)
    PROVE  Pending(t)'
PROOF
<1> DEFINE s == todo[t]
           r == Tail(s)
<1>1. s \in Seq(MicroOp(t)) /\ s # <<>> /\ pc[t] = "run"
      /\ Members(t, s) /\ Temporary(t, s) /\ Program(t, call[t], s)
  BY DEF Pending, TypeOK
<1>2. Members(t, r) /\ Temporary(t, r) /\ Program(t, call[t], r)
  BY <1>1, MembersTail, ProgramTail
<1>3. ASSUME ssa_ref'[tmp(t)] # NULL
      PROVE  /\ r # <<>>
             /\ r[Len(r)].op = "move" \/ r[Len(r)] = null(tmp(t))
             /\ \A i \in 1 .. Len(r) : ~ToTmp(t, r, i)
  <2>0. Len(s) \in Nat \ {0}
    BY <1>1, TailFacts
  <2>1. CASE ssa_ref'[tmp(t)] = ssa_ref[tmp(t)] /\ s[1].op # "move" /\ s[1] # null(tmp(t))
    <3>1. /\ s[Len(s)].op = "move" \/ s[Len(s)] = null(tmp(t))
          /\ \A i \in 1 .. Len(s) : ~ToTmp(t, s, i)
      BY <1>3, <2>1 DEF Pending
    <3>2. Len(s) # 1
      BY <2>1, <3>1
    <3> HIDE DEF s
    <3>3. r # <<>> /\ r[Len(r)] = s[Len(s)]
      BY <1>1, <3>2, TailLast
    <3>4. \A i \in 1 .. Len(r) : ~ToTmp(t, r, i)
      BY <1>1, <3>1, TailLast
    <3> HIDE DEF r
    <3> QED BY <3>1, <3>3, <3>4
  <2>2. CASE SetPointer(t) /\ ToTmp(t, s, 1)
    <3>1. 1 \in 1 .. Len(s)
      BY <2>0
    <3>2. 1 + 2 = Len(s) /\ s[1 + 2].op = "move"
      BY <1>1, <2>2, <3>1 DEF Temporary
    <3>3. ASSUME NEW i \in 1 .. Len(s), i > 1 PROVE ~ToTmp(t, s, i)
      BY <1>1, <3>2, <3>3 DEF Temporary
    <3>4. Len(s) = 3 /\ s[Len(s)].op = "move"
      BY <3>2
    <3> HIDE DEF s
    <3>5. r # <<>> /\ r[Len(r)] = s[Len(s)]
      <4>1. Len(s) # 1
        BY <3>4
      <4> QED BY <1>1, <4>1, TailLast
    <3>6. \A i \in 1 .. Len(r) : ~ToTmp(t, r, i)
      <4>1. \A i \in 1 .. Len(s) : i > 1 => ~ToTmp(t, s, i)
        BY <3>3
      <4> QED BY <1>1, <4>1, TailLast
    <3> HIDE DEF r
    <3> QED BY <3>4, <3>5, <3>6
  <2>3. ASSUME SetPointer(t), ~ToTmp(t, s, 1)
        PROVE  ssa_ref'[tmp(t)] = ssa_ref[tmp(t)] /\ s[1].op # "move" /\ s[1] # null(tmp(t))
    <3>1. tmp(t) \in Tags /\ null(tmp(t)).op = "null" /\ null(tmp(t)).a = tmp(t)
      BY OwnTags DEF null
    <3>2. /\ s[1].op \in Setting
          /\ \A x \in Tags : x # s[1].a /\ (s[1].op = "move" => x # s[1].b) => ssa_ref'[x] = ssa_ref[x]
          /\ s[1].op = "null" => ssa_ref'[s[1].a] = NULL
          /\ s[1].op = "move" => ssa_ref'[s[1].b] = NULL /\ s[1].b = tmp(t)
      BY <2>3, PointerSet
    <3>3. s[1].op # "move"
      BY <1>3, <3>2
    <3>4. s[1].op = "null" => s[1].a # tmp(t)
      BY <1>3, <3>2
    <3>5. s[1].op = "copy" => s[1].a # tmp(t)
      BY <2>3 DEF ToTmp
    <3>6. s[1].a # tmp(t)
      BY <3>2, <3>3, <3>4, <3>5 DEF Setting
    <3> QED BY <3>1, <3>2, <3>3, <3>6
  <2>4. s[1].op \in {"inc", "dec"} => s[1].op # "move" /\ s[1] # null(tmp(t))
    BY DEF null
  <2> QED BY <2>1, <2>2, <2>3, <2>4
<1> QED BY <1>1, <1>2, <1>3 DEF Pending

LEMMA PendingLoad ==
    ASSUME TypeOK, NEW t \in Threads, Pending(t), LoadCount(t), ssa_ref[Head(todo[t]).a] # NULL
    PROVE  Pending(t)'
PROOF
<1>1. /\ UNCHANGED <<todo, ssa_ref, pc, call, ref_count>> /\ Counting(t)
      /\ ld'[t] = [cell |-> ssa_ref[Head(todo[t]).a], val |-> ref_count[ssa_ref[Head(todo[t]).a]]]
  BY DEF LoadCount, cellVars, TypeOK
<1>2. todo[t] # <<>> /\ Head(todo[t]) = todo[t][1]
  BY <1>1, TailFacts DEF Counting, TypeOK
<1>3. /\ Counting(t)' /\ ld'[t].cell = ssa_ref[todo[t][1].a] /\ ld'[t].val = ref_count[ld'[t].cell]
  BY <1>1, <1>2 DEF Counting
<1>4. /\ todo'[t] # <<>> => pc'[t] = "run"
      /\ Members(t, todo'[t]) /\ Temporary(t, todo'[t])
      /\ Program(t, call'[t], todo'[t])
  BY <1>1 DEF Pending
<1>5. ssa_ref'[tmp(t)] # NULL =>
          /\ todo'[t] # <<>>
          /\ \/ todo'[t][Len(todo'[t])].op = "move"
             \/ todo'[t][Len(todo'[t])] = null(tmp(t))
          /\ \A i \in 1 .. Len(todo'[t]) : ~ToTmp(t, todo'[t], i)
  BY <1>1 DEF Pending
<1> QED BY <1>1, <1>2, <1>3, <1>4, <1>5 DEF Pending

LEMMA PendingFill ==
    ASSUME TypeOK, NEW t \in Threads, Pending(t), FillVictim(t),
           pc'[t] = "run" /\ Good(t, call'[t], todo'[t]),
           LET s == todo'[t] IN
             /\ s[Len(s)].op = "move" \/ s[Len(s)] = null(tmp(t))
             /\ \A i \in 1 .. Len(s) : ~ToTmp(t, s, i)
    PROVE  Pending(t)'
PROOF
<1>1. ld'[t] = NoLoad
  BY NothingToDo DEF FillVictim, Goto
<1> QED BY <1>1, SMTT(60) DEF Pending, Good

-----------------------------------------------------------------------------
(* The cells.                                                              *)

(* A pointer that is set was held by another variable before. *)
LEMMA SetRefs ==
    ASSUME TypeOK, NEW t \in Threads, Pending(t), SetPointer(t), NEW c \in Cell, Refs(c) = {}
    PROVE  Refs(c)' = {}
PROOF
<1>1. c # NULL
  BY AllocatedRange
<1>2. SUFFICES ASSUME NEW x \in Tags, ssa_ref'[x] = c PROVE FALSE
  BY DEF Refs
<1>3. \A y \in Tags : ssa_ref[y] # c
  BY DEF Refs
<1> DEFINE s == todo[t]
<1>4. /\ s[1].op \in Setting /\ s[1].a \in Tags /\ s[1].b \in Tags
      /\ \A y \in Tags : y # s[1].a /\ (s[1].op = "move" => y # s[1].b) => ssa_ref'[y] = ssa_ref[y]
      /\ s[1].op = "copy" => ssa_ref'[s[1].a] = ssa_ref[s[1].b]
      /\ s[1].op = "null" => ssa_ref'[s[1].a] = NULL
      /\ s[1].op = "move" => ssa_ref'[s[1].a] = ssa_ref[s[1].b] /\ ssa_ref'[s[1].b] = NULL
  BY PointerSet
<1> HIDE DEF s
<1> QED BY <1>1, <1>2, <1>3, <1>4 DEF Setting

LEMMA FillRefs ==
    ASSUME TypeOK, NEW t \in Threads, FillVictim(t), NEW c, c # victim[t], Refs(c) = {}
    PROVE  Refs(c)' = {}
PROOF
<1>1. ssa_ref' = [ssa_ref EXCEPT ![tmp(t)] = victim[t]] /\ tmp(t) \in Tags /\ DOMAIN ssa_ref = Tags
  BY OwnTags DEF FillVictim, TypeOK
<1> QED BY <1>1 DEF Refs

(* The blocks only grow. *)
LEMMA Grows ==
    ASSUME TypeOK, TypeOK', nblk' = nblk \/ nblk' = nblk + 1
    PROVE  Allocated \subseteq Allocated'
PROOF
<1>1. nblk \in Nat /\ nblk' \in Nat /\ SSA_BLK \in Nat
  BY BlkAssumption, BoundAssumption DEF TypeOK
<1>2. (nblk + 1) * SSA_BLK = nblk * SSA_BLK + SSA_BLK /\ nblk * SSA_BLK \in Nat
  BY <1>1
<1>3. nblk * SSA_BLK <= nblk' * SSA_BLK /\ nblk' * SSA_BLK \in Nat
  <2>1. CASE nblk' = nblk
    BY <1>2, <2>1
  <2>2. CASE nblk' = nblk + 1
    <3>1. nblk' * SSA_BLK = nblk * SSA_BLK + SSA_BLK
      BY <1>2, <2>2
    <3> DEFINE m == nblk * SSA_BLK
               n == nblk' * SSA_BLK
    <3>2. n = m + SSA_BLK /\ m \in Nat
      BY <1>2, <3>1
    <3> HIDE DEF m, n
    <3>3. m <= n /\ n \in Nat
      BY <1>1, <3>2
    <3> QED BY <3>3 DEF m, n
  <2> QED BY <2>1, <2>2
<1> QED BY <1>2, <1>3 DEF Allocated

LEMMA CellsFrame ==
    ASSUME TypeOK, TypeOK', NEW t \in Threads, Cells(t), UNCHANGED <<cellVars, ssa_ref>>,
           nblk' = nblk \/ nblk' = nblk + 1
    PROVE  Cells(t)'
PROOF
<1>1. Allocated \subseteq Allocated'
  BY Grows
<1>2. \A c : Refs(c)' = Refs(c)
  BY DEF Refs
<1> QED BY <1>1, <1>2 DEF Cells, cellVars

LEMMA CellsMark ==
    ASSUME TypeOK, NEW t \in Threads, Cells(t), MarkVictim(t), Unused(victim[t])
    PROVE  Cells(t)'
PROOF
<1> DEFINE v == victim[t]
<1>1. v \in Cell /\ v \in Allocated /\ prot[v] = 0 /\ Refs(v) = {} /\ 1 # UNUSED /\ DOMAIN ref_count = Cell
  BY AllocatedRange, WordFacts DEF Unused, TypeOK
<1>2. /\ ref_count' = [ref_count EXCEPT ![v] = 1] /\ prot' = prot /\ bdd' = bdd
      /\ Allocated' = Allocated /\ \A c : Refs(c)' = Refs(c)
  BY DEF MarkVictim, Refs, Allocated, ringVars
<1> HIDE DEF v
<1> QED BY <1>1, <1>2 DEF Cells

LEMMA CellsFill ==
    ASSUME TypeOK, NEW t \in Threads, Cells(t), Counts(t), FillVictim(t),
           victim[t] \in Allocated, prot[victim[t]] = 0, res[t] \notin {Junk, {}}
    PROVE  Cells(t)'
PROOF
<1> DEFINE v == victim[t]
<1>1. v \in Cell /\ v \in Allocated /\ DOMAIN bdd = Cell /\ DOMAIN prot = Cell
  BY AllocatedRange DEF TypeOK
<1>2. ref_count[v] # UNUSED
  <2>1. pc[t] \in Taken
    BY DEF FillVictim, Goto, Taken
  <2> QED BY <1>1, <2>1, CountsForm
<1>3. /\ ref_count' = ref_count /\ Allocated' = Allocated
      /\ bdd' = [bdd EXCEPT ![v] = res[t]] /\ prot' = [prot EXCEPT ![v] = prot[v] + 1]
  BY DEF FillVictim, Allocated, ringVars
<1>4. bdd'[v] = res[t] /\ prot'[v] = 1
  BY <1>1, <1>3
<1>5. ASSUME NEW c \in Cell
      PROVE  /\ prot'[c] \in {0, 1} /\ bdd'[c] # {}
             /\ c \notin Allocated => ref_count[c] = UNUSED
             /\ ref_count[c] = UNUSED => prot'[c] = 0
             /\ Refs(c)' # {} => c \in Allocated /\ prot'[c] = 1 /\ bdd'[c] # Junk
  <2>1. CASE c = v
    BY <1>1, <1>2, <1>4, <2>1
  <2>2. CASE c # v
    <3>1. Refs(c)' # {} => Refs(c) # {}
      BY <2>2, FillRefs
    <3>2. bdd'[c] = bdd[c] /\ prot'[c] = prot[c]
      BY <1>1, <1>3, <2>2
    <3> HIDE DEF v
    <3> QED BY <3>1, <3>2 DEF Cells
  <2> QED BY <2>1, <2>2
<1> QED BY <1>3, <1>5 DEF Cells

LEMMA CellsStore ==
    ASSUME TypeOK, NEW t \in Threads, Cells(t), Pending(t), Counts(t)', StoreCount(t)
    PROVE  Cells(t)'
PROOF
<1> DEFINE k == ld[t].cell
           a == todo[t][1].a
<1>1. /\ UNCHANGED <<bdd, prot, ssa_ref>> /\ Allocated' = Allocated /\ ld[t] # NoLoad
      /\ \A c \in Cell : c # k => ref_count'[c] = ref_count[c]
  BY DEF StoreCount, Allocated, ringVars, TypeOK
<1>2. a \in Tags /\ ssa_ref[a] = k /\ k \in Cell
  <2>1. todo[t] # <<>> /\ todo[t] \in Seq(MicroOp(t))
    BY DEF StoreCount, Counting, TypeOK
  <2>2. todo[t][1] \in MicroOp(t)
    BY <2>1, TailFacts
  <2>3. a \in Tags
    BY <2>2, OwnTags DEF MicroOp
  <2>4. ssa_ref[a] # NULL /\ ssa_ref[a] = k
    BY <1>1 DEF Pending
  <2> QED BY <2>3, <2>4 DEF TypeOK
<1> HIDE DEF k, a
<1>3. \A c : Refs(c)' = Refs(c)
  BY <1>1 DEF Refs
<1>4. Refs(k) # {}
  BY <1>2 DEF Refs
<1>5. ref_count'[k] # UNUSED
  BY <1>2, <1>3, <1>4 DEF Counts
<1> QED BY <1>1, <1>2, <1>3, <1>4, <1>5 DEF Cells

LEMMA CellsSet ==
    ASSUME TypeOK, NEW t \in Threads, Cells(t), Pending(t), SetPointer(t)
    PROVE  Cells(t)'
PROOF
<1>1. UNCHANGED <<bdd, prot, ref_count>> /\ Allocated' = Allocated
  BY DEF SetPointer, Allocated, ringVars, cellVars
<1>2. \A c \in Cell : Refs(c)' # {} => Refs(c) # {}
  BY SetRefs
<1> QED BY <1>1, <1>2 DEF Cells

-----------------------------------------------------------------------------
(* The ring.                                                               *)

LEMMA UnusedFrame ==
    ASSUME UNCHANGED <<nblk, ref_count, prot, ssa_ref>>
    PROVE  /\ \A c : Unused(c)' <=> Unused(c)
           /\ \A c : Refs(c)' = Refs(c)
           /\ Allocated' = Allocated
BY DEF Unused, Allocated, Reclaimable, Refs

LEMMA QueueFrame ==
    ASSUME UNCHANGED <<q, hd, tl>>, Queue, \A i \in Slot : InRing(i) => Unused(q[i])'
    PROVE  /\ Queue' /\ \A i \in Slot : InRing(i)' <=> InRing(i)
           /\ \A c : Outside(c)' <=> Outside(c)
PROOF
<1>1. \A i \in Slot : InRing(i)' <=> InRing(i)
  BY DEF InRing
<1>2. \A c : Outside(c)' <=> Outside(c)
  BY <1>1 DEF Outside
<1>3. Queue'
  BY <1>1 DEF Queue
<1> QED BY <1>1, <1>2, <1>3

(* What a thread that is past the ring, or has not reached it, may do. *)
Walking == {"test", "lock", "cas", "take", "mark"} \cup GcPC \cup Taken

LEMMA RingOther ==
    ASSUME NEW t \in Threads, Ring(t), UNCHANGED <<q, hd, tl>>,
           \A i \in Slot : InRing(i) => Unused(q[i])', pc'[t] \notin Walking
    PROVE  Ring(t)'
PROOF
<1>1. Queue'
  BY QueueFrame DEF Ring
<1> QED BY <1>1 DEF Ring, Walking, GcPC, Taken

LEMMA RingWalk ==
    ASSUME TypeOK, NEW t \in Threads, Ring(t),
           \/ ReadHead(t) \/ TestTail(t) \/ TryLock(t) \/ TakeVictim(t)
           \/ AllocCall(t) \/ GcBegin(t) \/ GcUnlock(t)
    PROVE  Ring(t)'
PROOF
<1> USE DEF cellVars, ringVars, gcVars, Goto, GcPC, Taken
<1>1. UNCHANGED <<q, hd, tl, nblk, ref_count, prot, ssa_ref>>
  BY DEF ReadHead, TestTail, TryLock, TakeVictim, AllocCall, GcBegin, GcUnlock
<1>2. /\ \A c : Unused(c)' <=> Unused(c)
      /\ \A c : Refs(c)' = Refs(c)
      /\ Allocated' = Allocated
  BY <1>1, UnusedFrame
<1>3. Queue' /\ \A c : Outside(c)' <=> Outside(c)
  <2>1. \A i \in Slot : InRing(i) => Unused(q[i])'
    <3>1. ASSUME NEW i \in Slot, InRing(i) PROVE Unused(q[i])'
      <4>1. PICK c : c = q[i]
        OBVIOUS
      <4>2. Unused(c)'
        BY <1>2, <3>1, <4>1 DEF Ring, Queue
      <4>3. c = q'[i]
        BY <1>1, <4>1
      <4> QED BY <4>2, <4>3
    <3> QED BY <3>1
  <2> QED BY <1>1, <2>1, QueueFrame DEF Ring
<1>4. ASSUME pc'[t] \notin {"take", "mark"} \cup Taken,
             pc'[t] \in {"test", "lock", "cas"} \cup GcPC => idx'[t] = hd',
             pc'[t] \in {"lock", "gc_begin", "gc"} => hd' = tl',
             pc'[t] = "cas" => hd' # tl'
      PROVE  Ring(t)'
  BY <1>3, <1>4 DEF Ring
<1>5. CASE ReadHead(t)
  BY <1>4, <1>5 DEF ReadHead, TypeOK
<1>6. CASE TestTail(t)
  <2>1. idx[t] = hd /\ UNCHANGED <<idx, hd, tl>>
    BY <1>6 DEF TestTail, Ring
  <2>2. pc'[t] = IF idx[t] = tl THEN "lock" ELSE "cas"
    BY <1>6 DEF TestTail, TypeOK
  <2> QED BY <1>4, <2>1, <2>2
<1>7. CASE TryLock(t)
  <2>1. idx[t] = hd /\ hd = tl /\ UNCHANGED <<idx, hd, tl>>
    BY <1>7 DEF TryLock, Ring
  <2>2. pc'[t] = "gc_begin" \/ pc'[t] = "test"
    BY <1>7 DEF TryLock, TypeOK
  <2> QED BY <1>4, <2>1, <2>2
<1>8. CASE TakeVictim(t)
  <2>1. pc[t] = "take" /\ pc'[t] = "mark" /\ victim'[t] = q[idx[t]]
    BY <1>8 DEF TakeVictim, TypeOK
  <2>2. Unused(q[idx[t]]) /\ Outside(q[idx[t]])
    BY <2>1 DEF Ring
  <2>3. PICK c : c = q[idx[t]]
    OBVIOUS
  <2>4. Unused(c)' /\ Outside(c)' /\ c = victim'[t]
    BY <1>2, <1>3, <2>1, <2>2, <2>3
  <2>5. Unused(victim[t])' /\ Outside(victim[t])'
    BY <2>4
  <2> QED BY <1>3, <2>1, <2>5 DEF Ring
<1>9. CASE AllocCall(t)
  <2>1. pc[t] = "cube" /\ pc'[t] = "fill" /\ victim' = victim
    BY <1>9 DEF AllocCall, TypeOK
  <2>2. PICK c : c = victim[t]
    OBVIOUS
  <2>3. c \in Allocated /\ prot[c] = 0 /\ Refs(c) = {} /\ Outside(c)
    BY <2>1, <2>2 DEF Ring
  <2>4. c \in Allocated' /\ prot'[c] = 0 /\ Refs(c)' = {} /\ Outside(c)' /\ c = victim'[t]
    BY <1>1, <1>2, <1>3, <2>1, <2>2, <2>3
  <2>5. victim'[t] \in Allocated' /\ prot'[victim'[t]] = 0 /\ Refs(victim[t])' = {} /\ Outside(victim[t])'
    BY <2>4
  <2> QED BY <1>3, <2>1, <2>5 DEF Ring
<1>10. CASE GcBegin(t)
  <2>1. idx[t] = hd /\ hd = tl /\ UNCHANGED <<idx, hd, tl>>
    BY <1>10 DEF GcBegin, Ring
  <2>2. pc'[t] = "gc"
    BY <1>10 DEF GcBegin, TypeOK
  <2> QED BY <1>4, <2>1, <2>2
<1>11. CASE GcUnlock(t)
  <2>1. idx[t] = hd /\ UNCHANGED <<idx, hd, tl>>
    BY <1>11 DEF GcUnlock, Ring
  <2>2. pc'[t] = "test"
    BY <1>11 DEF GcUnlock, TypeOK
  <2> QED BY <1>4, <2>1, <2>2
<1> QED BY <1>5, <1>6, <1>7, <1>8, <1>9, <1>10, <1>11

(* The slots before and after a step of the head or the tail. *)
LEMMA AheadEqual ==
    ASSUME NEW i \in Slot, NEW j \in Slot, NEW t \in Slot
    PROVE  (Ahead(i, t) = Ahead(j, t) <=> i = j) /\ Ahead(t, t) = 0 /\ Ahead(i, t) \in Nat
PROOF
<1>1. SSA_BLK \in Nat /\ i \in 0 .. SSA_BLK - 1 /\ j \in 0 .. SSA_BLK - 1 /\ t \in 0 .. SSA_BLK - 1
  BY BlkAssumption DEF Slot
<1>2. /\ Ahead(i, t) = IF i >= t THEN i - t ELSE i - t + SSA_BLK
      /\ Ahead(j, t) = IF j >= t THEN j - t ELSE j - t + SSA_BLK
      /\ Ahead(t, t) = t - t
  BY <1>1, AheadForm
<1> QED BY <1>1, <1>2

LEMMA AheadPop ==
    ASSUME NEW h \in Slot, NEW t \in Slot, h # t, NEW i \in Slot
    PROVE  /\ (h + 1) % SSA_BLK \in Slot
           /\ Ahead(i, (h + 1) % SSA_BLK) < Ahead(t, (h + 1) % SSA_BLK)
                <=> Ahead(i, h) < Ahead(t, h) /\ i # h
PROOF
<1> DEFINE n == (h + 1) % SSA_BLK
<1>1. SSA_BLK \in Nat /\ SSA_BLK >= 3 /\ i \in 0 .. SSA_BLK - 1 /\ h \in 0 .. SSA_BLK - 1 /\ t \in 0 .. SSA_BLK - 1
  BY BlkAssumption DEF Slot
<1>2. n = (IF h = SSA_BLK - 1 THEN 0 ELSE h + 1)
  BY AheadForm
<1> HIDE DEF n
<1>3. n \in Slot
  BY <1>1, <1>2 DEF Slot
<1>4. /\ Ahead(i, h) = IF i >= h THEN i - h ELSE i - h + SSA_BLK
      /\ Ahead(t, h) = IF t >= h THEN t - h ELSE t - h + SSA_BLK
      /\ Ahead(i, n) = IF i >= n THEN i - n ELSE i - n + SSA_BLK
      /\ Ahead(t, n) = IF t >= n THEN t - n ELSE t - n + SSA_BLK
  BY <1>3, AheadForm
<1>5. Ahead(i, n) < Ahead(t, n) <=> Ahead(i, h) < Ahead(t, h) /\ i # h
  BY <1>1, <1>2, <1>4
<1> QED BY <1>3, <1>5 DEF n

LEMMA AheadNext ==
    ASSUME NEW t \in Slot, NEW x \in Slot, Ahead(x, t) < SSA_BLK - 1
    PROVE  LET n == (x + 1) % SSA_BLK IN
           /\ n \in Slot /\ Ahead(n, t) = Ahead(x, t) + 1
           /\ \A i \in Slot : Ahead(i, t) < Ahead(n, t) <=> Ahead(i, t) < Ahead(x, t) \/ i = x
PROOF
<1> DEFINE n == (x + 1) % SSA_BLK
<1>1. SSA_BLK \in Nat /\ SSA_BLK >= 3 /\ x \in 0 .. SSA_BLK - 1 /\ t \in 0 .. SSA_BLK - 1
  BY BlkAssumption DEF Slot
<1>2. n = (IF x = SSA_BLK - 1 THEN 0 ELSE x + 1)
  BY AheadForm
<1> HIDE DEF n
<1>3. n \in Slot
  BY <1>1, <1>2 DEF Slot
<1>4. /\ Ahead(x, t) = IF x >= t THEN x - t ELSE x - t + SSA_BLK
      /\ Ahead(n, t) = IF n >= t THEN n - t ELSE n - t + SSA_BLK
  BY <1>3, AheadForm
<1>5. Ahead(n, t) = Ahead(x, t) + 1
  BY <1>1, <1>2, <1>4
<1>6. ASSUME NEW i \in Slot
      PROVE  Ahead(i, t) < Ahead(n, t) <=> Ahead(i, t) < Ahead(x, t) \/ i = x
  <2>1. Ahead(i, t) \in Nat /\ Ahead(x, t) \in Nat /\ (Ahead(i, t) = Ahead(x, t) <=> i = x)
    BY AheadEqual
  <2> QED BY <1>5, <2>1
<1> QED BY <1>3, <1>5, <1>6 DEF n

LEMMA AheadFill ==
    ASSUME NEW h \in Slot, NEW t \in Slot, NEW i \in Slot
    PROVE  LET e == EmptyCount(h, t)
               n == (t + e) % SSA_BLK
           IN
           /\ n \in Slot /\ Ahead(n, h) = SSA_BLK - 1 /\ e \in Nat /\ e < SSA_BLK
           /\ Ahead(i, h) < Ahead(t, h) => ~(Ahead(i, t) < e)
           /\ ~(Ahead(i, h) < Ahead(t, h)) /\ Ahead(i, h) < SSA_BLK - 1 => Ahead(i, t) < e
PROOF
<1> DEFINE e == EmptyCount(h, t)
           n == (t + e) % SSA_BLK
<1>1. SSA_BLK \in Nat /\ SSA_BLK >= 3 /\ i \in 0 .. SSA_BLK - 1 /\ h \in 0 .. SSA_BLK - 1 /\ t \in 0 .. SSA_BLK - 1
  BY BlkAssumption DEF Slot
<1>2. /\ Ahead(i, h) = IF i >= h THEN i - h ELSE i - h + SSA_BLK
      /\ Ahead(t, h) = IF t >= h THEN t - h ELSE t - h + SSA_BLK
      /\ Ahead(i, t) = IF i >= t THEN i - t ELSE i - t + SSA_BLK
      /\ e = SSA_BLK - 1 - Ahead(t, h)
  BY AheadForm
<1>3. e \in Nat /\ e < SSA_BLK
  BY <1>1, <1>2
<1> HIDE DEF e
<1>4. n = IF h = 0 THEN SSA_BLK - 1 ELSE h - 1
  <2>1. CASE t >= h
    <3>1. t + e = SSA_BLK - 1 + h
      BY <1>1, <1>2, <2>1
    <3>2. h # 0 => t + e = SSA_BLK * 1 + (h - 1)
      BY <1>1, <3>1
    <3>3. h # 0 => (SSA_BLK * 1 + (h - 1)) % SSA_BLK = h - 1
      BY <1>1
    <3>4. h = 0 => (SSA_BLK - 1) % SSA_BLK = SSA_BLK - 1
      BY <1>1
    <3>5. h = 0 => t + e = SSA_BLK - 1
      BY <1>1, <3>1
    <3> QED BY <3>2, <3>3, <3>4, <3>5
  <2>2. CASE t < h
    <3>1. t + e = h - 1 /\ h - 1 \in 0 .. SSA_BLK - 1
      BY <1>1, <1>2, <2>2
    <3> QED BY <1>1, <2>2, <3>1
  <2> QED BY <1>1, <2>1, <2>2
<1> HIDE DEF n
<1>5. n \in Slot
  BY <1>1, <1>4 DEF Slot
<1>6. Ahead(n, h) = IF n >= h THEN n - h ELSE n - h + SSA_BLK
  BY <1>5, AheadForm
<1>7. Ahead(n, h) = SSA_BLK - 1
  BY <1>1, <1>4, <1>6
<1>8. Ahead(i, h) < Ahead(t, h) => ~(Ahead(i, t) < e)
  BY <1>1, <1>2
<1>9. ~(Ahead(i, h) < Ahead(t, h)) /\ Ahead(i, h) < SSA_BLK - 1 => Ahead(i, t) < e
  BY <1>1, <1>2
<1> QED BY <1>3, <1>5, <1>7, <1>8, <1>9 DEF e, n

LEMMA RingPop ==
    ASSUME TypeOK, NEW t \in Threads, Ring(t), PopCell(t)
    PROVE  Ring(t)'
PROOF
<1>1. /\ pc[t] = "cas" /\ idx[t] = hd /\ hd # tl /\ hd \in Slot /\ tl \in Slot
  BY DEF PopCell, Ring, TypeOK
<1>2. /\ hd' = (hd + 1) % SSA_BLK /\ pc'[t] = "take"
      /\ UNCHANGED <<q, tl, idx, nblk, ref_count, prot, ssa_ref>>
  BY <1>1 DEF PopCell, cellVars, TypeOK
<1>3. \A i \in Slot : InRing(i)' <=> InRing(i) /\ i # hd
  BY <1>1, <1>2, AheadPop DEF InRing
<1>4. \A c : Unused(c)' <=> Unused(c)
  BY <1>2, UnusedFrame
<1>5. InRing(hd)
  <2>1. Ahead(hd, hd) = 0 /\ Ahead(tl, hd) \in Nat /\ Ahead(tl, hd) # Ahead(hd, hd)
    BY <1>1, AheadEqual
  <2> QED BY <2>1 DEF InRing
<1>6. ASSUME NEW i \in Slot, InRing(i)' PROVE Unused(q[i])'
  <2>1. PICK c : c = q[i]
    OBVIOUS
  <2>2. Unused(c)' /\ c = q'[i]
    BY <1>2, <1>3, <1>4, <1>6, <2>1 DEF Ring, Queue
  <2> QED BY <2>2
<1>7. Queue'
  <2>1. ASSUME NEW i \in Slot, NEW j \in Slot, InRing(i)', InRing(j)', q'[i] = q'[j] PROVE i = j
    BY <1>2, <1>3, <2>1 DEF Ring, Queue
  <2> QED BY <1>6, <2>1 DEF Queue
<1>8. Unused(q[idx[t]])' /\ Outside(q[idx[t]])'
  <2>1. PICK c : c = q[hd]
    OBVIOUS
  <2>2. Unused(c)' /\ c = q'[idx'[t]]
    BY <1>1, <1>2, <1>4, <1>5, <2>1 DEF Ring, Queue
  <2>3. Outside(c)'
    BY <1>1, <1>2, <1>3, <1>5, <2>1 DEF Ring, Queue, Outside
  <2> QED BY <2>2, <2>3
<1> QED BY <1>2, <1>7, <1>8 DEF Ring, GcPC, Taken

LEMMA RingMark ==
    ASSUME TypeOK, NEW t \in Threads, Ring(t), MarkVictim(t)
    PROVE  Ring(t)'
PROOF
<1> DEFINE v == victim[t]
<1>1. /\ pc[t] = "mark" /\ pc'[t] \in Taken /\ victim' = victim
      /\ UNCHANGED <<q, hd, tl, prot, ssa_ref>> /\ Allocated' = Allocated
      /\ ref_count' = [ref_count EXCEPT ![v] = 1]
  BY DEF MarkVictim, Taken, ringVars, Allocated, TypeOK
<1>2. Unused(v) /\ Outside(v)
  BY <1>1 DEF Ring
<1>3. DOMAIN ref_count = Cell /\ Allocated \subseteq Cell
  BY AllocatedRange DEF TypeOK
<1> HIDE DEF v
<1>4. \A c : Refs(c)' = Refs(c)
  BY <1>1 DEF Refs
<1>5. ASSUME NEW i \in Slot, InRing(i) PROVE Unused(q[i])'
  <2>1. PICK c : c = q[i]
    OBVIOUS
  <2>2. Unused(c) /\ c # v /\ c = q'[i]
    BY <1>1, <1>2, <1>5, <2>1 DEF Ring, Queue, Outside
  <2>3. ref_count'[c] = ref_count[c]
    BY <1>1, <1>3, <2>2 DEF Unused
  <2>4. Unused(c)'
    BY <1>1, <1>4, <2>2, <2>3 DEF Unused, Reclaimable
  <2> QED BY <2>2, <2>4
<1>6. Queue' /\ \A c : Outside(c)' <=> Outside(c)
  <2>1. \A i \in Slot : InRing(i) => Unused(q[i])'
    BY <1>5
  <2>2. Queue
    BY DEF Ring
  <2> QED BY <1>1, <2>1, <2>2, QueueFrame
<1>7. PICK c : c = v
  OBVIOUS
<1>8. c \in Allocated' /\ prot'[c] = 0 /\ Refs(c)' = {} /\ Outside(c)' /\ c = victim'[t]
  BY <1>1, <1>2, <1>4, <1>6, <1>7 DEF Unused, v
<1>9. victim'[t] \in Allocated' /\ prot'[victim'[t]] = 0 /\ Refs(victim[t])' = {} /\ Outside(victim[t])'
  BY <1>8
<1> QED BY <1>1, <1>6, <1>9 DEF Ring, Taken, GcPC

(* The cells in the ring stay unused while another cell is written. *)
LEMMA RingFill ==
    ASSUME TypeOK, NEW t \in Threads, Ring(t), FillVictim(t)
    PROVE  Ring(t)'
PROOF
<1> DEFINE v == victim[t]
<1>1. /\ pc[t] = "fill" /\ pc'[t] = "run"
      /\ UNCHANGED <<q, hd, tl, ref_count>> /\ Allocated' = Allocated
      /\ prot' = [prot EXCEPT ![v] = @ + 1]
  BY DEF FillVictim, Goto, ringVars, Allocated, TypeOK
<1>2. Outside(v) /\ DOMAIN prot = Cell /\ Allocated \subseteq Cell
  BY <1>1, AllocatedRange DEF Ring, Taken, TypeOK
<1>3. ASSUME NEW i \in Slot, InRing(i) PROVE Unused(q[i])'
  <2>1. PICK c : c = q[i]
    OBVIOUS
  <2>2. Unused(c) /\ c # v /\ c = q'[i]
    BY <1>1, <1>2, <1>3, <2>1 DEF Ring, Queue, Outside
  <2>3. prot'[c] = prot[c]
    BY <1>1, <1>2, <2>2 DEF Unused
  <2>4. Refs(c)' = {}
    BY <2>2, FillRefs DEF Unused
  <2>5. Unused(c)'
    BY <1>1, <2>2, <2>3, <2>4 DEF Unused, Reclaimable
  <2> QED BY <2>2, <2>5
<1>4. pc'[t] \notin Walking
  BY <1>1 DEF Walking, GcPC, Taken
<1> QED BY <1>1, <1>3, <1>4, RingOther

LEMMA RingStore ==
    ASSUME TypeOK, NEW t \in Threads, Ring(t), Pending(t), StoreCount(t)
    PROVE  Ring(t)'
PROOF
<1> DEFINE k == ld[t].cell
           a == todo[t][1].a
<1>1. /\ UNCHANGED <<q, hd, tl, prot, ssa_ref, pc>> /\ Allocated' = Allocated /\ ld[t] # NoLoad
      /\ pc[t] = "run" /\ \A c \in Cell : c # k => ref_count'[c] = ref_count[c]
  BY DEF StoreCount, Allocated, ringVars, TypeOK
<1>2. a \in Tags /\ ssa_ref[a] = k
  <2>1. todo[t] # <<>> /\ todo[t] \in Seq(MicroOp(t))
    BY DEF StoreCount, Counting, TypeOK
  <2>2. todo[t][1] \in MicroOp(t)
    BY <2>1, TailFacts
  <2>3. a \in Tags
    BY <2>2, OwnTags DEF MicroOp
  <2> QED BY <1>1, <2>3 DEF Pending
<1> HIDE DEF k, a
<1>3. Refs(k) # {} /\ \A c : Refs(c)' = Refs(c)
  BY <1>1, <1>2 DEF Refs
<1>4. ASSUME NEW i \in Slot, InRing(i) PROVE Unused(q[i])'
  <2>1. PICK c : c = q[i]
    OBVIOUS
  <2>2. Unused(c) /\ c = q'[i]
    BY <1>1, <1>4, <2>1 DEF Ring, Queue
  <2>3. c # k /\ c \in Cell
    BY <1>3, <2>2, AllocatedRange DEF Unused
  <2>4. Unused(c)'
    BY <1>1, <1>3, <2>2, <2>3 DEF Unused, Reclaimable
  <2> QED BY <2>2, <2>4
<1>5. pc'[t] \notin Walking
  BY <1>1 DEF Walking, GcPC, Taken
<1> QED BY <1>1, <1>4, <1>5, RingOther

LEMMA RingSet ==
    ASSUME TypeOK, NEW t \in Threads, Ring(t), Pending(t), SetPointer(t)
    PROVE  Ring(t)'
PROOF
<1>1. /\ UNCHANGED <<q, hd, tl, prot, ref_count, pc>> /\ Allocated' = Allocated /\ pc[t] = "run"
  BY DEF SetPointer, Allocated, ringVars, cellVars
<1>2. ASSUME NEW i \in Slot, InRing(i) PROVE Unused(q[i])'
  <2>1. PICK c : c = q[i]
    OBVIOUS
  <2>2. Unused(c) /\ c = q'[i]
    BY <1>1, <1>2, <2>1 DEF Ring, Queue
  <2>3. c \in Cell /\ Refs(c) = {}
    BY <2>2, AllocatedRange DEF Unused
  <2>4. Refs(c)' = {}
    BY <2>3, SetRefs
  <2>5. Unused(c)'
    BY <1>1, <2>2, <2>4 DEF Unused, Reclaimable
  <2> QED BY <2>2, <2>5
<1>3. pc'[t] \notin Walking
  BY <1>1 DEF Walking, GcPC, Taken
<1> QED BY <1>1, <1>2, <1>3, RingOther

(* Steps that leave the cells, the ring and the pointers alone. *)
LEMMA RingSame ==
    ASSUME NEW t \in Threads, Ring(t), UNCHANGED <<q, hd, tl, nblk, ref_count, prot, ssa_ref>>,
           pc'[t] \notin Walking
    PROVE  Ring(t)'
PROOF
<1>1. \A c : Unused(c)' <=> Unused(c)
  BY UnusedFrame
<1>2. ASSUME NEW i \in Slot, InRing(i) PROVE Unused(q[i])'
  <2>1. PICK c : c = q[i]
    OBVIOUS
  <2>2. Unused(c)' /\ c = q'[i]
    BY <1>1, <1>2, <2>1 DEF Ring, Queue
  <2> QED BY <2>2
<1> QED BY <1>2, RingOther

-----------------------------------------------------------------------------
(* The collector.                                                          *)

(* A count of 0 outside the members means that no tag is left. *)
LEMMA FreeUnreferenced ==
    ASSUME NEW t \in Threads, Counts(t), todo[t] = <<>>, pc[t] \notin Taken,
           NEW c \in Cell, Reclaimable(c)
    PROVE  Refs(c) = {}
PROOF
<1>1. ~Counted(todo[t], ssa_ref, c) /\ ~Discounted(todo[t], ssa_ref, c)
  BY DEF Counted, Discounted
<1>2. Cardinality(RefsOf(ssa_ref, c)) \in Nat /\ (Cardinality(RefsOf(ssa_ref, c)) = 0 <=> RefsOf(ssa_ref, c) = {})
  BY RefsFinite
<1>3. IF ref_count[c] = UNUSED THEN Cardinality(RefsOf(ssa_ref, c)) = 0
      ELSE ref_count[c] = Cardinality(RefsOf(ssa_ref, c)) + 0 - 0
  BY <1>1, CountsForm
<1> QED BY <1>2, <1>3 DEF Reclaimable, Refs, RefsOf

(* What one step of the scan does to the cell c it looks at. *)
LEMMA ScanCell ==
    ASSUME TypeOK, NEW t \in Threads, Counts(t), Cells(t), todo[t] = <<>>, Scan(t), GcCell(t)
    PROVE  LET c == it[t] IN
           /\ pc[t] = "gc" /\ c \in Allocated /\ c \in Cell /\ c \in Nat /\ it'[t] = c + 1
           /\ UNCHANGED <<ref_count, bdd, nblk, hd, ssa_ref>>
           /\ prot' \in [Cell -> {0, 1}] /\ \A d \in Cell : d # c => prot'[d] = prot[d]
           /\ Reclaimable(c) => Refs(c) = {} /\ prot'[c] = 0
           /\ ~Reclaimable(c) => UNCHANGED <<q, prot, temp_t, empty_count, tl, pc>>
PROOF
<1> DEFINE c == it[t]
<1>1. /\ pc[t] = "gc" /\ c < nblk * SSA_BLK /\ it'[t] = c + 1 /\ c \in 0 .. MaxBlocks * SSA_BLK
      /\ UNCHANGED <<ref_count, bdd, nblk, hd, ssa_ref>>
      /\ ~Reclaimable(c) => UNCHANGED <<q, prot, temp_t, empty_count, tl, pc>>
      /\ Reclaimable(c) => Unprotect(c)
  BY DEF GcCell, TypeOK
<1>2. c \in Nat /\ c \in Allocated /\ c \in Cell
  BY <1>1, AllocatedRange
<1> HIDE DEF c
<1>3. DOMAIN prot = Cell /\ \A d \in Cell : prot[d] \in {0, 1} /\ bdd[d] # {}
  BY DEF Cells, TypeOK
<1>4. CASE Reclaimable(c)
  <2>1. Refs(c) = {}
    <3>1. pc[t] \notin Taken
      BY <1>1 DEF Taken
    <3> QED BY <1>2, <1>4, <3>1, FreeUnreferenced
  <2>2. prot' = IF ref_count[c] = 0 /\ bdd[c] # {} /\ prot[c] > 0 THEN [prot EXCEPT ![c] = @ - 1] ELSE prot
    BY <1>1, <1>4 DEF Unprotect
  <2>3. ref_count[c] # 0 => prot[c] = 0
    BY <1>2, <1>4 DEF Cells, Reclaimable
  <2>4. CASE prot[c] = 1
    <3>1. prot' = [prot EXCEPT ![c] = 0]
      BY <1>2, <1>3, <2>2, <2>3, <2>4
    <3> QED BY <1>1, <1>2, <1>3, <1>4, <2>1, <3>1 DEF c
  <2>5. CASE prot[c] = 0
    <3>1. prot' = prot
      BY <1>2, <1>3, <2>2, <2>5
    <3>2. prot \in [Cell -> {0, 1}]
      BY <1>3 DEF TypeOK
    <3> QED BY <1>1, <1>2, <1>3, <1>4, <2>1, <2>5, <3>1, <3>2 DEF c
  <2> QED BY <1>2, <1>3, <2>4, <2>5
<1>5. CASE ~Reclaimable(c)
  <2>1. prot \in [Cell -> {0, 1}]
    BY <1>3 DEF TypeOK
  <2> QED BY <1>1, <1>2, <1>5, <2>1 DEF c
<1> QED BY <1>4, <1>5

LEMMA CellsGc ==
    ASSUME TypeOK, NEW t \in Threads, Counts(t), Cells(t), todo[t] = <<>>, Scan(t), GcCell(t)
    PROVE  Cells(t)'
PROOF
<1> DEFINE c == it[t]
<1>1. /\ c \in Cell /\ UNCHANGED <<ref_count, bdd, nblk, ssa_ref>>
      /\ prot' \in [Cell -> {0, 1}] /\ \A d \in Cell : d # c => prot'[d] = prot[d]
      /\ Reclaimable(c) => Refs(c) = {} /\ prot'[c] = 0
      /\ ~Reclaimable(c) => prot' = prot
  BY ScanCell
<1> HIDE DEF c
<1>2. Allocated' = Allocated /\ \A d : Refs(d)' = Refs(d)
  BY <1>1 DEF Allocated, Refs
<1>3. ASSUME NEW d \in Cell
      PROVE  /\ prot'[d] \in {0, 1} /\ bdd'[d] # {}
             /\ d \notin Allocated' => ref_count'[d] = UNUSED
             /\ ref_count'[d] = UNUSED => prot'[d] = 0
             /\ Refs(d)' # {} => d \in Allocated' /\ prot'[d] = 1 /\ bdd'[d] # Junk
  <2>1. CASE d # c \/ ~Reclaimable(c)
    BY <1>1, <1>2, <2>1 DEF Cells
  <2>2. CASE d = c /\ Reclaimable(c)
    BY <1>1, <1>2, <2>2 DEF Cells
  <2> QED BY <2>1, <2>2
<1> QED BY <1>3 DEF Cells

(* The slots from h up to x hold distinct unused cells below n. *)
Filled(h, x, n) ==
    /\ \A i \in Slot : Ahead(i, h) < Ahead(x, h) => Unused(q[i]) /\ q[i] < n
    /\ \A i, j \in Slot :
          Ahead(i, h) < Ahead(x, h) /\ Ahead(j, h) < Ahead(x, h) /\ q[i] = q[j] => i = j

LEMMA FoundFinite ==
    ASSUME NEW n \in Nat
    PROVE  /\ IsFiniteSet(Found(n)) /\ Cardinality(Found(n)) \in Nat
           /\ Reclaimable(n) => Cardinality(Found(n + 1)) = Cardinality(Found(n)) + 1
           /\ ~Reclaimable(n) => Found(n + 1) = Found(n)
           /\ Cardinality(Found(0)) = 0
PROOF
<1>1. IsFiniteSet(0 .. n - 1)
  BY FS_Interval
<1>2. Found(n) \in SUBSET (0 .. n - 1)
  BY DEF Found
<1>3. IsFiniteSet(Found(n)) /\ Cardinality(Found(n)) \in Nat
  BY <1>1, <1>2, FS_Subset, FS_CardinalityType
<1>4. n \notin Found(n)
  BY DEF Found
<1>5. Reclaimable(n) => Found(n + 1) = Found(n) \cup {n}
  BY DEF Found
<1>6. Reclaimable(n) => Cardinality(Found(n + 1)) = Cardinality(Found(n)) + 1
  BY <1>3, <1>4, <1>5, FS_AddElement
<1>7. ~Reclaimable(n) => Found(n + 1) = Found(n)
  BY DEF Found
<1>8. Found(0) = {}
  BY DEF Found
<1> QED BY <1>3, <1>6, <1>7, <1>8, FS_EmptySet

LEMMA GcFill ==
    ASSUME TypeOK, NEW t \in Threads, Counts(t), Cells(t), todo[t] = <<>>, Scan(t), GcCell(t),
           Reclaimable(it[t]), NEW h \in Slot, NEW x \in Slot, NEW c \in Nat,
           x = temp_t[t], c = it[t], Filled(h, x, c), Ahead(x, h) < SSA_BLK - 1
    PROVE  Filled(h, (x + 1) % SSA_BLK, c + 1)'
PROOF
<1> DEFINE n == (x + 1) % SSA_BLK
<1>1. /\ c \in Allocated /\ c \in Cell /\ UNCHANGED <<ref_count, nblk, ssa_ref>>
      /\ \A d \in Cell : d # c => prot'[d] = prot[d]
      /\ Refs(c) = {} /\ prot'[c] = 0
  BY ScanCell
<1>2. \A i \in Slot : q'[i] = IF i = x THEN c ELSE q[i]
  BY DEF GcCell, TypeOK
<1>3. \A i \in Slot : Ahead(i, h) < Ahead(n, h) <=> Ahead(i, h) < Ahead(x, h) \/ i = x
  BY AheadNext
<1> HIDE DEF n
<1>4. Allocated' = Allocated /\ \A d : Refs(d)' = Refs(d) /\ (Reclaimable(d)' <=> Reclaimable(d))
  BY <1>1 DEF Allocated, Refs, Reclaimable
<1>5. ASSUME NEW i \in Slot, Ahead(i, h) < Ahead(n, h)
      PROVE  Unused(q[i])' /\ q'[i] < c + 1 /\ (i # x => q'[i] < c)
  <2>1. CASE i = x
    <3>1. Unused(c)' /\ q'[i] = c /\ c < c + 1
      BY <1>1, <1>2, <1>4, <2>1 DEF Unused
    <3> QED BY <2>1, <3>1
  <2>2. CASE i # x
    <3>1. PICK d : d = q[i]
      OBVIOUS
    <3>2. Unused(d) /\ d < c /\ q'[i] = d
      BY <1>2, <1>3, <1>5, <2>2, <3>1 DEF Filled
    <3>3. d \in Cell /\ d \in Nat
      BY <3>2, AllocatedRange DEF Unused, Cell
    <3>4. d # c /\ d < c + 1
      BY <3>2, <3>3
    <3>5. Unused(d)'
      BY <1>1, <1>4, <3>2, <3>3, <3>4 DEF Unused
    <3> QED BY <3>2, <3>4, <3>5
  <2> QED BY <2>1, <2>2
<1>6. ASSUME NEW i \in Slot, NEW j \in Slot, Ahead(i, h) < Ahead(n, h), Ahead(j, h) < Ahead(n, h),
             q'[i] = q'[j]
      PROVE  i = j
  <2>1. (i # x => q'[i] < c) /\ (j # x => q'[j] < c)
    BY <1>5, <1>6
  <2>2. (i = x => q'[i] = c) /\ (j = x => q'[j] = c)
    BY <1>2
  <2>3. i = x <=> j = x
    BY <1>6, <2>1, <2>2
  <2>4. CASE i # x
    BY <1>2, <1>3, <1>6, <2>3, <2>4 DEF Filled
  <2> QED BY <2>3, <2>4
<1>7. Filled(h, n, c + 1)'
  BY <1>5, <1>6 DEF Filled
<1> QED BY <1>7 DEF n

LEMMA GcScan ==
    ASSUME TypeOK, NEW t \in Threads, Counts(t), Cells(t), todo[t] = <<>>, Ring(t), Scan(t), GcCell(t)
    PROVE  Ring(t)' /\ Scan(t)'
PROOF
<1>1. PICK h \in Slot, x \in Slot, c \in Nat : h = tl /\ x = temp_t[t] /\ c = it[t]
  BY DEF TypeOK
<1> DEFINE n == (x + 1) % SSA_BLK
           k == Ahead(x, h)
<1>2. /\ pc[t] = "gc" /\ c \in Allocated /\ it'[t] = c + 1
      /\ UNCHANGED <<ref_count, nblk, hd, ssa_ref, idx>>
      /\ ~Reclaimable(c) => UNCHANGED <<q, prot, temp_t, empty_count, tl, pc>>
  BY <1>1, ScanCell DEF GcCell
<1>3. /\ h = hd /\ idx[t] = hd
      /\ k < SSA_BLK - 1 /\ empty_count[t] = SSA_BLK - 1 - k
      /\ Cardinality(Found(c)) = k /\ Filled(h, x, c) /\ k \in Nat
  BY <1>1, <1>2, AheadEqual DEF Scan, Ring, GcPC, Filled
<1>4. \A m : Found(m)' = Found(m)
  BY <1>2 DEF Found, Reclaimable
<1>5. c + 1 <= nblk * SSA_BLK
  <2>1. nblk * SSA_BLK \in Int
    BY BlkAssumption, BoundAssumption DEF TypeOK
  <2> QED BY <1>2, <2>1 DEF Allocated
<1>6. CASE ~Reclaimable(c)
  <2>1. /\ UNCHANGED <<q, prot, temp_t, empty_count, tl, pc>> /\ Found(c + 1) = Found(c)
    BY <1>2, <1>6, FoundFinite
  <2>2. \A d : Unused(d)' <=> Unused(d)
    BY <1>2, <2>1, UnusedFrame
  <2>3. Queue'
    <3>1. \A i \in Slot : ~InRing(i)'
      <4>1. hd' = h /\ tl' = h
        BY <1>1, <1>2, <1>3, <2>1
      <4> QED BY <4>1, AheadEqual DEF InRing
    <3> QED BY <3>1 DEF Queue
  <2>4. Ring(t)'
    BY <1>1, <1>2, <1>3, <2>1, <2>3 DEF Ring, GcPC, Taken
  <2>5. ASSUME NEW i \in Slot, Ahead(i, h) < k PROVE Unused(q[i])' /\ q'[i] < c + 1
    <3>1. PICK d : d = q[i]
      OBVIOUS
    <3>2. Unused(d)' /\ d < c /\ q'[i] = d
      BY <1>3, <2>1, <2>2, <2>5, <3>1 DEF Filled
    <3>3. d \in Cell /\ d \in Nat
      BY <1>3, <2>5, <3>1, AllocatedRange DEF Unused, Cell, Filled
    <3> QED BY <3>2, <3>3
  <2>6. Filled(h, x, c + 1)'
    BY <1>3, <2>1, <2>5 DEF Filled
  <2>7. tl' = h /\ temp_t'[t] = x /\ pc'[t] = "gc" /\ Cardinality(Found(c + 1)') = k /\ empty_count'[t] = SSA_BLK - 1 - k
    BY <1>1, <1>2, <1>3, <1>4, <2>1
  <2>8. Scan(t)'
    <3> HIDE DEF k
    <3>1. k = Ahead(temp_t[t], tl)'
      BY <2>7 DEF k
    <3>2. Found(it[t])' = Found(c + 1)'
      BY <1>2
    <3>3. Filled(tl, temp_t[t], it[t])'
      BY <1>2, <2>6, <2>7
    <3>4. it'[t] <= nblk' * SSA_BLK
      BY <1>2, <1>5
    <3> QED BY <1>3, <2>7, <3>1, <3>2, <3>3, <3>4 DEF Scan, Filled
  <2> QED BY <2>4, <2>8
<1>7. CASE Reclaimable(c)
  <2>1. Filled(h, n, c + 1)' /\ n \in Slot /\ Ahead(n, h) = k + 1
    BY <1>1, <1>3, <1>7, GcFill, AheadNext
  <2>2. Cardinality(Found(c + 1)') = k + 1
    BY <1>3, <1>4, <1>7, FoundFinite
  <2>3. Dec(empty_count[t]) = SSA_BLK - 1 - (k + 1)
    <3>1. empty_count[t] \in 1 .. Word - 1
      BY <1>3, BlkAssumption DEF TypeOK, U64
    <3>2. PICK e \in 1 .. Word - 1, w \in Nat : e = empty_count[t] /\ w = Word
      BY <3>1, WordFacts
    <3>4. (w * 1 + (e - 1)) % w = e - 1
      BY <3>2, SMTT(60)
    <3>5. w * 1 + (e - 1) = e + w - 1
      BY <3>2
    <3>3. Dec(empty_count[t]) = empty_count[t] - 1
      BY <3>2, <3>4, <3>5 DEF Dec
    <3> QED BY <1>3, <3>3, BlkAssumption
  <2>4. /\ temp_t'[t] = n /\ empty_count'[t] = SSA_BLK - 1 - (k + 1)
        /\ SSA_BLK - 1 - (k + 1) = 0 => tl' = n /\ pc'[t] = "gc_unlock"
        /\ SSA_BLK - 1 - (k + 1) # 0 => tl' = tl /\ pc' = pc
    <3> HIDE DEF k
    <3>1. temp_t'[t] = n /\ empty_count'[t] = Dec(empty_count[t])
      BY <1>1, <1>7 DEF GcCell, TypeOK
    <3>2. /\ Dec(empty_count[t]) = 0 => tl' = n /\ pc'[t] = "gc_unlock"
          /\ Dec(empty_count[t]) # 0 => tl' = tl /\ pc' = pc
      BY <1>1, <1>7 DEF GcCell, TypeOK
    <3> QED BY <2>3, <3>1, <3>2
  <2> HIDE DEF n, k
  <2>5. CASE SSA_BLK - 1 - (k + 1) = 0
    <3>1. hd' = h /\ tl' = n /\ pc'[t] = "gc_unlock" /\ idx'[t] = hd'
      BY <1>2, <1>3, <2>4, <2>5
    <3>2. Filled(hd, tl, c + 1)'
      BY <2>1, <3>1
    <3>3. Queue'
      BY <3>2 DEF Filled, Queue, InRing
    <3>4. Ring(t)'
      BY <3>1, <3>3 DEF Ring, GcPC, Taken
    <3>5. Scan(t)'
      BY <3>1 DEF Scan
    <3> QED BY <3>4, <3>5
  <2>6. CASE SSA_BLK - 1 - (k + 1) # 0
    <3>1. hd' = h /\ tl' = h /\ pc'[t] = "gc" /\ idx'[t] = hd'
      BY <1>1, <1>2, <1>3, <2>4, <2>6
    <3>2. Queue'
      <4>1. \A i \in Slot : ~InRing(i)'
        BY <3>1, AheadEqual DEF InRing
      <4> QED BY <4>1 DEF Queue
    <3>3. Ring(t)'
      BY <3>1, <3>2 DEF Ring, GcPC, Taken
    <3>4. k + 1 < SSA_BLK - 1
      BY <1>3, <2>6, BlkAssumption
    <3>5. /\ tl' = h /\ temp_t'[t] = n /\ it'[t] = c + 1 /\ nblk' = nblk
          /\ empty_count'[t] = SSA_BLK - 1 - Ahead(n, h) /\ Ahead(n, h) < SSA_BLK - 1
          /\ Cardinality(Found(c + 1)') = Ahead(n, h)
      BY <1>2, <2>1, <2>2, <2>4, <3>1, <3>4
    <3>6. Found(it[t])' = Found(c + 1)' /\ Filled(tl, temp_t[t], it[t])'
      BY <2>1, <3>5
    <3>7. it'[t] <= nblk' * SSA_BLK
      BY <1>5, <3>5
    <3>8. Ahead(temp_t[t], tl)' = Ahead(n, h)
      BY <3>5
    <3>9. Scan(t)'
      BY <3>1, <3>5, <3>6, <3>7, <3>8 DEF Scan, Filled
    <3> QED BY <3>3, <3>9
  <2> QED BY <2>5, <2>6
<1> QED BY <1>6, <1>7

LEMMA GcStart ==
    ASSUME TypeOK, NEW t \in Threads, Ring(t), GcBegin(t)
    PROVE  Scan(t)'
PROOF
<1>1. PICK h \in Slot : h = tl
  BY DEF TypeOK
<1>2. hd = h /\ tl' = h /\ nblk' = nblk
  BY <1>1 DEF GcBegin, Ring, Goto, ringVars
<1>3. /\ pc'[t] = "gc" /\ temp_t'[t] = h /\ it'[t] = 0 /\ empty_count'[t] = EmptyCount(h, h)
  BY <1>1, <1>2 DEF GcBegin, Goto, TypeOK
<1>4. Ahead(h, h) = 0 /\ EmptyCount(h, h) = SSA_BLK - 1 - 0 /\ \A i \in Slot : Ahead(i, h) \in Nat
  BY AheadForm, AheadEqual
<1>5. Found(it[t])' = {}
  BY <1>3 DEF Found
<1>6. Cardinality(Found(it[t]))' = 0
  BY <1>5, FS_EmptySet
<1>7. it'[t] <= nblk' * SSA_BLK
  BY <1>2, <1>3, AllocatedRange
<1>8. Ahead(temp_t[t], tl)' = 0 /\ 0 < SSA_BLK - 1 /\ \A i \in Slot : ~(Ahead(i, tl) < 0)'
  BY <1>2, <1>3, <1>4, BlkAssumption
<1>9. empty_count'[t] = SSA_BLK - 1 - 0
  BY <1>3, <1>4
<1> QED BY <1>3, <1>6, <1>7, <1>8, <1>9 DEF Scan

LEMMA GcPublish ==
    ASSUME TypeOK, NEW t \in Threads, Ring(t), Scan(t), GcEnd(t)
    PROVE  Ring(t)' /\ Scan(t)'
PROOF
<1>1. PICK h \in Slot, x \in Slot, c \in Nat : h = tl /\ x = temp_t[t] /\ c = it[t]
  BY DEF TypeOK
<1> DEFINE k == Ahead(x, h)
<1>2. /\ pc[t] = "gc" /\ tl' = x /\ c = nblk * SSA_BLK
      /\ UNCHANGED <<q, nblk, hd, idx, ref_count, prot, ssa_ref>>
      /\ pc'[t] = IF empty_count[t] > SSA_GC_THRESHOLD THEN "gc_add" ELSE "gc_unlock"
  BY <1>1 DEF GcEnd, cellVars, TypeOK
<1>3. /\ h = hd /\ idx[t] = hd
      /\ k < SSA_BLK - 1 /\ empty_count[t] = SSA_BLK - 1 - k
      /\ Cardinality(Found(c)) = k /\ Filled(h, x, c) /\ k \in Nat
  BY <1>1, <1>2, AheadEqual DEF Scan, Ring, GcPC, Filled
<1> HIDE DEF k
<1>4. \A d : Unused(d)' <=> Unused(d)
  BY <1>2, UnusedFrame
<1>5. hd' = h /\ tl' = x /\ \A i \in Slot : InRing(i)' <=> Ahead(i, h) < Ahead(x, h)
  BY <1>1, <1>2, <1>3 DEF InRing
<1>6. ASSUME NEW i \in Slot, InRing(i)' PROVE Unused(q[i])'
  <2>1. PICK d : d = q[i]
    OBVIOUS
  <2>2. Unused(d)' /\ d = q'[i]
    BY <1>2, <1>3, <1>4, <1>5, <1>6, <2>1 DEF Filled
  <2> QED BY <2>2
<1>7. Queue'
  BY <1>2, <1>3, <1>5, <1>6 DEF Queue, Filled
<1>8. Ring(t)'
  BY <1>2, <1>3, <1>5, <1>7 DEF Ring, GcPC, Taken
<1>9. Scan(t)'
  <2>1. pc'[t] # "gc"
    BY <1>2
  <2>2. pc'[t] = "gc_add" => SSA_BLK - 1 - k > SSA_BLK \div 2
    BY <1>2, <1>3 DEF SSA_GC_THRESHOLD
  <2>3. pc'[t] = "gc_add" => k < SSA_BLK - 1 - SSA_BLK \div 2
    <3>1. SSA_BLK \div 2 \in Int /\ SSA_BLK \in Int
      BY BlkAssumption
    <3> QED BY <1>3, <2>2, <3>1
  <2>4. Found(nblk * SSA_BLK)' = Found(c)
    BY <1>2 DEF Found, Reclaimable
  <2>5. Cardinality(Found(nblk * SSA_BLK))' = k
    BY <1>3, <2>4
  <2> QED BY <2>1, <2>3, <2>5 DEF Scan
<1> QED BY <1>8, <1>9

(* The cells of a new block were never used. *)
LEMMA NewBlock ==
    ASSUME TypeOK, NEW t \in Threads, Cells(t), AddBlk(t), NEW j \in Slot,
           NEW d, d = nblk * SSA_BLK + j
    PROVE  d \in Cell /\ d \notin Allocated /\ d \in Allocated' /\ Unused(d)'
PROOF
<1>1. /\ nblk < MaxBlocks /\ nblk' = nblk + 1 /\ UNCHANGED <<ref_count, prot, ssa_ref>>
  BY DEF AddBlk, cellVars
<1>2. nblk \in Nat /\ SSA_BLK \in Nat /\ MaxBlocks \in Nat /\ j \in 0 .. SSA_BLK - 1
  BY BlkAssumption, BoundAssumption DEF TypeOK, Slot
<1>3. PICK m \in Nat, n \in Nat, z \in Nat :
         m = nblk * SSA_BLK /\ n = (nblk + 1) * SSA_BLK /\ z = MaxBlocks * SSA_BLK
  BY <1>2
<1>4. n = m + SSA_BLK
  BY <1>2, <1>3
<1>5. n <= z
  <2>1. PICK r \in Nat : MaxBlocks = nblk + 1 + r
    <3>1. MaxBlocks - (nblk + 1) \in Nat /\ MaxBlocks = nblk + 1 + (MaxBlocks - (nblk + 1))
      BY <1>1, <1>2
    <3> QED BY <3>1
  <2>2. (nblk + 1 + r) * SSA_BLK = (nblk + 1) * SSA_BLK + r * SSA_BLK /\ r * SSA_BLK \in Nat
    BY <1>2, <2>1
  <2>3. PICK y \in Nat : y = r * SSA_BLK
    BY <2>2
  <2>4. z = n + y
    BY <1>3, <2>1, <2>2, <2>3
  <2> QED BY <1>3, <2>3, <2>4
<1>6. d \in Nat /\ m <= d /\ d < n /\ d < z
  BY <1>2, <1>3, <1>4, <1>5
<1>7. d \in 0 .. n - 1 /\ d \notin 0 .. m - 1 /\ d \in 0 .. z - 1
  BY <1>3, <1>6
<1>8. d \in Allocated'
  <2>1. Allocated' = 0 .. n - 1
    BY <1>1, <1>3 DEF Allocated
  <2> QED BY <1>7, <2>1
<1>9. d \notin Allocated
  BY <1>3, <1>7 DEF Allocated
<1>10. d \in Cell
  BY <1>3, <1>7 DEF Cell
<1>11. ref_count[d] = UNUSED /\ prot[d] = 0 /\ Refs(d) = {}
  BY <1>9, <1>10 DEF Cells
<1>12. Refs(d)' = {} /\ Reclaimable(d)' /\ prot'[d] = 0
  BY <1>1, <1>11 DEF Refs, Reclaimable
<1>13. Unused(d)'
  BY <1>8, <1>12 DEF Unused
<1> QED BY <1>8, <1>9, <1>10, <1>13

LEMMA RingAdd ==
    ASSUME TypeOK, TypeOK', NEW t \in Threads, Ring(t), Cells(t), AddBlk(t)
    PROVE  Ring(t)'
PROOF
<1>1. PICK h \in Slot, l \in Slot, m \in Nat : h = hd /\ l = tl /\ m = nblk * SSA_BLK
  BY AllocatedRange DEF TypeOK
<1> DEFINE e == EmptyCount(h, l)
           n == (l + e) % SSA_BLK
<1>2. /\ pc[t] = "gc_add" /\ pc'[t] = "gc_unlock" /\ tl' = n /\ q' = FillRing(h, l, nblk)
      /\ hd' = h /\ UNCHANGED <<idx, ref_count, prot, ssa_ref>> /\ nblk' = nblk + 1
  BY <1>1 DEF AddBlk, Goto, cellVars, TypeOK
<1>3. e \in Nat /\ e < SSA_BLK /\ n \in Slot /\ Ahead(n, h) = SSA_BLK - 1
  BY AheadFill
<1>4. \A i \in Slot : /\ Ahead(i, h) < Ahead(l, h) => ~(Ahead(i, l) < e)
                      /\ ~(Ahead(i, h) < Ahead(l, h)) /\ Ahead(i, h) < SSA_BLK - 1 => Ahead(i, l) < e
  BY AheadFill
<1>5. \A i \in Slot : q'[i] = IF Ahead(i, l) < e THEN m + Ahead(i, l) ELSE q[i]
  BY <1>1, <1>2 DEF FillRing
<1> HIDE DEF e, n
<1>6. \A i \in Slot : InRing(i)' <=> Ahead(i, h) < SSA_BLK - 1
  BY <1>2, <1>3 DEF InRing
<1>7. \A i \in Slot : InRing(i) <=> Ahead(i, h) < Ahead(l, h)
  BY <1>1 DEF InRing
<1>8. \A i \in Slot : Ahead(i, l) \in Slot /\ Ahead(i, l) \in Nat
  BY AheadForm DEF Slot
<1>9. Allocated \subseteq Allocated' /\ \A d : Refs(d)' = Refs(d) /\ (Reclaimable(d)' <=> Reclaimable(d))
  BY <1>2, Grows DEF Refs, Reclaimable
<1>10. ASSUME NEW i \in Slot, Ahead(i, l) < e
       PROVE  Unused(q[i])' /\ q'[i] = m + Ahead(i, l) /\ q'[i] \notin Allocated
  <2>1. PICK d : d = m + Ahead(i, l)
    OBVIOUS
  <2>2. Unused(d)' /\ d \notin Allocated
    BY <1>1, <1>8, <2>1, NewBlock
  <2>3. q'[i] = d
    BY <1>5, <1>10, <2>1
  <2> QED BY <2>1, <2>2, <2>3
<1>11. ASSUME NEW i \in Slot, ~(Ahead(i, l) < e), InRing(i)'
       PROVE  Unused(q[i])' /\ q'[i] = q[i] /\ InRing(i) /\ q'[i] \in Allocated
  <2>1. PICK d : d = q[i]
    OBVIOUS
  <2>2. InRing(i)
    BY <1>4, <1>6, <1>7, <1>11
  <2>3. Unused(d) /\ q'[i] = d
    BY <1>5, <1>11, <2>1, <2>2 DEF Ring, Queue
  <2>4. Unused(d)'
    BY <1>2, <1>9, <2>3 DEF Unused
  <2> QED BY <2>1, <2>2, <2>3, <2>4 DEF Unused
<1>12. ASSUME NEW i \in Slot, NEW j \in Slot, InRing(i)', InRing(j)', q'[i] = q'[j] PROVE i = j
  <2>1. Ahead(i, l) < e <=> Ahead(j, l) < e
    BY <1>10, <1>11, <1>12
  <2>2. CASE Ahead(i, l) < e
    <3>1. m + Ahead(i, l) = m + Ahead(j, l)
      BY <1>10, <1>12, <2>1, <2>2
    <3>2. Ahead(i, l) = Ahead(j, l)
      BY <1>8, <3>1
    <3> QED BY <3>2, AheadEqual
  <2>3. CASE ~(Ahead(i, l) < e)
    BY <1>11, <1>12, <2>1, <2>3 DEF Ring, Queue
  <2> QED BY <2>2, <2>3
<1>13. Queue'
  BY <1>10, <1>11, <1>12 DEF Queue
<1>14. idx'[t] = hd'
  BY <1>1, <1>2 DEF Ring, GcPC
<1> QED BY <1>2, <1>13, <1>14 DEF Ring, GcPC, Taken

-----------------------------------------------------------------------------
(* The answers of the worker.                                              *)

LEMMA AnswerRun ==
    ASSUME NEW t \in Threads, Answer(t), call'[t] = call[t], pc'[t] \in {"run", "idle", "off"}
    PROVE  Answer(t)'
BY DEF Answer, Holding, GcPC

LEMMA AnswerWalk ==
    ASSUME NEW t \in Threads, Answer(t), UNCHANGED <<ssa_ref, bdd, res, call>>,
           pc[t] \in Holding \cup {"compare"}, pc'[t] \in Holding
    PROVE  Answer(t)'
BY DEF Answer, Holding, GcPC

(* A cell a tag points to holds a set of offsets that is not empty. *)
LEMMA TaggedSet ==
    ASSUME TypeOK, NEW t \in Threads, Cells(t), NEW x \in Tags, ssa_ref[x] # NULL
    PROVE  /\ ssa_ref[x] \in Cell /\ bdd[ssa_ref[x]] \in SUBSET Offsets
           /\ bdd[ssa_ref[x]] \notin {Junk, {}}
PROOF
<1>1. ssa_ref[x] \in Cell /\ Refs(ssa_ref[x]) # {}
  BY DEF TypeOK, Refs
<1>2. bdd[ssa_ref[x]] \in Bdd /\ bdd[ssa_ref[x]] \notin {Junk, {}}
  BY <1>1 DEF TypeOK, Cells
<1> QED BY <1>1, <1>2 DEF Bdd

LEMMA AnswerCombine ==
    ASSUME TypeOK, NEW t \in Threads, Answer(t), Cells(t), OperandsLive, CombineCall(t)
    PROVE  Answer(t)'
PROOF
<1> DEFINE a == ssa_ref[call[t].dst]
           b == ssa_ref[call[t].src]
<1>1. /\ pc[t] = "call" /\ pc'[t] = "compare" /\ res'[t] = Union(bdd[a], bdd[b])
      /\ UNCHANGED <<ssa_ref, bdd, call>>
  BY DEF CombineCall, Goto, cellVars, TypeOK
<1>2. call[t].op = "combine" /\ call[t].dst \in RegTag(t) /\ call[t].src \in RegTag(t)
  BY <1>1 DEF Answer
<1>3. call[t].dst \in Tags /\ call[t].src \in Tags
  BY <1>2, OwnTags DEF TagsOf, RegTag
<1>4. a # NULL /\ b # NULL
  BY <1>1 DEF OperandsLive
<1>5. bdd[a] # Junk /\ bdd[b] # Junk
  BY <1>3, <1>4, TaggedSet
<1>6. res'[t] = bdd[a] \cup bdd[b]
  BY <1>1, <1>5 DEF Union
<1> QED BY <1>1, <1>2, <1>4, <1>6 DEF Answer, Holding, GcPC

LEMMA AnswerMark ==
    ASSUME TypeOK, NEW t \in Threads, Answer(t), Cells(t), MarkVictim(t)
    PROVE  Answer(t)'
PROOF
<1> DEFINE a == ssa_ref[call[t].dst]
           b == ssa_ref[call[t].src]
<1>1. /\ pc[t] = "mark" /\ pc'[t] = IF call[t].op = "alloc" THEN "cube" ELSE "fill"
      /\ UNCHANGED <<ssa_ref, bdd, res, call>>
  BY DEF MarkVictim, TypeOK
<1>2. CASE call[t].op = "alloc"
  BY <1>1, <1>2 DEF Answer, Holding, GcPC
<1>3. CASE call[t].op # "alloc"
  <2>1. /\ call[t].op = "combine" /\ call[t].dst \in RegTag(t) /\ call[t].src \in RegTag(t)
        /\ a # NULL /\ b # NULL /\ res[t] = bdd[a] \cup bdd[b]
    BY <1>1, <1>3 DEF Answer, Holding
  <2>2. call[t].dst \in Tags /\ call[t].src \in Tags
    BY <2>1, OwnTags DEF TagsOf, RegTag
  <2>3. bdd[a] \in SUBSET Offsets /\ bdd[a] # {} /\ bdd[b] \in SUBSET Offsets
    BY <2>1, <2>2, TaggedSet
  <2>4. res[t] \in SUBSET Offsets /\ res[t] # {}
    BY <2>1, <2>3
  <2>5. res[t] # Junk
    BY <2>4, JunkAssumption
  <2> QED BY <1>1, <1>3, <2>1, <2>4, <2>5 DEF Answer, Holding, GcPC
<1> QED BY <1>2, <1>3

LEMMA AnswerAlloc ==
    ASSUME TypeOK, NEW t \in Threads, Answer(t), OperandsLive, AllocCall(t)
    PROVE  Answer(t)'
PROOF
<1>1. /\ pc[t] = "cube" /\ pc'[t] = "fill" /\ res'[t] = {call[t].off} /\ call' = call
  BY DEF AllocCall, Goto, TypeOK
<1>2. call[t].op = "alloc" /\ call[t].off \in Offsets
  BY <1>1 DEF OperandsLive, TypeOK, Call
<1>3. {call[t].off} # Junk /\ {call[t].off} # {}
  BY <1>2, JunkAssumption
<1> QED BY <1>1, <1>2, <1>3 DEF Answer, Holding, GcPC

LEMMA AnswerFinish ==
    ASSUME TypeOK, NEW t \in Threads, Finish(t)
    PROVE  Answer(t)'
PROOF
<1>1. call'[t] = NoCall(t) /\ pc'[t] \in {"off", "idle"}
  BY DEF Finish, TypeOK
<1> QED BY <1>1 DEF NoCall, Answer, Holding, GcPC

-----------------------------------------------------------------------------
(* The cache of a thread.                                                  *)

LEMMA QuietCoherent ==
    ASSUME NEW t \in Threads, CacheInv(t), todo[t] = <<>>, pc[t] # "run"
    PROVE  Coherent(t)
BY DEF CacheInv, Filling

LEMMA CacheQuiet ==
    ASSUME NEW t \in Threads, Coherent(t), UNCHANGED <<ssa_ref, bdd>>,
           todo'[t] = <<>>, pc'[t] \notin {"off", "run"}
    PROVE  CacheInv(t)'
PROOF
<1>1. Len(todo'[t]) = 0
  OBVIOUS
<1>2. Coherent(t)'
  BY DEF Coherent
<1> QED BY <1>1, <1>2 DEF CacheInv

(* An operation that does not write the cache. *)
LEMMA CachePlain ==
    ASSUME NEW t \in Threads, Coherent(t)', pc'[t] = "run", call'[t].op # "fini",
           \A i \in 1 .. Len(todo'[t]) : ~Fills(t, todo'[t], i)
    PROVE  CacheInv(t)'
BY DEF CacheInv

LEMMA CacheFini ==
    ASSUME NEW t \in Threads, pc'[t] = "run", call'[t].op = "fini",
           Good(t, call'[t], todo'[t]), \A x \in CacheTags(t) : ToCome(t, x)'
    PROVE  CacheInv(t)'
PROOF
<1>1. \A i \in 1 .. Len(todo'[t]) : ~Fills(t, todo'[t], i)
  BY DEF Good, Program, Caches, Fills
<1> QED BY <1>1 DEF CacheInv

(* An operation that fills the cache with v. *)
LEMMA CacheFilled ==
    ASSUME NEW t \in Threads, NEW v, pc'[t] = "run", call'[t].op = "combine",
           CacheProgram(t, call'[t], todo'[t], v),
           ssa_ref'[v] # NULL, ssa_ref'[call'[t].dst] # NULL, ssa_ref'[call'[t].src] # NULL,
           bdd'[ssa_ref'[v]] = bdd'[ssa_ref'[call'[t].dst]] \cup bdd'[ssa_ref'[call'[t].src]]
    PROVE  CacheInv(t)'
PROOF
<1>1. /\ \A i \in 1 .. Len(todo'[t]) : Fills(t, todo'[t], i) => todo'[t][i].b = v
      /\ Filling(t)' /\ ToCome(t, cl(t))' /\ ToCome(t, cr(t))'
  BY DEF CacheProgram, Filling, ToCome
<1> QED BY <1>1 DEF CacheInv

(* A step on a count leaves the pointers and the sets alone. *)
LEMMA CacheTail ==
    ASSUME TypeOK, NEW t \in Threads, CacheInv(t), todo[t] # <<>>, todo[t][1].op \in {"inc", "dec"},
           todo'[t] = Tail(todo[t]), UNCHANGED <<ssa_ref, bdd>>, pc'[t] = pc[t], call'[t] = call[t]
    PROVE  CacheInv(t)'
PROOF
<1> DEFINE s == todo[t]
           r == todo'[t]
<1>1. s \in Seq(MicroOp(t)) /\ s # <<>> /\ s[1].op \notin Setting /\ r = Tail(s)
  BY DEF TypeOK, Setting
<1> HIDE DEF s, r
<1>2. /\ Len(s) \in Nat \ {0} /\ Len(r) = Len(s) - 1
      /\ \A i \in 1 .. Len(r) : i + 1 \in 1 .. Len(s) /\ r[i] = s[i + 1]
  BY <1>1, TailFacts
<1>3. ASSUME NEW i \in 1 .. Len(s), s[i].op \in Setting
      PROVE  i - 1 \in 1 .. Len(r) /\ r[i - 1] = s[i]
  <2>1. i # 1
    BY <1>1, <1>3
  <2>2. i - 1 \in 1 .. Len(r) /\ (i - 1) + 1 = i
    BY <1>2, <2>1
  <2> QED BY <1>2, <2>2
<1>4. \A x : ToCome(t, x)' <=> ToCome(t, x)
  <2>1. ASSUME NEW x, ToCome(t, x) PROVE ToCome(t, x)'
    <3>1. PICK i \in 1 .. Len(s) : s[i].op \in Setting /\ s[i].a = x
      BY <2>1 DEF ToCome, s
    <3>2. i - 1 \in 1 .. Len(r) /\ r[i - 1].op \in Setting /\ r[i - 1].a = x
      BY <1>3, <3>1
    <3> QED BY <3>2 DEF ToCome, r
  <2>2. ASSUME NEW x, ToCome(t, x)' PROVE ToCome(t, x)
    <3>1. PICK i \in 1 .. Len(r) : r[i].op \in Setting /\ r[i].a = x
      BY <2>2 DEF ToCome, r
    <3>2. i + 1 \in 1 .. Len(s) /\ s[i + 1].op \in Setting /\ s[i + 1].a = x
      BY <1>2, <3>1
    <3> QED BY <3>2 DEF ToCome, s
  <2> QED BY <2>1, <2>2
<1>5. Filling(t) => Filling(t)'
  <2>1. SUFFICES ASSUME Filling(t) PROVE Filling(t)'
    OBVIOUS
  <2>2. PICK i \in 1 .. Len(s) : Fills(t, s, i)
    BY <2>1 DEF Filling, s
  <2>3. i - 1 \in 1 .. Len(r) /\ Fills(t, r, i - 1)
    BY <1>3, <2>2 DEF Fills, Setting
  <2> QED BY <2>3 DEF Filling, r
<1>6. Coherent(t)' <=> Coherent(t)
  BY DEF Coherent
<1>7. ASSUME NEW i \in 1 .. Len(r), Fills(t, r, i)
      PROVE  LET v == r[i].b  d == call'[t].dst  b == call'[t].src IN
             /\ ssa_ref'[v] # NULL /\ ssa_ref'[d] # NULL /\ ssa_ref'[b] # NULL
             /\ bdd'[ssa_ref'[v]] = bdd'[ssa_ref'[d]] \cup bdd'[ssa_ref'[b]]
             /\ ToCome(t, cl(t))' \/ ssa_ref'[cl(t)] = ssa_ref'[d]
             /\ ToCome(t, cr(t))' \/ ssa_ref'[cr(t)] = ssa_ref'[b]
  <2>1. i + 1 \in 1 .. Len(s) /\ Fills(t, s, i + 1) /\ s[i + 1].b = r[i].b
    BY <1>2, <1>7 DEF Fills
  <2>2. LET v == s[i + 1].b  d == call[t].dst  b == call[t].src IN
             /\ ssa_ref[v] # NULL /\ ssa_ref[d] # NULL /\ ssa_ref[b] # NULL
             /\ bdd[ssa_ref[v]] = bdd[ssa_ref[d]] \cup bdd[ssa_ref[b]]
             /\ ToCome(t, cl(t)) \/ ssa_ref[cl(t)] = ssa_ref[d]
             /\ ToCome(t, cr(t)) \/ ssa_ref[cr(t)] = ssa_ref[b]
    BY <2>1 DEF CacheInv, s
  <2> QED BY <1>4, <2>1, <2>2
<1>8. ~Filling(t)' /\ ~(pc'[t] = "run" /\ call'[t].op = "fini") => Coherent(t)'
  BY <1>5, <1>6 DEF CacheInv
<1>9. /\ pc'[t] = "off" => \A x \in CacheTags(t) : ssa_ref'[x] = NULL
      /\ pc'[t] = "run" /\ call'[t].op = "fini" =>
            \A x \in CacheTags(t) : ssa_ref'[x] = NULL \/ ToCome(t, x)'
  BY <1>4 DEF CacheInv
<1> QED BY <1>7, <1>8, <1>9 DEF CacheInv, r

LEMMA CacheSet ==
    ASSUME TypeOK, NEW t \in Threads, CacheInv(t), Pending(t), Answer(t), SetPointer(t)
    PROVE  CacheInv(t)'
PROOF
<1> DEFINE s == todo[t]
           r == todo'[t]
           d == call[t].dst
           b == call[t].src
           a == s[1].a
<1>1. /\ pc[t] = "run" /\ s # <<>> /\ s \in Seq(MicroOp(t)) /\ s[1].op \in Setting
      /\ r = Tail(s) /\ UNCHANGED <<bdd, pc, call>> /\ a \in Tags
      /\ \A x \in Tags : x # a /\ (s[1].op = "move" => x # tmp(t)) => ssa_ref'[x] = ssa_ref[x]
      /\ s[1].op = "copy" => ssa_ref'[a] = ssa_ref[s[1].b]
      /\ s[1].op = "null" => ssa_ref'[a] = NULL
  BY PointerSet DEF cellVars
<1>2. /\ Len(s) \in Nat \ {0} /\ Len(r) = Len(s) - 1
      /\ \A i \in 1 .. Len(r) : i + 1 \in 1 .. Len(s) /\ r[i] = s[i + 1]
  BY <1>1, TailFacts
<1>3. /\ Program(t, call[t], s)
      /\ \A x \in CacheTags(t) : x \in Tags /\ x # tmp(t)
      /\ cl(t) # cr(t) /\ cl(t) # cv(t) /\ cr(t) # cv(t)
      /\ call[t].op = "combine" => d \in RegTag(t) /\ b \in RegTag(t)
      /\ \A x \in RegTag(t) : x \in Tags /\ x \notin CacheTags(t) /\ x # tmp(t)
  <2>1. Program(t, call[t], s)
    BY DEF Pending
  <2>2. call[t].op = "combine" => d \in RegTag(t) /\ b \in RegTag(t)
    BY DEF Answer
  <2>3. \A x \in CacheTags(t) : x \in Tags /\ x # tmp(t)
    BY OwnTags, OwnApart DEF CacheTags
  <2>4. \A x \in RegTag(t) : x \in Tags /\ x \notin CacheTags(t) /\ x # tmp(t)
    BY OwnTags, OwnApart
  <2> QED BY <2>1, <2>2, <2>3, <2>4, OwnApart
<1>4. \A i \in 1 .. Len(s) : Fills(t, s, i) =>
          LET v == s[i].b IN
          /\ ssa_ref[v] # NULL /\ ssa_ref[d] # NULL /\ ssa_ref[b] # NULL
          /\ bdd[ssa_ref[v]] = bdd[ssa_ref[d]] \cup bdd[ssa_ref[b]]
          /\ ToCome(t, cl(t)) \/ ssa_ref[cl(t)] = ssa_ref[d]
          /\ ToCome(t, cr(t)) \/ ssa_ref[cr(t)] = ssa_ref[b]
  BY DEF CacheInv
<1>5. \A x : ToCome(t, x) <=> \E i \in 1 .. Len(s) : s[i].op \in Setting /\ s[i].a = x
  BY DEF ToCome
<1>6. \A x : ToCome(t, x)' <=> \E i \in 1 .. Len(r) : r[i].op \in Setting /\ r[i].a = x
  BY DEF ToCome
<1>7. Filling(t)' <=> \E i \in 1 .. Len(r) : Fills(t, r, i)
  BY DEF Filling
<1>8. Filling(t) <=> \E i \in 1 .. Len(s) : Fills(t, s, i)
  BY DEF Filling
<1>9. /\ ~Filling(t) /\ call[t].op # "fini" => Coherent(t)
      /\ call[t].op = "fini" => \A x \in CacheTags(t) : ssa_ref[x] = NULL \/ ToCome(t, x)
  BY <1>1 DEF CacheInv
<1>10. CacheInv(t)' <=>
        /\ ~Filling(t)' /\ call[t].op # "fini" => Coherent(t)'
        /\ \A i \in 1 .. Len(r) : Fills(t, r, i) =>
              LET v == r[i].b IN
              /\ ssa_ref'[v] # NULL /\ ssa_ref'[d] # NULL /\ ssa_ref'[b] # NULL
              /\ bdd[ssa_ref'[v]] = bdd[ssa_ref'[d]] \cup bdd[ssa_ref'[b]]
              /\ ToCome(t, cl(t))' \/ ssa_ref'[cl(t)] = ssa_ref'[d]
              /\ ToCome(t, cr(t))' \/ ssa_ref'[cr(t)] = ssa_ref'[b]
        /\ call[t].op = "fini" => \A x \in CacheTags(t) : ssa_ref'[x] = NULL \/ ToCome(t, x)'
  BY <1>1 DEF CacheInv
<1> HIDE DEF s, r, d, b, a
<1>11. \A i \in 1 .. Len(s) : i # 1 => i - 1 \in 1 .. Len(r) /\ r[i - 1] = s[i]
  <2>1. ASSUME NEW i \in 1 .. Len(s), i # 1 PROVE i - 1 \in 1 .. Len(r) /\ r[i - 1] = s[i]
    <3>1. i - 1 \in 1 .. Len(r) /\ (i - 1) + 1 = i
      BY <1>2, <2>1
    <3> QED BY <1>2, <3>1
  <2> QED BY <2>1
<1>12. \A i \in 1 .. Len(r) : Fills(t, r, i) => i + 1 \in 1 .. Len(s) /\ i + 1 > 1 /\ Fills(t, s, i + 1) /\ r[i].b = s[i + 1].b
  <2>1. ASSUME NEW i \in 1 .. Len(r), Fills(t, r, i)
        PROVE  i + 1 \in 1 .. Len(s) /\ i + 1 > 1 /\ Fills(t, s, i + 1) /\ r[i].b = s[i + 1].b
    <3>1. i + 1 \in 1 .. Len(s) /\ r[i] = s[i + 1]
      BY <1>2
    <3>2. i + 1 > 1
      OBVIOUS
    <3> QED BY <2>1, <3>1, <3>2 DEF Fills
  <2> QED BY <2>1
<1>13. \A x : x # a /\ ToCome(t, x) => ToCome(t, x)'
  <2>1. ASSUME NEW x, x # a, ToCome(t, x) PROVE ToCome(t, x)'
    <3>1. PICK i \in 1 .. Len(s) : s[i].op \in Setting /\ s[i].a = x
      BY <1>5, <2>1
    <3>2. i # 1
      BY <2>1, <3>1 DEF a
    <3> QED BY <1>6, <1>11, <3>1, <3>2
  <2> QED BY <2>1
<1>14. 1 \in 1 .. Len(s)
  BY <1>2
<1>15. Caches(t, call[t], s, 1) /\ \A i \in 1 .. Len(s) : Fills(t, s, i) => Caches(t, call[t], s, i)
  BY <1>3, <1>14 DEF Program
<1>16. CASE call[t].op = "fini"
  <2>1. \A i \in 1 .. Len(s) : ~Fills(t, s, i)
    BY <1>3, <1>16 DEF Program, Caches, Fills
  <2>2. \A i \in 1 .. Len(r) : ~Fills(t, r, i)
    BY <1>12, <2>1
  <2>3. s[1].op = "null"
    BY <1>1, <1>15, <1>16 DEF Caches, Setting
  <2>4. ASSUME NEW x \in CacheTags(t) PROVE ssa_ref'[x] = NULL \/ ToCome(t, x)'
    <3>1. CASE x = a
      BY <1>1, <2>3, <3>1
    <3>2. CASE x # a
      BY <1>1, <1>3, <1>9, <1>13, <1>16, <2>3, <3>2
    <3> QED BY <3>1, <3>2
  <2> QED BY <1>10, <1>16, <2>2, <2>4
<1>17. CASE call[t].op # "fini" /\ a \notin CacheTags(t)
  <2>1. ASSUME NEW i \in 1 .. Len(s), Fills(t, s, i) PROVE FALSE
    <3>1. i # 1
      BY <1>17, <2>1 DEF Fills, CacheTags, a
    <3>2. 1 < i
      BY <1>2, <3>1
    <3>3. s[1].a \in {cl(t), cr(t)}
      BY <1>1, <1>14, <1>15, <2>1, <3>2 DEF Caches
    <3> QED BY <1>17, <3>3 DEF CacheTags, a
  <2>2. \A i \in 1 .. Len(r) : ~Fills(t, r, i)
    BY <1>12, <2>1
  <2>3. Coherent(t)
    BY <1>8, <1>9, <1>17, <2>1
  <2>4. \A x \in CacheTags(t) : ssa_ref'[x] = ssa_ref[x]
    BY <1>1, <1>3, <1>17
  <2>5. Coherent(t)'
    BY <1>1, <2>3, <2>4 DEF Coherent, CacheTags
  <2> QED BY <1>10, <1>17, <2>2, <2>5
<1>18. CASE call[t].op # "fini" /\ a \in CacheTags(t)
  <2>1. /\ call[t].op = "combine" /\ s[1].op = "copy"
        /\ a = cl(t) => s[1].b = d
        /\ a = cr(t) => s[1].b = b
    BY <1>1, <1>15, <1>18 DEF Caches, a, d, b
  <2>2. PICK f \in 1 .. Len(s) : Fills(t, s, f)
    <3>1. \E j \in 1 .. Len(s) : Fills(t, s, j)
      BY <1>1, <1>15, <1>18 DEF Caches, a
    <3> QED BY <3>1
  <2>3. /\ \A x \in Tags : x # a => ssa_ref'[x] = ssa_ref[x]
        /\ ssa_ref'[a] = ssa_ref[s[1].b]
        /\ ssa_ref'[d] = ssa_ref[d] /\ ssa_ref'[b] = ssa_ref[b]
    BY <1>1, <1>3, <1>18, <2>1
  <2>4. CASE a = cv(t)
    <3>1. Fills(t, s, 1)
      BY <2>1, <2>4 DEF Fills, a
    <3>2. \A j \in 1 .. Len(s) : j > 1 /\ s[j].op \in Setting => s[j].a \notin CacheTags(t)
      BY <1>14, <1>15, <3>1 DEF Caches
    <3>3. \A i \in 1 .. Len(r) : ~Fills(t, r, i)
      BY <1>12, <3>2 DEF Fills, CacheTags, Setting
    <3>4. ASSUME NEW x \in {cl(t), cr(t)} PROVE ~ToCome(t, x)
      <4>1. ASSUME NEW j \in 1 .. Len(s), s[j].op \in Setting, s[j].a = x PROVE FALSE
        <5>1. j = 1 \/ j > 1
          BY <1>2
        <5>2. CASE j = 1
          BY <1>3, <2>4, <4>1, <5>2 DEF a
        <5>3. CASE j > 1
          BY <3>2, <4>1, <5>3 DEF CacheTags
        <5> QED BY <5>1, <5>2, <5>3
      <4> QED BY <1>5, <4>1
    <3>5. /\ ssa_ref[d] # NULL /\ ssa_ref[b] # NULL /\ ssa_ref[cl(t)] = ssa_ref[d] /\ ssa_ref[cr(t)] = ssa_ref[b]
          /\ bdd[ssa_ref[s[1].b]] = bdd[ssa_ref[d]] \cup bdd[ssa_ref[b]]
      BY <1>4, <1>14, <3>1, <3>4
    <3>6. ssa_ref'[cl(t)] = ssa_ref[cl(t)] /\ ssa_ref'[cr(t)] = ssa_ref[cr(t)]
      BY <1>3, <2>3, <2>4 DEF CacheTags
    <3>7. Coherent(t)'
      BY <1>1, <2>3, <2>4, <3>5, <3>6 DEF Coherent
    <3> QED BY <1>10, <1>18, <3>3, <3>7
  <2>5. CASE a # cv(t)
    <3>1. f # 1
      BY <2>2, <2>5 DEF Fills, a
    <3>2. Filling(t)'
      BY <1>7, <1>11, <2>2, <3>1 DEF Fills
    <3>3. ASSUME NEW i \in 1 .. Len(r), Fills(t, r, i)
          PROVE  LET v == r[i].b IN
                 /\ ssa_ref'[v] # NULL /\ ssa_ref'[d] # NULL /\ ssa_ref'[b] # NULL
                 /\ bdd[ssa_ref'[v]] = bdd[ssa_ref'[d]] \cup bdd[ssa_ref'[b]]
                 /\ ToCome(t, cl(t))' \/ ssa_ref'[cl(t)] = ssa_ref'[d]
                 /\ ToCome(t, cr(t))' \/ ssa_ref'[cr(t)] = ssa_ref'[b]
      <4>1. PICK v : v = r[i].b
        OBVIOUS
      <4>2. i + 1 \in 1 .. Len(s) /\ Fills(t, s, i + 1) /\ v = s[i + 1].b
        BY <1>12, <3>3, <4>1
      <4>3. /\ ssa_ref[v] # NULL /\ ssa_ref[d] # NULL /\ ssa_ref[b] # NULL
            /\ bdd[ssa_ref[v]] = bdd[ssa_ref[d]] \cup bdd[ssa_ref[b]]
            /\ ToCome(t, cl(t)) \/ ssa_ref[cl(t)] = ssa_ref[d]
            /\ ToCome(t, cr(t)) \/ ssa_ref[cr(t)] = ssa_ref[b]
        BY <1>4, <4>2
      <4>4. v \in {d, b, tmp(t)}
        <5>1. Caches(t, call[t], s, i + 1) /\ s[i + 1].op = "copy" /\ s[i + 1].a = cv(t)
          BY <1>15, <4>2 DEF Fills
        <5> QED BY <1>18, <4>2, <5>1 DEF Caches, CacheTags, Setting, d, b
      <4>5. ssa_ref'[v] = ssa_ref[v]
        <5>1. tmp(t) \in Tags
          BY OwnTags
        <5> QED BY <1>3, <1>18, <2>1, <2>3, <4>4, <5>1
      <4>6. ToCome(t, cl(t))' \/ ssa_ref'[cl(t)] = ssa_ref'[d]
        <5>1. CASE a = cl(t)
          BY <2>1, <2>3, <5>1
        <5>2. CASE a # cl(t)
          BY <1>3, <1>13, <2>3, <4>3, <5>2 DEF CacheTags
        <5> QED BY <5>1, <5>2
      <4>7. ToCome(t, cr(t))' \/ ssa_ref'[cr(t)] = ssa_ref'[b]
        <5>1. CASE a = cr(t)
          BY <2>1, <2>3, <5>1
        <5>2. CASE a # cr(t)
          BY <1>3, <1>13, <2>3, <4>3, <5>2 DEF CacheTags
        <5> QED BY <5>1, <5>2
      <4> QED BY <2>3, <4>1, <4>3, <4>5, <4>6, <4>7
    <3> QED BY <1>10, <1>18, <3>2, <3>3
  <2> QED BY <2>4, <2>5
<1> QED BY <1>16, <1>17, <1>18

LEMMA CacheFinish ==
    ASSUME TypeOK, NEW t \in Threads, CacheInv(t), Finish(t)
    PROVE  CacheInv(t)'
PROOF
<1>1. /\ pc[t] = "run" /\ todo[t] = <<>> /\ UNCHANGED <<ssa_ref, bdd, todo>>
      /\ pc'[t] = IF call[t].op = "fini" THEN "off" ELSE "idle"
  BY DEF Finish, cellVars, TypeOK
<1>2. Len(todo[t]) = 0 /\ Len(todo'[t]) = 0
  BY <1>1
<1>3. ~Filling(t) /\ \A x : ~ToCome(t, x)
  BY <1>2 DEF Filling, ToCome
<1>4. CASE call[t].op = "fini"
  <2>1. \A x \in CacheTags(t) : ssa_ref'[x] = NULL
    BY <1>1, <1>3, <1>4 DEF CacheInv
  <2>2. Coherent(t)'
    BY <2>1 DEF Coherent, CacheTags
  <2> QED BY <1>1, <1>2, <1>4, <2>1, <2>2 DEF CacheInv
<1>5. CASE call[t].op # "fini"
  <2>1. Coherent(t)
    BY <1>3, <1>5 DEF CacheInv
  <2> QED BY <1>1, <1>5, <2>1, CacheQuiet
<1> QED BY <1>4, <1>5

(* Only a combination writes the value of the cache. *)
LEMMA NoFills ==
    ASSUME NEW t \in Threads, NEW c, NEW s, Program(t, c, s), c.op # "combine"
    PROVE  \A i \in 1 .. Len(s) : ~Fills(t, s, i)
BY DEF Program, Caches, Fills, CacheTags, Setting

-----------------------------------------------------------------------------
(* The invariant of a program with the one thread t.                       *)
CellInv(t) ==
    /\ Pending(t) /\ Counts(t) /\ Cells(t) /\ Ring(t)
    /\ Scan(t) /\ Answer(t) /\ CacheInv(t)

(* An operation that begins away from the ring. *)
LEMMA Starts ==
    ASSUME TypeOK, TypeOK', NEW t \in Threads, CellInv(t), todo[t] = <<>>,
           pc[t] \notin Taken, pc'[t] \notin Walking,
           UNCHANGED <<cellVars, ringVars, ssa_ref, ld>>,
           todo'[t] = <<>> \/ (pc'[t] = "run" /\ Good(t, call'[t], todo'[t]))
    PROVE  Pending(t)' /\ Counts(t)' /\ Cells(t)' /\ Ring(t)' /\ Scan(t)'
PROOF
<1>1. Pending(t)'
  BY PendingBegin DEF CellInv
<1>2. Counts(t)'
  <2>1. UNCHANGED <<ref_count, ssa_ref>> /\ pc'[t] \notin Taken
    BY DEF cellVars, Walking
  <2>2. todo'[t] = <<>> \/ Begins(todo'[t], 1)
    BY DEF Good
  <2> QED BY <2>1, <2>2, CountsBegin DEF CellInv
<1>3. Cells(t)'
  BY CellsFrame DEF CellInv, ringVars
<1>4. Ring(t)'
  <2>1. UNCHANGED <<q, hd, tl, nblk, ref_count, prot, ssa_ref>>
    BY DEF cellVars, ringVars
  <2> QED BY <2>1, RingSame DEF CellInv
<1>5. Scan(t)'
  BY DEF Scan, Walking, GcPC
<1> QED BY <1>1, <1>2, <1>3, <1>4, <1>5

(* ... and that leaves the cache alone. *)
LEMMA StartsPlain ==
    ASSUME TypeOK, TypeOK', NEW t \in Threads, CellInv(t), todo[t] = <<>>, pc[t] # "run",
           pc[t] \notin Taken, pc'[t] \notin Walking \cup {"off"},
           UNCHANGED <<cellVars, ringVars, ssa_ref, ld>>,
           \/ todo'[t] = <<>> /\ pc'[t] # "run"
           \/ /\ pc'[t] = "run" /\ Good(t, call'[t], todo'[t]) /\ call'[t].op # "fini"
              /\ \A i \in 1 .. Len(todo'[t]) : ~Fills(t, todo'[t], i),
           Answer(t)'
    PROVE  CellInv(t)'
PROOF
<1>1. Pending(t)' /\ Counts(t)' /\ Cells(t)' /\ Ring(t)' /\ Scan(t)'
  BY Starts
<1>2. Coherent(t) /\ Coherent(t)' /\ UNCHANGED <<ssa_ref, bdd>>
  <2>1. Coherent(t)
    BY QuietCoherent DEF CellInv
  <2> QED BY <2>1 DEF Coherent, cellVars
<1>3. CacheInv(t)'
  <2>1. CASE todo'[t] = <<>> /\ pc'[t] # "run"
    BY <1>2, <2>1, CacheQuiet
  <2>2. CASE ~(todo'[t] = <<>> /\ pc'[t] # "run")
    BY <1>2, <2>2, CachePlain
  <2> QED BY <2>1, <2>2
<1> QED BY <1>1, <1>3 DEF CellInv

LEMMA RequestKeeps ==
    ASSUME TypeOK, TypeOK', NEW t \in Threads, CellInv(t), Request(t)
    PROVE  CellInv(t)'
PROOF
<1>1. ASSUME NEW to, NEW c, NEW steps, Begin(t, to, c, steps)
      PROVE  /\ pc[t] = "idle" /\ pc'[t] = to /\ call'[t] = c /\ todo'[t] = steps
             /\ UNCHANGED <<cellVars, ringVars, ssa_ref, ld>>
             /\ todo[t] = <<>> /\ pc[t] \notin Taken
  <2>1. /\ pc[t] = "idle" /\ pc'[t] = to /\ call'[t] = c /\ todo'[t] = steps
        /\ UNCHANGED <<cellVars, ringVars, ssa_ref, ld>>
    BY <1>1 DEF Begin, Goto, TypeOK
  <2>2. todo[t] = <<>>
    BY <2>1, NothingToDo DEF CellInv
  <2> QED BY <2>1, <2>2 DEF Taken
<1>2. "run" \notin Walking \cup {"off"} /\ "idle" \notin Walking \cup {"off"}
      /\ "head" \notin Walking \cup {"off"} /\ "combine" \notin Walking \cup {"off"}
  BY DEF Walking, GcPC, Taken
<1>3. ASSUME NEW c, NEW s, Begin(t, "run", c, s), Good(t, c, s),
             c.op \notin {"fini", "combine", "alloc"}
      PROVE  CellInv(t)'
  <2>1. \A i \in 1 .. Len(s) : ~Fills(t, s, i)
    BY <1>3, NoFills DEF Good
  <2>2. /\ pc[t] = "idle" /\ pc'[t] = "run" /\ call'[t] = c /\ todo'[t] = s
        /\ UNCHANGED <<cellVars, ringVars, ssa_ref, ld>>
        /\ todo[t] = <<>> /\ pc[t] \notin Taken
    BY <1>1, <1>3
  <2>3. Answer(t)'
    BY <1>3, <2>2 DEF Answer, Holding, GcPC
  <2> QED BY <1>2, <1>3, <2>1, <2>2, <2>3, StartsPlain
<1>4. CASE ThreadStart(t)
  <2>1. pc[t] = "off" /\ pc'[t] = "idle" /\ UNCHANGED <<cellVars, ringVars, call, todo, ld>>
    BY <1>4 DEF ThreadStart, Goto, TypeOK
  <2>2. todo[t] = <<>>
    BY <2>1, NothingToDo DEF CellInv
  <2>3. \A x \in CacheTags(t) : ssa_ref[x] = NULL
    BY <2>1 DEF CellInv, CacheInv
  <2>4. ssa_ref' = ssa_ref
    <3>1. \A v \in Tags : ssa_ref'[v] = ssa_ref[v]
      BY <1>4, <2>3 DEF ThreadStart, CacheTags
    <3> QED BY <1>4, <3>1 DEF ThreadStart, TypeOK
  <2>5. Answer(t)'
    BY <2>1, AnswerRun DEF CellInv
  <2>6. pc[t] \notin Taken
    BY <2>1 DEF Taken
  <2> QED BY <1>2, <2>1, <2>2, <2>4, <2>5, <2>6, StartsPlain
<1>5. CASE ThreadFini(t)
  <2> DEFINE c == [NoCall(t) EXCEPT !.op = "fini"]
             s == Destroy(cl(t)) \o Destroy(cr(t)) \o Destroy(cv(t))
  <2>1. c.op = "fini"
    BY DEF NoCall
  <2>2. Begin(t, "run", c, s)
    BY <1>5 DEF ThreadFini
  <2> HIDE DEF c
  <2>3. Good(t, c, s) /\ \A x \in CacheTags(t) : \E i \in 1 .. Len(s) : s[i].op \in Setting /\ s[i].a = x
    BY <2>1, FiniGood
  <2> HIDE DEF s
  <2>4. /\ pc[t] = "idle" /\ pc'[t] = "run" /\ call'[t] = c /\ todo'[t] = s
        /\ UNCHANGED <<cellVars, ringVars, ssa_ref, ld>>
        /\ todo[t] = <<>> /\ pc[t] \notin Taken
    BY <1>1, <2>2
  <2>5. \A x \in CacheTags(t) : ToCome(t, x)'
    BY <2>3, <2>4 DEF ToCome
  <2>6. CacheInv(t)'
    BY <2>1, <2>3, <2>4, <2>5, CacheFini
  <2>7. Answer(t)'
    BY <2>1, <2>4 DEF Answer, Holding, GcPC
  <2>8. Pending(t)' /\ Counts(t)' /\ Cells(t)' /\ Ring(t)' /\ Scan(t)'
    BY <1>2, <2>3, <2>4, Starts
  <2> QED BY <2>6, <2>7, <2>8 DEF CellInv
<1>6. ASSUME NEW m \in Mem, NEW off \in Offsets, TaintByte(t, m, off) PROVE CellInv(t)'
  <2> DEFINE c == [op |-> "alloc", dst |-> m, src |-> tmp(t), off |-> off]
  <2>1. Begin(t, "head", c, <<>>)
    BY <1>6 DEF TaintByte
  <2>2. c.op = "alloc" /\ c.dst = m
    OBVIOUS
  <2> HIDE DEF c
  <2>3. /\ pc[t] = "idle" /\ pc'[t] = "head" /\ call'[t] = c /\ todo'[t] = <<>>
        /\ UNCHANGED <<cellVars, ringVars, ssa_ref, ld>>
        /\ todo[t] = <<>> /\ pc[t] \notin Taken
    BY <1>1, <2>1
  <2>4. Answer(t)'
    BY <2>2, <2>3 DEF Answer, Holding, GcPC
  <2> QED BY <1>2, <2>3, <2>4, StartsPlain
<1>7. ASSUME NEW m \in Mem, NEW r \in RegTag(t), LoadByte(t, r, m) PROVE CellInv(t)'
  <2> DEFINE c == [op |-> "load", dst |-> r, src |-> m, off |-> NULL]
             s == Construct(tmp(t), m) \o MoveTo(r, tmp(t))
  <2>1. Begin(t, "run", c, s)
    BY <1>7 DEF LoadByte
  <2>2. c.op = "load" /\ m \in TagsOf(t) /\ r \in Mem \cup RegTag(t)
    BY OwnTags
  <2> HIDE DEF c
  <2>3. Good(t, c, s)
    BY <2>2, ReturnGood
  <2> HIDE DEF s
  <2> QED BY <1>3, <2>1, <2>2, <2>3
<1>8. ASSUME NEW m \in Mem, NEW r \in RegTag(t), StoreByte(t, m, r) PROVE CellInv(t)'
  <2> DEFINE c == [op |-> "copy", dst |-> m, src |-> r, off |-> NULL]
             s == Assign(m, r)
  <2>1. Begin(t, "run", c, s)
    BY <1>8 DEF StoreByte
  <2>2. c.op = "copy" /\ r \in TagsOf(t) /\ m \in Mem \cup RegTag(t)
    BY OwnTags
  <2> HIDE DEF c
  <2>3. Good(t, c, s)
    BY <2>2, StoreGood
  <2> HIDE DEF s
  <2> QED BY <1>3, <2>1, <2>2, <2>3
<1>9. ASSUME NEW d \in Mem \cup RegTag(t), ClearByte(t, d) PROVE CellInv(t)'
  <2> DEFINE c == [op |-> "clear", dst |-> d, src |-> d, off |-> NULL]
             s == Clear(d)
  <2>1. Begin(t, "run", c, s)
    BY <1>9 DEF ClearByte
  <2>2. c.op = "clear"
    OBVIOUS
  <2> HIDE DEF c
  <2>3. Good(t, c, s)
    BY <2>2, ClearGood
  <2> HIDE DEF s
  <2> QED BY <1>3, <2>1, <2>2, <2>3
<1>10. ASSUME NEW d \in RegTag(t), NEW b \in RegTag(t), CombineByte(t, d, b) PROVE CellInv(t)'
  <2> DEFINE c == [op |-> "combine", dst |-> d, src |-> b, off |-> NULL]
  <2>1. Begin(t, "combine", c, <<>>)
    BY <1>10 DEF CombineByte
  <2>2. c.op = "combine" /\ c.dst = d /\ c.src = b
    OBVIOUS
  <2> HIDE DEF c
  <2>3. /\ pc[t] = "idle" /\ pc'[t] = "combine" /\ call'[t] = c /\ todo'[t] = <<>>
        /\ UNCHANGED <<cellVars, ringVars, ssa_ref, ld>>
        /\ todo[t] = <<>> /\ pc[t] \notin Taken
    BY <1>1, <2>1
  <2>4. Answer(t)'
    BY <2>2, <2>3 DEF Answer, Holding, GcPC
  <2> QED BY <1>2, <2>3, <2>4, StartsPlain
<1> QED BY <1>4, <1>5, <1>6, <1>7, <1>8, <1>9, <1>10 DEF Request

LEMMA EnterKeeps ==
    ASSUME TypeOK, TypeOK', NEW t \in Threads, CellInv(t), CombineEnter(t)
    PROVE  CellInv(t)'
PROOF
<1> DEFINE d == call[t].dst
           b == call[t].src
<1>1. pc[t] = "combine" /\ UNCHANGED <<cellVars, ringVars, ssa_ref, ld, call>>
  BY DEF CombineEnter
<1>2. todo[t] = <<>> /\ pc[t] \notin Taken /\ pc[t] # "run"
  BY <1>1, NothingToDo DEF CellInv, Taken
<1>3. call[t].op = "combine" /\ d \in RegTag(t) /\ b \in RegTag(t)
  BY <1>1 DEF CellInv, Answer
<1>4. \/ pc'[t] = "call" /\ todo' = todo
      \/ \E v \in {d, b, cv(t)} : Return(t, v)
  BY DEF CombineEnter, TypeOK
<1>5. CASE pc'[t] = "call" /\ todo' = todo
  <2>1. Answer(t)'
    BY <1>1, <1>3, <1>5 DEF Answer, Holding, GcPC
  <2>2. "call" \notin Walking \cup {"off"}
    BY DEF Walking, GcPC, Taken
  <2> QED BY <1>1, <1>2, <1>5, <2>1, <2>2, StartsPlain
<1>6. ASSUME NEW v \in {d, b, cv(t)}, Return(t, v) PROVE CellInv(t)'
  <2> DEFINE s == Construct(tmp(t), v) \o MoveTo(d, tmp(t))
  <2>1. pc'[t] = "run" /\ todo'[t] = s
    BY <1>6 DEF Return, TypeOK
  <2>2. v \in TagsOf(t) /\ d \in Mem \cup RegTag(t) /\ call[t].op # "fini"
    BY <1>3, OwnTags
  <2>3. Good(t, call[t], s) /\ Plain(t, s)
    BY <2>2, ReturnGood
  <2> HIDE DEF s
  <2>4. \A i \in 1 .. Len(s) : ~Fills(t, s, i)
    BY <2>2, <2>3, PlainProgram
  <2>5. Answer(t)'
    BY <1>1, <2>1, AnswerRun DEF CellInv
  <2>6. "run" \notin Walking \cup {"off"}
    BY DEF Walking, GcPC, Taken
  <2>7. call'[t] = call[t]
    BY <1>1
  <2>8. /\ pc'[t] = "run" /\ Good(t, call'[t], todo'[t]) /\ call'[t].op # "fini"
        /\ \A i \in 1 .. Len(todo'[t]) : ~Fills(t, todo'[t], i)
    BY <2>1, <2>2, <2>3, <2>4, <2>7
  <2> QED BY <1>1, <1>2, <2>5, <2>6, <2>8, StartsPlain
<1> QED BY <1>4, <1>5, <1>6

LEMMA CallKeeps ==
    ASSUME TypeOK, TypeOK', OperandsLive, NEW t \in Threads, CellInv(t), CombineCall(t)
    PROVE  CellInv(t)'
PROOF
<1>1. pc[t] = "call" /\ pc'[t] = "compare" /\ UNCHANGED <<cellVars, ringVars, ssa_ref, ld, todo>>
  BY DEF CombineCall, Goto, TypeOK
<1>2. todo[t] = <<>> /\ pc[t] \notin Taken /\ pc[t] # "run"
  BY <1>1, NothingToDo DEF CellInv, Taken
<1>3. Answer(t)'
  BY AnswerCombine DEF CellInv
<1>4. "compare" \notin Walking \cup {"off"}
  BY DEF Walking, GcPC, Taken
<1> QED BY <1>1, <1>2, <1>3, <1>4, StartsPlain

(* The cache is filled before one of the operands is returned. *)
LEMMA ReuseGood ==
    ASSUME NEW t \in Threads, NEW c, c.op = "combine",
           c.dst \in RegTag(t), c.src \in RegTag(t), NEW v \in {c.dst, c.src}
    PROVE  CacheProgram(t, c, FillCache(t, c.dst, c.src, v) \o Construct(tmp(t), v)
                                 \o MoveTo(c.dst, tmp(t)), v)
PROOF
<1> DEFINE f == FillCache(t, c.dst, c.src, v)
           m == Construct(tmp(t), v)
           n == MoveTo(c.dst, tmp(t))
           z == m \o n
<1>1. v \in TagsOf(t) /\ c.dst \in Mem \cup RegTag(t) /\ c.op # "fini" /\ v \in {c.dst, c.src, tmp(t)}
  BY OwnTags
<1>2. Good(t, c, z) /\ Plain(t, z)
  BY <1>1, ReturnGood
<1>3. /\ f \in Seq(MicroOp(t)) /\ m \in Seq(MicroOp(t)) /\ n \in Seq(MicroOp(t))
  <2>1. c.dst \in TagsOf(t) /\ c.src \in TagsOf(t) /\ tmp(t) \in TagsOf(t) /\ cl(t) \in TagsOf(t)
        /\ cr(t) \in TagsOf(t) /\ cv(t) \in TagsOf(t)
    BY OwnTags
  <2>2. m \in Seq(MicroOp(t)) /\ n \in Seq(MicroOp(t))
    BY <1>1, <2>1, StepsType
  <2>3. /\ Assign(cl(t), c.dst) \in Seq(MicroOp(t)) /\ Assign(cr(t), c.src) \in Seq(MicroOp(t))
        /\ Assign(cv(t), v) \in Seq(MicroOp(t))
    BY <1>1, <2>1, StepsType
  <2> QED BY <2>2, <2>3 DEF FillCache
<1> HIDE DEF f, m, n
<1>4. (f \o m) \o n = f \o (m \o n)
  BY <1>3, ConcatAssociative, SMTT(60)
<1> HIDE DEF z
<1>5. CacheProgram(t, c, f \o z, v)
  <2>1. z \in Seq(MicroOp(t)) /\ z # <<>> /\ Begins(z, 1) /\ Members(t, z) /\ Temporary(t, z) /\ Plain(t, z)
    BY <1>2 DEF Good
  <2> QED BY <1>1, <2>1, FillGood DEF f
<1>6. (f \o m) \o n = f \o z
  BY <1>4, SMTT(60) DEF z
<1> QED BY <1>5, <1>6 DEF f, m, n

LEMMA CompareKeeps ==
    ASSUME TypeOK, TypeOK', NEW t \in Threads, CellInv(t), CombineCompare(t)
    PROVE  CellInv(t)'
PROOF
<1> DEFINE d == call[t].dst
           b == call[t].src
           s(v) == FillCache(t, d, b, v) \o Construct(tmp(t), v) \o MoveTo(d, tmp(t))
<1>1. pc[t] = "compare" /\ UNCHANGED <<cellVars, ringVars, ssa_ref, ld, call, res>>
  BY DEF CombineCompare
<1>2. todo[t] = <<>> /\ pc[t] \notin Taken /\ pc[t] # "run"
  BY <1>1, NothingToDo DEF CellInv, Taken
<1>3. /\ call[t].op = "combine" /\ d \in RegTag(t) /\ b \in RegTag(t)
      /\ ssa_ref[d] # NULL /\ ssa_ref[b] # NULL
      /\ res[t] = bdd[ssa_ref[d]] \cup bdd[ssa_ref[b]]
  BY <1>1, SMTT(60) DEF CellInv, Answer
<1>4. \/ pc'[t] = "head" /\ todo' = todo
      \/ \E v \in {d, b} : pc'[t] = "run" /\ todo'[t] = s(v) /\ res[t] = bdd[ssa_ref[v]]
  BY DEF CombineCompare, TypeOK
<1>5. "head" \notin Walking \cup {"off"} /\ "run" \notin Walking \cup {"off"}
  BY DEF Walking, GcPC, Taken
<1>6. CASE pc'[t] = "head" /\ todo' = todo
  <2>1. Answer(t)'
    <3>1. UNCHANGED <<ssa_ref, bdd, res, call>> /\ pc[t] \in Holding \cup {"compare"} /\ pc'[t] \in Holding
      BY <1>1, <1>6 DEF Holding, cellVars
    <3> QED BY <3>1, AnswerWalk DEF CellInv
  <2> QED BY <1>1, <1>2, <1>5, <1>6, <2>1, StartsPlain
<1>7. ASSUME NEW v \in {d, b}, pc'[t] = "run", todo'[t] = s(v), res[t] = bdd[ssa_ref[v]]
      PROVE  CellInv(t)'
  <2>1. CacheProgram(t, call[t], s(v), v)
    BY <1>3, ReuseGood
  <2> HIDE DEF s
  <2>2. call'[t] = call[t] /\ UNCHANGED <<ssa_ref, bdd>>
    BY <1>1 DEF cellVars
  <2>3. CacheProgram(t, call'[t], todo'[t], v) /\ Good(t, call'[t], todo'[t])
    BY <1>7, <2>1, <2>2 DEF CacheProgram
  <2>5. /\ ssa_ref'[v] # NULL /\ ssa_ref'[call'[t].dst] # NULL /\ ssa_ref'[call'[t].src] # NULL
        /\ bdd'[ssa_ref'[v]] = bdd'[ssa_ref'[call'[t].dst]] \cup bdd'[ssa_ref'[call'[t].src]]
        /\ call'[t].op = "combine"
    BY <1>3, <1>7, <2>2
  <2>6. CacheInv(t)'
    BY <1>7, <2>3, <2>5, CacheFilled
  <2>7. Answer(t)'
    BY <1>7, <2>2, AnswerRun DEF CellInv
  <2>8. Pending(t)' /\ Counts(t)' /\ Cells(t)' /\ Ring(t)' /\ Scan(t)'
    BY <1>1, <1>2, <1>5, <1>7, <2>3, Starts
  <2> QED BY <2>6, <2>7, <2>8 DEF CellInv
<1> QED BY <1>4, <1>6, <1>7

(* Filling a cell no tag points to changes no tag's set. *)
LEMMA FillValue ==
    ASSUME TypeOK, NEW t \in Threads, Refs(victim[t]) = {}, FillVictim(t),
           NEW x \in Tags, ssa_ref[x] # NULL
    PROVE  bdd'[ssa_ref[x]] = bdd[ssa_ref[x]] /\ (x # tmp(t) => ssa_ref'[x] = ssa_ref[x])
PROOF
<1>1. /\ bdd' = [bdd EXCEPT ![victim[t]] = res[t]] /\ DOMAIN bdd = Cell
      /\ ssa_ref' = [ssa_ref EXCEPT ![tmp(t)] = victim[t]] /\ DOMAIN ssa_ref = Tags
      /\ ssa_ref[x] \in Cell
  BY DEF FillVictim, TypeOK
<1>2. ssa_ref[x] # victim[t]
  BY DEF Refs
<1> QED BY <1>1, <1>2

LEMMA FillKeeps ==
    ASSUME TypeOK, TypeOK', NEW t \in Threads, CellInv(t), FillVictim(t)
    PROVE  CellInv(t)'
PROOF
<1> DEFINE d == call[t].dst
           b == call[t].src
<1>1. /\ pc[t] = "fill" /\ pc'[t] = "run" /\ call' = call
      /\ ssa_ref'[tmp(t)] = victim[t]
      /\ todo'[t] = IF call[t].op = "alloc" THEN Assign(d, tmp(t)) \o Destroy(tmp(t))
                    ELSE FillCache(t, d, b, tmp(t)) \o MoveTo(d, tmp(t))
  <2>1. tmp(t) \in Tags
    BY OwnTags
  <2> QED BY <2>1 DEF FillVictim, Goto, TypeOK
<1>2. todo[t] = <<>> /\ ssa_ref[tmp(t)] = NULL
  BY <1>1, NothingToDo DEF CellInv
<1>3. victim[t] \in Allocated /\ victim[t] \in Cell /\ prot[victim[t]] = 0 /\ Refs(victim[t]) = {}
  <2>1. victim[t] \in Allocated /\ prot[victim[t]] = 0 /\ Refs(victim[t]) = {}
    BY <1>1 DEF CellInv, Ring, Taken
  <2> QED BY <2>1, AllocatedRange
<1>4. /\ res[t] \notin {Junk, {}} /\ call[t].op \in {"alloc", "combine"}
      /\ call[t].op = "alloc" => d \in Mem
      /\ call[t].op = "combine" => /\ d \in RegTag(t) /\ b \in RegTag(t)
                                   /\ ssa_ref[d] # NULL /\ ssa_ref[b] # NULL
                                   /\ res[t] = bdd[ssa_ref[d]] \cup bdd[ssa_ref[b]]
  BY <1>1 DEF CellInv, Answer
<1>5. bdd'[victim[t]] = res[t]
  BY <1>3 DEF FillVictim, TypeOK
<1>6. ASSUME Good(t, call'[t], todo'[t]), NoTmp(t, todo'[t]),
             todo'[t][Len(todo'[t])].op = "move" \/ todo'[t][Len(todo'[t])] = null(tmp(t))
      PROVE  Pending(t)' /\ Counts(t)' /\ Cells(t)' /\ Ring(t)' /\ Scan(t)' /\ Answer(t)'
  <2>1. Pending(t)'
    BY <1>1, <1>6, PendingFill DEF CellInv, NoTmp
  <2>2. Counts(t)'
    BY <1>2, <1>3, <1>6, CountsFill DEF CellInv, Good
  <2>3. Cells(t)'
    BY <1>3, <1>4, CellsFill DEF CellInv
  <2>4. Ring(t)'
    BY RingFill DEF CellInv
  <2>5. Scan(t)'
    BY <1>1 DEF Scan
  <2>6. Answer(t)'
    BY <1>1, AnswerRun DEF CellInv
  <2> QED BY <2>1, <2>2, <2>3, <2>4, <2>5, <2>6
<1>7. CASE call[t].op = "alloc"
  <2> DEFINE s == Assign(d, tmp(t)) \o Destroy(tmp(t))
  <2>1. d \in Mem \cup RegTag(t) /\ call[t].op # "fini"
    BY <1>4, <1>7
  <2>2. /\ Good(t, call[t], s) /\ s[Len(s)] = null(tmp(t))
        /\ \A i \in 1 .. Len(s) : ~ToTmp(t, s, i) /\ ~Fills(t, s, i)
    BY <2>1, AllocGood
  <2>3. todo'[t] = s /\ call'[t] = call[t]
    BY <1>1, <1>7
  <2> HIDE DEF s
  <2>4. /\ Good(t, call'[t], todo'[t]) /\ NoTmp(t, todo'[t])
        /\ todo'[t][Len(todo'[t])] = null(tmp(t))
        /\ \A i \in 1 .. Len(todo'[t]) : ~Fills(t, todo'[t], i)
    BY <2>2, <2>3 DEF NoTmp
  <2>5. Coherent(t)
    BY <1>1, <1>2, QuietCoherent DEF CellInv
  <2>6. \A x \in CacheTags(t) : /\ ssa_ref'[x] = ssa_ref[x]
                                /\ ssa_ref[x] # NULL => bdd'[ssa_ref[x]] = bdd[ssa_ref[x]]
    <3>1. ASSUME NEW x \in CacheTags(t)
          PROVE  ssa_ref'[x] = ssa_ref[x] /\ (ssa_ref[x] # NULL => bdd'[ssa_ref[x]] = bdd[ssa_ref[x]])
      <4>1. x \in Tags /\ x # tmp(t)
        BY OwnTags, OwnApart DEF CacheTags
      <4>2. ssa_ref'[x] = ssa_ref[x]
        BY <4>1 DEF FillVictim, TypeOK
      <4> QED BY <1>3, <4>1, <4>2, FillValue
    <3> QED BY <3>1
  <2>7. Coherent(t)'
    BY <2>5, <2>6 DEF Coherent, CacheTags
  <2>8. CacheInv(t)'
    BY <1>1, <2>1, <2>3, <2>4, <2>7, CachePlain
  <2> QED BY <1>6, <2>4, <2>8 DEF CellInv
<1>8. CASE call[t].op = "combine"
  <2> DEFINE z == MoveTo(d, tmp(t))
             s == FillCache(t, d, b, tmp(t)) \o z
  <2>1. d \in RegTag(t) /\ b \in RegTag(t) /\ d \in TagsOf(t) /\ tmp(t) \in TagsOf(t)
        /\ d # tmp(t) /\ d \notin CacheTags(t) /\ b # tmp(t) /\ d \in Tags /\ b \in Tags
    BY <1>4, <1>8, OwnTags, OwnApart
  <2>2. /\ z \in Seq(MicroOp(t)) /\ Len(z) = 2 /\ z[2] = move(d, tmp(t))
        /\ Members(t, z) /\ Temporary(t, z) /\ Begins(z, 1) /\ Plain(t, z)
        /\ \A i \in 1 .. 2 : ~ToTmp(t, z, i)
    <3>1. move(d, tmp(t)) \in MicroOp(t) /\ move(d, tmp(t)).a = d
          /\ move(d, tmp(t)).op = "move" /\ move(d, tmp(t)).b = tmp(t)
      BY <2>1 DEF move, MicroOp
    <3> QED BY <2>1, <3>1, PairGood DEF MoveTo
  <2>3. todo'[t] = s /\ call'[t] = call[t]
    BY <1>1, <1>8
  <2> HIDE DEF z
  <2>4. z # <<>> /\ NoTmp(t, z) /\ z[Len(z)].op = "move"
    <3>1. move(d, tmp(t)).op = "move"
      BY DEF move
    <3>2. z # <<>>
      BY <2>2
    <3> QED BY <2>2, <3>1, <3>2 DEF NoTmp
  <2>5. CacheProgram(t, call[t], s, tmp(t)) /\ s[Len(s)] = z[Len(z)] /\ NoTmp(t, s)
    BY <1>8, <2>1, <2>2, <2>4, FillGood
  <2> HIDE DEF s
  <2>6. /\ CacheProgram(t, call'[t], todo'[t], tmp(t)) /\ Good(t, call'[t], todo'[t])
        /\ NoTmp(t, todo'[t]) /\ todo'[t][Len(todo'[t])].op = "move"
    BY <2>3, <2>4, <2>5 DEF CacheProgram
  <2>7. /\ ssa_ref'[d] = ssa_ref[d] /\ ssa_ref'[b] = ssa_ref[b]
        /\ bdd'[ssa_ref[d]] = bdd[ssa_ref[d]] /\ bdd'[ssa_ref[b]] = bdd[ssa_ref[b]]
    BY <1>3, <1>4, <1>8, <2>1, FillValue
  <2>8. victim[t] # NULL
    BY <1>3, AllocatedRange
  <2>9. /\ ssa_ref'[tmp(t)] # NULL /\ ssa_ref'[call'[t].dst] # NULL /\ ssa_ref'[call'[t].src] # NULL
        /\ bdd'[ssa_ref'[tmp(t)]] = bdd'[ssa_ref'[call'[t].dst]] \cup bdd'[ssa_ref'[call'[t].src]]
        /\ call'[t].op = "combine"
    BY <1>1, <1>4, <1>5, <1>8, <2>3, <2>7, <2>8
  <2>10. CacheInv(t)'
    BY <1>1, <2>6, <2>9, CacheFilled
  <2> QED BY <1>6, <2>6, <2>10 DEF CellInv
<1> QED BY <1>4, <1>7, <1>8

LEMMA MarkKeeps ==
    ASSUME TypeOK, TypeOK', NEW t \in Threads, CellInv(t), MarkVictim(t)
    PROVE  CellInv(t)'
PROOF
<1>1. /\ pc[t] = "mark" /\ pc'[t] \in {"cube", "fill"} /\ UNCHANGED <<ssa_ref, bdd, todo, ld>>
  BY DEF MarkVictim, TypeOK
<1>2. todo[t] = <<>>
  BY <1>1, NothingToDo DEF CellInv
<1>3. Unused(victim[t])
  BY <1>1 DEF CellInv, Ring
<1>4. Pending(t)'
  BY <1>1, <1>2, PendingBegin DEF CellInv
<1>5. Counts(t)' /\ Cells(t)'
  BY <1>1, <1>2, <1>3, CountsMark, CellsMark DEF CellInv
<1>6. Ring(t)' /\ Answer(t)'
  BY RingMark, AnswerMark DEF CellInv
<1>7. Scan(t)'
  BY <1>1 DEF Scan
<1>8. CacheInv(t)'
  <2>1. Coherent(t)
    BY <1>1, <1>2, QuietCoherent DEF CellInv
  <2> QED BY <1>1, <1>2, <2>1, CacheQuiet
<1> QED BY <1>4, <1>5, <1>6, <1>7, <1>8 DEF CellInv

(* Steps on the ring and of the collector that touch neither a count nor a *)
(* pointer.                                                                *)
LEMMA Walks ==
    ASSUME NEW t \in Threads, CellInv(t), pc[t] # "run",
           UNCHANGED <<ref_count, bdd, ssa_ref, todo, ld, call>>,
           pc[t] \in Taken => victim' = victim,
           pc[t] \in Taken <=> pc'[t] \in Taken, pc'[t] \notin {"off", "run"}
    PROVE  Pending(t)' /\ Counts(t)' /\ CacheInv(t)'
PROOF
<1>1. todo[t] = <<>> /\ todo'[t] = <<>>
  BY NothingToDo DEF CellInv
<1>2. Pending(t)'
  BY <1>1, PendingBegin DEF CellInv
<1>3. Counts(t)'
  <2>1. CASE pc[t] \in Taken
    BY <2>1, CountsFrame DEF CellInv
  <2>2. CASE pc[t] \notin Taken
    BY <1>1, <2>2, CountsBegin DEF CellInv
  <2> QED BY <2>1, <2>2
<1>4. CacheInv(t)'
  <2>1. Coherent(t)
    BY <1>1, QuietCoherent DEF CellInv
  <2> QED BY <1>1, <2>1, CacheQuiet
<1> QED BY <1>2, <1>3, <1>4

LEMMA RingKeeps ==
    ASSUME TypeOK, TypeOK', OperandsLive, NEW t \in Threads, CellInv(t),
           \/ ReadHead(t) \/ TestTail(t) \/ TryLock(t) \/ PopCell(t) \/ TakeVictim(t)
           \/ AllocCall(t) \/ GcBegin(t) \/ GcUnlock(t)
    PROVE  CellInv(t)'
PROOF
<1> USE DEF cellVars, ringVars, gcVars, Goto
<1>1. UNCHANGED <<ref_count, bdd, prot, ssa_ref, todo, ld, call, nblk>>
  BY DEF ReadHead, TestTail, TryLock, PopCell, TakeVictim, AllocCall, GcBegin, GcUnlock
<1>2. /\ pc[t] \in (Holding \ {"mark"}) \cup {"cube"}
      /\ pc[t] # "cube" => pc'[t] \in Holding /\ UNCHANGED <<res>>
      /\ pc[t] = "cube" => AllocCall(t) /\ pc'[t] = "fill" /\ victim' = victim
      /\ pc'[t] = "gc" => GcBegin(t)
      /\ pc'[t] # "gc_add"
  <2> USE DEF Holding, GcPC, TypeOK
  <2>1. CASE ReadHead(t) \/ TestTail(t) \/ TryLock(t)
    BY <2>1 DEF ReadHead, TestTail, TryLock
  <2>2. CASE PopCell(t) \/ TakeVictim(t) \/ AllocCall(t)
    BY <2>2 DEF PopCell, TakeVictim, AllocCall
  <2>3. CASE GcBegin(t) \/ GcUnlock(t)
    BY <2>3 DEF GcBegin, GcUnlock
  <2> QED BY <2>1, <2>2, <2>3
<1>3. Pending(t)' /\ Counts(t)' /\ CacheInv(t)'
  <2>1. /\ pc[t] # "run" /\ (pc[t] \in Taken => victim' = victim)
        /\ (pc[t] \in Taken <=> pc'[t] \in Taken) /\ pc'[t] \notin {"off", "run"}
    BY <1>2 DEF Holding, GcPC, Taken
  <2> QED BY <1>1, <2>1, Walks
<1>4. Cells(t)'
  BY <1>1, CellsFrame DEF CellInv
<1>5. Ring(t)'
  BY RingWalk, RingPop DEF CellInv
<1>6. Scan(t)'
  <2>1. CASE pc'[t] = "gc"
    BY <1>2, <2>1, GcStart DEF CellInv
  <2>2. CASE pc'[t] # "gc"
    BY <1>2, <2>2 DEF Scan
  <2> QED BY <2>1, <2>2
<1>7. Answer(t)'
  <2>1. CASE pc[t] = "cube"
    BY <1>2, <2>1, AnswerAlloc DEF CellInv
  <2>2. CASE pc[t] # "cube"
    <3>1. UNCHANGED <<ssa_ref, bdd, res, call>> /\ pc[t] \in Holding \cup {"compare"} /\ pc'[t] \in Holding
      BY <1>1, <1>2, <2>2
    <3> QED BY <3>1, AnswerWalk DEF CellInv
  <2> QED BY <2>1, <2>2
<1> QED BY <1>3, <1>4, <1>5, <1>6, <1>7 DEF CellInv

LEMMA GcKeeps ==
    ASSUME TypeOK, TypeOK', NEW t \in Threads, CellInv(t), GcCell(t) \/ GcEnd(t) \/ AddBlk(t)
    PROVE  CellInv(t)'
PROOF
<1> USE DEF cellVars, ringVars, gcVars, Goto
<1>1. UNCHANGED <<ref_count, bdd, ssa_ref, todo, ld, call, res>>
  BY DEF GcCell, GcEnd, AddBlk
<1>2. pc[t] \in {"gc", "gc_add"} /\ pc'[t] \in GcPC
  BY DEF GcCell, GcEnd, AddBlk, GcPC, TypeOK
<1>3. todo[t] = <<>>
  BY <1>2, NothingToDo DEF CellInv
<1>4. Pending(t)' /\ Counts(t)' /\ CacheInv(t)'
  <2>1. /\ pc[t] # "run" /\ (pc[t] \in Taken => victim' = victim)
        /\ (pc[t] \in Taken <=> pc'[t] \in Taken) /\ pc'[t] \notin {"off", "run"}
    BY <1>2 DEF GcPC, Taken
  <2> QED BY <1>1, <2>1, Walks
<1>5. Answer(t)'
  <2>1. pc[t] \in Holding \cup {"compare"} /\ pc'[t] \in Holding
    BY <1>2 DEF Holding, GcPC
  <2> QED BY <1>1, <2>1, AnswerWalk DEF CellInv
<1>6. CASE GcCell(t)
  <2>1. Cells(t)' /\ Ring(t)' /\ Scan(t)'
    BY <1>3, <1>6, CellsGc, GcScan DEF CellInv
  <2> QED BY <1>4, <1>5, <2>1 DEF CellInv
<1>7. CASE GcEnd(t)
  <2>1. Ring(t)' /\ Scan(t)'
    BY <1>7, GcPublish DEF CellInv
  <2>2. UNCHANGED <<cellVars, ssa_ref>> /\ nblk' = nblk
    BY <1>7 DEF GcEnd
  <2>3. Cells(t)'
    BY <2>2, CellsFrame DEF CellInv
  <2> QED BY <1>4, <1>5, <2>1, <2>3 DEF CellInv
<1>8. CASE AddBlk(t)
  <2>1. Ring(t)'
    BY <1>8, RingAdd DEF CellInv
  <2>2. UNCHANGED <<cellVars, ssa_ref>> /\ nblk' = nblk + 1 /\ pc'[t] = "gc_unlock"
    BY <1>8 DEF AddBlk, TypeOK
  <2>3. Cells(t)'
    BY <2>2, CellsFrame DEF CellInv
  <2>4. Scan(t)'
    BY <2>2 DEF Scan
  <2> QED BY <1>4, <1>5, <2>1, <2>3, <2>4 DEF CellInv
<1> QED BY <1>6, <1>7, <1>8

LEMMA RunKeeps ==
    ASSUME TypeOK, TypeOK', NEW t \in Threads, CellInv(t),
           LoadCount(t) \/ StoreCount(t) \/ SetPointer(t)
    PROVE  CellInv(t)'
PROOF
<1> USE DEF cellVars, ringVars, gcVars
<1>1. pc[t] = "run" /\ UNCHANGED <<pc, call, bdd, prot, q, hd, tl, nblk>> /\ todo[t] # <<>>
  BY DEF LoadCount, StoreCount, SetPointer, Counting
<1>2. Scan(t)' /\ Answer(t)' /\ pc'[t] \notin Walking
  <2>1. Scan(t)' /\ pc'[t] \notin Walking
    BY <1>1 DEF Scan, Walking, GcPC, Taken
  <2>2. Answer(t)'
    BY <1>1, AnswerRun DEF CellInv
  <2> QED BY <2>1, <2>2
<1>3. todo[t] \in Seq(MicroOp(t)) /\ Head(todo[t]) = todo[t][1]
  BY <1>1, TailFacts DEF TypeOK
<1>4. CASE LoadCount(t) /\ ssa_ref[Head(todo[t]).a] = NULL
  <2>1. /\ todo'[t] = Tail(todo[t]) /\ ld'[t] = NoLoad /\ UNCHANGED <<ssa_ref, ref_count>>
        /\ todo[t][1].op \in {"inc", "dec"}
    BY <1>3, <1>4 DEF LoadCount, Counting, TypeOK
  <2>2. Pending(t)' /\ CacheInv(t)'
    BY <1>1, <2>1, PendingTail, CacheTail DEF CellInv
  <2>3. Counts(t)'
    BY <1>4, CountsSkip DEF CellInv
  <2>4. Cells(t)' /\ Ring(t)'
    BY <1>1, <1>2, <2>1, CellsFrame, RingSame DEF CellInv
  <2> QED BY <1>2, <2>2, <2>3, <2>4 DEF CellInv
<1>5. CASE LoadCount(t) /\ ssa_ref[Head(todo[t]).a] # NULL
  <2>1. UNCHANGED <<ssa_ref, ref_count, todo, victim>>
    BY <1>5 DEF LoadCount
  <2>2. Pending(t)'
    BY <1>5, PendingLoad DEF CellInv
  <2>3. Counts(t)'
    BY <1>1, <2>1, CountsFrame DEF CellInv
  <2>4. Cells(t)' /\ Ring(t)'
    BY <1>1, <1>2, <2>1, CellsFrame, RingSame DEF CellInv
  <2>5. CacheInv(t)'
    BY <1>1, <2>1 DEF CellInv, CacheInv, Filling, Coherent, ToCome
  <2> QED BY <1>2, <2>2, <2>3, <2>4, <2>5 DEF CellInv
<1>6. CASE StoreCount(t)
  <2>1. /\ todo'[t] = Tail(todo[t]) /\ ld'[t] = NoLoad /\ ssa_ref' = ssa_ref
        /\ todo[t][1].op \in {"inc", "dec"}
    BY <1>3, <1>6 DEF StoreCount, Counting, TypeOK
  <2>2. Pending(t)' /\ CacheInv(t)'
    BY <1>1, <2>1, PendingTail, CacheTail DEF CellInv
  <2>3. Counts(t)'
    BY <1>6, CountsStore DEF CellInv
  <2>4. Cells(t)' /\ Ring(t)'
    BY <1>6, <2>3, CellsStore, RingStore DEF CellInv
  <2> QED BY <1>2, <2>2, <2>3, <2>4 DEF CellInv
<1>7. CASE SetPointer(t)
  <2>1. /\ todo'[t] = Tail(todo[t]) /\ ld' = ld
    BY <1>7 DEF SetPointer, TypeOK
  <2>2. ld[t] = NoLoad
    BY <1>7 DEF CellInv, Pending, SetPointer
  <2>3. Pending(t)'
    BY <1>1, <1>7, <2>1, <2>2, PendingTail DEF CellInv
  <2>4. CacheInv(t)'
    BY <1>7, CacheSet DEF CellInv
  <2>5. Counts(t)'
    BY <1>7, CountsSet DEF CellInv
  <2>6. Cells(t)' /\ Ring(t)'
    BY <1>7, CellsSet, RingSet DEF CellInv
  <2> QED BY <1>2, <2>3, <2>4, <2>5, <2>6 DEF CellInv
<1> QED BY <1>4, <1>5, <1>6, <1>7

LEMMA FinishKeeps ==
    ASSUME TypeOK, TypeOK', NEW t \in Threads, CellInv(t), Finish(t)
    PROVE  CellInv(t)'
PROOF
<1> USE DEF cellVars, ringVars, gcVars
<1>1. /\ pc[t] = "run" /\ pc'[t] \in {"off", "idle"} /\ todo[t] = <<>> /\ todo'[t] = <<>>
      /\ UNCHANGED <<ref_count, bdd, prot, q, hd, tl, gc_lock, nblk, ssa_ref, ld>>
  BY DEF Finish, TypeOK
<1>2. pc[t] \notin Taken /\ pc'[t] \notin Walking
  BY <1>1 DEF Taken, Walking, GcPC
<1>3. Pending(t)' /\ Counts(t)' /\ Cells(t)' /\ Ring(t)' /\ Scan(t)'
  BY <1>1, <1>2, Starts
<1>4. Answer(t)' /\ CacheInv(t)'
  BY AnswerFinish, CacheFinish DEF CellInv
<1> QED BY <1>3, <1>4 DEF CellInv

LEMMA StepKeeps ==
    ASSUME TypeOK, TypeOK', OperandsLive, NEW t \in Threads, CellInv(t), Step(t)
    PROVE  CellInv(t)'
BY EnterKeeps, CallKeeps, CompareKeeps, RingKeeps, MarkKeeps, FillKeeps, GcKeeps, RunKeeps,
   FinishKeeps DEF Step

(* ssa_init leaves the first block, less one cell, in the ring. *)
LEMMA CellInit ==
    ASSUME Init, NEW t \in Threads
    PROVE  CellInv(t)
PROOF
<1>1. /\ pc[t] = "off" /\ todo[t] = <<>> /\ ld[t] = NoLoad /\ call[t] = NoCall(t)
      /\ \A x \in Tags : ssa_ref[x] = NULL
      /\ \A c \in Cell : ref_count[c] = UNUSED /\ prot[c] = 0 /\ bdd[c] = Junk
  BY DEF Init
<1>2. TypeOK
  BY TypeInit
<1>3. \A c \in Cell : Refs(c) = {}
  BY <1>1, <1>2, AllocatedRange DEF Refs
<1>4. {cl(t), cr(t), cv(t), tmp(t)} \subseteq Tags
  BY OwnTags
<1>5. Pending(t)
  BY <1>1, <1>4 DEF Pending, Members, Temporary, Program
<1>6. Counts(t)
  BY <1>1, <1>3 DEF Counts, Plus, Taken
<1>7. Cells(t)
  <2>1. Junk # {}
    BY JunkAssumption
  <2> QED BY <1>1, <1>3, <2>1 DEF Cells
<1>8. Queue
  <2>1. SSA_BLK \in Nat /\ SSA_BLK >= 3 /\ 1 * SSA_BLK = SSA_BLK
    BY BlkAssumption
  <2>2. Allocated = 0 .. SSA_BLK - 1
    BY <2>1 DEF Init, Allocated
  <2>3. ASSUME NEW i \in Slot, InRing(i) PROVE q[i] = i /\ i \in Allocated
    <3>1. hd = 0 /\ tl = SSA_BLK - 1 /\ 0 \in Slot /\ SSA_BLK - 1 \in Slot
      BY <2>1 DEF Init, Slot
    <3>2. Ahead(i, 0) = i /\ Ahead(SSA_BLK - 1, 0) = SSA_BLK - 1
      <4>1. i \in 0 .. SSA_BLK - 1
        BY DEF Slot
      <4> QED BY <2>1, <4>1 DEF Ahead
    <3>3. i < SSA_BLK - 1
      BY <2>3, <3>1, <3>2 DEF InRing
    <3> QED BY <2>2, <3>3 DEF Init, Slot
  <2>4. \A i \in Slot : InRing(i) => Unused(q[i])
    <3>1. ASSUME NEW i \in Slot, InRing(i) PROVE Unused(i)
      <4>1. i \in Allocated /\ i \in Cell
        BY <1>2, <2>3, <3>1, AllocatedRange
      <4> QED BY <1>1, <1>3, <4>1 DEF Unused, Reclaimable
    <3> QED BY <2>3, <3>1
  <2> QED BY <2>3, <2>4 DEF Queue
<1>9. Ring(t) /\ Scan(t)
  BY <1>1, <1>8 DEF Ring, Scan, GcPC, Taken
<1>10. Answer(t)
  BY <1>1 DEF Answer, NoCall, Holding, GcPC
<1>11. CacheInv(t)
  BY <1>1, <1>4 DEF CacheInv, Coherent, CacheTags
<1> QED BY <1>5, <1>6, <1>7, <1>9, <1>10, <1>11 DEF CellInv

LEMMA CellStutter ==
    ASSUME NEW t \in Threads, CellInv(t), UNCHANGED vars
    PROVE  CellInv(t)'
PROOF
<1> USE DEF vars, cellVars, ringVars, gcVars
<1>1. Pending(t)'
  BY DEF CellInv, Pending, Counting
<1>2. Counts(t)'
  BY DEF CellInv, Counts, Refs, Plus, Minus
<1>3. Cells(t)'
  BY DEF CellInv, Cells, Refs, Allocated
<1>4. /\ \A c : (Unused(c)' <=> Unused(c)) /\ Refs(c)' = Refs(c) /\ (Outside(c)' <=> Outside(c))
      /\ Allocated' = Allocated /\ (Queue' <=> Queue)
      /\ \A n : Found(n)' = Found(n)
  BY DEF Unused, Refs, Outside, Allocated, Queue, Reclaimable, InRing, Found
<1>5. Ring(t)'
  BY <1>4 DEF CellInv, Ring
<1>6. Scan(t)'
  BY <1>4 DEF CellInv, Scan
<1>7. Answer(t)'
  BY DEF CellInv, Answer
<1>8. CacheInv(t)'
  BY DEF CellInv, CacheInv, Filling, Coherent, ToCome
<1> QED BY <1>1, <1>2, <1>3, <1>5, <1>6, <1>7, <1>8 DEF CellInv

(* IInv of SsaPool_proofs and the invariant of the only thread. *)
CInv == IInv /\ \A t \in Threads : CellInv(t)

LEMMA CellInductive ==
    ASSUME NEW t0, Threads = {t0}
    PROVE  /\ Init => CInv
           /\ CInv /\ [Next]_vars => CInv'
PROOF
<1>1. Init => CInv
  BY IInvInductive, CellInit DEF CInv
<1>2. ASSUME CInv, Next PROVE CInv'
  <2>1. IInv' /\ TypeOK' /\ TypeOK /\ OperandsLive
    BY <1>2, IInvInductive DEF CInv, IInv
  <2>2. t0 \in Threads /\ CellInv(t0) /\ (Request(t0) \/ Step(t0))
    BY <1>2 DEF CInv, Next
  <2>3. CellInv(t0)'
    BY <2>1, <2>2, RequestKeeps, StepKeeps
  <2> QED BY <2>1, <2>3 DEF CInv
<1>3. ASSUME CInv, UNCHANGED vars PROVE CInv'
  <2>1. IInv'
    BY <1>3, IInvInductive DEF CInv
  <2>2. \A t \in Threads : CellInv(t)'
    BY <1>3, CellStutter DEF CInv
  <2> QED BY <2>1, <2>2 DEF CInv
<1> QED BY <1>1, <1>2, <1>3

-----------------------------------------------------------------------------
(* The theorems.                                                           *)

(* In a program with one thread the cells in free_ssa are distinct cells   *)
(* of the blocks that no tag and no half-filled result uses and that are   *)
(* not registered with Sylvan any more, for every block size: what ssa_gc  *)
(* and add_ssa_blk put there (ssa_tag_gc.cpp:52-151) and ssa_tag_alloc and *)
(* ssa_tag_combine take out.                                               *)
THEOREM RingIsFree ==
    ASSUME NEW t0, Threads = {t0}
    PROVE  Spec => []RingSound
PROOF
<1>1. CInv => RingSound
  <2> SUFFICES ASSUME CInv PROVE RingSound
    OBVIOUS
  <2>1. t0 \in Threads /\ Ring(t0)
    BY DEF CInv, CellInv
  <2>2. \A i \in Slot : InRing(i) =>
          /\ Unused(q[i])
          /\ pc[t0] \in {"mark", "cube", "fill"} => victim[t0] # q[i]
          /\ \A j \in Slot : InRing(j) /\ q[j] = q[i] => j = i
    BY <2>1 DEF Ring, Queue, Outside, Taken
  <2> QED BY <2>2 DEF RingSound, UsedNotQueued, Unused
<1> QED BY <1>1, CellInductive, PTL DEF Spec

(* In a program with one thread every tag that is not empty points to a    *)
(* cell of a block whose set is not empty and is registered with Sylvan    *)
(* exactly once (ssa_tag_gc.cpp:193-194, 284-285), so that Sylvan's        *)
(* collector keeps it and one mtbdd_unprotect (line 107) releases it.      *)
THEOREM TagsProtected ==
    ASSUME NEW t0, Threads = {t0}
    PROVE  Spec => []LiveProtected
PROOF
<1>1. CInv => LiveProtected
  <2> SUFFICES ASSUME CInv, NEW v \in Tags, ssa_ref[v] # NULL
               PROVE  /\ ssa_ref[v] \in Allocated /\ prot[ssa_ref[v]] = 1
                      /\ bdd[ssa_ref[v]] \notin {Junk, {}}
    BY DEF LiveProtected
  <2>1. TypeOK /\ t0 \in Threads /\ Cells(t0)
    BY DEF CInv, CellInv, IInv
  <2>2. ssa_ref[v] \in Cell /\ Refs(ssa_ref[v]) # {}
    BY <2>1 DEF TypeOK, Refs
  <2> QED BY <2>1, <2>2 DEF Cells
<1> QED BY <1>1, CellInductive, PTL DEF Spec

(* In a program with one thread every ref_count is the number of tags that *)
(* point to the cell whenever no operation is running, and after the end   *)
(* of the thread only pages and registers hold tags: what ssa_lastcheck    *)
(* looks for (ssa_tag_gc.cpp:338-415), for any number of tags.             *)
THEOREM CountsExact ==
    ASSUME NEW t0, Threads = {t0}
    PROVE  Spec => []LastCheck
PROOF
<1>1. CInv => LastCheck
  <2> SUFFICES ASSUME CInv, Quiet, NEW c \in Cell
               PROVE  /\ IF ref_count[c] = UNUSED THEN Refs(c) = {}
                         ELSE ref_count[c] = Cardinality(Refs(c))
                      /\ (\A t \in Threads : pc[t] = "off") => Refs(c) \subseteq AppTags
    BY DEF LastCheck
  <2>1. TypeOK /\ t0 \in Threads /\ Pending(t0) /\ Counts(t0) /\ CacheInv(t0)
    BY DEF CInv, CellInv, IInv
  <2>2. pc[t0] \in {"off", "idle"}
    BY <2>1 DEF Quiet
  <2>3. todo[t0] = <<>> /\ ssa_ref[tmp(t0)] = NULL
    BY <2>1, <2>2, NothingToDo
  <2>4. IF ref_count[c] = UNUSED THEN Refs(c) = {} ELSE ref_count[c] = Cardinality(Refs(c))
    <3>1. ~Counted(todo[t0], ssa_ref, c) /\ ~Discounted(todo[t0], ssa_ref, c) /\ pc[t0] \notin Taken
      BY <2>2, <2>3 DEF Counted, Discounted, Taken
    <3>2. Cardinality(RefsOf(ssa_ref, c)) \in Nat /\ (Cardinality(RefsOf(ssa_ref, c)) = 0 <=> RefsOf(ssa_ref, c) = {})
      BY RefsFinite
    <3>3. IF ref_count[c] = UNUSED THEN Cardinality(RefsOf(ssa_ref, c)) = 0
          ELSE ref_count[c] = Cardinality(RefsOf(ssa_ref, c)) + 0 - 0
      BY <2>1, <3>1, CountsForm
    <3>4. RefsOf(ssa_ref, c) = Refs(c)
      BY DEF RefsOf, Refs
    <3> QED BY <3>2, <3>3, <3>4
  <2>5. ASSUME pc[t0] = "off", NEW v \in Refs(c) PROVE v \in AppTags
    <3>1. v \in Tags /\ ssa_ref[v] # NULL
      BY <2>1, AllocatedRange DEF Refs
    <3>2. v # tmp(t0) /\ v \notin CacheTags(t0)
      BY <2>1, <2>3, <2>5, <3>1 DEF CacheInv
    <3> QED BY <3>1, <3>2 DEF Tags, AppTags, CacheTags, Cache, cl, cr, cv, tmp
  <2> QED BY <2>4, <2>5
<1> QED BY <1>1, CellInductive, PTL DEF Spec

(* In a program with one thread ssa_tag_combine's cache, when it is asked  *)
(* (ssa_tag_gc.cpp:213-216), holds the union of its two keys, whatever was *)
(* allocated, overwritten and collected since it was filled.               *)
THEOREM CacheAnswers ==
    ASSUME NEW t0, Threads = {t0}
    PROVE  Spec => []CacheCoherent
PROOF
<1>1. CInv => CacheCoherent
  <2> SUFFICES ASSUME CInv, pc[t0] = "combine", ssa_ref[cv(t0)] # NULL
               PROVE  bdd[ssa_ref[cv(t0)]] = bdd[ssa_ref[cl(t0)]] \cup bdd[ssa_ref[cr(t0)]]
    BY DEF CacheCoherent
  <2>1. t0 \in Threads /\ Pending(t0) /\ CacheInv(t0)
    BY DEF CInv, CellInv
  <2>2. Coherent(t0)
    BY <2>1, NothingToDo, QuietCoherent
  <2> QED BY <2>2 DEF Coherent
<1> QED BY <1>1, CellInductive, PTL DEF Spec

(* In a program with one thread ssa_gc asks for a block only when fewer    *)
(* than about half a block of cells is free in all the blocks together     *)
(* (ssa_tag_gc.cpp:133-136), for every block size.                         *)
THEOREM BlocksNeeded ==
    ASSUME NEW t0, Threads = {t0}
    PROVE  Spec => []BlocksBounded
PROOF
<1>1. CInv => BlocksBounded
  <2> SUFFICES ASSUME CInv, pc[t0] = "gc_add"
               PROVE  Cardinality({c \in Allocated : ref_count[c] \in {0, UNUSED}})
                         < SSA_BLK - 1 - SSA_BLK \div 2
    BY DEF BlocksBounded
  <2>1. t0 \in Threads /\ Scan(t0)
    BY DEF CInv, CellInv
  <2>2. Cardinality(Found(nblk * SSA_BLK)) < SSA_BLK - 1 - SSA_BLK \div 2
    BY <2>1 DEF Scan
  <2>3. Found(nblk * SSA_BLK) = {c \in Allocated : ref_count[c] \in {0, UNUSED}}
    BY DEF Found, Allocated, Reclaimable
  <2> QED BY <2>2, <2>3
<1> QED BY <1>1, CellInductive, PTL DEF Spec

(* In a program with one thread a cell is never refilled under a tag: the  *)
(* set a tag denotes changes only by giving the tag another pointer.       *)
THEOREM ValuesKept ==
    ASSUME NEW t0, Threads = {t0}
    PROVE  Spec => ValueStable
PROOF
<1> DEFINE Kept == \A v \in Tags : ssa_ref[v] # NULL /\ ssa_ref'[v] = ssa_ref[v]
                      => bdd'[ssa_ref[v]] = bdd[ssa_ref[v]]
<1>1. CInv /\ [Next]_vars => [Kept]_vars
  <2> SUFFICES ASSUME CInv, Next PROVE Kept
    OBVIOUS
  <2>1. TypeOK /\ t0 \in Threads /\ Ring(t0) /\ (Request(t0) \/ Step(t0))
    BY DEF CInv, CellInv, IInv, Next
  <2>2. CASE FillVictim(t0)
    <3>1. Refs(victim[t0]) = {}
      BY <2>1, <2>2 DEF FillVictim, Goto, Ring, Taken
    <3> QED BY <2>1, <2>2, <3>1, FillValue
  <2>3. CASE ~FillVictim(t0)
    <3> USE DEF cellVars
    <3>1. CASE Request(t0)
      BY <3>1, SMTT(60) DEF Request, ThreadStart, ThreadFini, TaintByte, LoadByte, StoreByte, ClearByte,
                  CombineByte, Begin
    <3>2. CASE Step(t0)
      BY <2>3, <3>2 DEF Step, CombineEnter, CombineCall, CombineCompare, ReadHead, TestTail, TryLock,
             PopCell, TakeVictim, MarkVictim, AllocCall, GcBegin, GcCell, GcEnd, AddBlk, GcUnlock,
             LoadCount, StoreCount, SetPointer, Finish
    <3> QED BY <2>1, <3>1, <3>2
  <2> QED BY <2>2, <2>3
<1> QED BY <1>1, CellInductive, PTL DEF Spec, ValueStable

-----------------------------------------------------------------------------
(* What an operation stores: the one step that sets a byte or a register,  *)
(* and the variable it takes the pointer from, through the temporary or    *)
(* directly.                                                               *)
Writes(s, i) == s[i].op \in Setting /\ s[i].a \in AppTags
Via(t, s, i) == s[i].op = "move" /\ i > 2 /\ ToTmp(t, s, i - 2)
Origin(t, s, i) == IF Via(t, s, i) THEN s[i - 2].b ELSE s[i].b
Since(t, s, i) == IF Via(t, s, i) THEN i - 2 ELSE i
Straight(t, d, s, i) ==
    /\ s[i].a = d
    /\ \A j \in 1 .. Len(s) : Writes(s, j) => j = i
    /\ \A j \in 1 .. Since(t, s, i) - 1 :
          s[j].op \in Setting => s[j].op # "move" /\ s[j].a # Origin(t, s, i)

(* The set it stores, and the set the request asks for. *)
Stored(t, s, i) == IF s[i].op = "null" THEN {} ELSE Value(Origin(t, s, i))
Wanted(c) ==
    IF c.op = "alloc" THEN {c.off}
    ELSE IF c.op \in {"load", "copy"} THEN Value(c.src)
    ELSE IF c.op = "clear" THEN {}
    ELSE Value(c.dst) \cup Value(c.src)

(* The bytes and registers a request names. *)
Names(c) ==
    /\ c.op \notin {"none", "fini"} => c.dst \in AppTags
    /\ c.op \in {"load", "copy", "combine"} => c.src \in AppTags
Asked(t) ==
    /\ pc[t] \in {"off", "idle"} <=> call[t].op = "none"
    /\ call[t].op = "fini" => pc[t] = "run"
    /\ Names(call[t])
    /\ pc[t] = "fill" /\ call[t].op = "alloc" => res[t] = {call[t].off}
Delivers(t) ==
    \A i \in 1 .. Len(todo[t]) : Writes(todo[t], i) =>
        /\ call[t].op # "fini" /\ Straight(t, call[t].dst, todo[t], i)
        /\ Stored(t, todo[t], i) = Wanted(call[t])
Delivery(t) == Asked(t) /\ Delivers(t)

LEMMA AppApart ==
    ASSUME NEW t \in Threads
    PROVE  /\ AppTags \subseteq Tags /\ Mem \subseteq AppTags /\ RegTag(t) \subseteq AppTags
           /\ tmp(t) \notin AppTags /\ \A x \in CacheTags(t) : x \notin AppTags
PROOF
<1>1. AppTags \subseteq Tags /\ Mem \subseteq AppTags /\ RegTag(t) \subseteq AppTags
  BY DEF AppTags, Tags, RegTag
<1>2. ASSUME NEW n \in Cache \cup {"tmp"} PROVE <<t, n>> \notin AppTags
  <2>1. <<t, n>> \in Threads \X (Regs \cup Cache \cup {"tmp"})
    OBVIOUS
  <2>2. <<t, n>> \notin Mem /\ n \notin Regs
    BY <2>1, TagAssumption DEF Cache
  <2> QED BY <2>2 DEF AppTags
<1> QED BY <1>1, <1>2 DEF CacheTags, cl, cr, cv, tmp, Cache

(* Steps that store the set of v in d, and nothing else in a byte or in a  *)
(* register.                                                               *)
Carries(t, d, s, v) ==
    /\ \E i \in 1 .. Len(s) : Writes(s, i)
    /\ \A i \in 1 .. Len(s) : Writes(s, i) =>
          Straight(t, d, s, i) /\ s[i].op # "null" /\ Origin(t, s, i) = v

LEMMA CarriesMove ==
    ASSUME NEW t \in Threads, NEW d \in Mem \cup RegTag(t)
    PROVE  Carries(t, d, MoveTo(d, tmp(t)), tmp(t))
PROOF
<1> DEFINE s == MoveTo(d, tmp(t))
<1>1. Len(s) = 2 /\ s[1] = dec(d) /\ s[2] = move(d, tmp(t))
  BY DEF MoveTo
<1> HIDE DEF s
<1>2. s[1].op = "dec" /\ s[2].op = "move" /\ s[2].a = d /\ s[2].b = tmp(t)
  BY <1>1 DEF dec, move
<1>3. d \in AppTags
  BY AppApart
<1>4. ~Writes(s, 1) /\ Writes(s, 2)
  BY <1>2, <1>3 DEF Writes, Setting
<1>5. 2 \in 1 .. Len(s) /\ \A i \in 1 .. Len(s) : i = 1 \/ i = 2
  BY <1>1
<1>6. Origin(t, s, 2) = tmp(t) /\ Since(t, s, 2) = 2
  BY <1>2 DEF Origin, Since, Via
<1>7. Straight(t, d, s, 2)
  <2>1. ASSUME NEW j \in 1 .. 2 - 1 PROVE s[j].op \notin Setting
    BY <1>2 DEF Setting
  <2> QED BY <1>2, <1>4, <1>5, <1>6, <2>1 DEF Straight
<1> QED BY <1>2, <1>4, <1>5, <1>6, <1>7 DEF Carries, s

LEMMA CarriesReturn ==
    ASSUME NEW t \in Threads, NEW v \in TagsOf(t), NEW d \in Mem \cup RegTag(t)
    PROVE  Carries(t, d, Construct(tmp(t), v) \o MoveTo(d, tmp(t)), v)
PROOF
<1> DEFINE p == Construct(tmp(t), v)
           r == MoveTo(d, tmp(t))
           s == p \o r
<1>1. d \in TagsOf(t) /\ tmp(t) \in TagsOf(t) /\ tmp(t) \notin AppTags /\ d \in AppTags
  BY OwnTags, AppApart
<1>2. p \in Seq(MicroOp(t)) /\ r \in Seq(MicroOp(t))
  BY <1>1, StepsType
<1>3. Len(p) = 2 /\ p[1] = inc(v) /\ p[2] = copy(tmp(t), v)
  BY <1>2 DEF Construct
<1>4. Len(r) = 2 /\ r[1] = dec(d) /\ r[2] = move(d, tmp(t))
  BY <1>2 DEF MoveTo
<1> HIDE DEF p, r
<1>5. /\ s \in Seq(MicroOp(t)) /\ Len(s) = Len(p) + Len(r)
      /\ \A i \in 1 .. Len(p) + Len(r) : s[i] = IF i <= Len(p) THEN p[i] ELSE r[i - Len(p)]
  BY <1>2, ConcatProperties
<1> HIDE DEF s
<1>6. /\ Len(s) = 4 /\ s[1] = inc(v) /\ s[2] = copy(tmp(t), v)
      /\ s[3] = dec(d) /\ s[4] = move(d, tmp(t))
  BY <1>3, <1>4, <1>5
<1>7. /\ s[1].op = "inc" /\ s[2].op = "copy" /\ s[2].a = tmp(t) /\ s[2].b = v
      /\ s[3].op = "dec" /\ s[4].op = "move" /\ s[4].a = d /\ s[4].b = tmp(t)
  BY <1>6 DEF inc, copy, dec, move
<1>8. ~Writes(s, 1) /\ ~Writes(s, 2) /\ ~Writes(s, 3) /\ Writes(s, 4)
  BY <1>1, <1>7 DEF Writes, Setting
<1>9. 4 \in 1 .. Len(s) /\ \A i \in 1 .. Len(s) : i \in {1, 2, 3, 4}
  BY <1>6
<1>10. Origin(t, s, 4) = v /\ Since(t, s, 4) = 2
  <2>1. Via(t, s, 4) /\ 4 - 2 = 2
    BY <1>7 DEF Via, ToTmp
  <2> QED BY <1>7, <2>1 DEF Origin, Since
<1>11. Straight(t, d, s, 4)
  <2>1. ASSUME NEW j \in 1 .. 2 - 1 PROVE s[j].op \notin Setting
    BY <1>7 DEF Setting
  <2> QED BY <1>7, <1>8, <1>9, <1>10, <2>1 DEF Straight
<1> QED BY <1>7, <1>8, <1>9, <1>10, <1>11 DEF Carries, s, p, r

LEMMA CarriesAssign ==
    ASSUME NEW t \in Threads, NEW d \in Mem \cup RegTag(t), NEW v
    PROVE  Carries(t, d, Assign(d, v), v)
PROOF
<1> DEFINE s == Assign(d, v)
<1>1. Len(s) = 3 /\ s[1] = inc(v) /\ s[2] = dec(d) /\ s[3] = copy(d, v)
  BY DEF Assign
<1> HIDE DEF s
<1>2. s[1].op = "inc" /\ s[2].op = "dec" /\ s[3].op = "copy" /\ s[3].a = d /\ s[3].b = v
  BY <1>1 DEF inc, dec, copy
<1>3. d \in AppTags
  BY AppApart
<1>4. ~Writes(s, 1) /\ ~Writes(s, 2) /\ Writes(s, 3)
  BY <1>2, <1>3 DEF Writes, Setting
<1>5. 3 \in 1 .. Len(s) /\ \A i \in 1 .. Len(s) : i \in {1, 2, 3}
  BY <1>1
<1>6. Origin(t, s, 3) = v /\ Since(t, s, 3) = 3
  BY <1>2 DEF Origin, Since, Via
<1>7. Straight(t, d, s, 3)
  <2>1. ASSUME NEW j \in 1 .. 3 - 1 PROVE s[j].op \notin Setting
    BY <1>2 DEF Setting
  <2> QED BY <1>2, <1>4, <1>5, <1>6, <2>1 DEF Straight
<1> QED BY <1>2, <1>4, <1>5, <1>6, <1>7 DEF Carries, s

LEMMA CarriesAlloc ==
    ASSUME NEW t \in Threads, NEW d \in Mem \cup RegTag(t)
    PROVE  Carries(t, d, Assign(d, tmp(t)) \o Destroy(tmp(t)), tmp(t))
PROOF
<1> DEFINE y == tmp(t)
           r == Destroy(y)
           s == Assign(d, y) \o r
<1>1. d \in TagsOf(t) /\ y \in TagsOf(t) /\ d \in AppTags /\ y \notin AppTags
  BY OwnTags, AppApart
<1>2. r \in Seq(MicroOp(t)) /\ Len(r) = 2 /\ r[1] = dec(y) /\ r[2] = null(y)
  <2>1. r \in Seq(MicroOp(t))
    BY <1>1, StepsType
  <2> QED BY <2>1 DEF Destroy
<1> HIDE DEF r, y
<1>3. /\ Rest(r, s, 3) /\ s[1] = inc(y) /\ s[2] = dec(d) /\ s[3] = copy(d, y)
  BY <1>1, <1>2, AssignFirst
<1> HIDE DEF s
<1>4. Len(s) = 5 /\ s[4] = dec(y) /\ s[5] = null(y)
  <2>1. Len(s) = 5 /\ s[1 + 3] = r[1] /\ s[2 + 3] = r[2]
    BY <1>2, <1>3 DEF Rest
  <2> QED BY <1>2, <2>1
<1>5. /\ s[1].op = "inc" /\ s[2].op = "dec" /\ s[3].op = "copy" /\ s[3].a = d /\ s[3].b = y
      /\ s[4].op = "dec" /\ s[5].op = "null" /\ s[5].a = y
  BY <1>3, <1>4 DEF inc, dec, copy, null
<1>6. ~Writes(s, 1) /\ ~Writes(s, 2) /\ Writes(s, 3) /\ ~Writes(s, 4) /\ ~Writes(s, 5)
  BY <1>1, <1>5 DEF Writes, Setting
<1>7. 3 \in 1 .. Len(s) /\ \A i \in 1 .. Len(s) : i \in {1, 2, 3, 4, 5}
  BY <1>4
<1>8. Origin(t, s, 3) = y /\ Since(t, s, 3) = 3
  BY <1>5 DEF Origin, Since, Via
<1>9. Straight(t, d, s, 3)
  <2>1. ASSUME NEW j \in 1 .. 3 - 1 PROVE s[j].op \notin Setting
    BY <1>5 DEF Setting
  <2> QED BY <1>5, <1>6, <1>7, <1>8, <2>1 DEF Straight
<1>10. Carries(t, d, s, y)
  BY <1>5, <1>6, <1>7, <1>8, <1>9 DEF Carries
<1> QED BY <1>10 DEF s, r, y

(* Assigning to another variable first does not change what is stored. *)
LEMMA CarriesAfter ==
    ASSUME NEW t \in Threads, NEW x \in TagsOf(t), NEW y \in TagsOf(t), x \notin AppTags, x # tmp(t),
           NEW d, NEW v, x # v, NEW r \in Seq(MicroOp(t)), Carries(t, d, r, v)
    PROVE  Carries(t, d, Assign(x, y) \o r, v)
PROOF
<1> DEFINE s == Assign(x, y) \o r
<1>1. /\ Rest(r, s, 3) /\ Len(r) \in Nat
      /\ s[1] = inc(y) /\ s[2] = dec(x) /\ s[3] = copy(x, y)
  BY AssignFirst
<1> HIDE DEF s
<1>2. /\ s[1].op = "inc" /\ s[2].op = "dec" /\ s[3].op = "copy" /\ s[3].a = x
  BY <1>1 DEF inc, dec, copy
<1>3. Len(s) = Len(r) + 3 /\ \A i \in 1 .. Len(r) : s[i + 3] = r[i]
  BY <1>1 DEF Rest
<1>4. ASSUME NEW j \in 1 .. Len(s), j > 3
      PROVE  j - 3 \in 1 .. Len(r) /\ s[j] = r[j - 3] /\ (Writes(s, j) <=> Writes(r, j - 3))
  <2>1. j - 3 \in 1 .. Len(r) /\ (j - 3) + 3 = j
    BY <1>1, <1>3, <1>4
  <2>2. s[j] = r[j - 3]
    BY <1>3, <2>1
  <2> QED BY <2>1, <2>2 DEF Writes
<1>5. ASSUME NEW j \in 1 .. Len(s), Writes(s, j) PROVE j > 3
  BY <1>1, <1>2, <1>3, <1>5 DEF Writes, Setting
<1>6. \E i \in 1 .. Len(s) : Writes(s, i)
  <2>1. PICK i \in 1 .. Len(r) : Writes(r, i)
    BY DEF Carries
  <2>2. i + 3 \in 1 .. Len(s) /\ s[i + 3] = r[i]
    BY <1>1, <1>3
  <2> QED BY <2>1, <2>2 DEF Writes
<1>7. ASSUME NEW i \in 1 .. Len(s), Writes(s, i)
      PROVE  Straight(t, d, s, i) /\ s[i].op # "null" /\ Origin(t, s, i) = v
  <2> DEFINE k == i - 3
  <2>1. i > 3 /\ k \in 1 .. Len(r) /\ s[i] = r[k] /\ Writes(r, k) /\ i = k + 3
    BY <1>4, <1>5, <1>7
  <2> HIDE DEF k
  <2>2. Straight(t, d, r, k) /\ r[k].op # "null" /\ Origin(t, r, k) = v
    BY <2>1 DEF Carries
  <2>3. Via(t, s, i) <=> Via(t, r, k)
    <3>1. CASE k = 1
      <4>1. i - 2 = 2
        BY <2>1, <3>1
      <4> QED BY <1>2, <3>1, <4>1 DEF Via, ToTmp
    <3>2. CASE k = 2
      <4>1. i - 2 = 3
        BY <2>1, <3>2
      <4> QED BY <1>2, <3>2, <4>1 DEF Via, ToTmp
    <3>3. CASE k > 2
      <4>1. i - 2 = (k - 2) + 3 /\ k - 2 \in 1 .. Len(r) /\ i > 2
        BY <1>1, <2>1, <3>3
      <4>2. s[i - 2] = r[k - 2]
        BY <1>3, <4>1
      <4> QED BY <2>1, <3>3, <4>1, <4>2 DEF Via, ToTmp
    <3> QED BY <2>1, <3>1, <3>2, <3>3
  <2>4. Via(t, s, i) => s[i - 2] = r[k - 2]
    <3>1. Via(t, s, i) => i - 2 = (k - 2) + 3 /\ k - 2 \in 1 .. Len(r)
      BY <1>1, <2>1, <2>3 DEF Via
    <3> QED BY <1>3, <3>1
  <2>5. Origin(t, s, i) = v
    BY <2>1, <2>2, <2>3, <2>4 DEF Origin
  <2>6. Since(t, s, i) = Since(t, r, k) + 3 /\ Since(t, r, k) \in Int /\ Since(t, r, k) <= k
    BY <2>1, <2>3 DEF Since
  <2>7. ASSUME NEW j \in 1 .. Len(s), Writes(s, j) PROVE j = i
    <3>1. j - 3 \in 1 .. Len(r) /\ Writes(r, j - 3)
      BY <1>4, <1>5, <2>7
    <3>2. j - 3 = k
      BY <2>2, <3>1 DEF Straight
    <3> QED BY <2>1, <3>2
  <2>8. ASSUME NEW j \in 1 .. Since(t, s, i) - 1, s[j].op \in Setting
        PROVE  s[j].op # "move" /\ s[j].a # v
    <3>1. CASE j > 3
      <4>1. j - 3 \in 1 .. Since(t, r, k) - 1 /\ j \in 1 .. Len(s)
        BY <1>1, <1>3, <2>1, <2>6, <3>1
      <4>2. s[j] = r[j - 3]
        BY <1>4, <3>1, <4>1
      <4> QED BY <2>2, <2>8, <4>1, <4>2 DEF Straight
    <3>2. CASE j \in 1 .. 3
      BY <1>2, <2>8, <3>2 DEF Setting
    <3> QED BY <2>6, <3>1, <3>2
  <2>9. Straight(t, d, s, i)
    BY <2>1, <2>2, <2>5, <2>7, <2>8 DEF Straight
  <2> QED BY <2>1, <2>2, <2>5, <2>9
<1> QED BY <1>6, <1>7 DEF Carries, s

(* ... nor does filling the cache. *)
LEMMA CarriesFill ==
    ASSUME NEW t \in Threads, NEW d \in RegTag(t), NEW b \in RegTag(t), NEW v \in {d, b, tmp(t)},
           NEW z \in Seq(MicroOp(t)), Carries(t, d, z, v)
    PROVE  Carries(t, d, FillCache(t, d, b, v) \o z, v)
PROOF
<1> DEFINE A == Assign(cl(t), d)
           B == Assign(cr(t), b)
           C == Assign(cv(t), v)
           s3 == C \o z
           s2 == B \o s3
           s1 == A \o s2
<1>1. /\ d \in TagsOf(t) /\ b \in TagsOf(t) /\ v \in TagsOf(t)
      /\ cl(t) \in TagsOf(t) /\ cr(t) \in TagsOf(t) /\ cv(t) \in TagsOf(t)
  BY OwnTags
<1>2. cl(t) # tmp(t) /\ cr(t) # tmp(t) /\ cv(t) # tmp(t)
  BY OwnApart DEF CacheTags
<1>3. cl(t) \notin AppTags /\ cr(t) \notin AppTags /\ cv(t) \notin AppTags
  BY AppApart DEF CacheTags
<1>4. cl(t) # v /\ cr(t) # v /\ cv(t) # v
  <2>1. d \in AppTags /\ b \in AppTags
    BY AppApart
  <2> QED BY <1>2, <1>3, <2>1
<1>5. FillCache(t, d, b, v) \o z = s1
  <2>1. WithCache(t, d, b, v, z) = InTurn(t, d, b, v, z)
    BY <1>1, FillFirst
  <2> QED BY <2>1, Zenon DEF WithCache, InTurn
<1>6. s3 \in Seq(MicroOp(t)) /\ Carries(t, d, s3, v)
  <2>1. s3 \in Seq(MicroOp(t))
    BY <1>1, AssignFirst
  <2> QED BY <1>1, <1>2, <1>3, <1>4, <2>1, CarriesAfter
<1> HIDE DEF s3
<1>7. s2 \in Seq(MicroOp(t)) /\ Carries(t, d, s2, v)
  <2>1. s2 \in Seq(MicroOp(t))
    BY <1>1, <1>6, AssignFirst
  <2> QED BY <1>1, <1>2, <1>3, <1>4, <1>6, <2>1, CarriesAfter
<1> HIDE DEF s2
<1>8. Carries(t, d, s1, v)
  BY <1>1, <1>2, <1>3, <1>4, <1>7, CarriesAfter
<1> QED BY <1>5, <1>8

LEMMA CarriesReuse ==
    ASSUME NEW t \in Threads, NEW d \in RegTag(t), NEW b \in RegTag(t), NEW v \in {d, b}
    PROVE  Carries(t, d, FillCache(t, d, b, v) \o Construct(tmp(t), v) \o MoveTo(d, tmp(t)), v)
PROOF
<1> DEFINE f == FillCache(t, d, b, v)
           m == Construct(tmp(t), v)
           n == MoveTo(d, tmp(t))
           z == m \o n
<1>1. /\ d \in TagsOf(t) /\ b \in TagsOf(t) /\ v \in TagsOf(t) /\ tmp(t) \in TagsOf(t)
      /\ cl(t) \in TagsOf(t) /\ cr(t) \in TagsOf(t) /\ cv(t) \in TagsOf(t)
  BY OwnTags
<1>2. Carries(t, d, z, v)
  BY <1>1, CarriesReturn
<1>3. f \in Seq(MicroOp(t)) /\ m \in Seq(MicroOp(t)) /\ n \in Seq(MicroOp(t))
  <2>1. m \in Seq(MicroOp(t)) /\ n \in Seq(MicroOp(t))
    BY <1>1, StepsType
  <2>2. /\ Assign(cl(t), d) \in Seq(MicroOp(t)) /\ Assign(cr(t), b) \in Seq(MicroOp(t))
        /\ Assign(cv(t), v) \in Seq(MicroOp(t))
    BY <1>1, StepsType
  <2> QED BY <2>1, <2>2 DEF FillCache
<1> HIDE DEF f, m, n
<1>4. (f \o m) \o n = f \o z
  BY <1>3, ConcatAssociative, SMTT(60)
<1>5. z \in Seq(MicroOp(t))
  BY <1>3, ConcatProperties
<1> HIDE DEF z
<1>6. Carries(t, d, f \o z, v)
  BY <1>2, <1>5, CarriesFill DEF f
<1> QED BY <1>4, <1>6 DEF f, m, n

LEMMA ClearStores ==
    ASSUME NEW t \in Threads, NEW d \in Mem \cup RegTag(t)
    PROVE  LET s == Clear(d) IN
           /\ \E i \in 1 .. Len(s) : Writes(s, i)
           /\ \A i \in 1 .. Len(s) : Writes(s, i) => Straight(t, d, s, i) /\ s[i].op = "null"
PROOF
<1> DEFINE s == Clear(d)
<1>1. Len(s) = 2 /\ s[1] = dec(d) /\ s[2] = null(d)
  BY DEF Clear
<1> HIDE DEF s
<1>2. s[1].op = "dec" /\ s[2].op = "null" /\ s[2].a = d
  BY <1>1 DEF dec, null
<1>3. d \in AppTags
  BY AppApart
<1>4. ~Writes(s, 1) /\ Writes(s, 2)
  BY <1>2, <1>3 DEF Writes, Setting
<1>5. 2 \in 1 .. Len(s) /\ \A i \in 1 .. Len(s) : i = 1 \/ i = 2
  BY <1>1
<1>6. Since(t, s, 2) = 2
  BY <1>2 DEF Since, Via
<1>7. Straight(t, d, s, 2)
  <2>1. ASSUME NEW j \in 1 .. 2 - 1 PROVE s[j].op \notin Setting
    BY <1>2 DEF Setting
  <2> QED BY <1>2, <1>4, <1>5, <1>6, <2>1 DEF Straight
<1> QED BY <1>2, <1>4, <1>5, <1>7 DEF s

(* The end of a thread touches no byte and no register. *)
LEMMA FiniStores ==
    ASSUME NEW t \in Threads
    PROVE  LET s == Destroy(cl(t)) \o Destroy(cr(t)) \o Destroy(cv(t)) IN
           \A i \in 1 .. Len(s) : ~Writes(s, i)
PROOF
<1> DEFINE A == Destroy(cl(t))
           B == Destroy(cr(t))
           C == Destroy(cv(t))
           p == A \o B
           s == p \o C
<1>1. A \in Seq(MicroOp(t)) /\ B \in Seq(MicroOp(t)) /\ C \in Seq(MicroOp(t))
  BY OwnTags, StepsType
<1>2. /\ Len(A) = 2 /\ \A i \in 1 .. 2 : A[i].a = cl(t)
      /\ Len(B) = 2 /\ \A i \in 1 .. 2 : B[i].a = cr(t)
      /\ Len(C) = 2 /\ \A i \in 1 .. 2 : C[i].a = cv(t)
  BY DEF Destroy, dec, null
<1> HIDE DEF A, B, C
<1>3. /\ p \in Seq(MicroOp(t)) /\ Len(p) = Len(A) + Len(B)
      /\ \A i \in 1 .. Len(A) + Len(B) : p[i] = IF i <= Len(A) THEN A[i] ELSE B[i - Len(A)]
  BY <1>1, ConcatProperties
<1> HIDE DEF p
<1>4. /\ s \in Seq(MicroOp(t)) /\ Len(s) = Len(p) + Len(C)
      /\ \A i \in 1 .. Len(p) + Len(C) : s[i] = IF i <= Len(p) THEN p[i] ELSE C[i - Len(p)]
  <2>1. p \in Seq(MicroOp(t)) /\ C \in Seq(MicroOp(t))
    BY <1>1, <1>3
  <2> QED BY <2>1, ConcatProperties
<1> HIDE DEF s
<1>5. \A i \in 1 .. 4 : p[i].a \in CacheTags(t)
  BY <1>2, <1>3 DEF CacheTags
<1>6. \A i \in 1 .. Len(s) : s[i].a \in CacheTags(t)
  BY <1>2, <1>3, <1>4, <1>5 DEF CacheTags
<1> QED BY <1>6, AppApart DEF Writes, s, p, A, B, C

(* Doing the first step, which stores nothing, leaves the rest to do; a    *)
(* copy to the temporary makes the temporary the origin.                   *)
LEMMA StraightTail ==
    ASSUME NEW t \in Threads, NEW s \in Seq(MicroOp(t)), s # <<>>, Members(t, s), Temporary(t, s),
           NEW d, NEW k \in 1 .. Len(Tail(s)), Writes(Tail(s), k)
    PROVE  /\ k + 1 \in 1 .. Len(s) /\ Writes(s, k + 1) /\ Tail(s)[k] = s[k + 1]
           /\ Straight(t, d, s, k + 1) =>
                /\ Straight(t, d, Tail(s), k) /\ ~Writes(s, 1)
                /\ \/ /\ Origin(t, Tail(s), k) = Origin(t, s, k + 1)
                      /\ s[1].op \in Setting => s[1].op # "move" /\ s[1].a # Origin(t, s, k + 1)
                   \/ /\ ToTmp(t, s, 1) /\ Origin(t, s, k + 1) = s[1].b
                      /\ Origin(t, Tail(s), k) = tmp(t) /\ s[k + 1].op = "move"
PROOF
<1> DEFINE r == Tail(s)
           i == k + 1
<1>1. Rest(r, s, 1) /\ Len(r) \in Nat /\ Len(s) \in Nat
  BY TailRest
<1> HIDE DEF r
<1>2. Len(s) = Len(r) + 1 /\ \A j \in 1 .. Len(r) : r[j] = s[j + 1]
  BY <1>1 DEF Rest
<1>3. k \in 1 .. Len(r) /\ i \in 1 .. Len(s) /\ i > 1 /\ r[k] = s[i] /\ 1 \in 1 .. Len(s)
  BY <1>1, <1>2 DEF r
<1>4. \A j \in 1 .. Len(r) : (Writes(r, j) <=> Writes(s, j + 1)) /\ (ToTmp(t, r, j) <=> ToTmp(t, s, j + 1))
  BY <1>2 DEF Writes, ToTmp
<1>5. Writes(s, i)
  BY <1>4 DEF r
<1>6. ASSUME Straight(t, d, s, i)
      PROVE  /\ Straight(t, d, r, k) /\ ~Writes(s, 1)
             /\ \/ /\ Origin(t, r, k) = Origin(t, s, i)
                   /\ s[1].op \in Setting => s[1].op # "move" /\ s[1].a # Origin(t, s, i)
                \/ /\ ToTmp(t, s, 1) /\ Origin(t, s, i) = s[1].b
                   /\ Origin(t, r, k) = tmp(t) /\ s[i].op = "move"
  <2>1. ~Writes(s, 1)
    BY <1>3, <1>6 DEF Straight
  <2>2. ASSUME NEW j \in 1 .. Len(r), Writes(r, j) PROVE j = k
    <3>1. j + 1 \in 1 .. Len(s) /\ Writes(s, j + 1)
      BY <1>1, <1>2, <1>4, <2>2
    <3>2. j + 1 = i
      BY <1>6, <3>1 DEF Straight
    <3> QED BY <3>2
  <2>3. r[k].a = d
    BY <1>3, <1>6 DEF Straight
  <2>4. CASE Via(t, s, i) /\ i = 3
    <3>1. ToTmp(t, s, 1) /\ Origin(t, s, i) = s[1].b /\ s[i].op = "move" /\ k = 2
      BY <2>4 DEF Via, Origin
    <3>2. ~Via(t, r, k) /\ Origin(t, r, k) = s[i].b /\ Since(t, r, k) = k
      BY <1>3, <3>1 DEF Via, Origin, Since
    <3>3. s[i].b = tmp(t)
      BY <1>3, <3>1 DEF Members, Member
    <3>4. s[2].op \notin Setting
      <4>1. Member(t, s, 1) /\ s[1].op = "copy" /\ 1 # Len(s)
        BY <1>3, <3>1, <2>4 DEF Members, ToTmp
      <4>2. Begins(s, 2)
        BY <4>1 DEF Member, Setting
      <4> QED BY <4>2 DEF Begins, Setting
    <3>5. \A j \in 1 .. Since(t, r, k) - 1 : r[j].op \notin Setting
      <4>1. r[1] = s[2]
        BY <1>2, <3>1
      <4> QED BY <3>1, <3>2, <3>4, <4>1
    <3>6. Straight(t, d, r, k)
      BY <2>2, <2>3, <3>5 DEF Straight
    <3> QED BY <2>1, <3>1, <3>2, <3>3, <3>6
  <2>5. CASE ~(Via(t, s, i) /\ i = 3)
    <3>1. Via(t, s, i) <=> Via(t, r, k)
      <4>1. CASE i > 3
        <5>1. k - 2 \in 1 .. Len(r) /\ (k - 2) + 1 = i - 2 /\ k > 2 /\ i > 2
          BY <1>1, <1>3, <4>1
        <5> QED BY <1>3, <1>4, <5>1 DEF Via
      <4>2. CASE i \in {2, 3}
        BY <1>3, <2>5, <4>2 DEF Via
      <4> QED BY <1>3, <4>1, <4>2
    <3>2. Via(t, s, i) => r[k - 2] = s[i - 2] /\ i > 3
      <4>1. Via(t, s, i) => k - 2 \in 1 .. Len(r) /\ (k - 2) + 1 = i - 2 /\ i > 3
        BY <1>1, <1>3, <2>5 DEF Via
      <4> QED BY <1>2, <4>1
    <3>3. /\ Origin(t, r, k) = Origin(t, s, i)
          /\ Since(t, s, i) = Since(t, r, k) + 1
          /\ Since(t, s, i) \in Int /\ Since(t, r, k) \in Int
          /\ Since(t, s, i) > 1 /\ Since(t, s, i) <= i
      BY <1>3, <3>1, <3>2 DEF Origin, Since
    <3>4. s[1].op \in Setting => s[1].op # "move" /\ s[1].a # Origin(t, s, i)
      <4>1. 1 \in 1 .. Since(t, s, i) - 1
        BY <3>3
      <4> QED BY <1>6, <4>1 DEF Straight
    <3>5. ASSUME NEW j \in 1 .. Since(t, r, k) - 1, r[j].op \in Setting
          PROVE  r[j].op # "move" /\ r[j].a # Origin(t, r, k)
      <4>1. j + 1 \in 1 .. Since(t, s, i) - 1 /\ j \in 1 .. Len(r)
        BY <1>1, <1>3, <3>3
      <4>2. r[j] = s[j + 1]
        BY <1>2, <4>1
      <4> QED BY <1>6, <3>3, <3>5, <4>1, <4>2 DEF Straight
    <3>6. Straight(t, d, r, k)
      BY <2>2, <2>3, <3>5 DEF Straight
    <3> QED BY <2>1, <3>3, <3>4, <3>6
  <2> QED BY <2>4, <2>5
<1> QED BY <1>3, <1>5, <1>6 DEF r

-----------------------------------------------------------------------------
(* The invariant of the refinement.                                        *)

(* A cache that has a left key has a value. *)
CacheFull(t) ==
    ~Filling(t) /\ ~(pc[t] = "run" /\ call[t].op = "fini") =>
        ssa_ref[cl(t)] = NULL \/ ssa_ref[cv(t)] # NULL
StoreInv(t) == Delivery(t) /\ CacheFull(t)

(* The steps of the abstract store. *)
Kept == \A v \in AppTags : Value(v)' = Value(v)
Stutters(t) == Kept /\ AbsReq(t)' = AbsReq(t) /\ (AbsDone(t)' <=> AbsDone(t))
Asks(t) ==
    /\ Kept /\ AbsReq(t) = AbsNone /\ AbsReq(t)' \in Store!Request
    /\ ~AbsDone(t) /\ ~AbsDone(t)'
Does(t) ==
    /\ AbsReq(t) # AbsNone /\ AbsReq(t)' = AbsReq(t) /\ ~AbsDone(t) /\ AbsDone(t)'
    /\ \A v \in AppTags : Value(v)' = IF v = call[t].dst THEN Wanted(call[t]) ELSE Value(v)
Replies(t) == Kept /\ AbsReq(t)' = AbsNone /\ AbsDone(t) /\ ~AbsDone(t)'
Abstract(t) == Stutters(t) \/ Asks(t) \/ Does(t) \/ Replies(t)

LEMMA ReqForm ==
    ASSUME NEW t \in Threads
    PROVE  /\ AbsReq(t) =
                IF call[t].op \in {"none", "fini"} THEN AbsNone
                ELSE IF call[t].op = "alloc" THEN [op |-> "alloc", dst |-> call[t].dst, off |-> call[t].off]
                ELSE IF call[t].op = "clear" THEN [op |-> "clear", dst |-> call[t].dst]
                ELSE [op |-> call[t].op, dst |-> call[t].dst, src |-> call[t].src]
           /\ AbsReq(t)' =
                IF call'[t].op \in {"none", "fini"} THEN AbsNone
                ELSE IF call'[t].op = "alloc" THEN [op |-> "alloc", dst |-> call'[t].dst, off |-> call'[t].off]
                ELSE IF call'[t].op = "clear" THEN [op |-> "clear", dst |-> call'[t].dst]
                ELSE [op |-> call'[t].op, dst |-> call'[t].dst, src |-> call'[t].src]
BY DEF AbsReq

LEMMA ReqNone ==
    ASSUME NEW t \in Threads
    PROVE  AbsReq(t) = AbsNone <=> call[t].op \in {"none", "fini"}
PROOF
<1>1. CASE call[t].op \in {"none", "fini"}
  BY <1>1, ReqForm
<1>2. CASE call[t].op \notin {"none", "fini"}
  <2>1. AbsReq(t).op = call[t].op
    BY <1>2, ReqForm
  <2> QED BY <1>2, <2>1 DEF AbsNone
<1> QED BY <1>1, <1>2

(* An operation that runs is done once its store is. *)
LEMMA DoneSteps ==
    ASSUME NEW t \in Threads, NEW s \in Seq(MicroOp(t)), NEW d \in AppTags,
           \A i \in 1 .. Len(s) : Writes(s, i) => s[i].a = d
    PROVE  (\A i \in 1 .. Len(s) : s[i].op \in {"inc", "dec"} \/ s[i].a # d)
             <=> \A i \in 1 .. Len(s) : ~Writes(s, i)
PROOF
<1>1. \A i \in 1 .. Len(s) : s[i] \in MicroOp(t)
  OBVIOUS
<1>2. \A i \in 1 .. Len(s) : s[i].op \in {"inc", "dec"} \/ s[i].op \in Setting
  BY <1>1 DEF MicroOp, Setting
<1>3. \A i \in 1 .. Len(s) : s[i].op \in Setting => s[i].op \notin {"inc", "dec"}
  BY DEF Setting
<1> QED BY <1>2, <1>3 DEF Writes

LEMMA DoneForm ==
    ASSUME TypeOK, NEW t \in Threads, Delivery(t)
    PROVE  AbsDone(t) <=> /\ pc[t] = "run" /\ call[t].op # "fini"
                          /\ \A i \in 1 .. Len(todo[t]) : ~Writes(todo[t], i)
PROOF
<1>1. CASE ~(pc[t] = "run" /\ call[t].op # "fini")
  BY <1>1 DEF AbsDone
<1>2. CASE pc[t] = "run" /\ call[t].op # "fini"
  <2>1. call[t].dst \in AppTags /\ todo[t] \in Seq(MicroOp(t))
    BY <1>2 DEF Delivery, Asked, Names, TypeOK
  <2>2. \A i \in 1 .. Len(todo[t]) : Writes(todo[t], i) => todo[t][i].a = call[t].dst
    BY DEF Delivery, Delivers, Straight
  <2> QED BY <1>2, <2>1, <2>2, DoneSteps DEF AbsDone
<1> QED BY <1>1, <1>2

LEMMA DoneFormNext ==
    ASSUME TypeOK', NEW t \in Threads, Delivery(t)'
    PROVE  AbsDone(t)' <=> /\ pc'[t] = "run" /\ call'[t].op # "fini"
                           /\ \A i \in 1 .. Len(todo'[t]) : ~Writes(todo'[t], i)
PROOF
<1>1. CASE ~(pc'[t] = "run" /\ call'[t].op # "fini")
  BY <1>1 DEF AbsDone
<1>2. CASE pc'[t] = "run" /\ call'[t].op # "fini"
  <2>1. call'[t].dst \in AppTags /\ todo'[t] \in Seq(MicroOp(t))
    BY <1>2 DEF Delivery, Asked, Names, TypeOK
  <2>2. \A i \in 1 .. Len(todo'[t]) : Writes(todo'[t], i) => todo'[t][i].a = call'[t].dst
    BY DEF Delivery, Delivers, Straight
  <2> QED BY <1>2, <2>1, <2>2, DoneSteps DEF AbsDone
<1> QED BY <1>1, <1>2

LEMMA ReqSame ==
    ASSUME NEW t \in Threads, call'[t] = call[t]
    PROVE  AbsReq(t)' = AbsReq(t)
BY DEF AbsReq

(* Steps on the way to the result. *)
LEMMA Waits ==
    ASSUME TypeOK, TypeOK', NEW t \in Threads, StoreInv(t), todo[t] = <<>>,
           UNCHANGED <<ssa_ref, bdd, call, todo>>,
           pc[t] \notin {"off", "idle", "run"}, pc'[t] \notin {"off", "idle", "run"},
           pc'[t] = "fill" /\ call[t].op = "alloc" => res'[t] = {call[t].off}
    PROVE  StoreInv(t)' /\ Stutters(t)
PROOF
<1>1. Asked(t)'
  BY DEF StoreInv, Delivery, Asked, Names
<1>2. Delivers(t)'
  BY DEF Delivers
<1>3. CacheFull(t)'
  BY DEF StoreInv, CacheFull, Filling
<1>4. Kept /\ AbsReq(t)' = AbsReq(t) /\ ~AbsDone(t)' /\ ~AbsDone(t)
  BY ReqSame DEF Kept, Value, AbsDone
<1> QED BY <1>1, <1>2, <1>3, <1>4 DEF StoreInv, Delivery, Stutters

(* The result is known: what is left to do stores it. *)
LEMMA Launches ==
    ASSUME TypeOK, TypeOK', NEW t \in Threads, StoreInv(t), todo[t] = <<>>,
           pc[t] \notin {"off", "idle", "run"}, pc'[t] = "run", call'[t] = call[t], Kept,
           ssa_ref'[cl(t)] = ssa_ref[cl(t)], ssa_ref'[cv(t)] = ssa_ref[cv(t)],
           NEW s, todo'[t] = s, NEW v, Carries(t, call[t].dst, s, v), Value(v)' = Wanted(call[t])
    PROVE  StoreInv(t)' /\ Stutters(t)
PROOF
<1>1. call[t].op \notin {"none", "fini"} /\ Names(call[t])
  BY DEF StoreInv, Delivery, Asked
<1>2. Asked(t)'
  BY <1>1 DEF Asked
<1>3. Wanted(call[t])' = Wanted(call[t])
  <2>1. /\ Value(call[t].dst)' = Value(call[t].dst)
        /\ call[t].op \in {"load", "copy", "combine"} => Value(call[t].src)' = Value(call[t].src)
    BY <1>1 DEF Kept, Names, Value
  <2>2. call[t].op \in {"alloc", "copy", "load", "clear", "combine"}
    BY <1>1 DEF TypeOK, Call
  <2> QED BY <2>1, <2>2 DEF Wanted
<1>4. ASSUME NEW i \in 1 .. Len(s), Writes(s, i)
      PROVE  Straight(t, call[t].dst, s, i) /\ Stored(t, s, i)' = Wanted(call[t])
  <2>1. Straight(t, call[t].dst, s, i) /\ s[i].op # "null" /\ Origin(t, s, i) = v
    BY <1>4 DEF Carries
  <2> QED BY <2>1 DEF Stored, Value
<1>5. Delivers(t)'
  <2> SUFFICES ASSUME NEW i \in 1 .. Len(s), Writes(s, i)
               PROVE  /\ call'[t].op # "fini" /\ Straight(t, call'[t].dst, s, i)
                      /\ Stored(t, s, i)' = Wanted(call[t])'
    BY DEF Delivers, Stored, Value
  <2> QED BY <1>1, <1>3, <1>4
<1>6. CacheFull(t)'
  BY DEF StoreInv, CacheFull, Filling
<1>7. Delivery(t)'
  BY <1>2, <1>5 DEF Delivery
<1>8. ~AbsDone(t)' /\ ~AbsDone(t)
  <2>1. ~AbsDone(t)
    BY DEF AbsDone
  <2>2. \E i \in 1 .. Len(todo'[t]) : Writes(todo'[t], i)
    BY DEF Carries
  <2> QED BY <1>7, <2>1, <2>2, DoneFormNext
<1> QED BY <1>6, <1>7, <1>8, ReqSame DEF StoreInv, Stutters

(* A request is accepted. *)
LEMMA Accepts ==
    ASSUME TypeOK, TypeOK', NEW t \in Threads, StoreInv(t), todo[t] = <<>>,
           pc[t] = "idle", UNCHANGED <<ssa_ref, bdd>>, Names(call'[t]),
           call'[t].op \notin {"none", "fini"},
           NEW s, todo'[t] = s,
           \/ pc'[t] \notin {"off", "idle", "run", "fill"} /\ s = <<>>
           \/ /\ pc'[t] = "run"
              /\ \E i \in 1 .. Len(s) : Writes(s, i)
              /\ \A i \in 1 .. Len(s) : Writes(s, i) =>
                    /\ Straight(t, call'[t].dst, s, i)
                    /\ Stored(t, s, i)' = Wanted(call[t])'
    PROVE  StoreInv(t)' /\ Asks(t)
PROOF
<1>1. Asked(t)'
  BY DEF Asked
<1>2. Delivers(t)'
  <2> SUFFICES ASSUME NEW i \in 1 .. Len(s), Writes(s, i)
               PROVE  /\ call'[t].op # "fini" /\ Straight(t, call'[t].dst, s, i)
                      /\ Stored(t, s, i)' = Wanted(call[t])'
    BY DEF Delivers, Stored, Value
  <2> QED OBVIOUS
<1>3. CacheFull(t)'
  BY DEF StoreInv, CacheFull, Filling
<1>4. Delivery(t)'
  BY <1>1, <1>2 DEF Delivery
<1>5. ~AbsDone(t) /\ ~AbsDone(t)'
  BY <1>4, DoneFormNext DEF AbsDone
<1>6. AbsReq(t) = AbsNone
  BY ReqNone DEF StoreInv, Delivery, Asked
<1>7. AbsReq(t)' \in Store!Request
  <2> DEFINE c == call'[t]
  <2>1. /\ c.op \in {"alloc", "copy", "load", "clear", "combine"} /\ c.dst \in AppTags
        /\ c.op \in {"load", "copy", "combine"} => c.src \in AppTags
        /\ c.op = "alloc" => c.off \in Offsets
    BY DEF TypeOK, Call, Names
  <2>2. AbsReq(t)' = IF c.op = "alloc" THEN [op |-> "alloc", dst |-> c.dst, off |-> c.off]
                     ELSE IF c.op = "clear" THEN [op |-> "clear", dst |-> c.dst]
                     ELSE [op |-> c.op, dst |-> c.dst, src |-> c.src]
    BY ReqForm
  <2> HIDE DEF c
  <2>3. CASE c.op = "alloc"
    BY <2>1, <2>2, <2>3 DEF Store!Request
  <2>4. CASE c.op = "clear"
    BY <2>1, <2>2, <2>4 DEF Store!Request
  <2>5. CASE c.op \in {"copy", "load", "combine"}
    BY <2>1, <2>2, <2>5 DEF Store!Request
  <2> QED BY <2>1, <2>3, <2>4, <2>5
<1>8. Kept
  BY DEF Kept, Value
<1> QED BY <1>3, <1>4, <1>5, <1>6, <1>7, <1>8 DEF StoreInv, Asks

(* Counting changes no set. *)
LEMMA TailStores ==
    ASSUME TypeOK, TypeOK', NEW t \in Threads, CellInv(t), StoreInv(t), todo[t] # <<>>,
           todo[t][1].op \in {"inc", "dec"}, todo'[t] = Tail(todo[t]),
           NEW r, r = Tail(todo[t]),
           UNCHANGED <<ssa_ref, bdd, pc, call>>, pc[t] = "run"
    PROVE  StoreInv(t)' /\ Stutters(t)
PROOF
<1> DEFINE s == todo[t]
<1>1. s \in Seq(MicroOp(t)) /\ Members(t, s) /\ Temporary(t, s)
  BY DEF TypeOK, CellInv, Pending
<1>2. Rest(r, s, 1) /\ Len(r) \in Nat /\ Len(s) \in Nat /\ r = Tail(s)
  BY <1>1, TailRest
<1>3. /\ ~Writes(s, 1) /\ s[1].op \notin Setting
  BY DEF Writes, Setting
<1>4. Asked(t)'
  BY DEF StoreInv, Delivery, Asked
<1>5. \A x : Value(x)' = Value(x)
  BY DEF Value
<1>6. Wanted(call[t])' = Wanted(call[t])
  BY <1>5 DEF Wanted, Value
<1>7. ASSUME NEW k \in 1 .. Len(r), Writes(r, k)
      PROVE  /\ call[t].op # "fini" /\ Straight(t, call[t].dst, r, k)
             /\ Stored(t, r, k)' = Wanted(call[t])
  <2>1. k + 1 \in 1 .. Len(s) /\ Writes(s, k + 1) /\ r[k] = s[k + 1]
    BY <1>1, <1>7, StraightTail
  <2>2. /\ call[t].op # "fini" /\ Straight(t, call[t].dst, s, k + 1)
        /\ Stored(t, s, k + 1) = Wanted(call[t])
    BY <2>1 DEF StoreInv, Delivery, Delivers
  <2>3. /\ Straight(t, call[t].dst, r, k)
        /\ \/ Origin(t, r, k) = Origin(t, s, k + 1)
           \/ ToTmp(t, s, 1)
    BY <1>1, <1>7, <2>2, StraightTail
  <2>4. Origin(t, r, k) = Origin(t, s, k + 1)
    BY <1>3, <2>3 DEF ToTmp, Setting
  <2> QED BY <2>1, <2>2, <2>3, <2>4 DEF Stored, Value
<1>8. Delivers(t)'
  <2> SUFFICES ASSUME NEW i \in 1 .. Len(r), Writes(r, i)
               PROVE  /\ call'[t].op # "fini" /\ Straight(t, call'[t].dst, r, i)
                      /\ Stored(t, r, i)' = Wanted(call[t])'
    BY DEF Delivers, Stored, Value
  <2> QED BY <1>6, <1>7
<1>9. Delivery(t)'
  BY <1>4, <1>8 DEF Delivery
<1>10. (\A i \in 1 .. Len(s) : ~Writes(s, i)) <=> \A i \in 1 .. Len(r) : ~Writes(r, i)
  <2>1. ASSUME NEW i \in 1 .. Len(s), Writes(s, i)
        PROVE  i - 1 \in 1 .. Len(r) /\ Writes(r, i - 1)
    <3>1. i # 1
      BY <1>3, <2>1
    <3>2. i - 1 \in 1 .. Len(r) /\ (i - 1) + 1 = i
      BY <1>2, <3>1 DEF Rest
    <3>3. r[i - 1] = s[i]
      BY <1>2, <3>2 DEF Rest
    <3> QED BY <2>1, <3>2, <3>3 DEF Writes
  <2>2. ASSUME NEW k \in 1 .. Len(r), Writes(r, k)
        PROVE  k + 1 \in 1 .. Len(s) /\ Writes(s, k + 1)
    BY <1>1, <2>2, StraightTail
  <2> QED BY <2>1, <2>2
<1>11. AbsDone(t)' <=> AbsDone(t)
  BY <1>9, <1>10, DoneForm, DoneFormNext DEF StoreInv
<1>12. CacheFull(t)'
  <2>1. Filling(t) => Filling(t)'
    <3> SUFFICES ASSUME NEW i \in 1 .. Len(s), Fills(t, s, i)
                 PROVE  \E k \in 1 .. Len(r) : Fills(t, r, k)
      BY DEF Filling
    <3>1. i # 1
      BY DEF Fills
    <3>2. i - 1 \in 1 .. Len(r) /\ (i - 1) + 1 = i
      BY <1>2, <3>1 DEF Rest
    <3>3. r[i - 1] = s[i]
      BY <1>2, <3>2 DEF Rest
    <3> QED BY <3>2, <3>3 DEF Fills
  <2> QED BY <2>1 DEF StoreInv, CacheFull
<1> QED BY <1>5, <1>9, <1>11, <1>12, ReqSame DEF StoreInv, Stutters, Kept

(* Setting a pointer either is the store of the operation or changes no    *)
(* byte and no register.                                                   *)
LEMMA SetStores ==
    ASSUME TypeOK, TypeOK', NEW t \in Threads, CellInv(t), StoreInv(t), SetPointer(t)
    PROVE  StoreInv(t)' /\ (Stutters(t) \/ Does(t))
PROOF
<1>0. PICK s : s = todo[t]
  OBVIOUS
<1>1. /\ pc[t] = "run" /\ s # <<>> /\ s \in Seq(MicroOp(t)) /\ s[1] \in MicroOp(t)
      /\ s[1].op \in Setting /\ s[1].a \in Tags /\ s[1].b \in Tags
      /\ Len(s) \in Nat \ {0}
      /\ todo'[t] = Tail(s) /\ UNCHANGED <<cellVars, pc, call, ld>>
      /\ \A x \in Tags : x # s[1].a /\ (s[1].op = "move" => x # s[1].b) => ssa_ref'[x] = ssa_ref[x]
      /\ s[1].op = "copy" => ssa_ref'[s[1].a] = ssa_ref[s[1].b]
      /\ s[1].op = "null" => ssa_ref'[s[1].a] = NULL
      /\ s[1].op = "move" => /\ ssa_ref'[s[1].a] = ssa_ref[s[1].b] /\ s[1].b = tmp(t)
  BY <1>0, PointerSet DEF CellInv
<1>2. UNCHANGED <<bdd, pc, call>>
  BY <1>1 DEF cellVars
<1>3. Members(t, s) /\ Temporary(t, s) /\ Program(t, call[t], s)
  BY <1>0 DEF CellInv, Pending
<1>4. PICK r : r = Tail(s)
  OBVIOUS
<1>5. Rest(r, s, 1) /\ Len(r) \in Nat
  BY <1>1, <1>4, TailRest
<1>6. AppTags \subseteq Tags /\ tmp(t) \notin AppTags /\ tmp(t) \in Tags
  BY AppApart, OwnTags
<1>7. Asked(t) /\ Asked(t)'
  BY <1>1, <1>2 DEF StoreInv, Delivery, Asked
<1>8. AbsReq(t)' = AbsReq(t)
  BY <1>2, ReqSame
<1>9. 1 \in 1 .. Len(s)
  BY <1>1
<1>10. \A i \in 1 .. Len(s) : Writes(s, i) =>
        /\ call[t].op # "fini" /\ Straight(t, call[t].dst, s, i)
        /\ Stored(t, s, i) = Wanted(call[t])
  BY <1>0 DEF StoreInv, Delivery, Delivers
<1>11. CacheFull(t)'
  <2> SUFFICES ASSUME ~Filling(t)', ~(pc'[t] = "run" /\ call'[t].op = "fini")
               PROVE  ssa_ref'[cl(t)] = NULL \/ ssa_ref'[cv(t)] # NULL
    BY DEF CacheFull
  <2>1. call[t].op # "fini"
    BY <1>1, <1>2
  <2>2. CASE Filling(t)
    <3>1. PICK i \in 1 .. Len(s) : Fills(t, s, i)
      BY <1>0, <2>2 DEF Filling
    <3>2. i = 1
      <4> SUFFICES ASSUME i # 1 PROVE FALSE
        OBVIOUS
      <4>1. i - 1 \in 1 .. Len(r) /\ (i - 1) + 1 = i
        BY <1>5 DEF Rest
      <4>2. r[i - 1] = s[i]
        BY <1>5, <4>1 DEF Rest
      <4> QED BY <1>1, <1>4, <3>1, <4>1, <4>2, SMTT(60) DEF Filling, Fills
    <3>3. ssa_ref'[cv(t)] = ssa_ref[s[1].b]
      BY <1>1, <3>1, <3>2 DEF Fills
    <3>4. ssa_ref[s[1].b] # NULL
      BY <1>0, <3>1, <3>2 DEF CellInv, CacheInv
    <3> QED BY <3>3, <3>4
  <2>3. CASE ~Filling(t)
    <3>1. \A j \in 1 .. Len(s) : ~Fills(t, s, j)
      BY <1>0, <2>3 DEF Filling
    <3>2. s[1].a \notin CacheTags(t)
      <4>1. Caches(t, call[t], s, 1)
        BY <1>3, <1>9 DEF Program
      <4> QED BY <1>1, <2>1, <3>1, <4>1 DEF Caches
    <3>3. ssa_ref'[cl(t)] = ssa_ref[cl(t)] /\ ssa_ref'[cv(t)] = ssa_ref[cv(t)]
      <4>1. cl(t) \in Tags /\ cv(t) \in Tags /\ cl(t) # tmp(t) /\ cv(t) # tmp(t)
        BY OwnTags, OwnApart DEF CacheTags
      <4> QED BY <1>1, <3>2, <4>1 DEF CacheTags
    <3> QED BY <2>1, <2>3, <3>3 DEF StoreInv, CacheFull
  <2> QED BY <2>2, <2>3
<1>12. CASE Writes(s, 1)
  <2>1. /\ call[t].op # "fini" /\ Straight(t, call[t].dst, s, 1)
        /\ Stored(t, s, 1) = Wanted(call[t])
    BY <1>9, <1>10, <1>12
  <2>2. s[1].a = call[t].dst /\ \A j \in 1 .. Len(s) : Writes(s, j) => j = 1
    BY <2>1 DEF Straight
  <2>3. Origin(t, s, 1) = s[1].b
    BY DEF Origin, Via
  <2>4. Value(s[1].a)' = Wanted(call[t])
    <3>1. CASE s[1].op = "null"
      BY <1>0, <1>1, <2>1, <3>1 DEF Stored, Value
    <3>2. CASE s[1].op \in {"copy", "move"}
      <4>1. Value(s[1].b) = Wanted(call[t])
        BY <2>1, <2>3, <3>2 DEF Stored
      <4>2. ssa_ref'[s[1].a] = ssa_ref[s[1].b]
        BY <1>1, <3>2
      <4> QED BY <1>2, <4>1, <4>2 DEF Value
    <3> QED BY <1>1, <3>1, <3>2 DEF Setting
  <2>5. \A v \in AppTags : Value(v)' = IF v = call[t].dst THEN Wanted(call[t]) ELSE Value(v)
    <3>1. ASSUME NEW v \in AppTags, v # call[t].dst PROVE Value(v)' = Value(v)
      <4>1. ssa_ref'[v] = ssa_ref[v]
        BY <1>1, <1>6, <2>2, <3>1
      <4> QED BY <1>2, <4>1 DEF Value
    <3> QED BY <2>2, <2>4, <3>1
  <2>6. \A k \in 1 .. Len(r) : ~Writes(r, k)
    <3>1. ASSUME NEW k \in 1 .. Len(r), Writes(r, k) PROVE FALSE
      <4>1. k + 1 \in 1 .. Len(s) /\ Writes(s, k + 1)
        BY <1>1, <1>3, <1>4, <3>1, StraightTail
      <4>2. k + 1 = 1
        BY <2>2, <4>1
      <4> QED BY <1>5, <4>2
    <3> QED BY <3>1
  <2>7. Delivery(t)'
    BY <1>1, <1>4, <1>7, <2>6 DEF Delivery, Delivers
  <2>8. ~AbsDone(t) /\ AbsDone(t)'
    <3>1. ~AbsDone(t)
      BY <1>0, <1>9, <1>12, DoneForm DEF StoreInv
    <3> QED BY <1>1, <1>2, <1>4, <2>1, <2>6, <2>7, <3>1, DoneFormNext
  <2>9. AbsReq(t) # AbsNone
    BY <1>1, <1>7, <2>1, ReqNone DEF Asked
  <2> QED BY <1>8, <1>11, <2>5, <2>7, <2>8, <2>9 DEF StoreInv, Does
<1>13. CASE ~Writes(s, 1)
  <2>1. ASSUME NEW v \in AppTags PROVE Value(v)' = Value(v)
    <3>1. s[1].a \notin AppTags
      BY <1>1, <1>13 DEF Writes
    <3>2. ssa_ref'[v] = ssa_ref[v]
      BY <1>1, <1>6, <3>1
    <3> QED BY <1>2, <3>2 DEF Value
  <2>2. call[t].op \notin {"fini", "none"} => Wanted(call[t])' = Wanted(call[t])
    <3>1. Names(call[t])
      BY <1>7 DEF Asked
    <3>2. call[t].op \in {"none", "fini", "alloc", "copy", "load", "clear", "combine"}
      BY DEF TypeOK, Call
    <3> QED BY <1>2, <2>1, <3>1, <3>2 DEF Names, Wanted, Value
  <2>3. ASSUME NEW k \in 1 .. Len(r), Writes(r, k)
        PROVE  /\ call[t].op # "fini" /\ Straight(t, call[t].dst, r, k)
               /\ Stored(t, r, k)' = Wanted(call[t])
    <3>1. k + 1 \in 1 .. Len(s) /\ Writes(s, k + 1) /\ r[k] = s[k + 1]
      BY <1>1, <1>3, <1>4, <2>3, StraightTail
    <3>2. /\ call[t].op # "fini" /\ Straight(t, call[t].dst, s, k + 1)
          /\ Stored(t, s, k + 1) = Wanted(call[t])
      BY <1>10, <3>1
    <3>3. /\ Straight(t, call[t].dst, r, k)
          /\ \/ /\ Origin(t, r, k) = Origin(t, s, k + 1)
                /\ s[1].op \in Setting => s[1].op # "move" /\ s[1].a # Origin(t, s, k + 1)
             \/ /\ ToTmp(t, s, 1) /\ Origin(t, s, k + 1) = s[1].b
                /\ Origin(t, r, k) = tmp(t) /\ s[k + 1].op = "move"
      BY <1>1, <1>3, <1>4, <2>3, <3>2, StraightTail
    <3>4. CASE /\ Origin(t, r, k) = Origin(t, s, k + 1)
               /\ s[1].op \in Setting => s[1].op # "move" /\ s[1].a # Origin(t, s, k + 1)
      <4> DEFINE o == Origin(t, s, k + 1)
      <4>1. o \in Tags
        <5>1. \A j \in 1 .. Len(s) : s[j].b \in Tags
          <6>1. \A j \in 1 .. Len(s) : s[j] \in MicroOp(t)
            BY <1>1
          <6> QED BY <6>1, OwnTags DEF MicroOp
        <5>2. Via(t, s, k + 1) => (k + 1) - 2 \in 1 .. Len(s)
          BY <1>1, <3>1 DEF Via
        <5> QED BY <3>1, <5>1, <5>2 DEF Origin
      <4>2. ssa_ref'[o] = ssa_ref[o]
        BY <1>1, <3>4, <4>1
      <4> HIDE DEF o
      <4>3. Origin(t, r, k) = o /\ Origin(t, s, k + 1) = o
        BY <3>4 DEF o
      <4> QED BY <1>2, <3>1, <3>2, <3>3, <4>2, <4>3 DEF Stored, Value
    <3>5. CASE /\ ToTmp(t, s, 1) /\ Origin(t, s, k + 1) = s[1].b
               /\ Origin(t, r, k) = tmp(t) /\ s[k + 1].op = "move"
      <4>1. ssa_ref'[tmp(t)] = ssa_ref[s[1].b]
        BY <1>1, <3>5 DEF ToTmp
      <4> QED BY <1>2, <3>1, <3>2, <3>3, <3>5, <4>1 DEF Stored, Value
    <3> QED BY <3>3, <3>4, <3>5
  <2>4. Delivers(t)'
    <3> SUFFICES ASSUME NEW i \in 1 .. Len(r), Writes(r, i)
                 PROVE  /\ call'[t].op # "fini" /\ Straight(t, call'[t].dst, r, i)
                        /\ Stored(t, r, i)' = Wanted(call[t])'
      BY <1>1, <1>4 DEF Delivers, Stored, Value
    <3>1. call[t].op # "none"
      BY <1>1, <1>7 DEF Asked
    <3> QED BY <1>2, <2>2, <2>3, <3>1
  <2>5. Delivery(t)'
    BY <1>7, <2>4 DEF Delivery
  <2>6. (\A i \in 1 .. Len(s) : ~Writes(s, i)) <=> \A i \in 1 .. Len(r) : ~Writes(r, i)
    <3>1. ASSUME NEW i \in 1 .. Len(s), Writes(s, i)
          PROVE  i - 1 \in 1 .. Len(r) /\ Writes(r, i - 1)
      <4>1. i # 1
        BY <1>13, <3>1
      <4>2. i - 1 \in 1 .. Len(r) /\ (i - 1) + 1 = i
        BY <1>5, <4>1 DEF Rest
      <4>3. r[i - 1] = s[i]
        BY <1>5, <4>2 DEF Rest
      <4> QED BY <3>1, <4>2, <4>3 DEF Writes
    <3>2. ASSUME NEW k \in 1 .. Len(r), Writes(r, k)
          PROVE  k + 1 \in 1 .. Len(s) /\ Writes(s, k + 1)
      BY <1>1, <1>3, <1>4, <3>2, StraightTail
    <3> QED BY <3>1, <3>2
  <2>7. AbsDone(t)' <=> AbsDone(t)
    BY <1>0, <1>1, <1>2, <1>4, <2>5, <2>6, DoneForm, DoneFormNext, ZenonT(60) DEF StoreInv
  <2> QED BY <1>8, <1>11, <2>1, <2>5, <2>7 DEF StoreInv, Stutters, Kept
<1> QED BY <1>12, <1>13

LEMMA FinishStores ==
    ASSUME TypeOK, TypeOK', NEW t \in Threads, CellInv(t), CellInv(t)', StoreInv(t), Finish(t)
    PROVE  StoreInv(t)' /\ (Stutters(t) \/ Replies(t))
PROOF
<1>1. /\ pc[t] = "run" /\ todo[t] = <<>> /\ todo'[t] = <<>> /\ UNCHANGED <<ssa_ref, bdd>>
      /\ pc'[t] = (IF call[t].op = "fini" THEN "off" ELSE "idle") /\ call'[t] = NoCall(t)
  BY DEF Finish, TypeOK, cellVars
<1>2. call'[t].op = "none"
  BY <1>1 DEF NoCall
<1>3. Delivery(t)'
  BY <1>1, <1>2 DEF Delivery, Asked, Delivers, Names
<1>4. CacheFull(t)'
  <2>1. CASE call[t].op = "fini"
    BY <1>1, <2>1 DEF CellInv, CacheInv, CacheFull, CacheTags
  <2>2. CASE call[t].op # "fini"
    BY <1>1, <2>2 DEF StoreInv, CacheFull, Filling
  <2> QED BY <2>1, <2>2
<1>5. Kept /\ ~AbsDone(t)' /\ AbsReq(t)' = AbsNone
  BY <1>1, <1>2, ReqForm DEF Kept, Value, AbsDone
<1>6. CASE call[t].op = "fini"
  <2>1. AbsReq(t) = AbsNone /\ ~AbsDone(t)
    BY <1>6, ReqNone DEF AbsDone
  <2> QED BY <1>3, <1>4, <1>5, <2>1 DEF StoreInv, Stutters
<1>7. CASE call[t].op # "fini"
  <2>1. AbsDone(t)
    BY <1>1, <1>7, DoneForm DEF StoreInv
  <2> QED BY <1>3, <1>4, <1>5, <2>1 DEF StoreInv, Replies
<1> QED BY <1>6, <1>7

LEMMA RequestStores ==
    ASSUME TypeOK, TypeOK', NEW t \in Threads, CellInv(t), StoreInv(t), Request(t)
    PROVE  StoreInv(t)' /\ (Stutters(t) \/ Asks(t))
PROOF
<1> USE DEF cellVars, ringVars
<1>1. pc[t] \in {"off", "idle"}
  BY DEF Request, ThreadStart, ThreadFini, TaintByte, LoadByte, StoreByte, ClearByte, CombineByte,
         Begin, Goto
<1>2. todo[t] = <<>> /\ call[t].op = "none"
  BY <1>1, NothingToDo DEF CellInv, StoreInv, Delivery, Asked
<1>3. ASSUME NEW to, NEW c, NEW s, Begin(t, to, c, s)
      PROVE  /\ pc[t] = "idle" /\ pc'[t] = to /\ call'[t] = c /\ todo'[t] = s
             /\ UNCHANGED <<ssa_ref, bdd>>
  BY <1>3 DEF Begin, Goto, TypeOK
<1>4. CASE ThreadStart(t)
  <2>1. /\ pc'[t] = "idle" /\ UNCHANGED <<call, todo, bdd>>
        /\ \A v \in Tags : ssa_ref'[v] = IF v \in CacheTags(t) THEN NULL ELSE ssa_ref[v]
    BY <1>4 DEF ThreadStart, Goto, TypeOK, CacheTags
  <2>2. Delivery(t)'
    BY <1>2, <2>1 DEF StoreInv, Delivery, Asked, Delivers, Names
  <2>3. CacheFull(t)'
    <3>1. cl(t) \in Tags /\ cl(t) \in CacheTags(t)
      BY OwnTags DEF CacheTags
    <3> QED BY <2>1, <3>1 DEF CacheFull
  <2>4. Kept
    <3>1. \A v \in AppTags : ssa_ref'[v] = ssa_ref[v]
      BY <2>1, AppApart
    <3> QED BY <2>1, <3>1 DEF Kept, Value
  <2>5. ~AbsDone(t) /\ ~AbsDone(t)'
    BY <1>1, <2>1 DEF AbsDone
  <2> QED BY <2>1, <2>2, <2>3, <2>4, <2>5, ReqSame DEF StoreInv, Stutters
<1>5. CASE ThreadFini(t)
  <2> DEFINE c == [NoCall(t) EXCEPT !.op = "fini"]
             s == Destroy(cl(t)) \o Destroy(cr(t)) \o Destroy(cv(t))
  <2>1. /\ pc'[t] = "run" /\ call'[t] = c /\ todo'[t] = s /\ UNCHANGED <<ssa_ref, bdd>>
    BY <1>3, <1>5 DEF ThreadFini
  <2>2. c.op = "fini"
    BY DEF NoCall
  <2>3. \A i \in 1 .. Len(s) : ~Writes(s, i)
    BY FiniStores
  <2> HIDE DEF s, c
  <2>4. Delivery(t)'
    BY <2>1, <2>2, <2>3 DEF Delivery, Asked, Delivers, Names
  <2>5. CacheFull(t)'
    BY <2>1, <2>2 DEF CacheFull
  <2>6. Kept
    BY <2>1 DEF Kept, Value
  <2>7. ~AbsDone(t) /\ ~AbsDone(t)'
    BY <1>1, <2>1, <2>2 DEF AbsDone
  <2>8. AbsReq(t)' = AbsNone /\ AbsReq(t) = AbsNone
    BY <1>2, <2>1, <2>2, ReqForm
  <2> QED BY <2>4, <2>5, <2>6, <2>7, <2>8 DEF StoreInv, Stutters
<1>6. ASSUME NEW m \in Mem, NEW off \in Offsets, TaintByte(t, m, off) PROVE StoreInv(t)' /\ Asks(t)
  <2> DEFINE c == [op |-> "alloc", dst |-> m, src |-> tmp(t), off |-> off]
  <2>1. /\ pc[t] = "idle" /\ pc'[t] = "head" /\ call'[t] = c /\ todo'[t] = <<>> /\ UNCHANGED <<ssa_ref, bdd>>
    BY <1>3, <1>6 DEF TaintByte
  <2>2. c.op = "alloc" /\ Names(c)
    BY AppApart DEF Names
  <2> HIDE DEF c
  <2>3. call'[t].op \notin {"none", "fini"} /\ Names(call'[t])
    BY <2>1, <2>2
  <2> QED BY <1>2, <2>1, <2>3, Accepts
<1>7. ASSUME NEW m \in Mem, NEW r \in RegTag(t), LoadByte(t, r, m) PROVE StoreInv(t)' /\ Asks(t)
  <2> DEFINE c == [op |-> "load", dst |-> r, src |-> m, off |-> NULL]
             s == Construct(tmp(t), m) \o MoveTo(r, tmp(t))
  <2>1. /\ pc[t] = "idle" /\ pc'[t] = "run" /\ call'[t] = c /\ todo'[t] = s /\ UNCHANGED <<ssa_ref, bdd>>
    BY <1>3, <1>7 DEF LoadByte
  <2>2. c.op = "load" /\ c.dst = r /\ c.src = m /\ Names(c)
    BY AppApart DEF Names
  <2>3. Carries(t, r, s, m)
    BY OwnTags, CarriesReturn
  <2> HIDE DEF c, s
  <2>4. call'[t].op \notin {"none", "fini"} /\ Names(call'[t])
    BY <2>1, <2>2
  <2>5. ASSUME NEW i \in 1 .. Len(s), Writes(s, i)
        PROVE  Straight(t, call'[t].dst, s, i) /\ Stored(t, s, i)' = Wanted(call[t])'
    <3>1. Straight(t, r, s, i) /\ s[i].op # "null" /\ Origin(t, s, i) = m
      BY <2>3, <2>5 DEF Carries
    <3>2. Stored(t, s, i)' = Value(m)'
      BY <3>1 DEF Stored
    <3>3. Wanted(call[t])' = Value(m)'
      BY <2>1, <2>2 DEF Wanted, Value
    <3> QED BY <2>1, <2>2, <3>1, <3>2, <3>3
  <2>6. \E i \in 1 .. Len(s) : Writes(s, i)
    BY <2>3 DEF Carries
  <2> QED BY <1>2, <2>1, <2>4, <2>5, <2>6, Accepts
<1>8. ASSUME NEW m \in Mem, NEW r \in RegTag(t), StoreByte(t, m, r) PROVE StoreInv(t)' /\ Asks(t)
  <2> DEFINE c == [op |-> "copy", dst |-> m, src |-> r, off |-> NULL]
             s == Assign(m, r)
  <2>1. /\ pc[t] = "idle" /\ pc'[t] = "run" /\ call'[t] = c /\ todo'[t] = s /\ UNCHANGED <<ssa_ref, bdd>>
    BY <1>3, <1>8 DEF StoreByte
  <2>2. c.op = "copy" /\ c.dst = m /\ c.src = r /\ Names(c)
    BY AppApart DEF Names
  <2>3. Carries(t, m, s, r)
    BY CarriesAssign
  <2> HIDE DEF c, s
  <2>4. call'[t].op \notin {"none", "fini"} /\ Names(call'[t])
    BY <2>1, <2>2
  <2>5. ASSUME NEW i \in 1 .. Len(s), Writes(s, i)
        PROVE  Straight(t, call'[t].dst, s, i) /\ Stored(t, s, i)' = Wanted(call[t])'
    <3>1. Straight(t, m, s, i) /\ s[i].op # "null" /\ Origin(t, s, i) = r
      BY <2>3, <2>5 DEF Carries
    <3>2. Stored(t, s, i)' = Value(r)'
      BY <3>1 DEF Stored
    <3>3. Wanted(call[t])' = Value(r)'
      BY <2>1, <2>2 DEF Wanted, Value
    <3> QED BY <2>1, <2>2, <3>1, <3>2, <3>3
  <2>6. \E i \in 1 .. Len(s) : Writes(s, i)
    BY <2>3 DEF Carries
  <2> QED BY <1>2, <2>1, <2>4, <2>5, <2>6, Accepts
<1>9. ASSUME NEW d \in Mem \cup RegTag(t), ClearByte(t, d) PROVE StoreInv(t)' /\ Asks(t)
  <2> DEFINE c == [op |-> "clear", dst |-> d, src |-> d, off |-> NULL]
             s == Clear(d)
  <2>1. /\ pc[t] = "idle" /\ pc'[t] = "run" /\ call'[t] = c /\ todo'[t] = s /\ UNCHANGED <<ssa_ref, bdd>>
    BY <1>3, <1>9 DEF ClearByte
  <2>2. c.op = "clear" /\ c.dst = d /\ Names(c)
    BY AppApart DEF Names
  <2>3. /\ \E i \in 1 .. Len(s) : Writes(s, i)
        /\ \A i \in 1 .. Len(s) : Writes(s, i) => Straight(t, d, s, i) /\ s[i].op = "null"
    BY ClearStores
  <2> HIDE DEF c, s
  <2>4. call'[t].op \notin {"none", "fini"} /\ Names(call'[t])
    BY <2>1, <2>2
  <2>5. ASSUME NEW i \in 1 .. Len(s), Writes(s, i)
        PROVE  Straight(t, call'[t].dst, s, i) /\ Stored(t, s, i)' = Wanted(call[t])'
    BY <2>1, <2>2, <2>3, <2>5 DEF Stored, Wanted
  <2> QED BY <1>2, <2>1, <2>3, <2>4, <2>5, Accepts
<1>10. ASSUME NEW d \in RegTag(t), NEW b \in RegTag(t), CombineByte(t, d, b) PROVE StoreInv(t)' /\ Asks(t)
  <2> DEFINE c == [op |-> "combine", dst |-> d, src |-> b, off |-> NULL]
  <2>1. /\ pc[t] = "idle" /\ pc'[t] = "combine" /\ call'[t] = c /\ todo'[t] = <<>> /\ UNCHANGED <<ssa_ref, bdd>>
    BY <1>3, <1>10 DEF CombineByte
  <2>2. c.op = "combine" /\ Names(c)
    BY AppApart DEF Names
  <2> HIDE DEF c
  <2>3. call'[t].op \notin {"none", "fini"} /\ Names(call'[t])
    BY <2>1, <2>2
  <2> QED BY <1>2, <2>1, <2>3, Accepts
<1> QED BY <1>4, <1>5, <1>6, <1>7, <1>8, <1>9, <1>10 DEF Request

LEMMA EnterStores ==
    ASSUME TypeOK, TypeOK', NEW t \in Threads, CellInv(t), StoreInv(t), CombineEnter(t)
    PROVE  StoreInv(t)' /\ Stutters(t)
PROOF
<1> DEFINE d == call[t].dst
           b == call[t].src
<1>1. pc[t] = "combine" /\ UNCHANGED <<ssa_ref, bdd, call>>
  BY DEF CombineEnter, cellVars
<1>2. todo[t] = <<>> /\ Coherent(t)
  BY <1>1, NothingToDo, QuietCoherent DEF CellInv
<1>3. call[t].op = "combine" /\ d \in RegTag(t) /\ b \in RegTag(t)
  BY <1>1 DEF CellInv, Answer
<1>4. Wanted(call[t]) = Value(d) \cup Value(b)
  BY <1>3 DEF Wanted
<1>5. ASSUME NEW v \in {d, b, cv(t)}, Return(t, v), Value(v) = Value(d) \cup Value(b)
      PROVE  StoreInv(t)' /\ Stutters(t)
  <2> DEFINE s == Construct(tmp(t), v) \o MoveTo(d, tmp(t))
  <2>1. pc'[t] = "run" /\ todo'[t] = s
    BY <1>5 DEF Return, TypeOK
  <2>2. v \in TagsOf(t) /\ d \in Mem \cup RegTag(t)
    BY <1>3, OwnTags
  <2>3. Carries(t, d, s, v)
    BY <2>2, CarriesReturn
  <2> HIDE DEF s
  <2>4. Kept /\ \A x : Value(x)' = Value(x)
    BY <1>1 DEF Kept, Value
  <2>5. PICK w : w = v
    OBVIOUS
  <2>6. Value(w)' = Wanted(call[t]) /\ Carries(t, d, s, w)
    BY <1>4, <1>5, <2>3, <2>4, <2>5
  <2> QED BY <1>1, <1>2, <2>1, <2>4, <2>6, Launches
<1>6. CASE ssa_ref[d] = NULL /\ Return(t, b)
  BY <1>5, <1>6 DEF Value
<1>7. CASE ssa_ref[d] # NULL /\ (ssa_ref[b] = NULL \/ SameTag(d, b)) /\ Return(t, d)
  <2>1. Value(d) = Value(d) \cup Value(b)
    <3>1. CASE ssa_ref[b] = NULL
      BY <3>1 DEF Value
    <3>2. CASE SameTag(d, b) /\ ssa_ref[b] # NULL
      <4>1. Value(d) = Value(b)
        BY <3>2 DEF SameTag, Value
      <4> QED BY <4>1
    <3> QED BY <1>7, <3>1, <3>2
  <2> QED BY <1>5, <1>7, <2>1
<1>8. CASE /\ ssa_ref[d] # NULL /\ ssa_ref[b] # NULL /\ CacheHit(t, d, b)
           /\ Return(t, cv(t))
  <2>1. ssa_ref[cl(t)] # NULL /\ bdd[ssa_ref[cl(t)]] = bdd[ssa_ref[d]]
    BY <1>8 DEF CacheHit, SameTag
  <2>2. ssa_ref[cr(t)] # NULL /\ bdd[ssa_ref[cr(t)]] = bdd[ssa_ref[b]]
    BY <1>8 DEF CacheHit, SameTag
  <2>3. ssa_ref[cv(t)] # NULL
    BY <1>1, <1>2, <2>1 DEF StoreInv, CacheFull, Filling
  <2>4. bdd[ssa_ref[cv(t)]] = bdd[ssa_ref[cl(t)]] \cup bdd[ssa_ref[cr(t)]]
    BY <1>2, <2>3 DEF Coherent
  <2>5. Value(cv(t)) = Value(d) \cup Value(b)
    BY <1>8, <2>1, <2>2, <2>3, <2>4 DEF Value
  <2> QED BY <1>5, <1>8, <2>5
<1>9. CASE pc'[t] = "call" /\ todo' = todo
  BY <1>1, <1>2, <1>9, Waits
<1>10. pc' = [pc EXCEPT ![t] = "call"] => pc'[t] = "call"
  BY SMTT(60) DEF TypeOK
<1> QED BY <1>6, <1>7, <1>8, <1>9, <1>10 DEF CombineEnter

LEMMA CompareStores ==
    ASSUME TypeOK, TypeOK', NEW t \in Threads, CellInv(t), StoreInv(t), CombineCompare(t)
    PROVE  StoreInv(t)' /\ Stutters(t)
PROOF
<1> DEFINE d == call[t].dst
           b == call[t].src
           s(v) == FillCache(t, d, b, v) \o Construct(tmp(t), v) \o MoveTo(d, tmp(t))
<1>1. pc[t] = "compare" /\ UNCHANGED <<ssa_ref, bdd, call, res>>
  BY DEF CombineCompare, cellVars
<1>2. todo[t] = <<>>
  BY <1>1, NothingToDo DEF CellInv
<1>3. /\ call[t].op = "combine" /\ d \in RegTag(t) /\ b \in RegTag(t)
      /\ ssa_ref[d] # NULL /\ ssa_ref[b] # NULL
      /\ res[t] = bdd[ssa_ref[d]] \cup bdd[ssa_ref[b]]
  BY <1>1, SMTT(60) DEF CellInv, Answer
<1>4. \/ pc'[t] = "head" /\ todo' = todo
      \/ \E v \in {d, b} : pc'[t] = "run" /\ todo'[t] = s(v) /\ res[t] = bdd[ssa_ref[v]]
  BY DEF CombineCompare, TypeOK
<1>5. CASE pc'[t] = "head" /\ todo' = todo
  BY <1>1, <1>2, <1>5, Waits
<1>6. ASSUME NEW v \in {d, b}, pc'[t] = "run", todo'[t] = s(v), res[t] = bdd[ssa_ref[v]]
      PROVE  StoreInv(t)' /\ Stutters(t)
  <2>1. Carries(t, d, s(v), v)
    BY <1>3, CarriesReuse
  <2> HIDE DEF s
  <2>2. Kept /\ \A x : Value(x)' = Value(x)
    BY <1>1 DEF Kept, Value
  <2>3. Value(v) = Wanted(call[t])
    BY <1>3, <1>6 DEF Value, Wanted
  <2>4. PICK w : w = v
    OBVIOUS
  <2>5. Value(w)' = Wanted(call[t]) /\ Carries(t, d, s(v), w)
    BY <2>1, <2>2, <2>3, <2>4
  <2> QED BY <1>1, <1>2, <1>6, <2>2, <2>5, Launches
<1> QED BY <1>4, <1>5, <1>6

LEMMA FillStores ==
    ASSUME TypeOK, TypeOK', NEW t \in Threads, CellInv(t), StoreInv(t), FillVictim(t)
    PROVE  StoreInv(t)' /\ Stutters(t)
PROOF
<1> DEFINE d == call[t].dst
           b == call[t].src
           y == tmp(t)
<1>1. /\ pc[t] = "fill" /\ pc'[t] = "run" /\ call' = call
      /\ ssa_ref'[y] = victim[t] /\ \A x \in Tags : x # y => ssa_ref'[x] = ssa_ref[x]
      /\ todo'[t] = IF call[t].op = "alloc" THEN Assign(d, y) \o Destroy(y)
                    ELSE FillCache(t, d, b, y) \o MoveTo(d, y)
  <2>1. tmp(t) \in Tags
    BY OwnTags
  <2> QED BY <2>1 DEF FillVictim, Goto, TypeOK
<1>2. todo[t] = <<>>
  BY <1>1, NothingToDo DEF CellInv
<1>3. victim[t] \in Cell /\ victim[t] # NULL /\ Refs(victim[t]) = {}
  <2>1. victim[t] \in Allocated /\ Refs(victim[t]) = {}
    BY <1>1 DEF CellInv, Ring, Taken
  <2> QED BY <2>1, AllocatedRange
<1>4. /\ call[t].op \in {"alloc", "combine"}
      /\ call[t].op = "alloc" => d \in Mem
      /\ call[t].op = "combine" => /\ d \in RegTag(t) /\ b \in RegTag(t)
                                   /\ ssa_ref[d] # NULL /\ ssa_ref[b] # NULL
                                   /\ res[t] = bdd[ssa_ref[d]] \cup bdd[ssa_ref[b]]
  BY <1>1 DEF CellInv, Answer
<1>5. Value(y)' = res[t]
  <2>1. bdd'[victim[t]] = res[t]
    BY <1>3 DEF FillVictim, TypeOK
  <2> QED BY <1>1, <1>3, <2>1 DEF Value
<1>6. res[t] = Wanted(call[t])
  <2>1. CASE call[t].op = "alloc"
    BY <1>1, <2>1 DEF StoreInv, Delivery, Asked, Wanted
  <2>2. CASE call[t].op = "combine"
    BY <1>4, <2>2 DEF Wanted, Value
  <2> QED BY <1>4, <2>1, <2>2
<1>7. Kept
  <2> SUFFICES ASSUME NEW v \in AppTags PROVE Value(v)' = Value(v)
    BY DEF Kept
  <2>1. v \in Tags /\ v # y
    BY AppApart
  <2>2. ssa_ref'[v] = ssa_ref[v]
    BY <1>1, <2>1
  <2>3. ssa_ref[v] # NULL => bdd'[ssa_ref[v]] = bdd[ssa_ref[v]]
    BY <1>3, <2>1, FillValue
  <2> QED BY <2>2, <2>3 DEF Value
<1>8. ssa_ref'[cl(t)] = ssa_ref[cl(t)] /\ ssa_ref'[cv(t)] = ssa_ref[cv(t)]
  <2>1. cl(t) \in Tags /\ cv(t) \in Tags /\ cl(t) # y /\ cv(t) # y
    BY OwnTags, OwnApart DEF CacheTags
  <2> QED BY <1>1, <2>1
<1>9. Carries(t, d, todo'[t], y)
  <2>1. CASE call[t].op = "alloc"
    BY <1>1, <1>4, <2>1, CarriesAlloc
  <2>2. CASE call[t].op = "combine"
    <3> DEFINE z == MoveTo(d, y)
    <3>1. d \in RegTag(t) /\ b \in RegTag(t) /\ d \in TagsOf(t) /\ y \in TagsOf(t)
      BY <1>4, <2>2, OwnTags
    <3>2. z \in Seq(MicroOp(t)) /\ Carries(t, d, z, y)
      BY <3>1, StepsType, CarriesMove
    <3>3. todo'[t] = FillCache(t, d, b, y) \o z
      BY <1>1, <2>2
    <3> HIDE DEF z
    <3> QED BY <3>1, <3>2, <3>3, CarriesFill
  <2> QED BY <1>4, <2>1, <2>2
<1> QED BY <1>1, <1>2, <1>5, <1>6, <1>7, <1>8, <1>9, Launches

(* The way through the ring, the collector and the worker. *)
LEMMA WalkStores ==
    ASSUME TypeOK, TypeOK', NEW t \in Threads, CellInv(t), StoreInv(t),
           \/ CombineCall(t) \/ ReadHead(t) \/ TestTail(t) \/ TryLock(t) \/ PopCell(t)
           \/ TakeVictim(t) \/ MarkVictim(t) \/ AllocCall(t) \/ GcBegin(t) \/ GcCell(t)
           \/ GcEnd(t) \/ AddBlk(t) \/ GcUnlock(t)
    PROVE  StoreInv(t)' /\ Stutters(t)
PROOF
<1> USE DEF cellVars, ringVars, gcVars
<1>1. UNCHANGED <<ssa_ref, bdd, call, todo>>
  BY DEF CombineCall, ReadHead, TestTail, TryLock, PopCell, TakeVictim, MarkVictim, AllocCall,
         GcBegin, GcCell, GcEnd, AddBlk, GcUnlock
<1>2. /\ pc[t] \notin {"off", "idle", "run"} /\ pc'[t] \notin {"off", "idle", "run"}
      /\ pc'[t] = "fill" /\ call[t].op = "alloc" => res'[t] = {call[t].off}
  <2>1. CASE CombineCall(t) \/ ReadHead(t) \/ TestTail(t) \/ TryLock(t) \/ PopCell(t)
    BY <2>1 DEF CombineCall, ReadHead, TestTail, TryLock, PopCell, Goto, TypeOK
  <2>2. CASE TakeVictim(t) \/ MarkVictim(t) \/ AllocCall(t)
    BY <2>2 DEF TakeVictim, MarkVictim, AllocCall, Goto, TypeOK
  <2>3. CASE GcBegin(t) \/ GcEnd(t) \/ AddBlk(t) \/ GcUnlock(t)
    BY <2>3 DEF GcBegin, GcEnd, AddBlk, GcUnlock, Goto, TypeOK
  <2>4. CASE GcCell(t)
    <3>1. pc[t] = "gc" /\ (pc' = pc \/ pc' = [pc EXCEPT ![t] = "gc_unlock"])
      BY <2>4 DEF GcCell
    <3> QED BY <3>1 DEF TypeOK
  <2> QED BY <2>1, <2>2, <2>3, <2>4
<1>3. todo[t] = <<>>
  BY <1>2, NothingToDo DEF CellInv
<1> QED BY <1>1, <1>2, <1>3, Waits

LEMMA CountStores ==
    ASSUME TypeOK, TypeOK', NEW t \in Threads, CellInv(t), StoreInv(t), LoadCount(t) \/ StoreCount(t)
    PROVE  StoreInv(t)' /\ Stutters(t)
PROOF
<1> USE DEF cellVars
<1>1. /\ pc[t] = "run" /\ UNCHANGED <<pc, call, bdd, ssa_ref>> /\ todo[t] # <<>>
      /\ Head(todo[t]).op \in {"inc", "dec"}
      /\ todo'[t] = Tail(todo[t]) \/ todo' = todo
  BY DEF LoadCount, StoreCount, Counting, TypeOK
<1>2. todo[t][1].op \in {"inc", "dec"}
  BY <1>1, TailFacts DEF TypeOK
<1>3. CASE todo'[t] = Tail(todo[t])
  BY <1>1, <1>2, <1>3, TailStores
<1>4. CASE todo' = todo
  <2>1. Delivery(t)' /\ CacheFull(t)'
    BY <1>1, <1>4 DEF StoreInv, Delivery, Asked, Names, Delivers, Stored, Wanted, Value, CacheFull, Filling
  <2>2. Kept /\ (AbsDone(t)' <=> AbsDone(t))
    BY <1>1, <1>4 DEF Kept, Value, AbsDone
  <2> QED BY <1>1, <2>1, <2>2, ReqSame DEF StoreInv, Stutters
<1> QED BY <1>1, <1>3, <1>4

LEMMA StepStores ==
    ASSUME TypeOK, TypeOK', NEW t \in Threads, CellInv(t), CellInv(t)', StoreInv(t),
           Request(t) \/ Step(t)
    PROVE  StoreInv(t)' /\ Abstract(t)
BY RequestStores, EnterStores, CompareStores, FillStores, WalkStores, CountStores, SetStores,
   FinishStores DEF Step, Abstract

LEMMA StoreInit ==
    ASSUME Init, NEW t \in Threads
    PROVE  StoreInv(t)
PROOF
<1>1. pc[t] = "off" /\ todo[t] = <<>> /\ call[t] = NoCall(t) /\ ssa_ref[cl(t)] = NULL
  BY OwnTags DEF Init
<1> QED BY <1>1 DEF StoreInv, Delivery, Asked, Names, Delivers, CacheFull, NoCall

(* The variables of the store, and its steps when there is one thread. *)
StoreVars ==
    <<[v \in AppTags |-> Value(v)], [t \in Threads |-> AbsReq(t)], [t \in Threads |-> AbsDone(t)]>>

LEMMA AbstractStep ==
    ASSUME TypeOK, NEW t0, Threads = {t0}, Delivery(t0), Abstract(t0)
    PROVE  [Store!Next]_StoreVars
PROOF
<1> DEFINE val == [v \in AppTags |-> Value(v)]
           req == [t \in Threads |-> AbsReq(t)]
           done == [t \in Threads |-> AbsDone(t)]
<1>1. Kept => val' = val
  BY DEF Kept
<1>2. AbsReq(t0)' = AbsReq(t0) => req' = req
  OBVIOUS
<1>3. (AbsDone(t0)' <=> AbsDone(t0)) => done' = done
  <2>1. ASSUME AbsDone(t0)' <=> AbsDone(t0) PROVE AbsDone(t0)' = AbsDone(t0)
    BY <2>1 DEF AbsDone
  <2> QED BY <2>1
<1>4. req[t0] = AbsReq(t0) /\ done[t0] = AbsDone(t0) /\ t0 \in Threads
  OBVIOUS
<1>5. CASE Stutters(t0)
  BY <1>1, <1>2, <1>3, <1>5 DEF Stutters, StoreVars
<1>6. CASE Asks(t0)
  <2>1. val' = val /\ done' = done
    BY <1>1, <1>3, <1>6 DEF Asks
  <2>2. req[t0] = AbsNone /\ req' = [req EXCEPT ![t0] = AbsReq(t0)'] /\ AbsReq(t0)' \in Store!Request
    BY <1>6 DEF Asks
  <2>3. Store!Ask(t0, AbsReq(t0)')
    BY <2>1, <2>2 DEF Store!Ask
  <2> QED BY <1>4, <2>2, <2>3 DEF Store!Next
<1>7. CASE Replies(t0)
  <2>1. val' = val /\ done[t0]
    BY <1>1, <1>7 DEF Replies
  <2>2. req' = [req EXCEPT ![t0] = AbsNone]
    BY <1>7 DEF Replies
  <2>3. done' = [done EXCEPT ![t0] = FALSE]
    <3>1. AbsDone(t0)' = FALSE
      BY <1>7 DEF Replies
    <3> HIDE DEF Replies
    <3> QED BY <1>4, <3>1
  <2>4. Store!Reply(t0)
    BY <2>1, <2>2, <2>3 DEF Store!Reply
  <2> QED BY <1>4, <2>4 DEF Store!Next
<1>8. CASE Does(t0)
  <2>1. req' = req /\ req[t0] # AbsNone /\ ~done[t0]
    BY <1>2, <1>8 DEF Does
  <2>2. done' = [done EXCEPT ![t0] = TRUE]
    BY <1>8 DEF Does
  <2>3. call[t0].op \notin {"none", "fini"} /\ Names(call[t0])
    BY <1>8, ReqNone DEF Does, Delivery, Asked
  <2>4. req[t0].dst = call[t0].dst /\ Store!Effect(req[t0]) = Wanted(call[t0])
    <3> DEFINE c == call[t0]
    <3>1. c.op \in {"alloc", "copy", "load", "clear", "combine"}
      BY <2>3 DEF TypeOK, Call
    <3>2. /\ c.dst \in AppTags /\ val[c.dst] = Value(c.dst)
          /\ c.op \in {"load", "copy", "combine"} => val[c.src] = Value(c.src)
      BY <2>3 DEF Names
    <3>3. CASE c.op = "alloc"
      <4>1. req[t0] = [op |-> "alloc", dst |-> c.dst, off |-> c.off]
        BY <1>4, <3>3, ReqForm
      <4>2. req[t0].op = "alloc" /\ req[t0].dst = c.dst /\ req[t0].off = c.off
        BY <4>1
      <4> HIDE DEF req
      <4> QED BY <3>3, <4>2 DEF Store!Effect, Wanted
    <3>4. CASE c.op = "clear"
      <4>1. req[t0] = [op |-> "clear", dst |-> c.dst]
        BY <1>4, <3>4, ReqForm
      <4>2. req[t0].op = "clear" /\ req[t0].dst = c.dst
        BY <4>1
      <4> HIDE DEF req
      <4> QED BY <3>4, <4>2 DEF Store!Effect, Wanted
    <3>5. CASE c.op \in {"copy", "load", "combine"}
      <4>1. req[t0] = [op |-> c.op, dst |-> c.dst, src |-> c.src]
        BY <1>4, <2>3, <3>5, ReqForm
      <4>2. req[t0].op = c.op /\ req[t0].dst = c.dst /\ req[t0].src = c.src
        BY <4>1
      <4> HIDE DEF req
      <4>3. CASE c.op \in {"copy", "load"}
        BY <3>2, <4>2, <4>3 DEF Store!Effect, Wanted
      <4>4. CASE c.op = "combine"
        BY <3>2, <4>2, <4>4 DEF Store!Effect, Wanted
      <4> QED BY <3>5, <4>3, <4>4
    <3> QED BY <3>1, <3>3, <3>4, <3>5
  <2>5. val' = [val EXCEPT ![req[t0].dst] = Store!Effect(req[t0])]
    BY <1>8, <2>4 DEF Does
  <2>6. Store!Do(t0)
    BY <2>1, <2>2, <2>5 DEF Store!Do
  <2> QED BY <1>4, <2>6 DEF Store!Next
<1> QED BY <1>5, <1>6, <1>7, <1>8 DEF Abstract
LEMMA StoreStart == Init => Store!Init
PROOF
<1> SUFFICES ASSUME Init PROVE Store!Init
  OBVIOUS
<1>1. \A v \in AppTags : v \in Tags
  BY DEF AppTags, Tags
<1>2. [v \in AppTags |-> Value(v)] = [s \in AppTags |-> {}]
  BY <1>1 DEF Init, Value
<1>3. [t \in Threads |-> AbsReq(t)] = [t \in Threads |-> AbsNone]
  BY DEF Init, AbsReq, NoCall
<1>4. [t \in Threads |-> AbsDone(t)] = [t \in Threads |-> FALSE]
  BY DEF Init, AbsDone
<1> QED BY <1>2, <1>3, <1>4 DEF Store!Init

SInv == CInv /\ \A t \in Threads : StoreInv(t)

(* In a program with one thread the reference-counted cells, with their    *)
(* ring, collector and cache, implement a store of sets: every request     *)
(* (ssa_tag_alloc, ssa_tag_combine and the members of ssa_tag,             *)
(* ssa_tag_gc.cpp:153-293, ssa_tag_gc.h) changes exactly one byte or       *)
(* register, at one moment, to exactly the set its operands denote, for    *)
(* every number of bytes, registers and blocks and every block size.       *)
THEOREM StoreImplemented ==
    ASSUME NEW t0, Threads = {t0}
    PROVE  Spec => StoreSpec
PROOF
<1>1. Init => Store!Init
  BY StoreStart
<1>2. Init => SInv
  BY CellInductive, StoreInit DEF SInv
<1>3. ASSUME SInv, Next PROVE SInv' /\ [Store!Next]_StoreVars
  <2>1. CInv /\ CInv' /\ TypeOK /\ TypeOK'
    BY <1>3, CellInductive DEF SInv, CInv, IInv
  <2>2. t0 \in Threads /\ CellInv(t0) /\ CellInv(t0)' /\ StoreInv(t0) /\ (Request(t0) \/ Step(t0))
    BY <1>3, <2>1 DEF SInv, CInv, Next
  <2>3. StoreInv(t0)' /\ Abstract(t0)
    BY <2>1, <2>2, StepStores
  <2>4. [Store!Next]_StoreVars
    BY <2>1, <2>2, <2>3, AbstractStep DEF StoreInv
  <2> QED BY <2>1, <2>3, <2>4 DEF SInv
<1>4. ASSUME SInv, UNCHANGED vars PROVE SInv' /\ [Store!Next]_StoreVars
  <2> USE DEF vars, cellVars
  <2>1. CInv'
    BY <1>4, CellInductive DEF SInv
  <2>2. ASSUME NEW t \in Threads PROVE StoreInv(t)'
    <3>1. StoreInv(t) /\ UNCHANGED <<pc, call, res, todo, ssa_ref, bdd>>
      BY <1>4 DEF SInv
    <3>2. Asked(t)' /\ CacheFull(t)'
      BY <3>1 DEF StoreInv, Delivery, Asked, CacheFull, Filling
    <3>3. Delivers(t)'
      BY <3>1 DEF StoreInv, Delivery, Delivers, Stored, Wanted, Value
    <3> QED BY <3>2, <3>3 DEF StoreInv, Delivery
  <2>3. Stutters(t0)
    <3>1. t0 \in Threads /\ Kept /\ (AbsDone(t0)' <=> AbsDone(t0))
      BY <1>4 DEF Kept, Value, AbsDone
    <3> QED BY <1>4, <3>1, ReqSame DEF Stutters
  <2>4. [Store!Next]_StoreVars
    BY <1>4, <2>3, AbstractStep DEF SInv, CInv, IInv, StoreInv, Abstract
  <2> QED BY <2>1, <2>2, <2>4 DEF SInv
<1>5. SInv /\ [Next]_vars => [Store!Next]_StoreVars
  BY <1>3, <1>4
<1>6. SInv /\ [Next]_vars => SInv'
  BY <1>3, <1>4
<1> QED BY <1>1, <1>2, <1>5, <1>6, PTL DEF Spec, StoreSpec, Store!Spec, StoreVars
=============================================================================
