------------------------------ MODULE SsaPool ------------------------------
(***************************************************************************)
(* The reference-counted tag cells of the SSA tag backend                  *)
(* (ssa_tag_gc.cpp, ssa_tag_gc.h).                                         *)
(*                                                                         *)
(* A taint tag is a pointer (ssa_tag) to a cell (ssa) that holds a         *)
(* reference count and a BDD, the set of input offsets the tag stands for. *)
(* Free cells are handed out through one ring, free_ssa, shared by all     *)
(* application threads.  A thread that finds the ring empty takes gc_lock  *)
(* and refills it: it scans all the blocks for cells nobody references     *)
(* and adds a block when the scan found too few.                           *)
(*                                                                         *)
(* Every application thread is a process.  One step of a process is one    *)
(* access to the shared words (_h, _t, gc_lock, a ref_count, a tag         *)
(* variable), so that ref_count++ is a load and a store and the increment  *)
(* of another thread can be lost, exactly as for the plain ++ of the code. *)
(* The scan of the collector takes one step per cell.  BDDs are external:  *)
(* a BDD is the set it denotes, mtbdd_false (0) is the empty set.          *)
(***************************************************************************)
EXTENDS Integers, Sequences, FiniteSets

CONSTANTS
    Threads,    \* application threads (Pin thread ids)
    Mem,        \* tag cells of shadow memory, shared by the threads
    Regs,       \* tag cells of the shadow registers of one thread
    Offsets,    \* input offsets a tag may be allocated for
    SSA_BLK,    \* cells per block, and slots of the ring
    MaxBlocks,  \* bound on the number of blocks ever malloc'ed
    Word,       \* number of values of a uint64_t
    Junk        \* the BDD of a cell filled with 0xff by memset

(* The threshold (ssa_tag.h) is SSA_BLK / 2; below 3 cells the ring could  *)
(* stay empty for ever, because no block would be added (see Completes).   *)
ASSUME BlkAssumption == SSA_BLK \in Nat /\ SSA_BLK >= 3
ASSUME BoundAssumption == MaxBlocks \in Nat \ {0}
ASSUME WordAssumption == Word \in Nat /\ Word > MaxBlocks * SSA_BLK + 1
ASSUME TagAssumption ==    \* registers, cache and memory do not overlap
    /\ Mem \cap (Threads \X (Regs \cup {"cb_cache_l", "cb_cache_r",
                                        "cb_cache_v", "tmp"})) = {}
    /\ Regs \cap {"cb_cache_l", "cb_cache_r", "cb_cache_v", "tmp"} = {}
ASSUME JunkAssumption == \A s \in SUBSET Offsets : Junk # s

(* Mutant operators (Mut...) state plausible bugs; no run uses them as     *)
(* they stand: each shows that a property can fail.                        *)
MutThresholdZero == 0
MutThresholdFull == SSA_BLK
SSA_GC_THRESHOLD == SSA_BLK \div 2
UNUSED == Word - 1            \* 0xffffffffffffffff: the cell was never used
NULL == -1
Cell == 0 .. MaxBlocks * SSA_BLK - 1
Slot == 0 .. SSA_BLK - 1
U64  == 0 .. Word - 1
Bdd  == {Junk} \cup SUBSET Offsets

Inc(x) == (x + 1) % Word
Dec(x) == (x + Word - 1) % Word

-----------------------------------------------------------------------------
(* The variables of type ssa_tag.  A thread has its shadow registers, the  *)
(* three cache entries of ssa_tls_t and one temporary: the return value of *)
(* tag_alloc / tag_combine or the copy that tagmap_getb returns.           *)
Cache == {"cb_cache_l", "cb_cache_r", "cb_cache_v"}
RegTag(t) == {t} \X Regs
TagsOf(t) == Mem \cup ({t} \X (Regs \cup Cache \cup {"tmp"}))
Tags == Mem \cup (Threads \X (Regs \cup Cache \cup {"tmp"}))

(* A count never reaches the mark of an unused cell.                       *)
ASSUME CountAssumption == IsFiniteSet(Tags) /\ Cardinality(Tags) + 2 < Word

cl(t) == <<t, "cb_cache_l">>
cr(t) == <<t, "cb_cache_r">>
cv(t) == <<t, "cb_cache_v">>
tmp(t) == <<t, "tmp">>

(* The steps of the special members of ssa_tag, on variables d and s.      *)
MicroOp(t) == [op : {"inc", "dec", "copy", "move", "null"},
               a : TagsOf(t), b : TagsOf(t)]
inc(s)     == [op |-> "inc", a |-> s, b |-> s]
dec(d)     == [op |-> "dec", a |-> d, b |-> d]
copy(d, s) == [op |-> "copy", a |-> d, b |-> s]
move(d, s) == [op |-> "move", a |-> d, b |-> s]
null(d)    == [op |-> "null", a |-> d, b |-> d]

Construct(d, s) == <<inc(s), copy(d, s)>>            \* ssa_tag(const ssa_tag &)
Assign(d, s)    == <<inc(s), dec(d), copy(d, s)>>    \* operator=(const ssa_tag &)
MoveTo(d, s)    == <<dec(d), move(d, s)>>            \* operator=(ssa_tag &&)
Destroy(d)      == <<dec(d), null(d)>>               \* ~ssa_tag()
Clear(d)        == <<dec(d), null(d)>>               \* operator=(cleared_val)

-----------------------------------------------------------------------------
VARIABLES
    ref_count, bdd,        \* the cells
    prot,                  \* how often &cell.bdd is registered with Sylvan
    q, hd, tl, gc_lock,    \* free_ssa: _q, _h, _t, gc_lock
    nblk,                  \* ssa_blk_list.size()
    ssa_ref,               \* the pointer in every variable of type ssa_tag
    pc, call,              \* what each thread executes, for which operation
    idx, victim, res,      \* locals of ssa_tag_alloc / ssa_tag_combine
    empty_count, temp_t, it,  \* locals of ssa_gc
    todo,                  \* steps of ssa_tag members still to be done
    ld                     \* the word a ++ or -- has loaded and not stored

cellVars == <<ref_count, bdd, prot>>
ringVars == <<q, hd, tl, gc_lock, nblk>>
gcVars   == <<empty_count, temp_t, it>>
vars == <<cellVars, ringVars, gcVars, ssa_ref, pc, call, idx, victim, res,
          todo, ld>>

NoCall(t) == [op |-> "none", dst |-> tmp(t), src |-> tmp(t), off |-> NULL]
NoLoad == [cell |-> NULL, val |-> 0]

PC == {"off", "idle", "combine", "call", "compare", "head", "test", "lock",
       "gc_begin", "gc", "gc_add", "gc_unlock", "cas", "take", "mark",
       "cube", "fill", "run"}
GcPC == {"gc_begin", "gc", "gc_add", "gc_unlock"}

Call(t) ==
    {c \in [op : {"none", "alloc", "copy", "load", "clear", "combine", "fini"},
            dst : TagsOf(t), src : TagsOf(t), off : Offsets \cup {NULL}] :
        c.op = "alloc" => c.off \in Offsets}

TypeOK ==
    /\ ref_count \in [Cell -> U64]
    /\ bdd \in [Cell -> Bdd]
    /\ prot \in [Cell -> Nat]
    /\ q \in [Slot -> Cell \cup {NULL}]
    /\ hd \in Slot /\ tl \in Slot
    /\ gc_lock \in {0, 1}
    /\ nblk \in 1 .. MaxBlocks
    /\ ssa_ref \in [Tags -> Cell \cup {NULL}]
    /\ pc \in [Threads -> PC]
    /\ DOMAIN call = Threads /\ \A t \in Threads : call[t] \in Call(t)
    /\ idx \in [Threads -> Slot]
    /\ victim \in [Threads -> Cell \cup {NULL}]
    /\ res \in [Threads -> Bdd]
    /\ empty_count \in [Threads -> U64]
    /\ temp_t \in [Threads -> Slot]
    /\ it \in [Threads -> 0 .. MaxBlocks * SSA_BLK]
    /\ DOMAIN todo = Threads /\ \A t \in Threads : todo[t] \in Seq(MicroOp(t))
    /\ ld \in [Threads -> [cell : Cell \cup {NULL}, val : U64]]

-----------------------------------------------------------------------------
(* Free slots of the ring: one slot always stays empty.                    *)
EmptyCount(h, t) == IF t >= h THEN SSA_BLK - 1 - (t - h) ELSE h - t - 1

(* add_ssa_blk: the new block's cells fill the free slots from _t on; the  *)
(* cells that do not fit are found by a later scan.                        *)
Ahead(i, t) == (i - t + SSA_BLK) % SSA_BLK
FillRing(h, t, n) ==
    [i \in Slot |-> IF Ahead(i, t) < EmptyCount(h, t)
                    THEN n * SSA_BLK + Ahead(i, t) ELSE q[i]]

(* The ring, block list and lock as ssa_init leaves them.                  *)
Init ==
    /\ ref_count = [c \in Cell |-> UNUSED]
    /\ bdd = [c \in Cell |-> Junk]
    /\ prot = [c \in Cell |-> 0]
    /\ q = [i \in Slot |-> IF i < SSA_BLK - 1 THEN i ELSE NULL]
    /\ hd = 0 /\ tl = SSA_BLK - 1
    /\ gc_lock = 0
    /\ nblk = 1
    /\ ssa_ref = [v \in Tags |-> NULL]
    /\ pc = [t \in Threads |-> "off"]
    /\ call = [t \in Threads |-> NoCall(t)]
    /\ idx = [t \in Threads |-> 0]
    /\ victim = [t \in Threads |-> NULL]
    /\ res = [t \in Threads |-> {}]
    /\ empty_count = [t \in Threads |-> 0]
    /\ temp_t = [t \in Threads |-> 0]
    /\ it = [t \in Threads |-> 0]
    /\ todo = [t \in Threads |-> <<>>]
    /\ ld = [t \in Threads |-> NoLoad]

-----------------------------------------------------------------------------
(* Threads and the operations they ask for.                                *)
Goto(t, from, to) == pc[t] = from /\ pc' = [pc EXCEPT ![t] = to]

(* ssa_thread_start: memset of the thread's ssa_tls_t.  The tags in the    *)
(* registers of a reused thread id are not touched.                        *)
ThreadStart(t) ==
    /\ Goto(t, "off", "idle")
    /\ ssa_ref' = [v \in Tags |-> IF v \in {cl(t), cr(t), cv(t)}
                                  THEN NULL ELSE ssa_ref[v]]
    /\ UNCHANGED <<cellVars, ringVars, gcVars, call, idx, victim, res, todo, ld>>

(* Begin an operation that starts at pc "to" with member steps "steps".    *)
Begin(t, to, c, steps) ==
    /\ Goto(t, "idle", to)
    /\ call' = [call EXCEPT ![t] = c]
    /\ todo' = [todo EXCEPT ![t] = steps]
    /\ UNCHANGED <<cellVars, ringVars, gcVars, ssa_ref, idx, victim, res, ld>>

MutThreadFini(t) == Begin(t, "run", [NoCall(t) EXCEPT !.op = "fini"], <<>>)

(* ssa_thread_fini, once the worker has acknowledged quit.                 *)
ThreadFini(t) ==
    Begin(t, "run", [NoCall(t) EXCEPT !.op = "fini"],
          Destroy(cl(t)) \o Destroy(cr(t)) \o Destroy(cv(t)))

(* The loop body of a read hook: a fresh tag for one byte of the buffer.   *)
TaintByte(t, m, off) ==
    Begin(t, "head",
          [op |-> "alloc", dst |-> m, src |-> tmp(t), off |-> off], <<>>)

(* RTAG[r] = MTAG(m): the copy tagmap_getb returns is moved into place.    *)
LoadByte(t, r, m) ==
    Begin(t, "run", [op |-> "load", dst |-> r, src |-> m, off |-> NULL],
          Construct(tmp(t), m) \o MoveTo(r, tmp(t)))

(* tagmap_setb(m, RTAG[r]) *)
StoreByte(t, m, r) ==
    Begin(t, "run", [op |-> "copy", dst |-> m, src |-> r, off |-> NULL],
          Assign(m, r))

(* tagmap_clrb and the r_clr family *)
ClearByte(t, d) ==
    Begin(t, "run", [op |-> "clear", dst |-> d, src |-> d, off |-> NULL],
          Clear(d))

(* RTAG[d] = tag_combine(RTAG[d], RTAG[s], tid) *)
CombineByte(t, d, s) ==
    Begin(t, "combine", [op |-> "combine", dst |-> d, src |-> s, off |-> NULL],
          <<>>)

-----------------------------------------------------------------------------
(* ssa_tag_combine up to the request for a cell.                           *)
SameTag(x, y) ==    \* ssa_tag::operator==
    \/ ssa_ref[x] = ssa_ref[y]
    \/ /\ ssa_ref[x] # NULL /\ ssa_ref[y] # NULL
       /\ bdd[ssa_ref[x]] = bdd[ssa_ref[y]]

CacheHit(t, lhs, rhs) == SameTag(cl(t), lhs) /\ SameTag(cr(t), rhs)

(* "return v;" and the move assignment of the caller *)
Return(t, v) ==
    /\ pc' = [pc EXCEPT ![t] = "run"]
    /\ todo' = [todo EXCEPT ![t] =
                  Construct(tmp(t), v) \o MoveTo(call[t].dst, tmp(t))]

MutCombineEnter(t) ==    \* without the test of rhs
    LET lhs == call[t].dst  rhs == call[t].src IN
    /\ pc[t] = "combine"
    /\ \/ ssa_ref[lhs] = NULL /\ Return(t, rhs)
       \/ /\ ssa_ref[lhs] # NULL
          /\ pc' = [pc EXCEPT ![t] = "call"] /\ UNCHANGED todo
    /\ UNCHANGED <<cellVars, ringVars, gcVars, ssa_ref, call, idx, victim, res, ld>>

CombineEnter(t) ==
    LET lhs == call[t].dst  rhs == call[t].src IN
    /\ pc[t] = "combine"
    /\ \/ /\ ssa_ref[lhs] = NULL
          /\ Return(t, rhs)
       \/ /\ ssa_ref[lhs] # NULL
          /\ ssa_ref[rhs] = NULL \/ SameTag(lhs, rhs)
          /\ Return(t, lhs)
       \/ /\ ssa_ref[lhs] # NULL /\ ssa_ref[rhs] # NULL /\ ~SameTag(lhs, rhs)
          /\ CacheHit(t, lhs, rhs)
          /\ Return(t, cv(t))
       \/ /\ ssa_ref[lhs] # NULL /\ ssa_ref[rhs] # NULL /\ ~SameTag(lhs, rhs)
          /\ ~CacheHit(t, lhs, rhs)
          /\ pc' = [pc EXCEPT ![t] = "call"]
          /\ UNCHANGED todo
    /\ UNCHANGED <<cellVars, ringVars, gcVars, ssa_ref, call, idx, victim, res, ld>>

(* The worker's answer to task 2: the union of the two sets.               *)
Union(x, y) == IF Junk \in {x, y} THEN Junk ELSE x \cup y

CombineCall(t) ==
    /\ Goto(t, "call", "compare")
    /\ res' = [res EXCEPT ![t] = Union(bdd[ssa_ref[call[t].dst]],
                                       bdd[ssa_ref[call[t].src]])]
    /\ UNCHANGED <<cellVars, ringVars, gcVars, ssa_ref, call, idx, victim, todo, ld>>

MutFillCache(t, lhs, rhs, v) ==    \* the left operand twice
    Assign(cl(t), lhs) \o Assign(cr(t), lhs) \o Assign(cv(t), v)
FillCache(t, lhs, rhs, v) ==
    Assign(cl(t), lhs) \o Assign(cr(t), rhs) \o Assign(cv(t), v)

MutCombineCompare(t) ==    \* answers lhs when rhs contains lhs
    LET lhs == call[t].dst  rhs == call[t].src IN
    /\ pc[t] = "compare"
    /\ IF res[t] \in {bdd[ssa_ref[lhs]], bdd[ssa_ref[rhs]]} THEN Return(t, lhs)
       ELSE pc' = [pc EXCEPT ![t] = "head"] /\ UNCHANGED todo
    /\ UNCHANGED <<cellVars, ringVars, gcVars, ssa_ref, call, idx, victim, res, ld>>

(* One operand contains the other: no new cell.                            *)
CombineCompare(t) ==
    LET lhs == call[t].dst  rhs == call[t].src
        Reuse(v) ==
            /\ pc' = [pc EXCEPT ![t] = "run"]
            /\ todo' = [todo EXCEPT ![t] =
                 FillCache(t, lhs, rhs, v) \o Construct(tmp(t), v)
                                           \o MoveTo(lhs, tmp(t))]
    IN
    /\ pc[t] = "compare"
    /\ IF res[t] = bdd[ssa_ref[lhs]] THEN Reuse(lhs)
       ELSE IF res[t] = bdd[ssa_ref[rhs]] THEN Reuse(rhs)
       ELSE pc' = [pc EXCEPT ![t] = "head"] /\ UNCHANGED todo
    /\ UNCHANGED <<cellVars, ringVars, gcVars, ssa_ref, call, idx, victim, res, ld>>
-----------------------------------------------------------------------------
(* Taking a cell from the ring.                                            *)
ReadHead(t) ==
    /\ Goto(t, "head", "test")
    /\ idx' = [idx EXCEPT ![t] = hd]
    /\ UNCHANGED <<cellVars, ringVars, gcVars, ssa_ref, call, victim, res, todo, ld>>

(* while (idx == free_ssa._t) *)
TestTail(t) ==
    /\ pc[t] = "test"
    /\ pc' = [pc EXCEPT ![t] = IF idx[t] = tl THEN "lock" ELSE "cas"]
    /\ UNCHANGED <<cellVars, ringVars, gcVars, ssa_ref, call, idx, victim, res,
                   todo, ld>>

MutTryLock(t) ==    \* a plain store instead of the compare-and-swap
    /\ Goto(t, "lock", "gc_begin")
    /\ gc_lock' = 1
    /\ UNCHANGED <<cellVars, q, hd, tl, nblk, gcVars, ssa_ref, call, idx, victim,
                   res, todo, ld>>

(* compare-and-swap of gc_lock; without the lock the loop tests again      *)
TryLock(t) ==
    /\ pc[t] = "lock"
    /\ IF gc_lock = 0
       THEN gc_lock' = 1 /\ pc' = [pc EXCEPT ![t] = "gc_begin"]
       ELSE gc_lock' = gc_lock /\ pc' = [pc EXCEPT ![t] = "test"]
    /\ UNCHANGED <<cellVars, q, hd, tl, nblk, gcVars, ssa_ref, call, idx, victim,
                   res, todo, ld>>

MutPopCell(t) ==    \* without the wrap-around
    /\ pc[t] = "cas"
    /\ hd' = idx[t] + 1 /\ pc' = [pc EXCEPT ![t] = "take"]
    /\ UNCHANGED <<cellVars, q, tl, gc_lock, nblk, gcVars, ssa_ref, call, idx,
                   victim, res, todo, ld>>

MutPopStore(t) ==    \* a plain store instead of the compare-and-swap
    /\ Goto(t, "cas", "take")
    /\ hd' = (idx[t] + 1) % SSA_BLK
    /\ UNCHANGED <<cellVars, q, tl, gc_lock, nblk, gcVars, ssa_ref, call, idx,
                   victim, res, todo, ld>>

(* compare-and-swap of _h *)
PopCell(t) ==
    /\ pc[t] = "cas"
    /\ IF hd = idx[t]
       THEN hd' = (idx[t] + 1) % SSA_BLK /\ pc' = [pc EXCEPT ![t] = "take"]
       ELSE hd' = hd /\ pc' = [pc EXCEPT ![t] = "head"]
    /\ UNCHANGED <<cellVars, q, tl, gc_lock, nblk, gcVars, ssa_ref, call, idx,
                   victim, res, todo, ld>>

TakeVictim(t) ==
    /\ Goto(t, "take", "mark")
    /\ victim' = [victim EXCEPT ![t] = q[idx[t]]]
    /\ UNCHANGED <<cellVars, ringVars, gcVars, ssa_ref, call, idx, res, todo, ld>>

MutMarkVictim(t) ==    \* forgets ref_count = 1
    /\ pc[t] = "mark"
    /\ pc' = [pc EXCEPT ![t] = IF call[t].op = "alloc" THEN "cube" ELSE "fill"]
    /\ UNCHANGED <<cellVars, ringVars, gcVars, ssa_ref, call, idx, victim, res,
                   todo, ld>>

(* victim->ref_count = 1; for a new tag the worker is then asked (task 1)  *)
MarkVictim(t) ==
    /\ pc[t] = "mark"
    /\ pc' = [pc EXCEPT ![t] = IF call[t].op = "alloc" THEN "cube" ELSE "fill"]
    /\ ref_count' = [ref_count EXCEPT ![victim[t]] = 1]
    /\ UNCHANGED <<bdd, prot, ringVars, gcVars, ssa_ref, call, idx, victim, res,
                   todo, ld>>

AllocCall(t) ==
    /\ Goto(t, "cube", "fill")
    /\ res' = [res EXCEPT ![t] = {call[t].off}]
    /\ UNCHANGED <<cellVars, ringVars, gcVars, ssa_ref, call, idx, victim, todo, ld>>

(* victim->bdd = t->res; sylvan_protect(&victim->bdd); t->res = 0; the     *)
(* pointer is returned without counting: MarkVictim already counted it.    *)
FillVictim(t) ==
    LET lhs == call[t].dst  rhs == call[t].src IN
    /\ Goto(t, "fill", "run")
    /\ bdd' = [bdd EXCEPT ![victim[t]] = res[t]]
    /\ prot' = [prot EXCEPT ![victim[t]] = @ + 1]
    /\ res' = [res EXCEPT ![t] = {}]
    /\ ssa_ref' = [ssa_ref EXCEPT ![tmp(t)] = victim[t]]
    /\ todo' = [todo EXCEPT ![t] =
         IF call[t].op = "alloc"
         THEN Assign(lhs, tmp(t)) \o Destroy(tmp(t))
         ELSE FillCache(t, lhs, rhs, tmp(t)) \o MoveTo(lhs, tmp(t))]
    /\ UNCHANGED <<ref_count, ringVars, gcVars, call, idx, victim, ld>>

-----------------------------------------------------------------------------
(* ssa_gc, by the holder of gc_lock.                                       *)
GcBegin(t) ==
    /\ Goto(t, "gc_begin", "gc")
    /\ empty_count' = [empty_count EXCEPT ![t] = EmptyCount(hd, tl)]
    /\ temp_t' = [temp_t EXCEPT ![t] = tl]
    /\ it' = [it EXCEPT ![t] = 0]
    /\ UNCHANGED <<cellVars, ringVars, ssa_ref, call, idx, victim, res, todo, ld>>

MutReclaimable(c) == ref_count[c] \in {0, 1, UNUSED}
Reclaimable(c) == ref_count[c] \in {0, UNUSED}

MutUnprotect(c) == prot' = prot
(* mtbdd_unprotect removes one registration (none left is an assertion)    *)
Unprotect(c) ==
    prot' = IF ref_count[c] = 0 /\ bdd[c] # {} /\ prot[c] > 0
            THEN [prot EXCEPT ![c] = @ - 1] ELSE prot

(* A cell in use is passed over, a reclaimable one goes into the ring; the *)
(* scan stops when --empty_count reaches 0.                                *)
GcCell(t) ==
    LET c == it[t]
        left == Dec(empty_count[t])
        next == (temp_t[t] + 1) % SSA_BLK
    IN
    /\ pc[t] = "gc" /\ c < nblk * SSA_BLK
    /\ IF Reclaimable(c)
       THEN /\ q' = [q EXCEPT ![temp_t[t]] = c]
            /\ Unprotect(c)
            /\ temp_t' = [temp_t EXCEPT ![t] = next]
            /\ empty_count' = [empty_count EXCEPT ![t] = left]
            /\ IF left = 0
               THEN tl' = next /\ pc' = [pc EXCEPT ![t] = "gc_unlock"]
               ELSE UNCHANGED <<tl, pc>>
       ELSE UNCHANGED <<q, prot, temp_t, empty_count, tl, pc>>
    /\ it' = [it EXCEPT ![t] = c + 1]
    /\ UNCHANGED <<ref_count, bdd, hd, gc_lock, nblk, ssa_ref, call, idx, victim,
                   res, todo, ld>>

(* End of the block list: publish _t, and ask for a block when fewer than  *)
(* half of the slots were filled.                                          *)
GcEnd(t) ==
    /\ pc[t] = "gc" /\ it[t] = nblk * SSA_BLK
    /\ tl' = temp_t[t]
    /\ pc' = [pc EXCEPT ![t] = IF empty_count[t] > SSA_GC_THRESHOLD
                               THEN "gc_add" ELSE "gc_unlock"]
    /\ UNCHANGED <<cellVars, q, hd, gc_lock, nblk, gcVars, ssa_ref, call, idx,
                   victim, res, todo, ld>>

AddBlk(t) ==
    /\ nblk < MaxBlocks
    /\ Goto(t, "gc_add", "gc_unlock")
    /\ nblk' = nblk + 1
    /\ q' = FillRing(hd, tl, nblk)
    /\ tl' = (tl + EmptyCount(hd, tl)) % SSA_BLK
    /\ UNCHANGED <<cellVars, hd, gc_lock, gcVars, ssa_ref, call, idx, victim, res,
                   todo, ld>>

(* free_ssa.gc_lock = 0, and back to the test of the waiting loop          *)
GcUnlock(t) ==
    /\ Goto(t, "gc_unlock", "test")
    /\ gc_lock' = 0
    /\ UNCHANGED <<cellVars, q, hd, tl, nblk, gcVars, ssa_ref, call, idx, victim,
                   res, todo, ld>>

-----------------------------------------------------------------------------
(* Steps of the ssa_tag members.  x.ssa_ref->ref_count++ on a pointer that *)
(* is not NULL loads the count and stores it in two steps.                 *)
Counting(t) == todo[t] # <<>> /\ Head(todo[t]).op \in {"inc", "dec"}

LoadCount(t) ==
    LET c == ssa_ref[Head(todo[t]).a] IN
    /\ pc[t] = "run" /\ Counting(t) /\ ld[t] = NoLoad
    /\ IF c = NULL
       THEN todo' = [todo EXCEPT ![t] = Tail(@)] /\ UNCHANGED ld
       ELSE ld' = [ld EXCEPT ![t] = [cell |-> c, val |-> ref_count[c]]]
            /\ UNCHANGED todo
    /\ UNCHANGED <<cellVars, ringVars, gcVars, ssa_ref, pc, call, idx, victim, res>>

StoreCount(t) ==
    LET v == ld[t].val IN
    /\ pc[t] = "run" /\ Counting(t) /\ ld[t] # NoLoad
    /\ ref_count' = [ref_count EXCEPT ![ld[t].cell] =
                        IF Head(todo[t]).op = "inc" THEN Inc(v) ELSE Dec(v)]
    /\ ld' = [ld EXCEPT ![t] = NoLoad]
    /\ todo' = [todo EXCEPT ![t] = Tail(@)]
    /\ UNCHANGED <<bdd, prot, ringVars, gcVars, ssa_ref, pc, call, idx, victim, res>>

SetPointer(t) ==
    LET m == Head(todo[t]) IN
    /\ pc[t] = "run" /\ todo[t] # <<>> /\ ~Counting(t)
    /\ ssa_ref' =
         CASE m.op = "copy" -> [ssa_ref EXCEPT ![m.a] = ssa_ref[m.b]]
           [] m.op = "move" -> [ssa_ref EXCEPT ![m.a] = ssa_ref[m.b], ![m.b] = NULL]
           [] m.op = "null" -> [ssa_ref EXCEPT ![m.a] = NULL]
    /\ todo' = [todo EXCEPT ![t] = Tail(@)]
    /\ UNCHANGED <<cellVars, ringVars, gcVars, pc, call, idx, victim, res, ld>>

(* The operation is over; its locals go out of scope.                      *)
Finish(t) ==
    /\ pc[t] = "run" /\ todo[t] = <<>>
    /\ pc' = [pc EXCEPT ![t] = IF call[t].op = "fini" THEN "off" ELSE "idle"]
    /\ call' = [call EXCEPT ![t] = NoCall(t)]
    /\ idx' = [idx EXCEPT ![t] = 0]
    /\ victim' = [victim EXCEPT ![t] = NULL]
    /\ res' = [res EXCEPT ![t] = {}]
    /\ empty_count' = [empty_count EXCEPT ![t] = 0]
    /\ temp_t' = [temp_t EXCEPT ![t] = 0]
    /\ it' = [it EXCEPT ![t] = 0]
    /\ UNCHANGED <<cellVars, ringVars, ssa_ref, todo, ld>>

-----------------------------------------------------------------------------
(* What the instrumented program asks for, and what then runs by itself.   *)
Request(t) ==
    \/ ThreadStart(t) \/ ThreadFini(t)
    \/ \E m \in Mem :
          \/ \E off \in Offsets : TaintByte(t, m, off)
          \/ \E r \in RegTag(t) : LoadByte(t, r, m) \/ StoreByte(t, m, r)
    \/ \E d \in Mem \cup RegTag(t) : ClearByte(t, d)
    \/ \E d, s \in RegTag(t) : CombineByte(t, d, s)

Step(t) ==
    \/ CombineEnter(t) \/ CombineCall(t) \/ CombineCompare(t)
    \/ ReadHead(t) \/ TestTail(t) \/ TryLock(t) \/ PopCell(t)
    \/ TakeVictim(t) \/ MarkVictim(t) \/ AllocCall(t) \/ FillVictim(t)
    \/ GcBegin(t) \/ GcCell(t) \/ GcEnd(t) \/ AddBlk(t) \/ GcUnlock(t)
    \/ LoadCount(t) \/ StoreCount(t) \/ SetPointer(t) \/ Finish(t)

Next == \E t \in Threads : Request(t) \/ Step(t)

Spec == Init /\ [][Next]_vars

(* Every thread inside the tag library is eventually scheduled.            *)
FairSpec == Spec /\ \A t \in Threads : WF_vars(Step(t))
-----------------------------------------------------------------------------
(* Properties.                                                             *)
Refs(c) == {v \in Tags : ssa_ref[v] = c}
AppTags == Mem \cup (Threads \X Regs)      \* pages and registers
Allocated == 0 .. nblk * SSA_BLK - 1
InRing(i) == Ahead(i, hd) < Ahead(tl, hd)
Quiet == \A t \in Threads : pc[t] \in {"off", "idle"}

(* At most one thread runs ssa_gc, and gc_lock is held exactly then: the   *)
(* compare-and-swap at ssa_tag_gc.cpp:165 and 273 and the release at 149.  *)
GcMutex ==
    /\ \A t, u \in Threads : pc[t] \in GcPC /\ pc[u] \in GcPC => t = u
    /\ (gc_lock = 1) <=> \E t \in Threads : pc[t] \in GcPC

(* ssa_tag_combine never follows a NULL ssa_ref, whatever the other        *)
(* threads do: its operands are registers of the calling thread, tested on *)
(* entry (ssa_tag_gc.cpp:202-205) and still in place when their BDDs are   *)
(* read for the request (222-223) and for the comparison (250-257).        *)
OperandsLive ==
    \A t \in Threads :
        /\ pc[t] \in {"combine", "call", "compare"} =>
              call[t].dst \in RegTag(t) /\ call[t].src \in RegTag(t)
        /\ pc[t] \in {"call", "compare"} =>
              ssa_ref[call[t].dst] # NULL /\ ssa_ref[call[t].src] # NULL
        /\ pc[t] = "cube" => call[t].op = "alloc"

(* "Other -> in use, cannot be put into the free_ssa queue"                 *)
(* (ssa_tag_gc.cpp:76): a cell some tag points to never waits in the ring.  *)
UsedNotQueued == \A i \in Slot : InRing(i) => Refs(q[i]) = {}

(* The cells waiting in the ring are distinct, belong to a block, are      *)
(* referenced by no tag and by no thread that already took them, and are   *)
(* not registered with Sylvan any more.                                    *)
RingSound ==
    UsedNotQueued /\ \A i \in Slot : InRing(i) =>
        /\ q[i] \in Allocated
        /\ Reclaimable(q[i])
        /\ prot[q[i]] = 0
        /\ \A t \in Threads : pc[t] \in {"mark", "cube", "fill"} => victim[t] # q[i]
        /\ \A j \in Slot : InRing(j) /\ q[j] = q[i] => j = i

(* A cell some tag points to holds a tainted set that Sylvan keeps alive   *)
(* through exactly one registration, so one mtbdd_unprotect releases it.   *)
LiveProtected ==
    \A v \in Tags : ssa_ref[v] # NULL =>
        /\ ssa_ref[v] \in Allocated
        /\ prot[ssa_ref[v]] = 1
        /\ bdd[ssa_ref[v]] \notin {Junk, {}}

(* Between operations every count is the number of tags that point to the  *)
(* cell, and once all threads ended only pages and registers hold tags:    *)
(* what ssa_lastcheck tests (ssa_tag_gc.cpp:338-415).                      *)
LastCheck ==
    Quiet => \A c \in Cell :
        /\ IF ref_count[c] = UNUSED THEN Refs(c) = {}
           ELSE ref_count[c] = Cardinality(Refs(c))
        /\ (\A t \in Threads : pc[t] = "off") => Refs(c) \subseteq AppTags

(* A cell is never refilled under a tag that still points to it.           *)
ValueStable ==
    [][\A v \in Tags : ssa_ref[v] # NULL /\ ssa_ref'[v] = ssa_ref[v]
            => bdd'[ssa_ref[v]] = bdd[ssa_ref[v]]]_vars

(* The one-entry cache of a thread answers with the union of its keys,     *)
(* also after the collector has recycled the operands' former cells.       *)
CacheCoherent ==
    \A t \in Threads : pc[t] = "combine" /\ ssa_ref[cv(t)] # NULL =>
        bdd[ssa_ref[cv(t)]] = bdd[ssa_ref[cl(t)]] \cup bdd[ssa_ref[cr(t)]]

(* A block is only added when so few cells are free, over all blocks, that *)
(* the ring stays less than half full: the memory the cells take is        *)
(* bounded by the number of tags in use.                                   *)
BlocksBounded ==
    \A t \in Threads : pc[t] = "gc_add" =>
        Cardinality({c \in Allocated : ref_count[c] \in {0, UNUSED}})
            < SSA_BLK - 1 - SSA_BLK \div 2

(* Every request is answered: the waiting loop ends, because the collector *)
(* always leaves a cell in the ring.                                       *)
Completes ==
    \A t \in Threads : pc[t] \notin {"off", "idle"} ~> pc[t] \in {"off", "idle"}

(* The cells implement a store of sets: see TagStore.                      *)
Value(v) == IF ssa_ref[v] = NULL THEN {} ELSE bdd[ssa_ref[v]]
AbsNone == [op |-> "none"]
AbsReq(t) ==
    LET c == call[t] IN
    CASE c.op \in {"none", "fini"} -> AbsNone
      [] c.op = "alloc" -> [op |-> c.op, dst |-> c.dst, off |-> c.off]
      [] c.op = "clear" -> [op |-> c.op, dst |-> c.dst]
      [] OTHER -> [op |-> c.op, dst |-> c.dst, src |-> c.src]
AbsDone(t) ==
    /\ pc[t] = "run" /\ call[t].op # "fini"
    /\ \A i \in 1 .. Len(todo[t]) :
          todo[t][i].op \in {"inc", "dec"} \/ todo[t][i].a # call[t].dst

Store == INSTANCE TagStore WITH
    Slots <- AppTags, None <- AbsNone,
    val <- [v \in AppTags |-> Value(v)],
    req <- [t \in Threads |-> AbsReq(t)],
    done <- [t \in Threads |-> AbsDone(t)]

StoreSpec == Store!Spec
============================================================================
