---------------------------- MODULE MCSsaPool ----------------------------
(***************************************************************************)
(* TLC instances of SsaPool.  The number of requests is bounded by MaxOps; *)
(* nothing else is: with the values in the configurations of one thread no *)
(* behaviour needs more than MaxBlocks blocks.  raced is a history         *)
(* variable: whether one of the races of the code has happened.            *)
(***************************************************************************)
EXTENDS SsaPool, TLC
CONSTANT MaxOps
VARIABLES ops, raced

Symm == Permutations(Mem) \cup Permutations(Regs) \cup Permutations(Offsets)

MCInit == Init /\ ops = 0 /\ raced = FALSE

(* The application itself is free of data races: no two threads are inside *)
(* operations on one byte of memory of which one writes it.                *)
RaceFree ==
    \A t, u \in Threads : t # u /\ call[t].dst \in Mem =>
        call[t].dst \notin {call[u].dst, call[u].src}

(* The races of the library that need two threads, each in one step of t.  *)
Refilled(t) ==      \* collects although another thread has refilled the ring
    pc[t] = "gc_begin" /\ hd # tl
Popped(u) ==        \* the cell u has popped and not marked (172-175, 279-283)
    IF pc[u] = "take" THEN q[idx[u]] ELSE IF pc[u] = "mark" THEN victim[u] ELSE NULL
Requeued(t) ==      \* the scan queues that cell, or writes over its slot
    \E u \in Threads \ {t} :
        \/ pc[t] = "gc" /\ it[t] < nblk * SSA_BLK /\ it[t] = Popped(u)
        \/ pc[u] = "take" /\ q'[idx[u]] # q[idx[u]]
HeadAgain(t) ==     \* _h is back at idx, but nothing is left to pop
    pc[t] = "cas" /\ hd = idx[t] /\ hd = tl
LostCount(t) ==     \* stores a count another thread has changed since the load
    pc[t] = "run" /\ ld[t] # NoLoad /\ ref_count[ld[t].cell] # ld[t].val
Race(t) == Refilled(t) \/ Requeued(t) \/ HeadAgain(t) \/ LostCount(t)

MCRequest(t) ==
    Request(t) /\ RaceFree' /\ ops < MaxOps /\ ops' = ops + 1 /\ UNCHANGED raced
MCStep(t) == Step(t) /\ ops' = ops /\ raced' = (raced \/ Race(t))
MCNext == \E t \in Threads : MCRequest(t) \/ MCStep(t)
MCVars == <<vars, ops, raced>>
MCSpec == MCInit /\ [][MCNext]_MCVars
MCFairSpec == MCSpec /\ \A t \in Threads : WF_MCVars(MCStep(t))

(* A tag whose count is already released and whose pointer is about to be  *)
(* replaced: the last step of operator= and of the destructor.             *)
Replaced(v) ==
    \E t \in Threads : /\ todo[t] # <<>> /\ ~Counting(t)
                       /\ Head(todo[t]).a = v
Holders(c) == {v \in Refs(c) : ~Replaced(v)}

(* Two threads damage the pool through these races and no other way: until *)
(* one has happened, the free cells in the ring are distinct, unreferenced *)
(* and unregistered (ssa_tag_gc.cpp:71-76), a tag in use holds a set that  *)
(* is registered once (106, 287), and counts equal references whenever no  *)
(* operation runs (ssa_lastcheck).                                         *)
RacesOnly ==
    ~raced =>
        /\ \A i, j \in Slot : InRing(i) =>
              /\ q[i] \in Allocated /\ Reclaimable(q[i]) /\ prot[q[i]] = 0
              /\ Holders(q[i]) = {}
              /\ \A t \in Threads : q[i] # victim[t] \/ pc[t] \notin {"mark", "cube", "fill"}
              /\ InRing(j) /\ q[j] = q[i] => j = i
        /\ \A v \in Tags : ssa_ref[v] # NULL /\ ~Replaced(v) =>
              prot[ssa_ref[v]] = 1 /\ bdd[ssa_ref[v]] \notin {Junk, {}}
        /\ LastCheck
==========================================================================
