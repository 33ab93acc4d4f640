-------------------------- MODULE SsaPool_proofs ---------------------------
(***************************************************************************)
(* Theorems about SsaPool for every set of threads, block size and bound.  *)
(***************************************************************************)
EXTENDS SsaPool, SequenceTheorems, TLAPS

-----------------------------------------------------------------------------
(* Facts about the arithmetic of the ring.                                 *)

(* A block that may still be added lies inside the range of cells.         *)
LEMMA BlockRange ==
    ASSUME NEW n \in 1 .. MaxBlocks
    PROVE  /\ n * SSA_BLK \in Nat
           /\ n * SSA_BLK <= MaxBlocks * SSA_BLK
           /\ n < MaxBlocks => n * SSA_BLK + SSA_BLK <= MaxBlocks * SSA_BLK
PROOF
<1> USE BlkAssumption, BoundAssumption
<1>1. n * SSA_BLK \in Nat
  OBVIOUS
<1>2. ASSUME NEW m \in Nat, NEW k \in Nat
      PROVE m * SSA_BLK <= (m + k) * SSA_BLK
  <2>1. (m + k) * SSA_BLK = m * SSA_BLK + k * SSA_BLK
    OBVIOUS
  <2>2. k * SSA_BLK \in Nat /\ m * SSA_BLK \in Nat
    OBVIOUS
  <2> QED BY <2>1, <2>2
<1>3. n * SSA_BLK <= MaxBlocks * SSA_BLK
  <2>1. MaxBlocks - n \in Nat /\ n + (MaxBlocks - n) = MaxBlocks
    OBVIOUS
  <2> QED BY <2>1, <1>2
<1>4. ASSUME n < MaxBlocks
      PROVE n * SSA_BLK + SSA_BLK <= MaxBlocks * SSA_BLK
  <2>1. MaxBlocks - (n + 1) \in Nat /\ (n + 1) + (MaxBlocks - (n + 1)) = MaxBlocks
    BY <1>4
  <2>2. (n + 1) * SSA_BLK <= MaxBlocks * SSA_BLK
    BY <2>1, <1>2
  <2>3. (n + 1) * SSA_BLK = n * SSA_BLK + SSA_BLK
    OBVIOUS
  <2> QED BY <2>2, <2>3
<1> QED BY <1>1, <1>3, <1>4

(* The slot arithmetic stays inside the ring, and the number of free slots *)
(* is a uint64_t below SSA_BLK.                                            *)
LEMMA RingRange ==
    ASSUME NEW h \in Slot, NEW t \in Slot
    PROVE  /\ EmptyCount(h, t) \in 0 .. SSA_BLK - 1
           /\ EmptyCount(h, t) \in U64
           /\ Ahead(h, t) \in 0 .. SSA_BLK - 1
           /\ (h + 1) % SSA_BLK \in Slot
           /\ (t + EmptyCount(h, t)) % SSA_BLK \in Slot
PROOF
<1> USE BlkAssumption, BoundAssumption, WordAssumption
<1>1. EmptyCount(h, t) \in 0 .. SSA_BLK - 1
  BY DEF EmptyCount, Slot
<1>2. SSA_BLK <= MaxBlocks * SSA_BLK
  BY BlockRange, 1 \in 1 .. MaxBlocks
<1>3. SSA_BLK - 1 < Word
  BY <1>2
<1>4. EmptyCount(h, t) \in U64
  BY <1>1, <1>3 DEF U64
<1>5. \A x \in Nat : x % SSA_BLK \in 0 .. SSA_BLK - 1
  OBVIOUS
<1>6. h - t + SSA_BLK \in Nat /\ h + 1 \in Nat /\ t + EmptyCount(h, t) \in Nat
  BY <1>1 DEF Slot
<1> QED BY <1>1, <1>4, <1>5, <1>6 DEF Ahead, Slot

(* ++ and -- keep a value inside uint64_t.                                 *)
LEMMA WordRange ==
    ASSUME NEW x \in U64
    PROVE  Inc(x) \in U64 /\ Dec(x) \in U64
PROOF
<1>1. Word \in Nat /\ Word > 1
  BY WordAssumption, BlkAssumption, BoundAssumption, BlockRange, 1 \in 1 .. MaxBlocks
<1>2. \A y \in Nat : y % Word \in 0 .. Word - 1
  BY <1>1
<1> QED BY <1>1, <1>2 DEF Inc, Dec, U64

(* The member operations of ssa_tag are sequences of steps on variables    *)
(* the thread may touch.                                                   *)
LEMMA StepsType ==
    ASSUME NEW t \in Threads, NEW d \in TagsOf(t), NEW s \in TagsOf(t)
    PROVE  /\ Construct(d, s) \in Seq(MicroOp(t))
           /\ Assign(d, s) \in Seq(MicroOp(t))
           /\ MoveTo(d, s) \in Seq(MicroOp(t))
           /\ Destroy(d) \in Seq(MicroOp(t))
           /\ Clear(d) \in Seq(MicroOp(t))
PROOF
<1>1. /\ inc(s) \in MicroOp(t) /\ dec(d) \in MicroOp(t) /\ null(d) \in MicroOp(t)
      /\ copy(d, s) \in MicroOp(t) /\ move(d, s) \in MicroOp(t)
  BY DEF inc, dec, null, copy, move, MicroOp
<1> QED BY <1>1 DEF Construct, Assign, MoveTo, Destroy, Clear

(* A thread's own variables are among those it may touch.                  *)
LEMMA OwnTags ==
    ASSUME NEW t \in Threads
    PROVE  /\ {cl(t), cr(t), cv(t), tmp(t)} \subseteq TagsOf(t)
           /\ RegTag(t) \subseteq TagsOf(t) /\ Mem \subseteq TagsOf(t)
           /\ TagsOf(t) \subseteq Tags
PROOF BY DEF cl, cr, cv, tmp, TagsOf, RegTag, Tags, Cache

(* The registers of one thread are out of reach of every other thread.     *)
LEMMA Apart ==
    ASSUME NEW t \in Threads, NEW u \in Threads, t # u
    PROVE  RegTag(t) \cap TagsOf(u) = {}
PROOF
<1> SUFFICES ASSUME NEW v \in RegTag(t), v \in TagsOf(u) PROVE FALSE
  OBVIOUS
<1>1. PICK r \in Regs : v = <<t, r>>
  BY DEF RegTag
<1>2. v \notin Mem
  BY <1>1, TagAssumption
<1>3. PICK x \in Regs \cup Cache \cup {"tmp"} : v = <<u, x>>
  BY <1>2 DEF TagsOf
<1> QED BY <1>1, <1>3
-----------------------------------------------------------------------------
(* Types.                                                                  *)

(* ssa_init leaves a well-typed state.                                     *)
LEMMA TypeInit == Init => TypeOK
PROOF
<1> SUFFICES ASSUME Init PROVE TypeOK
  OBVIOUS
<1> USE DEF Init
<1>1. Word \in Nat /\ Word > 1 /\ SSA_BLK <= MaxBlocks * SSA_BLK
  BY WordAssumption, BlkAssumption, BoundAssumption, BlockRange, 1 \in 1 .. MaxBlocks
<1>2. ref_count \in [Cell -> U64] /\ bdd \in [Cell -> Bdd] /\ prot \in [Cell -> Nat]
  BY <1>1 DEF U64, UNUSED, Bdd
<1>3. \A i \in Slot : i < SSA_BLK - 1 => i \in Cell
  BY <1>1, BlkAssumption, BoundAssumption DEF Slot, Cell
<1>4. q \in [Slot -> Cell \cup {NULL}]
  BY <1>3
<1>5. hd \in Slot /\ tl \in Slot /\ gc_lock \in {0, 1} /\ nblk \in 1 .. MaxBlocks
  BY BlkAssumption, BoundAssumption DEF Slot
<1>6. /\ ssa_ref \in [Tags -> Cell \cup {NULL}]
      /\ pc \in [Threads -> PC]
      /\ victim \in [Threads -> Cell \cup {NULL}]
      /\ res \in [Threads -> Bdd]
  BY DEF PC, Bdd
<1>7. DOMAIN call = Threads /\ \A t \in Threads : call[t] \in Call(t)
  BY OwnTags DEF NoCall, Call
<1>8. DOMAIN todo = Threads /\ \A t \in Threads : todo[t] \in Seq(MicroOp(t))
  OBVIOUS
<1>9. 0 \in Slot /\ 0 \in U64 /\ 0 \in 0 .. MaxBlocks * SSA_BLK
  BY <1>1, BlkAssumption, BoundAssumption DEF Slot, U64
<1>10. /\ idx \in [Threads -> Slot]
       /\ empty_count \in [Threads -> U64]
       /\ temp_t \in [Threads -> Slot]
       /\ it \in [Threads -> 0 .. MaxBlocks * SSA_BLK]
       /\ ld \in [Threads -> [cell : Cell \cup {NULL}, val : U64]]
  BY <1>9 DEF NoLoad
<1> QED BY <1>2, <1>4, <1>5, <1>6, <1>7, <1>8, <1>10 DEF TypeOK

(* Requests start an operation with well-typed steps.                      *)
LEMMA TypeRequest ==
    ASSUME TypeOK, NEW t \in Threads, Request(t)
    PROVE  TypeOK'
PROOF
<1> USE DEF cellVars, ringVars, gcVars
<1>1. CASE ThreadStart(t)
  <2>1. ssa_ref' \in [Tags -> Cell \cup {NULL}]
    BY <1>1 DEF ThreadStart, TypeOK
  <2>2. pc' \in [Threads -> PC]
    BY <1>1 DEF ThreadStart, Goto, TypeOK, PC
  <2> QED BY <1>1, <2>1, <2>2 DEF ThreadStart, TypeOK
<1>2. ASSUME NEW to \in PC, NEW c \in Call(t), NEW steps \in Seq(MicroOp(t)),
             Begin(t, to, c, steps)
      PROVE  TypeOK'
  <2>1. pc' \in [Threads -> PC]
    BY <1>2 DEF Begin, Goto, TypeOK
  <2>2. DOMAIN call' = Threads /\ \A u \in Threads : call'[u] \in Call(u)
    BY <1>2 DEF Begin, TypeOK
  <2>3. DOMAIN todo' = Threads /\ \A u \in Threads : todo'[u] \in Seq(MicroOp(u))
    BY <1>2 DEF Begin, TypeOK
  <2> QED BY <1>2, <2>1, <2>2, <2>3 DEF Begin, TypeOK
<1>3. /\ cl(t) \in TagsOf(t) /\ cr(t) \in TagsOf(t) /\ cv(t) \in TagsOf(t)
      /\ tmp(t) \in TagsOf(t)
      /\ \A r \in RegTag(t) : r \in TagsOf(t)
      /\ \A m \in Mem : m \in TagsOf(t)
  BY OwnTags
<1>4. CASE ThreadFini(t)
  <2>1. Destroy(cl(t)) \o Destroy(cr(t)) \o Destroy(cv(t)) \in Seq(MicroOp(t))
    BY StepsType, <1>3, ConcatProperties
  <2>2. [NoCall(t) EXCEPT !.op = "fini"] \in Call(t)
    BY <1>3 DEF NoCall, Call
  <2>3. "run" \in PC
    BY DEF PC
  <2> QED BY <1>4, <1>2, <2>1, <2>2, <2>3 DEF ThreadFini
<1>5. ASSUME NEW m \in Mem, NEW off \in Offsets, TaintByte(t, m, off)
      PROVE  TypeOK'
  <2>1. [op |-> "alloc", dst |-> m, src |-> tmp(t), off |-> off] \in Call(t)
    BY <1>3 DEF Call
  <2>2. <<>> \in Seq(MicroOp(t)) /\ "head" \in PC
    BY DEF PC
  <2> QED BY <1>5, <1>2, <2>1, <2>2 DEF TaintByte
<1>6. ASSUME NEW m \in Mem, NEW r \in RegTag(t), LoadByte(t, r, m)
      PROVE  TypeOK'
  <2>1. [op |-> "load", dst |-> r, src |-> m, off |-> NULL] \in Call(t)
    BY <1>3 DEF Call
  <2>2. Construct(tmp(t), m) \o MoveTo(r, tmp(t)) \in Seq(MicroOp(t))
    BY StepsType, <1>3, ConcatProperties
  <2>3. "run" \in PC
    BY DEF PC
  <2> QED BY <1>6, <1>2, <2>1, <2>2, <2>3 DEF LoadByte
<1>7. ASSUME NEW m \in Mem, NEW r \in RegTag(t), StoreByte(t, m, r)
      PROVE  TypeOK'
  <2>1. [op |-> "copy", dst |-> m, src |-> r, off |-> NULL] \in Call(t)
    BY <1>3 DEF Call
  <2>2. Assign(m, r) \in Seq(MicroOp(t)) /\ "run" \in PC
    BY StepsType, <1>3 DEF PC
  <2> QED BY <1>7, <1>2, <2>1, <2>2 DEF StoreByte
<1>8. ASSUME NEW d \in Mem \cup RegTag(t), ClearByte(t, d)
      PROVE  TypeOK'
  <2>1. [op |-> "clear", dst |-> d, src |-> d, off |-> NULL] \in Call(t)
    BY <1>3 DEF Call
  <2>2. Clear(d) \in Seq(MicroOp(t)) /\ "run" \in PC
    BY StepsType, <1>3 DEF PC
  <2> QED BY <1>8, <1>2, <2>1, <2>2 DEF ClearByte
<1>9. ASSUME NEW d \in RegTag(t), NEW s \in RegTag(t), CombineByte(t, d, s)
      PROVE  TypeOK'
  <2>1. [op |-> "combine", dst |-> d, src |-> s, off |-> NULL] \in Call(t)
    BY <1>3 DEF Call
  <2>2. <<>> \in Seq(MicroOp(t)) /\ "combine" \in PC
    BY DEF PC
  <2> QED BY <1>9, <1>2, <2>1, <2>2 DEF CombineByte
<1> QED BY <1>1, <1>4, <1>5, <1>6, <1>7, <1>8, <1>9 DEF Request

(* A thread inside the library keeps the types.  OperandsLive is needed    *)
(* for the BDDs that CombineCall reads.                                    *)
LEMMA TypeStep ==
    ASSUME TypeOK, OperandsLive, NEW t \in Threads, Step(t)
    PROVE  TypeOK'
PROOF
<1> USE DEF cellVars, ringVars, gcVars
<1>own. /\ cl(t) \in TagsOf(t) /\ cr(t) \in TagsOf(t) /\ cv(t) \in TagsOf(t)
        /\ tmp(t) \in TagsOf(t) /\ TagsOf(t) \subseteq Tags
        /\ call[t].dst \in TagsOf(t) /\ call[t].src \in TagsOf(t)
  BY OwnTags DEF TypeOK, Call
<1>ret. ASSUME NEW v \in TagsOf(t)
        PROVE  Construct(tmp(t), v) \o MoveTo(call[t].dst, tmp(t)) \in Seq(MicroOp(t))
  BY <1>own, StepsType, ConcatProperties
<1>cache. ASSUME NEW v \in TagsOf(t)
          PROVE  FillCache(t, call[t].dst, call[t].src, v) \in Seq(MicroOp(t))
  BY <1>own, StepsType, ConcatProperties DEF FillCache
<1>todo. ASSUME NEW s \in Seq(MicroOp(t)), todo' = [todo EXCEPT ![t] = s]
         PROVE  DOMAIN todo' = Threads
                /\ \A u \in Threads : todo'[u] \in Seq(MicroOp(u))
  BY <1>todo DEF TypeOK
<1>pc. ASSUME NEW p \in PC, pc' = [pc EXCEPT ![t] = p]
       PROVE  pc' \in [Threads -> PC]
  BY <1>pc DEF TypeOK
<1>1. CASE CombineEnter(t)
  <2>1. ASSUME NEW v \in TagsOf(t), Return(t, v)
        PROVE  /\ pc' \in [Threads -> PC]
               /\ DOMAIN todo' = Threads
               /\ \A u \in Threads : todo'[u] \in Seq(MicroOp(u))
    BY <2>1, <1>ret, <1>todo, <1>pc DEF Return, PC
  <2>2. /\ pc' \in [Threads -> PC]
        /\ DOMAIN todo' = Threads
        /\ \A u \in Threads : todo'[u] \in Seq(MicroOp(u))
    <3>1. CASE \E v \in TagsOf(t) : Return(t, v)
      BY <3>1, <2>1
    <3>2. CASE pc' = [pc EXCEPT ![t] = "call"] /\ todo' = todo
      BY <3>2, <1>pc DEF PC, TypeOK
    <3> QED BY <1>1, <1>own, <3>1, <3>2 DEF CombineEnter
  <2> QED BY <1>1, <2>2 DEF CombineEnter, TypeOK
<1>2. CASE CombineCall(t)
  <2>1. pc' \in [Threads -> PC]
    BY <1>2, <1>pc DEF CombineCall, Goto, PC
  <2>2. /\ ssa_ref[call[t].dst] \in Cell /\ ssa_ref[call[t].src] \in Cell
    BY <1>2, <1>own DEF CombineCall, Goto, OperandsLive, TypeOK
  <2>3. Union(bdd[ssa_ref[call[t].dst]], bdd[ssa_ref[call[t].src]]) \in Bdd
    BY <2>2 DEF Union, Bdd, TypeOK
  <2>4. res' \in [Threads -> Bdd]
    BY <1>2, <2>3 DEF CombineCall, TypeOK
  <2> QED BY <1>2, <2>1, <2>4 DEF CombineCall, TypeOK
<1>3. CASE CombineCompare(t)
  <2>1. ASSUME NEW v \in TagsOf(t)
        PROVE  FillCache(t, call[t].dst, call[t].src, v) \o Construct(tmp(t), v)
                 \o MoveTo(call[t].dst, tmp(t)) \in Seq(MicroOp(t))
    <3>1. /\ FillCache(t, call[t].dst, call[t].src, v) \in Seq(MicroOp(t))
          /\ Construct(tmp(t), v) \in Seq(MicroOp(t))
          /\ MoveTo(call[t].dst, tmp(t)) \in Seq(MicroOp(t))
      BY <1>own, <1>cache, StepsType
    <3> QED BY <3>1, ConcatProperties
  <2>2. /\ pc' \in [Threads -> PC]
        /\ DOMAIN todo' = Threads
        /\ \A u \in Threads : todo'[u] \in Seq(MicroOp(u))
    <3>1. CASE pc' = [pc EXCEPT ![t] = "head"] /\ todo' = todo
      BY <3>1, <1>pc DEF PC, TypeOK
    <3>2. CASE \E v \in TagsOf(t) :
                 /\ pc' = [pc EXCEPT ![t] = "run"]
                 /\ todo' = [todo EXCEPT ![t] =
                      FillCache(t, call[t].dst, call[t].src, v) \o Construct(tmp(t), v)
                        \o MoveTo(call[t].dst, tmp(t))]
      BY <3>2, <2>1, <1>todo, <1>pc DEF PC
    <3> QED BY <1>3, <1>own, <3>1, <3>2 DEF CombineCompare
  <2> QED BY <1>3, <2>2 DEF CombineCompare, TypeOK
<1>4. CASE ReadHead(t)
  <2>1. pc' \in [Threads -> PC]
    BY <1>4, <1>pc DEF ReadHead, Goto, PC
  <2> QED BY <1>4, <2>1 DEF ReadHead, TypeOK
<1>5. CASE TestTail(t)
  <2>1. pc' \in [Threads -> PC]
    BY <1>5 DEF TestTail, PC, TypeOK
  <2> QED BY <1>5, <2>1 DEF TestTail, TypeOK
<1>6. CASE TryLock(t)
  <2>1. pc' \in [Threads -> PC] /\ gc_lock' \in {0, 1}
    BY <1>6 DEF TryLock, PC, TypeOK
  <2> QED BY <1>6, <2>1 DEF TryLock, TypeOK
<1>7. CASE PopCell(t)
  <2>1. pc' \in [Threads -> PC]
    BY <1>7, ZenonT(60) DEF PopCell, PC, TypeOK
  <2>2. hd' \in Slot
    <3>1. idx[t] \in Slot /\ hd \in Slot
      BY DEF TypeOK
    <3> QED BY <1>7, <3>1, RingRange DEF PopCell
  <2> QED BY <1>7, <2>1, <2>2 DEF PopCell, TypeOK
<1>8. CASE TakeVictim(t)
  <2>1. pc' \in [Threads -> PC]
    BY <1>8, <1>pc DEF TakeVictim, Goto, PC
  <2>2. victim' \in [Threads -> Cell \cup {NULL}]
    BY <1>8 DEF TakeVictim, TypeOK
  <2> QED BY <1>8, <2>1, <2>2 DEF TakeVictim, TypeOK
<1>9. CASE MarkVictim(t)
  <2>1. pc' \in [Threads -> PC]
    BY <1>9 DEF MarkVictim, PC, TypeOK
  <2>2. 1 \in U64
    BY WordAssumption, BlkAssumption, BoundAssumption, BlockRange,
       1 \in 1 .. MaxBlocks DEF U64
  <2>3. ref_count' \in [Cell -> U64]
    BY <1>9, <2>2 DEF MarkVictim, TypeOK
  <2> QED BY <1>9, <2>1, <2>3 DEF MarkVictim, TypeOK
<1>10. CASE AllocCall(t)
  <2>1. pc' \in [Threads -> PC]
    BY <1>10, <1>pc DEF AllocCall, Goto, PC
  <2>2. call[t].op = "alloc" /\ call[t].off \in Offsets
    BY <1>10 DEF AllocCall, Goto, OperandsLive, TypeOK, Call
  <2>3. res' \in [Threads -> Bdd]
    BY <1>10, <2>2 DEF AllocCall, TypeOK, Bdd
  <2> QED BY <1>10, <2>1, <2>3 DEF AllocCall, TypeOK
<1>11. CASE FillVictim(t)
  <2>1. pc' \in [Threads -> PC]
    BY <1>11, <1>pc DEF FillVictim, Goto, PC
  <2>2. bdd' \in [Cell -> Bdd] /\ prot' \in [Cell -> Nat]
    <3>1. bdd' \in [Cell -> Bdd]
      BY <1>11 DEF FillVictim, TypeOK
    <3>2. \A c \in Cell : prot[c] \in Nat /\ prot[c] + 1 \in Nat
      BY DEF TypeOK
    <3>3. prot' \in [Cell -> Nat]
      BY <1>11, <3>2 DEF FillVictim, TypeOK
    <3> QED BY <3>1, <3>3
  <2>3. res' \in [Threads -> Bdd]
    BY <1>11 DEF FillVictim, TypeOK, Bdd
  <2>4. ssa_ref' \in [Tags -> Cell \cup {NULL}]
    BY <1>11, <1>own DEF FillVictim, TypeOK
  <2>5. /\ Assign(call[t].dst, tmp(t)) \o Destroy(tmp(t)) \in Seq(MicroOp(t))
        /\ FillCache(t, call[t].dst, call[t].src, tmp(t))
              \o MoveTo(call[t].dst, tmp(t)) \in Seq(MicroOp(t))
    BY <1>own, <1>cache, StepsType, ConcatProperties
  <2>6. /\ DOMAIN todo' = Threads
        /\ \A u \in Threads : todo'[u] \in Seq(MicroOp(u))
    <3>1. PICK s \in Seq(MicroOp(t)) : todo' = [todo EXCEPT ![t] = s]
      BY <1>11, <2>5 DEF FillVictim
    <3> QED BY <3>1, <1>todo
  <2> QED BY <1>11, <2>1, <2>2, <2>3, <2>4, <2>6 DEF FillVictim, TypeOK
<1>12. CASE GcBegin(t)
  <2>1. pc' \in [Threads -> PC]
    BY <1>12, <1>pc DEF GcBegin, Goto, PC
  <2>2. EmptyCount(hd, tl) \in U64
    BY RingRange DEF TypeOK
  <2>3. 0 \in 0 .. MaxBlocks * SSA_BLK
    BY BlkAssumption, BoundAssumption
  <2>4. /\ empty_count' \in [Threads -> U64]
        /\ temp_t' \in [Threads -> Slot]
        /\ it' \in [Threads -> 0 .. MaxBlocks * SSA_BLK]
    BY <1>12, <2>2, <2>3 DEF GcBegin, TypeOK
  <2> QED BY <1>12, <2>1, <2>4 DEF GcBegin, TypeOK
<1>13. CASE GcCell(t)
  <2>1. /\ it[t] \in Nat /\ it[t] < nblk * SSA_BLK /\ nblk * SSA_BLK \in Nat
        /\ nblk * SSA_BLK <= MaxBlocks * SSA_BLK /\ MaxBlocks * SSA_BLK \in Nat
    <3>1. nblk \in 1 .. MaxBlocks /\ it[t] \in 0 .. MaxBlocks * SSA_BLK
      BY DEF TypeOK
    <3>2. MaxBlocks * SSA_BLK \in Nat
      BY BlkAssumption, BoundAssumption
    <3> QED BY <1>13, <3>1, <3>2, BlockRange DEF GcCell
  <2>2. it[t] \in Cell /\ it[t] + 1 \in 0 .. MaxBlocks * SSA_BLK
    BY <2>1 DEF Cell
  <2>3. Dec(empty_count[t]) \in U64 /\ (temp_t[t] + 1) % SSA_BLK \in Slot
    <3>1. empty_count[t] \in U64 /\ temp_t[t] \in Slot
      BY DEF TypeOK
    <3> QED BY <3>1, WordRange, RingRange
  <2>4. it' \in [Threads -> 0 .. MaxBlocks * SSA_BLK]
    BY <1>13, <2>2 DEF GcCell, TypeOK
  <2>5. prot' \in [Cell -> Nat]
    BY <1>13, <2>2 DEF GcCell, Unprotect, TypeOK
  <2>6. /\ q' \in [Slot -> Cell \cup {NULL}]
        /\ temp_t' \in [Threads -> Slot]
        /\ empty_count' \in [Threads -> U64]
        /\ tl' \in Slot
    BY <1>13, <2>2, <2>3, ZenonT(60) DEF GcCell, TypeOK
  <2>7. pc' \in [Threads -> PC]
    BY <1>13 DEF GcCell, TypeOK, PC
  <2> QED BY <1>13, <2>4, <2>5, <2>6, <2>7 DEF GcCell, TypeOK
<1>14. CASE GcEnd(t)
  <2>1. pc' \in [Threads -> PC] /\ tl' \in Slot
    BY <1>14 DEF GcEnd, TypeOK, PC
  <2> QED BY <1>14, <2>1 DEF GcEnd, TypeOK
<1>15. CASE AddBlk(t)
  <2>1. pc' \in [Threads -> PC]
    BY <1>15, <1>pc DEF AddBlk, Goto, PC
  <2>2. nblk \in 1 .. MaxBlocks /\ nblk < MaxBlocks /\ nblk' \in 1 .. MaxBlocks
    BY <1>15, BoundAssumption DEF AddBlk, TypeOK
  <2>3. tl' \in Slot
    BY <1>15, RingRange DEF AddBlk, TypeOK
  <2>4. \A i \in Slot : nblk * SSA_BLK + Ahead(i, tl) \in Cell
    <3> SUFFICES ASSUME NEW i \in Slot
                 PROVE  nblk * SSA_BLK + Ahead(i, tl) \in Cell
      OBVIOUS
    <3>1. Ahead(i, tl) \in 0 .. SSA_BLK - 1
      BY RingRange DEF TypeOK
    <3>2. nblk * SSA_BLK \in Nat /\ nblk * SSA_BLK + SSA_BLK <= MaxBlocks * SSA_BLK
      BY <2>2, BlockRange
    <3> QED BY <3>1, <3>2, BlkAssumption, BoundAssumption DEF Cell
  <2>5. q' \in [Slot -> Cell \cup {NULL}]
    BY <1>15, <2>4 DEF AddBlk, FillRing, TypeOK
  <2> QED BY <1>15, <2>1, <2>2, <2>3, <2>5 DEF AddBlk, TypeOK
<1>16. CASE GcUnlock(t)
  <2>1. pc' \in [Threads -> PC]
    BY <1>16, <1>pc DEF GcUnlock, Goto, PC
  <2> QED BY <1>16, <2>1 DEF GcUnlock, TypeOK
<1>tail. ASSUME todo[t] # <<>>
         PROVE  /\ Head(todo[t]) \in MicroOp(t)
                /\ Tail(todo[t]) \in Seq(MicroOp(t))
  BY <1>tail, HeadTailProperties DEF TypeOK
<1>17. CASE LoadCount(t)
  <2>1. Head(todo[t]).a \in Tags
    BY <1>17, <1>tail, <1>own DEF LoadCount, Counting, MicroOp
  <2>2. /\ DOMAIN todo' = Threads
        /\ \A u \in Threads : todo'[u] \in Seq(MicroOp(u))
    <3>1. CASE todo' = [todo EXCEPT ![t] = Tail(todo[t])]
      BY <3>1, <1>17, <1>tail, <1>todo DEF LoadCount, Counting
    <3>2. CASE todo' = todo
      BY <3>2 DEF TypeOK
    <3> QED BY <1>17, <3>1, <3>2 DEF LoadCount
  <2>3. ld' \in [Threads -> [cell : Cell \cup {NULL}, val : U64]]
    <3>1. CASE ld' = ld
      BY <3>1 DEF TypeOK
    <3>2. ASSUME NEW c \in Cell,
                 ld' = [ld EXCEPT ![t] = [cell |-> c, val |-> ref_count[c]]]
          PROVE  ld' \in [Threads -> [cell : Cell \cup {NULL}, val : U64]]
      <4>1. [cell |-> c, val |-> ref_count[c]] \in [cell : Cell \cup {NULL}, val : U64]
        BY DEF TypeOK
      <4> QED BY <3>2, <4>1 DEF TypeOK
    <3>3. ssa_ref[Head(todo[t]).a] \in Cell \cup {NULL}
      BY <2>1 DEF TypeOK
    <3> QED BY <1>17, <3>1, <3>2, <3>3 DEF LoadCount
  <2> QED BY <1>17, <2>2, <2>3 DEF LoadCount, TypeOK
<1>18. CASE StoreCount(t)
  <2>1. /\ DOMAIN todo' = Threads
        /\ \A u \in Threads : todo'[u] \in Seq(MicroOp(u))
    BY <1>18, <1>tail, <1>todo DEF StoreCount, Counting
  <2>2. Inc(ld[t].val) \in U64 /\ Dec(ld[t].val) \in U64
    BY WordRange DEF TypeOK
  <2>3. ref_count' \in [Cell -> U64]
    BY <1>18, <2>2 DEF StoreCount, TypeOK
  <2>4. NoLoad \in [cell : Cell \cup {NULL}, val : U64]
    <3>1. 0 \in U64
      BY WordAssumption, BlkAssumption, BoundAssumption, BlockRange,
         1 \in 1 .. MaxBlocks DEF U64
    <3> QED BY <3>1 DEF NoLoad
  <2>5. ld' \in [Threads -> [cell : Cell \cup {NULL}, val : U64]]
    BY <1>18, <2>4 DEF StoreCount, TypeOK
  <2> QED BY <1>18, <2>1, <2>3, <2>5 DEF StoreCount, TypeOK
<1>19. CASE SetPointer(t)
  <2>1. /\ DOMAIN todo' = Threads
        /\ \A u \in Threads : todo'[u] \in Seq(MicroOp(u))
    BY <1>19, <1>tail, <1>todo DEF SetPointer
  <2>2. /\ Head(todo[t]).a \in Tags /\ Head(todo[t]).b \in Tags
        /\ Head(todo[t]).op \in {"copy", "move", "null"}
    BY <1>19, <1>tail, <1>own DEF SetPointer, Counting, MicroOp
  <2>3. ssa_ref' \in [Tags -> Cell \cup {NULL}]
    BY <1>19, <2>2 DEF SetPointer, TypeOK
  <2> QED BY <1>19, <2>1, <2>3 DEF SetPointer, TypeOK
<1>20. CASE Finish(t)
  <2>1. pc' \in [Threads -> PC]
    BY <1>20 DEF Finish, PC, TypeOK
  <2>2. DOMAIN call' = Threads /\ \A u \in Threads : call'[u] \in Call(u)
    BY <1>20, <1>own DEF Finish, NoCall, Call, TypeOK
  <2>3. 0 \in Slot /\ 0 \in U64 /\ 0 \in 0 .. MaxBlocks * SSA_BLK
    BY WordAssumption, BlkAssumption, BoundAssumption, BlockRange,
       1 \in 1 .. MaxBlocks DEF U64, Slot
  <2>4. /\ idx' \in [Threads -> Slot] /\ temp_t' \in [Threads -> Slot]
        /\ empty_count' \in [Threads -> U64]
        /\ it' \in [Threads -> 0 .. MaxBlocks * SSA_BLK]
        /\ victim' \in [Threads -> Cell \cup {NULL}]
        /\ res' \in [Threads -> Bdd]
    BY <1>20, <2>3 DEF Finish, TypeOK, Bdd
  <2> QED BY <1>20, <2>1, <2>2, <2>4 DEF Finish, TypeOK
<1> QED BY <1>1, <1>2, <1>3, <1>4, <1>5, <1>6, <1>7, <1>8, <1>9, <1>10, <1>11,
           <1>12, <1>13, <1>14, <1>15, <1>16, <1>17, <1>18, <1>19, <1>20 DEF Step
-----------------------------------------------------------------------------
(* A step of one thread does not touch what belongs to another.            *)
LEMMA Frame ==
    ASSUME TypeOK, NEW t \in Threads, Request(t) \/ Step(t),
           NEW u \in Threads, u # t
    PROVE  /\ pc'[u] = pc[u] /\ call'[u] = call[u]
           /\ \A v \in RegTag(u) : ssa_ref'[v] = ssa_ref[v]
PROOF
<1> USE DEF cellVars, ringVars, gcVars
<1>1. pc'[u] = pc[u]
  <2>1. CASE Request(t)
    BY <2>1, SMTT(60) DEF Request, ThreadStart, ThreadFini, TaintByte, LoadByte, StoreByte,
                ClearByte, CombineByte, Begin, Goto, TypeOK
  <2>2. CASE CombineEnter(t) \/ CombineCall(t) \/ CombineCompare(t)
    BY <2>2 DEF CombineEnter, Return, CombineCall, CombineCompare, Goto, TypeOK
  <2>3. CASE \/ ReadHead(t) \/ TestTail(t) \/ TryLock(t) \/ PopCell(t)
             \/ TakeVictim(t) \/ MarkVictim(t) \/ AllocCall(t) \/ FillVictim(t)
    BY <2>3 DEF ReadHead, TestTail, TryLock, PopCell, TakeVictim, MarkVictim,
                AllocCall, FillVictim, Goto, TypeOK
  <2>4. CASE GcBegin(t) \/ GcCell(t) \/ GcEnd(t) \/ AddBlk(t) \/ GcUnlock(t)
    BY <2>4 DEF GcBegin, GcCell, GcEnd, AddBlk, GcUnlock, Goto, TypeOK
  <2>5. CASE LoadCount(t) \/ StoreCount(t) \/ SetPointer(t) \/ Finish(t)
    BY <2>5 DEF LoadCount, StoreCount, SetPointer, Finish, TypeOK
  <2> QED BY <2>1, <2>2, <2>3, <2>4, <2>5 DEF Step
<1>2. call'[u] = call[u]
  <2>1. CASE Request(t)
    BY <2>1, SMTT(60) DEF Request, ThreadStart, ThreadFini, TaintByte, LoadByte, StoreByte,
                ClearByte, CombineByte, Begin, TypeOK
  <2>2. CASE Finish(t)
    BY <2>2, SMTT(60) DEF Finish, TypeOK
  <2>3. CASE Step(t) /\ ~Finish(t)
    BY <2>3 DEF Step, CombineEnter, CombineCall, CombineCompare, ReadHead, TestTail,
                TryLock, PopCell, TakeVictim, MarkVictim, AllocCall, FillVictim,
                GcBegin, GcCell, GcEnd, AddBlk, GcUnlock, LoadCount, StoreCount,
                SetPointer
  <2> QED BY <2>1, <2>2, <2>3
<1>3. ASSUME NEW v \in RegTag(u)
      PROVE  ssa_ref'[v] = ssa_ref[v]
  <2>1. v \notin TagsOf(t) /\ v \in Tags
    BY Apart, OwnTags
  <2>2. CASE ThreadStart(t)
    BY <2>1, <2>2, OwnTags DEF ThreadStart
  <2>3. CASE Request(t) /\ ~ThreadStart(t)
    BY <2>3 DEF Request, ThreadFini, TaintByte, LoadByte, StoreByte, ClearByte,
                CombineByte, Begin
  <2>4. CASE FillVictim(t)
    BY <2>1, <2>4, OwnTags DEF FillVictim, TypeOK
  <2>5. CASE SetPointer(t)
    <3>1. Head(todo[t]) \in MicroOp(t)
      BY <2>5, HeadTailProperties DEF SetPointer, TypeOK
    <3>2. /\ Head(todo[t]).a \in TagsOf(t) /\ Head(todo[t]).b \in TagsOf(t)
          /\ Head(todo[t]).op \in {"copy", "move", "null"}
      BY <2>5, <3>1 DEF SetPointer, Counting, MicroOp
    <3>3. v # Head(todo[t]).a /\ v # Head(todo[t]).b
      BY <2>1, <3>2, SMTT(60)
    <3> QED BY <2>5, <2>1, <3>2, <3>3 DEF SetPointer, TypeOK
  <2>6. CASE Step(t) /\ ~FillVictim(t) /\ ~SetPointer(t)
    BY <2>6 DEF Step, CombineEnter, CombineCall, CombineCompare, ReadHead, TestTail,
                TryLock, PopCell, TakeVictim, MarkVictim, AllocCall,
                GcBegin, GcCell, GcEnd, AddBlk, GcUnlock, LoadCount, StoreCount,
                Finish
  <2> QED BY <2>2, <2>3, <2>4, <2>5, <2>6
<1> QED BY <1>1, <1>2, <1>3

(* The operands of a combination in progress stay where they are.          *)
OperandsOf(t) ==
    /\ pc[t] \in {"combine", "call", "compare"} =>
          call[t].dst \in RegTag(t) /\ call[t].src \in RegTag(t)
    /\ pc[t] \in {"call", "compare"} =>
          ssa_ref[call[t].dst] # NULL /\ ssa_ref[call[t].src] # NULL
    /\ pc[t] = "cube" => call[t].op = "alloc"

LEMMA OperandsStep ==
    ASSUME TypeOK, OperandsLive, NEW t \in Threads, Request(t) \/ Step(t)
    PROVE  OperandsLive'
PROOF
<1> USE DEF cellVars, ringVars, gcVars
<1>0. OperandsLive <=> \A u \in Threads : OperandsOf(u)
  BY DEF OperandsLive, OperandsOf
<1>1. ASSUME NEW u \in Threads, u # t PROVE OperandsOf(u)'
  BY <1>0, <1>1, Frame DEF OperandsOf
<1>2. OperandsOf(t)'
  <2>1. CASE CombineByte(t, call'[t].dst, call'[t].src)
             /\ call'[t].dst \in RegTag(t) /\ call'[t].src \in RegTag(t)
    BY <2>1 DEF CombineByte, Begin, Goto, OperandsOf, TypeOK
  <2>2. ASSUME NEW d \in RegTag(t), NEW s \in RegTag(t), CombineByte(t, d, s)
        PROVE  OperandsOf(t)'
    BY <2>2, <2>1 DEF CombineByte, Begin, TypeOK
  <2>3. CASE Request(t) /\ ~\E d, s \in RegTag(t) : CombineByte(t, d, s)
    BY <2>3 DEF Request, ThreadStart, ThreadFini, TaintByte, LoadByte, StoreByte,
                ClearByte, Begin, Goto, OperandsOf, TypeOK
  <2>4. CASE CombineEnter(t)
    BY <2>4, <1>0 DEF CombineEnter, Return, OperandsOf, TypeOK
  <2>5. CASE CombineCall(t)
    BY <2>5, <1>0 DEF CombineCall, Goto, OperandsOf, TypeOK
  <2>6. CASE CombineCompare(t)
    BY <2>6 DEF CombineCompare, OperandsOf, TypeOK
  <2>7. CASE \/ ReadHead(t) \/ TestTail(t) \/ TryLock(t) \/ PopCell(t)
             \/ TakeVictim(t) \/ MarkVictim(t) \/ AllocCall(t) \/ FillVictim(t)
    BY <2>7 DEF ReadHead, TestTail, TryLock, PopCell, TakeVictim, MarkVictim,
                AllocCall, FillVictim, Goto, OperandsOf, TypeOK
  <2>8. CASE GcBegin(t) \/ GcCell(t) \/ GcEnd(t) \/ AddBlk(t) \/ GcUnlock(t)
    BY <2>8 DEF GcBegin, GcCell, GcEnd, AddBlk, GcUnlock, Goto, OperandsOf, TypeOK
  <2>9. CASE LoadCount(t) \/ StoreCount(t) \/ SetPointer(t) \/ Finish(t)
    BY <2>9 DEF LoadCount, StoreCount, SetPointer, Finish, OperandsOf, TypeOK
  <2> QED BY <2>2, <2>3, <2>4, <2>5, <2>6, <2>7, <2>8, <2>9 DEF Request, Step
<1>3. \A u \in Threads : OperandsOf(u)'
  BY <1>1, <1>2
<1> QED BY <1>3 DEF OperandsLive, OperandsOf

-----------------------------------------------------------------------------
(* gc_lock.                                                                *)
LEMMA MutexStep ==
    ASSUME TypeOK, GcMutex, NEW t \in Threads, Request(t) \/ Step(t)
    PROVE  GcMutex'
PROOF
<1> USE DEF cellVars, ringVars, gcVars
<1>0. \A u \in Threads : u # t => pc'[u] = pc[u]
  BY Frame
<1>1. CASE Request(t)
  <2>1. gc_lock' = gc_lock /\ pc[t] \notin GcPC /\ pc'[t] \notin GcPC
    BY <1>1 DEF Request, ThreadStart, ThreadFini, TaintByte, LoadByte, StoreByte,
                ClearByte, CombineByte, Begin, Goto, GcPC, TypeOK
  <2> QED BY <1>0, <2>1 DEF GcMutex
<1>2. CASE TryLock(t)
  <2>1. pc[t] \notin GcPC
    BY <1>2 DEF TryLock, GcPC
  <2>2. CASE gc_lock = 0
    <3>1. gc_lock' = 1 /\ pc'[t] \in GcPC
      BY <1>2, <2>2 DEF TryLock, GcPC, TypeOK
    <3> QED BY <1>0, <2>2, <3>1 DEF GcMutex
  <2>3. CASE gc_lock # 0
    <3>1. gc_lock' = gc_lock /\ pc'[t] \notin GcPC
      BY <1>2, <2>3 DEF TryLock, GcPC, TypeOK
    <3> QED BY <1>0, <2>1, <3>1 DEF GcMutex
  <2> QED BY <2>2, <2>3
<1>3. CASE GcUnlock(t)
  <2>1. pc[t] \in GcPC /\ pc'[t] \notin GcPC /\ gc_lock' = 0
    BY <1>3 DEF GcUnlock, Goto, GcPC, TypeOK
  <2> QED BY <1>0, <2>1 DEF GcMutex
<1>4. CASE GcBegin(t) \/ GcCell(t) \/ GcEnd(t) \/ AddBlk(t)
  <2>1. pc[t] \in GcPC /\ pc'[t] \in GcPC /\ gc_lock' = gc_lock
    BY <1>4, SMTT(60) DEF GcBegin, GcCell, GcEnd, AddBlk, Goto, GcPC, TypeOK
  <2> QED BY <1>0, <2>1 DEF GcMutex
<1>5. CASE \/ CombineEnter(t) \/ CombineCall(t) \/ CombineCompare(t)
           \/ ReadHead(t) \/ TestTail(t) \/ PopCell(t) \/ TakeVictim(t)
           \/ MarkVictim(t) \/ AllocCall(t) \/ FillVictim(t)
           \/ LoadCount(t) \/ StoreCount(t) \/ SetPointer(t) \/ Finish(t)
  <2>1. gc_lock' = gc_lock /\ pc[t] \notin GcPC /\ pc'[t] \notin GcPC
    BY <1>5, ZenonT(60) DEF CombineEnter, Return, CombineCall, CombineCompare, ReadHead,
                TestTail, PopCell, TakeVictim, MarkVictim, AllocCall, FillVictim,
                LoadCount, StoreCount, SetPointer, Finish, Goto, GcPC, TypeOK
  <2> QED BY <1>0, <2>1 DEF GcMutex
<1> QED BY <1>1, <1>2, <1>3, <1>4, <1>5 DEF Step

-----------------------------------------------------------------------------
(* The inductive invariant and the theorems it gives.                      *)
IInv == TypeOK /\ OperandsLive /\ GcMutex

LEMMA IInvInductive ==
    /\ Init => IInv
    /\ IInv /\ [Next]_vars => IInv'
PROOF
<1>1. Init => IInv
  <2> SUFFICES ASSUME Init PROVE IInv
    OBVIOUS
  <2>1. OperandsLive
    BY DEF Init, OperandsLive
  <2>2. GcMutex
    BY DEF Init, GcMutex, GcPC
  <2> QED BY <2>1, <2>2, TypeInit DEF IInv
<1>2. ASSUME IInv, Next PROVE IInv'
  <2>1. PICK t \in Threads : Request(t) \/ Step(t)
    BY <1>2 DEF Next
  <2> QED BY <1>2, <2>1, TypeRequest, TypeStep, OperandsStep, MutexStep DEF IInv
<1>3. ASSUME IInv, UNCHANGED vars PROVE IInv'
  BY <1>3 DEF IInv, vars, cellVars, ringVars, gcVars, TypeOK, OperandsLive, GcMutex
<1> QED BY <1>1, <1>2, <1>3

(* Every reachable state is well typed, for any number of threads: in      *)
(* particular the ring indices, the scan position and the counters of      *)
(* ssa_gc stay in range even when two collections run back to back.        *)
THEOREM TypeCorrect == Spec => []TypeOK
PROOF
<1>1. IInv => TypeOK
  BY DEF IInv
<1> QED BY IInvInductive, <1>1, PTL DEF Spec

(* ssa_gc runs in at most one thread at a time, and gc_lock is 1 exactly   *)
(* while it runs, for any number of threads.                               *)
THEOREM GcExclusive == Spec => []GcMutex
PROOF
<1>1. IInv => GcMutex
  BY DEF IInv
<1> QED BY IInvInductive, <1>1, PTL DEF Spec

(* ssa_tag_combine never follows a NULL pointer, for any number of threads *)
(* and whatever the others do to shadow memory.                            *)
THEOREM NoNullOperand == Spec => []OperandsLive
PROOF
<1>1. IInv => OperandsLive
  BY DEF IInv
<1> QED BY IInvInductive, <1>1, PTL DEF Spec
=============================================================================
