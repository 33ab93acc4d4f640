----------------------------- MODULE Propagate ------------------------------
(***************************************************************************)
(* The taint propagation handlers of libdft (ins_*_op.cpp), selected by    *)
(* ins_inspect (libdft_core.cpp), against the flow of data in module X86.  *)
(*                                                                         *)
(* Pin calls a handler before every execution of the instruction it was    *)
(* inserted for.  A handler assigns tags byte by byte; the result of its   *)
(* loops is written as a flow.  Its loops are as wide as the class of the  *)
(* register operand, whatever the instruction.                             *)
(*                                                                         *)
(* The tag of a byte is the set of input bytes it stands for.  Initially   *)
(* every byte of the machine holds an input byte of its own, named after   *)
(* the byte that holds it, so that no two sources can be confused.         *)
(***************************************************************************)
EXTENDS X86

CONSTANT Instructions   \* the instructions a program may execute

VARIABLES
    tag,     \* RTAG of the thread and the tag map, one tag per byte
    dep      \* the input bytes that the value of each byte depends on
vars == <<tag, dep>>

-----------------------------------------------------------------------------
(* Instructions, one op for the classes that are handled alike and for     *)
(* which data flows alike: op, the operands d and s, and                   *)
(*   eq: the condition holds, or the compared values are equal,            *)
(*   eq32: their low 32 bits are equal,                                    *)
(*   regs: the base and index registers, rep, count, df: of a string.      *)
Wide == {1, 2, 4, 8}
Two(op, forms) == {[op |-> op, d |-> f[1], s |-> f[2]] : f \in forms}
GprForms == UNION {Forms(GprOps(n), MemOps(n)) : n \in Wide}
ToGpr(n) == GprOps(n) \X (GprOps(n) \cup MemOps(n))

Mov == Two("MOV", GprForms) \cup Two("MOVDQU", Forms(VecOps(16), MemOps(16)))
       \cup Two("VMOVDQU", Forms(VecOps(32), MemOps(32)))
Lods == UNION {Two("LODS", {RAX(n)} \X MemOps(n)) : n \in Wide}
MovqLoad == Two("MOVQ", (VecOps(8) \X (VecOps(8) \cup MemOps(8) \cup GprOps(8)))
                        \cup (GprOps(8) \X VecOps(8)))
MovqStore == Two("MOVQ", MemOps(8) \X VecOps(8))
Movp == LET halves == VecOps(8) \cup {High(v) : v \in Vec}
        IN  Two("MOVP", (halves \X MemOps(8)) \cup (MemOps(8) \X halves))
Cmov == {[op |-> "CMOV", d |-> f[1], s |-> f[2], eq |-> e] :
            f \in UNION {ToGpr(n) : n \in {2, 4, 8}}, e \in BOOLEAN}
Clr == {[op |-> "MOVI", d |-> x] : x \in UNION {GprOps(n) \cup MemOps(n) : n \in Wide}}
       \cup {[op |-> "SET", d |-> x] : x \in GprOps(1) \cup MemOps(1)}
       \cup {[op |-> "PUSHI", d |-> x, n |-> n] : x \in MemOps(8), n \in Wide}
       \cup {[op |-> o] : o \in {"RDTSC", "CPUID"}}
Logic == Two("AND", GprForms) \cup Two("XOR", GprForms)
         \cup Two("XOR", VecOps(16) \X (VecOps(16) \cup MemOps(16)))
Mulsd == Two("MULSD", VecOps(8) \X (VecOps(8) \cup MemOps(8)))
Subsd == Two("SUBSD", VecOps(8) \X (VecOps(8) \cup MemOps(8)))
Bsf == Two("BSF", UNION {ToGpr(n) : n \in {2, 4, 8}})
Add == Two("ADD", GprForms)
Inc == {[op |-> "INC", d |-> x] : x \in UNION {GprOps(n) : n \in Wide}}
Lea == {[op |-> "LEA", d |-> x, regs |-> r] :
            x \in UNION {GprOps(n) : n \in {2, 4, 8}},
            r \in {q \in SUBSET Use : \E a, b \in Use : q \subseteq {a, b}}}
Mul1 == {[op |-> "MUL", s |-> x] : x \in UNION {GprOps(n) \cup MemOps(n) : n \in Wide}}
Xchg == Two("XCHG", GprForms)
Xadd == Two("XADD", UNION {(GprOps(n) \cup MemOps(n)) \X GprOps(n) : n \in Wide})
CmpxchgOf(sizes) ==
    {[op |-> "CMPXCHG", d |-> f[1], s |-> f[2], eq |-> e, eq32 |-> e] :
        f \in UNION {(GprOps(n) \cup MemOps(n)) \X GprOps(n) : n \in sizes},
        e \in BOOLEAN}
Cmpxchg8 == CmpxchgOf({8}) \cup
            {[i EXCEPT !.eq32 = TRUE] : i \in CmpxchgOf({8})}
Movbe == Two("MOVBE", UNION {(GprOps(n) \X MemOps(n)) \cup (MemOps(n) \X GprOps(n)) :
                                 n \in {2, 4, 8}})
NarrowOf(n, m) == GprOps(n) \X (GprOps(m) \cup MemOps(m))
Widening == {<<2, 1>>, <<4, 1>>, <<8, 1>>, <<4, 2>>, <<8, 2>>}
Movzx == UNION {Two("MOVZX", NarrowOf(w[1], w[2])) : w \in Widening}
MovsxByte == UNION {Two("MOVSX", NarrowOf(n, 1)) : n \in {2, 4, 8}}
MovsxWord == UNION {Two("MOVSX", NarrowOf(n, 2)) : n \in {4, 8}}
Movsxd == Two("MOVSXD", NarrowOf(8, 4))
Movsxd32 == Two("MOVSXD", NarrowOf(4, 4))
Cbw == Two("SEXT", {<<Op("RAX", 1, 1), RAX(1)>>})
Cwd == Two("SEXT", {<<Op("RAX", 2, 2), RAX(2)>>, <<Op("RAX", 4, 4), RAX(4)>>,
                    <<RDX(2), RAX(2)>>, <<RDX(4), RAX(4)>>, <<RDX(8), RAX(8)>>})
Stos1 == {[op |-> "STOS", d |-> x, rep |-> FALSE, count |-> 1, df |-> FALSE] :
             x \in UNION {MemOps(n) : n \in Wide}}
StosUp == {i \in [op : {"STOS"}, d : UNION {MemOps(n) : n \in Wide}, rep : {TRUE},
                  count : 0 .. MaxCount, df : {FALSE}] :
              i.d.o + i.count * i.d.n <= MemSize}
StosDown == {i \in [op : {"STOS"}, d : UNION {MemOps(n) : n \in Wide}, rep : {TRUE},
                    count : 0 .. MaxCount, df : {TRUE}] :
                i.d.o >= i.count * i.d.n}
(* Pairs of memory operands; the others overlap with the destination above. *)
Copies(n) == {f \in MemOps(n) \X MemOps(n) : f[1].o \notin f[2].o + 1 .. f[2].o + n - 1}
Push == UNION {Two("PUSH", (MemOps(n) \X GprOps(n)) \cup Copies(n)) : n \in {2, 8}}
Pop == UNION {Two("POP", (GprOps(n) \X MemOps(n)) \cup Copies(n)) : n \in {2, 8}}
Movs == UNION {Two("MOVS", Copies(n)) : n \in Wide}
MovsOver == UNION {Two("MOVS", (MemOps(n) \X MemOps(n)) \ Copies(n)) : n \in Wide}
Not == {[op |-> "NOT", d |-> x] : x \in UNION {GprOps(n) : n \in Wide}}
Bswap == {[op |-> "BSWAP", d |-> x] : x \in GprOps(4) \cup GprOps(8)}

-----------------------------------------------------------------------------
(* The handlers.  Mutant operators (Mut...) state plausible bugs.          *)

(* REG_is_xmm and the like: an xmm register always means 16 bytes, in the  *)
(* register and in memory.                                                 *)
Loop(x, n) == [x EXCEPT !.n = n]
ClassWidth(d, s) == LET x == IF d.k = "m" THEN s ELSE d
                    IN  IF x.k \in Vec /\ x.n < 16 THEN 16 ELSE x.n

xfer_op(d, s) == Move(d, s)          \* r2r_, m2r_, r2m_xfer_op*
binary_op(d, s) == Combine(d, s)     \* r2r_, m2r_, r2m_binary_op*
clr_op(d) == Clear(d)                \* r_clr*, tagmap_clrn

ins_xfer_op(d, s) ==
    LET n == ClassWidth(d, s) IN xfer_op(Loop(d, n), Loop(s, n))
ins_binary_op(d, s) ==
    LET n == ClassWidth(d, s) IN binary_op(Loop(d, n), Loop(s, n))
ins_xfer_op_predicated(i) == IF i.eq THEN xfer_op(i.d, i.s) ELSE None
ins_clear_op(d) == clr_op(d)
reg_eq(i) == i.d = i.s /\ i.d.k # "m"
r_clrl2 == Over(clr_op(RAX(8)), clr_op(RDX(8)))
r_clrl4 == [b \in {"RDX", "RCX", "RBX", "RAX"} \X (0 .. 7) |-> {}]

(* m2m_xfer_op*: byte after byte, so that a byte already overwritten is    *)
(* read back when the destination begins inside the source.                *)
CopiedFrom(d, s) ==
    LET src[j \in 0 .. d.n - 1] ==
            IF s.o + j \in d.o .. d.o + j - 1 THEN src[s.o + j - d.o] ELSE s.o + j
    IN  src
m2m_xfer_op(d, s) == [b \in Bytes(d) |-> {<<"m", CopiedFrom(d, s)[b[2] - d.o]>>}]

(* The other operand is on the stack.                                      *)
ins_push_op(d, s) == IF s.k = "m" THEN m2m_xfer_op(d, s) ELSE xfer_op(d, s)
ins_pop_op(d, s) == IF d.k = "m" THEN m2m_xfer_op(d, s) ELSE xfer_op(d, s)

(* stosd and stosq without rep call r2m_xfer_opw; with rep a quadword      *)
(* counts for four bytes, and downwards the last byte is the byte at d.    *)
r2m_xfer_op_n(i) ==
    LET total == i.count * (IF i.d.n = 8 THEN 4 ELSE i.d.n)
        first == IF i.df THEN i.d.o - total + 1 ELSE i.d.o
    IN  [b \in Bytes(Op("m", first, total)) |-> {<<"RAX", (b[2] - first) % i.d.n>>}]
ins_stos(i) ==
    IF i.rep THEN r2m_xfer_op_n(i)
    ELSE LET n == IF i.d.n = 1 THEN 1 ELSE 2 IN xfer_op(Loop(i.d, n), RAX(n))

ins_movlp_hp(d, s) == xfer_op(d, s)  \* ins_movlp, ins_movhp: half a register

(* The base and the index register, or nothing.                            *)
ins_lea(i) == [b \in Bytes(i.d) |-> {<<r, b[2]>> : r \in i.regs}]

(* m2r_, r2m_xfer_op*_rev *)
MutMovbe(d, s) == Move(d, s)
ins_movbe_op(d, s) == Permute(d, s, LAMBDA j : d.n - 1 - j)

(* The tags of a narrow source are repeated.                               *)
_movsx(d, s) == Permute(d, s, LAMBDA j : j % s.n)
ins_movsx_op(d, s) == _movsx(d, s)

(* A 32 bit destination is handled as by mov and then as one of 64 bits.   *)
ins_movsxd_op(d, s) ==
    Then(IF d.n = 8 THEN None ELSE ins_xfer_op(d, s), _movsx(Loop(d, 8), s))

(* _cbw, _cwde, _cdqe, _cwd, _cdq, _cqo *)
_sext(d, s) == Move(d, s)

(* *_unitary_op*: the source is added to both halves of the result.        *)
ins_unitary_op(s) ==
    IF s.n = 1 THEN [b \in Bytes(RAX(2)) |-> {b, <<s.k, s.o>>}]
    ELSE Over(binary_op(RDX(s.n), s), binary_op(RAX(s.n), s))

HELPER1(n) == Reg("HELPER1", n)

(* _xchg_* reads both operands first; 32 and 64 bit registers are swapped  *)
(* by three moves through the scratch register.                            *)
_xchg(d, s) == Over(xfer_op(s, d), xfer_op(d, s))
ins_xchg_op(d, s) ==
    IF d.n >= 4 /\ "m" \notin {d.k, s.k}
    THEN Then(Then(xfer_op(HELPER1(d.n), d), xfer_op(d, s)),
              xfer_op(s, HELPER1(d.n)))
    ELSE _xchg(d, s)

(* _xadd_*: s gets the old tags of d.                                      *)
ins_xadd_op(d, s) == Over(xfer_op(s, d), binary_op(d, s))

(* _cmpxchg_*_fast saves the tags of rax and gives it those of d; if it    *)
(* finds the values equal, _slow restores rax and moves s to d.  Values of *)
(* 64 bits are passed as uint32_t.                                         *)
Saved(n) == IF n = 2 THEN 4 ELSE n
_cmpxchg_fast(d) ==
    LET m == Saved(d.n) IN Then(xfer_op(HELPER1(m), RAX(m)), xfer_op(RAX(d.n), d))
_cmpxchg_slow(d, s) ==
    LET m == Saved(d.n) IN Then(xfer_op(RAX(m), HELPER1(m)), xfer_op(d, s))
ins_cmpxchg_op(i) ==
    IF i.d.n = 1 THEN None
    ELSE IF i.eq32 THEN Then(_cmpxchg_fast(i.d), _cmpxchg_slow(i.d, i.s))
    ELSE _cmpxchg_fast(i.d)

(* The case of an instruction; mulsd falls through to the code of mov.     *)
ins_inspect(i) ==
    CASE i.op \in {"MOV", "MOVDQU", "VMOVDQU", "LODS", "MOVQ"} -> ins_xfer_op(i.d, i.s)
      [] i.op = "MOVP" -> ins_movlp_hp(i.d, i.s)
      [] i.op = "MOVS" -> m2m_xfer_op(i.d, i.s)
      [] i.op = "CMOV" -> ins_xfer_op_predicated(i)
      [] i.op \in {"MOVI", "SET"} -> ins_clear_op(i.d)
      [] i.op = "PUSHI" -> clr_op(Loop(i.d, i.n))
      [] i.op = "PUSH" -> ins_push_op(i.d, i.s)
      [] i.op = "POP" -> ins_pop_op(i.d, i.s)
      [] i.op = "RDTSC" -> r_clrl2
      [] i.op = "CPUID" -> r_clrl4
      [] i.op \in {"AND", "ADD"} -> ins_binary_op(i.d, i.s)
      [] i.op = "XOR" -> IF reg_eq(i) THEN ins_clear_op(i.d)
                                      ELSE ins_binary_op(i.d, i.s)
      [] i.op = "MULSD" -> Then(ins_binary_op(i.d, i.s), ins_xfer_op(i.d, i.s))
      [] i.op = "SUBSD" -> IF reg_eq(i) THEN ins_clear_op(Loop(i.d, 16))
                                        ELSE ins_binary_op(i.d, i.s)
      [] i.op = "BSF" -> ins_xfer_op(i.d, i.s)
      [] i.op = "LEA" -> ins_lea(i)
      [] i.op = "MUL" -> ins_unitary_op(i.s)
      [] i.op = "XCHG" -> ins_xchg_op(i.d, i.s)
      [] i.op = "XADD" -> ins_xadd_op(i.d, i.s)
      [] i.op = "CMPXCHG" -> ins_cmpxchg_op(i)
      [] i.op = "MOVBE" -> ins_movbe_op(i.d, i.s)
      [] i.op \in {"MOVZX", "MOVSX"} -> ins_movsx_op(i.d, i.s)
      [] i.op = "MOVSXD" -> ins_movsxd_op(i.d, i.s)
      [] i.op = "SEXT" -> _sext(i.d, i.s)
      [] i.op = "STOS" -> ins_stos(i)
      [] i.op \in {"NOT", "INC", "BSWAP"} -> None

-----------------------------------------------------------------------------
Init ==
    /\ dep = [b \in Machine |-> {b}]
    /\ tag = [b \in Shadow |-> IF b \in Machine THEN {b} ELSE {}]

(* Pin calls the handler, then the processor executes the instruction.     *)
Run(i) ==
    /\ tag' = Apply(tag, ins_inspect(i))
    /\ dep' = Apply(dep, Execute(i))

Next == \E i \in Instructions : Run(i)

Spec == Init /\ [][Next]_vars

-----------------------------------------------------------------------------
(* The instructions whose handlers lose nothing, and groups of others, in  *)
(* each of which some instruction loses a byte.                            *)
Faithful ==
    UNION {Mov, Lods, MovqLoad, Movp, Cmov, Clr, Logic, Not, Push, Pop, Xchg,
           CmpxchgOf({2, 4}), Movbe, Movzx, MovsxByte, Movsxd32, Cbw, Movs,
           {i \in Stos1 : i.d.n <= 2}, {i \in StosUp : i.d.n <= 4},
           {i \in StosDown : i.d.n = 1}}
Lossy ==
    {MovqStore, Mulsd, Subsd, Bsf, Add, Inc, Lea, Mul1, Xadd, CmpxchgOf({1}),
     Cmpxchg8, MovsxWord, Movsxd, Cwd, MovsOver, Bswap,
     {i \in Stos1 : i.d.n > 2}, {i \in StosUp : i.d.n = 8},
     {i \in StosDown : i.d.n > 1}}

(* No input byte that the value of a byte depends on is missing in its     *)
(* tag, after any sequence of instructions: partial registers, the bytes   *)
(* a handler does not touch and the scratch register included.             *)
NoUnderTaint == \A b \in Machine : dep[b] \subseteq tag[b]
=============================================================================
