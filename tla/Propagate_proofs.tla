-------------------------- MODULE Propagate_proofs --------------------------
(***************************************************************************)
(* NoUnderTaint for any registers and any memory: every handler of a       *)
(* faithful instruction assigns at least the flow of the data.             *)
(***************************************************************************)
EXTENDS Propagate, TLAPS

-----------------------------------------------------------------------------
(* Flows.                                                                  *)

(* The handler's flow g covers the data flow f, which stays in the machine. *)
Covers(g, f) == \A b \in Machine : At(f, b) \subseteq At(g, b) \cap Machine

(* An operand of the machine. *)
Operand(x) == /\ x = Op(x.k, x.o, x.n) /\ x.o \in Nat /\ x.n \in Nat
              /\ Bytes(x) \subseteq Machine

LEMMA ByteFacts ==
    ASSUME NEW x, x.o \in Nat, x.n \in Nat, NEW b
    PROVE  b \in Bytes(x) <=> \E j \in x.o .. x.o + x.n - 1 : b = <<x.k, j>>
BY DEF Bytes

LEMMA MoveAt ==
    ASSUME NEW d, NEW s, NEW b
    PROVE  /\ b \in Bytes(d) => At(Move(d, s), b) = {<<s.k, s.o + (b[2] - d.o)>>}
           /\ b \notin Bytes(d) => At(Move(d, s), b) = {b}
BY DEF At, Move

(* A byte of d corresponds to a byte of s, if s is not shorter. *)
LEMMA Matching ==
    ASSUME NEW d, NEW s, Operand(d), Operand(s), d.n <= s.n, NEW b \in Bytes(d)
    PROVE  /\ b = <<d.k, b[2]>> /\ b[2] \in Nat /\ d.o <= b[2] /\ b[2] < d.o + d.n
           /\ <<s.k, s.o + (b[2] - d.o)>> \in Bytes(s)
           /\ <<s.k, s.o + (b[2] - d.o)>> \in Machine
PROOF
<1>1. PICK j \in d.o .. d.o + d.n - 1 : b = <<d.k, j>>
  BY DEF Bytes, Operand
<1>2. s.o + (j - d.o) \in s.o .. s.o + s.n - 1
  BY <1>1 DEF Operand
<1>3. <<s.k, s.o + (j - d.o)>> \in Bytes(s)
  BY <1>2 DEF Bytes
<1> QED BY <1>1, <1>3 DEF Operand

(* Clearing the upper half of a register covers nothing less. *)
LEMMA ZextAt ==
    ASSUME NEW d, NEW f, NEW b
    PROVE  /\ At(Zext(d, f), b) \subseteq At(f, b)
           /\ b \in DOMAIN f => At(Zext(d, f), b) = f[b]
           /\ \A j \in 4 .. 7 : /\ d.k \in Gpr /\ d.o + d.n = 4
                                /\ b = <<d.k, j>> /\ b \notin DOMAIN f
                                => At(Zext(d, f), b) = {}
PROOF
<1> DEFINE h == Op(d.k, 4, 4)
<1>1. h.k = d.k /\ h.o = 4 /\ h.n = 4
  BY DEF Op
<1>2. \A j \in 4 .. 7 : <<d.k, j>> \in Bytes(h)
  BY <1>1 DEF Bytes
<1> HIDE DEF h
<1>3. CASE d.k \in Gpr /\ d.o + d.n = 4
  <2>1. Zext(d, f) = [c \in DOMAIN f \cup Bytes(h) |-> IF c \in DOMAIN f THEN f[c] ELSE {}]
    BY <1>3 DEF Zext, Over, Clear, h
  <2> QED BY <1>2, <2>1 DEF At
<1>4. CASE ~(d.k \in Gpr /\ d.o + d.n = 4)
  <2>1. Zext(d, f) = f
    BY <1>4 DEF Zext
  <2> QED BY <1>4, <2>1 DEF At
<1> QED BY <1>3, <1>4

LEMMA ThenAt ==
    ASSUME NEW f, NEW g, NEW b
    PROVE  At(Then(f, g), b) = UNION {At(f, s) : s \in At(g, b)}
PROOF
<1>1. CASE b \in DOMAIN f \cup DOMAIN g
  BY <1>1 DEF At, Then
<1>2. CASE b \notin DOMAIN f \cup DOMAIN g
  <2>1. At(Then(f, g), b) = {b} /\ At(g, b) = {b} /\ At(f, b) = {b}
    BY <1>2 DEF At, Then
  <2> QED BY <2>1
<1> QED BY <1>1, <1>2

(* The common case of moves in sequence: byte b comes from byte c. *)
Goes(f, b, c) == At(f, b) = {c}

LEMMA ThenGoes ==
    ASSUME NEW f, NEW g, NEW b, NEW c, NEW a, Goes(g, b, c), Goes(f, c, a)
    PROVE  Goes(Then(f, g), b, a)
BY ThenAt DEF Goes

LEMMA MoveGoes ==
    ASSUME NEW d, NEW s, NEW b
    PROVE  /\ b \in Bytes(d) => Goes(Move(d, s), b, <<s.k, s.o + (b[2] - d.o)>>)
           /\ b \notin Bytes(d) => Goes(Move(d, s), b, b)
BY MoveAt DEF Goes

LEMMA CoversZext ==
    ASSUME NEW d, NEW f, NEW g, Covers(g, f)
    PROVE  Covers(g, Zext(d, f))
BY ZextAt DEF Covers

LEMMA CoversMove ==
    ASSUME NEW d, NEW s, Operand(d), Operand(s), d.n = s.n
    PROVE  Covers(Move(d, s), Move(d, s))
PROOF
<1> SUFFICES ASSUME NEW b \in Machine PROVE At(Move(d, s), b) \subseteq Machine
  BY DEF Covers
<1>1. CASE b \in Bytes(d)
  <2>1. d.n <= s.n
    BY DEF Operand
  <2> QED BY <1>1, <2>1, MoveAt, Matching
<1>2. CASE b \notin Bytes(d)
  BY <1>2, MoveAt
<1> QED BY <1>1, <1>2

LEMMA CoversCombine ==
    ASSUME NEW d, NEW s, Operand(d), Operand(s), d.n = s.n
    PROVE  Covers(Combine(d, s), Combine(d, s))
PROOF
<1> SUFFICES ASSUME NEW b \in Machine PROVE At(Combine(d, s), b) \subseteq Machine
  BY DEF Covers
<1>1. CASE b \in Bytes(d)
  <2>1. d.n <= s.n
    BY DEF Operand
  <2>2. <<s.k, s.o + (b[2] - d.o)>> \in Machine
    BY <1>1, <2>1, Matching
  <2>3. At(Combine(d, s), b) = {b, <<s.k, s.o + (b[2] - d.o)>>}
    BY <1>1 DEF At, Combine
  <2> QED BY <2>2, <2>3
<1>2. CASE b \notin Bytes(d)
  BY <1>2 DEF At, Combine
<1> QED BY <1>1, <1>2

LEMMA CoversClear ==
    ASSUME NEW d, NEW c, Bytes(c) \subseteq Bytes(d)
    PROVE  Covers(Clear(c), Clear(d)) /\ Covers(None, Clear(d)) /\ Covers(None, None)
BY DEF Covers, At, Clear, None

-----------------------------------------------------------------------------
(* Operands.                                                               *)

LEMMA OpFields ==
    ASSUME NEW k, NEW o, NEW n
    PROVE  Op(k, o, n).k = k /\ Op(k, o, n).o = o /\ Op(k, o, n).n = n
BY DEF Op

LEMMA Names ==
    /\ \A r \in Gpr \cup Vec : r # "m" /\ r # "HELPER1"
    /\ \A r \in Gpr : r \notin Vec
    /\ "m" \notin Gpr /\ "m" \notin Vec /\ "HELPER1" \notin Gpr /\ "HELPER1" \notin Vec
    /\ \A r \in Use : r \in Gpr
    /\ "RAX" \in Gpr /\ "RBX" \in Gpr /\ "RCX" \in Gpr /\ "RDX" \in Gpr
BY RegAssumption

LEMMA OpIn ==
    ASSUME NEW k, NEW o \in Nat, NEW n \in Nat,
           \/ k \in Gpr /\ o + n <= 8
           \/ k \in Vec /\ o + n <= 32
           \/ k = "m" /\ o + n <= MemSize
    PROVE  Operand(Op(k, o, n))
PROOF
<1> DEFINE x == Op(k, o, n)
<1>1. x.k = k /\ x.o = o /\ x.n = n
  BY OpFields
<1> HIDE DEF x
<1>2. MemSize \in Nat
  BY MemAssumption
<1>3. Bytes(x) \subseteq Machine
  <2> SUFFICES ASSUME NEW j \in o .. o + n - 1 PROVE <<k, j>> \in Machine
    BY <1>1 DEF Bytes
  <2>1. CASE k \in Gpr /\ o + n <= 8
    <3>1. j \in 0 .. 7
      BY <2>1
    <3> QED BY <2>1, <3>1 DEF Machine
  <2>2. CASE k \in Vec /\ o + n <= 32
    <3>1. j \in 0 .. 31
      BY <2>2
    <3> QED BY <2>2, <3>1 DEF Machine
  <2>3. CASE k = "m" /\ o + n <= MemSize
    <3>1. j \in 0 .. MemSize - 1
      BY <1>2, <2>3
    <3> QED BY <2>3, <3>1 DEF Machine, Addr
  <2> QED BY <2>1, <2>2, <2>3
<1> QED BY <1>1, <1>3 DEF Operand, x

LEMMA GprOp ==
    ASSUME NEW n \in 1 .. 8, NEW x \in GprOps(n)
    PROVE  /\ Operand(x) /\ x.k \in Use /\ x.k \in Gpr /\ x.k \notin Vec /\ x.k # "m"
           /\ x.k # "HELPER1" /\ x.n = n /\ x.o \in {0, 1}
           /\ n > 1 => x.o = 0
PROOF
<1>1. PICK r \in Use : \/ x = Op(r, 0, n)
                       \/ n = 1 /\ x = Op(r, 1, 1)
  <2>1. CASE n = 1
    BY <2>1 DEF GprOps, Reg, Upper8
  <2>2. CASE n # 1
    BY <2>2 DEF GprOps, Reg
  <2> QED BY <2>1, <2>2
<1>2. CASE x = Op(r, 0, n)
  BY <1>2, OpIn, OpFields, Names
<1>3. CASE n = 1 /\ x = Op(r, 1, 1)
  BY <1>3, OpIn, OpFields, Names
<1> QED BY <1>1, <1>2, <1>3

LEMMA VecOp ==
    ASSUME NEW n \in 1 .. 32, NEW x \in VecOps(n)
    PROVE  /\ Operand(x) /\ x.k \in Vec /\ x.k \notin Gpr /\ x.k # "m"
           /\ x.n = n /\ x.o = 0
PROOF
<1>1. PICK r \in Vec : x = Op(r, 0, n)
  BY DEF VecOps, Reg
<1> QED BY <1>1, OpIn, OpFields, Names

LEMMA MemOp ==
    ASSUME NEW n \in 1 .. 32, NEW x \in MemOps(n)
    PROVE  /\ Operand(x) /\ x.k = "m" /\ x.k \notin Gpr /\ x.k \notin Vec
           /\ x.n = n /\ x.o + n <= MemSize /\ x.o \in Nat
PROOF
<1>1. PICK a \in Start : x = Op("m", a, n) /\ a + n <= MemSize
  BY DEF MemOps
<1>2. a \in Nat
  BY MemAssumption
<1> QED BY <1>1, <1>2, OpIn, OpFields, Names

LEMMA Sizes ==
    /\ \A n \in Wide : n \in 1 .. 8 /\ n \in 1 .. 32 /\ n \in Nat
    /\ Wide = {1, 2, 4, 8}
BY DEF Wide

(* The register that decides how wide the loops of a handler are. *)
LEMMA WholeLoop ==
    ASSUME NEW d, NEW s, Operand(d), Operand(s), d.n = s.n,
           \/ d.k \notin Vec /\ s.k \notin Vec
           \/ d.n >= 16
    PROVE  /\ ins_xfer_op(d, s) = Move(d, s) /\ ins_binary_op(d, s) = Combine(d, s)
PROOF
<1>1. ClassWidth(d, s) = d.n
  BY DEF ClassWidth, Operand
<1>2. Loop(d, d.n) = d /\ Loop(s, d.n) = s
  BY DEF Loop, Operand, Op
<1> QED BY <1>1, <1>2 DEF ins_xfer_op, ins_binary_op, xfer_op, binary_op

(* Copying from memory to memory byte by byte is a move, unless the        *)
(* destination begins inside the source.                                   *)
LEMMA PlainCopy ==
    ASSUME NEW n \in 1 .. 8, NEW f \in Copies(n)
    PROVE  /\ Operand(f[1]) /\ Operand(f[2]) /\ f[1].n = f[2].n
           /\ f[1].k = "m" /\ f[2].k = "m"
           /\ m2m_xfer_op(f[1], f[2]) = Move(f[1], f[2])
PROOF
<1> DEFINE d == f[1]
           s == f[2]
           Def(g) == g = [j \in 0 .. d.n - 1 |->
                            IF s.o + j \in d.o .. d.o + j - 1 THEN g[s.o + j - d.o] ELSE s.o + j]
<1>1. f \in MemOps(n) \X MemOps(n) /\ d.o \notin s.o + 1 .. s.o + n - 1
  BY DEF Copies
<1>2. /\ Operand(d) /\ Operand(s) /\ d.k = "m" /\ s.k = "m" /\ d.n = n /\ s.n = n
      /\ d.o \in Nat /\ s.o \in Nat
  <2>1. n \in 1 .. 32 /\ d \in MemOps(n) /\ s \in MemOps(n)
    BY <1>1
  <2> QED BY <2>1, MemOp
<1> HIDE DEF d, s
<1>3. \A j \in 0 .. d.n - 1 : s.o + j \notin d.o .. d.o + j - 1
  BY <1>1, <1>2
<1>4. \A g : Def(g) <=> g = [j \in 0 .. d.n - 1 |-> s.o + j]
  BY <1>3
<1>5. CopiedFrom(d, s) = [j \in 0 .. d.n - 1 |-> s.o + j]
  <2>1. CopiedFrom(d, s) = CHOOSE g : Def(g)
    BY DEF CopiedFrom
  <2>2. \E g : Def(g)
    BY <1>4
  <2> HIDE DEF Def
  <2>3. Def(CopiedFrom(d, s))
    BY <2>1, <2>2
  <2> QED BY <1>4, <2>3
<1>6. ASSUME NEW b \in Bytes(d)
      PROVE  {<<"m", CopiedFrom(d, s)[b[2] - d.o]>>} = {<<s.k, s.o + (b[2] - d.o)>>}
  <2>1. d.n <= s.n
    BY <1>2
  <2>2. b[2] \in Nat /\ d.o <= b[2] /\ b[2] < d.o + d.n
    BY <1>2, <2>1, Matching
  <2>3. b[2] - d.o \in 0 .. d.n - 1
    BY <1>2, <2>2
  <2> QED BY <1>2, <1>5, <2>3
<1>7. m2m_xfer_op(d, s) = Move(d, s)
  BY <1>6 DEF m2m_xfer_op, Move
<1> QED BY <1>2, <1>7 DEF d, s

-----------------------------------------------------------------------------
(* The cases of ins_inspect and of the processor.                          *)

LEMMA TwoFields ==
    ASSUME NEW op, NEW forms, NEW i \in Two(op, forms)
    PROVE  i.op = op /\ \E f \in forms : i.d = f[1] /\ i.s = f[2]
BY DEF Two

LEMMA MoveCases ==
    ASSUME NEW i
    PROVE  /\ i.op \in {"MOV", "MOVDQU", "VMOVDQU", "LODS"} =>
                /\ Execute(i) = Zext(i.d, Move(i.d, i.s))
                /\ ins_inspect(i) = ins_xfer_op(i.d, i.s)
           /\ i.op = "MOVQ" =>
                /\ Execute(i) = IF i.d.k \in Vec
                                THEN Over(Move(i.d, i.s), Clear(High(i.d.k)))
                                ELSE Move(i.d, i.s)
                /\ ins_inspect(i) = ins_xfer_op(i.d, i.s)
           /\ i.op = "MOVP" => Execute(i) = Move(i.d, i.s) /\ ins_inspect(i) = ins_movlp_hp(i.d, i.s)
           /\ i.op \in {"MOVS", "PUSH", "POP"} => Execute(i) = Zext(i.d, Move(i.d, i.s))
           /\ i.op = "MOVS" => ins_inspect(i) = m2m_xfer_op(i.d, i.s)
           /\ i.op = "PUSH" => ins_inspect(i) = ins_push_op(i.d, i.s)
           /\ i.op = "POP" => ins_inspect(i) = ins_pop_op(i.d, i.s)
           /\ i.op = "CMOV" =>
                /\ Execute(i) = Zext(i.d, IF i.eq THEN Move(i.d, i.s) ELSE None)
                /\ ins_inspect(i) = ins_xfer_op_predicated(i)
BY ZenonT(60) DEF Execute, ins_inspect, Permute

LEMMA ClearCases ==
    ASSUME NEW i
    PROVE  /\ i.op \in {"MOVI", "SET", "PUSHI"} => Execute(i) = Zext(i.d, Clear(i.d))
           /\ i.op \in {"MOVI", "SET"} => ins_inspect(i) = ins_clear_op(i.d)
           /\ i.op = "PUSHI" => ins_inspect(i) = clr_op(Loop(i.d, i.n))
           /\ i.op = "RDTSC" => /\ Execute(i) = Over(Clear(RAX(8)), Clear(RDX(8)))
                                /\ ins_inspect(i) = r_clrl2
           /\ i.op = "CPUID" => /\ Execute(i) = [b \in {"RAX", "RBX", "RCX", "RDX"} \X (0 .. 7) |-> {}]
                                /\ ins_inspect(i) = r_clrl4
           /\ i.op = "NOT" => Execute(i) = Zext(i.d, None) /\ ins_inspect(i) = None
BY ZenonT(60) DEF Execute, ins_inspect, Permute

LEMMA LogicCases ==
    ASSUME NEW i
    PROVE  /\ i.op = "AND" => /\ Execute(i) = Zext(i.d, Combine(i.d, i.s))
                              /\ ins_inspect(i) = ins_binary_op(i.d, i.s)
           /\ i.op = "XOR" => /\ Execute(i) = Zext(i.d, IF i.d = i.s THEN Clear(i.d)
                                                        ELSE Combine(i.d, i.s))
                              /\ ins_inspect(i) = IF reg_eq(i) THEN ins_clear_op(i.d)
                                                  ELSE ins_binary_op(i.d, i.s)
           /\ i.op = "XCHG" => /\ Execute(i) = Over(Zext(i.d, Move(i.d, i.s)), Zext(i.s, Move(i.s, i.d)))
                               /\ ins_inspect(i) = ins_xchg_op(i.d, i.s)
           /\ i.op = "CMPXCHG" => Execute(i) = Cmpxchg(i) /\ ins_inspect(i) = ins_cmpxchg_op(i)
PROOF
<1>1. CASE i.op = "AND"
  BY <1>1 DEF Execute, ins_inspect, Permute
<1>2. CASE i.op = "XOR"
  BY <1>2 DEF Execute, ins_inspect, Permute
<1>3. CASE i.op = "XCHG"
  BY <1>3 DEF Execute, ins_inspect, Permute
<1>4. CASE i.op = "CMPXCHG"
  BY <1>4, ZenonT(60) DEF Execute, ins_inspect, Permute
<1> QED BY <1>1, <1>2, <1>3, <1>4, ZenonT(60)

LEMMA ExtendCases ==
    ASSUME NEW i
    PROVE  /\ i.op = "MOVBE" =>
                /\ Execute(i) = Zext(i.d, [b \in Bytes(i.d) |->
                                   {<<i.s.k, i.s.o + (i.d.n - 1 - (b[2] - i.d.o))>>}])
                /\ ins_inspect(i) = ins_movbe_op(i.d, i.s)
           /\ i.op = "MOVZX" => /\ Execute(i) = Zext(i.d, Extend(i.d, i.s, {}))
                                /\ ins_inspect(i) = ins_movsx_op(i.d, i.s)
           /\ i.op \in {"MOVSX", "MOVSXD"} => Execute(i) = Zext(i.d, Extend(i.d, i.s, Top(i.s)))
           /\ i.op = "MOVSX" => ins_inspect(i) = ins_movsx_op(i.d, i.s)
           /\ i.op = "MOVSXD" => ins_inspect(i) = ins_movsxd_op(i.d, i.s)
           /\ i.op = "SEXT" => Execute(i) = Zext(i.d, From(i.d, Top(i.s))) /\ ins_inspect(i) = _sext(i.d, i.s)
           /\ i.op = "STOS" => Execute(i) = Stos(i) /\ ins_inspect(i) = ins_stos(i)
BY DEF Execute, ins_inspect, Permute

-----------------------------------------------------------------------------
(* Instruction by instruction: the handler covers the data flow.           *)
Kept(i) == Covers(ins_inspect(i), Execute(i))

(* Operands of mov and the like: of one size, at most one in memory. *)
LEMMA GprForm ==
    ASSUME NEW f \in GprForms
    PROVE  /\ Operand(f[1]) /\ Operand(f[2]) /\ f[1].n = f[2].n /\ f[1].n \in Wide
           /\ f[1].k \notin Vec /\ f[2].k \notin Vec
           /\ f[1].k # "HELPER1" /\ f[2].k # "HELPER1"
           /\ f[1].k = "m" => f[2].k # "m"
           /\ \A x \in {f[1], f[2]} : x.k # "m" => x.k \in Gpr /\ (x.n > 1 => x.o = 0)
PROOF
<1>1. PICK n \in Wide : f \in Forms(GprOps(n), MemOps(n))
  BY DEF GprForms
<1>2. /\ f[1] \in GprOps(n) \/ f[1] \in MemOps(n)
      /\ f[2] \in GprOps(n) \/ f[2] \in MemOps(n)
      /\ f[1] \in GprOps(n) \/ f[2] \in GprOps(n)
  BY <1>1 DEF Forms
<1>3. n \in 1 .. 8 /\ n \in 1 .. 32
  BY Sizes
<1>4. "m" # "HELPER1"
  OBVIOUS
<1>5. ASSUME NEW x \in GprOps(n)
      PROVE  /\ Operand(x) /\ x.n = n /\ x.k \notin Vec /\ x.k # "HELPER1" /\ x.k # "m"
             /\ x.k \in Gpr /\ (x.n > 1 => x.o = 0)
  BY <1>3, GprOp
<1>6. ASSUME NEW x \in MemOps(n)
      PROVE  Operand(x) /\ x.n = n /\ x.k \notin Vec /\ x.k # "HELPER1" /\ x.k = "m"
  BY <1>3, <1>4, MemOp
<1>7. n \in Wide
  OBVIOUS
<1>8. Operand(f[1]) /\ Operand(f[2]) /\ f[1].n = n /\ f[2].n = n
  BY <1>2, <1>5, <1>6
<1>9. /\ f[1].k \notin Vec /\ f[2].k \notin Vec
      /\ f[1].k # "HELPER1" /\ f[2].k # "HELPER1"
      /\ f[1].k = "m" => f[2].k # "m"
  BY <1>2, <1>5, <1>6
<1>10. \A x \in {f[1], f[2]} : x.k # "m" => x.k \in Gpr /\ (x.n > 1 => x.o = 0)
  BY <1>2, <1>5, <1>6
<1> QED BY <1>7, <1>8, <1>9, <1>10

LEMMA MovKept ==
    ASSUME NEW i \in Mov \cup Lods
    PROVE  Kept(i)
PROOF
<1> SUFFICES ASSUME NEW f, i.d = f[1], i.s = f[2],
                    i.op \in {"MOV", "MOVDQU", "VMOVDQU", "LODS"},
                    Operand(f[1]), Operand(f[2]), f[1].n = f[2].n,
                    \/ f[1].k \notin Vec /\ f[2].k \notin Vec
                    \/ f[1].n >= 16
             PROVE  Kept(i)
  <2>1. ASSUME NEW n \in {16, 32}, NEW f \in Forms(VecOps(n), MemOps(n))
        PROVE  Operand(f[1]) /\ Operand(f[2]) /\ f[1].n = f[2].n /\ f[1].n >= 16
    <3>1. n \in 1 .. 32
      OBVIOUS
    <3>2. /\ f[1] \in VecOps(n) \/ f[1] \in MemOps(n)
          /\ f[2] \in VecOps(n) \/ f[2] \in MemOps(n)
      BY DEF Forms
    <3> QED BY <3>1, <3>2, VecOp, MemOp
  <2>2. CASE i \in Two("MOV", GprForms)
    BY <2>2, TwoFields, GprForm
  <2>3. CASE i \in Two("MOVDQU", Forms(VecOps(16), MemOps(16)))
    BY <2>1, <2>3, TwoFields
  <2>4. CASE i \in Two("VMOVDQU", Forms(VecOps(32), MemOps(32)))
    BY <2>1, <2>4, TwoFields
  <2>5. CASE i \in Lods
    <3>1. PICK n \in Wide : i \in Two("LODS", {RAX(n)} \X MemOps(n))
      BY <2>5 DEF Lods
    <3>2. PICK f \in {RAX(n)} \X MemOps(n) : i.d = f[1] /\ i.s = f[2] /\ i.op = "LODS"
      BY <3>1, TwoFields
    <3>3. n \in 1 .. 8 /\ n \in 1 .. 32 /\ n \in Nat
      BY Sizes
    <3>4. Operand(RAX(n)) /\ RAX(n).n = n /\ RAX(n).k = "RAX"
      BY <3>3, Names, OpIn, OpFields DEF RAX, Reg
    <3>5. Operand(f[2]) /\ f[2].n = n /\ f[2].k \notin Vec
      BY <3>2, <3>3, MemOp
    <3> QED BY <3>2, <3>4, <3>5, Names
  <2> QED BY <2>2, <2>3, <2>4, <2>5 DEF Mov
<1>1. Execute(i) = Zext(i.d, Move(i.d, i.s)) /\ ins_inspect(i) = ins_xfer_op(i.d, i.s)
  BY MoveCases
<1>2. ins_inspect(i) = Move(i.d, i.s)
  BY <1>1, WholeLoop
<1> QED BY <1>1, <1>2, CoversMove, CoversZext DEF Kept

LEMMA MovpKept ==
    ASSUME NEW i \in Movp
    PROVE  Kept(i)
PROOF
<1> DEFINE halves == VecOps(8) \cup {High(v) : v \in Vec}
<1>1. PICK f \in (halves \X MemOps(8)) \cup (MemOps(8) \X halves) :
         i.op = "MOVP" /\ i.d = f[1] /\ i.s = f[2]
  BY TwoFields DEF Movp
<1>2. ASSUME NEW x \in halves PROVE Operand(x) /\ x.n = 8
  <2>1. CASE x \in VecOps(8)
    <3>1. 8 \in 1 .. 32
      OBVIOUS
    <3> QED BY <2>1, <3>1, VecOp
  <2>2. CASE x \in {High(v) : v \in Vec}
    <3>1. PICK v \in Vec : x = Op(v, 8, 8)
      BY <2>2 DEF High
    <3>2. 8 \in Nat /\ 8 + 8 <= 32
      OBVIOUS
    <3>3. Operand(Op(v, 8, 8))
      BY <3>2, OpIn
    <3> QED BY <3>1, <3>3, OpFields
  <2> QED BY <2>1, <2>2
<1>3. ASSUME NEW x \in MemOps(8) PROVE Operand(x) /\ x.n = 8
  <2>1. 8 \in 1 .. 32
    OBVIOUS
  <2> QED BY <2>1, MemOp
<1> HIDE DEF halves
<1>4. Operand(i.d) /\ Operand(i.s) /\ i.d.n = i.s.n
  BY <1>1, <1>2, <1>3
<1>5. Execute(i) = Move(i.d, i.s) /\ ins_inspect(i) = Move(i.d, i.s)
  BY <1>1, MoveCases DEF ins_movlp_hp, xfer_op
<1> QED BY <1>4, <1>5, CoversMove DEF Kept

LEMMA MovqKept ==
    ASSUME NEW i \in MovqLoad
    PROVE  Kept(i)
PROOF
<1>1. PICK f \in (VecOps(8) \X (VecOps(8) \cup MemOps(8) \cup GprOps(8)))
                   \cup (GprOps(8) \X VecOps(8)) :
         i.op = "MOVQ" /\ i.d = f[1] /\ i.s = f[2]
  BY TwoFields DEF MovqLoad
<1>2. 8 \in 1 .. 8 /\ 8 \in 1 .. 32
  OBVIOUS
<1>3. Operand(i.d) /\ Operand(i.s) /\ i.d.n = 8 /\ i.s.n = 8
  BY <1>1, <1>2, VecOp, MemOp, GprOp
<1>4. \/ i.d.k \in Vec /\ i.d.o = 0
      \/ i.d.k \notin Vec /\ i.d.k # "m"
  BY <1>1, <1>2, VecOp, GprOp
<1>5. CASE i.d.k \notin Vec /\ i.d.k # "m"
  <2>1. ClassWidth(i.d, i.s) = 8
    BY <1>3, <1>5 DEF ClassWidth
  <2>2. Loop(i.d, 8) = i.d /\ Loop(i.s, 8) = i.s
    BY <1>3 DEF Loop, Operand, Op
  <2>3. Execute(i) = Move(i.d, i.s) /\ ins_inspect(i) = Move(i.d, i.s)
    BY <1>1, <1>5, <2>1, <2>2, MoveCases DEF ins_xfer_op, xfer_op
  <2> QED BY <1>3, <2>3, CoversMove DEF Kept
<1>6. CASE i.d.k \in Vec /\ i.d.o = 0
  <2> DEFINE D == Op(i.d.k, 0, 16)
             s == Op(i.s.k, i.s.o, 16)
             H == High(i.d.k)
  <2>1. i.d.k # "m"
    BY <1>6, Names
  <2>2. ClassWidth(i.d, i.s) = 16
    BY <1>3, <1>6, <2>1 DEF ClassWidth
  <2>3. Loop(i.d, 16) = D /\ Loop(i.s, 16) = s
    BY <1>3, <1>6 DEF Loop, Operand, Op
  <2>4. ins_inspect(i) = Move(D, s) /\ Execute(i) = Over(Move(i.d, i.s), Clear(H))
    BY <1>1, <1>6, <2>2, <2>3, MoveCases DEF ins_xfer_op, xfer_op
  <2>5. /\ D.k = i.d.k /\ D.o = 0 /\ D.n = 16 /\ s.k = i.s.k /\ s.o = i.s.o
        /\ H.k = i.d.k /\ H.o = 8 /\ H.n = 8
    BY OpFields DEF High
  <2> HIDE DEF D, s, H
  <2> SUFFICES ASSUME NEW b \in Machine
               PROVE  At(Execute(i), b) \subseteq At(Move(D, s), b) \cap Machine
    BY <2>4 DEF Kept, Covers
  <2>6. CASE b \in Bytes(i.d)
    <3>1. At(Execute(i), b) = At(Move(i.d, i.s), b)
      BY <2>4, <2>6 DEF At, Over, Move
    <3>2. i.d.n <= i.s.n
      BY <1>3
    <3>3. <<i.s.k, i.s.o + (b[2] - i.d.o)>> \in Machine
      BY <1>3, <2>6, <3>2, Matching
    <3>4. b \in Bytes(D)
      BY <1>3, <1>6, <2>5, <2>6 DEF Bytes
    <3> QED BY <1>6, <2>5, <2>6, <3>1, <3>3, <3>4, MoveAt
  <2>7. CASE b \in Bytes(H) /\ b \notin Bytes(i.d)
    BY <2>4, <2>7 DEF At, Over, Move, Clear
  <2>8. CASE b \notin Bytes(H) /\ b \notin Bytes(i.d)
    <3>1. At(Execute(i), b) = {b}
      BY <2>4, <2>8 DEF At, Over, Move, Clear
    <3>2. b \notin Bytes(D)
      <4> SUFFICES ASSUME NEW j \in 0 .. 15, b = <<i.d.k, j>> PROVE FALSE
        BY <2>5 DEF Bytes
      <4>1. CASE j \in 0 .. 7
        BY <1>3, <1>6, <2>8, <4>1 DEF Bytes
      <4>2. CASE j \in 8 .. 15
        BY <2>5, <2>8, <4>2 DEF Bytes
      <4> QED BY <4>1, <4>2
    <3> QED BY <3>1, <3>2, MoveAt
  <2> QED BY <2>6, <2>7, <2>8
<1> QED BY <1>4, <1>5, <1>6

LEMMA CmovKept ==
    ASSUME NEW i \in Cmov
    PROVE  Kept(i)
PROOF
<1>1. PICK n \in {2, 4, 8} : \E f \in ToGpr(n) : i.op = "CMOV" /\ i.d = f[1] /\ i.s = f[2]
  BY DEF Cmov
<1>2. n \in 1 .. 8 /\ n \in 1 .. 32
  OBVIOUS
<1>3. Operand(i.d) /\ Operand(i.s) /\ i.d.n = i.s.n
  BY <1>1, <1>2, GprOp, MemOp DEF ToGpr
<1>4. /\ Execute(i) = Zext(i.d, IF i.eq THEN Move(i.d, i.s) ELSE None)
      /\ ins_inspect(i) = IF i.eq THEN Move(i.d, i.s) ELSE None
  BY <1>1, MoveCases DEF ins_xfer_op_predicated, xfer_op
<1>5. CASE i.eq
  BY <1>3, <1>4, <1>5, CoversMove, CoversZext DEF Kept
<1>6. CASE ~i.eq
  BY <1>4, <1>6, CoversClear, CoversZext DEF Kept
<1> QED BY <1>5, <1>6

LEMMA ClrKept ==
    ASSUME NEW i \in Clr
    PROVE  Kept(i)
PROOF
<1>1. CASE i.op \in {"MOVI", "SET"}
  <2>1. Execute(i) = Zext(i.d, Clear(i.d)) /\ ins_inspect(i) = Clear(i.d)
    BY <1>1, ClearCases DEF ins_clear_op, clr_op
  <2> QED BY <2>1, CoversClear, CoversZext DEF Kept
<1>2. CASE i.op = "PUSHI"
  <2>1. /\ Execute(i) = Zext(i.d, Clear(i.d)) /\ ins_inspect(i) = Clear(Loop(i.d, i.n))
    BY <1>2, ClearCases DEF clr_op
  <2>2. i.d \in MemOps(8) /\ i.n \in Wide
    BY <1>2 DEF Clr
  <2>3. 8 \in 1 .. 32
    OBVIOUS
  <2>4. Operand(i.d) /\ i.d.n = 8
    BY <2>2, <2>3, MemOp
  <2>5. Loop(i.d, i.n) = Op(i.d.k, i.d.o, i.n)
    BY <2>4 DEF Loop, Operand, Op
  <2>6. Bytes(Loop(i.d, i.n)) \subseteq Bytes(i.d)
    <3>1. i.n <= 8 /\ i.n \in Nat
      BY <2>2 DEF Wide
    <3>2. ASSUME NEW j \in i.d.o .. i.d.o + i.n - 1 PROVE j \in i.d.o .. i.d.o + i.d.n - 1
      BY <2>4, <3>1 DEF Operand
    <3> QED BY <2>5, <3>2, OpFields DEF Bytes
  <2> QED BY <2>1, <2>6, CoversClear, CoversZext DEF Kept
<1>3. CASE i.op = "RDTSC"
  <2>1. Execute(i) = Over(Clear(RAX(8)), Clear(RDX(8))) /\ ins_inspect(i) = Over(Clear(RAX(8)), Clear(RDX(8)))
    BY <1>3, ClearCases DEF r_clrl2, clr_op
  <2> QED BY <2>1 DEF Kept, Covers, At, Over, Clear
<1>4. CASE i.op = "CPUID"
  <2> DEFINE A == {"RAX", "RBX", "RCX", "RDX"} \X (0 .. 7)
  <2>1. Execute(i) = [b \in A |-> {}] /\ ins_inspect(i) = [b \in A |-> {}]
    <3>1. {"RDX", "RCX", "RBX", "RAX"} = {"RAX", "RBX", "RCX", "RDX"}
      OBVIOUS
    <3> QED BY <1>4, <3>1, ClearCases DEF r_clrl4
  <2> HIDE DEF A
  <2> QED BY <2>1 DEF Kept, Covers, At
<1> QED BY <1>1, <1>2, <1>3, <1>4 DEF Clr

LEMMA LogicKept ==
    ASSUME NEW i \in Logic
    PROVE  Kept(i)
PROOF
<1> SUFFICES ASSUME i.op \in {"AND", "XOR"}, Operand(i.d), Operand(i.s), i.d.n = i.s.n,
                    \/ i.d.k \notin Vec /\ i.s.k \notin Vec
                    \/ i.d.n >= 16
             PROVE  Kept(i)
  <2>1. CASE i \in Two("AND", GprForms) \cup Two("XOR", GprForms)
    <3>1. PICK f \in GprForms : i.op \in {"AND", "XOR"} /\ i.d = f[1] /\ i.s = f[2]
      BY <2>1, TwoFields
    <3> QED BY <3>1, GprForm
  <2>2. CASE i \in Two("XOR", VecOps(16) \X (VecOps(16) \cup MemOps(16)))
    <3>1. PICK f \in VecOps(16) \X (VecOps(16) \cup MemOps(16)) : i.op = "XOR" /\ i.d = f[1] /\ i.s = f[2]
      BY <2>2, TwoFields
    <3>2. 16 \in 1 .. 32
      OBVIOUS
    <3> QED BY <3>1, <3>2, VecOp, MemOp
  <2> QED BY <2>1, <2>2 DEF Logic
<1>1. ins_binary_op(i.d, i.s) = Combine(i.d, i.s)
  BY WholeLoop
<1>2. CASE i.op = "AND"
  <2>1. Execute(i) = Zext(i.d, Combine(i.d, i.s)) /\ ins_inspect(i) = Combine(i.d, i.s)
    BY <1>1, <1>2, LogicCases
  <2> QED BY <2>1, CoversCombine, CoversZext DEF Kept
<1>3. CASE i.op = "XOR" /\ i.d # i.s
  <2>1. Execute(i) = Zext(i.d, Combine(i.d, i.s)) /\ ins_inspect(i) = Combine(i.d, i.s)
    BY <1>1, <1>3, LogicCases DEF reg_eq
  <2> QED BY <2>1, CoversCombine, CoversZext DEF Kept
<1>4. CASE i.op = "XOR" /\ i.d = i.s
  <2>1. /\ Execute(i) = Zext(i.d, Clear(i.d))
        /\ ins_inspect(i) = Clear(i.d) \/ ins_inspect(i) = Combine(i.d, i.s)
    BY <1>1, <1>4, LogicCases DEF reg_eq, ins_clear_op, clr_op
  <2>2. Covers(Clear(i.d), Clear(i.d))
    BY CoversClear
  <2>3. Covers(Combine(i.d, i.s), Clear(i.d))
    BY DEF Covers, At, Combine, Clear
  <2> QED BY <2>1, <2>2, <2>3, CoversZext DEF Kept
<1> QED BY <1>2, <1>3, <1>4

LEMMA NotKept ==
    ASSUME NEW i \in Not
    PROVE  Kept(i)
PROOF
<1>1. Execute(i) = Zext(i.d, None) /\ ins_inspect(i) = None
  BY ClearCases DEF Not
<1> QED BY <1>1, CoversClear, CoversZext DEF Kept

(* Between registers and memory, or from memory to memory. *)
LEMMA StackKept ==
    ASSUME NEW i \in Push \cup Pop \cup Movs
    PROVE  Kept(i)
PROOF
<1>1. PICK n \in Wide, op \in {"PUSH", "POP", "MOVS"} :
         \E f \in (MemOps(n) \X GprOps(n)) \cup (GprOps(n) \X MemOps(n)) \cup Copies(n) :
            /\ i.op = op /\ i.d = f[1] /\ i.s = f[2]
            /\ op = "PUSH" => f \in (MemOps(n) \X GprOps(n)) \cup Copies(n)
            /\ op = "POP" => f \in (GprOps(n) \X MemOps(n)) \cup Copies(n)
            /\ op = "MOVS" => f \in Copies(n)
  <2>1. CASE i \in Push
    <3>1. PICK n \in {2, 8} : i \in Two("PUSH", (MemOps(n) \X GprOps(n)) \cup Copies(n))
      BY <2>1 DEF Push
    <3> QED BY <3>1, TwoFields, Sizes
  <2>2. CASE i \in Pop
    <3>1. PICK n \in {2, 8} : i \in Two("POP", (GprOps(n) \X MemOps(n)) \cup Copies(n))
      BY <2>2 DEF Pop
    <3> QED BY <3>1, TwoFields, Sizes
  <2>3. CASE i \in Movs
    <3>1. PICK n \in Wide : i \in Two("MOVS", Copies(n))
      BY <2>3 DEF Movs
    <3> QED BY <3>1, TwoFields
  <2> QED BY <2>1, <2>2, <2>3
<1>2. PICK f \in (MemOps(n) \X GprOps(n)) \cup (GprOps(n) \X MemOps(n)) \cup Copies(n) :
         /\ i.op = op /\ i.d = f[1] /\ i.s = f[2]
         /\ op = "PUSH" => f \in (MemOps(n) \X GprOps(n)) \cup Copies(n)
         /\ op = "POP" => f \in (GprOps(n) \X MemOps(n)) \cup Copies(n)
         /\ op = "MOVS" => f \in Copies(n)
  BY <1>1
<1>3. n \in 1 .. 8 /\ n \in 1 .. 32
  BY Sizes
<1>4. Execute(i) = Zext(i.d, Move(i.d, i.s))
  BY <1>2, MoveCases
<1>5. CASE f \in Copies(n)
  <2>1. /\ Operand(i.d) /\ Operand(i.s) /\ i.d.n = i.s.n /\ i.d.k = "m" /\ i.s.k = "m"
        /\ m2m_xfer_op(i.d, i.s) = Move(i.d, i.s)
    BY <1>2, <1>3, <1>5, PlainCopy
  <2>2. ins_inspect(i) = Move(i.d, i.s)
    BY <1>2, <2>1, MoveCases DEF ins_push_op, ins_pop_op
  <2> QED BY <1>4, <2>1, <2>2, CoversMove, CoversZext DEF Kept
<1>6. CASE f \notin Copies(n)
  <2>1. /\ Operand(i.d) /\ Operand(i.s) /\ i.d.n = i.s.n
        /\ op = "PUSH" => i.s.k # "m"
        /\ op = "POP" => i.d.k # "m"
        /\ op # "MOVS"
    BY <1>2, <1>3, <1>6, GprOp, MemOp
  <2>2. ins_inspect(i) = Move(i.d, i.s)
    BY <1>2, <2>1, MoveCases DEF ins_push_op, ins_pop_op, xfer_op
  <2> QED BY <1>4, <2>1, <2>2, CoversMove, CoversZext DEF Kept
<1> QED BY <1>5, <1>6

(* Both operands are read before either is written, or the first one is    *)
(* saved in the scratch register.                                          *)
LEMMA XchgKept ==
    ASSUME NEW i \in Xchg
    PROVE  Kept(i)
PROOF
<1> DEFINE d == i.d
           s == i.s
<1>1. PICK f \in GprForms : i.op = "XCHG" /\ d = f[1] /\ s = f[2]
  BY TwoFields DEF Xchg
<1>2. /\ Operand(d) /\ Operand(s) /\ d.n = s.n /\ d.n \in Wide
      /\ d.k # "HELPER1" /\ s.k # "HELPER1"
      /\ d.k = "m" => s.k # "m"
      /\ \A x \in {d, s} : x.k # "m" => x.k \in Gpr /\ (x.n > 1 => x.o = 0)
  BY <1>1, GprForm
<1>3. /\ Execute(i) = Over(Zext(d, Move(d, s)), Zext(s, Move(s, d)))
      /\ ins_inspect(i) = ins_xchg_op(d, s)
  BY <1>1, LogicCases
<1> HIDE DEF d, s
<1>4. d.n <= s.n /\ s.n <= d.n /\ d.n \in Nat /\ d.o \in Nat /\ s.o \in Nat
  BY <1>2 DEF Wide, Operand
<1>5. /\ \A b \in Bytes(d) : <<s.k, s.o + (b[2] - d.o)>> \in Machine
      /\ \A b \in Bytes(s) : <<d.k, d.o + (b[2] - s.o)>> \in Machine
  BY <1>2, <1>4, Matching
(* The data flow: d from s, s from d, everything else stays or is cleared. *)
<1>6. ASSUME NEW b
      PROVE  /\ b \in Bytes(d) => At(Execute(i), b) = {<<s.k, s.o + (b[2] - d.o)>>}
             /\ b \in Bytes(s) /\ b \notin Bytes(d) =>
                  At(Execute(i), b) \subseteq {<<d.k, d.o + (b[2] - s.o)>>}
             /\ b \notin Bytes(s) /\ b \notin Bytes(d) => At(Execute(i), b) \subseteq {b}
  <2> DEFINE u == Zext(d, Move(d, s))
             v == Zext(s, Move(s, d))
  <2>1. At(Over(u, v), b) = IF b \in DOMAIN u THEN At(u, b) ELSE At(v, b)
    BY DEF At, Over
  <2>2. DOMAIN Move(d, s) = Bytes(d) /\ DOMAIN Move(s, d) = Bytes(s) /\ Bytes(d) \subseteq DOMAIN u
    BY DEF Move, Zext, Over
  <2>3. /\ At(u, b) \subseteq At(Move(d, s), b)
        /\ b \in Bytes(d) => At(u, b) = At(Move(d, s), b)
        /\ b \notin Bytes(d) => At(u, b) \subseteq {b}
    BY <2>2, ZextAt, MoveAt DEF At
  <2>4. /\ At(v, b) \subseteq At(Move(s, d), b)
    BY ZextAt
  <2>5. b \in DOMAIN u /\ b \notin Bytes(d) => At(u, b) = {}
    <3> SUFFICES ASSUME b \in DOMAIN u, b \notin Bytes(d) PROVE u[b] = {}
      BY DEF At
    <3> QED BY <2>2 DEF Zext, Over, Move, Clear
  <2> HIDE DEF u, v
  <2>6. At(Execute(i), b) = IF b \in DOMAIN u THEN At(u, b) ELSE At(v, b)
    BY <1>3, <2>1 DEF u, v
  <2>7. CASE b \in Bytes(d)
    BY <2>2, <2>3, <2>6, <2>7, MoveAt
  <2>8. CASE b \in Bytes(s) /\ b \notin Bytes(d)
    BY <2>4, <2>5, <2>6, <2>8, MoveAt
  <2>9. CASE b \notin Bytes(s) /\ b \notin Bytes(d)
    BY <2>4, <2>5, <2>6, <2>9, MoveAt
  <2> QED BY <2>7, <2>8, <2>9
<1>7. ASSUME \A b \in Machine :
                /\ b \in Bytes(d) => At(ins_xchg_op(d, s), b) = {<<s.k, s.o + (b[2] - d.o)>>}
                /\ b \in Bytes(s) /\ b \notin Bytes(d) =>
                     At(ins_xchg_op(d, s), b) = {<<d.k, d.o + (b[2] - s.o)>>}
                /\ b \notin Bytes(s) /\ b \notin Bytes(d) => At(ins_xchg_op(d, s), b) = {b}
      PROVE  Kept(i)
  <2> SUFFICES ASSUME NEW b \in Machine
               PROVE  At(Execute(i), b) \subseteq At(ins_xchg_op(d, s), b) \cap Machine
    BY <1>3 DEF Kept, Covers
  <2> QED BY <1>5, <1>6, <1>7
<1>8. CASE ~(d.n >= 4 /\ d.k # "m" /\ s.k # "m")
  <2>1. ins_xchg_op(d, s) = Over(Move(s, d), Move(d, s))
    BY <1>8 DEF ins_xchg_op, _xchg, xfer_op
  <2>2. ASSUME NEW b \in Machine
        PROVE  /\ b \in Bytes(d) => At(ins_xchg_op(d, s), b) = {<<s.k, s.o + (b[2] - d.o)>>}
               /\ b \in Bytes(s) /\ b \notin Bytes(d) =>
                    At(ins_xchg_op(d, s), b) = {<<d.k, d.o + (b[2] - s.o)>>}
               /\ b \notin Bytes(s) /\ b \notin Bytes(d) => At(ins_xchg_op(d, s), b) = {b}
    <3>1. b \in Bytes(d) /\ b \in Bytes(s) => d.k = s.k /\ d.o = s.o
      <4> SUFFICES ASSUME NEW j \in d.o .. d.o + d.n - 1, NEW m \in s.o .. s.o + s.n - 1,
                          b = <<d.k, j>>, b = <<s.k, m>>
                   PROVE  d.k = s.k /\ d.o = s.o
        BY DEF Bytes
      <4>1. d.k = s.k /\ j = m /\ d.k # "m" /\ s.k # "m"
        BY <1>2
      <4>2. d.n = 1 \/ (d.o = 0 /\ s.o = 0)
        BY <1>2, <4>1 DEF Wide
      <4> QED BY <1>2, <1>4, <4>1, <4>2
    <3>2. At(ins_xchg_op(d, s), b) = IF b \in Bytes(s) THEN At(Move(s, d), b) ELSE At(Move(d, s), b)
      BY <2>1 DEF At, Over, Move
    <3> QED BY <3>1, <3>2, MoveAt
  <2> QED BY <1>7, <2>2
<1>9. CASE d.n >= 4 /\ d.k # "m" /\ s.k # "m"
  <2> DEFINE H == HELPER1(d.n)
             x1 == Move(H, d)
             x2 == Move(d, s)
             x3 == Move(s, H)
             g == Then(x1, x2)
  <2>1. ins_xchg_op(d, s) = Then(g, x3)
    BY <1>9 DEF ins_xchg_op, xfer_op
  <2>2. H.k = "HELPER1" /\ H.o = 0 /\ H.n = d.n /\ d.o = 0 /\ s.o = 0
    <3>1. d.o = 0 /\ s.o = 0
      BY <1>2, <1>4, <1>9
    <3>2. H.k = "HELPER1" /\ H.o = 0 /\ H.n = d.n
      BY OpFields DEF HELPER1, Reg
    <3> QED BY <3>1, <3>2
  <2> HIDE DEF H
  <2>3. /\ \A b : b \in Bytes(d) <=> \E j \in 0 .. d.n - 1 : b = <<d.k, j>>
        /\ \A b : b \in Bytes(s) <=> \E j \in 0 .. d.n - 1 : b = <<s.k, j>>
        /\ \A b : b \in Bytes(H) <=> \E j \in 0 .. d.n - 1 : b = <<"HELPER1", j>>
    BY <1>2, <1>4, <2>2 DEF Bytes
  <2>4. ASSUME NEW j \in 0 .. d.n - 1
        PROVE  /\ Goes(x1, <<"HELPER1", j>>, <<d.k, j>>)
               /\ Goes(x1, <<s.k, j>>, <<s.k, j>>)
               /\ Goes(x2, <<d.k, j>>, <<s.k, j>>)
               /\ Goes(x2, <<"HELPER1", j>>, <<"HELPER1", j>>)
               /\ Goes(x3, <<s.k, j>>, <<"HELPER1", j>>)
    <3>1. <<d.k, j>> \in Bytes(d) /\ <<s.k, j>> \in Bytes(s) /\ <<"HELPER1", j>> \in Bytes(H)
      BY <2>3
    <3>2. <<"HELPER1", j>> \notin Bytes(d) /\ <<s.k, j>> \notin Bytes(H)
      BY <1>2, <2>3
    <3>3. 0 + (j - 0) = j
      OBVIOUS
    <3>4. /\ Goes(x1, <<"HELPER1", j>>, <<d.k, d.o + (j - H.o)>>)
          /\ Goes(x2, <<d.k, j>>, <<s.k, s.o + (j - d.o)>>)
          /\ Goes(x3, <<s.k, j>>, <<H.k, H.o + (j - s.o)>>)
      BY <3>1, MoveGoes
    <3>5. /\ Goes(x1, <<s.k, j>>, <<s.k, j>>)
          /\ Goes(x2, <<"HELPER1", j>>, <<"HELPER1", j>>)
      BY <3>2, MoveGoes
    <3> HIDE DEF x1, x2, x3
    <3> QED BY <2>2, <3>3, <3>4, <3>5
  <2>5. ASSUME NEW b \in Machine
        PROVE  b \notin Bytes(H)
    BY <2>3, Names DEF Machine
  <2>6. /\ \A b \in Machine : Goes(x1, b, b)
        /\ \A b : b \notin Bytes(d) => Goes(x2, b, b)
        /\ \A b : b \notin Bytes(s) => Goes(x3, b, b)
    BY <2>5, MoveGoes
  <2> HIDE DEF x1, x2, x3
  <2>7. /\ \A j \in 0 .. d.n - 1 : /\ Goes(g, <<"HELPER1", j>>, <<d.k, j>>)
                                   /\ Goes(g, <<d.k, j>>, <<s.k, j>>)
        /\ \A b \in Machine : b \notin Bytes(d) => Goes(g, b, b)
    BY <2>4, <2>6, ThenGoes
  <2> HIDE DEF g
  <2>8. ASSUME NEW b \in Machine
        PROVE  /\ b \in Bytes(s) => At(Then(g, x3), b) = {<<d.k, b[2]>>}
               /\ b \in Bytes(d) /\ b \notin Bytes(s) => At(Then(g, x3), b) = {<<s.k, b[2]>>}
               /\ b \notin Bytes(s) /\ b \notin Bytes(d) => At(Then(g, x3), b) = {b}
    <3>1. ASSUME b \in Bytes(s) PROVE Goes(Then(g, x3), b, <<d.k, b[2]>>)
      <4>1. PICK j \in 0 .. d.n - 1 : b = <<s.k, j>>
        BY <2>3, <3>1
      <4>2. Goes(x3, b, <<"HELPER1", j>>) /\ Goes(g, <<"HELPER1", j>>, <<d.k, j>>) /\ b[2] = j
        BY <2>4, <2>7, <4>1
      <4> QED BY <4>2, ThenGoes
    <3>2. ASSUME b \in Bytes(d), b \notin Bytes(s) PROVE Goes(Then(g, x3), b, <<s.k, b[2]>>)
      <4>1. PICK j \in 0 .. d.n - 1 : b = <<d.k, j>>
        BY <2>3, <3>2
      <4>2. Goes(x3, b, b) /\ Goes(g, b, <<s.k, j>>) /\ b[2] = j
        BY <2>6, <2>7, <3>2, <4>1
      <4> QED BY <4>2, ThenGoes
    <3>3. b \notin Bytes(s) /\ b \notin Bytes(d) => Goes(Then(g, x3), b, b)
      BY <2>6, <2>7, ThenGoes
    <3> QED BY <3>1, <3>2, <3>3 DEF Goes
  <2>9. ASSUME NEW b, b \in Bytes(d) \/ b \in Bytes(s)
        PROVE  s.o + (b[2] - d.o) = b[2] /\ d.o + (b[2] - s.o) = b[2]
    BY <2>2, <2>3, <2>9
  <2>10. ASSUME NEW b, b \in Bytes(d), b \in Bytes(s) PROVE d.k = s.k
    BY <2>3, <2>10
  <2> QED BY <1>7, <2>1, <2>8, <2>9, <2>10
<1> QED BY <1>8, <1>9

(* The scratch register keeps the tags of rax for the case that the values *)
(* are equal; its copy of two bytes is four bytes wide.                    *)
LEMMA CmpxchgKept ==
    ASSUME NEW i \in CmpxchgOf({2, 4})
    PROVE  Kept(i)
PROOF
<1> DEFINE d == i.d
           s == i.s
           n == i.d.n
           m == Saved(i.d.n)
           A == RAX(n)
           B == RAX(m)
           H == HELPER1(m)
           x1 == Move(H, B)
           x2 == Move(A, d)
           y1 == Move(B, H)
           y2 == Move(d, s)
           fast == Then(x1, x2)
           slow == Then(y1, y2)
<1>1. PICK k \in {2, 4} : \E f \in (GprOps(k) \cup MemOps(k)) \X GprOps(k) :
         i.op = "CMPXCHG" /\ d = f[1] /\ s = f[2] /\ i.eq \in BOOLEAN /\ i.eq32 = i.eq
  BY DEF CmpxchgOf
<1>2. k \in 1 .. 8 /\ k \in 1 .. 32 /\ k > 1
  OBVIOUS
<1>3. /\ Operand(d) /\ Operand(s) /\ d.n = k /\ s.n = k /\ n = k /\ s.o = 0 /\ d.o \in Nat
      /\ s.k \in Gpr /\ s.k # "HELPER1" /\ d.k # "HELPER1"
  <2>1. \A x \in GprOps(k) : /\ Operand(x) /\ x.n = k /\ x.o = 0 /\ x.k \in Gpr /\ x.k # "HELPER1"
    BY <1>2, GprOp
  <2>2. \A x \in MemOps(k) : Operand(x) /\ x.n = k /\ x.k = "m" /\ x.o \in Nat
    BY <1>2, MemOp
  <2>3. "m" # "HELPER1"
    OBVIOUS
  <2> QED BY <1>1, <2>1, <2>2, <2>3
<1>4. m = 4 /\ n <= m /\ n \in Nat /\ n # 1
  BY <1>3 DEF Saved
<1>5. /\ Execute(i) = IF i.eq THEN Zext(d, Move(d, s)) ELSE Zext(A, Move(A, d))
      /\ ins_inspect(i) = IF i.eq THEN Then(fast, slow) ELSE fast
  BY <1>1, <1>4, LogicCases DEF Cmpxchg, ins_cmpxchg_op, _cmpxchg_fast, _cmpxchg_slow, xfer_op
<1>6. /\ A.k = "RAX" /\ A.o = 0 /\ A.n = n /\ B.k = "RAX" /\ B.o = 0 /\ B.n = 4
      /\ H.k = "HELPER1" /\ H.o = 0 /\ H.n = 4
  BY <1>4, OpFields DEF RAX, HELPER1, Reg
<1>7. Operand(A)
  BY <1>2, <1>3, <1>4, Names, OpIn DEF RAX, Reg
<1> HIDE DEF d, s, n, m, A, B, H
<1>8. /\ \A b : b \in Bytes(A) <=> \E j \in 0 .. n - 1 : b = <<"RAX", j>>
      /\ \A b : b \in Bytes(B) <=> \E j \in 0 .. 3 : b = <<"RAX", j>>
      /\ \A b : b \in Bytes(H) <=> \E j \in 0 .. 3 : b = <<"HELPER1", j>>
      /\ \A b : b \in Bytes(s) <=> \E j \in 0 .. n - 1 : b = <<s.k, j>>
      /\ \A b : b \in Bytes(d) <=> \E j \in d.o .. d.o + n - 1 : b = <<d.k, j>>
  BY <1>3, <1>4, <1>6 DEF Bytes
<1>9. \A b \in Machine : b \notin Bytes(H)
  BY <1>8, Names DEF Machine
<1>10. /\ \A b : b \notin Bytes(H) => Goes(x1, b, b)
       /\ \A b : b \notin Bytes(A) => Goes(x2, b, b)
       /\ \A b : b \notin Bytes(B) => Goes(y1, b, b)
       /\ \A b : b \notin Bytes(d) => Goes(y2, b, b)
  BY MoveGoes
<1>11. ASSUME NEW j \in 0 .. 3
       PROVE  /\ Goes(x1, <<"HELPER1", j>>, <<"RAX", j>>)
              /\ Goes(y1, <<"RAX", j>>, <<"HELPER1", j>>)
              /\ Goes(x2, <<"HELPER1", j>>, <<"HELPER1", j>>)
  <2>1. <<"HELPER1", j>> \in Bytes(H) /\ <<"RAX", j>> \in Bytes(B) /\ <<"HELPER1", j>> \notin Bytes(A)
    BY <1>8
  <2>2. /\ Goes(x1, <<"HELPER1", j>>, <<B.k, B.o + (j - H.o)>>)
        /\ Goes(y1, <<"RAX", j>>, <<H.k, H.o + (j - B.o)>>)
        /\ Goes(x2, <<"HELPER1", j>>, <<"HELPER1", j>>)
    <3>1. Goes(x1, <<"HELPER1", j>>, <<B.k, B.o + (j - H.o)>>)
      BY <2>1, MoveGoes
    <3>2. Goes(y1, <<"RAX", j>>, <<H.k, H.o + (j - B.o)>>)
      BY <2>1, MoveGoes
    <3>3. Goes(x2, <<"HELPER1", j>>, <<"HELPER1", j>>)
      BY <1>10, <2>1
    <3> HIDE DEF x1, x2, y1
    <3> QED BY <3>1, <3>2, <3>3
  <2>3. 0 + (j - 0) = j
    OBVIOUS
  <2> HIDE DEF x1, x2, y1
  <2> QED BY <1>6, <2>2, <2>3
<1>12. ASSUME NEW b \in Bytes(d)
       PROVE  Goes(y2, b, <<s.k, s.o + (b[2] - d.o)>>) /\ <<s.k, s.o + (b[2] - d.o)>> \in Bytes(s)
  <2>1. d.n <= s.n
    BY <1>3
  <2> QED BY <1>3, <2>1, MoveGoes, Matching
<1>13. ASSUME NEW b \in Bytes(A)
       PROVE  Goes(x2, b, <<d.k, d.o + (b[2] - A.o)>>) /\ <<d.k, d.o + (b[2] - A.o)>> \in Machine
  <2>1. A.n <= d.n
    BY <1>3, <1>6
  <2> QED BY <1>3, <1>7, <2>1, MoveGoes, Matching
<1> HIDE DEF x1, x2, y1, y2
<1>14. \A b : b \notin Bytes(H) /\ b \notin Bytes(A) => Goes(fast, b, b)
  BY <1>10, ThenGoes
<1>15. \A j \in 0 .. 3 : Goes(fast, <<"HELPER1", j>>, <<"RAX", j>>)
  BY <1>11, ThenGoes
<1> HIDE DEF fast
<1>16. ASSUME ~i.eq PROVE Kept(i)
  <2>1. ASSUME NEW b \in Machine
        PROVE  At(Zext(A, Move(A, d)), b) \subseteq At(fast, b) \cap Machine
    <3>1. At(Zext(A, Move(A, d)), b) \subseteq At(x2, b)
      BY ZextAt DEF x2
    <3>2. CASE b \in Bytes(A)
      <4> DEFINE c == <<d.k, d.o + (b[2] - A.o)>>
      <4>1. Goes(x2, b, c) /\ c \in Machine
        BY <1>13, <3>2
      <4> HIDE DEF c
      <4>2. Goes(fast, b, c)
        BY <1>9, <1>10, <4>1, ThenGoes DEF fast
      <4> QED BY <3>1, <4>1, <4>2 DEF Goes
    <3>3. CASE b \notin Bytes(A)
      BY <1>9, <1>10, <1>14, <3>1, <3>3 DEF Goes
    <3> QED BY <3>2, <3>3
  <2> QED BY <1>5, <1>16, <2>1 DEF Kept, Covers
<1>17. ASSUME i.eq PROVE Kept(i)
  (* Through slow and fast, a byte of the machine comes back to itself. *)
  <2>1. ASSUME NEW c, c \notin Bytes(H)
        PROVE  \E e : Goes(y1, c, e) /\ Goes(fast, e, c)
    <3>1. CASE c \in Bytes(B)
      <4>1. PICK j \in 0 .. 3 : c = <<"RAX", j>>
        BY <1>8, <3>1
      <4> QED BY <1>11, <1>15, <4>1
    <3>2. CASE c \notin Bytes(B)
      <4>1. c \notin Bytes(A)
        BY <1>4, <1>8, <3>2
      <4> QED BY <1>10, <1>14, <2>1, <3>2, <4>1
    <3> QED BY <3>1, <3>2
  <2>2. ASSUME NEW b, NEW c, Goes(y2, b, c), c \notin Bytes(H)
        PROVE  Goes(Then(fast, slow), b, c)
    <3>1. PICK e : Goes(y1, c, e) /\ Goes(fast, e, c)
      BY <2>1, <2>2
    <3>2. Goes(slow, b, e)
      BY <2>2, <3>1, ThenGoes
    <3> HIDE DEF slow
    <3> QED BY <3>1, <3>2, ThenGoes
  <2> HIDE DEF slow
  <2>3. ASSUME NEW b \in Machine
        PROVE  At(Zext(d, Move(d, s)), b) \subseteq At(Then(fast, slow), b) \cap Machine
    <3>1. At(Zext(d, Move(d, s)), b) \subseteq At(y2, b)
      BY ZextAt DEF y2
    <3>2. PICK c \in Machine : Goes(y2, b, c)
      <4>1. CASE b \in Bytes(d)
        BY <1>3, <1>12, <4>1 DEF Operand
      <4>2. CASE b \notin Bytes(d)
        BY <1>10, <4>2
      <4> QED BY <4>1, <4>2
    <3>3. Goes(Then(fast, slow), b, c)
      BY <1>9, <2>2, <3>2
    <3> QED BY <3>1, <3>2, <3>3 DEF Goes
  <2> QED BY <1>5, <1>17, <2>3 DEF Kept, Covers
<1> QED BY <1>16, <1>17

(* Where the flow of the data is given on the bytes of one operand. *)
LEMMA CoversBytes ==
    ASSUME NEW D, NEW f, NEW g, DOMAIN f = D,
           \A b \in Machine : b \in D => f[b] \subseteq At(g, b) \cap Machine,
           \A b \in Machine : b \notin D => b \in At(g, b)
    PROVE  Covers(g, f)
BY DEF Covers, At

LEMMA MovbeKept ==
    ASSUME NEW i \in Movbe
    PROVE  Kept(i)
PROOF
<1> DEFINE d == i.d
           s == i.s
           f == [b \in Bytes(d) |-> {<<s.k, s.o + (d.n - 1 - (b[2] - d.o))>>}]
<1>1. PICK q \in UNION {(GprOps(n) \X MemOps(n)) \cup (MemOps(n) \X GprOps(n)) : n \in {2, 4, 8}} :
         i.op = "MOVBE" /\ d = q[1] /\ s = q[2]
  BY TwoFields DEF Movbe
<1>2. PICK n \in {2, 4, 8} : /\ q \in (GprOps(n) \X MemOps(n)) \cup (MemOps(n) \X GprOps(n))
                             /\ i.op = "MOVBE" /\ d = q[1] /\ s = q[2]
  BY <1>1
<1>3. n \in 1 .. 8 /\ n \in 1 .. 32
  OBVIOUS
<1>4. Operand(d) /\ Operand(s) /\ d.n = s.n
  BY <1>2, <1>3, GprOp, MemOp
<1>5. Execute(i) = Zext(d, f)
  BY <1>2, ExtendCases
<1>6. ins_inspect(i) = f
  BY <1>2, ExtendCases DEF ins_movbe_op, Permute
<1> HIDE DEF d, s
<1>7. ASSUME NEW b \in Bytes(d) PROVE f[b] \subseteq Machine
  <2>1. d.n <= s.n /\ d.o \in Nat /\ s.o \in Nat /\ d.n \in Nat
    BY <1>4 DEF Operand
  <2>2. b[2] \in Nat /\ d.o <= b[2] /\ b[2] < d.o + d.n
    BY <1>4, <2>1, Matching
  <2>3. s.o + (d.n - 1 - (b[2] - d.o)) \in s.o .. s.o + s.n - 1
    BY <1>4, <2>1, <2>2
  <2>4. <<s.k, s.o + (d.n - 1 - (b[2] - d.o))>> \in Bytes(s)
    BY <2>3 DEF Bytes
  <2> QED BY <1>4, <2>4 DEF Operand
<1>8. Covers(f, f)
  BY <1>7 DEF Covers, At
<1> QED BY <1>5, <1>6, <1>8, CoversZext DEF Kept

(* The narrow source of movzx, movsx and movsxd. *)
LEMMA NarrowForm ==
    ASSUME NEW n \in {2, 4, 8}, NEW m \in {1, 2, 4}, NEW f \in NarrowOf(n, m)
    PROVE  /\ Operand(f[1]) /\ Operand(f[2]) /\ f[1].n = n /\ f[2].n = m /\ f[1].o = 0
           /\ f[1].k \in Gpr /\ f[1].k \notin Vec /\ f[2].k \notin Vec /\ f[1].k # "m"
           /\ f[2].k # "m" /\ m > 1 => f[2].o = 0
PROOF
<1>1. n \in 1 .. 8 /\ n > 1 /\ m \in 1 .. 8 /\ m \in 1 .. 32
  OBVIOUS
<1>2. f[1] \in GprOps(n) /\ (f[2] \in GprOps(m) \/ f[2] \in MemOps(m))
  BY DEF NarrowOf
<1>3. /\ Operand(f[1]) /\ f[1].n = n /\ f[1].o = 0 /\ f[1].k \in Gpr /\ f[1].k \notin Vec /\ f[1].k # "m"
  BY <1>1, <1>2, GprOp
<1>4. /\ Operand(f[2]) /\ f[2].n = m /\ f[2].k \notin Vec
      /\ f[2].k # "m" /\ m > 1 => f[2].o = 0
  BY <1>1, <1>2, GprOp, MemOp
<1> QED BY <1>3, <1>4

LEMMA MovxKept ==
    ASSUME NEW i \in Movzx \cup MovsxByte
    PROVE  Kept(i)
PROOF
<1> DEFINE d == i.d
           s == i.s
           ext == IF i.op = "MOVZX" THEN {} ELSE Top(s)
           f == Extend(d, s, ext)
           g == [b \in Bytes(d) |-> {<<s.k, s.o + ((b[2] - d.o) % s.n)>>}]
<1>1. PICK n \in {2, 4, 8}, m \in {1, 2} :
         /\ \E q \in NarrowOf(n, m) : d = q[1] /\ s = q[2]
         /\ i.op = "MOVZX" \/ (i.op = "MOVSX" /\ m = 1)
  <2>1. CASE i \in Movzx
    <3>1. PICK w \in Widening : i \in Two("MOVZX", NarrowOf(w[1], w[2]))
      BY <2>1 DEF Movzx
    <3>2. w[1] \in {2, 4, 8} /\ w[2] \in {1, 2}
      BY DEF Widening
    <3>3. PICK n \in {2, 4, 8}, m \in {1, 2} : n = w[1] /\ m = w[2]
      BY <3>2
    <3>4. i.op = "MOVZX" /\ \E q \in NarrowOf(n, m) : d = q[1] /\ s = q[2]
      BY <3>1, <3>3, TwoFields
    <3> QED BY <3>4
  <2>2. CASE i \in MovsxByte
    <3>1. PICK n \in {2, 4, 8} : i \in Two("MOVSX", NarrowOf(n, 1))
      BY <2>2 DEF MovsxByte
    <3> QED BY <3>1, TwoFields
  <2> QED BY <2>1, <2>2
<1>2. Operand(d) /\ Operand(s) /\ d.n = n /\ s.n = m /\ d.o \in Nat /\ s.o \in Nat
  <2>1. Operand(d) /\ Operand(s) /\ d.n = n /\ s.n = m
    BY <1>1, NarrowForm
  <2> QED BY <2>1 DEF Operand
<1>3. Execute(i) = Zext(d, f) /\ ins_inspect(i) = g
  BY <1>1, ExtendCases DEF ins_movsx_op, _movsx, Permute
<1>4. ext = {} \/ (m = 1 /\ ext = {<<s.k, s.o>>})
  BY <1>1, <1>2 DEF Top
<1> HIDE DEF d, s, ext
<1>5. ASSUME NEW b \in Bytes(d) PROVE f[b] \subseteq g[b] \cap Machine
  <2>1. PICK j \in d.o .. d.o + d.n - 1 : b = <<d.k, j>>
    BY <1>2, ByteFacts
  <2> DEFINE off == j - d.o
  <2>2. off \in 0 .. 7
    BY <1>2, <2>1
  <2>3. g[b] = {<<s.k, s.o + (off % m)>>}
    BY <1>2, <2>1
  <2>4. f[b] = IF off < m THEN {<<s.k, s.o + off>>} ELSE ext
    BY <1>2, <2>1 DEF Extend
  <2>5. off < m => off % m = off
    BY <2>2
  <2>6. m = 1 => off % m = 0
    BY <2>2
  <2>7. \A k \in 0 .. m - 1 : <<s.k, s.o + k>> \in Machine
    <3>1. ASSUME NEW k \in 0 .. m - 1 PROVE <<s.k, s.o + k>> \in Bytes(s)
      BY <1>2 DEF Bytes
    <3> QED BY <1>2, <3>1 DEF Operand
  <2> HIDE DEF off, f, g
  <2>8. CASE off < m
    BY <2>2, <2>3, <2>4, <2>5, <2>7, <2>8
  <2>9. CASE ~(off < m)
    <3>1. CASE ext = {}
      BY <2>4, <2>9, <3>1
    <3>2. CASE m = 1 /\ ext = {<<s.k, s.o>>}
      <4>1. s.o + 0 = s.o /\ 0 \in 0 .. m - 1
        BY <1>2
      <4> QED BY <2>3, <2>4, <2>6, <2>7, <2>9, <3>2, <4>1
    <3> QED BY <1>4, <3>1, <3>2
  <2> QED BY <2>8, <2>9
<1>6. Covers(g, f)
  <2>1. DOMAIN f = Bytes(d) /\ DOMAIN g = Bytes(d)
    BY DEF Extend
  <2> HIDE DEF f, g
  <2>2. \A b \in Machine : b \in Bytes(d) => f[b] \subseteq At(g, b) \cap Machine
    BY <1>5, <2>1 DEF At
  <2>3. \A b \in Machine : b \notin Bytes(d) => b \in At(g, b)
    BY <2>1 DEF At
  <2> QED BY <2>1, <2>2, <2>3, CoversBytes
<1> QED BY <1>3, <1>6, CoversZext DEF Kept

(* The low half is moved twice, the tags of the high half stay with bytes  *)
(* that the processor clears.                                              *)
LEMMA Movsxd32Kept ==
    ASSUME NEW i \in Movsxd32
    PROVE  Kept(i)
PROOF
<1> DEFINE d == i.d
           s == i.s
           D == Loop(i.d, 8)
           f == Extend(d, s, Top(s))
           x == Move(d, s)
           p == [b \in Bytes(D) |-> {<<s.k, s.o + ((b[2] - D.o) % s.n)>>}]
<1>1. PICK q \in NarrowOf(4, 4) : i.op = "MOVSXD" /\ d = q[1] /\ s = q[2]
  BY TwoFields DEF Movsxd32
<1>2. /\ Operand(d) /\ Operand(s) /\ d.n = 4 /\ s.n = 4 /\ d.o = 0 /\ d.k \in Gpr
      /\ d.k \notin Vec /\ s.k \notin Vec /\ d.k # "m" /\ (s.k # "m" => s.o = 0)
  BY <1>1, NarrowForm
<1>3. D.k = d.k /\ D.o = 0 /\ D.n = 8
  BY <1>2 DEF Loop, Operand, Op
<1>4. Execute(i) = Zext(d, f) /\ ins_inspect(i) = Then(x, p)
  <2>1. ins_xfer_op(d, s) = x
    BY <1>2, WholeLoop
  <2>2. Execute(i) = Zext(d, f) /\ ins_inspect(i) = ins_movsxd_op(d, s)
    BY <1>1, ExtendCases
  <2>3. d.n # 8
    BY <1>2
  <2>4. ins_movsxd_op(d, s) = Then(x, _movsx(D, s))
    <3> HIDE DEF x
    <3> QED BY <2>1, <2>3 DEF ins_movsxd_op
  <2>5. _movsx(D, s) = p
    BY DEF _movsx, Permute
  <2> HIDE DEF d, s, D, f, x, p
  <2> QED BY <2>2, <2>4, <2>5
<1> HIDE DEF d, s, D
<1>5. /\ \A b : b \in Bytes(d) <=> \E j \in 0 .. 3 : b = <<d.k, j>>
      /\ \A b : b \in Bytes(D) <=> \E j \in 0 .. 7 : b = <<d.k, j>>
      /\ s.o \in Nat
  BY <1>2, <1>3 DEF Bytes, Operand
<1>6. ASSUME NEW j \in 0 .. 3
      PROVE  /\ Goes(p, <<d.k, j>>, <<s.k, s.o + j>>)
             /\ f[<<d.k, j>>] = {<<s.k, s.o + j>>} /\ <<d.k, j>> \in DOMAIN f
             /\ Goes(x, <<s.k, s.o + j>>, <<s.k, s.o + j>>)
             /\ <<s.k, s.o + j>> \in Machine
  <2>1. <<d.k, j>> \in Bytes(d) /\ <<d.k, j>> \in Bytes(D) /\ (j - 0) % 4 = j /\ j - 0 = j
    BY <1>5
  <2>2. Goes(p, <<d.k, j>>, <<s.k, s.o + j>>)
    BY <1>2, <1>3, <2>1 DEF Goes, At
  <2>3. f[<<d.k, j>>] = {<<s.k, s.o + j>>} /\ <<d.k, j>> \in DOMAIN f
    BY <1>2, <2>1 DEF Extend
  <2>4. <<s.k, s.o + j>> \in Machine
    <3>1. <<s.k, s.o + j>> \in Bytes(s)
      BY <1>2, <1>5 DEF Bytes
    <3> QED BY <1>2, <3>1 DEF Operand
  <2>5. Goes(x, <<s.k, s.o + j>>, <<s.k, s.o + j>>)
    <3>1. CASE <<s.k, s.o + j>> \in Bytes(d)
      <4>1. s.k = d.k /\ s.o = 0
        BY <1>2, <1>5, <3>1
      <4>2. Goes(x, <<s.k, s.o + j>>, <<s.k, s.o + ((s.o + j) - d.o)>>)
        BY <3>1, MoveGoes
      <4>3. s.o + ((s.o + j) - d.o) = s.o + j
        BY <1>2, <4>1
      <4> HIDE DEF x
      <4> QED BY <4>2, <4>3
    <3>2. CASE <<s.k, s.o + j>> \notin Bytes(d)
      BY <3>2, MoveGoes
    <3> QED BY <3>1, <3>2
  <2> QED BY <2>2, <2>3, <2>4, <2>5
<1>7. \A b : b \notin Bytes(D) => Goes(p, b, b) /\ Goes(x, b, b)
  <2>1. \A b : b \notin Bytes(D) => Goes(p, b, b)
    BY DEF Goes, At
  <2>2. \A b : b \notin Bytes(D) => b \notin Bytes(d)
    BY <1>5
  <2> QED BY <2>1, <2>2, MoveGoes
<1>8. DOMAIN f = Bytes(d)
  BY DEF Extend
<1> HIDE DEF f, x, p
<1>9. ASSUME NEW b \in Machine
      PROVE  At(Zext(d, f), b) \subseteq At(Then(x, p), b) \cap Machine
  <2>1. CASE b \in Bytes(d)
    <3>1. PICK j \in 0 .. 3 : b = <<d.k, j>>
      BY <1>5, <2>1
    <3>2. At(Zext(d, f), b) = {<<s.k, s.o + j>>} /\ <<s.k, s.o + j>> \in Machine
      BY <1>6, <3>1, ZextAt
    <3>3. Goes(Then(x, p), b, <<s.k, s.o + j>>)
      BY <1>6, <3>1, ThenGoes
    <3> QED BY <3>2, <3>3 DEF Goes
  <2>2. CASE b \in Bytes(D) /\ b \notin Bytes(d)
    <3>1. PICK j \in 0 .. 7 : b = <<d.k, j>>
      BY <1>5, <2>2
    <3>2. j \in 4 .. 7
      BY <1>5, <2>2, <3>1
    <3>3. d.o + d.n = 4 /\ b \notin DOMAIN f
      BY <1>2, <1>8, <2>2
    <3>4. At(Zext(d, f), b) = {}
      BY <1>2, <3>1, <3>2, <3>3, ZextAt
    <3> QED BY <3>4
  <2>3. CASE b \notin Bytes(D)
    <3>1. b \notin Bytes(d)
      BY <1>5, <2>3
    <3>2. At(Zext(d, f), b) \subseteq {b}
      BY <1>8, <3>1, ZextAt DEF At
    <3>3. Goes(Then(x, p), b, b)
      BY <1>7, <2>3, ThenGoes
    <3> QED BY <3>2, <3>3 DEF Goes
  <2> QED BY <2>1, <2>2, <2>3
<1> QED BY <1>4, <1>9 DEF Kept, Covers

LEMMA CbwKept ==
    ASSUME NEW i \in Cbw
    PROVE  Kept(i)
PROOF
<1> DEFINE d == Op("RAX", 1, 1)
           s == RAX(1)
<1>1. i.op = "SEXT" /\ i.d = d /\ i.s = s
  <2>1. PICK q \in {<<d, s>>} : i.op = "SEXT" /\ i.d = q[1] /\ i.s = q[2]
    BY TwoFields DEF Cbw
  <2> QED BY <2>1
<1>2. Operand(d) /\ Operand(s)
  BY Names, OpIn DEF RAX, Reg
<1>3. d.k = "RAX" /\ d.o = 1 /\ d.n = 1 /\ s.k = "RAX" /\ s.o = 0 /\ s.n = 1
  BY OpFields DEF RAX, Reg
<1> HIDE DEF d, s
<1>4. ASSUME NEW b \in Bytes(d) PROVE {<<s.k, s.o + (b[2] - d.o)>>} = Top(s)
  <2>1. b[2] = 1
    BY <1>3 DEF Bytes
  <2> QED BY <1>3, <2>1 DEF Top
<1>5. Move(d, s) = From(d, Top(s))
  BY <1>4 DEF Move, From
<1>6. Covers(Move(d, s), Zext(d, Move(d, s)))
  BY <1>2, <1>3, CoversMove, CoversZext
<1> QED BY <1>1, <1>5, <1>6, ExtendCases DEF _sext, Kept

LEMMA StosKept ==
    ASSUME NEW i \in UNION {{j \in Stos1 : j.d.n <= 2}, {j \in StosUp : j.d.n <= 4},
                            {j \in StosDown : j.d.n = 1}}
    PROVE  Kept(i)
PROOF
<1> DEFINE n == i.d.n
<1>1. /\ i.op = "STOS" /\ i.rep \in BOOLEAN /\ i.df \in BOOLEAN /\ i.count \in Nat
      /\ \E k \in Wide : i.d \in MemOps(k)
      /\ n <= 4 /\ (~i.rep => n <= 2 /\ i.count = 1 /\ i.df = FALSE) /\ (i.df => n = 1)
  <2>1. CASE i \in {j \in Stos1 : j.d.n <= 2}
    <3>1. PICK y \in UNION {MemOps(k) : k \in Wide} :
             i = [op |-> "STOS", d |-> y, rep |-> FALSE, count |-> 1, df |-> FALSE]
      BY <2>1 DEF Stos1
    <3>2. PICK k \in Wide : y \in MemOps(k)
      OBVIOUS
    <3>3. i.d \in MemOps(k) /\ n <= 2 /\ n \in Nat
      BY <2>1, <3>1, <3>2, MemOp, Sizes
    <3> HIDE DEF n
    <3> QED BY <3>1, <3>3
  <2>2. ASSUME NEW down \in BOOLEAN,
               i \in [op : {"STOS"}, d : UNION {MemOps(k) : k \in Wide}, rep : {TRUE},
                      count : 0 .. MaxCount, df : {down}]
        PROVE  /\ i.op = "STOS" /\ i.rep = TRUE /\ i.df = down /\ i.count \in Nat
               /\ \E k \in Wide : i.d \in MemOps(k)
    <3>1. /\ i.op \in {"STOS"} /\ i.rep \in {TRUE} /\ i.df \in {down} /\ i.count \in 0 .. MaxCount
          /\ i.d \in UNION {MemOps(k) : k \in Wide}
      BY <2>2
    <3>2. i.count \in Nat
      BY <3>1, MemAssumption
    <3>3. \E k \in Wide : i.d \in MemOps(k)
      BY <3>1
    <3> QED BY <3>1, <3>2, <3>3, Zenon
  <2>3. CASE i \in {j \in StosUp : j.d.n <= 4}
    <3>1. /\ i.op = "STOS" /\ i.rep = TRUE /\ i.df = FALSE /\ i.count \in Nat
          /\ \E k \in Wide : i.d \in MemOps(k)
      BY <2>2, <2>3 DEF StosUp
    <3>2. n <= 4
      BY <2>3
    <3> QED BY <3>1, <3>2, Zenon
  <2>4. CASE i \in {j \in StosDown : j.d.n = 1}
    <3>1. /\ i.op = "STOS" /\ i.rep = TRUE /\ i.df = TRUE /\ i.count \in Nat
          /\ \E k \in Wide : i.d \in MemOps(k)
      BY <2>2, <2>4 DEF StosDown
    <3>2. n <= 4 /\ n = 1
      BY <2>4
    <3> QED BY <3>1, <3>2, Zenon
  <2> QED BY <2>1, <2>3, <2>4
<1>2. i.d = Op("m", i.d.o, n) /\ i.d.k = "m" /\ i.d.o \in Nat /\ n \in {1, 2, 4}
  <2>1. PICK k \in Wide : i.d \in MemOps(k)
    BY <1>1
  <2>2. Operand(i.d) /\ i.d.k = "m" /\ i.d.n = k
    BY <2>1, MemOp, Sizes
  <2> QED BY <1>1, <2>2, Sizes DEF Operand
<1>3. Execute(i) = Stos(i) /\ ins_inspect(i) = ins_stos(i)
  BY <1>1, ExtendCases
<1> DEFINE B == StosBytes(i)
<1>4. /\ B.k = "m" /\ B.o \in Int /\ B.n \in Nat
      /\ \A b \in Bytes(B) : b[2] \in Int /\ (b[2] - B.o) % n \in 0 .. 7
  <2>1. /\ B.k = "m" /\ B.o \in Int /\ B.n \in Nat
    BY <1>1, <1>2, OpFields DEF StosBytes
  <2> HIDE DEF B
  <2>2. \A b \in Bytes(B) : b[2] \in Int
    BY <2>1 DEF Bytes
  <2> HIDE DEF n
  <2>3. \A z \in Int : z % n \in 0 .. 7
    BY <1>2
  <2> QED BY <2>1, <2>2, <2>3
<1>5. ins_stos(i) = Stos(i)
  <2>1. CASE i.rep
    <3> DEFINE total == i.count * (IF i.d.n = 8 THEN 4 ELSE i.d.n)
               first == IF i.df THEN i.d.o - total + 1 ELSE i.d.o
    <3>1. total = i.count * i.d.n /\ first = IF i.df THEN i.d.o - (i.count - 1) * i.d.n ELSE i.d.o
      BY <1>1, <1>2
    <3>2. Op("m", first, total) = B /\ first = B.o
      BY <3>1, OpFields DEF StosBytes
    <3>3. r2m_xfer_op_n(i) = [b \in Bytes(Op("m", first, total)) |-> {<<"RAX", (b[2] - first) % i.d.n>>}]
      BY DEF r2m_xfer_op_n
    <3>4. ins_stos(i) = r2m_xfer_op_n(i)
      BY <2>1 DEF ins_stos
    <3> HIDE DEF first, total
    <3> QED BY <3>2, <3>3, <3>4 DEF Stos
  <2>2. CASE ~i.rep
    <3>1. Loop(i.d, n) = i.d
      BY <1>2 DEF Loop, Op
    <3>2. ins_stos(i) = Move(i.d, RAX(n))
      BY <1>1, <1>2, <2>2, <3>1 DEF ins_stos, xfer_op
    <3>3. B = i.d /\ B.o = i.d.o
      BY <1>1, <1>2, <2>2 DEF StosBytes
    <3>4. RAX(n).k = "RAX" /\ RAX(n).o = 0
      BY OpFields DEF RAX, Reg
    <3> DEFINE R == RAX(n)
    <3> HIDE DEF B, R
    <3>5. ASSUME NEW b \in Bytes(i.d)
          PROVE  {<<R.k, R.o + (b[2] - i.d.o)>>} = {<<"RAX", (b[2] - B.o) % i.d.n>>}
      <4>1. PICK j \in i.d.o .. i.d.o + n - 1 : b = <<"m", j>>
        BY <1>2, ByteFacts
      <4>2. j - i.d.o \in 0 .. n - 1
        BY <1>2
      <4>3. (j - i.d.o) % n = j - i.d.o
        <5> HIDE DEF n
        <5> QED BY <1>2, <4>2
      <4> QED BY <1>2, <3>3, <3>4, <4>1, <4>2, <4>3 DEF R
    <3> QED BY <3>2, <3>3, <3>5 DEF Move, Stos, B, R
  <2> QED BY <1>1, <2>1, <2>2
<1>6. Covers(Stos(i), Stos(i))
  <2>1. \A b \in Bytes(B) : Stos(i)[b] \subseteq Machine
    <3>1. \A j \in 0 .. 7 : <<"RAX", j>> \in Machine
      BY Names DEF Machine
    <3> QED BY <1>4, <3>1 DEF Stos
  <2>2. DOMAIN Stos(i) = Bytes(B)
    BY DEF Stos
  <2> QED BY <2>1, <2>2 DEF Covers, At
<1> QED BY <1>3, <1>5, <1>6 DEF Kept

-----------------------------------------------------------------------------
(* The handler that ins_inspect selects for an instruction of Faithful     *)
(* gives every byte of the machine at least the tags of the bytes that its *)
(* value now depends on: for any registers, memory and addresses.          *)
THEOREM HandlersFaithful ==
    ASSUME NEW i \in Faithful
    PROVE  Covers(ins_inspect(i), Execute(i))
PROOF
<1>1. \/ i \in Mov \cup Lods
      \/ i \in MovqLoad \/ i \in Movp \/ i \in Cmov \/ i \in Clr \/ i \in Logic \/ i \in Not
      \/ i \in UNION {Push, Pop, Movs}
      \/ i \in Xchg \/ i \in CmpxchgOf({2, 4}) \/ i \in Movbe
      \/ i \in Movzx \cup MovsxByte
      \/ i \in Movsxd32 \/ i \in Cbw
      \/ i \in UNION {{j \in Stos1 : j.d.n <= 2}, {j \in StosUp : j.d.n <= 4},
                      {j \in StosDown : j.d.n = 1}}
  <2> DEFINE A == {j \in Stos1 : j.d.n <= 2}
             B == {j \in StosUp : j.d.n <= 4}
             C == {j \in StosDown : j.d.n = 1}
             X == CmpxchgOf({2, 4})
  <2>1. i \in UNION {Mov, Lods, MovqLoad, Movp, Cmov, Clr, Logic, Not, Push, Pop, Xchg,
                     X, Movbe, Movzx, MovsxByte, Movsxd32, Cbw, Movs, A, B, C}
    BY DEF Faithful
  <2> HIDE DEF A, B, C, X
  <2>2. \/ i \in Mov \cup Lods
        \/ i \in MovqLoad \/ i \in Movp \/ i \in Cmov \/ i \in Clr \/ i \in Logic \/ i \in Not
        \/ i \in UNION {Push, Pop, Movs}
        \/ i \in Xchg \/ i \in X \/ i \in Movbe
        \/ i \in Movzx \cup MovsxByte
        \/ i \in Movsxd32 \/ i \in Cbw
        \/ i \in UNION {A, B, C}
    BY <2>1
  <2> QED BY <2>2 DEF A, B, C, X
<1>2. Kept(i)
  BY <1>1, MovKept, MovqKept, MovpKept, CmovKept, ClrKept, LogicKept, NotKept, StackKept,
     XchgKept, CmpxchgKept, MovbeKept, MovxKept, Movsxd32Kept, CbwKept, StosKept
<1> QED BY <1>2 DEF Kept

-----------------------------------------------------------------------------
(* The machine and the shadow keep their bytes, and no tag is missing.     *)
IInv == /\ DOMAIN dep = Machine
        /\ DOMAIN tag = Shadow
        /\ NoUnderTaint

LEMMA MachineShadow == Machine \subseteq Shadow
PROOF
<1>1. 0 .. 7 \subseteq 0 .. 31
  OBVIOUS
<1> QED BY <1>1 DEF Machine, Shadow

(* One instruction, and the handler called before it. *)
LEMMA RunKeeps ==
    ASSUME NEW i, Covers(ins_inspect(i), Execute(i)), IInv, Run(i)
    PROVE  IInv'
PROOF
<1> DEFINE g == ins_inspect(i)
           f == Execute(i)
<1>1. tag' = [b \in Shadow |-> UNION {tag[c] : c \in At(g, b)}]
  BY DEF Run, Apply, IInv
<1>2. dep' = [b \in Machine |-> UNION {dep[c] : c \in At(f, b)}]
  BY DEF Run, Apply, IInv
<1>3. Covers(g, f)
  OBVIOUS
<1> HIDE DEF g, f
<1>4. ASSUME NEW b \in Machine PROVE dep'[b] \subseteq tag'[b]
  <2>1. dep'[b] = UNION {dep[c] : c \in At(f, b)}
    BY <1>2
  <2>2. tag'[b] = UNION {tag[c] : c \in At(g, b)}
    BY <1>1, MachineShadow
  <2>3. \A c \in At(f, b) : c \in At(g, b) /\ dep[c] \subseteq tag[c]
    BY <1>3 DEF Covers, IInv, NoUnderTaint
  <2> QED BY <2>1, <2>2, <2>3
<1>5. DOMAIN dep' = Machine /\ DOMAIN tag' = Shadow
  BY <1>1, <1>2
<1> QED BY <1>4, <1>5 DEF IInv, NoUnderTaint

(* No input byte that a value depends on is missing in its tag, whatever   *)
(* sequence of faithful instructions a program executes: partial and       *)
(* overlapping operands, and scratch tags left over by earlier handlers,   *)
(* included.                                                               *)
THEOREM TaintKept ==
    ASSUME Instructions \subseteq Faithful
    PROVE  Spec => []NoUnderTaint
PROOF
<1>1. Init => IInv
  BY MachineShadow DEF Init, IInv, NoUnderTaint
<1>2. IInv /\ [Next]_vars => IInv'
  <2> SUFFICES ASSUME IInv, [Next]_vars PROVE IInv'
    OBVIOUS
  <2>1. CASE Next
    <3>1. PICK i \in Instructions : Run(i)
      BY <2>1 DEF Next
    <3>2. Covers(ins_inspect(i), Execute(i))
      BY HandlersFaithful
    <3> QED BY <3>1, <3>2, RunKeeps
  <2>2. CASE UNCHANGED vars
    BY <2>2 DEF IInv, NoUnderTaint, vars
  <2> QED BY <2>1, <2>2
<1>3. IInv => NoUnderTaint
  BY DEF IInv
<1> QED BY <1>1, <1>2, <1>3, PTL DEF Spec
=============================================================================
