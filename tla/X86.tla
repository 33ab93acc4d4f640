-------------------------------- MODULE X86 ---------------------------------
(***************************************************************************)
(* Where the bytes of a result come from: the reference for the handlers   *)
(* in module Propagate.  The processor is external to the repository; this *)
(* is the part of it the handlers are about.                               *)
(*                                                                         *)
(* A byte is <<r, i>>, byte i of register r, or <<"m", a>>.  An operand is *)
(* a run of bytes.  What an instruction does is a flow: a function from    *)
(* the bytes it writes to the sets of bytes their new values depend on.    *)
(* Flags and addresses are not followed: neither is by the handlers.       *)
(***************************************************************************)
EXTENDS Integers

CONSTANTS
    Gpr,        \* general purpose registers
    Vec,        \* vector registers
    Use,        \* the registers that explicit operands range over
    MemSize,    \* bytes of memory
    Start,      \* the addresses that memory operands begin at
    MaxCount    \* bound on the count register of a rep prefix

ASSUME RegAssumption ==
    /\ {"RAX", "RBX", "RCX", "RDX"} \subseteq Gpr /\ Use \subseteq Gpr
    /\ Gpr \cap Vec = {} /\ (Gpr \cup Vec) \cap {"m", "HELPER1"} = {}
ASSUME MemAssumption ==
    /\ MemSize \in Nat /\ MaxCount \in Nat
    /\ Start \subseteq 0 .. MemSize - 1

Addr == 0 .. MemSize - 1

(* The bytes the program has, and those the handlers have tags for.        *)
Machine == (Gpr \X (0 .. 7)) \cup (Vec \X (0 .. 31)) \cup ({"m"} \X Addr)
Shadow == ((Gpr \cup Vec \cup {"HELPER1"}) \X (0 .. 31)) \cup ({"m"} \X Addr)

Op(k, o, n) == [k |-> k, o |-> o, n |-> n]
Reg(r, n) == Op(r, 0, n)
Upper8(r) == Op(r, 1, 1)
High(r) == Op(r, 8, 8)
Bytes(x) == {x.k} \X (x.o .. x.o + x.n - 1)

GprOps(n) == {Reg(r, n) : r \in Use}
                 \cup (IF n = 1 THEN {Upper8(r) : r \in Use} ELSE {})
VecOps(n) == {Reg(v, n) : v \in Vec}
MemOps(n) == {Op("m", a, n) : a \in {s \in Start : s + n <= MemSize}}

(* The pairs of a destination and a source, at most one of them in memory. *)
Forms(regs, mems) == (regs \X (regs \cup mems)) \cup (mems \X regs)

-----------------------------------------------------------------------------
(* Flows.                                                                  *)

None == [b \in {} |-> {}]
At(f, b) == IF b \in DOMAIN f THEN f[b] ELSE {b}
Apply(t, f) == [b \in DOMAIN t |-> UNION {t[s] : s \in At(f, b)}]
Over(f, g) == [b \in DOMAIN f \cup DOMAIN g |->
                  IF b \in DOMAIN f THEN f[b] ELSE g[b]]

Then(f, g) == [b \in DOMAIN f \cup DOMAIN g |->
                  UNION {At(f, s) : s \in At(g, b)}]       \* first f, then g

Move(d, s) == [b \in Bytes(d) |-> {<<s.k, s.o + (b[2] - d.o)>>}]
Combine(d, s) == [b \in Bytes(d) |-> {b, <<s.k, s.o + (b[2] - d.o)>>}]
Clear(d) == [b \in Bytes(d) |-> {}]
From(d, bytes) == [b \in Bytes(d) |-> bytes]

(* Byte i of d comes from byte p[i] of s.                                  *)
Permute(d, s, p(_)) == [b \in Bytes(d) |-> {<<s.k, s.o + p(b[2] - d.o)>>}]

(* Byte i of a sum depends on the bytes up to i of both operands.          *)
Carry(d, s) == [b \in Bytes(d) |->
                  {<<d.k, j>> : j \in d.o .. b[2]}
                  \cup {<<s.k, j>> : j \in s.o .. s.o + (b[2] - d.o)}]

(* Writing the low 32 bits of a general register clears the other 32.      *)
Zext(d, f) == IF d.k \in Gpr /\ d.o + d.n = 4 THEN Over(f, Clear(Op(d.k, 4, 4))) ELSE f

Extend(d, s, ext) == [b \in Bytes(d) |->
    IF b[2] - d.o < s.n THEN {<<s.k, s.o + (b[2] - d.o)>>} ELSE ext]
Top(s) == {<<s.k, s.o + s.n - 1>>}       \* the byte with the sign

-----------------------------------------------------------------------------
(* The flow of each instruction.                                           *)
RAX(n) == Reg("RAX", n)
RDX(n) == Reg("RDX", n)

Cmpxchg(i) == IF i.eq THEN Zext(i.d, Move(i.d, i.s))
              ELSE Zext(RAX(i.d.n), Move(RAX(i.d.n), i.d))

(* stos: count elements from the address of d up, or down when df is set.  *)
StosBytes(i) == Op("m", IF i.df THEN i.d.o - (i.count - 1) * i.d.n ELSE i.d.o,
                   i.count * i.d.n)
Stos(i) == [b \in Bytes(StosBytes(i)) |->
               {<<"RAX", (b[2] - StosBytes(i).o) % i.d.n>>}]

(* Both halves of a product, quotient and remainder depend on everything.  *)
Mul(s) == LET dst == IF s.n = 1 THEN <<RAX(2), RAX(2)>> ELSE <<RAX(s.n), RDX(s.n)>>
              all == Bytes(RAX(s.n)) \cup Bytes(s)
          IN  Over(Zext(dst[1], From(dst[1], all)), Zext(dst[2], From(dst[2], all)))

Execute(i) ==
    CASE i.op \in {"MOV", "MOVDQU", "VMOVDQU", "LODS", "MOVS", "PUSH", "POP"} ->
             Zext(i.d, Move(i.d, i.s))
      [] i.op = "MOVQ" -> IF i.d.k \in Vec
                          THEN Over(Move(i.d, i.s), Clear(High(i.d.k)))
                          ELSE Move(i.d, i.s)
      [] i.op = "MOVP" -> Move(i.d, i.s)
      [] i.op = "CMOV" -> Zext(i.d, IF i.eq THEN Move(i.d, i.s) ELSE None)
      [] i.op \in {"MOVI", "PUSHI", "SET"} -> Zext(i.d, Clear(i.d))
      [] i.op = "RDTSC" -> Over(Clear(RAX(8)), Clear(RDX(8)))
      [] i.op = "CPUID" -> [b \in {"RAX", "RBX", "RCX", "RDX"} \X (0 .. 7) |-> {}]
      [] i.op = "AND" -> Zext(i.d, Combine(i.d, i.s))
      [] i.op = "XOR" -> Zext(i.d, IF i.d = i.s THEN Clear(i.d)
                                                ELSE Combine(i.d, i.s))
      [] i.op = "MULSD" -> From(i.d, Bytes(i.d) \cup Bytes(i.s))
      [] i.op = "SUBSD" -> IF i.d = i.s THEN Clear(i.d)
                           ELSE From(i.d, Bytes(i.d) \cup Bytes(i.s))
      [] i.op = "BSF" -> Zext(i.d, From(i.d, Bytes(i.s)))
      [] i.op = "ADD" -> Zext(i.d, Carry(i.d, i.s))
      [] i.op = "LEA" -> Zext(i.d, [b \in Bytes(i.d) |->
                             UNION {{<<r, j>> : j \in 0 .. b[2]} : r \in i.regs}])
      [] i.op = "MUL" -> Mul(i.s)
      [] i.op = "XCHG" -> Over(Zext(i.d, Move(i.d, i.s)), Zext(i.s, Move(i.s, i.d)))
      [] i.op = "XADD" -> Over(Zext(i.d, Carry(i.d, i.s)), Zext(i.s, Move(i.s, i.d)))
      [] i.op = "CMPXCHG" -> Cmpxchg(i)
      [] i.op = "MOVBE" -> Zext(i.d, Permute(i.d, i.s, LAMBDA j : i.d.n - 1 - j))
      [] i.op = "BSWAP" -> Zext(i.d, Permute(i.d, i.d, LAMBDA j : i.d.n - 1 - j))
      [] i.op = "MOVZX" -> Zext(i.d, Extend(i.d, i.s, {}))
      [] i.op \in {"MOVSX", "MOVSXD"} -> Zext(i.d, Extend(i.d, i.s, Top(i.s)))
      [] i.op = "SEXT" -> Zext(i.d, From(i.d, Top(i.s)))
      [] i.op = "STOS" -> Stos(i)
      [] i.op = "NOT" -> Zext(i.d, None)
      [] i.op = "INC" -> Zext(i.d, Carry(i.d, i.d))
=============================================================================
