------------------------- MODULE LaceFrames_proofs --------------------------
(***************************************************************************)
(* Theorems about the frames and barriers of Lace, for any number of       *)
(* threads and workers.                                                    *)
(*                                                                         *)
(* A collection of Lace passes six barriers (the code, which has two       *)
(* rounds of TOGETHER, nine), and the whole proof is kept in step by one   *)
(* number: how many of them have been flipped.  After g flips the worker   *)
(* that collects is about to wait for barrier g + 1 or at work after       *)
(* barrier g, what it has still to do is LA(g, b) on the stack b that the  *)
(* collection interrupted, and every other worker is on its way through    *)
(* FA(g, b) on a stack b of its own.  PhaseInv says so; AliveInv and       *)
(* BarInv say why the barrier flips exactly when all are there.            *)
(***************************************************************************)
EXTENDS Lace_proofs

-----------------------------------------------------------------------------
(* Stacks, top first: a step on a stack, and by name.                      *)
Cons(a, s) == <<a>> \o s
On(n, s) == Cons(S(n), s)
TopOf(s) == IF s = <<>> THEN "none" ELSE Head(s)[1]

(* What the collecting worker has still to do after the k-th barrier of    *)
(* the collection, on the stack b that it collects for, and what the       *)
(* others have to do.                                                      *)
L6(b) == On("gunlock", On("gc_off", b))
L5(b) == On("done", On("read", L6(b)))
L4(b) == On("mark", On("help", On("read", L5(b))))
L3(b) == On("clear", On("read", L4(b)))
L2(b) == On("collect", L5(b))
L1(b) == On("clear", On("read", L2(b)))
L0(b) == On("set_steal", On("read", L1(b)))
F5(b) == On("steal", On("read", b))
F4(b) == On("mark", On("help", On("read", F5(b))))
F3(b) == On("read", F4(b))
F1(b) == On("read", F5(b))
LA(k, b) == CASE k = 1 -> L1(b) [] k = 2 -> L2(b) [] k = 3 -> L3(b)
              [] k = 4 -> L4(b) [] k = 5 -> L5(b) [] k = 6 -> L6(b)
FA(k, b) == CASE k = 1 -> F1(b) [] k = 2 -> F5(b) [] k = 3 -> F3(b)
              [] k = 4 -> F4(b) [] k = 5 -> F5(b) [] k = 6 -> b

(* lace_newframe.t while the collecting worker waits after k barriers. *)
Now(k) == CASE k = 0 -> "steal" [] k = 2 -> "together" [] OTHER -> NoFrame

(* Where a worker with the stack s is, when wait is u, lace_newframe.t is  *)
(* f and done is d.  Before the flip of the barrier that y follows, and    *)
(* after it:                                                               *)
Waits(s, u, y) ==
    \/ s = On("read", y)
    \/ s = Cons(<<"add", u>>, y)
    \/ s = Cons(<<"spin", u>>, On("leave", y))
    \/ s = Cons(<<"reset", u>>, Cons(<<"flip", u>>, On("leave", y)))
    \/ s = Cons(<<"flip", u>>, On("leave", y))
Leaves(s, u, y) ==
    \/ s = Cons(<<"spin", 1 - u>>, On("leave", y))
    \/ s = On("leave", y)

(* Steps that belong to no frame. *)
Plain == Oper \cup Ends \cup {"init", "ready", "xlock", "gc", "gc_off", "gunlock"}
Rest(s) == s \in Seq(Step) /\ \A i \in DOMAIN s : s[i][1] \in Plain
Base == {b \in Seq(Step) : b # <<>> /\ Rest(b)}

(* Outside of the frames; joining a frame, after g barriers; collecting.   *)
Out(s, u, d) ==
    \/ Rest(s)
    \/ \E b \in Base : \/ s = On("await", On("copy", b))
                       \/ s = On("glock", L0(b)) /\ d = 0
                       \/ Leaves(s, u, b)
Join(s, u, f, g, b) ==
    \/ g > 0 /\ Leaves(s, u, FA(g, b))
    \/ Waits(s, u, FA(g + 1, b))
    \/ g = 0 /\ s = On("copy", b) /\ f = "steal"
    \/ g = 2 /\ s = On("copy", F5(b)) /\ f = "together"
    \/ g \in {2, 5} /\ s = F5(b)
    \/ g = 4 /\ s = F4(b)
    \/ g = 4 /\ s = On("help", On("read", F5(b)))
Lead(s, u, f, g, b) ==
    \/ g > 0 /\ Leaves(s, u, LA(g, b)) /\ f = Now(g - 1)
    \/ Waits(s, u, LA(g + 1, b)) /\ f = Now(g)
    \/ g > 0 /\ s = LA(g, b) /\ f = Now(g - 1)
    \/ g = 0 /\ s = L0(b) /\ f = NoFrame
    \/ g = 2 /\ s = On("set_together", On("read", L3(b))) /\ f = NoFrame
    \/ g = 4 /\ s = On("help", On("read", L5(b))) /\ f = NoFrame

Away(w) == Out(st[w], wait, done)
Joins(w, g) ==
    \/ IF g = 0 THEN Away(w) ELSE st[w] = <<>>
    \/ \E b \in Base : Join(st[w], wait, newframe, g, b)
Leads(c, g) ==
    /\ Holds(c) /\ (g < 5 => done = 0)
    /\ \E b \in Base : Lead(st[c], wait, newframe, g, b)

(* No worker is in a frame, or one of them collects. *)
Calm == newframe = NoFrame /\ \A w \in Id : Away(w)
Busy(c, g) == Leads(c, g) /\ \A w \in Id \ {c} : Joins(w, g)
PhaseInv == Calm \/ \E c \in Id : \E g \in 0 .. 5 : Busy(c, g)

(* The workers that are counted in lace_n_workers_alive. *)
Counted(w) == Has(w, {"loop", "leave_alive"}) /\ ~Has(w, {"init"})
AliveInv ==
    /\ alive = Cardinality({w \in Id : Counted(w)})
    /\ \A w \in Id : /\ Has(w, {"release"}) => Has(w, {"leave_alive"})
                     /\ Has(w, {"leave_alive"}) => Has(w, {"xunlock"})

(* The barrier: its words, and where the others are when one is last. *)
BarInv ==
    /\ wait \in {0, 1} /\ BarrierCount
    /\ \A w \in Id : Top(w) \in {"reset", "flip"} =>
          \A v \in Id \ {w} : st[v] # <<>> => Top(v) = "spin" /\ Local(v) = wait

FInv == IInv /\ PhaseInv /\ AliveInv /\ BarInv

-----------------------------------------------------------------------------
(* Stacks.                                                                 *)

LEMMA NameSteps ==
    /\ \A n \in Names : \A v \in Int : <<n, v>> \in Step /\ <<n, v>>[1] = n /\ <<n, v>>[2] = v
    /\ \A n \in Names : S(n) \in Step /\ S(n)[1] = n /\ S(n)[2] = 0
BY DEF S, Step

LEMMA ConsFacts ==
    ASSUME NEW a \in Step, NEW y \in Seq(Step)
    PROVE  /\ Cons(a, y) \in Seq(Step) /\ Cons(a, y) # <<>>
           /\ Head(Cons(a, y)) = a /\ Tail(Cons(a, y)) = y
           /\ \A M : (\E i \in DOMAIN Cons(a, y) : Cons(a, y)[i][1] \in M)
                     <=> a[1] \in M \/ \E i \in DOMAIN y : y[i][1] \in M
PROOF
<1> DEFINE s == Cons(a, y)
<1>1. /\ s \in Seq(Step) /\ Len(s) = Len(y) + 1 /\ DOMAIN s = 1 .. Len(y) + 1
      /\ s[1] = a /\ Len(y) \in Nat /\ DOMAIN y = 1 .. Len(y)
      /\ \A i \in 1 .. Len(y) : s[i + 1] = y[i]
  BY DEF Cons
<1> HIDE DEF s
<1>2. s # <<>> /\ Head(s) = a
  BY <1>1
<1>3. Tail(s) = y
  BY DEF Cons, s
<1>4. ASSUME NEW M
      PROVE  (\E i \in DOMAIN s : s[i][1] \in M) <=> a[1] \in M \/ \E i \in DOMAIN y : y[i][1] \in M
  <2>1. ASSUME NEW i \in DOMAIN s, s[i][1] \in M
        PROVE  a[1] \in M \/ \E j \in DOMAIN y : y[j][1] \in M
    <3>1. CASE i = 1
      BY <1>1, <2>1, <3>1
    <3>2. CASE i # 1
      <4>1. i - 1 \in DOMAIN y /\ i = (i - 1) + 1
        BY <1>1, <3>2
      <4>2. s[i] = y[i - 1]
        BY <1>1, <4>1
      <4> QED BY <2>1, <4>1, <4>2
    <3> QED BY <3>1, <3>2
  <2>2. a[1] \in M => \E i \in DOMAIN s : s[i][1] \in M
    BY <1>1
  <2>3. ASSUME NEW j \in DOMAIN y, y[j][1] \in M
        PROVE  \E i \in DOMAIN s : s[i][1] \in M
    <3>1. j + 1 \in DOMAIN s /\ s[j + 1] = y[j]
      BY <1>1
    <3> QED BY <2>3, <3>1
  <2> QED BY <2>1, <2>2, <2>3
<1> QED BY <1>1, <1>2, <1>3, <1>4 DEF s

LEMMA OnFacts ==
    ASSUME NEW n \in Names, NEW y \in Seq(Step)
    PROVE  /\ On(n, y) \in Seq(Step) /\ On(n, y) # <<>>
           /\ Head(On(n, y)) = S(n) /\ Tail(On(n, y)) = y
           /\ \A M : (\E i \in DOMAIN On(n, y) : On(n, y)[i][1] \in M)
                     <=> n \in M \/ \E i \in DOMAIN y : y[i][1] \in M
PROOF
<1>1. S(n) \in Step /\ S(n)[1] = n
  BY NameSteps
<1> DEFINE a == S(n)
<1> HIDE DEF a
<1>2. a \in Step /\ a[1] = n
  BY <1>1 DEF a
<1>3. On(n, y) = Cons(a, y) /\ S(n) = a
  BY DEF On, a
<1>4. /\ Cons(a, y) \in Seq(Step) /\ Cons(a, y) # <<>>
      /\ Head(Cons(a, y)) = a /\ Tail(Cons(a, y)) = y
      /\ \A M : (\E i \in DOMAIN Cons(a, y) : Cons(a, y)[i][1] \in M)
                <=> n \in M \/ \E i \in DOMAIN y : y[i][1] \in M
  BY <1>2, ConsFacts
<1> QED BY <1>3, <1>4

LEMMA Prepend ==
    ASSUME NEW a \in Step, NEW y \in Seq(Step), NEW p \in Seq(Step), NEW q \in Seq(Step),
           Len(q) = Len(p) + 1, q[1] = a, \A i \in 1 .. Len(p) : q[i + 1] = p[i]
    PROVE  q \o y = Cons(a, p \o y)
PROOF
<1> DEFINE l == q \o y
           m == p \o y
           r == Cons(a, m)
<1>1. /\ Len(p) \in Nat /\ Len(y) \in Nat /\ m \in Seq(Step) /\ Len(m) = Len(p) + Len(y)
      /\ \A i \in 1 .. Len(p) : m[i] = p[i]
      /\ \A i \in 1 .. Len(m) : ~(i <= Len(p)) => m[i] = y[i - Len(p)]
  OBVIOUS
<1>2. /\ l \in Seq(Step) /\ Len(l) = Len(q) + Len(y)
      /\ \A i \in 1 .. Len(q) : l[i] = q[i]
      /\ \A i \in 1 .. Len(l) : ~(i <= Len(q)) => l[i] = y[i - Len(q)]
  BY SMTT(60)
<1> HIDE DEF l, m
<1>3. /\ r \in Seq(Step) /\ Len(r) = Len(m) + 1 /\ r[1] = a
      /\ \A i \in 1 .. Len(r) : i # 1 => r[i] = m[i - 1]
  <2> DEFINE h == <<a>>
  <2>1. h \in Seq(Step) /\ Len(h) = 1 /\ h[1] = a
    OBVIOUS
  <2>2. r = h \o m /\ m \in Seq(Step)
    BY <1>1 DEF Cons
  <2> HIDE DEF h
  <2>3. /\ r \in Seq(Step) /\ Len(r) = Len(h) + Len(m)
        /\ \A i \in 1 .. Len(h) + Len(m) : r[i] = IF i <= Len(h) THEN h[i] ELSE m[i - Len(h)]
    <3> DEFINE t == h \o m
    <3>1. /\ t \in Seq(Step) /\ Len(t) = Len(h) + Len(m)
          /\ \A i \in 1 .. Len(h) + Len(m) : t[i] = IF i <= Len(h) THEN h[i] ELSE m[i - Len(h)]
      BY <2>1, <2>2, ConcatProperties
    <3> HIDE DEF t, r
    <3>2. r = t
      BY <2>2 DEF t
    <3> QED BY <3>1, <3>2
  <2> HIDE DEF r
  <2>4. Len(m) \in Nat
    BY <1>1
  <2>5. 1 \in 1 .. Len(h) + Len(m) /\ 1 <= Len(h)
    BY <2>1, <2>4
  <2>6. ASSUME NEW i \in 1 .. Len(r), i # 1 PROVE r[i] = m[i - 1]
    BY <2>1, <2>3, <2>4, <2>6
  <2> QED BY <2>1, <2>3, <2>4, <2>5, <2>6
<1> HIDE DEF r
<1>4. ASSUME NEW i \in 1 .. Len(l) PROVE l[i] = r[i]
  <2>1. CASE i = 1
    BY <1>1, <1>2, <1>3, <2>1
  <2>2. CASE i # 1 /\ i <= Len(q)
    <3>1. i - 1 \in 1 .. Len(p) /\ i = (i - 1) + 1 /\ i \in 1 .. Len(q) /\ i \in 1 .. Len(r)
      BY <1>1, <1>2, <1>3, <2>2
    <3>2. q[i] = p[i - 1]
      BY <3>1
    <3> QED BY <1>1, <1>2, <1>3, <2>2, <3>1, <3>2
  <2>3. CASE ~(i <= Len(q))
    <3>1. /\ i - 1 \in 1 .. Len(m) /\ ~(i - 1 <= Len(p)) /\ i \in 1 .. Len(r) /\ i # 1
          /\ i - Len(q) = i - 1 - Len(p)
      BY <1>1, <1>2, <1>3, <2>3
    <3> QED BY <1>1, <1>2, <1>3, <2>3, <3>1
  <2> QED BY <2>1, <2>2, <2>3
<1>5. Len(l) = Len(r) /\ l \in Seq(Step) /\ r \in Seq(Step)
  BY <1>1, <1>2, <1>3
<1>6. l = r
  BY <1>4, <1>5, SeqEqual
<1> QED BY <1>6 DEF l, m, r

LEMMA JoinTwo ==
    ASSUME NEW d \in Step, NEW e \in Step, NEW y \in Seq(Step)
    PROVE  <<d, e>> \o y = Cons(d, Cons(e, y))
PROOF
<1> DEFINE p == <<e>>
           q == <<d, e>>
<1>1. /\ p \in Seq(Step) /\ q \in Seq(Step) /\ Len(q) = Len(p) + 1 /\ q[1] = d
      /\ \A i \in 1 .. Len(p) : q[i + 1] = p[i]
  OBVIOUS
<1> HIDE DEF p, q
<1>2. q \o y = Cons(d, p \o y)
  BY <1>1, Prepend, ZenonT(60)
<1> QED BY <1>2 DEF p, q, Cons

LEMMA JoinThree ==
    ASSUME NEW a \in Step, NEW b \in Step, NEW c \in Step, NEW y \in Seq(Step)
    PROVE  <<a, b, c>> \o y = Cons(a, Cons(b, Cons(c, y)))
PROOF
<1> DEFINE p == <<b, c>>
           q == <<a, b, c>>
<1>1. p \in Seq(Step) /\ q \in Seq(Step) /\ Len(q) = 3 /\ Len(p) = 2
  OBVIOUS
<1>2. Len(q) = Len(p) + 1 /\ q[1] = a /\ \A i \in 1 .. Len(p) : q[i + 1] = p[i]
  BY <1>1
<1>3. p \o y = Cons(b, Cons(c, y))
  BY JoinTwo
<1> HIDE DEF p, q
<1>4. q \o y = Cons(a, p \o y)
  BY <1>1, <1>2, Prepend, ZenonT(60)
<1> QED BY <1>3, <1>4 DEF q

LEMMA JoinCons ==
    ASSUME NEW a \in Step, NEW b \in Step, NEW c \in Step, NEW y \in Seq(Step)
    PROVE  /\ <<>> \o y = y /\ <<a>> \o y = Cons(a, y)
           /\ <<a, b>> \o y = Cons(a, Cons(b, y))
           /\ <<a, b, c>> \o y = Cons(a, Cons(b, Cons(c, y)))
PROOF
<1>1. <<>> \o y = y
  OBVIOUS
<1>2. <<a>> \o y = Cons(a, y)
  BY DEF Cons
<1> QED BY <1>1, <1>2, JoinTwo, JoinThree, SMTT(60)

(* Steps one after the other, and the programs of the frames on a stack.   *)
LEMMA StepsSeq ==
    ASSUME NEW s \in Seq(Names)
    PROVE  /\ Steps(s) \in Seq(Step) /\ Len(Steps(s)) = Len(s)
           /\ \A i \in 1 .. Len(s) : Steps(s)[i] = S(s[i])
PROOF
<1>1. Len(s) \in Nat /\ DOMAIN s = 1 .. Len(s) /\ \A i \in 1 .. Len(s) : s[i] \in Names
  OBVIOUS
<1>2. Steps(s) = [i \in 1 .. Len(s) |-> S(s[i])]
  BY <1>1 DEF Steps
<1> QED BY <1>1, <1>2, NameSteps

Prog(p, x) == Steps(p) \o x
Cat(p, q) == p \o q

LEMMA StepsConcat ==
    ASSUME NEW p \in Seq(Names), NEW q \in Seq(Names), NEW y \in Seq(Step)
    PROVE  /\ Cat(p, q) \in Seq(Names) /\ Prog(q, y) \in Seq(Step)
           /\ Prog(Cat(p, q), y) = Prog(p, Prog(q, y))
PROOF
<1> DEFINE r == p \o q
           u == Steps(p)
           v == Steps(q)
           z == Steps(r)
           x == u \o v
<1>1. /\ r \in Seq(Names) /\ Len(r) = Len(p) + Len(q) /\ Len(p) \in Nat /\ Len(q) \in Nat
      /\ \A i \in 1 .. Len(p) : r[i] = p[i]
      /\ \A i \in 1 .. Len(r) : ~(i <= Len(p)) => r[i] = q[i - Len(p)]
  OBVIOUS
<1>2. /\ u \in Seq(Step) /\ Len(u) = Len(p) /\ \A i \in 1 .. Len(p) : u[i] = S(p[i])
      /\ v \in Seq(Step) /\ Len(v) = Len(q) /\ \A i \in 1 .. Len(q) : v[i] = S(q[i])
  BY StepsSeq
<1> HIDE DEF r
<1>3. z \in Seq(Step) /\ Len(z) = Len(r) /\ \A i \in 1 .. Len(r) : z[i] = S(r[i])
  BY <1>1, StepsSeq
<1> HIDE DEF u, v, z
<1>4. /\ x \in Seq(Step) /\ Len(x) = Len(u) + Len(v)
      /\ \A i \in 1 .. Len(u) : x[i] = u[i]
      /\ \A i \in 1 .. Len(x) : ~(i <= Len(u)) => x[i] = v[i - Len(u)]
  <2>1. u \in Seq(Step) /\ v \in Seq(Step) /\ Len(u) \in Nat /\ Len(v) \in Nat
    BY <1>2
  <2>2. /\ x \in Seq(Step) /\ Len(x) = Len(u) + Len(v)
        /\ \A i \in 1 .. Len(u) + Len(v) : x[i] = IF i <= Len(u) THEN u[i] ELSE v[i - Len(u)]
    BY <2>1, ConcatProperties
  <2> HIDE DEF x
  <2> QED BY <2>1, <2>2
<1>5. (u \o v) \o y = u \o (v \o y) /\ v \o y \in Seq(Step)
  <2>1. (u \o v) \o y = u \o (v \o y)
    BY <1>2, ConcatAssociative, SMTT(60)
  <2>2. v \o y \in Seq(Step)
    BY <1>2, ConcatProperties
  <2> QED BY <2>1, <2>2
<1> HIDE DEF x
<1>6. ASSUME NEW i \in 1 .. Len(r) PROVE z[i] = x[i]
  <2>1. CASE i <= Len(p)
    BY <1>1, <1>2, <1>3, <1>4, <2>1
  <2>2. CASE ~(i <= Len(p))
    <3>1. i - Len(p) \in 1 .. Len(q)
      BY <1>1, <2>2
    <3> QED BY <1>1, <1>2, <1>3, <1>4, <2>2, <3>1, ZenonT(60)
  <2> QED BY <2>1, <2>2
<1>7. Len(z) = Len(x) /\ \A i \in 1 .. Len(z) : z[i] = x[i]
  BY <1>1, <1>2, <1>3, <1>4, <1>6
<1>8. z = x
  BY <1>3, <1>4, <1>7, SeqEqual
<1>9. z \o y = u \o (v \o y)
  BY <1>5, <1>8 DEF x
<1> QED BY <1>1, <1>5, <1>9 DEF r, u, v, z, Prog, Cat

LEMMA StepsTuples ==
    ASSUME NEW n \in Names, NEW m \in Names, NEW y \in Seq(Step)
    PROVE  Steps(<<n>>) \o y = On(n, y) /\ Steps(<<n, m>>) \o y = On(n, On(m, y))
PROOF
<1>1. Steps(<<n>>) = <<S(n)>> /\ Steps(<<n, m>>) = <<S(n), S(m)>>
  BY DEF Steps
<1>2. S(n) \in Step /\ S(m) \in Step
  BY NameSteps
<1>3. <<S(n)>> \o y = Cons(S(n), y) /\ <<S(n), S(m)>> \o y = Cons(S(n), Cons(S(m), y))
  BY <1>2, JoinCons, ZenonT(60)
<1> QED BY <1>1, <1>3 DEF On

(* The names that the programs use. *)
LEMMA AllNames ==
    /\ Frame \subseteq Names /\ Run \subseteq Names /\ Plain \subseteq Names
    /\ {"glock", "await", "gc_off", "gunlock"} \subseteq Names
    /\ "none" \notin Names
BY DEF Names, Plain, Frame, Run, Oper, Mail, Ends

(* The pieces of the programs. *)
One(n) == <<n>>
Two(n, m) == <<n, m>>

LEMMA Pieces ==
    ASSUME NEW n \in Names, NEW m \in Names, NEW y \in Seq(Step)
    PROVE  /\ One(n) \in Seq(Names) /\ Two(n, m) \in Seq(Names) /\ On(n, y) \in Seq(Step)
           /\ Prog(One(n), y) = On(n, y) /\ Prog(Two(n, m), y) = On(n, On(m, y))
PROOF
<1>1. One(n) \in Seq(Names) /\ Two(n, m) \in Seq(Names)
  BY DEF One, Two
<1>2. Steps(<<n>>) \o y = On(n, y) /\ Steps(<<n, m>>) \o y = On(n, On(m, y))
  BY StepsTuples
<1>3. On(n, y) \in Seq(Step)
  BY OnFacts
<1>4. Prog(One(n), y) = Steps(<<n>>) \o y /\ Prog(Two(n, m), y) = Steps(<<n, m>>) \o y
  BY DEF One, Two, Prog
<1> QED BY <1>1, <1>2, <1>3, <1>4

LEMMA Programs ==
    ASSUME NEW y \in Seq(Step)
    PROVE  /\ Steps(lace_run_newframe \o <<"gc_off">>) \o y = On("glock", L0(y))
           /\ Steps(lace_wrap_together) \o L5(y) = On("set_together", On("read", L3(y)))
           /\ Steps(Yielded("steal")) \o y = On("read", F1(y))
           /\ Steps(Yielded("together")) \o F5(y) = On("read", F3(y))
           /\ Steps(<<"await", "copy">>) \o y = On("await", On("copy", y))
PROOF
<1>1. /\ "read" \in Names /\ "clear" \in Names /\ "gunlock" \in Names /\ "gc_off" \in Names
      /\ "set_together" \in Names /\ "steal" \in Names /\ "glock" \in Names /\ "set_steal" \in Names
      /\ "collect" \in Names /\ "done" \in Names /\ "mark" \in Names /\ "help" \in Names
      /\ "await" \in Names /\ "copy" \in Names
  BY AllNames DEF Frame, Run
<1> DEFINE B == One("read")
           e1 == Cat(Cat(B, Two("collect", "done")), B)
           e2 == Cat(Cat(B, Two("mark", "help")), B)
           e3 == Cat(Cat(B, One("steal")), B)
<1>2. ASSUME NEW x \in Seq(Step)
      PROVE  /\ B \in Seq(Names) /\ e1 \in Seq(Names) /\ e2 \in Seq(Names) /\ e3 \in Seq(Names)
             /\ Prog(e1, x) = On("read", On("collect", On("done", On("read", x))))
             /\ Prog(e2, x) = On("read", On("mark", On("help", On("read", x))))
             /\ Prog(e3, x) = On("read", On("steal", On("read", x)))
  <2>1. ASSUME NEW p \in Seq(Names)
        PROVE  /\ Cat(Cat(B, p), B) \in Seq(Names)
               /\ Prog(Cat(Cat(B, p), B), x) = On("read", Prog(p, On("read", x)))
    <3>1. B \in Seq(Names) /\ On("read", x) \in Seq(Step) /\ Prog(B, x) = On("read", x)
      BY <1>1, Pieces
    <3>2. Cat(B, p) \in Seq(Names) /\ Cat(Cat(B, p), B) \in Seq(Names)
      BY <3>1, StepsConcat
    <3>3. Prog(Cat(Cat(B, p), B), x) = Prog(Cat(B, p), On("read", x))
      BY <3>1, <3>2, StepsConcat
    <3>4. /\ Prog(Cat(B, p), On("read", x)) = Prog(B, Prog(p, On("read", x)))
          /\ Prog(p, On("read", x)) \in Seq(Step)
      BY <3>1, StepsConcat
    <3>5. Prog(B, Prog(p, On("read", x))) = On("read", Prog(p, On("read", x)))
      BY <1>1, <3>4, Pieces
    <3> QED BY <3>2, <3>3, <3>4, <3>5
  <2>2. /\ B \in Seq(Names) /\ Two("collect", "done") \in Seq(Names) /\ Two("mark", "help") \in Seq(Names)
        /\ One("steal") \in Seq(Names) /\ On("read", x) \in Seq(Step)
    BY <1>1, Pieces
  <2>3. \A z \in Seq(Step) : /\ Prog(Two("collect", "done"), z) = On("collect", On("done", z))
                            /\ Prog(Two("mark", "help"), z) = On("mark", On("help", z))
                            /\ Prog(One("steal"), z) = On("steal", z)
    BY <1>1, Pieces
  <2> QED BY <2>1, <2>2, <2>3
<1> HIDE DEF e1, e2, e3
<1>3. Prog(Cat(lace_run_newframe, One("gc_off")), y) = On("glock", L0(y))
  <2> DEFINE p == Cat(Cat(Two("glock", "set_steal"), B), One("clear"))
             r == Cat(Cat(p, e1), One("gunlock"))
  <2>1. r = lace_run_newframe
    BY DEF lace_run_newframe, lace_exec_in_new_frame, lace_barrier, e1, One, Two, Cat
  <2>2. ASSUME NEW x \in Seq(Step)
        PROVE  p \in Seq(Names) /\ Prog(p, x) = On("glock", On("set_steal", On("read", On("clear", x))))
    <3>1. /\ B \in Seq(Names) /\ One("clear") \in Seq(Names) /\ Two("glock", "set_steal") \in Seq(Names)
          /\ On("clear", x) \in Seq(Step) /\ On("read", On("clear", x)) \in Seq(Step)
          /\ Prog(One("clear"), x) = On("clear", x)
      BY <1>1, Pieces
    <3>2. Cat(Two("glock", "set_steal"), B) \in Seq(Names)
      BY <3>1, StepsConcat
    <3>3. p \in Seq(Names) /\ Prog(p, x) = Prog(Cat(Two("glock", "set_steal"), B), On("clear", x))
      BY <3>1, <3>2, StepsConcat
    <3>4. Prog(Cat(Two("glock", "set_steal"), B), On("clear", x))
             = Prog(Two("glock", "set_steal"), Prog(B, On("clear", x)))
      BY <3>1, StepsConcat
    <3>5. Prog(B, On("clear", x)) = On("read", On("clear", x))
      BY <1>1, <3>1, Pieces
    <3>6. Prog(Two("glock", "set_steal"), On("read", On("clear", x)))
             = On("glock", On("set_steal", On("read", On("clear", x))))
      BY <1>1, <3>1, Pieces
    <3> QED BY <3>3, <3>4, <3>5, <3>6
  <2> HIDE DEF p
  <2>3. L6(y) \in Seq(Step) /\ On("gc_off", y) \in Seq(Step) /\ Prog(e1, L6(y)) = On("read", L2(y))
    BY <1>1, <1>2, Pieces DEF L6, L2, L5
  <2>4. r \in Seq(Names) /\ Cat(p, e1) \in Seq(Names) /\ One("gc_off") \in Seq(Names)
    BY <1>1, <1>2, <2>2, Pieces, StepsConcat
  <2>5. Prog(Cat(r, One("gc_off")), y) = Prog(r, On("gc_off", y))
    BY <1>1, <2>4, Pieces, StepsConcat
  <2>6. Prog(r, On("gc_off", y)) = Prog(Cat(p, e1), L6(y))
    BY <1>1, <2>3, <2>4, Pieces, StepsConcat DEF L6
  <2>7. Prog(Cat(p, e1), L6(y)) = Prog(p, Prog(e1, L6(y))) /\ Prog(e1, L6(y)) \in Seq(Step)
    BY <1>2, <2>2, <2>3, StepsConcat, SMTT(60)
  <2> QED BY <2>1, <2>2, <2>3, <2>5, <2>6, <2>7 DEF L0, L1
<1>4. Prog(lace_wrap_together, L5(y)) = On("set_together", On("read", L3(y)))
  <2> DEFINE p == Cat(Cat(One("set_together"), B), One("clear"))
  <2>1. Cat(p, e2) = lace_wrap_together
    BY DEF lace_wrap_together, lace_exec_in_new_frame, lace_barrier, lace_together_root, e2, One, Two, Cat
  <2>2. ASSUME NEW x \in Seq(Step)
        PROVE  p \in Seq(Names) /\ Prog(p, x) = On("set_together", On("read", On("clear", x)))
    <3>1. /\ B \in Seq(Names) /\ One("clear") \in Seq(Names) /\ One("set_together") \in Seq(Names)
          /\ On("clear", x) \in Seq(Step) /\ On("read", On("clear", x)) \in Seq(Step)
          /\ Prog(One("clear"), x) = On("clear", x)
      BY <1>1, Pieces
    <3>2. Cat(One("set_together"), B) \in Seq(Names)
      BY <3>1, StepsConcat
    <3>3. p \in Seq(Names) /\ Prog(p, x) = Prog(Cat(One("set_together"), B), On("clear", x))
      BY <3>1, <3>2, StepsConcat
    <3>4. Prog(Cat(One("set_together"), B), On("clear", x))
             = Prog(One("set_together"), Prog(B, On("clear", x)))
      BY <3>1, StepsConcat
    <3>5. Prog(B, On("clear", x)) = On("read", On("clear", x))
      BY <1>1, <3>1, Pieces
    <3>6. Prog(One("set_together"), On("read", On("clear", x)))
             = On("set_together", On("read", On("clear", x)))
      BY <1>1, <3>1, Pieces
    <3> QED BY <3>3, <3>4, <3>5, <3>6
  <2> HIDE DEF p
  <2>3. L6(y) \in Seq(Step) /\ L5(y) \in Seq(Step)
    BY <1>1, Pieces DEF L6, L5
  <2>4. Prog(e2, L5(y)) = On("read", L4(y))
    BY <1>2, <2>3 DEF L4
  <2>5. Prog(Cat(p, e2), L5(y)) = Prog(p, Prog(e2, L5(y))) /\ Prog(e2, L5(y)) \in Seq(Step)
    BY <1>2, <2>2, <2>3, StepsConcat, ZenonT(60)
  <2> QED BY <2>1, <2>2, <2>4, <2>5 DEF L3
<1>5. Prog(Yielded("steal"), y) = On("read", F1(y))
  <2>1. Yielded("steal") = Cat(B, e3)
    BY DEF Yielded, lace_exec_in_new_frame, lace_barrier, e3, One, Cat
  <2>2. Prog(Cat(B, e3), y) = Prog(B, Prog(e3, y)) /\ Prog(e3, y) \in Seq(Step)
    <3>1. B \in Seq(Names) /\ e3 \in Seq(Names)
      BY <1>1, <1>2, Pieces
    <3> QED BY <3>1, StepsConcat
  <2> QED BY <1>1, <1>2, <2>1, <2>2, Pieces DEF F1, F5
<1>6. Prog(Yielded("together"), F5(y)) = On("read", F3(y))
  <2>1. Yielded("together") = Cat(B, e2)
    BY DEF Yielded, lace_exec_in_new_frame, lace_barrier, lace_together_root, e2, One, Two, Cat
  <2>2. F5(y) \in Seq(Step)
    BY <1>1, Pieces DEF F5
  <2>3. Prog(Cat(B, e2), F5(y)) = Prog(B, Prog(e2, F5(y))) /\ Prog(e2, F5(y)) \in Seq(Step)
    <3>1. B \in Seq(Names) /\ e2 \in Seq(Names)
      BY <1>1, <1>2, Pieces
    <3> HIDE DEF F5
    <3> QED BY <2>2, <3>1, StepsConcat
  <2> QED BY <1>1, <1>2, <2>1, <2>2, <2>3, Pieces DEF F3, F4
<1>7. Prog(Two("await", "copy"), y) = On("await", On("copy", y))
  BY <1>1, Pieces
<1> QED BY <1>3, <1>4, <1>5, <1>6, <1>7 DEF Prog, One, Two, Cat

-----------------------------------------------------------------------------
(* What the places of a worker say of its stack.                           *)

LEMMA BarNames ==
    /\ \A n \in {"read", "add", "spin", "reset", "flip", "leave", "copy", "steal", "mark", "help",
                 "set_steal", "set_together", "clear", "collect", "done", "gunlock", "gc_off",
                 "await", "glock"} : n \in Names
    /\ \A n \in {"read", "add", "spin", "reset", "flip", "leave", "copy", "steal", "mark", "help",
                 "set_steal", "set_together", "clear", "collect", "done", "await", "glock", "none"} :
          n \notin Plain
BY DEF Names, Plain, Frame, Run, Oper, Mail, Ends

LEMMA TopOn ==
    ASSUME NEW n \in Names, NEW y \in Seq(Step)
    PROVE  /\ On(n, y) \in Seq(Step) /\ On(n, y) # <<>> /\ TopOf(On(n, y)) = n
           /\ Tail(On(n, y)) = y
BY OnFacts, NameSteps, ZenonT(60) DEF TopOf

LEMMA TopCons ==
    ASSUME NEW n \in Names, NEW v \in Int, NEW y \in Seq(Step)
    PROVE  /\ <<n, v>> \in Step
           /\ Cons(<<n, v>>, y) \in Seq(Step) /\ Cons(<<n, v>>, y) # <<>>
           /\ TopOf(Cons(<<n, v>>, y)) = n /\ Head(Cons(<<n, v>>, y))[2] = v
           /\ Tail(Cons(<<n, v>>, y)) = y
PROOF
<1> DEFINE a == <<n, v>>
<1>1. a \in Step /\ a[1] = n /\ a[2] = v
  BY NameSteps
<1> HIDE DEF a
<1>2. /\ Cons(a, y) \in Seq(Step) /\ Cons(a, y) # <<>>
      /\ Head(Cons(a, y)) = a /\ Tail(Cons(a, y)) = y
  BY <1>1, ConsFacts
<1>3. TopOf(Cons(a, y)) = n /\ Head(Cons(a, y))[2] = v
  BY <1>1, <1>2 DEF TopOf
<1> QED BY <1>1, <1>2, <1>3 DEF a

LEMMA ShapeTypes ==
    ASSUME NEW y \in Seq(Step)
    PROVE  /\ L6(y) \in Seq(Step) /\ L5(y) \in Seq(Step) /\ L4(y) \in Seq(Step)
           /\ L3(y) \in Seq(Step) /\ L2(y) \in Seq(Step) /\ L1(y) \in Seq(Step)
           /\ L0(y) \in Seq(Step) /\ F5(y) \in Seq(Step) /\ F4(y) \in Seq(Step)
           /\ F3(y) \in Seq(Step) /\ F1(y) \in Seq(Step)
PROOF
<1>1. \A n \in Names : \A x \in Seq(Step) : On(n, x) \in Seq(Step)
  BY OnFacts
<1>2. L6(y) \in Seq(Step)
  BY <1>1, BarNames DEF L6
<1>3. L5(y) \in Seq(Step)
  BY <1>1, <1>2, BarNames DEF L5
<1>4. L4(y) \in Seq(Step) /\ L2(y) \in Seq(Step)
  BY <1>1, <1>3, BarNames DEF L4, L2
<1>5. L3(y) \in Seq(Step) /\ L1(y) \in Seq(Step)
  BY <1>1, <1>4, BarNames DEF L3, L1
<1>6. L0(y) \in Seq(Step)
  BY <1>1, <1>5, BarNames DEF L0
<1>7. F5(y) \in Seq(Step)
  BY <1>1, BarNames DEF F5
<1>8. F4(y) \in Seq(Step) /\ F1(y) \in Seq(Step)
  BY <1>1, <1>7, BarNames DEF F4, F1
<1>9. F3(y) \in Seq(Step)
  BY <1>1, <1>8, BarNames DEF F3
<1> QED BY <1>2, <1>3, <1>4, <1>5, <1>6, <1>7, <1>8, <1>9

(* The tops of the programs, and what follows. *)
LEMMA ShapeTops ==
    ASSUME NEW y \in Seq(Step)
    PROVE  /\ TopOf(L5(y)) = "done" /\ Tail(L5(y)) = On("read", L6(y))
           /\ TopOf(L4(y)) = "mark" /\ Tail(L4(y)) = On("help", On("read", L5(y)))
           /\ TopOf(L3(y)) = "clear" /\ Tail(L3(y)) = On("read", L4(y))
           /\ TopOf(L2(y)) = "collect" /\ Tail(L2(y)) = L5(y)
           /\ TopOf(L1(y)) = "clear" /\ Tail(L1(y)) = On("read", L2(y))
           /\ TopOf(L0(y)) = "set_steal" /\ Tail(L0(y)) = On("read", L1(y))
           /\ TopOf(F5(y)) = "steal" /\ Tail(F5(y)) = On("read", y)
           /\ TopOf(F4(y)) = "mark" /\ Tail(F4(y)) = On("help", On("read", F5(y)))
PROOF
<1>1. /\ L6(y) \in Seq(Step) /\ L5(y) \in Seq(Step) /\ L4(y) \in Seq(Step) /\ L2(y) \in Seq(Step)
      /\ L1(y) \in Seq(Step) /\ F5(y) \in Seq(Step)
  BY ShapeTypes
<1>2. \A n \in Names : \A x \in Seq(Step) :
         On(n, x) \in Seq(Step) /\ TopOf(On(n, x)) = n /\ Tail(On(n, x)) = x
  BY TopOn
<1>3. TopOf(L5(y)) = "done" /\ Tail(L5(y)) = On("read", L6(y))
  BY <1>1, <1>2, BarNames DEF L5
<1>4. TopOf(L4(y)) = "mark" /\ Tail(L4(y)) = On("help", On("read", L5(y)))
  BY <1>1, <1>2, BarNames DEF L4
<1>5. TopOf(L3(y)) = "clear" /\ Tail(L3(y)) = On("read", L4(y))
  BY <1>1, <1>2, BarNames DEF L3
<1>6. TopOf(L2(y)) = "collect" /\ Tail(L2(y)) = L5(y)
  BY <1>1, <1>2, BarNames DEF L2
<1>7. TopOf(L1(y)) = "clear" /\ Tail(L1(y)) = On("read", L2(y))
  BY <1>1, <1>2, BarNames DEF L1
<1>8. TopOf(L0(y)) = "set_steal" /\ Tail(L0(y)) = On("read", L1(y))
  BY <1>1, <1>2, BarNames DEF L0
<1>9. TopOf(F5(y)) = "steal" /\ Tail(F5(y)) = On("read", y)
  BY <1>1, <1>2, BarNames DEF F5
<1>10. TopOf(F4(y)) = "mark" /\ Tail(F4(y)) = On("help", On("read", F5(y)))
  BY <1>1, <1>2, BarNames DEF F4
<1> QED BY <1>3, <1>4, <1>5, <1>6, <1>7, <1>8, <1>9, <1>10

(* A worker in a barrier, by its top. *)
LEMMA WaitsTop ==
    ASSUME NEW u \in Int, NEW y \in Seq(Step), NEW s, Waits(s, u, y)
    PROVE  /\ s # <<>> /\ TopOf(s) \in {"read", "add", "spin", "reset", "flip"}
           /\ TopOf(s) # "read" => Head(s)[2] = u
           /\ TopOf(s) = "read" => Tail(s) = y
           /\ TopOf(s) = "add" => Tail(s) = y
           /\ TopOf(s) = "spin" => s = Cons(<<"spin", u>>, On("leave", y))
           /\ TopOf(s) = "reset" => Tail(s) = Cons(<<"flip", u>>, On("leave", y))
           /\ TopOf(s) = "flip" => Tail(s) = On("leave", y)
PROOF
<1>1. /\ "read" \in Names /\ "add" \in Names /\ "spin" \in Names /\ "reset" \in Names
      /\ "flip" \in Names /\ "leave" \in Names
  BY BarNames
<1> DEFINE l == On("leave", y)
           k == Cons(<<"flip", u>>, l)
<1>2. l \in Seq(Step)
  BY <1>1, TopOn
<1> HIDE DEF l
<1>3. /\ k \in Seq(Step) /\ k # <<>> /\ TopOf(k) = "flip" /\ Head(k)[2] = u /\ Tail(k) = l
  BY <1>1, <1>2, TopCons
<1> HIDE DEF k
<1>4. CASE s = On("read", y)
  <2>1. s # <<>> /\ TopOf(s) = "read" /\ Tail(s) = y
    BY <1>1, <1>4, TopOn
  <2> QED BY <2>1
<1>5. CASE s = Cons(<<"add", u>>, y)
  <2> DEFINE x == Cons(<<"add", u>>, y)
  <2>1. x # <<>> /\ TopOf(x) = "add" /\ Tail(x) = y /\ Head(x)[2] = u
    BY <1>1, TopCons
  <2> HIDE DEF x
  <2>2. s # <<>> /\ TopOf(s) = "add" /\ Tail(s) = y /\ Head(s)[2] = u
    BY <1>5, <2>1 DEF x
  <2> QED BY <2>2
<1>6. CASE s = Cons(<<"spin", u>>, l)
  <2> DEFINE x == Cons(<<"spin", u>>, l)
  <2>1. x # <<>> /\ TopOf(x) = "spin" /\ Head(x)[2] = u
    BY <1>1, <1>2, TopCons
  <2> HIDE DEF x
  <2>2. s # <<>> /\ TopOf(s) = "spin" /\ Head(s)[2] = u
    BY <1>6, <2>1 DEF x
  <2> QED BY <1>6, <2>2 DEF l
<1>7. CASE s = Cons(<<"reset", u>>, k)
  <2> DEFINE x == Cons(<<"reset", u>>, k)
  <2>1. x # <<>> /\ TopOf(x) = "reset" /\ Head(x)[2] = u /\ Tail(x) = k
    BY <1>1, <1>3, TopCons
  <2> HIDE DEF x
  <2>2. s # <<>> /\ TopOf(s) = "reset" /\ Head(s)[2] = u /\ Tail(s) = k
    BY <1>7, <2>1 DEF x
  <2> QED BY <2>2 DEF k, l
<1>8. CASE s = k
  BY <1>3, <1>8 DEF l
<1> QED BY <1>4, <1>5, <1>6, <1>7, <1>8 DEF Waits, k, l

LEMMA LeavesTop ==
    ASSUME NEW u \in Int, NEW y \in Seq(Step), NEW s, Leaves(s, u, y)
    PROVE  /\ s # <<>> /\ TopOf(s) \in {"spin", "leave"}
           /\ TopOf(s) = "spin" => Head(s)[2] = 1 - u /\ Tail(s) = On("leave", y)
           /\ TopOf(s) = "leave" => Tail(s) = y
PROOF
<1>1. /\ On("leave", y) \in Seq(Step) /\ On("leave", y) # <<>> /\ TopOf(On("leave", y)) = "leave"
      /\ Tail(On("leave", y)) = y
  BY TopOn, BarNames
<1>2. 1 - u \in Int
  OBVIOUS
<1>3. CASE s = Cons(<<"spin", 1 - u>>, On("leave", y))
  <2> DEFINE l == On("leave", y)
             v == 1 - u
  <2>1. "spin" \in Names /\ l \in Seq(Step) /\ v \in Int
    BY <1>1, BarNames
  <2> HIDE DEF l, v
  <2>2. s = Cons(<<"spin", v>>, l)
    BY <1>3 DEF l, v
  <2>3. s # <<>> /\ TopOf(s) = "spin" /\ Head(s)[2] = v /\ Tail(s) = l
    BY <2>1, <2>2, TopCons
  <2> QED BY <2>3 DEF l, v
<1>4. CASE s = On("leave", y)
  BY <1>1, <1>4
<1> QED BY <1>3, <1>4 DEF Leaves

(* A step of worker w takes the head of its stack. *)
LEMMA Moves ==
    ASSUME TypeInv, NEW w \in Id, st[w] # <<>>
    PROVE  /\ Top(w) = TopOf(st[w]) /\ Tail(st[w]) \in Seq(Step)
           /\ Pop(w) => st'[w] = Tail(st[w])
           /\ \A p : Go(w, p) => st'[w] = Steps(p) \o Tail(st[w])
           /\ \A p : Bar(w, p) => st'[w] = p \o Tail(st[w])
           /\ Push(w, <<"copy">>) => st'[w] = On("copy", st[w])
           /\ \A p : Pop(w) \/ Go(w, p) \/ Bar(w, p) \/ Push(w, p) =>
                        /\ \A v \in Id \ {w} : st'[v] = st[v]
PROOF
<1>1. st \in [Id -> Seq(Step)] /\ st[w] \in Seq(Step)
  BY DEF TypeInv
<1>2. Tail(st[w]) \in Seq(Step)
  BY <1>1
<1>3. Pop(w) => st'[w] = Tail(st[w])
  BY <1>1 DEF Pop
<1>4. ASSUME NEW p PROVE /\ Go(w, p) => st'[w] = Steps(p) \o Tail(st[w])
                         /\ Bar(w, p) => st'[w] = p \o Tail(st[w])
  BY <1>1 DEF Go, Bar
<1>5. Push(w, <<"copy">>) => st'[w] = On("copy", st[w])
  <2>1. Steps(<<"copy">>) \o st[w] = On("copy", st[w])
    BY <1>1, StepsTuples, BarNames
  <2> QED BY <1>1, <2>1 DEF Push
<1>6. ASSUME NEW p, Pop(w) \/ Go(w, p) \/ Bar(w, p) \/ Push(w, p), NEW v \in Id \ {w}
      PROVE  st'[v] = st[v]
  BY <1>1, <1>6 DEF Pop, Go, Bar, Push
<1>7. Top(w) = TopOf(st[w])
  BY DEF Top, TopOf
<1> QED BY <1>2, <1>3, <1>4, <1>5, <1>6, <1>7

-----------------------------------------------------------------------------
(* Where a worker is, by its top.                                          *)

LEMMA AfterTypes ==
    ASSUME NEW b \in Seq(Step), NEW k \in 1 .. 6
    PROVE  FA(k, b) \in Seq(Step) /\ LA(k, b) \in Seq(Step)
PROOF
<1>1. k = 1 \/ k = 2 \/ k = 3 \/ k = 4 \/ k = 5 \/ k = 6
  OBVIOUS
<1> QED BY <1>1, ShapeTypes DEF FA, LA

LEMMA Afters ==
    /\ \A b : /\ LA(1, b) = L1(b) /\ LA(2, b) = L2(b) /\ LA(3, b) = L3(b)
              /\ LA(4, b) = L4(b) /\ LA(5, b) = L5(b) /\ LA(6, b) = L6(b)
              /\ FA(1, b) = F1(b) /\ FA(2, b) = F5(b) /\ FA(3, b) = F3(b)
              /\ FA(4, b) = F4(b) /\ FA(5, b) = F5(b) /\ FA(6, b) = b
    /\ Now(0) = "steal" /\ Now(1) = NoFrame /\ Now(2) = "together"
    /\ Now(3) = NoFrame /\ Now(4) = NoFrame /\ Now(5) = NoFrame
    /\ NoFrame # "steal" /\ NoFrame # "together"
BY DEF LA, FA, Now, NoFrame

LEMMA RestFacts ==
    ASSUME NEW s, Rest(s)
    PROVE  /\ TopOf(s) \in Plain \cup {"none"} /\ (s # <<>> => TopOf(s) \in Plain /\ s \in Base)
           /\ s # <<>> => Rest(Tail(s))
PROOF
<1>1. s \in Seq(Step) /\ \A i \in DOMAIN s : s[i][1] \in Plain
  BY DEF Rest
<1>2. CASE s = <<>>
  BY <1>2 DEF TopOf
<1>3. CASE s # <<>>
  <2>1. /\ 1 \in DOMAIN s /\ Head(s) = s[1] /\ Tail(s) \in Seq(Step)
        /\ \A i \in DOMAIN Tail(s) : i + 1 \in DOMAIN s /\ Tail(s)[i] = s[i + 1]
    BY <1>1, <1>3
  <2>2. TopOf(s) \in Plain
    BY <1>1, <1>3, <2>1 DEF TopOf
  <2>3. Rest(Tail(s))
    BY <1>1, <2>1 DEF Rest
  <2> QED BY <1>1, <1>3, <2>2, <2>3 DEF Base
<1> QED BY <1>2, <1>3

LEMMA RestGo ==
    ASSUME NEW y, Rest(y), NEW p \in Seq(Plain)
    PROVE  Rest(Steps(p) \o y)
PROOF
<1> DEFINE u == Steps(p)
           x == u \o y
<1>1. p \in Seq(Names) /\ \A i \in 1 .. Len(p) : p[i] \in Plain /\ p[i] \in Names
  BY AllNames
<1>2. u \in Seq(Step) /\ Len(u) = Len(p) /\ \A i \in 1 .. Len(p) : u[i] = S(p[i])
  BY <1>1, StepsSeq
<1>3. \A i \in 1 .. Len(p) : u[i][1] \in Plain
  BY <1>1, <1>2, NameSteps
<1> HIDE DEF u
<1>4. y \in Seq(Step) /\ \A i \in 1 .. Len(y) : y[i][1] \in Plain
  BY DEF Rest
<1>5. /\ x \in Seq(Step) /\ Len(x) = Len(u) + Len(y) /\ Len(u) \in Nat /\ Len(y) \in Nat
      /\ \A i \in 1 .. Len(u) + Len(y) : x[i] = IF i <= Len(u) THEN u[i] ELSE y[i - Len(u)]
  <2>1. u \in Seq(Step) /\ y \in Seq(Step) /\ Len(u) \in Nat /\ Len(y) \in Nat
    BY <1>2, <1>4
  <2> QED BY <2>1, ConcatProperties
<1> HIDE DEF x
<1>6. ASSUME NEW i \in 1 .. Len(x) PROVE x[i][1] \in Plain
  <2>1. CASE i <= Len(u)
    BY <1>2, <1>3, <1>5, <2>1
  <2>2. CASE ~(i <= Len(u))
    <3>1. i - Len(u) \in 1 .. Len(y)
      BY <1>5, <2>2
    <3> QED BY <1>4, <1>5, <2>2, <3>1
  <2> QED BY <2>1, <2>2
<1>7. Rest(x)
  BY <1>5, <1>6 DEF Rest
<1> QED BY <1>7 DEF x, u

LEMMA OutTop ==
    ASSUME NEW s, NEW u \in Int, NEW d, Out(s, u, d)
    PROVE  /\ TopOf(s) \in Plain \cup {"none", "await", "glock", "spin", "leave"}
           /\ TopOf(s) \in Plain \cup {"none"} => Rest(s)
           /\ TopOf(s) = "await" => \E b \in Base : Tail(s) = On("copy", b)
           /\ TopOf(s) = "glock" => d = 0 /\ \E b \in Base : Tail(s) = L0(b)
           /\ TopOf(s) \in {"spin", "leave"} => \E b \in Base : Leaves(s, u, b)
           /\ TopOf(s) = "none" => s = <<>>
PROOF
<1> USE BarNames
<1>1. CASE Rest(s)
  <2>1. TopOf(s) \in Plain \cup {"none"} /\ (s # <<>> => TopOf(s) \in Plain)
    BY <1>1, RestFacts
  <2> QED BY <1>1, <2>1
<1>2. ASSUME NEW b \in Base, s = On("await", On("copy", b))
      PROVE  TopOf(s) = "await" /\ Tail(s) = On("copy", b)
  <2>1. b \in Seq(Step) /\ On("copy", b) \in Seq(Step)
    BY TopOn DEF Base
  <2> QED BY <1>2, <2>1, TopOn
<1>3. ASSUME NEW b \in Base, s = On("glock", L0(b))
      PROVE  TopOf(s) = "glock" /\ Tail(s) = L0(b)
  <2>1. b \in Seq(Step) /\ L0(b) \in Seq(Step)
    BY ShapeTypes DEF Base
  <2> QED BY <1>3, <2>1, TopOn
<1>4. ASSUME NEW b \in Base, Leaves(s, u, b)
      PROVE  TopOf(s) \in {"spin", "leave"}
  BY <1>4, LeavesTop DEF Base
<1> QED BY <1>1, <1>2, <1>3, <1>4 DEF Out

JoinTops(s, u, f, g, b) ==
    /\ s # <<>>
    /\ TopOf(s) \in {"copy", "read", "add", "spin", "reset", "flip", "leave", "steal", "mark", "help"}
    /\ TopOf(s) = "copy" => \/ g = 0 /\ f = "steal" /\ Tail(s) = b
                            \/ g = 2 /\ f = "together" /\ Tail(s) = F5(b)
    /\ TopOf(s) = "steal" => g \in {2, 5} /\ s = F5(b)
    /\ TopOf(s) = "mark" => g = 4 /\ s = F4(b)
    /\ TopOf(s) = "help" => g = 4 /\ Tail(s) = On("read", F5(b))
    /\ TopOf(s) \in {"read", "add", "reset", "flip"} => Waits(s, u, FA(g + 1, b))
    /\ TopOf(s) = "leave" => g > 0 /\ Leaves(s, u, FA(g, b))
    /\ TopOf(s) = "spin" => \/ Waits(s, u, FA(g + 1, b))
                            \/ g > 0 /\ Leaves(s, u, FA(g, b))

LEMMA JoinTop ==
    ASSUME NEW s, NEW u \in Int, NEW f, NEW g \in 0 .. 5, NEW b \in Base, Join(s, u, f, g, b)
    PROVE  JoinTops(s, u, f, g, b)
PROOF
<1>1. b \in Seq(Step) /\ F5(b) \in Seq(Step) /\ F4(b) \in Seq(Step) /\ On("read", F5(b)) \in Seq(Step)
  BY ShapeTypes, TopOn, BarNames DEF Base
<1>2. CASE g > 0 /\ Leaves(s, u, FA(g, b))
  <2>1. FA(g, b) \in Seq(Step)
    BY <1>1, <1>2, AfterTypes
  <2>2. s # <<>> /\ TopOf(s) \in {"spin", "leave"}
    BY <1>2, <2>1, LeavesTop
  <2> QED BY <1>2, <2>2 DEF JoinTops
<1>3. CASE Waits(s, u, FA(g + 1, b))
  <2>1. g + 1 \in 1 .. 6
    OBVIOUS
  <2>2. FA(g + 1, b) \in Seq(Step)
    BY <1>1, <2>1, AfterTypes
  <2>3. s # <<>> /\ TopOf(s) \in {"read", "add", "spin", "reset", "flip"}
    BY <1>3, <2>2, WaitsTop
  <2> QED BY <1>3, <2>3 DEF JoinTops
<1>4. CASE g = 0 /\ s = On("copy", b) /\ f = "steal"
  <2>1. s # <<>> /\ TopOf(s) = "copy" /\ Tail(s) = b
    BY <1>1, <1>4, TopOn, BarNames
  <2> QED BY <1>4, <2>1 DEF JoinTops
<1>5. CASE g = 2 /\ s = On("copy", F5(b)) /\ f = "together"
  <2>1. s # <<>> /\ TopOf(s) = "copy" /\ Tail(s) = F5(b)
    BY <1>1, <1>5, TopOn, BarNames
  <2> QED BY <1>5, <2>1 DEF JoinTops
<1>6. CASE g \in {2, 5} /\ s = F5(b)
  <2>1. TopOf(s) = "steal"
    BY <1>1, <1>6, ShapeTops
  <2>2. s # <<>>
    BY <2>1 DEF TopOf
  <2> QED BY <1>6, <2>1, <2>2 DEF JoinTops
<1>7. CASE g = 4 /\ s = F4(b)
  <2>1. TopOf(s) = "mark"
    BY <1>1, <1>7, ShapeTops
  <2>2. s # <<>>
    BY <2>1 DEF TopOf
  <2> QED BY <1>7, <2>1, <2>2 DEF JoinTops
<1>8. CASE g = 4 /\ s = On("help", On("read", F5(b)))
  <2>1. s # <<>> /\ TopOf(s) = "help" /\ Tail(s) = On("read", F5(b))
    BY <1>1, <1>8, TopOn, BarNames
  <2> QED BY <1>8, <2>1 DEF JoinTops
<1> QED BY <1>2, <1>3, <1>4, <1>5, <1>6, <1>7, <1>8 DEF Join

LeadTops(s, u, f, g, b) ==
    /\ s # <<>>
    /\ TopOf(s) \in {"set_steal", "set_together", "collect", "clear", "done",
                     "read", "add", "spin", "reset", "flip", "leave", "mark", "help"}
    /\ TopOf(s) = "set_steal" => g = 0 /\ f = NoFrame /\ Tail(s) = On("read", L1(b))
    /\ TopOf(s) = "set_together" => g = 2 /\ f = NoFrame /\ Tail(s) = On("read", L3(b))
    /\ TopOf(s) = "collect" => g = 2 /\ f = NoFrame /\ s = L2(b)
    /\ TopOf(s) = "clear" => g \in {1, 3} /\ Tail(s) = On("read", LA(g + 1, b))
    /\ TopOf(s) = "done" => g = 5 /\ f = NoFrame /\ s = L5(b)
    /\ TopOf(s) = "mark" => g = 4 /\ f = NoFrame /\ s = L4(b)
    /\ TopOf(s) = "help" => g = 4 /\ f = NoFrame /\ Tail(s) = On("read", L5(b))
    /\ TopOf(s) \in {"read", "add", "reset", "flip"} => Waits(s, u, LA(g + 1, b)) /\ f = Now(g)
    /\ TopOf(s) = "leave" => g > 0 /\ Leaves(s, u, LA(g, b)) /\ f = Now(g - 1)
    /\ TopOf(s) = "spin" => \/ Waits(s, u, LA(g + 1, b)) /\ f = Now(g)
                            \/ g > 0 /\ Leaves(s, u, LA(g, b)) /\ f = Now(g - 1)

LEMMA LeadTop ==
    ASSUME NEW s, NEW u \in Int, NEW f, NEW g \in 0 .. 5, NEW b \in Base, Lead(s, u, f, g, b)
    PROVE  LeadTops(s, u, f, g, b)
PROOF
<1>1. /\ b \in Seq(Step) /\ L5(b) \in Seq(Step) /\ L3(b) \in Seq(Step)
      /\ On("read", L5(b)) \in Seq(Step) /\ On("read", L3(b)) \in Seq(Step)
  BY ShapeTypes, TopOn, BarNames DEF Base
<1>2. CASE g > 0 /\ Leaves(s, u, LA(g, b)) /\ f = Now(g - 1)
  <2>1. LA(g, b) \in Seq(Step)
    BY <1>1, <1>2, AfterTypes
  <2>2. s # <<>> /\ TopOf(s) \in {"spin", "leave"}
    BY <1>2, <2>1, LeavesTop
  <2> QED BY <1>2, <2>2 DEF LeadTops
<1>3. CASE Waits(s, u, LA(g + 1, b)) /\ f = Now(g)
  <2>1. g + 1 \in 1 .. 6
    OBVIOUS
  <2>2. LA(g + 1, b) \in Seq(Step)
    BY <1>1, <2>1, AfterTypes
  <2>3. s # <<>> /\ TopOf(s) \in {"read", "add", "spin", "reset", "flip"}
    BY <1>3, <2>2, WaitsTop
  <2> QED BY <1>3, <2>3 DEF LeadTops
<1>4. CASE g > 0 /\ s = LA(g, b) /\ f = Now(g - 1)
  <2>0. \/ g = 1 /\ g - 1 = 0
        \/ g = 2 /\ g - 1 = 1
        \/ g = 3 /\ g - 1 = 2
        \/ g = 4 /\ g - 1 = 3
        \/ g = 5 /\ g - 1 = 4
    BY <1>4
  <2>1. \/ g = 1 /\ s = L1(b)
        \/ g = 2 /\ s = L2(b) /\ f = NoFrame
        \/ g = 3 /\ s = L3(b)
        \/ g = 4 /\ s = L4(b) /\ f = NoFrame
        \/ g = 5 /\ s = L5(b) /\ f = NoFrame
    BY <1>4, <2>0, Afters
  <2>2. \/ g = 1 /\ TopOf(s) = "clear" /\ Tail(s) = On("read", LA(g + 1, b))
        \/ g = 2 /\ TopOf(s) = "collect" /\ s = L2(b) /\ f = NoFrame
        \/ g = 3 /\ TopOf(s) = "clear" /\ Tail(s) = On("read", LA(g + 1, b))
        \/ g = 4 /\ TopOf(s) = "mark" /\ s = L4(b) /\ f = NoFrame
        \/ g = 5 /\ TopOf(s) = "done" /\ s = L5(b) /\ f = NoFrame
    BY <1>1, <2>1, ShapeTops, Afters, SMTT(60)
  <2>3. s # <<>>
    BY <2>2 DEF TopOf
  <2> QED BY <2>2, <2>3 DEF LeadTops
<1>5. CASE g = 0 /\ s = L0(b) /\ f = NoFrame
  <2>1. TopOf(s) = "set_steal" /\ Tail(s) = On("read", L1(b))
    BY <1>1, <1>5, ShapeTops
  <2>2. s # <<>>
    BY <2>1 DEF TopOf
  <2> QED BY <1>5, <2>1, <2>2 DEF LeadTops
<1>6. CASE g = 2 /\ s = On("set_together", On("read", L3(b))) /\ f = NoFrame
  <2>1. s # <<>> /\ TopOf(s) = "set_together" /\ Tail(s) = On("read", L3(b))
    BY <1>1, <1>6, TopOn, BarNames
  <2> QED BY <1>6, <2>1 DEF LeadTops
<1>7. CASE g = 4 /\ s = On("help", On("read", L5(b))) /\ f = NoFrame
  <2>1. s # <<>> /\ TopOf(s) = "help" /\ Tail(s) = On("read", L5(b))
    BY <1>1, <1>7, TopOn, BarNames
  <2> QED BY <1>7, <2>1 DEF LeadTops
<1> QED BY <1>2, <1>3, <1>4, <1>5, <1>6, <1>7 DEF Lead

-----------------------------------------------------------------------------
(* One worker moves, the others stay.                                      *)
Alone(w) == \A v \in Id \ {w} : st'[v] = st[v]
Same == wait' = wait /\ newframe' = newframe /\ done' = done

LEMMA Keeper ==
    ASSUME IInv, IInv', NEW w \in Id, Alone(w), app' = app, spawn_exit_lock' = 1,
           Holds(w) \/ spawn_exit_lock = 0
    PROVE  Holds(w)'
PROOF
<1>1. /\ \A x : x # w => (x \in Holders' <=> x \in Holders)
      /\ w \in Holders <=> Holds(w)
      /\ w \in Holders' <=> Holds(w)'
  BY WorkerHolds DEF Alone
<1>2. \A x : x # w => x \notin Holders
  BY <1>1 DEF IInv, LockInv, TypeInv
<1>3. PICK x : Holders' = {x}
  BY DEF IInv, LockInv
<1>4. x \in Holders'
  BY <1>3
<1> QED BY <1>1, <1>2, <1>4

LEMMA JoinMove ==
    ASSUME NEW c \in Id, NEW g \in 0 .. 5, Busy(c, g), NEW w \in Id \ {c}, Alone(w), Same,
           Joins(w, g)'
    PROVE  Busy(c, g)'
PROOF
<1>1. st'[c] = st[c]
  BY DEF Alone
<1>2. Leads(c, g)'
  BY <1>1 DEF Busy, Leads, Same, Holds, Has
<1>3. ASSUME NEW v \in Id \ {c}, v # w PROVE Joins(v, g)'
  <2>1. st'[v] = st[v] /\ Joins(v, g)
    BY <1>3 DEF Alone, Busy
  <2> QED BY <2>1 DEF Joins, Away, Same
<1> QED BY <1>2, <1>3 DEF Busy

LEMMA LeadMove ==
    ASSUME NEW c \in Id, NEW g \in 0 .. 5, Busy(c, g), Alone(c), wait' = wait, Holds(c)',
           g < 5 => done' = 0,
           newframe' = newframe \/ newframe = NoFrame \/ g \in {1, 3},
           \E b \in Base : Lead(st'[c], wait, newframe', g, b)
    PROVE  Busy(c, g)'
PROOF
<1>1. Leads(c, g)'
  BY DEF Leads
<1>2. ASSUME NEW v \in Id \ {c} PROVE Joins(v, g)'
  <2>1. st'[v] = st[v] /\ Joins(v, g)
    BY DEF Alone, Busy
  <2>2. CASE g = 0 /\ Away(v)
    <3>1. done' = done
      BY <2>2 DEF Busy, Leads
    <3> QED BY <2>1, <2>2, <3>1 DEF Joins, Away
  <2>3. CASE g # 0 /\ st[v] = <<>>
    BY <2>1, <2>3 DEF Joins
  <2>4. ASSUME NEW b \in Base, Join(st[v], wait, newframe, g, b)
        PROVE  Join(st'[v], wait', newframe', g, b)
    BY <2>1, <2>4, Afters DEF Join
  <2> QED BY <2>1, <2>2, <2>3, <2>4 DEF Joins
<1> QED BY <1>1, <1>2 DEF Busy

LEMMA CalmMove ==
    ASSUME Calm, NEW w \in Id, Alone(w), wait' = wait, newframe' = newframe,
           done' = done \/ done' = 0, Away(w)'
    PROVE  Calm'
PROOF
<1>1. ASSUME NEW v \in Id, v # w PROVE Away(v)'
  <2>1. st'[v] = st[v] /\ Out(st[v], wait, done)
    BY <1>1 DEF Alone, Calm, Away
  <2>2. Out(st[v], wait, done')
    BY <2>1 DEF Out
  <2> QED BY <2>1, <2>2 DEF Away
<1> QED BY <1>1 DEF Calm

(* What a busy phase says of a worker, and of the frame that is set. *)
LEMMA BusyFrame ==
    ASSUME NEW c \in Id, NEW g \in 0 .. 5, Busy(c, g)
    PROVE  /\ g = 0 => newframe \in {NoFrame, "steal"}
           /\ g = 2 => newframe \in {NoFrame, "together"}
           /\ g \in {4, 5} => newframe = NoFrame
PROOF
<1>1. PICK b \in Base : Lead(st[c], wait, newframe, g, b)
  BY DEF Busy, Leads
<1>2. /\ g = 2 => g - 1 = 1
      /\ g = 4 => g - 1 = 3
      /\ g = 5 => g - 1 = 4
  OBVIOUS
<1> QED BY <1>1, <1>2, Afters DEF Lead

LEMMA Places ==
    ASSUME IInv, PhaseInv, NEW w \in Id
    PROVE  \/ Calm /\ Away(w)
           \/ \E c \in Id : /\ Busy(c, 0) /\ w # c /\ Away(w)
           \/ \E c \in Id : \E g \in 0 .. 5 : /\ Busy(c, g) /\ w # c
                 /\ \E b \in Base : Join(st[w], wait, newframe, g, b)
           \/ \E g \in 0 .. 5 : /\ Busy(w, g)
                 /\ \E b \in Base : Lead(st[w], wait, newframe, g, b)
           \/ st[w] = <<>>
BY DEF PhaseInv, Calm, Busy, Joins, Leads

LEMMA WaitInt == IInv => wait \in Int
BY DEF IInv, TypeInv

(* Steps outside of the frames. *)
LEMMA PlainStep ==
    ASSUME IInv, PhaseInv, NEW w \in Id, Top(w) \in Plain
    PROVE  /\ Rest(st[w]) /\ st[w] # <<>> /\ Top(w) = TopOf(st[w])
           /\ Alone(w) /\ wait' = wait /\ newframe' = newframe /\ Away(w)'
                 /\ (done' = done \/ done' = 0) => PhaseInv'
           /\ Alone(w) /\ Same /\ newframe # NoFrame /\ st'[w] = On("copy", st[w]) => PhaseInv'
PROOF
<1>1. Top(w) = TopOf(st[w]) /\ TopOf(st[w]) \in Plain /\ st[w] # <<>>
  BY BarNames DEF Top, TopOf
<1>2. wait \in Int
  BY WaitInt
<1>3. \/ Calm /\ Away(w)
      \/ \E c \in Id : Busy(c, 0) /\ w # c /\ Away(w)
  <2>1. ASSUME NEW g \in 0 .. 5, NEW b \in Base, Join(st[w], wait, newframe, g, b) PROVE FALSE
    <3>1. TopOf(st[w]) \in {"copy", "read", "add", "spin", "reset", "flip", "leave", "steal", "mark", "help"}
      BY <1>2, <2>1, JoinTop DEF JoinTops
    <3> QED BY <1>1, <3>1, BarNames
  <2>2. ASSUME NEW g \in 0 .. 5, NEW b \in Base, Lead(st[w], wait, newframe, g, b) PROVE FALSE
    <3>1. TopOf(st[w]) \in {"set_steal", "set_together", "collect", "clear", "done",
                            "read", "add", "spin", "reset", "flip", "leave", "mark", "help"}
      BY <1>2, <2>2, LeadTop DEF LeadTops
    <3> QED BY <1>1, <3>1, BarNames
  <2> QED BY <1>1, <2>1, <2>2, Places
<1>4. Rest(st[w])
  BY <1>1, <1>2, <1>3, OutTop DEF Away
<1>5. ASSUME Alone(w), wait' = wait, newframe' = newframe, Away(w)', done' = done \/ done' = 0
      PROVE  PhaseInv'
  <2>1. CASE Calm
    BY <1>5, <2>1, CalmMove DEF PhaseInv
  <2>2. ASSUME NEW c \in Id, Busy(c, 0), w # c PROVE PhaseInv'
    <3>1. done' = done
      BY <1>5, <2>2 DEF Busy, Leads
    <3>2. Joins(w, 0)'
      BY <1>5 DEF Joins
    <3>3. Busy(c, 0)'
      BY <1>5, <2>2, <3>1, <3>2, JoinMove DEF Same
    <3> QED BY <3>3 DEF PhaseInv
  <2> QED BY <1>3, <2>1, <2>2
<1>6. ASSUME Alone(w), Same, newframe # NoFrame, st'[w] = On("copy", st[w])
      PROVE  PhaseInv'
  <2>1. PICK c \in Id : Busy(c, 0) /\ w # c
    BY <1>3, <1>6 DEF Calm
  <2>2. newframe = "steal"
    BY <1>6, <2>1, BusyFrame
  <2>3. st[w] \in Base
    BY <1>1, <1>4, RestFacts
  <2>4. Joins(w, 0)'
    BY <1>6, <2>2, <2>3 DEF Joins, Join, Same
  <2>5. Busy(c, 0)'
    BY <1>6, <2>1, <2>4, JoinMove
  <2> QED BY <2>5 DEF PhaseInv
<1> QED BY <1>1, <1>4, <1>5, <1>6

BarTops == {"spin", "reset", "flip", "leave"}
Silent(w) == /\ Alone(w) /\ UNCHANGED barVars /\ st[w] # <<>>
             /\ Top(w) \notin BarTops /\ Top(w)' \notin BarTops

LEMMA PlainMove ==
    ASSUME IInv, PhaseInv, NEW w \in Id, Top(w) \in Plain, UNCHANGED <<barVars, newframe, done>>,
           NEW p \in Seq(Plain), Pop(w) \/ Go(w, p)
    PROVE  PhaseInv' /\ Silent(w)
PROOF
<1>1. Rest(st[w]) /\ st[w] # <<>> /\ Top(w) = TopOf(st[w])
  BY PlainStep
<1>2. Rest(Tail(st[w])) /\ TypeInv
  BY <1>1, RestFacts DEF IInv
<1>3. Alone(w)
  BY <1>1, <1>2, Moves DEF Alone
<1>4. Rest(st'[w])
  <2>1. CASE Pop(w)
    BY <1>1, <1>2, <2>1, Moves
  <2>2. CASE Go(w, p)
    <3>1. st'[w] = Steps(p) \o Tail(st[w])
      BY <1>1, <1>2, <2>2, Moves
    <3> QED BY <1>2, <3>1, RestGo
  <2> QED BY <2>1, <2>2
<1>5. Away(w)'
  BY <1>4 DEF Away, Out
<1>6. PhaseInv'
  BY <1>3, <1>5, PlainStep DEF barVars
<1>7. Top(w)' = TopOf(st'[w])
  BY DEF Top, TopOf
<1>8. Top(w)' \in Plain \cup {"none"}
  BY <1>4, <1>7, RestFacts
<1>9. \A n \in BarTops : n \notin Plain /\ n # "none"
  BY BarNames DEF BarTops
<1> QED BY <1>1, <1>3, <1>6, <1>8, <1>9 DEF Silent

LEMMA PlainYield ==
    ASSUME IInv, PhaseInv, NEW w \in Id, Top(w) \in Plain, YIELD_NEWFRAME(w)
    PROVE  PhaseInv' /\ Silent(w)
PROOF
<1>1. Rest(st[w]) /\ st[w] # <<>> /\ Top(w) = TopOf(st[w]) /\ st[w] \in Seq(Step)
  BY PlainStep DEF IInv, TypeInv
<1>2. st'[w] = On("copy", st[w]) /\ Alone(w)
  BY <1>1, Moves DEF YIELD_NEWFRAME, Alone, IInv
<1>3. newframe # NoFrame /\ UNCHANGED <<barVars, newframe, done>>
  BY DEF YIELD_NEWFRAME, frameVars
<1>4. PhaseInv'
  BY <1>2, <1>3, PlainStep DEF Same, barVars
<1>5. Top(w)' = "copy"
  <2>1. Top(w)' = TopOf(st'[w])
    BY DEF Top, TopOf
  <2> QED BY <1>1, <1>2, <2>1, TopOn, BarNames
<1>6. \A n \in BarTops : n \notin Plain /\ n # "copy"
  BY BarNames DEF BarTops
<1> QED BY <1>1, <1>2, <1>3, <1>4, <1>5, <1>6 DEF Silent

LEMMA PlainNames ==
    /\ \A n \in {"init", "ready", "xunlock", "gunlock", "loop", "work", "retry", "answer", "reply",
                 "xlock", "release", "leave_alive", "gc", "gc_off"} : n \in Plain
    /\ Exit \in Seq(Plain) /\ Task \in Seq(Plain) /\ <<"gc", "retry", "work">> \in Seq(Plain)
    /\ <<>> \in Seq(Plain)
BY DEF Plain, Oper, Mail, Ends, Exit, Task

LEMMA LifePhase ==
    ASSUME IInv, PhaseInv, NEW w \in Id, LifeStep(w) \/ TableFull(w) \/ GcOff(w)
    PROVE  PhaseInv' /\ Silent(w)
PROOF
<1>1. CASE TableFull(w)
  <2>1. Top(w) \in Plain /\ Go(w, <<"gc", "retry", "work">>) /\ UNCHANGED <<barVars, newframe, done>>
    BY <1>1, PlainNames DEF TableFull, At, frameVars
  <2> QED BY <2>1, PlainMove, PlainNames
<1>2. ASSUME Top(w) \in Plain, Pop(w), UNCHANGED <<barVars, newframe, done>>
      PROVE  PhaseInv' /\ Silent(w)
  BY <1>2, PlainMove, PlainNames
<1> USE PlainNames DEF At, frameVars
<1>3. CASE WorkerInit(w)
  BY <1>2, <1>3 DEF WorkerInit
<1>4. CASE Unlock(w)
  BY <1>2, <1>4 DEF Unlock
<1>5. CASE lace_steal_loop_ex(w)
  <2>1. Top(w) \in Plain
    BY <1>5 DEF lace_steal_loop_ex
  <2>2. CASE Go(w, Exit) /\ UNCHANGED <<barVars, newframe, done>>
    BY <2>1, <2>2, PlainMove
  <2>3. CASE Go(w, Task) /\ UNCHANGED <<barVars, newframe, done>>
    BY <2>1, <2>3, PlainMove
  <2>4. CASE YIELD_NEWFRAME(w)
    BY <2>1, <2>4, PlainYield
  <2> QED BY <1>5, <2>2, <2>3, <2>4 DEF lace_steal_loop_ex
<1>6. CASE Work(w)
  <2>1. Top(w) \in Plain
    BY <1>6 DEF Work
  <2>2. CASE YIELD_NEWFRAME(w)
    BY <2>1, <2>2, PlainYield
  <2>3. CASE Pop(w) /\ UNCHANGED <<barVars, newframe, done>>
    BY <1>2, <2>1, <2>3
  <2> QED BY <1>6, <2>2, <2>3 DEF Work
<1>7. CASE Retry(w)
  BY <1>2, <1>7 DEF Retry
<1>8. CASE Answer(w)
  BY <1>2, <1>8 DEF Answer
<1>9. CASE Reply(w)
  BY <1>2, <1>9 DEF Reply
<1>10. CASE ExitLock(w)
  <2>1. Top(w) \in Plain
    BY <1>10 DEF ExitLock
  <2>2. CASE YIELD_NEWFRAME(w)
    BY <2>1, <2>2, PlainYield
  <2>3. CASE Pop(w) /\ UNCHANGED <<barVars, newframe, done>>
    BY <1>2, <2>1, <2>3
  <2> QED BY <1>10, <2>2, <2>3 DEF ExitLock
<1>11. CASE ExitRelease(w)
  BY <1>2, <1>11 DEF ExitRelease
<1>12. CASE ExitAlive(w)
  BY <1>2, <1>12 DEF ExitAlive
<1>13. CASE GcOff(w)
  BY <1>2, <1>13 DEF GcOff
<1> QED BY <1>1, <1>3, <1>4, <1>5, <1>6, <1>7, <1>8, <1>9, <1>10, <1>11, <1>12, <1>13 DEF LifeStep

LEMMA GcPhase ==
    ASSUME IInv, PhaseInv, NEW w \in Id, sylvan_gc(w)
    PROVE  PhaseInv' /\ Silent(w)
PROOF
<1>1. Top(w) \in Plain /\ UNCHANGED <<barVars, newframe>>
  BY PlainNames DEF sylvan_gc, At
<1>2. Rest(st[w]) /\ st[w] # <<>> /\ Top(w) = TopOf(st[w])
  BY <1>1, PlainStep
<1> DEFINE y == Tail(st[w])
<1>3. Rest(y) /\ y \in Seq(Step)
  BY <1>2, RestFacts DEF Rest
<1>4. Alone(w) /\ \A p : Go(w, p) => st'[w] = Steps(p) \o y
  <2>1. \E p : Go(w, p)
    BY DEF sylvan_gc
  <2> QED BY <1>2, <2>1, Moves DEF Alone, IInv
<1>5. y # <<>>
  <2>1. PICK i \in DOMAIN st[w] : st[w][i][1] \in {"loop", "release"}
    <3>1. "gc" \in Names \ {"leave_alive", "xunlock"}
      BY DEF Names
    <3>2. Head(st[w]) = st[w][1] /\ 1 \in DOMAIN st[w]
      BY <1>2 DEF Rest
    <3>3. Top(w) = "gc"
      BY DEF sylvan_gc, At
    <3>4. st[w][1][1] \in Names \ {"leave_alive", "xunlock"}
      BY <1>2, <3>1, <3>2, <3>3 DEF TopOf
    <3>5. Has(w, Names \ {"leave_alive", "xunlock"})
      BY <3>2, <3>4 DEF Has
    <3>6. Has(w, {"loop", "release"})
      BY <3>5 DEF IInv, StackOf
    <3> QED BY <3>6 DEF Has
  <2>2. st[w] \in Seq(Step) /\ Top(w) = "gc" /\ Top(w) = st[w][1][1]
    BY <1>2 DEF sylvan_gc, At, Rest, TopOf
  <2>3. i # 1 /\ Len(st[w]) # 1
    BY <2>1, <2>2
  <2>4. Len(st[w]) \in Nat /\ Len(st[w]) # 0 /\ Len(y) = Len(st[w]) - 1
    BY <1>2, <2>2
  <2>5. Len(y) # 0
    BY <2>3, <2>4
  <2>6. Len(<<>>) = 0
    OBVIOUS
  <2> HIDE DEF y
  <2> QED BY <2>5, <2>6
<1>6. y \in Base
  BY <1>3, <1>5 DEF Base
<1> HIDE DEF y
<1>7. \A n \in BarTops : n \notin Plain /\ n # "await" /\ n # "glock"
  BY BarNames DEF BarTops
<1>8. CASE gc = 0
  <2>1. done' = 0 /\ st'[w] = On("glock", L0(y))
    <3>1. done' = 0 /\ Go(w, lace_run_newframe \o <<"gc_off">>)
      BY <1>8 DEF sylvan_gc
    <3> QED BY <1>3, <1>4, <3>1, Programs
  <2>2. Away(w)'
    BY <1>6, <2>1 DEF Away, Out
  <2>3. TopOf(st'[w]) = "glock"
    BY <1>3, <2>1, TopOn, BarNames, ShapeTypes
  <2>4. PhaseInv'
    BY <1>1, <1>4, <2>1, <2>2, PlainStep DEF barVars
  <2>5. Top(w)' = TopOf(st'[w])
    BY DEF Top, TopOf
  <2> QED BY <1>1, <1>2, <1>4, <1>7, <2>3, <2>4, <2>5 DEF Silent
<1>9. CASE gc # 0
  <2>1. done' = done /\ st'[w] = On("await", On("copy", y))
    <3>1. done' = done /\ Go(w, <<"await", "copy">>)
      BY <1>9 DEF sylvan_gc
    <3> QED BY <1>3, <1>4, <3>1, Programs
  <2>2. Away(w)'
    BY <1>6, <2>1 DEF Away, Out
  <2>3. TopOf(st'[w]) = "await"
    BY <1>3, <2>1, TopOn, BarNames
  <2>4. PhaseInv'
    BY <1>1, <1>4, <2>1, <2>2, PlainStep DEF barVars
  <2>5. Top(w)' = TopOf(st'[w])
    BY DEF Top, TopOf
  <2> QED BY <1>1, <1>2, <1>4, <1>7, <2>3, <2>4, <2>5 DEF Silent
<1> QED BY <1>8, <1>9

-----------------------------------------------------------------------------
(* The steps of a frame.                                                   *)
LEMMA FramePlaces ==
    ASSUME IInv, PhaseInv, NEW w \in Id, Top(w) \in Names \ Plain
    PROVE  /\ st[w] # <<>> /\ Top(w) = TopOf(st[w]) /\ wait \in Int
           /\ Top(w) \in {"set_steal", "set_together", "collect", "clear", "done"} =>
                 \E g \in 0 .. 5 : \E b \in Base : Busy(w, g) /\ Lead(st[w], wait, newframe, g, b)
           /\ Top(w) \in {"copy", "steal"} =>
                 \E c \in Id : \E g \in 0 .. 5 : \E b \in Base :
                    Busy(c, g) /\ w # c /\ Join(st[w], wait, newframe, g, b)
           /\ Top(w) \in {"mark", "help", "read", "add", "reset", "flip"} =>
                 \/ \E g \in 0 .. 5 : \E b \in Base : Busy(w, g) /\ Lead(st[w], wait, newframe, g, b)
                 \/ \E c \in Id : \E g \in 0 .. 5 : \E b \in Base :
                       Busy(c, g) /\ w # c /\ Join(st[w], wait, newframe, g, b)
           /\ Top(w) \in {"await", "glock"} =>
                 Away(w) /\ (Calm \/ \E c \in Id : Busy(c, 0) /\ w # c)
PROOF
<1>1. st[w] # <<>> /\ Top(w) = TopOf(st[w])
  BY AllNames DEF Top, TopOf
<1>2. wait \in Int
  BY WaitInt
<1>3. ASSUME Away(w) PROVE Top(w) \in {"await", "glock", "spin", "leave"}
  <2>1. TopOf(st[w]) \in Plain \cup {"none", "await", "glock", "spin", "leave"}
    BY <1>2, <1>3, OutTop DEF Away
  <2> QED BY <1>1, <2>1, AllNames
<1>4. ASSUME NEW g \in 0 .. 5, NEW b \in Base, Join(st[w], wait, newframe, g, b)
      PROVE  Top(w) \in {"copy", "read", "add", "spin", "reset", "flip", "leave", "steal", "mark", "help"}
  BY <1>1, <1>2, <1>4, JoinTop DEF JoinTops
<1>5. ASSUME NEW g \in 0 .. 5, NEW b \in Base, Lead(st[w], wait, newframe, g, b)
      PROVE  Top(w) \in {"set_steal", "set_together", "collect", "clear", "done",
                         "read", "add", "spin", "reset", "flip", "leave", "mark", "help"}
  BY <1>1, <1>2, <1>5, LeadTop DEF LeadTops
<1>6. CASE Away(w) /\ (Calm \/ \E c \in Id : Busy(c, 0) /\ w # c)
  BY <1>1, <1>2, <1>3, <1>6
<1>7. CASE \E c \in Id : \E g \in 0 .. 5 : /\ Busy(c, g) /\ w # c
              /\ \E b \in Base : Join(st[w], wait, newframe, g, b)
  BY <1>1, <1>2, <1>4, <1>7
<1>8. CASE \E g \in 0 .. 5 : Busy(w, g) /\ \E b \in Base : Lead(st[w], wait, newframe, g, b)
  BY <1>1, <1>2, <1>5, <1>8
<1> QED BY <1>1, <1>6, <1>7, <1>8, Places

(* A worker outside of the barriers pops its top, or goes on. *)
LEMMA SilentMove ==
    ASSUME IInv, NEW w \in Id, st[w] # <<>>, Top(w) \notin BarTops, UNCHANGED barVars, NEW p,
           Pop(w) \/ Go(w, p) \/ Push(w, p), TopOf(st'[w]) \notin BarTops
    PROVE  Silent(w)
BY Moves DEF Silent, Alone, IInv, Top, TopOf

LEMMA AwaitPhase ==
    ASSUME IInv, PhaseInv, NEW w \in Id, AwaitFrame(w)
    PROVE  PhaseInv' /\ Silent(w)
PROOF
<1>1. Top(w) = "await" /\ newframe # NoFrame /\ Pop(w) /\ UNCHANGED <<barVars, newframe, done>>
  BY DEF AwaitFrame, At, frameVars
<1>2. Top(w) \in Names \ Plain
  BY <1>1, BarNames
<1>3. st[w] # <<>> /\ Top(w) = TopOf(st[w]) /\ wait \in Int /\ Away(w)
  BY <1>1, <1>2, FramePlaces
<1>4. PICK c \in Id : Busy(c, 0) /\ w # c
  BY <1>1, <1>2, FramePlaces DEF Calm
<1>5. PICK b \in Base : Tail(st[w]) = On("copy", b)
  BY <1>1, <1>3, OutTop DEF Away
<1>6. st'[w] = On("copy", b) /\ Alone(w)
  BY <1>1, <1>3, <1>5, Moves DEF Alone, IInv
<1>7. newframe = "steal"
  BY <1>1, <1>4, BusyFrame
<1>8. Joins(w, 0)'
  BY <1>1, <1>6, <1>7 DEF Joins, Join
<1>9. Busy(c, 0)'
  BY <1>1, <1>4, <1>6, <1>8, JoinMove DEF Same, barVars
<1>10. TopOf(st'[w]) = "copy"
  BY <1>6, TopOn, BarNames DEF Base
<1>11. TopOf(st'[w]) \notin BarTops /\ Top(w) \notin BarTops
  BY <1>1, <1>10 DEF BarTops
<1>12. Silent(w)
  BY <1>1, <1>3, <1>11, SilentMove
<1> QED BY <1>9, <1>12 DEF PhaseInv

LEMMA GcLockPhase ==
    ASSUME IInv, IInv', PhaseInv, NEW w \in Id, GcLock(w)
    PROVE  PhaseInv' /\ Silent(w)
PROOF
<1>1. /\ Top(w) = "glock" /\ Pop(w) /\ UNCHANGED <<barVars, newframe, done, app>>
      /\ spawn_exit_lock = 0 /\ spawn_exit_lock' = 1
  BY DEF GcLock, At, frameVars, appVars
<1>2. Top(w) \in Names \ Plain
  BY <1>1, BarNames
<1>3. st[w] # <<>> /\ Top(w) = TopOf(st[w]) /\ wait \in Int /\ Away(w)
  BY <1>1, <1>2, FramePlaces
<1>4. Calm
  <2>1. ASSUME NEW c \in Id, Busy(c, 0) PROVE FALSE
    <3>1. c \in Holders
      BY <2>1 DEF Busy, Leads, Holders
    <3> QED BY <1>1, <3>1 DEF IInv, LockInv
  <2> QED BY <1>1, <1>2, <2>1, FramePlaces
<1>5. PICK b \in Base : Tail(st[w]) = L0(b)
  BY <1>1, <1>3, OutTop DEF Away
<1>6. st'[w] = L0(b) /\ Alone(w)
  BY <1>1, <1>3, <1>5, Moves DEF Alone, IInv
<1>7. done = 0
  BY <1>1, <1>3, OutTop DEF Away
<1>8. Holds(w)'
  BY <1>1, <1>6, Keeper
<1>9. Leads(w, 0)'
  <2>1. newframe' = NoFrame
    BY <1>1, <1>4 DEF Calm
  <2>2. Lead(st'[w], wait', newframe', 0, b)
    BY <1>6, <2>1 DEF Lead
  <2> QED BY <1>1, <1>7, <1>8, <2>2 DEF Leads
<1>10. ASSUME NEW v \in Id \ {w} PROVE Joins(v, 0)'
  BY <1>1, <1>4, <1>6 DEF Alone, Joins, Away, Calm, barVars
<1>11. TopOf(st'[w]) = "set_steal"
  BY <1>6, ShapeTops DEF Base
<1>12. TopOf(st'[w]) \notin BarTops /\ Top(w) \notin BarTops
  BY <1>1, <1>11 DEF BarTops
<1>13. Silent(w)
  BY <1>1, <1>3, <1>12, SilentMove
<1> QED BY <1>9, <1>10, <1>13 DEF PhaseInv, Busy

(* The collecting worker goes on, and keeps the lock. *)
LEMMA LeadStep ==
    ASSUME IInv, IInv', NEW w \in Id, NEW g \in 0 .. 5, Busy(w, g), Alone(w),
           wait' = wait, UNCHANGED <<app, spawn_exit_lock>>, g < 5 => done' = 0,
           newframe' = newframe \/ newframe = NoFrame \/ g \in {1, 3},
           NEW b \in Base, Lead(st'[w], wait, newframe', g, b)
    PROVE  PhaseInv'
PROOF
<1>1. Holds(w)
  BY DEF Busy, Leads
<1>2. spawn_exit_lock' = 1
  <2>1. w \in Holders
    BY <1>1 DEF Holders
  <2> QED BY <2>1 DEF IInv, LockInv, TypeInv
<1>3. Holds(w)'
  BY <1>1, <1>2, Keeper
<1>4. Busy(w, g)'
  BY <1>3, LeadMove
<1> QED BY <1>4 DEF PhaseInv

LEMMA WaitsRead ==
    ASSUME NEW s, NEW u, NEW y, s = On("read", y)
    PROVE  Waits(s, u, y)
BY DEF Waits

LEMMA SetPhase ==
    ASSUME IInv, IInv', PhaseInv, NEW w \in Id, SetFrame(w)
    PROVE  PhaseInv' /\ Silent(w)
PROOF
<1>1. Top(w) \in {"set_steal", "set_together"}
  BY DEF SetFrame, At
<1>2. Top(w) \in Names \ Plain
  BY <1>1, BarNames
<1>3. /\ st[w] # <<>> /\ Top(w) = TopOf(st[w]) /\ wait \in Int
      /\ \E g \in 0 .. 5 : \E b \in Base : Busy(w, g) /\ Lead(st[w], wait, newframe, g, b)
  BY <1>1, <1>2, FramePlaces
<1>4. PICK g \in 0 .. 5 : \E b \in Base : Busy(w, g) /\ Lead(st[w], wait, newframe, g, b)
  BY <1>3
<1>5. PICK b \in Base : Busy(w, g) /\ Lead(st[w], wait, newframe, g, b)
  BY <1>4
<1>6. /\ newframe = NoFrame
      /\ \/ Top(w) = "set_steal" /\ g = 0 /\ Tail(st[w]) = On("read", L1(b))
         \/ Top(w) = "set_together" /\ g = 2 /\ Tail(st[w]) = On("read", L3(b))
  <2>1. TopOf(st[w]) \in {"set_steal", "set_together"} /\ wait \in Int
    BY <1>1, <1>3
  <2>2. Lead(st[w], wait, newframe, g, b)
    BY <1>5
  <2>3. LeadTops(st[w], wait, newframe, g, b)
    BY <2>1, <2>2, LeadTop
  <2> QED BY <1>3, <2>1, <2>3 DEF LeadTops
<1>7. /\ newframe' = IF Top(w) = "set_steal" THEN "steal" ELSE "together"
      /\ Pop(w) /\ UNCHANGED <<barVars, app, spawn_exit_lock, done>>
  BY <1>6 DEF SetFrame, YIELD_NEWFRAME, appVars
<1>8. st'[w] = Tail(st[w]) /\ Alone(w)
  BY <1>3, <1>7, Moves DEF Alone, IInv
<1>9. Lead(st'[w], wait, newframe', g, b)
  <2>1. CASE Top(w) = "set_steal"
    <3>1. g = 0 /\ g + 1 = 1 /\ newframe' = Now(g) /\ st'[w] = On("read", L1(b))
      BY <1>6, <1>7, <1>8, <2>1, Afters
    <3>2. Waits(st'[w], wait, LA(g + 1, b))
      BY <3>1, Afters, WaitsRead
    <3> QED BY <3>1, <3>2 DEF Lead
  <2>2. CASE Top(w) = "set_together"
    <3>1. g = 2 /\ g + 1 = 3 /\ newframe' = Now(g) /\ st'[w] = On("read", L3(b))
      BY <1>6, <1>7, <1>8, <2>2, Afters
    <3>2. Waits(st'[w], wait, LA(g + 1, b))
      BY <3>1, Afters, WaitsRead
    <3> QED BY <3>1, <3>2 DEF Lead
  <2> QED BY <1>1, <2>1, <2>2
<1>10. done = 0
  BY <1>5, <1>6 DEF Busy, Leads
<1>11. PhaseInv'
  BY <1>5, <1>6, <1>7, <1>8, <1>9, <1>10, LeadStep DEF barVars
<1>12. TopOf(st'[w]) = "read"
  BY <1>6, <1>8, TopOn, ShapeTypes, BarNames, ZenonT(60) DEF Base
<1>13. TopOf(st'[w]) \notin BarTops /\ Top(w) \notin BarTops
  BY <1>1, <1>12 DEF BarTops
<1>14. Silent(w)
  BY <1>3, <1>7, <1>13, SilentMove
<1> QED BY <1>11, <1>14

LEMMA ClearPhase ==
    ASSUME IInv, IInv', PhaseInv, NEW w \in Id, ClearFrame(w)
    PROVE  PhaseInv' /\ Silent(w)
PROOF
<1>1. /\ Top(w) = "clear" /\ newframe' = NoFrame /\ Pop(w)
      /\ UNCHANGED <<barVars, app, spawn_exit_lock, done>>
  BY DEF ClearFrame, At, appVars
<1>2. Top(w) \in Names \ Plain
  BY <1>1, BarNames
<1>3. /\ st[w] # <<>> /\ Top(w) = TopOf(st[w]) /\ wait \in Int
      /\ \E g \in 0 .. 5 : \E b \in Base : Busy(w, g) /\ Lead(st[w], wait, newframe, g, b)
  BY <1>1, <1>2, FramePlaces
<1>4. PICK g \in 0 .. 5 : \E b \in Base : Busy(w, g) /\ Lead(st[w], wait, newframe, g, b)
  BY <1>3
<1>5. PICK b \in Base : Busy(w, g) /\ Lead(st[w], wait, newframe, g, b)
  BY <1>4
<1>6. g \in {1, 3} /\ Tail(st[w]) = On("read", LA(g + 1, b))
  <2>1. TopOf(st[w]) = "clear" /\ wait \in Int
    BY <1>1, <1>3
  <2>2. Lead(st[w], wait, newframe, g, b)
    BY <1>5
  <2>3. LeadTops(st[w], wait, newframe, g, b)
    BY <2>1, <2>2, LeadTop
  <2> QED BY <2>1, <2>3 DEF LeadTops
<1>7. st'[w] = On("read", LA(g + 1, b)) /\ Alone(w)
  BY <1>1, <1>3, <1>6, Moves DEF Alone, IInv
<1>8. Now(g) = NoFrame
  BY <1>6, Afters
<1>9. Lead(st'[w], wait, newframe', g, b)
  BY <1>1, <1>7, <1>8, WaitsRead DEF Lead
<1>10. done = 0
  BY <1>5, <1>6 DEF Busy, Leads
<1>11. PhaseInv'
  BY <1>1, <1>5, <1>6, <1>7, <1>9, <1>10, LeadStep DEF barVars
<1>12. TopOf(st'[w]) = "read"
  <2>1. g + 1 \in 1 .. 6 /\ b \in Seq(Step)
    BY DEF Base
  <2>2. LA(g + 1, b) \in Seq(Step)
    BY <2>1, AfterTypes
  <2> QED BY <1>7, <2>2, TopOn, BarNames
<1>13. TopOf(st'[w]) \notin BarTops /\ Top(w) \notin BarTops
  BY <1>1, <1>12 DEF BarTops
<1>14. Silent(w)
  BY <1>1, <1>3, <1>13, SilentMove
<1> QED BY <1>11, <1>14

LEMMA CollectPhase ==
    ASSUME IInv, IInv', PhaseInv, NEW w \in Id, Collect(w)
    PROVE  PhaseInv' /\ Silent(w)
PROOF
<1>1. /\ Top(w) = "collect" /\ Go(w, lace_wrap_together)
      /\ UNCHANGED <<barVars, app, spawn_exit_lock, done, newframe>>
  BY DEF Collect, At, appVars
<1>2. Top(w) \in Names \ Plain
  BY <1>1, BarNames
<1>3. /\ st[w] # <<>> /\ Top(w) = TopOf(st[w]) /\ wait \in Int
      /\ \E g \in 0 .. 5 : \E b \in Base : Busy(w, g) /\ Lead(st[w], wait, newframe, g, b)
  BY <1>1, <1>2, FramePlaces
<1>4. PICK g \in 0 .. 5 : \E b \in Base : Busy(w, g) /\ Lead(st[w], wait, newframe, g, b)
  BY <1>3
<1>5. PICK b \in Base : Busy(w, g) /\ Lead(st[w], wait, newframe, g, b)
  BY <1>4
<1>6. g = 2 /\ newframe = NoFrame /\ st[w] = L2(b)
  <2>1. LeadTops(st[w], wait, newframe, g, b)
    BY <1>3, <1>5, LeadTop
  <2> QED BY <1>1, <1>3, <2>1 DEF LeadTops
<1>7. b \in Seq(Step) /\ On("read", L3(b)) \in Seq(Step)
  BY ShapeTypes, TopOn, BarNames DEF Base
<1>8. Tail(st[w]) = L5(b)
  BY <1>6, <1>7, ShapeTops
<1>9. st'[w] = On("set_together", On("read", L3(b))) /\ Alone(w)
  <2>1. st'[w] = Steps(lace_wrap_together) \o L5(b) /\ Alone(w)
    BY <1>1, <1>3, <1>8, Moves DEF Alone, IInv
  <2> QED BY <1>7, <2>1, Programs
<1>10. Lead(st'[w], wait, newframe', g, b)
  BY <1>1, <1>6, <1>9 DEF Lead
<1>11. done = 0
  BY <1>5, <1>6 DEF Busy, Leads
<1>12. PhaseInv'
  BY <1>1, <1>5, <1>6, <1>9, <1>10, <1>11, LeadStep DEF barVars
<1>13. TopOf(st'[w]) = "set_together"
  BY <1>7, <1>9, TopOn, BarNames
<1>14. TopOf(st'[w]) \notin BarTops /\ Top(w) \notin BarTops
  BY <1>1, <1>13 DEF BarTops
<1>15. Silent(w)
  BY <1>1, <1>3, <1>14, SilentMove
<1> QED BY <1>12, <1>15

LEMMA DonePhase ==
    ASSUME IInv, IInv', PhaseInv, NEW w \in Id, Done(w)
    PROVE  PhaseInv' /\ Silent(w)
PROOF
<1>1. /\ Top(w) = "done" /\ Pop(w) /\ UNCHANGED <<barVars, app, spawn_exit_lock, newframe>>
  BY DEF Done, At, appVars
<1>2. Top(w) \in Names \ Plain
  BY <1>1, BarNames
<1>3. /\ st[w] # <<>> /\ Top(w) = TopOf(st[w]) /\ wait \in Int
      /\ \E g \in 0 .. 5 : \E b \in Base : Busy(w, g) /\ Lead(st[w], wait, newframe, g, b)
  BY <1>1, <1>2, FramePlaces
<1>4. PICK g \in 0 .. 5 : \E b \in Base : Busy(w, g) /\ Lead(st[w], wait, newframe, g, b)
  BY <1>3
<1>5. PICK b \in Base : Busy(w, g) /\ Lead(st[w], wait, newframe, g, b)
  BY <1>4
<1>6. g = 5 /\ newframe = NoFrame /\ st[w] = L5(b)
  <2>1. LeadTops(st[w], wait, newframe, g, b)
    BY <1>3, <1>5, LeadTop
  <2> QED BY <1>1, <1>3, <2>1 DEF LeadTops
<1>7. b \in Seq(Step) /\ L6(b) \in Seq(Step)
  BY ShapeTypes DEF Base
<1>8. Tail(st[w]) = On("read", L6(b))
  BY <1>6, <1>7, ShapeTops
<1>9. st'[w] = On("read", L6(b)) /\ Alone(w)
  BY <1>1, <1>3, <1>8, Moves DEF Alone, IInv
<1>10. Lead(st'[w], wait, newframe', g, b)
  <2>1. g + 1 = 6
    BY <1>6
  <2>2. Waits(st'[w], wait, LA(g + 1, b))
    BY <1>9, <2>1, Afters, WaitsRead
  <2> QED BY <1>1, <1>6, <2>2, Afters DEF Lead
<1>11. PhaseInv'
  BY <1>1, <1>5, <1>6, <1>9, <1>10, LeadStep DEF barVars
<1>12. TopOf(st'[w]) = "read"
  BY <1>7, <1>9, TopOn, BarNames
<1>13. TopOf(st'[w]) \notin BarTops /\ Top(w) \notin BarTops
  BY <1>1, <1>12 DEF BarTops
<1>14. Silent(w)
  BY <1>1, <1>3, <1>13, SilentMove
<1> QED BY <1>11, <1>14

(* A worker that joins goes on. *)
LEMMA JoinStep ==
    ASSUME NEW w \in Id, NEW c \in Id, NEW g \in 0 .. 5, Busy(c, g), w # c, Alone(w),
           Same, NEW b \in Base, Join(st'[w], wait, newframe, g, b)
    PROVE  PhaseInv'
PROOF
<1>1. Joins(w, g)'
  BY DEF Joins, Same
<1>2. Busy(c, g)'
  BY <1>1, JoinMove
<1> QED BY <1>2 DEF PhaseInv

LEMMA YieldPhase ==
    ASSUME IInv, PhaseInv, NEW w \in Id, lace_yield(w)
    PROVE  PhaseInv' /\ Silent(w)
PROOF
<1>1. /\ Top(w) = "copy" /\ newframe # NoFrame /\ Go(w, Yielded(newframe))
      /\ UNCHANGED <<barVars, newframe, done>>
  BY DEF lace_yield, At, frameVars
<1>2. Top(w) \in Names \ Plain
  BY <1>1, BarNames
<1>3. /\ st[w] # <<>> /\ Top(w) = TopOf(st[w]) /\ wait \in Int
      /\ \E c \in Id : \E g \in 0 .. 5 : \E b \in Base :
            Busy(c, g) /\ w # c /\ Join(st[w], wait, newframe, g, b)
  BY <1>1, <1>2, FramePlaces
<1>4. PICK c \in Id, g \in 0 .. 5, b \in Base : Busy(c, g) /\ w # c /\ Join(st[w], wait, newframe, g, b)
  BY <1>3
<1>5. \/ g = 0 /\ newframe = "steal" /\ Tail(st[w]) = b
      \/ g = 2 /\ newframe = "together" /\ Tail(st[w]) = F5(b)
  <2>1. TopOf(st[w]) = "copy" /\ wait \in Int
    BY <1>1, <1>3
  <2>2. Join(st[w], wait, newframe, g, b)
    BY <1>4
  <2>3. JoinTops(st[w], wait, newframe, g, b)
    BY <2>1, <2>2, JoinTop
  <2> QED BY <2>1, <2>3 DEF JoinTops
<1>6. b \in Seq(Step) /\ F1(b) \in Seq(Step) /\ F3(b) \in Seq(Step)
  BY ShapeTypes DEF Base
<1>7. /\ st'[w] = Steps(Yielded(newframe)) \o Tail(st[w]) /\ Alone(w)
  BY <1>1, <1>3, Moves DEF Alone, IInv
<1>8. \/ g = 0 /\ st'[w] = On("read", F1(b))
      \/ g = 2 /\ st'[w] = On("read", F3(b))
  BY <1>5, <1>6, <1>7, Programs
<1>9. Join(st'[w], wait, newframe, g, b)
  <2>1. CASE g = 0
    BY <1>8, <2>1, Afters, WaitsRead DEF Join
  <2>2. CASE g = 2
    BY <1>8, <2>2, Afters, WaitsRead DEF Join
  <2> QED BY <1>8, <2>1, <2>2
<1>10. PhaseInv'
  BY <1>1, <1>4, <1>7, <1>9, JoinStep DEF Same, barVars
<1>11. TopOf(st'[w]) = "read"
  BY <1>6, <1>8, TopOn, BarNames
<1>12. TopOf(st'[w]) \notin BarTops /\ Top(w) \notin BarTops
  BY <1>1, <1>11 DEF BarTops
<1>13. Silent(w)
  BY <1>1, <1>3, <1>12, SilentMove
<1> QED BY <1>10, <1>13

LEMMA StealPhase ==
    ASSUME IInv, PhaseInv, NEW w \in Id, lace_steal_loop_in(w)
    PROVE  PhaseInv' /\ Silent(w)
PROOF
<1>1. /\ Top(w) = "steal" /\ UNCHANGED <<barVars, newframe, done>>
      /\ \/ done # 0 /\ Pop(w)
         \/ done = 0 /\ newframe # NoFrame /\ Push(w, <<"copy">>)
  BY DEF lace_steal_loop_in, YIELD_NEWFRAME, At, frameVars
<1>2. Top(w) \in Names \ Plain
  BY <1>1, BarNames
<1>3. /\ st[w] # <<>> /\ Top(w) = TopOf(st[w]) /\ wait \in Int
      /\ \E c \in Id : \E g \in 0 .. 5 : \E b \in Base :
            Busy(c, g) /\ w # c /\ Join(st[w], wait, newframe, g, b)
  BY <1>1, <1>2, FramePlaces
<1>4. PICK c \in Id, g \in 0 .. 5, b \in Base : Busy(c, g) /\ w # c /\ Join(st[w], wait, newframe, g, b)
  BY <1>3
<1>5. g \in {2, 5} /\ st[w] = F5(b)
  <2>1. TopOf(st[w]) = "steal" /\ wait \in Int
    BY <1>1, <1>3
  <2>2. Join(st[w], wait, newframe, g, b)
    BY <1>4
  <2>3. JoinTops(st[w], wait, newframe, g, b)
    BY <2>1, <2>2, JoinTop
  <2> QED BY <2>1, <2>3 DEF JoinTops
<1>6. b \in Seq(Step) /\ F5(b) \in Seq(Step) /\ Tail(F5(b)) = On("read", b)
  BY ShapeTypes, ShapeTops DEF Base
<1>7. Alone(w)
  BY <1>1, <1>3, Moves DEF Alone, IInv
<1>8. /\ Join(st'[w], wait, newframe, g, b)
      /\ TopOf(st'[w]) \in {"read", "copy"}
  <2>1. CASE done # 0
    <3>1. g = 5
      BY <1>4, <1>5, <2>1 DEF Busy, Leads
    <3>2. st'[w] = On("read", b)
      BY <1>1, <1>3, <1>5, <1>6, <2>1, Moves DEF IInv
    <3>3. g + 1 = 6
      BY <3>1
    <3>4. Waits(st'[w], wait, FA(g + 1, b))
      BY <3>2, <3>3, Afters, WaitsRead
    <3> QED BY <1>6, <3>2, <3>4, TopOn, BarNames DEF Join
  <2>2. CASE done = 0
    <3>1. newframe # NoFrame
      BY <1>1, <2>2
    <3>2. g = 2 /\ newframe = "together"
      BY <1>4, <1>5, <3>1, BusyFrame
    <3>3. st'[w] = On("copy", F5(b))
      BY <1>1, <1>3, <1>5, <2>2, Moves DEF IInv
    <3> QED BY <1>6, <3>2, <3>3, TopOn, BarNames DEF Join
  <2> QED BY <2>1, <2>2
<1>9. PhaseInv'
  BY <1>1, <1>4, <1>7, <1>8, JoinStep DEF Same, barVars
<1>10. TopOf(st'[w]) \notin BarTops /\ Top(w) \notin BarTops
  BY <1>1, <1>8 DEF BarTops
<1>11. Silent(w)
  BY <1>1, <1>3, <1>10, SilentMove
<1> QED BY <1>9, <1>11

LEMMA MarkPhase ==
    ASSUME IInv, IInv', PhaseInv, NEW w \in Id, Mark(w) \/ Help(w)
    PROVE  PhaseInv' /\ Silent(w)
PROOF
<1>1. /\ Top(w) \in {"mark", "help"} /\ UNCHANGED <<barVars, newframe, done, app, spawn_exit_lock>>
      /\ \/ Pop(w)
         \/ Top(w) = "help" /\ newframe # NoFrame /\ Push(w, <<"copy">>)
  <2>1. CASE Mark(w)
    BY <2>1 DEF Mark, At, appVars
  <2>2. CASE Help(w)
    BY <2>2 DEF Help, YIELD_NEWFRAME, At, frameVars, appVars
  <2> QED BY <2>1, <2>2
<1>2. Top(w) \in Names \ Plain
  BY <1>1, BarNames
<1>3. /\ st[w] # <<>> /\ Top(w) = TopOf(st[w]) /\ wait \in Int
      /\ \/ \E g \in 0 .. 5 : \E b \in Base : Busy(w, g) /\ Lead(st[w], wait, newframe, g, b)
         \/ \E c \in Id : \E g \in 0 .. 5 : \E b \in Base :
               Busy(c, g) /\ w # c /\ Join(st[w], wait, newframe, g, b)
  BY <1>1, <1>2, FramePlaces
<1>4. ASSUME NEW c \in Id, Busy(c, 4) PROVE Pop(w)
  BY <1>1, <1>4, BusyFrame
<1>5. ASSUME Pop(w) PROVE Alone(w) /\ st'[w] = Tail(st[w])
  BY <1>3, <1>5, Moves DEF Alone, IInv
<1>6. ASSUME NEW g \in 0 .. 5, NEW b \in Base, Busy(w, g), Lead(st[w], wait, newframe, g, b)
      PROVE  PhaseInv' /\ Silent(w)
  <2>1. /\ g = 4 /\ newframe = NoFrame
        /\ \/ Top(w) = "mark" /\ st[w] = L4(b)
           \/ Top(w) = "help" /\ Tail(st[w]) = On("read", L5(b))
    <3>1. TopOf(st[w]) \in {"mark", "help"} /\ wait \in Int
      BY <1>1, <1>3
    <3>2. LeadTops(st[w], wait, newframe, g, b)
      BY <1>6, <3>1, LeadTop
    <3> QED BY <1>3, <3>1, <3>2 DEF LeadTops
  <2>2. b \in Seq(Step) /\ L5(b) \in Seq(Step) /\ On("read", L5(b)) \in Seq(Step)
    BY ShapeTypes, TopOn, BarNames DEF Base
  <2>3. Pop(w) /\ Alone(w) /\ st'[w] = Tail(st[w])
    BY <1>4, <1>5, <1>6, <2>1
  <2>4. \/ st'[w] = On("help", On("read", L5(b)))
        \/ st'[w] = On("read", L5(b))
    BY <2>1, <2>2, <2>3, ShapeTops
  <2>5. Lead(st'[w], wait, newframe, g, b)
    <3>1. CASE st'[w] = On("help", On("read", L5(b)))
      BY <2>1, <3>1 DEF Lead
    <3>2. CASE st'[w] = On("read", L5(b))
      <4>1. g + 1 = 5
        BY <2>1
      <4>2. Waits(st'[w], wait, LA(g + 1, b))
        BY <3>2, <4>1, Afters, WaitsRead
      <4> QED BY <2>1, <4>2, Afters DEF Lead
    <3> QED BY <2>4, <3>1, <3>2
  <2>6. done = 0
    BY <1>6, <2>1 DEF Busy, Leads
  <2>7. PhaseInv'
    BY <1>1, <1>6, <2>3, <2>5, <2>6, LeadStep DEF barVars
  <2>8. TopOf(st'[w]) \in {"help", "read"}
    BY <2>2, <2>4, TopOn, BarNames
  <2>9. TopOf(st'[w]) \notin BarTops /\ Top(w) \notin BarTops
    BY <1>1, <2>8 DEF BarTops
  <2> QED BY <1>1, <1>3, <2>3, <2>7, <2>9, SilentMove
<1>7. ASSUME NEW c \in Id, NEW g \in 0 .. 5, NEW b \in Base, Busy(c, g), w # c,
             Join(st[w], wait, newframe, g, b)
      PROVE  PhaseInv' /\ Silent(w)
  <2>1. /\ g = 4
        /\ \/ Top(w) = "mark" /\ st[w] = F4(b)
           \/ Top(w) = "help" /\ Tail(st[w]) = On("read", F5(b))
    <3>1. TopOf(st[w]) \in {"mark", "help"} /\ wait \in Int
      BY <1>1, <1>3
    <3>2. JoinTops(st[w], wait, newframe, g, b)
      BY <1>7, <3>1, JoinTop
    <3> QED BY <1>3, <3>1, <3>2 DEF JoinTops
  <2>2. b \in Seq(Step) /\ F5(b) \in Seq(Step) /\ On("read", F5(b)) \in Seq(Step)
    BY ShapeTypes, TopOn, BarNames DEF Base
  <2>3. Pop(w) /\ Alone(w) /\ st'[w] = Tail(st[w])
    BY <1>4, <1>5, <1>7, <2>1
  <2>4. \/ st'[w] = On("help", On("read", F5(b)))
        \/ st'[w] = On("read", F5(b))
    BY <2>1, <2>2, <2>3, ShapeTops
  <2>5. Join(st'[w], wait, newframe, g, b)
    <3>1. CASE st'[w] = On("help", On("read", F5(b)))
      BY <2>1, <3>1 DEF Join
    <3>2. CASE st'[w] = On("read", F5(b))
      <4>1. g + 1 = 5
        BY <2>1
      <4>2. Waits(st'[w], wait, FA(g + 1, b))
        BY <3>2, <4>1, Afters, WaitsRead
      <4> QED BY <4>2 DEF Join
    <3> QED BY <2>4, <3>1, <3>2
  <2>6. PhaseInv'
    BY <1>1, <1>7, <2>3, <2>5, JoinStep DEF Same, barVars
  <2>7. TopOf(st'[w]) \in {"help", "read"}
    BY <2>2, <2>4, TopOn, BarNames
  <2>8. TopOf(st'[w]) \notin BarTops /\ Top(w) \notin BarTops
    BY <1>1, <2>7 DEF BarTops
  <2> QED BY <1>1, <1>3, <2>3, <2>6, <2>8, SilentMove
<1> QED BY <1>3, <1>6, <1>7

-----------------------------------------------------------------------------
(* The steps of the barrier.                                               *)
LEMMA LastTwo ==
    ASSUME NEW v \in Int
    PROVE  [i \in 1 .. 2 |-> <<Last[i], v>>] \o <<S("leave")>> = <<<<"reset", v>>, <<"flip", v>>, S("leave")>>
PROOF
<1>1. [i \in 1 .. 2 |-> <<Last[i], v>>] = <<<<"reset", v>>, <<"flip", v>>>>
  BY DEF Last
<1>2. ASSUME NEW a \in Step, NEW b \in Step, NEW c \in Step PROVE <<a, b>> \o <<c>> = <<a, b, c>>
  <2> DEFINE q == <<a, b>>
             r == <<c>>
             t == <<a, b, c>>
  <2>1. /\ q \in Seq(Step) /\ r \in Seq(Step) /\ t \in Seq(Step)
        /\ Len(q) = 2 /\ Len(r) = 1 /\ Len(t) = 3
        /\ q[1] = t[1] /\ q[2] = t[2] /\ r[1] = t[3]
    OBVIOUS
  <2> HIDE DEF q, r, t
  <2>2. q \o r \in Seq(Step) /\ Len(q \o r) = Len(t)
    <3>1. q \o r \in Seq(Step) /\ Len(q \o r) = Len(q) + Len(r)
      BY <2>1, ConcatProperties
    <3> QED BY <2>1, <3>1
  <2>3. \A i \in 1 .. Len(q \o r) : (q \o r)[i] = t[i]
    <3>1. Len(q) + Len(r) = 3
      BY <2>1
    <3>2. \A i \in 1 .. Len(q) + Len(r) : (q \o r)[i] = IF i <= Len(q) THEN q[i] ELSE r[i - Len(q)]
      BY <2>1, ConcatProperties
    <3>3. /\ 1 \in 1 .. Len(q) + Len(r) /\ 2 \in 1 .. Len(q) + Len(r) /\ 3 \in 1 .. Len(q) + Len(r)
          /\ 1 <= Len(q) /\ 2 <= Len(q) /\ ~(3 <= Len(q)) /\ 3 - Len(q) = 1
      BY <2>1
    <3>4. /\ (q \o r)[1] = q[1] /\ (q \o r)[2] = q[2] /\ (q \o r)[3] = r[3 - Len(q)]
      BY <3>2, <3>3, Zenon
    <3>5. \A i \in 1 .. 3 : i = 1 \/ i = 2 \/ i = 3
      OBVIOUS
    <3>6. (q \o r)[1] = t[1] /\ (q \o r)[2] = t[2] /\ (q \o r)[3] = t[3]
      BY <2>1, <3>3, <3>4, Zenon
    <3> QED BY <2>1, <2>2, <3>5, <3>6
  <2>4. q \o r = t
    BY <2>1, <2>2, <2>3, SeqEqual
  <2> QED BY <2>4 DEF q, r, t
<1>3. <<"reset", v>> \in Step /\ <<"flip", v>> \in Step /\ S("leave") \in Step
  BY NameSteps, BarNames
<1>4. <<<<"reset", v>>, <<"flip", v>>>> \o <<S("leave")>> = <<<<"reset", v>>, <<"flip", v>>, S("leave")>>
  BY <1>2, <1>3
<1> QED BY <1>1, <1>4, Zenon

LEMMA BarWaits ==
    ASSUME IInv, NEW w \in Id, BarRead(w) \/ BarAdd(w) \/ BarReset(w),
           NEW y \in Seq(Step), Waits(st[w], wait, y)
    PROVE  Waits(st'[w], wait, y) /\ Alone(w)
PROOF
<1>1. wait \in Int /\ TypeInv
  BY WaitInt DEF IInv
<1>2. st[w] # <<>> /\ Top(w) = TopOf(st[w])
  <2>1. st[w] # <<>>
    BY <1>1, WaitsTop
  <2> QED BY <2>1 DEF Top, TopOf
<1>3. S("leave") = <<"leave", 0>> /\ S("leave") \in Step
  BY NameSteps, BarNames DEF S
<1>4. CASE BarRead(w)
  <2>1. Bar(w, <<<<"add", wait>>>>) /\ TopOf(st[w]) = "read"
    BY <1>2, <1>4 DEF BarRead, At
  <2>2. st'[w] = <<<<"add", wait>>>> \o y
    <3>1. Tail(st[w]) = y
      BY <1>1, <2>1, WaitsTop
    <3>2. \A p : Bar(w, p) => st'[w] = p \o y
      BY <1>1, <1>2, <3>1, Moves
    <3> QED BY <2>1, <3>2
  <2>3. st'[w] = Cons(<<"add", wait>>, y)
    BY <2>2 DEF Cons
  <2>4. Alone(w)
    BY <1>1, <1>2, <2>1, Moves DEF Alone
  <2> QED BY <2>3, <2>4 DEF Waits
<1>5. CASE BarAdd(w)
  <2>1. TopOf(st[w]) = "add"
    BY <1>2, <1>5 DEF BarAdd, At
  <2>2. Local(w) = wait /\ Tail(st[w]) = y
    BY <1>1, <2>1, WaitsTop DEF Local
  <2>3. PICK p : /\ Bar(w, p)
                 /\ \/ p = <<<<"reset", wait>>, <<"flip", wait>>, S("leave")>>
                    \/ p = <<<<"spin", wait>>, S("leave")>>
    <3>1. CASE count' = alive
      BY <1>1, <1>5, <2>2, <3>1, LastTwo DEF BarAdd
    <3>2. CASE count' # alive
      BY <1>5, <2>2, <3>2 DEF BarAdd
    <3> QED BY <3>1, <3>2
  <2>4. st'[w] = p \o y /\ Alone(w)
    BY <1>1, <1>2, <2>2, <2>3, Moves DEF Alone
  <2>5. <<"reset", wait>> \in Step /\ <<"flip", wait>> \in Step /\ <<"spin", wait>> \in Step
    BY <1>1, TopCons, BarNames
  <2>6. \/ st'[w] = Cons(<<"reset", wait>>, Cons(<<"flip", wait>>, Cons(S("leave"), y)))
        \/ st'[w] = Cons(<<"spin", wait>>, Cons(S("leave"), y))
    <3>1. <<<<"reset", wait>>, <<"flip", wait>>, S("leave")>> \o y
             = Cons(<<"reset", wait>>, Cons(<<"flip", wait>>, Cons(S("leave"), y)))
      <4> DEFINE a == <<"reset", wait>>
                 d == <<"flip", wait>>
                 e == S("leave")
      <4>1. a \in Step /\ d \in Step /\ e \in Step
        BY <1>3, <2>5
      <4> HIDE DEF a, d, e
      <4>2. <<a, d, e>> \o y = Cons(a, Cons(d, Cons(e, y)))
        BY <4>1, JoinCons, ZenonT(60)
      <4> QED BY <4>2 DEF a, d, e
    <3>2. <<<<"spin", wait>>, S("leave")>> \o y = Cons(<<"spin", wait>>, Cons(S("leave"), y))
      BY <1>3, <2>5, JoinCons, ZenonT(60)
    <3>3. CASE p = <<<<"reset", wait>>, <<"flip", wait>>, S("leave")>>
      BY <2>4, <3>1, <3>3, Zenon
    <3>4. CASE p = <<<<"spin", wait>>, S("leave")>>
      BY <2>4, <3>2, <3>4, Zenon
    <3> QED BY <2>3, <3>3, <3>4
  <2> QED BY <2>4, <2>6 DEF Waits, On
<1>6. CASE BarReset(w)
  <2>1. TopOf(st[w]) = "reset" /\ Pop(w)
    BY <1>2, <1>6 DEF BarReset, At
  <2>2. st'[w] = Tail(st[w]) /\ Alone(w)
    BY <1>1, <1>2, <2>1, Moves DEF Alone
  <2>3. Tail(st[w]) = Cons(<<"flip", wait>>, On("leave", y))
    BY <1>1, <2>1, WaitsTop
  <2> QED BY <2>2, <2>3 DEF Waits
<1> QED BY <1>4, <1>5, <1>6

LEMMA WaitPhase ==
    ASSUME IInv, IInv', PhaseInv, NEW w \in Id, BarRead(w) \/ BarAdd(w) \/ BarReset(w)
    PROVE  PhaseInv' /\ Alone(w)
PROOF
<1>1. Top(w) \in {"read", "add", "reset"} /\ Same /\ UNCHANGED <<app, spawn_exit_lock>>
  BY DEF BarRead, BarAdd, BarReset, At, Same, barVars, frameVars, appVars
<1>2. Top(w) \in Names \ Plain
  BY <1>1, BarNames
<1>3. /\ st[w] # <<>> /\ Top(w) = TopOf(st[w]) /\ wait \in Int
      /\ \/ \E g \in 0 .. 5 : \E b \in Base : Busy(w, g) /\ Lead(st[w], wait, newframe, g, b)
         \/ \E c \in Id : \E g \in 0 .. 5 : \E b \in Base :
               Busy(c, g) /\ w # c /\ Join(st[w], wait, newframe, g, b)
  BY <1>1, <1>2, FramePlaces
<1>4. TopOf(st[w]) \in {"read", "add", "reset"}
  BY <1>1, <1>3
<1>5. ASSUME NEW g \in 0 .. 5, NEW b \in Base, Busy(w, g), Lead(st[w], wait, newframe, g, b)
      PROVE  PhaseInv' /\ Alone(w)
  <2>1. LeadTops(st[w], wait, newframe, g, b)
    BY <1>3, <1>5, LeadTop
  <2>2. Waits(st[w], wait, LA(g + 1, b)) /\ newframe = Now(g)
    BY <1>4, <2>1 DEF LeadTops
  <2>3. LA(g + 1, b) \in Seq(Step)
    <3>1. b \in Seq(Step) /\ g + 1 \in 1 .. 6
      BY DEF Base
    <3> QED BY <3>1, AfterTypes
  <2>4. Waits(st'[w], wait, LA(g + 1, b)) /\ Alone(w)
    BY <2>2, <2>3, BarWaits
  <2>5. Lead(st'[w], wait, newframe', g, b)
    BY <1>1, <2>2, <2>4 DEF Lead, Same
  <2>6. g < 5 => done' = 0
    BY <1>1, <1>5 DEF Busy, Leads, Same
  <2>7. PhaseInv'
    BY <1>1, <1>5, <2>4, <2>5, <2>6, LeadStep DEF Same
  <2> QED BY <2>4, <2>7
<1>6. ASSUME NEW c \in Id, NEW g \in 0 .. 5, NEW b \in Base, Busy(c, g), w # c,
             Join(st[w], wait, newframe, g, b)
      PROVE  PhaseInv' /\ Alone(w)
  <2>1. JoinTops(st[w], wait, newframe, g, b)
    BY <1>3, <1>6, JoinTop
  <2>2. Waits(st[w], wait, FA(g + 1, b))
    BY <1>4, <2>1 DEF JoinTops
  <2>3. FA(g + 1, b) \in Seq(Step)
    <3>1. b \in Seq(Step) /\ g + 1 \in 1 .. 6
      BY DEF Base
    <3> QED BY <3>1, AfterTypes
  <2>4. Waits(st'[w], wait, FA(g + 1, b)) /\ Alone(w)
    BY <2>2, <2>3, BarWaits
  <2>5. Join(st'[w], wait, newframe, g, b)
    BY <2>4 DEF Join
  <2>6. PhaseInv'
    BY <1>1, <1>6, <2>4, <2>5, JoinStep
  <2> QED BY <2>4, <2>6
<1> QED BY <1>3, <1>5, <1>6

(* The worker that spins is released, and leaves. *)
LEMMA SpinLeaves ==
    ASSUME IInv, NEW w \in Id, BarSpin(w), NEW y \in Seq(Step), Leaves(st[w], wait, y)
    PROVE  Leaves(st'[w], wait, y) /\ Alone(w)
PROOF
<1>1. wait \in Int /\ TypeInv /\ Pop(w)
  BY WaitInt DEF IInv, BarSpin
<1>2. st[w] # <<>>
  BY <1>1, LeavesTop
<1>3. TopOf(st[w]) = "spin"
  BY <1>2 DEF BarSpin, At, Top, TopOf
<1>4. Tail(st[w]) = On("leave", y)
  BY <1>1, <1>3, LeavesTop
<1>5. st'[w] = On("leave", y) /\ Alone(w)
  BY <1>1, <1>2, <1>4, Moves DEF Alone
<1> QED BY <1>5 DEF Leaves

LEMMA SpinPlaces ==
    ASSUME IInv, NEW w \in Id, BarSpin(w), NEW y \in Seq(Step), Waits(st[w], wait, y)
    PROVE  FALSE
PROOF
<1>1. wait \in Int /\ TopOf(st[w]) = "spin" /\ Local(w) # wait
  BY WaitInt DEF BarSpin, At, Top, TopOf
<1>2. Head(st[w])[2] = wait
  BY <1>1, WaitsTop
<1> QED BY <1>1, <1>2 DEF Local

LEMMA NextTypes ==
    ASSUME NEW b \in Base, NEW g \in 0 .. 5
    PROVE  /\ b \in Seq(Step) /\ FA(g + 1, b) \in Seq(Step) /\ LA(g + 1, b) \in Seq(Step)
           /\ g > 0 => FA(g, b) \in Seq(Step) /\ LA(g, b) \in Seq(Step)
PROOF
<1>1. b \in Seq(Step) /\ g + 1 \in 1 .. 6 /\ (g > 0 => g \in 1 .. 6)
  BY DEF Base
<1> QED BY <1>1, AfterTypes

LEMMA SpinPhase ==
    ASSUME IInv, IInv', PhaseInv, NEW w \in Id, BarSpin(w)
    PROVE  PhaseInv' /\ Alone(w)
PROOF
<1>1. Top(w) = "spin" /\ Same /\ UNCHANGED <<app, spawn_exit_lock>> /\ wait \in Int
  BY WaitInt DEF BarSpin, At, Same, barVars, frameVars, appVars
<1>2. st[w] # <<>> /\ TopOf(st[w]) = "spin"
  BY <1>1 DEF Top, TopOf
<1>3. ASSUME Away(w) PROVE Away(w)' /\ Alone(w)
  <2>1. PICK b \in Base : Leaves(st[w], wait, b)
    BY <1>1, <1>2, <1>3, OutTop DEF Away
  <2>2. b \in Seq(Step)
    BY DEF Base
  <2>3. Leaves(st'[w], wait, b) /\ Alone(w)
    BY <2>1, <2>2, SpinLeaves
  <2> QED BY <1>1, <2>3 DEF Away, Out, Same
<1>4. ASSUME NEW g \in 0 .. 5, NEW b \in Base, Busy(w, g), Lead(st[w], wait, newframe, g, b)
      PROVE  PhaseInv' /\ Alone(w)
  <2>1. LeadTops(st[w], wait, newframe, g, b)
    BY <1>1, <1>4, LeadTop
  <2>2. /\ LA(g + 1, b) \in Seq(Step)
        /\ g > 0 => LA(g, b) \in Seq(Step)
    BY NextTypes
  <2>3. \/ Waits(st[w], wait, LA(g + 1, b))
        \/ g > 0 /\ Leaves(st[w], wait, LA(g, b)) /\ newframe = Now(g - 1)
    BY <1>2, <2>1 DEF LeadTops
  <2>4. g > 0 /\ Leaves(st[w], wait, LA(g, b)) /\ newframe = Now(g - 1)
    BY <2>2, <2>3, SpinPlaces
  <2>5. Leaves(st'[w], wait, LA(g, b)) /\ Alone(w)
    BY <2>2, <2>4, SpinLeaves
  <2>6. Lead(st'[w], wait, newframe', g, b)
    BY <1>1, <2>4, <2>5 DEF Lead, Same
  <2>7. g < 5 => done' = 0
    BY <1>1, <1>4 DEF Busy, Leads, Same
  <2>8. PhaseInv'
    BY <1>1, <1>4, <2>5, <2>6, <2>7, LeadStep DEF Same
  <2> QED BY <2>5, <2>8
<1>5. ASSUME NEW c \in Id, NEW g \in 0 .. 5, NEW b \in Base, Busy(c, g), w # c,
             Join(st[w], wait, newframe, g, b)
      PROVE  PhaseInv' /\ Alone(w)
  <2>1. JoinTops(st[w], wait, newframe, g, b)
    BY <1>1, <1>5, JoinTop
  <2>2. /\ FA(g + 1, b) \in Seq(Step)
        /\ g > 0 => FA(g, b) \in Seq(Step)
    BY NextTypes
  <2>3. \/ Waits(st[w], wait, FA(g + 1, b))
        \/ g > 0 /\ Leaves(st[w], wait, FA(g, b))
    BY <1>2, <2>1 DEF JoinTops
  <2>4. g > 0 /\ Leaves(st[w], wait, FA(g, b))
    BY <2>2, <2>3, SpinPlaces
  <2>5. Leaves(st'[w], wait, FA(g, b)) /\ Alone(w)
    BY <2>2, <2>4, SpinLeaves
  <2>6. Join(st'[w], wait, newframe, g, b)
    BY <2>4, <2>5 DEF Join
  <2>7. PhaseInv'
    BY <1>1, <1>5, <2>5, <2>6, JoinStep
  <2> QED BY <2>5, <2>7
<1>6. CASE Calm
  <2>1. Away(w)' /\ Alone(w)
    BY <1>3, <1>6 DEF Calm
  <2> QED BY <1>1, <1>6, <2>1, CalmMove DEF PhaseInv, Same
<1>7. ASSUME NEW c \in Id, Busy(c, 0), w # c, Away(w)
      PROVE  PhaseInv' /\ Alone(w)
  <2>1. Away(w)' /\ Alone(w)
    BY <1>3, <1>7
  <2>2. Joins(w, 0)'
    BY <2>1 DEF Joins
  <2>3. Busy(c, 0)'
    BY <1>1, <1>7, <2>1, <2>2, JoinMove
  <2> QED BY <2>1, <2>3 DEF PhaseInv
<1> QED BY <1>2, <1>4, <1>5, <1>6, <1>7, Places

LEMMA LeavePhase ==
    ASSUME IInv, IInv', PhaseInv, NEW w \in Id, BarLeave(w)
    PROVE  PhaseInv' /\ Alone(w)
PROOF
<1>1. /\ Top(w) = "leave" /\ Same /\ UNCHANGED <<app, spawn_exit_lock>> /\ wait \in Int
      /\ TypeInv /\ Pop(w)
  BY WaitInt DEF BarLeave, At, Same, barVars, frameVars, appVars, IInv
<1>2. st[w] # <<>> /\ TopOf(st[w]) = "leave"
  BY <1>1 DEF Top, TopOf
<1>3. st'[w] = Tail(st[w]) /\ Alone(w)
  BY <1>1, <1>2, Moves DEF Alone
<1>4. ASSUME NEW y \in Seq(Step), Leaves(st[w], wait, y) PROVE st'[w] = y
  BY <1>1, <1>2, <1>3, <1>4, LeavesTop
<1>5. ASSUME Away(w) PROVE Away(w)'
  <2>1. PICK b \in Base : Leaves(st[w], wait, b)
    BY <1>1, <1>2, <1>5, OutTop DEF Away
  <2>2. b \in Seq(Step) /\ Rest(b)
    BY DEF Base
  <2>3. st'[w] = b
    BY <1>4, <2>1, <2>2
  <2> QED BY <2>2, <2>3 DEF Away, Out
<1>6. ASSUME NEW g \in 0 .. 5, NEW b \in Base, Busy(w, g), Lead(st[w], wait, newframe, g, b)
      PROVE  PhaseInv'
  <2>1. LeadTops(st[w], wait, newframe, g, b)
    BY <1>1, <1>6, LeadTop
  <2>2. g > 0 /\ Leaves(st[w], wait, LA(g, b)) /\ newframe = Now(g - 1)
    BY <1>2, <2>1 DEF LeadTops
  <2>3. LA(g, b) \in Seq(Step)
    BY <2>2, NextTypes
  <2>4. st'[w] = LA(g, b)
    BY <1>4, <2>2, <2>3
  <2>5. Lead(st'[w], wait, newframe', g, b)
    BY <1>1, <2>2, <2>4 DEF Lead, Same
  <2>6. g < 5 => done' = 0
    BY <1>1, <1>6 DEF Busy, Leads, Same
  <2> QED BY <1>1, <1>3, <1>6, <2>5, <2>6, LeadStep DEF Same
<1>7. ASSUME NEW c \in Id, NEW g \in 0 .. 5, NEW b \in Base, Busy(c, g), w # c,
             Join(st[w], wait, newframe, g, b)
      PROVE  PhaseInv'
  <2>1. JoinTops(st[w], wait, newframe, g, b)
    BY <1>1, <1>7, JoinTop
  <2>2. g > 0 /\ Leaves(st[w], wait, FA(g, b))
    BY <1>2, <2>1 DEF JoinTops
  <2>3. FA(g, b) \in Seq(Step)
    BY <2>2, NextTypes
  <2>4. st'[w] = FA(g, b)
    BY <1>4, <2>2, <2>3
  <2>5. Join(st'[w], wait, newframe, g, b)
    <3>1. \/ g = 1 /\ g + 1 = 2
          \/ g = 2
          \/ g = 3 /\ g + 1 = 4
          \/ g = 4
          \/ g = 5
      BY <2>2
    <3>2. CASE g = 1 /\ g + 1 = 2
      <4>1. st'[w] = On("read", FA(g + 1, b))
        BY <2>4, <3>2, Afters DEF F1
      <4>2. Waits(st'[w], wait, FA(g + 1, b))
        BY <4>1, WaitsRead
      <4> QED BY <4>2 DEF Join
    <3>3. CASE g = 3 /\ g + 1 = 4
      <4>1. st'[w] = On("read", FA(g + 1, b))
        BY <2>4, <3>3, Afters DEF F3
      <4>2. Waits(st'[w], wait, FA(g + 1, b))
        BY <4>1, WaitsRead
      <4> QED BY <4>2 DEF Join
    <3>4. CASE g \in {2, 5}
      <4>1. st'[w] = F5(b)
        BY <2>4, <3>4, Afters
      <4> QED BY <3>4, <4>1 DEF Join
    <3>5. CASE g = 4
      <4>1. st'[w] = F4(b)
        BY <2>4, <3>5, Afters
      <4> QED BY <3>5, <4>1 DEF Join
    <3> QED BY <3>1, <3>2, <3>3, <3>4, <3>5
  <2> QED BY <1>1, <1>3, <1>7, <2>5, JoinStep
<1>8. CASE Calm
  <2>1. Away(w)'
    BY <1>5, <1>8 DEF Calm
  <2> QED BY <1>1, <1>3, <1>8, <2>1, CalmMove DEF PhaseInv, Same
<1>9. ASSUME NEW c \in Id, Busy(c, 0), w # c, Away(w)
      PROVE  PhaseInv'
  <2>1. Away(w)'
    BY <1>5, <1>9
  <2>2. Joins(w, 0)'
    BY <2>1 DEF Joins
  <2>3. Busy(c, 0)'
    BY <1>1, <1>3, <1>9, <2>2, JoinMove
  <2> QED BY <2>3 DEF PhaseInv
<1> QED BY <1>2, <1>3, <1>6, <1>7, <1>8, <1>9, Places

LEMMA WaitsShape ==
    ASSUME IInv, PhaseInv, NEW w \in Id, Top(w) \in {"add", "reset", "flip"}
    PROVE  \E y \in Seq(Step) : Waits(st[w], wait, y)
PROOF
<1>1. Top(w) \in Names \ Plain
  BY BarNames
<1>2. /\ st[w] # <<>> /\ Top(w) = TopOf(st[w]) /\ wait \in Int
      /\ \/ \E g \in 0 .. 5 : \E b \in Base : Busy(w, g) /\ Lead(st[w], wait, newframe, g, b)
         \/ \E c \in Id : \E g \in 0 .. 5 : \E b \in Base :
               Busy(c, g) /\ w # c /\ Join(st[w], wait, newframe, g, b)
  BY <1>1, FramePlaces
<1>3. TopOf(st[w]) \in {"add", "reset", "flip"}
  BY <1>2
<1>4. \E y \in Seq(Step) : Waits(st[w], wait, y)
  <2>1. ASSUME NEW g \in 0 .. 5, NEW b \in Base, Lead(st[w], wait, newframe, g, b)
        PROVE  \E y \in Seq(Step) : Waits(st[w], wait, y)
    <3>1. LeadTops(st[w], wait, newframe, g, b)
      BY <1>2, <2>1, LeadTop
    <3>2. Waits(st[w], wait, LA(g + 1, b))
      BY <1>3, <3>1 DEF LeadTops
    <3> QED BY <3>2, NextTypes
  <2>2. ASSUME NEW g \in 0 .. 5, NEW b \in Base, Join(st[w], wait, newframe, g, b)
        PROVE  \E y \in Seq(Step) : Waits(st[w], wait, y)
    <3>1. JoinTops(st[w], wait, newframe, g, b)
      BY <1>2, <2>2, JoinTop
    <3>2. Waits(st[w], wait, FA(g + 1, b))
      BY <1>3, <3>1 DEF JoinTops
    <3> QED BY <3>2, NextTypes
  <2> QED BY <1>2, <2>1, <2>2
<1> QED BY <1>4

LEMMA WaitLocal ==
    ASSUME IInv, PhaseInv, NEW w \in Id, Top(w) \in {"add", "reset", "flip"}
    PROVE  Local(w) = wait
PROOF
<1>1. PICK y \in Seq(Step) : Waits(st[w], wait, y)
  BY WaitsShape
<1>2. wait \in Int /\ TopOf(st[w]) \in {"add", "reset", "flip"}
  BY WaitInt DEF Top, TopOf
<1> QED BY <1>1, <1>2, WaitsTop DEF Local

(* The flip: all workers wait in the same barrier, and all are released. *)
LEMMA FlipLeaves ==
    ASSUME IInv, BarInv, NEW w \in Id, BarFlip(w), NEW v \in Id, NEW y \in Seq(Step),
           Local(w) = wait, Waits(st[v], wait, y)
    PROVE  Leaves(st'[v], wait', y)
PROOF
<1>1. /\ wait \in {0, 1} /\ wait \in Int /\ Top(w) = "flip" /\ wait' = 1 - Local(w)
      /\ TypeInv /\ Pop(w)
  BY WaitInt DEF BarInv, BarFlip, At, IInv
<1>2. st[w] # <<>> /\ TopOf(st[w]) = "flip"
  BY <1>1 DEF Top, TopOf
<1>3. st[v] # <<>>
  BY <1>1, WaitsTop
<1>4. CASE v = w
  <2>1. Tail(st[w]) = On("leave", y)
    BY <1>1, <1>2, <1>4, WaitsTop, ZenonT(60)
  <2>2. st'[w] = On("leave", y)
    BY <1>1, <1>2, <2>1, Moves
  <2> QED BY <1>4, <2>2 DEF Leaves
<1>5. CASE v # w
  <2>1. Top(v) = "spin"
    BY <1>1, <1>3, <1>5 DEF BarInv
  <2>2. TopOf(st[v]) = "spin"
    BY <2>1 DEF Top, TopOf
  <2>3. st[v] = Cons(<<"spin", wait>>, On("leave", y))
    BY <1>1, <2>2, WaitsTop
  <2>4. st'[v] = st[v]
    BY <1>1, <1>2, <1>5, Moves
  <2>5. wait = 1 - wait'
    BY <1>1
  <2> QED BY <2>3, <2>4, <2>5 DEF Leaves
<1> QED BY <1>4, <1>5

LEMMA LastBase ==
    ASSUME NEW b \in Base
    PROVE  L6(b) \in Base
PROOF
<1>1. b \in Seq(Step) /\ Rest(b)
  BY DEF Base
<1>2. "gunlock" \in Names /\ "gc_off" \in Names /\ "gunlock" \in Plain /\ "gc_off" \in Plain
  BY BarNames, PlainNames
<1> DEFINE q == On("gc_off", b)
           M == {n \in Names : n \notin Plain}
<1>3. q \in Seq(Step) /\ L6(b) = On("gunlock", q)
  BY <1>1, <1>2, TopOn DEF L6
<1>4. L6(b) \in Seq(Step) /\ L6(b) # <<>>
  BY <1>2, <1>3, TopOn
<1>5. ~\E i \in DOMAIN b : b[i][1] \in M
  BY <1>1 DEF Rest
<1>6. ~\E i \in DOMAIN q : q[i][1] \in M
  BY <1>1, <1>2, <1>5, OnFacts
<1>7. ~\E i \in DOMAIN L6(b) : L6(b)[i][1] \in M
  BY <1>2, <1>3, <1>6, OnFacts
<1>8. \A i \in DOMAIN L6(b) : L6(b)[i][1] \in Names
  BY <1>4 DEF Step
<1> QED BY <1>4, <1>7, <1>8 DEF Base, Rest

(* Where a worker is, at the flip. *)
LEMMA FlipWaits ==
    ASSUME IInv, PhaseInv, BarInv, NEW w \in Id, BarFlip(w), NEW v \in Id, st[v] # <<>>
    PROVE  /\ TopOf(st[v]) \in {"flip", "spin"}
           /\ \A y \in Seq(Step) : ~Leaves(st[v], wait, y)
PROOF
<1>1. Top(w) = "flip" /\ wait \in {0, 1} /\ wait \in Int
  BY WaitInt DEF BarFlip, At, BarInv
<1>2. Top(v) = TopOf(st[v])
  BY DEF Top, TopOf
<1>3. CASE v = w
  <2>1. TopOf(st[v]) = "flip"
    BY <1>1, <1>2, <1>3
  <2> QED BY <1>1, <2>1, LeavesTop
<1>4. CASE v # w
  <2>1. Top(v) = "spin" /\ Local(v) = wait
    BY <1>1, <1>4 DEF BarInv
  <2>2. ASSUME NEW y \in Seq(Step), Leaves(st[v], wait, y) PROVE FALSE
    <3>1. TopOf(st[v]) = "spin"
      BY <1>2, <2>1
    <3>2. Head(st[v])[2] = 1 - wait
      BY <1>1, <2>2, <3>1, LeavesTop
    <3> QED BY <1>1, <2>1, <3>2 DEF Local
  <2> QED BY <1>2, <2>1, <2>2
<1> QED BY <1>3, <1>4

LEMMA FlipPhase ==
    ASSUME IInv, IInv', PhaseInv, BarInv, NEW w \in Id, BarFlip(w)
    PROVE  PhaseInv' /\ Alone(w)
PROOF
<1>1. /\ Top(w) = "flip" /\ newframe' = newframe /\ done' = done /\ wait \in Int
      /\ UNCHANGED <<app, spawn_exit_lock>> /\ Pop(w) /\ TypeInv
  BY WaitInt DEF BarFlip, At, frameVars, appVars, IInv
<1>2. st[w] # <<>> /\ TopOf(st[w]) = "flip"
  BY <1>1 DEF Top, TopOf
<1>3. Alone(w)
  BY <1>1, <1>2, Moves DEF Alone
<1>4. Local(w) = wait
  BY <1>1, WaitLocal
<1>5. PICK c \in Id, g \in 0 .. 5 : Busy(c, g)
  <2>1. Top(w) \in Names \ Plain
    BY <1>1, BarNames
  <2> QED BY <1>1, <2>1, FramePlaces
<1>6. PICK a \in Base : Lead(st[c], wait, newframe, g, a)
  BY <1>5 DEF Busy, Leads
<1>7. /\ Waits(st[c], wait, LA(g + 1, a)) /\ newframe = Now(g)
      /\ LA(g + 1, a) \in Seq(Step)
  <2>1. LeadTops(st[c], wait, newframe, g, a)
    BY <1>1, <1>6, LeadTop
  <2>2. st[c] # <<>>
    BY <2>1 DEF LeadTops
  <2>3. TopOf(st[c]) \in {"flip", "spin"} /\ (g > 0 => ~Leaves(st[c], wait, LA(g, a)))
    BY <2>2, FlipWaits, NextTypes
  <2> QED BY <2>1, <2>3, NextTypes DEF LeadTops
<1>8. Leaves(st'[c], wait', LA(g + 1, a))
  BY <1>4, <1>7, FlipLeaves
<1>9. Holds(c)'
  <2>1. Holds(c)
    BY <1>5 DEF Busy, Leads
  <2>2. spawn_exit_lock' = 1
    <3>1. c \in Holders
      BY <2>1 DEF Holders
    <3> QED BY <1>1, <3>1 DEF IInv, LockInv, TypeInv
  <2>3. CASE c = w
    BY <1>1, <1>3, <2>1, <2>2, <2>3, Keeper
  <2>4. CASE c # w
    BY <1>3, <2>1, <2>4 DEF Holds, Has, Alone
  <2> QED BY <2>3, <2>4
<1>10. ASSUME NEW v \in Id \ {c}, st[v] # <<>>
       PROVE  \E b \in Base : Leaves(st'[v], wait', FA(g + 1, b))
  <2>1. TopOf(st[v]) \in {"flip", "spin"} /\ \A y \in Seq(Step) : ~Leaves(st[v], wait, y)
    BY <1>10, FlipWaits
  <2>2. ~Away(v)
    <3>1. ASSUME Away(v) PROVE FALSE
      <4>1. TopOf(st[v]) \in Plain \cup {"none", "await", "glock", "spin", "leave"}
        BY <1>1, <3>1, OutTop DEF Away
      <4>2. TopOf(st[v]) = "spin"
        BY <2>1, <4>1, BarNames
      <4>3. PICK b \in Base : Leaves(st[v], wait, b)
        BY <1>1, <3>1, <4>2, OutTop DEF Away
      <4> QED BY <2>1, <4>3 DEF Base
    <3> QED BY <3>1
  <2>3. PICK b \in Base : Join(st[v], wait, newframe, g, b)
    BY <1>5, <1>10, <2>2 DEF Busy, Joins
  <2>4. JoinTops(st[v], wait, newframe, g, b)
    BY <1>1, <2>3, JoinTop
  <2>5. FA(g + 1, b) \in Seq(Step) /\ (g > 0 => ~Leaves(st[v], wait, FA(g, b)))
    BY <2>1, NextTypes
  <2>6. Waits(st[v], wait, FA(g + 1, b))
    BY <2>1, <2>4, <2>5 DEF JoinTops
  <2> QED BY <1>4, <2>5, <2>6, FlipLeaves
<1>11. ASSUME NEW v \in Id \ {c}, st[v] = <<>> PROVE st'[v] = <<>>
  BY <1>2, <1>3, <1>11 DEF Alone
<1>12. CASE g < 5
  <2>1. g + 1 \in 0 .. 5 /\ g + 1 > 0 /\ g + 1 - 1 = g
    BY <1>12
  <2>2. Lead(st'[c], wait', newframe', g + 1, a)
    BY <1>1, <1>7, <1>8, <2>1 DEF Lead
  <2>3. done' = 0
    BY <1>1, <1>5, <1>12 DEF Busy, Leads
  <2>4. Leads(c, g + 1)'
    BY <1>9, <2>2, <2>3 DEF Leads
  <2>5. ASSUME NEW v \in Id \ {c} PROVE Joins(v, g + 1)'
    <3>1. CASE st[v] = <<>>
      BY <1>11, <2>1, <3>1 DEF Joins
    <3>2. CASE st[v] # <<>>
      <4>1. PICK b \in Base : Leaves(st'[v], wait', FA(g + 1, b))
        BY <1>10, <3>2
      <4> QED BY <2>1, <4>1 DEF Joins, Join
    <3> QED BY <3>1, <3>2
  <2>6. Busy(c, g + 1)'
    BY <2>4, <2>5 DEF Busy
  <2> QED BY <1>3, <2>1, <2>6 DEF PhaseInv
<1>13. CASE g = 5
  <2>1. g + 1 = 6
    BY <1>13
  <2>2. newframe' = NoFrame
    BY <1>1, <1>7, <1>13, Afters
  <2>3. Away(c)'
    <3>1. Leaves(st'[c], wait', L6(a))
      BY <1>8, <2>1, Afters
    <3>2. L6(a) \in Base
      BY LastBase
    <3> QED BY <3>1, <3>2 DEF Away, Out
  <2>4. ASSUME NEW v \in Id \ {c} PROVE Away(v)'
    <3>1. CASE st[v] = <<>>
      <4>1. st'[v] = <<>>
        BY <1>11, <3>1
      <4>2. Rest(<<>>)
        BY DEF Rest
      <4> QED BY <4>1, <4>2 DEF Away, Out
    <3>2. CASE st[v] # <<>>
      <4>1. PICK b \in Base : Leaves(st'[v], wait', FA(g + 1, b))
        BY <1>10, <3>2
      <4>2. Leaves(st'[v], wait', b)
        BY <2>1, <4>1, Afters
      <4> QED BY <4>2 DEF Away, Out
    <3> QED BY <3>1, <3>2
  <2> QED BY <1>3, <2>2, <2>3, <2>4 DEF Calm, PhaseInv
<1>14. g < 5 \/ g = 5
  OBVIOUS
<1> QED BY <1>12, <1>13, <1>14

LEMMA PhaseWorker ==
    ASSUME IInv, IInv', PhaseInv, BarInv, NEW w \in Id, TableFull(w) \/ WorkerStep(w)
    PROVE  PhaseInv' /\ Alone(w)
PROOF
<1>1. CASE LifeStep(w) \/ TableFull(w) \/ GcOff(w)
  BY <1>1, LifePhase DEF Silent
<1>2. CASE FrameStep(w) /\ ~GcOff(w)
  BY <1>2, GcPhase, AwaitPhase, GcLockPhase, SetPhase, ClearPhase, CollectPhase, DonePhase,
     YieldPhase, StealPhase, MarkPhase DEF FrameStep, Silent
<1>3. CASE BarrierStep(w)
  BY <1>3, WaitPhase, FlipPhase, SpinPhase, LeavePhase DEF BarrierStep
<1> QED BY <1>1, <1>2, <1>3 DEF WorkerStep

LEMMA PhaseStill ==
    ASSUME PhaseInv, st' = st, wait' = wait, newframe' = newframe, done' = done
    PROVE  PhaseInv'
PROOF
<1>1. \A w \in Id : Away(w)' <=> Away(w)
  BY DEF Away
<1>2. \A w \in Id : Holds(w)' <=> Holds(w)
  BY DEF Holds, Has
<1>3. \A w \in Id : \A g \in 0 .. 5 : Joins(w, g)' <=> Joins(w, g)
  BY <1>1 DEF Joins
<1>4. \A w \in Id : \A g \in 0 .. 5 : Leads(w, g)' <=> Leads(w, g)
  BY <1>2 DEF Leads
<1>5. \A w \in Id : \A g \in 0 .. 5 : Busy(w, g)' <=> Busy(w, g)
  BY <1>3, <1>4 DEF Busy
<1>6. Calm' <=> Calm
  BY <1>1 DEF Calm
<1> QED BY <1>5, <1>6 DEF PhaseInv

(* While a worker collects, nobody else has the lock. *)
LEMMA LeaderAlone ==
    ASSUME IInv, NEW c \in Id, NEW g \in 0 .. 5, Busy(c, g)
    PROVE  Holders = {c} /\ \A x \in Id : Holds(x) => x = c
PROOF
<1>1. c \in Holders
  BY DEF Busy, Leads, Holders
<1>2. Holders = {c}
  BY <1>1 DEF IInv, LockInv, TypeInv
<1> QED BY <1>2 DEF Holders

LEMMA SpawnPhase ==
    ASSUME IInv, PhaseInv, NEW t \in Threads, SpawnWorker(t)
    PROVE  /\ PhaseInv' /\ Calm /\ nid \in Id /\ st[nid] = <<>> /\ Alone(nid)
           /\ st'[nid] = Steps(<<"init", "ready", "loop">>)
PROOF
<1>1. app[t] = "spawn" /\ nid < MaxId /\ newframe' = newframe /\ wait' = wait /\ done' = done
  BY DEF SpawnWorker, frameVars, barVars
<1>2. nid \in Id
  BY <1>1, IdFacts DEF IInv, TypeInv
<1>3. Holders = {t} /\ st[nid] = <<>>
  BY <1>1, <1>2, NextFree
<1>4. /\ st'[nid] = Steps(<<"init", "ready", "loop">>)
      /\ Alone(nid)
  BY <1>2 DEF SpawnWorker, IInv, TypeInv, Alone
<1>5. Calm
  <2>1. ASSUME NEW c \in Id, NEW g \in 0 .. 5, Busy(c, g) PROVE FALSE
    BY <1>3, <2>1, LeaderAlone, IdFacts
  <2> QED BY <2>1 DEF PhaseInv
<1>6. Rest(st'[nid])
  <2>1. <<"init", "ready", "loop">> \in Seq(Plain)
    BY PlainNames
  <2>2. Rest(<<>>)
    BY DEF Rest
  <2>3. Rest(Steps(<<"init", "ready", "loop">>) \o <<>>)
    BY <2>1, <2>2, RestGo
  <2>4. Steps(<<"init", "ready", "loop">>) \in Seq(Step)
    <3>1. <<"init", "ready", "loop">> \in Seq(Names)
      BY <2>1, AllNames
    <3> QED BY <3>1, StepsSeq
  <2>5. Steps(<<"init", "ready", "loop">>) \o <<>> = Steps(<<"init", "ready", "loop">>)
    BY <2>4
  <2> QED BY <1>4, <2>3, <2>5
<1>7. PICK n \in Id : n = nid
  BY <1>2
<1>8. Calm'
  <2>1. Away(n)' /\ Alone(n)
    BY <1>4, <1>6, <1>7 DEF Away, Out
  <2> QED BY <1>1, <1>5, <2>1, CalmMove
<1> QED BY <1>2, <1>3, <1>4, <1>5, <1>8 DEF PhaseInv

LEMMA PhaseThread ==
    ASSUME IInv, PhaseInv, NEW t \in Threads, Request(t) \/ AppStep(t)
    PROVE  PhaseInv'
PROOF
<1>1. CASE SpawnWorker(t)
  BY <1>1, SpawnPhase
<1>2. CASE ~SpawnWorker(t)
  <2>1. st' = st /\ wait' = wait /\ newframe' = newframe /\ done' = done
    BY <1>2 DEF Request, AppStep, ThreadStart, Post, ThreadFini, SpawnLock, Answered, ThreadGone,
                barVars, frameVars
  <2> QED BY <2>1, PhaseStill
<1> QED BY <1>1, <1>2

-----------------------------------------------------------------------------
(* The workers that are counted.                                           *)
LifeKeys == {"loop", "leave_alive", "init", "release", "xunlock"}
Hs(s, M) == \E i \in DOMAIN s : s[i][1] \in M

LEMMA HasConcat ==
    ASSUME NEW p \in Seq(Step), NEW y \in Seq(Step), NEW M
    PROVE  Hs(p \o y, M) <=> Hs(p, M) \/ Hs(y, M)
PROOF
<1> DEFINE r == p \o y
<1>1. /\ r \in Seq(Step) /\ Len(p) \in Nat /\ Len(y) \in Nat
      /\ DOMAIN p = 1 .. Len(p) /\ DOMAIN y = 1 .. Len(y) /\ DOMAIN r = 1 .. Len(p) + Len(y)
      /\ \A i \in DOMAIN p : i \in DOMAIN r /\ r[i] = p[i]
      /\ \A i \in DOMAIN y : i + Len(p) \in DOMAIN r /\ r[i + Len(p)] = y[i]
  OBVIOUS
<1>2. ASSUME NEW k \in DOMAIN r, k \notin DOMAIN p PROVE \E i \in DOMAIN y : k = i + Len(p)
  <2>1. k - Len(p) \in DOMAIN y /\ k = (k - Len(p)) + Len(p)
    BY <1>1, <1>2
  <2> QED BY <2>1
<1> HIDE DEF r
<1>3. ASSUME Hs(r, M) PROVE Hs(p, M) \/ Hs(y, M)
  <2>1. PICK k \in DOMAIN r : r[k][1] \in M
    BY <1>3 DEF Hs
  <2>2. CASE k \in DOMAIN p
    BY <1>1, <2>1, <2>2 DEF Hs
  <2>3. CASE k \notin DOMAIN p
    <3>1. PICK i \in DOMAIN y : k = i + Len(p)
      BY <1>2, <2>3
    <3> QED BY <1>1, <2>1, <3>1 DEF Hs
  <2> QED BY <2>2, <2>3
<1>4. ASSUME Hs(p, M) PROVE Hs(r, M)
  <2>1. PICK i \in DOMAIN p : p[i][1] \in M
    BY <1>4 DEF Hs
  <2> QED BY <1>1, <2>1 DEF Hs
<1>5. ASSUME Hs(y, M) PROVE Hs(r, M)
  <2>1. PICK i \in DOMAIN y : y[i][1] \in M
    BY <1>5 DEF Hs
  <2> QED BY <1>1, <2>1 DEF Hs
<1>6. Hs(r, M) <=> Hs(p, M) \/ Hs(y, M)
  BY <1>3, <1>4, <1>5
<1> QED BY <1>6 DEF r

LEMMA HasTop ==
    ASSUME TypeInv, NEW w \in Id, st[w] # <<>>
    PROVE  /\ Top(w) \in Names /\ Tail(st[w]) \in Seq(Step)
           /\ \A M : Has(w, M) <=> Top(w) \in M \/ Hs(Tail(st[w]), M)
PROOF
<1>1. st[w] \in Seq(Step) /\ Tail(st[w]) \in Seq(Step)
  BY DEF TypeInv
<1> DEFINE h == Head(st[w])
           y == Tail(st[w])
<1>2. h \in Step /\ Top(w) = h[1] /\ <<h>> \in Seq(Step) /\ st[w] = <<h>> \o y
  BY <1>1 DEF Top
<1>3. Top(w) \in Names
  BY <1>2 DEF Step
<1> HIDE DEF h, y
<1>4. ASSUME NEW M PROVE Has(w, M) <=> Top(w) \in M \/ Hs(y, M)
  <2>1. y \in Seq(Step)
    BY <1>1 DEF y
  <2>2. Hs(<<h>> \o y, M) <=> Hs(<<h>>, M) \/ Hs(y, M)
    BY <1>2, <2>1, HasConcat
  <2>3. Hs(<<h>>, M) <=> h[1] \in M
    BY DEF Hs
  <2>4. Has(w, M) <=> Hs(st[w], M)
    BY DEF Has, Hs
  <2> QED BY <1>2, <2>2, <2>3, <2>4
<1> QED BY <1>1, <1>3, <1>4 DEF y

LEMMA HasGo ==
    ASSUME NEW names \in Seq(Names), NEW y \in Seq(Step), NEW M
    PROVE  Hs(Steps(names) \o y, M) <=> (\E i \in DOMAIN names : names[i] \in M) \/ Hs(y, M)
PROOF
<1>1. /\ Steps(names) \in Seq(Step) /\ Len(Steps(names)) = Len(names)
      /\ \A i \in 1 .. Len(names) : Steps(names)[i] = S(names[i])
  BY StepsSeq
<1>2. DOMAIN names = 1 .. Len(names) /\ DOMAIN Steps(names) = 1 .. Len(names)
  BY <1>1
<1>3. \A i \in DOMAIN names : S(names[i])[1] = names[i]
  BY DEF S
<1>4. Hs(Steps(names), M) <=> \E i \in DOMAIN names : names[i] \in M
  BY <1>1, <1>2, <1>3 DEF Hs
<1> QED BY <1>1, <1>4, HasConcat

(* What Has says of w after a move. *)
LEMMA HasMove ==
    ASSUME TypeInv, NEW w \in Id, st[w] # <<>>
    PROVE  /\ Pop(w) => \A M : Has(w, M)' <=> Hs(Tail(st[w]), M)
           /\ \A names \in Seq(Names) : Go(w, names) =>
                 \A M : Has(w, M)' <=> (\E i \in DOMAIN names : names[i] \in M) \/ Hs(Tail(st[w]), M)
           /\ Push(w, <<"copy">>) => \A M : Has(w, M)' <=> "copy" \in M \/ Has(w, M)
PROOF
<1>1. Tail(st[w]) \in Seq(Step) /\ st[w] \in Seq(Step)
  BY DEF TypeInv
<1>2. \A M : Has(w, M)' <=> Hs(st'[w], M)
  BY DEF Has, Hs
<1>3. ASSUME Pop(w) PROVE \A M : Has(w, M)' <=> Hs(Tail(st[w]), M)
  <2>1. st'[w] = Tail(st[w])
    BY <1>3, Moves
  <2> QED BY <1>2, <2>1
<1>4. ASSUME NEW names \in Seq(Names), Go(w, names), NEW M
      PROVE  Has(w, M)' <=> (\E i \in DOMAIN names : names[i] \in M) \/ Hs(Tail(st[w]), M)
  <2>1. st'[w] = Steps(names) \o Tail(st[w])
    BY <1>4, Moves
  <2>2. Hs(Steps(names) \o Tail(st[w]), M)
           <=> (\E i \in DOMAIN names : names[i] \in M) \/ Hs(Tail(st[w]), M)
    BY <1>1, HasGo
  <2> QED BY <1>2, <2>1, <2>2
<1>5. ASSUME Push(w, <<"copy">>), NEW M PROVE Has(w, M)' <=> "copy" \in M \/ Has(w, M)
  <2>1. st'[w] = On("copy", st[w])
    BY <1>5, Moves
  <2>2. Hs(On("copy", st[w]), M) <=> "copy" \in M \/ Has(w, M)
    BY <1>1, OnFacts, BarNames DEF Hs, Has
  <2> QED BY <1>2, <2>1, <2>2
<1> QED BY <1>3, <1>4, <1>5

LEMMA AliveKeep ==
    ASSUME AliveInv, NEW w \in Id, Alone(w), alive' = alive,
           \A M \in SUBSET LifeKeys : Has(w, M)' <=> Has(w, M)
    PROVE  AliveInv'
PROOF
<1>1. \A v \in Id \ {w} : \A M : Has(v, M)' <=> Has(v, M)
  BY DEF Has, Alone
<1>2. ASSUME NEW v \in Id
      PROVE  /\ Has(v, {"loop", "leave_alive"})' <=> Has(v, {"loop", "leave_alive"})
             /\ Has(v, {"init"})' <=> Has(v, {"init"})
             /\ Has(v, {"release"})' <=> Has(v, {"release"})
             /\ Has(v, {"leave_alive"})' <=> Has(v, {"leave_alive"})
             /\ Has(v, {"xunlock"})' <=> Has(v, {"xunlock"})
  <2>1. CASE v = w
    <3>1. /\ {"loop", "leave_alive"} \in SUBSET LifeKeys /\ {"init"} \in SUBSET LifeKeys
          /\ {"release"} \in SUBSET LifeKeys /\ {"leave_alive"} \in SUBSET LifeKeys
          /\ {"xunlock"} \in SUBSET LifeKeys
      BY DEF LifeKeys
    <3> QED BY <2>1, <3>1
  <2>2. CASE v # w
    BY <1>1, <2>2
  <2> QED BY <2>1, <2>2
<1>3. \A v \in Id : Counted(v)' <=> Counted(v)
  BY <1>2 DEF Counted
<1>4. {v \in Id : Counted(v)}' = {v \in Id : Counted(v)}
  BY <1>3
<1> QED BY <1>2, <1>4 DEF AliveInv

LEMMA AliveGo ==
    ASSUME TypeInv, AliveInv, NEW w \in Id, st[w] # <<>>, Top(w) \notin LifeKeys, alive' = alive,
           NEW names \in Seq(Names \ LifeKeys), Pop(w) \/ Go(w, names)
    PROVE  AliveInv'
PROOF
<1>1. names \in Seq(Names) /\ \A i \in DOMAIN names : names[i] \notin LifeKeys
  OBVIOUS
<1>2. ASSUME NEW M \in SUBSET LifeKeys PROVE Has(w, M)' <=> Has(w, M)
  <2>1. Has(w, M) <=> Hs(Tail(st[w]), M)
    BY HasTop
  <2>2. ~\E i \in DOMAIN names : names[i] \in M
    BY <1>1
  <2>3. Has(w, M)' <=> Hs(Tail(st[w]), M)
    BY <1>1, <2>2, HasMove
  <2> QED BY <2>1, <2>3
<1>3. Alone(w)
  BY Moves DEF Alone
<1> QED BY <1>2, <1>3, AliveKeep

LEMMA AliveYield ==
    ASSUME TypeInv, AliveInv, NEW w \in Id, st[w] # <<>>, YIELD_NEWFRAME(w)
    PROVE  AliveInv'
PROOF
<1>1. Push(w, <<"copy">>) /\ alive' = alive
  BY DEF YIELD_NEWFRAME
<1>2. \A M \in SUBSET LifeKeys : Has(w, M)' <=> Has(w, M)
  <2>1. "copy" \notin LifeKeys
    BY DEF LifeKeys
  <2> QED BY <1>1, <2>1, HasMove
<1>3. Alone(w)
  BY <1>1, Moves DEF Alone
<1> QED BY <1>1, <1>2, <1>3, AliveKeep

LEMMA LifeNames ==
    /\ LifeKeys \subseteq Names
    /\ <<>> \in Seq(Names \ LifeKeys) /\ <<"gc", "retry", "work">> \in Seq(Names \ LifeKeys)
    /\ <<"await", "copy">> \in Seq(Names \ LifeKeys)
    /\ lace_run_newframe \o <<"gc_off">> \in Seq(Names \ LifeKeys)
    /\ lace_wrap_together \in Seq(Names \ LifeKeys)
    /\ \A k : Yielded(k) \in Seq(Names \ LifeKeys)
PROOF
<1> DEFINE N == Names \ LifeKeys
<1>1. /\ LifeKeys \subseteq Names /\ <<>> \in Seq(N) /\ <<"gc", "retry", "work">> \in Seq(N)
      /\ <<"await", "copy">> \in Seq(N) /\ <<"read">> \in Seq(N)
      /\ <<"steal">> \in Seq(N) /\ <<"mark", "help">> \in Seq(N) /\ <<"gc_off">> \in Seq(N)
      /\ <<"glock", "set_steal">> \in Seq(N) /\ <<"clear">> \in Seq(N)
      /\ <<"collect", "done">> \in Seq(N) /\ <<"gunlock">> \in Seq(N)
      /\ <<"set_together">> \in Seq(N)
  BY DEF LifeKeys, Names, Frame, Run, Oper, Mail, Ends
<1> HIDE DEF N
<1>2. \A k : Yielded(k) \in Seq(N)
  BY <1>1 DEF Yielded, lace_exec_in_new_frame, lace_barrier, lace_together_root
<1>3. lace_wrap_together \in Seq(N) /\ lace_run_newframe \o <<"gc_off">> \in Seq(N)
  BY <1>1 DEF lace_wrap_together, lace_run_newframe, lace_exec_in_new_frame, lace_barrier,
              lace_together_root
<1> QED BY <1>1, <1>2, <1>3 DEF N

(* What lies under the steps of the life of a worker. *)
LEMMA Below ==
    ASSUME IInv, NEW w \in Id, st[w] # <<>>, Pop(w)
    PROVE  \E B \in SUBSET Under(Top(w)) :
              \A M : /\ Has(w, M) <=> Top(w) \in M \/ B \cap M # {}
                     /\ Has(w, M)' <=> B \cap M # {}
PROOF
<1>1. Replaces(w, <<>>) /\ Fits(w, <<>>) /\ NamesOf(<<>>) = {}
  BY PopFits DEF IInv
<1> QED BY <1>1, ReplaceStack DEF IInv

LEMMA CountedStep ==
    ASSUME AliveInv, NEW w \in Id, Alone(w),
           Has(w, {"release"})' => Has(w, {"leave_alive"})',
           Has(w, {"leave_alive"})' => Has(w, {"xunlock"})',
           \/ (Counted(w)' <=> Counted(w)) /\ alive' = alive
           \/ ~Counted(w) /\ Counted(w)' /\ alive' = alive + 1
           \/ Counted(w) /\ ~Counted(w)' /\ alive' = alive - 1
    PROVE  AliveInv'
PROOF
<1>1. \A v \in Id \ {w} : \A M : Has(v, M)' <=> Has(v, M)
  BY DEF Has, Alone
<1>2. \A v \in Id \ {w} : Counted(v)' <=> Counted(v)
  BY <1>1 DEF Counted
<1>3. ASSUME NEW v \in Id
      PROVE  /\ Has(v, {"release"})' => Has(v, {"leave_alive"})'
             /\ Has(v, {"leave_alive"})' => Has(v, {"xunlock"})'
  BY <1>1 DEF AliveInv
<1> DEFINE C == {v \in Id : Counted(v)}
<1>4. /\ (Counted(w)' <=> Counted(w)) => C' = C
      /\ ~Counted(w) /\ Counted(w)' => C' = C \cup {w} /\ w \notin C
      /\ Counted(w) /\ ~Counted(w)' => C' = C \ {w} /\ w \in C
  BY <1>2
<1>5. IsFiniteSet(C)
  <2>1. IsFiniteSet(Id)
    BY IdAssumption, FS_Interval DEF Id
  <2> QED BY <2>1, FS_Subset
<1>6. alive = Cardinality(C) /\ Cardinality(C) \in Nat
  BY <1>5, FS_CardinalityType DEF AliveInv
<1> HIDE DEF C
<1>7. alive' = Cardinality(C')
  <2>1. CASE (Counted(w)' <=> Counted(w)) /\ alive' = alive
    BY <1>4, <1>6, <2>1
  <2>2. CASE ~Counted(w) /\ Counted(w)' /\ alive' = alive + 1
    BY <1>4, <1>5, <1>6, <2>2, FS_AddElement
  <2>3. CASE Counted(w) /\ ~Counted(w)' /\ alive' = alive - 1
    BY <1>4, <1>5, <1>6, <2>3, FS_RemoveElement
  <2> QED BY <2>1, <2>2, <2>3
<1> QED BY <1>3, <1>7 DEF AliveInv, C

LEMMA AliveLife ==
    ASSUME IInv, AliveInv, NEW w \in Id, LifeStep(w) \/ TableFull(w)
    PROVE  AliveInv'
PROOF
<1>1. TypeInv
  BY DEF IInv
<1>2. st[w] # <<>>
  <2>1. Top(w) # "none"
    BY DEF LifeStep, TableFull, WorkerInit, Unlock, lace_steal_loop_ex, Work, Retry, Answer, Reply,
           ExitLock, ExitRelease, ExitAlive, At
  <2> QED BY <2>1 DEF Top
<1>3. /\ "ready" \notin LifeKeys /\ "gunlock" \notin LifeKeys /\ "work" \notin LifeKeys
      /\ "retry" \notin LifeKeys /\ "answer" \notin LifeKeys /\ "reply" \notin LifeKeys
      /\ "xlock" \notin LifeKeys
  BY DEF LifeKeys
<1>4. ASSUME Pop(w), alive' = alive, Top(w) \notin LifeKeys PROVE AliveInv'
  BY <1>1, <1>2, <1>4, LifeNames, AliveGo
<1>5. ASSUME YIELD_NEWFRAME(w) PROVE AliveInv'
  BY <1>1, <1>2, <1>5, AliveYield
<1>6. CASE TableFull(w)
  <2>1. Top(w) = "work" /\ alive' = alive /\ Go(w, <<"gc", "retry", "work">>)
    BY <1>6 DEF TableFull, At
  <2> QED BY <1>1, <1>2, <1>3, <2>1, LifeNames, AliveGo
<1>7. CASE Work(w) \/ Retry(w) \/ Answer(w) \/ Reply(w)
  <2>1. \/ Pop(w) /\ alive' = alive /\ Top(w) \in {"work", "retry", "answer", "reply"}
        \/ YIELD_NEWFRAME(w)
    BY <1>7 DEF Work, Retry, Answer, Reply, At
  <2> QED BY <1>3, <1>4, <1>5, <2>1
<1>8. CASE ExitLock(w)
  <2>1. \/ Pop(w) /\ alive' = alive /\ Top(w) = "xlock"
        \/ YIELD_NEWFRAME(w)
    BY <1>8 DEF ExitLock, At
  <2> QED BY <1>3, <1>4, <1>5, <2>1
<1>9. ASSUME Pop(w) \/ \E p : Go(w, p) PROVE Alone(w)
  BY <1>1, <1>2, <1>9, Moves DEF Alone
<1>10. ASSUME Pop(w)
       PROVE  \E B \in SUBSET Under(Top(w)) :
                 \A M : /\ Has(w, M) <=> Top(w) \in M \/ B \cap M # {}
                        /\ Has(w, M)' <=> B \cap M # {}
  BY <1>2, <1>10, Below
<1>11. CASE Unlock(w)
  <2>1. Pop(w) /\ alive' = alive /\ Top(w) \in {"ready", "xunlock", "gunlock"}
    BY <1>11 DEF Unlock, At
  <2>2. CASE Top(w) = "xunlock"
    <3>1. Under(Top(w)) = {}
      BY <2>2, UnderFacts
    <3>2. \A M : (Has(w, M) <=> "xunlock" \in M) /\ ~Has(w, M)'
      BY <1>10, <2>1, <2>2, <3>1
    <3>3. ~Counted(w) /\ ~Counted(w)'
      BY <3>2 DEF Counted
    <3> QED BY <1>9, <2>1, <3>2, <3>3, CountedStep
  <2> QED BY <1>3, <1>4, <2>1, <2>2
<1>12. CASE WorkerInit(w)
  <2>1. Pop(w) /\ alive' = alive + 1 /\ Top(w) = "init"
    BY <1>12 DEF WorkerInit, At
  <2>2. PICK B \in SUBSET {"ready", "loop"} :
           \A M : /\ Has(w, M) <=> "init" \in M \/ B \cap M # {}
                  /\ Has(w, M)' <=> B \cap M # {}
    BY <1>10, <2>1, UnderFacts
  <2>3. Has(w, {"loop", "release"})
    <3>1. "init" \in Names \ {"leave_alive", "xunlock"}
      BY DEF Names
    <3>2. Has(w, Names \ {"leave_alive", "xunlock"})
      BY <2>2, <3>1
    <3> QED BY <3>2 DEF IInv, StackOf
  <2>4. "loop" \in B
    BY <2>2, <2>3
  <2>5. ~Counted(w) /\ Counted(w)' /\ ~Has(w, {"release"})' /\ ~Has(w, {"leave_alive"})'
    BY <2>2, <2>4 DEF Counted
  <2> QED BY <1>9, <2>1, <2>5, CountedStep
<1>13. CASE ExitRelease(w)
  <2>1. Pop(w) /\ alive' = alive /\ Top(w) = "release"
    BY <1>13 DEF ExitRelease, At
  <2>2. PICK B \in SUBSET {"leave_alive", "xunlock"} :
           \A M : /\ Has(w, M) <=> "release" \in M \/ B \cap M # {}
                  /\ Has(w, M)' <=> B \cap M # {}
    BY <1>10, <2>1, UnderFacts
  <2>3. Counted(w)' <=> Counted(w)
    BY <2>2 DEF Counted
  <2>4. /\ ~Has(w, {"release"})'
        /\ Has(w, {"leave_alive"})' => Has(w, {"xunlock"})'
    BY <2>2 DEF AliveInv
  <2> QED BY <1>9, <2>1, <2>3, <2>4, CountedStep
<1>14. CASE ExitAlive(w)
  <2>1. Pop(w) /\ alive' = alive - 1 /\ Top(w) = "leave_alive"
    BY <1>14 DEF ExitAlive, At
  <2>2. PICK B \in SUBSET {"xunlock"} :
           \A M : /\ Has(w, M) <=> "leave_alive" \in M \/ B \cap M # {}
                  /\ Has(w, M)' <=> B \cap M # {}
    BY <1>10, <2>1, UnderFacts
  <2>3. Counted(w) /\ ~Counted(w)' /\ ~Has(w, {"release"})' /\ ~Has(w, {"leave_alive"})'
    BY <2>2 DEF Counted
  <2> QED BY <1>9, <2>1, <2>3, CountedStep
<1>15. CASE lace_steal_loop_ex(w)
  <2>1. Top(w) = "loop"
    BY <1>15 DEF lace_steal_loop_ex, At
  <2>2. \A M : Has(w, M) <=> "loop" \in M \/ Hs(Tail(st[w]), M)
    BY <1>1, <1>2, <2>1, HasTop
  <2>3. CASE Go(w, Exit) /\ alive' = alive
    <3>1. Exit \in Seq(Names) /\ \A n : (\E i \in DOMAIN Exit : Exit[i] = n) <=>
                                          n \in {"xlock", "release", "leave_alive", "xunlock"}
      BY DEF Exit, Names, Ends
    <3>2. \A M : Has(w, M)' <=> (\E i \in DOMAIN Exit : Exit[i] \in M) \/ Hs(Tail(st[w]), M)
      BY <1>1, <1>2, <2>3, <3>1, HasMove
    <3>3. /\ Has(w, {"init"})' <=> Has(w, {"init"})
          /\ Has(w, {"loop", "leave_alive"})' /\ Has(w, {"loop", "leave_alive"})
          /\ Has(w, {"leave_alive"})' /\ Has(w, {"xunlock"})'
      BY <2>2, <3>1, <3>2
    <3>4. Counted(w)' <=> Counted(w)
      BY <3>3 DEF Counted
    <3> QED BY <1>9, <2>3, <3>3, <3>4, CountedStep
  <2>4. CASE Go(w, Task) /\ alive' = alive
    <3>1. Task \in Seq(Names) /\ \A n : (\E i \in DOMAIN Task : Task[i] = n) <=>
                                          n \in {"work", "answer", "reply", "loop"}
      BY DEF Task, Names, Oper, Mail
    <3>2. \A M : Has(w, M)' <=> (\E i \in DOMAIN Task : Task[i] \in M) \/ Hs(Tail(st[w]), M)
      BY <1>1, <1>2, <2>4, <3>1, HasMove
    <3>3. \A M \in SUBSET LifeKeys : Has(w, M)' <=> Has(w, M)
      <4> SUFFICES ASSUME NEW M \in SUBSET LifeKeys PROVE Has(w, M)' <=> Has(w, M)
        OBVIOUS
      <4>1. (\E i \in DOMAIN Task : Task[i] \in M) <=> "loop" \in M
        <5>1. "work" \notin M /\ "answer" \notin M /\ "reply" \notin M
          BY <1>3
        <5>2. \A i \in DOMAIN Task : Task[i] \in {"work", "answer", "reply", "loop"}
          BY <3>1
        <5>3. \E i \in DOMAIN Task : Task[i] = "loop"
          BY <3>1
        <5> QED BY <5>1, <5>2, <5>3
      <4> QED BY <2>2, <3>2, <4>1
    <3> QED BY <1>9, <2>4, <3>3, AliveKeep
  <2> QED BY <1>5, <1>15, <2>3, <2>4 DEF lace_steal_loop_ex
<1> QED BY <1>6, <1>7, <1>8, <1>11, <1>12, <1>13, <1>14, <1>15 DEF LifeStep

LEMMA AliveFrame ==
    ASSUME IInv, AliveInv, NEW w \in Id, FrameStep(w)
    PROVE  AliveInv'
PROOF
<1>1. TypeInv
  BY DEF IInv
<1>2. /\ alive' = alive
      /\ Top(w) \in {"gc", "gc_off", "await", "glock", "set_steal", "set_together", "clear",
                     "collect", "done", "copy", "steal", "mark", "help"}
  BY DEF FrameStep, sylvan_gc, GcOff, AwaitFrame, GcLock, SetFrame, ClearFrame, Collect, Done,
         lace_yield, lace_steal_loop_in, Mark, Help, YIELD_NEWFRAME, At
<1>3. st[w] # <<>> /\ Top(w) \notin LifeKeys
  BY <1>2 DEF Top, LifeKeys
<1>4. \/ YIELD_NEWFRAME(w)
      \/ Pop(w)
      \/ \E names \in Seq(Names \ LifeKeys) : Go(w, names)
  BY LifeNames DEF FrameStep, sylvan_gc, GcOff, AwaitFrame, GcLock, SetFrame, ClearFrame, Collect,
         Done, lace_yield, lace_steal_loop_in, Mark, Help
<1>5. CASE YIELD_NEWFRAME(w)
  BY <1>1, <1>3, <1>5, AliveYield
<1>6. CASE Pop(w)
  BY <1>1, <1>2, <1>3, <1>6, AliveGo, LifeNames
<1>7. ASSUME NEW names \in Seq(Names \ LifeKeys), Go(w, names) PROVE AliveInv'
  BY <1>1, <1>2, <1>3, <1>7, AliveGo
<1> QED BY <1>4, <1>5, <1>6, <1>7

LEMMA AliveBar ==
    ASSUME TypeInv, AliveInv, NEW w \in Id, st[w] # <<>>, Top(w) \notin LifeKeys, alive' = alive,
           NEW p \in Seq(Step), \A i \in DOMAIN p : p[i][1] \notin LifeKeys, Bar(w, p)
    PROVE  AliveInv'
PROOF
<1>1. st'[w] = p \o Tail(st[w]) /\ Alone(w) /\ Tail(st[w]) \in Seq(Step)
  BY Moves DEF Alone
<1>2. ASSUME NEW M \in SUBSET LifeKeys PROVE Has(w, M)' <=> Has(w, M)
  <2>1. Has(w, M) <=> Hs(Tail(st[w]), M)
    BY HasTop
  <2>2. ~Hs(p, M)
    BY DEF Hs
  <2>3. Hs(p \o Tail(st[w]), M) <=> Hs(p, M) \/ Hs(Tail(st[w]), M)
    BY <1>1, HasConcat
  <2>4. Has(w, M)' <=> Hs(st'[w], M)
    BY DEF Has, Hs
  <2> QED BY <1>1, <2>1, <2>2, <2>3, <2>4
<1> QED BY <1>1, <1>2, AliveKeep

LEMMA AliveBarrier ==
    ASSUME IInv, AliveInv, NEW w \in Id, BarrierStep(w)
    PROVE  AliveInv'
PROOF
<1>1. TypeInv /\ wait \in Int
  BY DEF IInv, TypeInv
<1>2. /\ alive' = alive
      /\ Top(w) \in {"read", "add", "reset", "flip", "spin", "leave"}
  BY DEF BarrierStep, BarRead, BarAdd, BarReset, BarFlip, BarSpin, BarLeave, At
<1>3. st[w] # <<>> /\ Top(w) \notin LifeKeys
  BY <1>2 DEF Top, LifeKeys
<1>4. CASE Pop(w)
  BY <1>1, <1>2, <1>3, <1>4, AliveGo, LifeNames
<1>5. CASE BarRead(w)
  <2> DEFINE p == <<<<"add", wait>>>>
  <2>1. p \in Seq(Step) /\ \A i \in DOMAIN p : p[i][1] \notin LifeKeys
    BY <1>1, NameSteps, BarNames DEF LifeKeys
  <2>2. Bar(w, p)
    BY <1>5 DEF BarRead
  <2> HIDE DEF p
  <2> QED BY <1>1, <1>2, <1>3, <2>1, <2>2, AliveBar
<1>6. CASE BarAdd(w)
  <2>1. Local(w) \in Int
    <3>1. Head(st[w]) \in Step
      BY <1>1, <1>3 DEF TypeInv
    <3> QED BY <3>1 DEF Local, Step
  <2>2. PICK p : /\ Bar(w, p)
                 /\ \/ p = <<<<"reset", Local(w)>>, <<"flip", Local(w)>>, S("leave")>>
                    \/ p = <<<<"spin", Local(w)>>, S("leave")>>
    <3>1. CASE count' = alive
      BY <1>6, <2>1, <3>1, LastTwo DEF BarAdd
    <3>2. CASE count' # alive
      BY <1>6, <3>2 DEF BarAdd
    <3> QED BY <3>1, <3>2
  <2>3. p \in Seq(Step) /\ \A i \in DOMAIN p : p[i][1] \notin LifeKeys
    <3> DEFINE a == <<"reset", Local(w)>>
               b == <<"flip", Local(w)>>
               c == <<"spin", Local(w)>>
               d == S("leave")
    <3>1. /\ a \in Step /\ b \in Step /\ c \in Step /\ d \in Step
          /\ a[1] \notin LifeKeys /\ b[1] \notin LifeKeys /\ c[1] \notin LifeKeys
          /\ d[1] \notin LifeKeys
      BY <2>1, NameSteps, BarNames DEF LifeKeys
    <3>2. p = <<a, b, d>> \/ p = <<c, d>>
      BY <2>2
    <3> HIDE DEF a, b, c, d
    <3>3. CASE p = <<a, b, d>>
      BY <3>1, <3>3
    <3>4. CASE p = <<c, d>>
      BY <3>1, <3>4
    <3> QED BY <3>2, <3>3, <3>4
  <2> QED BY <1>1, <1>2, <1>3, <2>2, <2>3, AliveBar
<1> QED BY <1>4, <1>5, <1>6 DEF BarrierStep, BarReset, BarFlip, BarSpin, BarLeave

LEMMA AliveThread ==
    ASSUME IInv, PhaseInv, AliveInv, NEW t \in Threads, Request(t) \/ AppStep(t)
    PROVE  AliveInv'
PROOF
<1>1. alive' = alive
  BY DEF Request, AppStep, ThreadStart, Post, ThreadFini, SpawnLock, SpawnWorker, Answered, ThreadGone
<1>2. CASE SpawnWorker(t)
  <2>1. PICK n \in Id : n = nid
    BY <1>2, SpawnPhase
  <2>2. st[n] = <<>> /\ Alone(n) /\ st'[n] = Steps(<<"init", "ready", "loop">>)
    BY <1>2, <2>1, SpawnPhase
  <2>3. \A M : ~Has(n, M)
    BY <2>2 DEF Has
  <2>4. \A M : Has(n, M)' <=> M \cap {"init", "ready", "loop"} # {}
    <3> DEFINE names == <<"init", "ready", "loop">>
    <3>1. names \in Seq(Names) /\ \A M : (\E i \in DOMAIN names : names[i] \in M)
                                           <=> M \cap {"init", "ready", "loop"} # {}
      BY DEF Names, Oper, Mail
    <3>2. /\ Steps(names) \in Seq(Step) /\ Len(Steps(names)) = Len(names)
          /\ \A i \in 1 .. Len(names) : Steps(names)[i] = S(names[i])
      BY <3>1, StepsSeq
    <3> HIDE DEF names
    <3>3. DOMAIN Steps(names) = DOMAIN names /\ \A i \in DOMAIN names : Steps(names)[i][1] = names[i]
      <4>1. DOMAIN names = 1 .. Len(names) /\ DOMAIN Steps(names) = 1 .. Len(names)
        BY <3>1, <3>2
      <4> QED BY <3>2, <4>1 DEF S
    <3>4. st'[n] = Steps(names)
      BY <2>2 DEF names
    <3> QED BY <3>1, <3>3, <3>4 DEF Has
  <2>5. /\ ~Counted(n) /\ ~Counted(n)'
        /\ ~Has(n, {"release"})' /\ ~Has(n, {"leave_alive"})'
    BY <2>3, <2>4 DEF Counted
  <2> QED BY <1>1, <2>2, <2>5, CountedStep
<1>3. CASE ~SpawnWorker(t)
  <2>1. st' = st
    BY <1>3 DEF Request, AppStep, ThreadStart, Post, ThreadFini, SpawnLock, Answered, ThreadGone
  <2> QED BY <1>1, <2>1 DEF AliveInv, Counted, Has
<1> QED BY <1>2, <1>3

-----------------------------------------------------------------------------
(* The barrier.                                                            *)

(* While a worker collects, all workers are counted. *)
LEMMA AllCounted ==
    ASSUME IInv, AliveInv, NEW c \in Id, NEW g \in 0 .. 5, Busy(c, g)
    PROVE  /\ alive = Cardinality({v \in Id : st[v] # <<>>})
           /\ \A v \in Id : Top(v) # "leave_alive"
           /\ \A v \in Id : ~Has(v, {"init"})
PROOF
<1>1. \A x \in Id : Holds(x) => x = c
  BY LeaderAlone
<1>2. Top(c) \in Names \ {"init", "leave_alive", "xunlock"} /\ st[c] # <<>>
  <2>1. PICK b \in Base : Lead(st[c], wait, newframe, g, b)
    BY DEF Busy, Leads
  <2>2. LeadTops(st[c], wait, newframe, g, b)
    BY <2>1, WaitInt, LeadTop
  <2>3. Top(c) = TopOf(st[c])
    BY DEF Top, TopOf
  <2>4. TopOf(st[c]) \in Names
    BY <2>2, BarNames DEF LeadTops
  <2> QED BY <2>2, <2>3, <2>4 DEF LeadTops
<1>3. ASSUME NEW v \in Id, NEW i \in DOMAIN st[v]
      PROVE  /\ i \in 1 .. Len(st[v]) /\ Len(st[v]) \in Nat /\ st[v] \in Seq(Step)
             /\ st[v][i][1] \in Names
  <2>1. st[v] \in Seq(Step)
    BY DEF IInv, TypeInv
  <2>2. DOMAIN st[v] = 1 .. Len(st[v]) /\ Len(st[v]) \in Nat /\ st[v][i] \in Step
    BY <2>1
  <2> QED BY <2>1, <2>2 DEF Step
<1>4. ASSUME NEW v \in Id, st[v] # <<>>
      PROVE  1 \in DOMAIN st[v] /\ st[v][1][1] = Top(v) /\ Top(v) \in Names
  <2>1. st[v] \in Seq(Step)
    BY DEF IInv, TypeInv
  <2>2. 1 \in DOMAIN st[v] /\ st[v][1][1] = Top(v)
    BY <1>4, <2>1 DEF Top
  <2> QED BY <1>3, <2>2
<1>5. ASSUME NEW v \in Id, NEW M, NEW N, Has(v, M), Has(v, N),
             \A m \in M \cap Names : \A n \in N : m # n /\ n \notin Under(m) /\ m \notin Under(n)
      PROVE  FALSE
  <2>1. PICK i \in DOMAIN st[v] : st[v][i][1] \in M
    BY <1>5 DEF Has
  <2>2. PICK j \in DOMAIN st[v] : st[v][j][1] \in N
    BY <1>5 DEF Has
  <2>3. i \in 1 .. Len(st[v]) /\ j \in 1 .. Len(st[v]) /\ Len(st[v]) \in Nat
    BY <1>3
  <2>4. i = j \/ i < j \/ j < i
    BY <2>3
  <2>5. st[v][i][1] \in M \cap Names
    BY <1>3, <2>1
  <2>6. /\ i < j => st[v][j][1] \in Under(st[v][i][1])
        /\ j < i => st[v][i][1] \in Under(st[v][j][1])
    BY DEF IInv, Ordered, OrderedStack, Name
  <2> QED BY <1>5, <2>2, <2>4, <2>5, <2>6
<1>6. ASSUME NEW v \in Id, Has(v, {"init"}) PROVE FALSE
  <2>1. Has(v, {"ready"})
    BY <1>6 DEF IInv, StackOf
  <2>2. ~Has(v, {"xlock", "glock"})
    <3>1. \A n \in {"xlock", "glock"} : /\ n # "init" /\ n \notin Under("init")
                                        /\ "init" \notin Under(n)
      BY UnderFacts DEF Frame, Run, Oper, Mail
    <3> QED BY <1>5, <1>6, <3>1
  <2>3. v = c
    <3>1. Has(v, {"ready", "xunlock", "gunlock"})
      BY <2>1 DEF Has
    <3> QED BY <1>1, <2>2, <3>1 DEF Holds
  <2>4. Has(v, {Top(c)})
    BY <1>2, <1>4, <2>3 DEF Has
  <2>5. \A n \in {Top(c)} : n # "init" /\ "init" \notin Under(n) /\ n \notin Under("init")
    <3>1. PICK b \in Base : Lead(st[c], wait, newframe, g, b)
      BY DEF Busy, Leads
    <3>2. LeadTops(st[c], wait, newframe, g, b)
      BY <3>1, WaitInt, LeadTop
    <3>3. Top(c) \in Frame \cup Run
      BY <3>2 DEF LeadTops, Top, TopOf, Frame, Run
    <3>4. \A n \in Frame \cup Run : n # "init" /\ "init" \notin Under(n) /\ n \notin Under("init")
      BY UnderFacts DEF Frame, Run, Oper, Mail, Ends
    <3> QED BY <3>3, <3>4
  <2> QED BY <1>5, <1>6, <2>4, <2>5
<1>7. ASSUME NEW v \in Id, Has(v, {"xunlock"}), Has(v, {"leave_alive", "xunlock"}), v # c
      PROVE  Has(v, Names \ {"leave_alive", "xunlock"})
  <2>1. Has(v, {"xlock", "glock"})
    <3>1. Has(v, {"ready", "xunlock", "gunlock"})
      BY <1>7 DEF Has
    <3> QED BY <1>1, <1>7, <3>1 DEF Holds
  <2>2. {"xlock", "glock"} \subseteq Names \ {"leave_alive", "xunlock"}
    BY DEF Names
  <2> QED BY <2>1, <2>2 DEF Has
<1>8. ASSUME NEW v \in Id, Top(v) = "leave_alive" PROVE FALSE
  <2>1. st[v] # <<>>
    BY <1>8 DEF Top
  <2>2. 1 \in DOMAIN st[v] /\ st[v][1][1] = "leave_alive"
    BY <1>4, <1>8, <2>1
  <2>3. Has(v, {"xunlock"})
    <3>1. Has(v, {"leave_alive"})
      BY <2>2 DEF Has
    <3> QED BY <3>1 DEF AliveInv
  <2>4. ASSUME NEW j \in DOMAIN st[v], st[v][j][1] \in {"xlock", "glock"} PROVE FALSE
    <3>1. j # 1
      BY <2>2, <2>4
    <3>2. 1 < j
      BY <1>3, <3>1
    <3>3. st[v][j][1] \in Under("leave_alive")
      BY <2>2, <3>2 DEF IInv, Ordered, OrderedStack, Name
    <3> QED BY <2>4, <3>3, UnderFacts
  <2>5. Holds(v)
    <3>1. Has(v, {"ready", "xunlock", "gunlock"})
      BY <2>3 DEF Has
    <3> QED BY <2>4, <3>1 DEF Holds, Has
  <2> QED BY <1>1, <1>2, <1>8, <2>5
<1>9. ASSUME NEW v \in Id PROVE Counted(v) <=> st[v] # <<>>
  <2>1. Counted(v) => st[v] # <<>>
    BY DEF Counted, Has
  <2>2. ASSUME st[v] # <<>>, ~Has(v, {"loop", "leave_alive"}) PROVE FALSE
    <3>1. Top(v) \in Names /\ Has(v, {Top(v)})
      BY <1>4, <2>2 DEF Has
    <3>2. ~Has(v, {"leave_alive"}) /\ ~Has(v, {"loop"})
      BY <2>2 DEF Has
    <3>3. ~Has(v, {"loop", "release"})
      <4>1. ~Has(v, {"release"})
        BY <3>2 DEF AliveInv
      <4> QED BY <3>2, <4>1 DEF Has
    <3>4. ~Has(v, Names \ {"leave_alive", "xunlock"})
      BY <3>3 DEF IInv, StackOf
    <3>5. Top(v) = "xunlock"
      BY <3>1, <3>2, <3>4 DEF Has
    <3>6. v # c
      BY <1>2, <3>5
    <3>7. Has(v, {"xunlock"}) /\ Has(v, {"leave_alive", "xunlock"})
      BY <3>1, <3>5 DEF Has
    <3> QED BY <1>7, <3>4, <3>6, <3>7
  <2> QED BY <1>6, <2>1, <2>2 DEF Counted
<1>10. {v \in Id : Counted(v)} = {v \in Id : st[v] # <<>>}
  BY <1>9
<1> QED BY <1>6, <1>8, <1>10 DEF AliveInv

LEMMA OtherTops ==
    ASSUME NEW w \in Id, Alone(w)
    PROVE  \A v \in Id \ {w} : Top(v)' = Top(v) /\ Local(v)' = Local(v) /\ (st'[v] # <<>> <=> st[v] # <<>>)
BY DEF Top, Local, Alone

LEMMA Finite ==
    ASSUME NEW V \in SUBSET Id
    PROVE  IsFiniteSet(V) /\ Cardinality(V) \in Nat
PROOF
<1>1. IsFiniteSet(Id)
  BY IdAssumption, FS_Interval DEF Id
<1>2. IsFiniteSet(V)
  BY <1>1, FS_Subset
<1> QED BY <1>2, FS_CardinalityType

(* Steps that have nothing to do with the barrier. *)
LEMMA BarQuiet ==
    ASSUME BarInv, NEW w \in Id, Alone(w), UNCHANGED barVars,
           Top(w) \notin BarTops, Top(w)' \notin BarTops,
           \A v \in Id : Top(v) \notin {"reset", "flip"}
    PROVE  BarInv'
PROOF
<1>1. /\ count' = count /\ leaving' = leaving /\ wait' = wait
      /\ Top(w) \notin {"spin", "reset", "flip", "leave"}
      /\ Top(w)' \notin {"spin", "reset", "flip", "leave"}
  BY DEF barVars, BarTops
<1>2. \A v \in Id \ {w} : Top(v)' = Top(v) /\ Local(v)' = Local(v)
  BY OtherTops
<1>3. \A v \in Id : Top(v)' \notin {"reset", "flip"}
  BY <1>1, <1>2
<1>4. \A v \in Id : (Waiting(v)' <=> Waiting(v)) /\ (Released(v)' <=> Released(v))
  BY <1>1, <1>2 DEF Waiting, Released
<1>5. {v \in Id : Waiting(v)}' = {v \in Id : Waiting(v)} /\ {v \in Id : Released(v)}' = {v \in Id : Released(v)}
  BY <1>4
<1>6. BarrierCount'
  BY <1>1, <1>3, <1>5 DEF BarInv, BarrierCount
<1> QED BY <1>1, <1>3, <1>6 DEF BarInv

LEMMA BarSilent ==
    ASSUME BarInv, NEW w \in Id, Silent(w)
    PROVE  BarInv'
PROOF
<1>1. /\ Alone(w) /\ UNCHANGED barVars /\ st[w] # <<>>
      /\ Top(w) \notin BarTops /\ Top(w)' \notin BarTops
  BY DEF Silent
<1>2. \A v \in Id : Top(v) \notin {"reset", "flip"}
  BY <1>1 DEF BarInv, BarTops
<1> QED BY <1>1, <1>2, BarQuiet

(* The top of w is one that nobody may have next to a last worker. *)
LEMMA NotLast ==
    ASSUME BarInv, NEW w \in Id, st[w] # <<>>, Top(w) # "spin" \/ Local(w) # wait
    PROVE  \A v \in Id \ {w} : Top(v) \notin {"reset", "flip"}
BY DEF BarInv

LEMMA BusyStep ==
    ASSUME IInv, PhaseInv, NEW w \in Id, Top(w) \in {"add", "reset", "flip"}
    PROVE  \E c \in Id : \E g \in 0 .. 5 : Busy(c, g)
PROOF
<1>1. Top(w) \in Names \ Plain
  BY BarNames
<1> QED BY <1>1, FramePlaces

LEMMA BarReadStep ==
    ASSUME IInv, PhaseInv, BarInv, NEW w \in Id, BarRead(w)
    PROVE  BarInv'
PROOF
<1>1. Top(w) = "read" /\ Bar(w, <<<<"add", wait>>>>) /\ UNCHANGED barVars /\ wait \in Int /\ TypeInv
  BY WaitInt DEF BarRead, At, IInv
<1>2. st[w] # <<>>
  BY <1>1 DEF Top
<1>3. st'[w] = Cons(<<"add", wait>>, Tail(st[w])) /\ Alone(w) /\ Tail(st[w]) \in Seq(Step)
  <2>1. Alone(w) /\ Tail(st[w]) \in Seq(Step) /\ \A p : Bar(w, p) => st'[w] = p \o Tail(st[w])
    BY <1>1, <1>2, Moves DEF Alone
  <2> QED BY <1>1, <2>1 DEF Cons
<1>4. Top(w)' = "add"
  <2>1. TopOf(Cons(<<"add", wait>>, Tail(st[w]))) = "add"
    BY <1>1, <1>3, TopCons, BarNames
  <2>2. TopOf(st'[w]) = "add"
    BY <1>3, <2>1
  <2> QED BY <2>2 DEF Top, TopOf
<1>5. Silent(w)
  BY <1>1, <1>2, <1>3, <1>4 DEF Silent, BarTops
<1> QED BY <1>5, BarSilent

(* The stacks of a worker that has been counted, last or not. *)
LEMMA AddStack ==
    ASSUME NEW v \in Int, NEW y \in Seq(Step)
    PROVE  /\ <<<<"reset", v>>, <<"flip", v>>, S("leave")>> \o y
                 = Cons(<<"reset", v>>, Cons(<<"flip", v>>, On("leave", y)))
           /\ <<<<"spin", v>>, S("leave")>> \o y = Cons(<<"spin", v>>, On("leave", y))
           /\ TopOf(Cons(<<"reset", v>>, Cons(<<"flip", v>>, On("leave", y)))) = "reset"
           /\ TopOf(Cons(<<"spin", v>>, On("leave", y))) = "spin"
           /\ Head(Cons(<<"spin", v>>, On("leave", y)))[2] = v
PROOF
<1> DEFINE a == <<"reset", v>>
           b == <<"flip", v>>
           c == <<"spin", v>>
           d == S("leave")
<1>1. a \in Step /\ b \in Step /\ c \in Step /\ d \in Step
  BY TopCons, NameSteps, BarNames
<1>2. On("leave", y) \in Seq(Step) /\ Cons(b, On("leave", y)) \in Seq(Step)
  <2>1. On("leave", y) \in Seq(Step)
    BY TopOn, BarNames
  <2> QED BY <2>1, TopCons, BarNames
<1>3. /\ TopOf(Cons(a, Cons(b, On("leave", y)))) = "reset"
      /\ TopOf(Cons(c, On("leave", y))) = "spin" /\ Head(Cons(c, On("leave", y)))[2] = v
  BY <1>2, TopCons, BarNames
<1>4. On("leave", y) = Cons(d, y)
  BY DEF On
<1> HIDE DEF a, b, c, d
<1>5. <<a, b, d>> \o y = Cons(a, Cons(b, Cons(d, y))) /\ <<c, d>> \o y = Cons(c, Cons(d, y))
  <2>1. <<a, b, d>> \o y = Cons(a, Cons(b, Cons(d, y)))
    BY <1>1, JoinThree
  <2>2. <<c, d>> \o y = Cons(c, Cons(d, y))
    BY <1>1, JoinTwo
  <2> QED BY <2>1, <2>2
<1> QED BY <1>3, <1>4, <1>5 DEF a, b, c, d

LEMMA BarAddStep ==
    ASSUME IInv, PhaseInv, AliveInv, BarInv, NEW w \in Id, BarAdd(w)
    PROVE  BarInv'
PROOF
<1>1. /\ Top(w) = "add" /\ count' = count + 1 /\ leaving' = leaving /\ wait' = wait /\ alive' = alive
      /\ TypeInv /\ wait \in Int
  BY WaitInt DEF BarAdd, At, IInv
<1>2. st[w] # <<>>
  BY <1>1 DEF Top
<1>3. Local(w) = wait
  BY <1>1, WaitLocal
<1>4. Tail(st[w]) \in Seq(Step)
  BY <1>1, <1>2, Moves
<1> DEFINE y == Tail(st[w])
           l == Cons(<<"reset", wait>>, Cons(<<"flip", wait>>, On("leave", y)))
           m == Cons(<<"spin", wait>>, On("leave", y))
<1>5. /\ <<<<"reset", wait>>, <<"flip", wait>>, S("leave")>> \o y = l
      /\ <<<<"spin", wait>>, S("leave")>> \o y = m
      /\ TopOf(l) = "reset" /\ TopOf(m) = "spin" /\ Head(m)[2] = wait
  BY <1>1, <1>4, AddStack
<1> HIDE DEF l, m
<1>6. /\ Alone(w)
      /\ \/ count' = alive /\ st'[w] = l
         \/ count' # alive /\ st'[w] = m
  <2>1. \A p : Bar(w, p) => st'[w] = p \o y /\ Alone(w)
    BY <1>1, <1>2, Moves DEF Alone
  <2>2. CASE count' = alive
    <3>1. Bar(w, <<<<"reset", wait>>, <<"flip", wait>>, S("leave")>>)
      BY <1>1, <1>3, <2>2, LastTwo DEF BarAdd
    <3> HIDE DEF y
    <3> QED BY <1>5, <2>1, <2>2, <3>1
  <2>3. CASE count' # alive
    <3>1. Bar(w, <<<<"spin", wait>>, S("leave")>>)
      BY <1>3, <2>3 DEF BarAdd
    <3> HIDE DEF y
    <3> QED BY <1>5, <2>1, <2>3, <3>1
  <2> QED BY <2>2, <2>3
<1>7. \/ count' = alive /\ Top(w)' = "reset"
      \/ count' # alive /\ Top(w)' = "spin" /\ Local(w)' = wait
  <2>1. Top(w)' = TopOf(st'[w]) /\ Local(w)' = Head(st'[w])[2]
    BY DEF Top, TopOf, Local
  <2> QED BY <1>5, <1>6, <2>1
<1> HIDE DEF y
<1>8. st'[w] # <<>>
  BY <1>7 DEF Top
<1>9. \A v \in Id \ {w} : Top(v)' = Top(v) /\ Local(v)' = Local(v) /\ (st'[v] # <<>> <=> st[v] # <<>>)
  BY <1>6, OtherTops
<1>10. \A v \in Id \ {w} : Top(v) \notin {"reset", "flip"} /\ Top(v)' \notin {"reset", "flip"}
  BY <1>1, <1>2, <1>9, NotLast
<1> DEFINE W == {v \in Id : Waiting(v)}
           R == {v \in Id : Released(v)}
           A == {v \in Id : st[v] # <<>>}
<1>11. w \notin W /\ W' = W \cup {w} /\ R' = R
  <2>1. ~Waiting(w) /\ Waiting(w)' /\ ~Released(w) /\ ~Released(w)'
    BY <1>1, <1>7 DEF Waiting, Released
  <2>2. \A v \in Id \ {w} : (Waiting(v)' <=> Waiting(v)) /\ (Released(v)' <=> Released(v))
    BY <1>1, <1>9 DEF Waiting, Released
  <2> QED BY <2>1, <2>2
<1>12. W' \subseteq A /\ W \in SUBSET Id /\ A \in SUBSET Id /\ W' \in SUBSET Id
  <2>1. W \subseteq A
    BY DEF Waiting, Top
  <2> QED BY <1>2, <1>11, <2>1
<1>13. \A v \in Id : Top(v) # "flip" /\ Top(v)' # "flip"
  BY <1>1, <1>7, <1>10
<1>14. count = Cardinality(W) /\ leaving = Cardinality(R)
  BY <1>13 DEF BarInv, BarrierCount
<1>15. count' = Cardinality(W') /\ leaving' = Cardinality(R')
  <2>1. IsFiniteSet(W)
    BY <1>12, Finite
  <2> HIDE DEF W, R
  <2>2. Cardinality(W \cup {w}) = Cardinality(W) + 1
    BY <1>11, <2>1, FS_AddElement
  <2> QED BY <1>1, <1>11, <1>14, <2>2
<1>16. BarrierCount'
  BY <1>13, <1>15 DEF BarrierCount
<1>17. ASSUME NEW x \in Id, Top(x)' \in {"reset", "flip"}, NEW v \in Id \ {x}, st'[v] # <<>>
       PROVE  Top(v)' = "spin" /\ Local(v)' = wait'
  <2>1. x = w /\ count' = alive
    BY <1>7, <1>10, <1>17
  <2>2. alive = Cardinality(A)
    BY <1>1, BusyStep, AllCounted
  <2>3. W' = A
    <3>1. IsFiniteSet(A)
      BY <1>12, Finite
    <3>2. W' \subseteq A /\ Cardinality(W') = Cardinality(A)
      BY <1>12, <1>15, <2>1, <2>2
    <3> HIDE DEF W, A
    <3> QED BY <3>1, <3>2, FS_Subset
  <2>4. v \in A
    BY <1>9, <1>17, <2>1
  <2>5. Waiting(v)'
    BY <2>3, <2>4
  <2> QED BY <1>10, <2>1, <2>5 DEF Waiting
<1> QED BY <1>1, <1>16, <1>17 DEF BarInv

LEMMA BarResetStep ==
    ASSUME IInv, PhaseInv, BarInv, NEW w \in Id, BarReset(w)
    PROVE  BarInv'
PROOF
<1>1. /\ Top(w) = "reset" /\ count' = 0 /\ leaving' = alive /\ wait' = wait /\ alive' = alive
      /\ TypeInv /\ Pop(w) /\ wait \in Int
  BY WaitInt DEF BarReset, At, IInv
<1>2. st[w] # <<>>
  BY <1>1 DEF Top
<1>3. Alone(w) /\ st'[w] = Tail(st[w])
  BY <1>1, <1>2, Moves DEF Alone
<1>4. Top(w)' = "flip"
  <2>1. PICK y \in Seq(Step) : Waits(st[w], wait, y)
    BY <1>1, WaitsShape
  <2>2. TopOf(st[w]) = "reset"
    BY <1>1, <1>2 DEF Top, TopOf
  <2>3. st'[w] = Cons(<<"flip", wait>>, On("leave", y))
    BY <1>1, <1>3, <2>1, <2>2, WaitsTop
  <2>4. On("leave", y) \in Seq(Step)
    BY TopOn, BarNames
  <2>5. TopOf(st'[w]) = "flip"
    BY <1>1, <2>3, <2>4, TopCons, BarNames
  <2> QED BY <2>5 DEF Top, TopOf
<1>5. \A v \in Id \ {w} : Top(v)' = Top(v) /\ Local(v)' = Local(v) /\ (st'[v] # <<>> <=> st[v] # <<>>)
  BY <1>3, OtherTops
<1>6. \A v \in Id \ {w} : st[v] # <<>> => Top(v) = "spin" /\ Local(v) = wait
  BY <1>1 DEF BarInv
<1>7. \A v \in Id \ {w} : Top(v)' \notin {"reset", "flip"}
  <2>1. \A v \in Id : st[v] = <<>> => Top(v) = "none"
    BY DEF Top
  <2> QED BY <1>5, <1>6, <2>1
<1>8. BarrierCount'
  BY <1>1, <1>4 DEF BarrierCount
<1> QED BY <1>1, <1>5, <1>6, <1>7, <1>8 DEF BarInv

LEMMA BarFlipStep ==
    ASSUME IInv, PhaseInv, AliveInv, BarInv, NEW w \in Id, BarFlip(w)
    PROVE  BarInv'
PROOF
<1>1. /\ Top(w) = "flip" /\ count' = count /\ leaving' = leaving /\ wait' = 1 - Local(w)
      /\ TypeInv /\ Pop(w) /\ wait \in Int /\ wait \in {0, 1}
  BY WaitInt DEF BarFlip, At, IInv, BarInv
<1>2. st[w] # <<>> /\ TopOf(st[w]) = "flip"
  BY <1>1 DEF Top, TopOf
<1>3. Alone(w) /\ st'[w] = Tail(st[w])
  BY <1>1, <1>2, Moves DEF Alone
<1>4. Local(w) = wait
  BY <1>1, WaitLocal
<1>5. Top(w)' = "leave"
  <2>1. PICK y \in Seq(Step) : Waits(st[w], wait, y)
    BY <1>1, WaitsShape
  <2>2. st'[w] = On("leave", y)
    <3>1. Tail(st[w]) = On("leave", y)
      BY <1>1, <1>2, <2>1, WaitsTop
    <3> QED BY <1>3, <3>1
  <2>3. TopOf(st'[w]) = "leave"
    BY <2>2, TopOn, BarNames
  <2> QED BY <2>3 DEF Top, TopOf
<1>6. \A v \in Id \ {w} : Top(v)' = Top(v) /\ Local(v)' = Local(v) /\ (st'[v] # <<>> <=> st[v] # <<>>)
  BY <1>3, OtherTops
<1>7. \A v \in Id \ {w} : st[v] # <<>> => Top(v) = "spin" /\ Local(v) = wait
  BY <1>1 DEF BarInv
<1>8. \A v \in Id : st[v] = <<>> => Top(v) = "none"
  BY DEF Top
<1>9. wait' \in {0, 1} /\ wait' # wait
  BY <1>1, <1>4
<1>10. \A v \in Id : Top(v)' \notin {"reset", "flip"}
  BY <1>5, <1>6, <1>7, <1>8
<1>11. \A v \in Id : ~Waiting(v)' /\ (Released(v)' <=> st[v] # <<>>)
  <2> TAKE v \in Id
  <2>1. CASE v = w
    BY <1>2, <1>5, <2>1 DEF Waiting, Released
  <2>2. CASE v # w /\ st[v] # <<>>
    <3>1. Top(v)' = "spin" /\ Local(v)' # wait'
      BY <1>6, <1>7, <1>9, <2>2
    <3> QED BY <2>2, <3>1 DEF Waiting, Released
  <2>3. CASE v # w /\ st[v] = <<>>
    <3>1. Top(v)' = "none"
      BY <1>6, <1>8, <2>3
    <3> QED BY <2>3, <3>1 DEF Waiting, Released
  <2> QED BY <2>1, <2>2, <2>3
<1>12. count = 0 /\ leaving = alive
  BY <1>1 DEF BarInv, BarrierCount
<1>13. alive = Cardinality({v \in Id : st[v] # <<>>})
  BY <1>1, BusyStep, AllCounted
<1>14. {v \in Id : Waiting(v)}' = {} /\ {v \in Id : Released(v)}' = {v \in Id : st[v] # <<>>}
  BY <1>11
<1>15. count' = Cardinality({v \in Id : Waiting(v)}')
  BY <1>1, <1>12, <1>14, FS_EmptySet
<1>16. leaving' = Cardinality({v \in Id : Released(v)}')
  BY <1>1, <1>12, <1>13, <1>14
<1>17. BarrierCount'
  BY <1>10, <1>15, <1>16 DEF BarrierCount
<1> QED BY <1>9, <1>10, <1>17 DEF BarInv

(* What a worker that is released from a barrier does next. *)
LEMMA AfterTops ==
    ASSUME NEW b \in Base, NEW g \in 1 .. 5
    PROVE  TopOf(FA(g, b)) \notin BarTops /\ TopOf(LA(g, b)) \notin BarTops
PROOF
<1>1. b \in Seq(Step) /\ F5(b) \in Seq(Step) /\ F4(b) \in Seq(Step)
  BY ShapeTypes DEF Base
<1>2. /\ TopOf(L1(b)) = "clear" /\ TopOf(L2(b)) = "collect" /\ TopOf(L3(b)) = "clear"
      /\ TopOf(L4(b)) = "mark" /\ TopOf(L5(b)) = "done" /\ TopOf(F5(b)) = "steal"
      /\ TopOf(F4(b)) = "mark"
  BY <1>1, ShapeTops
<1>3. TopOf(F1(b)) = "read" /\ TopOf(F3(b)) = "read"
  BY <1>1, TopOn, BarNames DEF F1, F3
<1>4. g = 1 \/ g = 2 \/ g = 3 \/ g = 4 \/ g = 5
  OBVIOUS
<1>5. TopOf(FA(g, b)) \in {"read", "steal", "mark"}
  BY <1>2, <1>3, <1>4, Afters
<1>6. TopOf(LA(g, b)) \in {"clear", "collect", "mark", "done"}
  BY <1>2, <1>4, Afters
<1> QED BY <1>5, <1>6 DEF BarTops

LEMMA LeavesShape ==
    ASSUME IInv, PhaseInv, NEW w \in Id, Top(w) = "leave" \/ (Top(w) = "spin" /\ Local(w) # wait)
    PROVE  \E y \in Seq(Step) : Leaves(st[w], wait, y) /\ TopOf(y) \notin BarTops
PROOF
<1>1. st[w] # <<>> /\ TopOf(st[w]) = Top(w) /\ wait \in Int
  BY WaitInt DEF Top, TopOf
<1>2. TopOf(st[w]) \in {"spin", "leave"} /\ TopOf(st[w]) \notin Plain \cup {"none", "await", "glock"}
  BY <1>1, BarNames
<1>3. ASSUME NEW y \in Seq(Step), Waits(st[w], wait, y) PROVE FALSE
  <2>1. TopOf(st[w]) \in {"read", "add", "spin", "reset", "flip"}
    BY <1>1, <1>3, WaitsTop
  <2>2. TopOf(st[w]) = "spin" /\ Head(st[w])[2] = wait
    BY <1>1, <1>2, <1>3, <2>1, WaitsTop
  <2> QED BY <1>1, <2>2 DEF Local
<1>4. ASSUME Away(w)
      PROVE  \E y \in Seq(Step) : Leaves(st[w], wait, y) /\ TopOf(y) \notin BarTops
  <2>1. PICK b \in Base : Leaves(st[w], wait, b)
    BY <1>1, <1>2, <1>4, OutTop DEF Away
  <2>2. b \in Seq(Step) /\ b # <<>> /\ Rest(b)
    BY DEF Base
  <2>3. TopOf(b) \in Plain
    BY <2>2, RestFacts
  <2>4. TopOf(b) \notin BarTops
    BY <2>3, BarNames DEF BarTops
  <2> QED BY <2>1, <2>2, <2>4
<1>5. ASSUME NEW g \in 0 .. 5, NEW b \in Base, Lead(st[w], wait, newframe, g, b)
      PROVE  \E y \in Seq(Step) : Leaves(st[w], wait, y) /\ TopOf(y) \notin BarTops
  <2>1. LeadTops(st[w], wait, newframe, g, b)
    BY <1>1, <1>5, LeadTop
  <2>2. \/ Waits(st[w], wait, LA(g + 1, b))
        \/ g > 0 /\ Leaves(st[w], wait, LA(g, b))
    BY <1>2, <2>1 DEF LeadTops
  <2>3. LA(g + 1, b) \in Seq(Step) /\ (g > 0 => LA(g, b) \in Seq(Step))
    BY NextTypes
  <2>4. g \in 1 .. 5 /\ Leaves(st[w], wait, LA(g, b))
    BY <1>3, <2>2, <2>3
  <2>5. TopOf(LA(g, b)) \notin BarTops
    BY <2>4, AfterTops
  <2> QED BY <2>3, <2>4, <2>5
<1>6. ASSUME NEW g \in 0 .. 5, NEW b \in Base, Join(st[w], wait, newframe, g, b)
      PROVE  \E y \in Seq(Step) : Leaves(st[w], wait, y) /\ TopOf(y) \notin BarTops
  <2>1. JoinTops(st[w], wait, newframe, g, b)
    BY <1>1, <1>6, JoinTop
  <2>2. \/ Waits(st[w], wait, FA(g + 1, b))
        \/ g > 0 /\ Leaves(st[w], wait, FA(g, b))
    BY <1>2, <2>1 DEF JoinTops
  <2>3. FA(g + 1, b) \in Seq(Step) /\ (g > 0 => FA(g, b) \in Seq(Step))
    BY NextTypes
  <2>4. g \in 1 .. 5 /\ Leaves(st[w], wait, FA(g, b))
    BY <1>3, <2>2, <2>3
  <2>5. TopOf(FA(g, b)) \notin BarTops
    BY <2>4, AfterTops
  <2> QED BY <2>3, <2>4, <2>5
<1> QED BY <1>1, <1>4, <1>5, <1>6, Places

LEMMA BarSpinStep ==
    ASSUME IInv, PhaseInv, BarInv, NEW w \in Id, BarSpin(w)
    PROVE  BarInv'
PROOF
<1>1. /\ Top(w) = "spin" /\ Local(w) # wait /\ UNCHANGED barVars /\ wait \in Int /\ TypeInv /\ Pop(w)
      /\ alive' = alive
  BY WaitInt DEF BarSpin, At, IInv
<1>2. st[w] # <<>> /\ TopOf(st[w]) = "spin"
  BY <1>1 DEF Top, TopOf
<1>3. st'[w] = Tail(st[w]) /\ Alone(w)
  BY <1>1, <1>2, Moves DEF Alone
<1>4. Top(w)' = "leave"
  <2>1. PICK y \in Seq(Step) : Leaves(st[w], wait, y)
    BY <1>1, LeavesShape
  <2>2. Tail(st[w]) = On("leave", y)
    BY <1>1, <1>2, <2>1, LeavesTop
  <2>3. TopOf(On("leave", y)) = "leave"
    BY TopOn, BarNames
  <2> QED BY <1>3, <2>2, <2>3 DEF Top, TopOf
<1>5. \A v \in Id \ {w} : Top(v)' = Top(v) /\ Local(v)' = Local(v)
  BY <1>3, OtherTops
<1>6. \A v \in Id : Top(v) \notin {"reset", "flip"}
  BY <1>1, <1>2, NotLast
<1>7. \A v \in Id : Top(v)' \notin {"reset", "flip"}
  BY <1>4, <1>5, <1>6
<1>8. \A v \in Id : (Waiting(v)' <=> Waiting(v)) /\ (Released(v)' <=> Released(v))
  <2>1. ~Waiting(w) /\ ~Waiting(w)' /\ Released(w) /\ Released(w)'
    BY <1>1, <1>4 DEF Waiting, Released
  <2>2. \A v \in Id \ {w} : (Waiting(v)' <=> Waiting(v)) /\ (Released(v)' <=> Released(v))
    BY <1>1, <1>5 DEF Waiting, Released, barVars
  <2> QED BY <2>1, <2>2
<1>9. {v \in Id : Waiting(v)}' = {v \in Id : Waiting(v)} /\ {v \in Id : Released(v)}' = {v \in Id : Released(v)}
  BY <1>8
<1>10. BarrierCount'
  BY <1>1, <1>6, <1>7, <1>9 DEF BarInv, BarrierCount, barVars
<1> QED BY <1>1, <1>7, <1>10 DEF BarInv, barVars

LEMMA BarLeaveStep ==
    ASSUME IInv, PhaseInv, BarInv, NEW w \in Id, BarLeave(w)
    PROVE  BarInv'
PROOF
<1>1. /\ Top(w) = "leave" /\ leaving' = leaving - 1 /\ count' = count /\ wait' = wait
      /\ wait \in Int /\ TypeInv /\ Pop(w)
  BY WaitInt DEF BarLeave, At, IInv
<1>2. st[w] # <<>> /\ TopOf(st[w]) = "leave"
  BY <1>1 DEF Top, TopOf
<1>3. st'[w] = Tail(st[w]) /\ Alone(w)
  BY <1>1, <1>2, Moves DEF Alone
<1>4. Top(w)' \notin BarTops
  <2>1. PICK y \in Seq(Step) : Leaves(st[w], wait, y) /\ TopOf(y) \notin BarTops
    BY <1>1, LeavesShape
  <2>2. st'[w] = y
    <3>1. Tail(st[w]) = y
      BY <1>1, <1>2, <2>1, LeavesTop
    <3> QED BY <1>3, <3>1
  <2>3. Top(w)' = TopOf(st'[w])
    BY DEF Top, TopOf
  <2> QED BY <2>1, <2>2, <2>3
<1>5. \A v \in Id \ {w} : Top(v)' = Top(v) /\ Local(v)' = Local(v)
  BY <1>3, OtherTops
<1>6. \A v \in Id : Top(v) \notin {"reset", "flip"}
  BY <1>1, <1>2, NotLast
<1>7. \A v \in Id : Top(v)' \notin {"reset", "flip"}
  BY <1>4, <1>5, <1>6 DEF BarTops
<1> DEFINE W == {v \in Id : Waiting(v)}
           R == {v \in Id : Released(v)}
<1>8. W' = W /\ R' = R \ {w} /\ w \in R
  <2>1. ~Waiting(w) /\ ~Waiting(w)' /\ Released(w) /\ ~Released(w)'
    BY <1>1, <1>4 DEF Waiting, Released, BarTops
  <2>2. \A v \in Id \ {w} : (Waiting(v)' <=> Waiting(v)) /\ (Released(v)' <=> Released(v))
    BY <1>1, <1>5 DEF Waiting, Released
  <2> QED BY <2>1, <2>2
<1>9. count = Cardinality(W) /\ leaving = Cardinality(R)
  BY <1>6 DEF BarInv, BarrierCount
<1>10. count' = Cardinality(W') /\ leaving' = Cardinality(R')
  <2>1. IsFiniteSet(R)
    BY Finite
  <2> HIDE DEF W, R
  <2>2. Cardinality(R \ {w}) = Cardinality(R) - 1
    BY <1>8, <2>1, FS_RemoveElement
  <2> QED BY <1>1, <1>8, <1>9, <2>2
<1>11. BarrierCount'
  BY <1>7, <1>10 DEF BarrierCount
<1> QED BY <1>1, <1>7, <1>11 DEF BarInv

(* A step leaves the barrier as it should be. *)
LEMMA BarWorker ==
    ASSUME IInv, IInv', PhaseInv, AliveInv, BarInv, NEW w \in Id, TableFull(w) \/ WorkerStep(w)
    PROVE  BarInv'
PROOF
<1>1. CASE LifeStep(w) \/ TableFull(w)
  BY <1>1, LifePhase, BarSilent
<1>2. CASE FrameStep(w)
  <2>1. Silent(w)
    BY <1>2, GcPhase, LifePhase, AwaitPhase, GcLockPhase, SetPhase, ClearPhase, CollectPhase,
       DonePhase, YieldPhase, StealPhase, MarkPhase DEF FrameStep
  <2> QED BY <2>1, BarSilent
<1>3. CASE BarrierStep(w)
  BY <1>3, BarReadStep, BarAddStep, BarResetStep, BarFlipStep, BarSpinStep, BarLeaveStep
     DEF BarrierStep
<1> QED BY <1>1, <1>2, <1>3 DEF WorkerStep

LEMMA BarStill ==
    ASSUME BarInv, st' = st, UNCHANGED barVars, alive' = alive
    PROVE  BarInv'
BY DEF BarInv, BarrierCount, Waiting, Released, Top, Local, barVars

LEMMA BarThread ==
    ASSUME IInv, PhaseInv, BarInv, NEW t \in Threads, Request(t) \/ AppStep(t)
    PROVE  BarInv'
PROOF
<1>1. CASE SpawnWorker(t)
  <2>1. /\ Calm /\ nid \in Id /\ st[nid] = <<>> /\ Alone(nid)
        /\ st'[nid] = Steps(<<"init", "ready", "loop">>)
    BY <1>1, SpawnPhase
  <2>2. Top(nid) = "none"
    BY <2>1 DEF Top
  <2>3. Top(nid)' = "init"
    <3>1. Steps(<<"init", "ready", "loop">>) = <<S("init"), S("ready"), S("loop")>>
      BY DEF Steps
    <3>2. Top(nid)' = IF st'[nid] = <<>> THEN "none" ELSE Head(st'[nid])[1]
      BY <1>1 DEF Top, SpawnWorker
    <3> QED BY <2>1, <3>1, <3>2 DEF S
  <2>4. \A v \in Id : Top(v) \notin {"reset", "flip"}
    <3> TAKE v \in Id
    <3>1. TopOf(st[v]) \in Plain \cup {"none", "await", "glock", "spin", "leave"}
      BY <2>1, WaitInt, OutTop DEF Calm, Away
    <3> QED BY <3>1, BarNames DEF Top, TopOf
  <2>5. PICK n \in Id : n = nid
    BY <2>1
  <2>6. Top(n)' = "init"
    BY <1>1, <2>3, <2>5 DEF Top, SpawnWorker
  <2>7. UNCHANGED barVars /\ Alone(n) /\ Top(n) \notin BarTops /\ Top(n)' \notin BarTops
    BY <1>1, <2>1, <2>2, <2>5, <2>6 DEF SpawnWorker, BarTops
  <2> QED BY <2>4, <2>7, BarQuiet
<1>2. CASE ~SpawnWorker(t)
  <2>1. st' = st /\ UNCHANGED barVars /\ alive' = alive
    BY <1>2 DEF Request, AppStep, ThreadStart, Post, ThreadFini, SpawnLock, Answered, ThreadGone
  <2> QED BY <2>1, BarStill
<1> QED BY <1>1, <1>2

-----------------------------------------------------------------------------
(* The frame invariant.                                                    *)

LEMMA InitFrames ==
    Init => FInv
PROOF
<1> SUFFICES ASSUME Init PROVE FInv
  OBVIOUS
<1>1. IInv
  BY InitInv
<1>2. \A w \in Id : st[w] = <<>> /\ Top(w) = "none" /\ \A M : ~Has(w, M)
  BY DEF Init, Top, Has
<1>3. PhaseInv
  <2>1. Rest(<<>>)
    BY DEF Rest
  <2>2. \A w \in Id : Away(w)
    BY <1>2, <2>1 DEF Away, Out
  <2>3. newframe = NoFrame
    BY DEF Init
  <2> QED BY <2>2, <2>3 DEF PhaseInv, Calm
<1>4. AliveInv
  <2>1. {w \in Id : Counted(w)} = {}
    BY <1>2 DEF Counted
  <2>2. alive = Cardinality({w \in Id : Counted(w)})
    BY <2>1, FS_EmptySet DEF Init
  <2> QED BY <1>2, <2>2 DEF AliveInv
<1>5. BarInv
  <2>1. {w \in Id : Waiting(w)} = {} /\ {w \in Id : Released(w)} = {}
    BY <1>2 DEF Waiting, Released
  <2>2. count = 0 /\ leaving = 0 /\ wait \in {0, 1}
    BY DEF Init
  <2>3. ~\E w \in Id : Top(w) \in {"reset", "flip"}
    BY <1>2
  <2>4. BarrierCount
    BY <2>1, <2>2, <2>3, FS_EmptySet DEF BarrierCount
  <2> QED BY <2>2, <2>3, <2>4 DEF BarInv
<1> QED BY <1>1, <1>3, <1>4, <1>5 DEF FInv

LEMMA NextFrames ==
    FInv /\ [Next]_vars => FInv'
PROOF
<1> SUFFICES ASSUME FInv, [Next]_vars PROVE FInv'
  OBVIOUS
<1>1. IInv /\ PhaseInv /\ AliveInv /\ BarInv
  BY DEF FInv
<1>2. IInv'
  BY <1>1, NextInv
<1>3. CASE lace_stop \/ UNCHANGED vars
  <2>1. /\ st' = st /\ wait' = wait /\ newframe' = newframe /\ done' = done /\ alive' = alive
        /\ UNCHANGED barVars
    BY <1>3 DEF lace_stop, vars, frameVars, barVars
  <2>2. PhaseInv'
    BY <1>1, <2>1, PhaseStill
  <2>3. AliveInv'
    BY <1>1, <2>1 DEF AliveInv, Counted, Has
  <2>4. BarInv'
    BY <1>1, <2>1, BarStill
  <2> QED BY <1>2, <2>2, <2>3, <2>4 DEF FInv
<1>4. ASSUME NEW t \in Threads, Request(t) \/ AppStep(t) PROVE FInv'
  BY <1>1, <1>2, <1>4, PhaseThread, AliveThread, BarThread DEF FInv
<1>5. ASSUME NEW w \in Id, TableFull(w) \/ WorkerStep(w) PROVE FInv'
  <2>1. PhaseInv'
    BY <1>1, <1>2, <1>5, PhaseWorker
  <2>2. AliveInv'
    BY <1>1, <1>5, AliveLife, AliveFrame, AliveBarrier DEF WorkerStep
  <2>3. BarInv'
    BY <1>1, <1>2, <1>5, BarWorker
  <2> QED BY <1>2, <2>1, <2>2, <2>3 DEF FInv
<1> QED BY <1>3, <1>4, <1>5 DEF Next

LEMMA Frames ==
    Spec => []FInv
BY InitFrames, NextFrames, PTL DEF Spec

(* lace_yield copies the task of the new frame without a look at it: from  *)
(* the moment a worker has seen lace_newframe.t, whoever set it waits in   *)
(* the frame's first barrier for the worker, and does not clear the field, *)
(* for any number of workers.                                              *)
THEOREM CopyWhileSet ==
    Spec => []CopySafe
PROOF
<1>1. FInv => CopySafe
  <2> SUFFICES ASSUME FInv, NEW w \in Id, Top(w) = "copy" PROVE newframe # NoFrame
    BY DEF CopySafe
  <2>1. /\ wait \in Int /\ TopOf(st[w]) = "copy"
        /\ \E c \in Id : \E g \in 0 .. 5 : \E b \in Base :
              Busy(c, g) /\ w # c /\ Join(st[w], wait, newframe, g, b)
    BY FramePlaces, BarNames DEF FInv
  <2>2. PICK g \in 0 .. 5, b \in Base : Join(st[w], wait, newframe, g, b)
    BY <2>1
  <2>3. JoinTops(st[w], wait, newframe, g, b)
    BY <2>1, <2>2, JoinTop
  <2>4. newframe = "steal" \/ newframe = "together"
    BY <2>1, <2>3 DEF JoinTops
  <2> QED BY <2>4, Afters
<1> QED BY <1>1, Frames, PTL

(* While sylvan_gc_go runs in its frame, in the worker that collects or in *)
(* one that helps it to mark, every other worker is inside the frame or    *)
(* has not started: none creates a node that would be swept.               *)
THEOREM CollectsAlone ==
    Spec => []GcAlone
PROOF
<1>1. FInv => GcAlone
  <2> SUFFICES ASSUME FInv, NEW r \in Id, Top(r) \in {"collect", "mark", "help", "done"},
                      NEW w \in Id
               PROVE  Top(w) \notin {"work", "answer", "reply", "loop"}
    BY DEF GcAlone
  <2>1. IInv /\ PhaseInv /\ wait \in Int
    BY WaitInt DEF FInv
  <2>2. Top(r) \in Names \ Plain
    BY BarNames
  <2>3. PICK c \in Id, g \in 0 .. 5 : Busy(c, g) /\ g > 0
    <3>1. Top(r) = TopOf(st[r])
      BY <2>1, <2>2, FramePlaces
    <3>2. \/ \E g \in 0 .. 5 : \E b \in Base : Busy(r, g) /\ Lead(st[r], wait, newframe, g, b)
          \/ \E c \in Id : \E g \in 0 .. 5 : \E b \in Base :
                Busy(c, g) /\ r # c /\ Join(st[r], wait, newframe, g, b)
      BY <2>1, <2>2, FramePlaces
    <3>3. ASSUME NEW g \in 0 .. 5, NEW b \in Base, Lead(st[r], wait, newframe, g, b)
          PROVE  g > 0
      <4>1. LeadTops(st[r], wait, newframe, g, b)
        BY <2>1, <3>3, LeadTop
      <4> QED BY <3>1, <4>1 DEF LeadTops
    <3>4. ASSUME NEW g \in 0 .. 5, NEW b \in Base, Join(st[r], wait, newframe, g, b)
          PROVE  g > 0
      <4>1. JoinTops(st[r], wait, newframe, g, b)
        BY <2>1, <3>4, JoinTop
      <4> QED BY <3>1, <4>1 DEF JoinTops
    <3> QED BY <3>2, <3>3, <3>4
  <2>4. TopOf(st[w]) = Top(w)
    BY DEF Top, TopOf
  <2>5. CASE w = c
    <3>1. PICK b \in Base : Lead(st[w], wait, newframe, g, b)
      BY <2>3, <2>5 DEF Busy, Leads
    <3>2. LeadTops(st[w], wait, newframe, g, b)
      BY <2>1, <3>1, LeadTop
    <3> QED BY <2>4, <3>2 DEF LeadTops
  <2>6. CASE w # c /\ st[w] = <<>>
    BY <2>6 DEF Top
  <2>7. CASE w # c /\ st[w] # <<>>
    <3>1. PICK b \in Base : Join(st[w], wait, newframe, g, b)
      BY <2>3, <2>7 DEF Busy, Joins
    <3>2. JoinTops(st[w], wait, newframe, g, b)
      BY <2>1, <3>1, JoinTop
    <3> QED BY <2>4, <3>2 DEF JoinTops
  <2> QED BY <2>5, <2>6, <2>7
<1> QED BY <1>1, Frames, PTL

(* The words of lace_bar count the workers in the barrier exactly: count   *)
(* those that wait for the flip, leaving those that were released and have *)
(* not left.  No worker enters a barrier with a stale word wait.           *)
THEOREM BarrierExact ==
    Spec => []BarrierCount
PROOF
<1>1. FInv => BarrierCount
  BY DEF FInv, BarInv
<1> QED BY <1>1, Frames, PTL

LEMMA HasCons ==
    ASSUME NEW a \in Step, NEW y \in Seq(Step)
    PROVE  \A M : Hs(Cons(a, y), M) <=> a[1] \in M \/ Hs(y, M)
BY ConsFacts DEF Hs

LEMMA HasOn ==
    ASSUME NEW n \in Names, NEW y \in Seq(Step)
    PROVE  \A M : Hs(On(n, y), M) <=> n \in M \/ Hs(y, M)
BY OnFacts DEF Hs

(* A worker outside of the frames. *)
LEMMA AwayOut ==
    ASSUME IInv, BarInv, NEW v \in Id, Away(v)
    PROVE  ~InFrame(v)
PROOF
<1> DEFINE M == {"read", "add", "reset", "flip"}
<1>1. wait \in Int /\ wait \in {0, 1} /\ wait # 1 - wait /\ 1 - wait \in Int
  BY WaitInt DEF BarInv
<1>2. /\ TopOf(st[v]) = Top(v) /\ (\A N : Has(v, N) <=> Hs(st[v], N))
      /\ (st[v] # <<>> => Local(v) = Head(st[v])[2])
  BY DEF Top, TopOf, Has, Hs, Local
<1>3. ASSUME NEW b, Rest(b) PROVE b \in Seq(Step) /\ ~Hs(b, M)
  BY <1>3, BarNames DEF Rest, Hs
<1>4. "await" \notin M /\ "copy" \notin M /\ "spin" \notin M /\ "leave" \notin M
  OBVIOUS
<1> HIDE DEF M
<1>5. CASE Rest(st[v])
  <2>1. Top(v) \in Plain \cup {"none"}
    BY <1>2, <1>5, RestFacts
  <2>2. ~Waiting(v)
    BY <2>1, BarNames DEF Waiting
  <2> QED BY <1>2, <1>3, <1>5, <2>2 DEF InFrame, M
<1>6. ASSUME NEW b \in Base, st[v] = On("await", On("copy", b)) PROVE ~InFrame(v)
  <2>1. b \in Seq(Step) /\ ~Hs(b, M)
    BY <1>3 DEF Base
  <2>2. On("copy", b) \in Seq(Step) /\ ~Hs(On("copy", b), M)
    BY <1>4, <2>1, TopOn, HasOn, BarNames
  <2>3. ~Hs(st[v], M)
    BY <1>4, <1>6, <2>2, HasOn, BarNames
  <2>4. Top(v) = "await"
    BY <1>2, <1>6, <2>2, TopOn, BarNames
  <2> QED BY <1>2, <2>3, <2>4 DEF InFrame, Waiting, M
<1>7. ASSUME NEW b \in Base, st[v] = On("glock", L0(b)) PROVE ~InFrame(v)
  <2>1. L0(b) \in Seq(Step)
    BY ShapeTypes DEF Base
  <2>2. Hs(On("glock", L0(b)), {"glock"})
    BY <2>1, HasOn, BarNames
  <2> QED BY <1>2, <1>7, <2>2 DEF InFrame
<1>8. ASSUME NEW b \in Base, Leaves(st[v], wait, b) PROVE ~InFrame(v)
  <2>1. b \in Seq(Step) /\ ~Hs(b, M)
    BY <1>3 DEF Base
  <2>2. On("leave", b) \in Seq(Step) /\ ~Hs(On("leave", b), M)
    BY <1>4, <2>1, TopOn, HasOn, BarNames
  <2>3. Top(v) \in {"spin", "leave"} /\ st[v] # <<>>
    BY <1>1, <1>2, <1>8, <2>1, LeavesTop
  <2>4. ~Waiting(v)
    <3>1. Top(v) = "spin" => Local(v) = 1 - wait
      BY <1>1, <1>2, <1>8, <2>1, <2>3, LeavesTop
    <3> QED BY <1>1, <2>3, <3>1 DEF Waiting
  <2>5. ~Hs(st[v], M)
    <3>1. CASE st[v] = On("leave", b)
      BY <2>2, <3>1
    <3>2. CASE st[v] = Cons(<<"spin", 1 - wait>>, On("leave", b))
      <4> DEFINE a == <<"spin", 1 - wait>>
      <4>1. a \in Step /\ a[1] = "spin"
        BY <1>1, NameSteps, BarNames
      <4>2. st[v] = Cons(a, On("leave", b))
        BY <3>2
      <4> HIDE DEF a
      <4>3. Hs(st[v], M) <=> a[1] \in M \/ Hs(On("leave", b), M)
        BY <2>2, <4>1, <4>2, HasCons
      <4> QED BY <1>4, <2>2, <4>1, <4>3
    <3> QED BY <1>8, <3>1, <3>2 DEF Leaves
  <2> QED BY <1>2, <2>4, <2>5 DEF InFrame, M
<1> QED BY <1>5, <1>6, <1>7, <1>8 DEF Away, Out

(* The steps that count workers. *)
LEMMA AliveChange ==
    ASSUME [Next]_vars, alive' # alive
    PROVE  \E w \in Id : WorkerInit(w) \/ ExitAlive(w)
PROOF
<1>1. CASE lace_stop \/ UNCHANGED vars
  BY <1>1 DEF lace_stop, vars
<1>2. ASSUME NEW t \in Threads, Request(t) \/ AppStep(t) PROVE FALSE
  BY <1>2 DEF Request, AppStep, ThreadStart, Post, ThreadFini, SpawnLock, SpawnWorker, Answered,
              ThreadGone
<1>3. ASSUME NEW w \in Id, TableFull(w) \/ WorkerStep(w) PROVE WorkerInit(w) \/ ExitAlive(w)
  <2>1. CASE TableFull(w) \/ LifeStep(w)
    BY <2>1 DEF TableFull, LifeStep, Unlock, lace_steal_loop_ex, Work, Retry, Answer, Reply,
                ExitLock, ExitRelease, YIELD_NEWFRAME
  <2>2. CASE FrameStep(w)
    BY <2>2 DEF FrameStep, sylvan_gc, GcOff, AwaitFrame, GcLock, SetFrame, ClearFrame, Collect,
                Done, lace_yield, lace_steal_loop_in, Mark, Help, YIELD_NEWFRAME
  <2>3. CASE BarrierStep(w)
    BY <2>3 DEF BarrierStep, BarRead, BarAdd, BarReset, BarFlip, BarSpin, BarLeave
  <2> QED BY <1>3, <2>1, <2>2, <2>3 DEF WorkerStep
<1> QED BY <1>1, <1>2, <1>3 DEF Next

(* lace_n_workers_alive, which the barriers compare with, does not change  *)
(* from the moment lace_run_newframe sets a frame until the last worker is *)
(* released from the last barrier: spawn_exit_lock keeps the workers that  *)
(* start and those that end outside, for any number of both.               *)
THEOREM FrameKeepsWorkers ==
    Spec => FrameStable
PROOF
<1>1. FInv /\ [Next]_vars => [newframe # NoFrame \/ (\E w \in Id : InFrame(w)) => alive' = alive]_vars
  <2> SUFFICES ASSUME FInv, [Next]_vars, newframe # NoFrame \/ (\E w \in Id : InFrame(w)),
                      alive' # alive
               PROVE  FALSE
    OBVIOUS
  <2>1. IInv /\ PhaseInv /\ AliveInv /\ BarInv
    BY DEF FInv
  <2>2. PICK w \in Id : WorkerInit(w) \/ ExitAlive(w)
    BY AliveChange
  <2>3. Top(w) \in {"init", "leave_alive"}
    BY <2>2 DEF WorkerInit, ExitAlive, At
  <2>4. Top(w) = "init" => Has(w, {"init"})
    <3>1. ASSUME Top(w) = "init" PROVE 1 \in DOMAIN st[w] /\ st[w][1][1] = "init"
      <4>1. st[w] # <<>> /\ st[w] \in Seq(Step)
        BY <2>1, <3>1 DEF Top, IInv, TypeInv
      <4> QED BY <3>1, <4>1 DEF Top
    <3> QED BY <3>1 DEF Has
  <2>5. ~\E c \in Id : \E g \in 0 .. 5 : Busy(c, g)
    BY <2>1, <2>3, <2>4, AllCounted
  <2>6. Calm
    BY <2>1, <2>5 DEF PhaseInv
  <2> QED BY <2>1, <2>6, AwayOut DEF Calm
<1> QED BY <1>1, Frames, PTL DEF Spec, FrameStable
=============================================================================
