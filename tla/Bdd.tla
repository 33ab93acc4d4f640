-------------------------------- MODULE Bdd --------------------------------
(***************************************************************************)
(* The operations of sylvan/src/sylvan_bdd.c on one diagram.  An edge is   *)
(* <<mark, node>>: mark 1 is the complement bit; the node is <<>>, the     *)
(* terminal, a leaf (see Mtbdd), or <<variable, low, high>>.  The unique   *)
(* table makes two edges equal exactly when they are equal as values here; *)
(* operation cache, collection and the order in which tasks run are in the *)
(* modules OpCache, NodeTable and Lace.                                    *)
(* A set of variables is the conjunction of its members (sylvan_true when  *)
(* empty); a map has the next entry at low and the function at high.       *)
(***************************************************************************)
EXTENDS Integers, Sequences, FiniteSets

sylvan_false == <<0, <<>>>>
sylvan_true == <<1, <<>>>>
sylvan_not(a) == <<1 - a[1], a[2]>>
Strip(a) == <<0, a[2]>>
Marked(a) == a[1] = 1
sylvan_isconst(a) == a[2] = <<>>
NoVar == 1000                          \* 0xffffffff, above every variable
VarOf(a) == IF Len(a[2]) = 3 THEN a[2][1] ELSE NoVar
node_low(a) == IF Marked(a) THEN sylvan_not(a[2][2]) ELSE a[2][2]
node_high(a) == IF Marked(a) THEN sylvan_not(a[2][3]) ELSE a[2][3]

(* A node has distinct successors and no mark on its low edge. *)
sylvan_makenode(v, low, high) ==
    IF low = high THEN low
    ELSE IF Marked(low) THEN <<1, <<v, sylvan_not(low), sylvan_not(high)>>>>
    ELSE <<0, <<v, low, high>>>>
sylvan_ithvar(v) == sylvan_makenode(v, sylvan_false, sylvan_true)

Least(v, w) == IF v < w THEN v ELSE w
LowAt(a, level) == IF VarOf(a) = level THEN node_low(a) ELSE a
HighAt(a, level) == IF VarOf(a) = level THEN node_high(a) ELSE a
sylvan_set_isempty(vs) == vs = sylvan_true
RECURSIVE Skip(_, _)                   \* a set without what lies above level
Skip(vs, level) == IF VarOf(vs) < level THEN Skip(node_high(vs), level) ELSE vs

-----------------------------------------------------------------------------
(* Conjunction, in the five variants that differ in whether they test for  *)
(* a collection, spawn tasks and protect intermediate results.             *)
AndConst(a, b) ==
    CASE a = sylvan_true -> <<b>>
      [] b = sylvan_true -> <<a>>
      [] a = sylvan_false \/ b = sylvan_false -> <<sylvan_false>>
      [] a = b -> <<a>>
      [] a = sylvan_not(b) -> <<sylvan_false>>
      [] OTHER -> <<>>
Conjoin(And(_, _), a, b) ==
    LET level == Least(VarOf(a), VarOf(b))
        found == AndConst(a, b)
        Half(x, y) == IF x = sylvan_true THEN y
                      ELSE IF x = sylvan_false \/ y = sylvan_false THEN sylvan_false
                      ELSE IF y = sylvan_true THEN x ELSE And(x, y)
    IN  IF found # <<>> THEN found[1]
        ELSE sylvan_makenode(level, Half(LowAt(a, level), LowAt(b, level)),
                                    Half(HighAt(a, level), HighAt(b, level)))
RECURSIVE sylvan_and(_, _)
sylvan_and(a, b) == Conjoin(sylvan_and, a, b)
RECURSIVE sylvan_and_nogc(_, _)
sylvan_and_nogc(a, b) == Conjoin(sylvan_and_nogc, a, b)
RECURSIVE sylvan_and_nogc_alone(_, _)
sylvan_and_nogc_alone(a, b) == Conjoin(sylvan_and_nogc_alone, a, b)
RECURSIVE sylvan_and_alone(_, _)
sylvan_and_alone(a, b) == Conjoin(sylvan_and_alone, a, b)
RECURSIVE sylvan_and_alone_profile(_, _)
sylvan_and_alone_profile(a, b) == Conjoin(sylvan_and_alone_profile, a, b)
sylvan_or(a, b) == sylvan_not(sylvan_and(sylvan_not(a), sylvan_not(b)))

RECURSIVE sylvan_xor(_, _)
sylvan_xor(a0, b0) ==
    LET a == Strip(a0)
        b == IF Marked(a0) THEN sylvan_not(b0) ELSE b0
        level == Least(VarOf(a), VarOf(b))
    IN  CASE a0 = sylvan_false -> b0
          [] b0 = sylvan_false -> a0
          [] a0 = sylvan_true -> sylvan_not(b0)
          [] b0 = sylvan_true -> sylvan_not(a0)
          [] a0 = b0 -> sylvan_false
          [] a0 = sylvan_not(b0) -> sylvan_true
          [] OTHER -> sylvan_makenode(level, sylvan_xor(LowAt(a, level), LowAt(b, level)),
                                             sylvan_xor(HighAt(a, level), HighAt(b, level)))

(* if a then b else c: constants, the cases that are a conjunction or an   *)
(* exclusive or, then no mark on a and on b, then the recursion.           *)
RECURSIVE sylvan_ite(_, _, _)
IteDeep(a, b, c) ==
    LET level == Least(VarOf(a), Least(VarOf(b), VarOf(c)))
        Half(x, y, z) == IF x = sylvan_true THEN y
                         ELSE IF x = sylvan_false THEN z ELSE sylvan_ite(x, y, z)
        single == node_low(a) = sylvan_false /\ node_high(a) = sylvan_true
    IN  IF VarOf(a) < Least(VarOf(b), VarOf(c)) /\ single
        THEN sylvan_makenode(VarOf(a), c, b)
        ELSE sylvan_makenode(level,
                Half(LowAt(a, level), LowAt(b, level), LowAt(c, level)),
                Half(HighAt(a, level), HighAt(b, level), HighAt(c, level)))
IteCanonical(a0, b0, c0) ==
    LET b1 == IF Marked(a0) THEN c0 ELSE b0
        c1 == IF Marked(a0) THEN b0 ELSE c0
    IN  IF Marked(b1) THEN sylvan_not(IteDeep(Strip(a0), sylvan_not(b1), sylvan_not(c1)))
        ELSE IteDeep(Strip(a0), b1, c1)
sylvan_ite(a, b0, c0) ==
    LET b == IF a = b0 THEN sylvan_true ELSE IF a = sylvan_not(b0) THEN sylvan_false ELSE b0
        c == IF a = c0 THEN sylvan_false ELSE IF a = sylvan_not(c0) THEN sylvan_true ELSE c0
    IN  CASE a = sylvan_true -> b0
          [] a = sylvan_false -> c0
          [] b = c -> b
          [] b = sylvan_true /\ c = sylvan_false -> a
          [] b = sylvan_false /\ c = sylvan_true -> sylvan_not(a)
          [] c = sylvan_false -> sylvan_and(a, b)
          [] b = sylvan_true -> sylvan_or(a, c)
          [] b = sylvan_false -> sylvan_and(sylvan_not(a), c)
          [] c = sylvan_true -> sylvan_not(sylvan_and(a, sylvan_not(b)))
          [] b = sylvan_not(c) -> sylvan_xor(a, c)
          [] OTHER -> IteCanonical(a, b, c)

(* f where c holds; constrain may add variables of c, restrict does not.   *)
CareConst(f, c) ==
    CASE c = sylvan_true -> <<f>>
      [] c = sylvan_false -> <<sylvan_false>>
      [] sylvan_isconst(f) -> <<f>>
      [] f = c -> <<sylvan_true>>
      [] f = sylvan_not(c) -> <<sylvan_false>>
      [] OTHER -> <<>>
Remark(f, r) == IF Marked(f) THEN sylvan_not(r) ELSE r
RECURSIVE sylvan_constrain(_, _)
sylvan_constrain(f0, c) ==
    LET f == Strip(f0)
        level == Least(VarOf(f), VarOf(c))
        fLow == LowAt(f, level)     fHigh == HighAt(f, level)
        cLow == LowAt(c, level)     cHigh == HighAt(c, level)
        low == IF cLow = sylvan_true THEN fLow ELSE sylvan_constrain(fLow, cLow)
        high == IF cHigh = sylvan_true THEN fHigh ELSE sylvan_constrain(fHigh, cHigh)
        found == CareConst(f0, c)
    IN  IF found # <<>> THEN found[1]
        ELSE Remark(f0, IF cLow = sylvan_false THEN high
                        ELSE IF cHigh = sylvan_false THEN low
                        ELSE sylvan_makenode(level, low, high))
RECURSIVE sylvan_restrict(_, _)
(* Mutant: of a care set above f only one half counts. *)
OneHalf(f0, c) ==
    LET f == Strip(f0)
        found == CareConst(f0, c)
    IN  IF found # <<>> THEN found[1]
        ELSE Remark(f0, IF VarOf(c) < VarOf(f) THEN sylvan_restrict(f, node_low(c))
                        ELSE sylvan_makenode(VarOf(f), sylvan_restrict(node_low(f), LowAt(c, VarOf(f))),
                                             sylvan_restrict(node_high(f), HighAt(c, VarOf(f)))))
sylvan_restrict(f0, c) ==
    LET f == Strip(f0)
        cLow == LowAt(c, VarOf(f))     cHigh == HighAt(c, VarOf(f))
        low == sylvan_restrict(node_low(f), cLow)
        high == sylvan_restrict(node_high(f), cHigh)
        found == CareConst(f0, c)
    IN  IF found # <<>> THEN found[1]
        ELSE Remark(f0,
                IF VarOf(c) < VarOf(f)
                THEN sylvan_restrict(f, sylvan_or(node_low(c), node_high(c)))
                ELSE IF cLow = sylvan_false THEN high
                ELSE IF cHigh = sylvan_false THEN low
                ELSE sylvan_makenode(VarOf(f), low, high))

-----------------------------------------------------------------------------
(* Quantification of the variables in a set, and projection onto it. *)
RECURSIVE sylvan_exists(_, _)
sylvan_exists(a, vs0) ==
    LET vs == Skip(vs0, VarOf(a))
        level == VarOf(a)
        aLow == node_low(a)            aHigh == node_high(a)
        low == sylvan_exists(aLow, node_high(vs))
        high == sylvan_exists(aHigh, node_high(vs))
    IN  IF sylvan_isconst(a) \/ sylvan_set_isempty(vs) THEN a
        ELSE IF VarOf(vs) # level
        THEN sylvan_makenode(level, sylvan_exists(aLow, vs), sylvan_exists(aHigh, vs))
        ELSE IF sylvan_true \in {aLow, aHigh} \/ aLow = sylvan_not(aHigh) THEN sylvan_true
        ELSE IF low = sylvan_true \/ high = sylvan_true THEN sylvan_true
        ELSE IF low = sylvan_false /\ high = sylvan_false THEN sylvan_false
        ELSE sylvan_or(low, high)

RECURSIVE sylvan_project(_, _)
sylvan_project(a, vs0) ==
    LET vs == Skip(vs0, VarOf(a))
        a0 == node_low(a)              a1 == node_high(a)
    IN  IF sylvan_isconst(a) THEN a
        ELSE IF sylvan_set_isempty(vs) THEN sylvan_true
        ELSE IF VarOf(vs) = VarOf(a)
        THEN sylvan_makenode(VarOf(a), sylvan_project(a0, node_high(vs)),
                                       sylvan_project(a1, node_high(vs)))
        ELSE sylvan_or(sylvan_project(a0, vs), sylvan_project(a1, vs))

RECURSIVE sylvan_and_exists(_, _, _)
AbstractAnd(aL, aH, bL, bH, rest) ==
    LET low == sylvan_and_exists(aL, bL, rest)
        high == IF low = sylvan_not(aH) THEN sylvan_exists(bH, rest)
                ELSE IF low = sylvan_not(bH) THEN sylvan_exists(aH, rest)
                ELSE sylvan_and_exists(aH, bH, rest)
    IN  IF low \in {sylvan_true, aH, bH} THEN low
        ELSE IF high = sylvan_true THEN sylvan_true
        ELSE IF high = sylvan_false THEN low
        ELSE IF low = sylvan_false THEN high
        ELSE sylvan_or(low, high)
sylvan_and_exists(a, b, vs0) ==
    LET level == Least(VarOf(a), VarOf(b))
        vs == Skip(vs0, level)
        aL == LowAt(a, level)          aH == HighAt(a, level)
        bL == LowAt(b, level)          bH == HighAt(b, level)
    IN  CASE a = sylvan_false \/ b = sylvan_false \/ a = sylvan_not(b) -> sylvan_false
          [] a = sylvan_true /\ b = sylvan_true -> sylvan_true
          [] a = sylvan_true -> sylvan_exists(b, vs0)
          [] b = sylvan_true \/ a = b -> sylvan_exists(a, vs0)
          [] sylvan_set_isempty(vs) -> sylvan_and(a, b)
          [] VarOf(vs) = level -> AbstractAnd(aL, aH, bL, bH, node_high(vs))
          [] OTHER -> sylvan_makenode(level, sylvan_and_exists(aL, bL, vs),
                                             sylvan_and_exists(aH, bH, vs))

(* Projection of a conjunction: the set of results, as the operands are    *)
(* swapped by the addresses of their nodes and the answer for a constant   *)
(* operand or an empty rest of v depends on the order.                     *)
RECURSIVE sylvan_and_project(_, _, _)
sylvan_and_project(a, b, vs0) ==
    LET level == Least(VarOf(a), VarOf(b))
        vs == Skip(vs0, level)
        InOrder(F(_, _), x, y, ws) ==
            {F(l, h) : l \in sylvan_and_project(LowAt(x, level), LowAt(y, level), ws),
                       h \in sylvan_and_project(HighAt(x, level), HighAt(y, level), ws)}
        Either(F(_, _), ws) == InOrder(F, a, b, ws) \cup InOrder(F, b, a, ws)
        Node(l, h) == sylvan_makenode(level, l, h)
    IN  CASE a = sylvan_false \/ b = sylvan_false \/ a = sylvan_not(b) -> {sylvan_false}
          [] a = sylvan_true /\ b = sylvan_true -> {sylvan_true}
          [] sylvan_set_isempty(vs0) -> {sylvan_true}
          [] sylvan_true \in {a, b} \/ a = b -> {sylvan_project(b, vs0)}
          [] sylvan_set_isempty(vs) -> {sylvan_true}
          [] VarOf(vs) = level -> Either(Node, node_high(vs))
          [] OTHER -> Either(sylvan_or, vs)

-----------------------------------------------------------------------------
(* Relations: s is an even variable, t = s + 1 its primed one.  With vars  *)
(* = sylvan_false every variable belongs to the relation.  OfPair is the   *)
(* loop over vars: skip the pairs above level.                             *)
Even(level) == level - (level % 2)
Partner(level) == IF level % 2 = 0 THEN level + 1 ELSE level - 1
RECURSIVE SkipPairs(_, _)
SkipPairs(vs, level) ==
    IF VarOf(vs) \in {level, Partner(level)} \/ level < VarOf(vs) THEN vs
    ELSE SkipPairs(node_high(vs), level)
OfPair(vs, level) == vs = sylvan_false \/ VarOf(vs) \in {level, Partner(level)}
NextVars(vs) == IF vs = sylvan_false THEN vs ELSE node_high(vs)
Quarter(x, s, p) ==                    \* p = <<value of s, value of t>>
    LET half == IF p[1] = 0 THEN LowAt(x, s) ELSE HighAt(x, s)
    IN  IF p[2] = 0 THEN LowAt(half, s + 1) ELSE HighAt(half, s + 1)

RECURSIVE sylvan_relnext(_, _, _)
RelnextPair(a, b, vs, s) ==
    LET R(i, j) == sylvan_relnext(IF i = 0 THEN LowAt(a, s) ELSE HighAt(a, s),
                                  Quarter(b, s, <<i, j>>), NextVars(vs))
    IN  sylvan_makenode(s, sylvan_ite(R(0, 0), sylvan_true, R(1, 0)),
                           sylvan_ite(R(0, 1), sylvan_true, R(1, 1)))
RelnextOther(a, b, vs, level) ==
    LET a0 == LowAt(a, level)          a1 == HighAt(a, level)
        b0 == LowAt(b, level)          b1 == HighAt(b, level)
        R(x, y) == sylvan_relnext(x, y, vs)
    IN  IF b0 = b1 THEN sylvan_makenode(level, R(a0, b0), R(a1, b1))
        ELSE IF a0 = a1 THEN sylvan_or(R(a0, b0), R(a1, b1))
        ELSE sylvan_makenode(level, sylvan_ite(R(a0, b0), sylvan_true, R(a0, b1)),
                                    sylvan_ite(R(a1, b0), sylvan_true, R(a1, b1)))
sylvan_relnext(a, b, vs0) ==
    LET level == Least(VarOf(a), VarOf(b))
        vs == IF vs0 = sylvan_false THEN vs0 ELSE SkipPairs(vs0, level)
    IN  CASE a = sylvan_true /\ b = sylvan_true -> sylvan_true
          [] a = sylvan_false \/ b = sylvan_false -> sylvan_false
          [] sylvan_set_isempty(vs0) -> a
          [] sylvan_set_isempty(vs) -> a
          [] OfPair(vs, level) -> RelnextPair(a, b, vs, Even(level))
          [] OTHER -> RelnextOther(a, b, vs, level)

(* Composition A ; B, or the states before B when B is a set of states.    *)
(* The last case, a variable outside vars in both, calls sylvan_relnext.   *)
RECURSIVE sylvan_relprev(_, _, _)
RelprevPair(a, b, vs, s) ==
    LET next == NextVars(vs)
        rest == IF VarOf(next) = s + 1 THEN node_high(next) ELSE next
        half(k) == IF k = 0 THEN LowAt(b, s) ELSE HighAt(b, s)
        R(i, k) == IF Quarter(b, s, <<k, 0>>) = Quarter(b, s, <<k, 1>>)
                   THEN sylvan_relprev(Quarter(a, s, <<i, k>>), half(k), rest)
                   ELSE sylvan_makenode(s + 1,
                          sylvan_relprev(Quarter(a, s, <<i, k>>), Quarter(b, s, <<k, 0>>), rest),
                          sylvan_relprev(Quarter(a, s, <<i, k>>), Quarter(b, s, <<k, 1>>), rest))
    IN  sylvan_makenode(s, sylvan_or(R(0, 0), R(0, 1)), sylvan_or(R(1, 0), R(1, 1)))
RelprevOther(a, b, vs, level) ==
    LET a0 == LowAt(a, level)          a1 == HighAt(a, level)
        b0 == LowAt(b, level)          b1 == HighAt(b, level)
        P(x, y) == sylvan_relprev(x, y, vs)
        N(x, y) == sylvan_relnext(x, y, vs)
    IN  IF a0 = a1 THEN sylvan_makenode(level, P(a0, b0), P(a1, b1))
        ELSE IF b0 = b1 THEN sylvan_ite(P(a0, b0), sylvan_true, P(a1, b1))
        ELSE sylvan_makenode(level, sylvan_ite(N(a0, b0), sylvan_true, N(a1, b0)),
                                    sylvan_ite(N(a0, b1), sylvan_true, N(a1, b1)))
sylvan_relprev(a, b, vs0) ==
    LET level == Least(VarOf(a), VarOf(b))
        vs == IF vs0 = sylvan_false THEN vs0 ELSE SkipPairs(vs0, level)
    IN  CASE a = sylvan_true /\ b = sylvan_true -> sylvan_true
          [] a = sylvan_false \/ b = sylvan_false -> sylvan_false
          [] sylvan_set_isempty(vs0) -> b
          [] sylvan_set_isempty(vs) -> b
          [] OfPair(vs, level) -> RelprevPair(a, b, vs, Even(level))
          [] OTHER -> RelprevOther(a, b, vs, level)

(* The closure by quarters: each operator adds the next of u1, u2, u3, e   *)
(* and f of the code.                                                      *)
RECURSIVE sylvan_closure(_)
Sequence(x, y) == sylvan_relprev(x, y, sylvan_false)
ClosureNode(s, u1, u2, e, f) ==
    sylvan_makenode(s, sylvan_makenode(s + 1, e, f),
                       sylvan_makenode(s + 1, Sequence(u2, e),
                                       sylvan_ite(u1, sylvan_true, Sequence(u2, f))))
ClosureEnd(s, u1, u2, u3, e) == ClosureNode(s, u1, u2, e, Sequence(e, u3))
ClosureStart(s, a00, a01, u1, u2) ==
    ClosureEnd(s, u1, u2, Sequence(a01, u1),
               sylvan_closure(sylvan_ite(a00, sylvan_true, Sequence(a01, u2))))
ClosureFrom(a, s, u1) ==
    ClosureStart(s, Quarter(a, s, <<0, 0>>), Quarter(a, s, <<0, 1>>),
                 u1, Sequence(u1, Quarter(a, s, <<1, 0>>)))
sylvan_closure(a) ==
    IF sylvan_isconst(a) THEN a
    ELSE ClosureFrom(a, Even(VarOf(a)), sylvan_closure(Quarter(a, Even(VarOf(a)), <<1, 1>>)))

-----------------------------------------------------------------------------
(* Substitution. *)
sylvan_map_isempty(map) == map = sylvan_false
RECURSIVE SkipMap(_, _)
SkipMap(map, level) ==
    IF VarOf(map) < level THEN SkipMap(node_low(map), level) ELSE map
RECURSIVE sylvan_compose(_, _)
sylvan_compose(a, map0) ==
    LET level == VarOf(a)
        map == SkipMap(map0, level)
        root == IF VarOf(map) = level THEN node_high(map) ELSE sylvan_ithvar(level)
    IN  IF sylvan_isconst(a) \/ sylvan_map_isempty(map) THEN a
        ELSE sylvan_ite(root, sylvan_compose(node_high(a), map), sylvan_compose(node_low(a), map))

(* Counting. *)
RECURSIVE sylvan_set_count(_)
sylvan_set_count(vs) == IF sylvan_set_isempty(vs) THEN 0 ELSE 1 + sylvan_set_count(node_high(vs))
RECURSIVE sylvan_pathcount(_)
sylvan_pathcount(a) ==
    CASE a = sylvan_false -> 0
      [] a = sylvan_true -> 1
      [] OTHER -> sylvan_pathcount(node_low(a)) + sylvan_pathcount(node_high(a))
RECURSIVE sylvan_satcount(_, _)
(* Mutant: variables skipped above a node do not count. *)
NotSkipped(a, vs0) ==
    LET vs == Skip(vs0, VarOf(a))
    IN  CASE a = sylvan_false -> 0
          [] a = sylvan_true -> 2 ^ sylvan_set_count(vs0)
          [] OTHER -> sylvan_satcount(node_low(a), node_high(vs))
                      + sylvan_satcount(node_high(a), node_high(vs))
sylvan_satcount(a, vs0) ==
    LET vs == Skip(vs0, VarOf(a))
        skipped == sylvan_set_count(vs0) - sylvan_set_count(vs)
    IN  CASE a = sylvan_false -> 0
          [] a = sylvan_true -> 2 ^ sylvan_set_count(vs0)
          [] OTHER -> 2 ^ skipped * (sylvan_satcount(node_low(a), node_high(vs))
                                     + sylvan_satcount(node_high(a), node_high(vs)))

-----------------------------------------------------------------------------
(* One satisfying assignment: as a string over vars (low edge first), as a *)
(* diagram over vars (high edge first), or as a path chosen by rand().     *)
RECURSIVE sylvan_sat_one(_, _)
sylvan_sat_one(a, vs) ==
    LET here == VarOf(a) = VarOf(vs)
        bit == IF here /\ node_low(a) = sylvan_false THEN 1 ELSE 0
        next == IF bit = 1 THEN node_high(a) ELSE IF here THEN node_low(a) ELSE a
    IN  IF sylvan_set_isempty(vs) THEN <<>>
        ELSE <<bit>> \o sylvan_sat_one(next, node_high(vs))
RECURSIVE sylvan_sat_single(_, _)
sylvan_sat_single(a, vs) ==
    LET v == VarOf(vs)
        take == VarOf(a) = v /\ node_high(a) # sylvan_false
        next == IF take THEN node_high(a) ELSE LowAt(a, v)
        res == sylvan_sat_single(next, node_high(vs))
    IN  IF a = sylvan_false THEN sylvan_false
        ELSE IF sylvan_set_isempty(vs) THEN sylvan_true
        ELSE IF take THEN sylvan_makenode(v, sylvan_false, res)
        ELSE sylvan_makenode(v, res, sylvan_false)
RECURSIVE sylvan_sat_one_bdd(_)        \* the set of what rand() may make of it
sylvan_sat_one_bdd(a) ==
    LET low == node_low(a)             high == node_high(a)
    IN  IF sylvan_isconst(a) THEN {a}
        ELSE {sylvan_makenode(VarOf(a), sylvan_false, m) :
                m \in IF high = sylvan_false THEN {} ELSE sylvan_sat_one_bdd(high)}
             \cup {sylvan_makenode(VarOf(a), m, sylvan_false) :
                m \in IF low = sylvan_false THEN {} ELSE sylvan_sat_one_bdd(low)}

(* A cube has 0, 1 or 2 (any value) for each variable of vars. *)
RECURSIVE sylvan_cube(_, _)
sylvan_cube(vs, cube) ==
    LET res == sylvan_cube(node_high(vs), Tail(cube))
    IN  IF sylvan_set_isempty(vs) THEN sylvan_true
        ELSE IF Head(cube) = 0 THEN sylvan_makenode(VarOf(vs), res, sylvan_false)
        ELSE IF Head(cube) = 1 THEN sylvan_makenode(VarOf(vs), sylvan_false, res)
        ELSE res
RECURSIVE sylvan_union_cube(_, _, _)
sylvan_union_cube(a, vs, cube) ==
    LET v == VarOf(vs)                 n == VarOf(a)
        low == LowAt(a, Least(v, n))   high == HighAt(a, Least(v, n))
        Deeper(x) == sylvan_union_cube(x, node_high(vs), Tail(cube))
    IN  CASE a = sylvan_true -> sylvan_true
          [] a = sylvan_false -> sylvan_cube(vs, cube)
          [] sylvan_set_isempty(vs) -> sylvan_true
          [] Head(cube) \notin {0, 1} -> Deeper(a)
          [] v > n -> sylvan_makenode(n, sylvan_union_cube(low, vs, cube),
                                         sylvan_union_cube(high, vs, cube))
          [] v <= n /\ Head(cube) = 0 -> sylvan_makenode(v, Deeper(low), high)
          [] OTHER -> sylvan_makenode(v, low, Deeper(high))

(* The assignments handed to the callback, in order; sylvan_collect joins  *)
(* what the callback returns.                                              *)
RECURSIVE EnumDo(_, _, _)
EnumDo(a, vs, path) ==
    LET v == VarOf(vs)
    IN  IF a = sylvan_false THEN <<>>
        ELSE IF sylvan_set_isempty(vs) THEN (IF path = <<>> THEN <<>> ELSE <<path>>)
        ELSE EnumDo(LowAt(a, v), node_high(vs), Append(path, 0))
             \o EnumDo(HighAt(a, v), node_high(vs), Append(path, 1))
sylvan_enum(a, vs) == EnumDo(a, vs, <<>>)
sylvan_collect(bdd, vars, CB(_)) ==
    LET RECURSIVE do(_, _, _)
        do(a, vs, path) ==
            LET v == VarOf(vs)
            IN  IF a = sylvan_false THEN sylvan_false
                ELSE IF sylvan_set_isempty(vs) THEN CB(path)
                ELSE sylvan_or(do(LowAt(a, v), node_high(vs), Append(path, 0)),
                               do(HighAt(a, v), node_high(vs), Append(path, 1)))
    IN  do(bdd, vars, <<>>)
=============================================================================
