------------------------------- MODULE Mtbdd -------------------------------
(***************************************************************************)
(* sylvan/src/sylvan_mtbdd.c: diagrams whose leaves hold numbers, and the  *)
(* sets and maps of variables.  A leaf node is <<<<type, n, d>>>>: integer *)
(* (0) and double (1) with d = 1, fraction (2) in lowest terms.  The       *)
(* terminal mtbdd_false stands for "not defined".  Values are small: the   *)
(* 64-bit wrap of integers and the rounding of doubles are left out.       *)
(***************************************************************************)
EXTENDS Bdd

mtbdd_false == sylvan_false
mtbdd_true == sylvan_true
mtbdd_isleaf(a) == Len(a[2]) # 3
mtbdd_makenode(v, low, high) == sylvan_makenode(v, low, high)
mtbdd_makemapnode(v, low, high) == <<0, <<v, low, high>>>>
mtbdd_makeleaf(type, n, d) == <<0, <<<<type, n, d>>>>>>
mtbdd_int64(n) == mtbdd_makeleaf(0, n, 1)
mtbdd_double(n) == mtbdd_makeleaf(1, n, 1)
(* Node 0 reads as the integer 0. *)
ValueOf(a) == IF sylvan_isconst(a) THEN <<0, 0, 1>> ELSE a[2][1]
Type(a) == ValueOf(a)[1]
Num(a) == ValueOf(a)[2]
Den(a) == ValueOf(a)[3]
NumberLeaf(a) == mtbdd_isleaf(a) /\ ~sylvan_isconst(a)

Abs(n) == IF n < 0 THEN -n ELSE n
Quot(n, c) == IF n < 0 THEN -((-n) \div c) ELSE n \div c      \* C division
RECURSIVE Odd(_)                       \* v >>= ctz(v)
Odd(v) == IF v % 2 = 0 THEN Odd(v \div 2) ELSE v
RECURSIVE Twos(_, _)                   \* 2 to the ctz(u | v)
Twos(u, v) == IF u % 2 = 0 /\ v % 2 = 0 THEN 2 * Twos(u \div 2, v \div 2) ELSE 1
RECURSIVE GcdLoop(_, _)
GcdLoop(u, v) ==
    LET w == Odd(v)
        less == IF u > w THEN w ELSE u
        more == IF u > w THEN u ELSE w
    IN  IF more = less THEN less ELSE GcdLoop(less, more - less)
gcd(u, v) == CASE u = 0 -> v
               [] u # 0 /\ v = 0 -> u
               [] OTHER -> GcdLoop(Odd(u), v) * Twos(u, v)
mtbdd_fraction(n, d) ==
    LET c == gcd(Abs(n), d)
    IN  IF n = 0 THEN mtbdd_makeleaf(2, 0, 1) ELSE mtbdd_makeleaf(2, Quot(n, c), d \div c)

-----------------------------------------------------------------------------
(* A cube with 0, 1, 2 (any) or 3 (equal to the next variable). *)
RECURSIVE mtbdd_cube(_, _, _)
mtbdd_cube(vs, cube, terminal) ==
    LET next == node_high(vs)
        Rest(k) == mtbdd_cube(IF k = 1 THEN next ELSE node_high(next),
                              SubSeq(cube, k + 1, Len(cube)), terminal)
        v == VarOf(vs)
    IN  IF vs = mtbdd_true THEN terminal
        ELSE CASE cube[1] = 0 -> mtbdd_makenode(v, Rest(1), mtbdd_false)
               [] cube[1] = 1 -> mtbdd_makenode(v, mtbdd_false, Rest(1))
               [] cube[1] = 2 -> Rest(1)
               [] cube[1] = 3 ->
                    mtbdd_makenode(v, mtbdd_makenode(VarOf(next), Rest(2), mtbdd_false),
                                      mtbdd_makenode(VarOf(next), mtbdd_false, Rest(2)))
               [] OTHER -> mtbdd_false
(* The variant that fails instead of collecting. *)
mtbdd_cube_nogc(vs, cube, terminal) == mtbdd_cube(vs, cube, terminal)

(* Where the diagram skips v the other half becomes mtbdd_false.  The      *)
(* leaves of a are mtbdd_false and terminal: the code takes the value of   *)
(* another leaf for its variable.                                          *)
RECURSIVE mtbdd_union_cube(_, _, _, _)
mtbdd_union_cube(a, vs, cube, terminal) ==
    LET v == VarOf(vs)                 va == VarOf(a)
        Deeper(x) == mtbdd_union_cube(x, node_high(vs), Tail(cube), terminal)
        Same(x) == mtbdd_union_cube(x, vs, cube, terminal)
        other == IF va = v THEN a ELSE mtbdd_false
    IN  CASE a = terminal -> terminal
          [] a = mtbdd_false -> mtbdd_cube(vs, cube, terminal)
          [] vs = mtbdd_true -> terminal
          [] va < v -> mtbdd_makenode(va, Same(node_low(a)), Same(node_high(a)))
          [] va >= v /\ cube[1] = 0 -> mtbdd_makenode(v, Deeper(LowAt(a, v)), HighAt(other, v))
          [] va >= v /\ cube[1] = 1 -> mtbdd_makenode(v, LowAt(other, v), Deeper(HighAt(a, v)))
          [] va >= v /\ cube[1] = 2 -> mtbdd_makenode(v, Deeper(LowAt(a, v)), Deeper(HighAt(a, v)))
          [] OTHER -> mtbdd_false

-----------------------------------------------------------------------------
(* An operation yields <<result>>, or <<>> (mtbdd_invalid) to be applied   *)
(* to the cofactors.                                                       *)
mtbdd_apply(a0, b0, Op(_, _)) ==
    LET RECURSIVE do(_, _)
        do(a, b) ==
            LET v == Least(VarOf(a), VarOf(b))
                done == Op(a, b)
            IN  IF done # <<>> THEN done[1]
                ELSE mtbdd_makenode(v, do(LowAt(a, v), LowAt(b, v)), do(HighAt(a, v), HighAt(b, v)))
    IN  do(a0, b0)
mtbdd_uapply(a0, Op(_)) ==
    LET RECURSIVE do(_)
        do(a) == IF Op(a) # <<>> THEN Op(a)[1]
                 ELSE mtbdd_makenode(VarOf(a), do(node_low(a)), do(node_high(a)))
    IN  do(a0)

(* The operation on two leaves of one type. *)
SameDen(a, b, F(_, _, _)) ==           \* F(numerator of a, of b, common denominator)
    LET c == gcd(Den(a), Den(b))
    IN  F(Num(a) * (Den(b) \div c), Num(b) * (Den(a) \div c), Den(a) * (Den(b) \div c))
Number(type, n, d) == IF type = 2 THEN mtbdd_fraction(n, d) ELSE mtbdd_makeleaf(type, n, 1)
Sum(a, b) == LET F(m, n, d) == Number(Type(a), m + n, d) IN SameDen(a, b, F)
Difference(a, b) == LET F(m, n, d) == Number(Type(a), m - n, d) IN SameDen(a, b, F)
Product(a, b) ==
    LET c == gcd(Abs(Num(b)), Den(a))
        d == gcd(Abs(Num(a)), Den(b))
    IN  Number(Type(a), Quot(Num(a), d) * Quot(Num(b), c), (Den(a) \div c) * (Den(b) \div d))
Below(a, b) == LET F(m, n, d) == m < n IN SameDen(a, b, F)

mtbdd_op_negate(a) ==
    IF a = mtbdd_false THEN <<mtbdd_false>>
    ELSE IF ~mtbdd_isleaf(a) THEN <<>>
    ELSE <<Number(Type(a), -Num(a), Den(a))>>
mtbdd_op_cmpl(a) ==
    IF a = mtbdd_false THEN <<mtbdd_false>>
    ELSE IF ~mtbdd_isleaf(a) THEN <<>>
    ELSE <<Number(Type(a), IF Num(a) = 0 THEN 1 ELSE 0, 1)>>
mtbdd_op_plus(a, b) ==
    CASE a = mtbdd_false -> <<b>>
      [] a # mtbdd_false /\ b = mtbdd_false -> <<a>>
      [] mtbdd_true \in {a, b} -> <<mtbdd_true>>
      [] NumberLeaf(a) /\ NumberLeaf(b) -> <<Sum(a, b)>>
      [] OTHER -> <<>>
mtbdd_negate(a) == mtbdd_uapply(a, mtbdd_op_negate)
mtbdd_cmpl(a) == mtbdd_uapply(a, mtbdd_op_cmpl)
(* Mutant: undefined minus b is b. *)
NotNegated(a, b) ==
    CASE a = mtbdd_false -> <<b>>
      [] a # mtbdd_false /\ b = mtbdd_false -> <<a>>
      [] NumberLeaf(a) /\ NumberLeaf(b) -> <<Difference(a, b)>>
      [] OTHER -> <<>>
mtbdd_op_minus(a, b) ==
    CASE a = mtbdd_false -> <<mtbdd_negate(b)>>
      [] a # mtbdd_false /\ b = mtbdd_false -> <<a>>
      [] NumberLeaf(a) /\ NumberLeaf(b) -> <<Difference(a, b)>>
      [] OTHER -> <<>>
mtbdd_op_times(a, b) ==
    CASE mtbdd_false \in {a, b} -> <<mtbdd_false>>
      [] a = mtbdd_true -> <<b>>
      [] b = mtbdd_true -> <<a>>
      [] NumberLeaf(a) /\ NumberLeaf(b) ->
            <<IF Num(a) = 0 THEN a ELSE IF Num(b) = 0 THEN b ELSE Product(a, b)>>
      [] OTHER -> <<>>
mtbdd_op_min(a, b) ==
    CASE a = mtbdd_true -> <<b>>
      [] b = mtbdd_true -> <<a>>
      [] a = b -> <<a>>
      [] a = mtbdd_false /\ NumberLeaf(b) -> <<b>>
      [] b = mtbdd_false /\ NumberLeaf(a) -> <<a>>
      [] NumberLeaf(a) /\ NumberLeaf(b) -> <<IF Below(a, b) THEN a ELSE b>>
      [] OTHER -> <<>>
mtbdd_op_max(a, b) ==
    CASE a = mtbdd_true -> <<a>>
      [] b = mtbdd_true -> <<b>>
      [] a = mtbdd_false -> <<b>>
      [] b = mtbdd_false -> <<a>>
      [] a = b -> <<a>>
      [] NumberLeaf(a) /\ NumberLeaf(b) -> <<IF Below(b, a) THEN a ELSE b>>
      [] OTHER -> <<>>
mtbdd_plus(a, b) == mtbdd_apply(a, b, mtbdd_op_plus)
mtbdd_minus(a, b) == mtbdd_apply(a, b, mtbdd_op_minus)
mtbdd_times(a, b) == mtbdd_apply(a, b, mtbdd_op_times)
mtbdd_min(a, b) == mtbdd_apply(a, b, mtbdd_op_min)
mtbdd_max(a, b) == mtbdd_apply(a, b, mtbdd_op_max)

(* Abstraction: combine both halves of a variable in v; k > 0 of them that *)
(* do not occur are one operation with their number.  A fraction's power   *)
(* raises the numerator only.                                              *)
mtbdd_uop_times_uint(a, k) ==
    LET c == gcd(Den(a), k)
    IN  IF sylvan_isconst(a) THEN <<a>>
        ELSE IF ~mtbdd_isleaf(a) THEN <<>>
        ELSE <<Number(Type(a), Num(a) * (k \div c), Den(a) \div c)>>
mtbdd_uop_pow_uint(a, k) ==
    IF sylvan_isconst(a) THEN <<a>>
    ELSE IF ~mtbdd_isleaf(a) THEN <<>>
    ELSE <<Number(Type(a), Num(a) ^ k, Den(a))>>
mtbdd_abstract_op_plus(a, b, k) ==
    LET Times(x) == mtbdd_uop_times_uint(x, 2 ^ k)
    IN  IF k = 0 THEN mtbdd_plus(a, b) ELSE mtbdd_uapply(a, Times)
mtbdd_abstract_op_times(a, b, k) ==
    LET Pow(x) == mtbdd_uop_pow_uint(x, 2 ^ k)
    IN  IF k = 0 THEN mtbdd_times(a, b) ELSE mtbdd_uapply(a, Pow)
mtbdd_abstract_op_min(a, b, k) == IF k = 0 THEN mtbdd_min(a, b) ELSE a
mtbdd_abstract_op_max(a, b, k) == IF k = 0 THEN mtbdd_max(a, b) ELSE a
mtbdd_abstract(a0, vs0, Op(_, _, _)) ==
    LET RECURSIVE do(_, _)
        do(a, vs) ==
            LET rest == Skip(vs, VarOf(a))
                k == sylvan_set_count(vs) - sylvan_set_count(rest)
                next == node_high(rest)
                r == IF rest = mtbdd_true THEN a
                     ELSE IF VarOf(a) < VarOf(rest)
                     THEN mtbdd_makenode(VarOf(a), do(node_low(a), rest), do(node_high(a), rest))
                     ELSE Op(do(node_low(a), next), do(node_high(a), next), 0)
            IN  IF sylvan_isconst(a) \/ vs = mtbdd_true THEN a
                ELSE IF k > 0 THEN Op(r, r, k) ELSE r
    IN  do(a0, vs0)
mtbdd_abstract_plus(dd, v) == mtbdd_abstract(dd, v, mtbdd_abstract_op_plus)
mtbdd_abstract_times(dd, v) == mtbdd_abstract(dd, v, mtbdd_abstract_op_times)
mtbdd_abstract_min(dd, v) == mtbdd_abstract(dd, v, mtbdd_abstract_op_min)
mtbdd_abstract_max(dd, v) == mtbdd_abstract(dd, v, mtbdd_abstract_op_max)

RECURSIVE mtbdd_ite(_, _, _)
mtbdd_ite(f, g, h) ==
    LET v == Least(VarOf(f), Least(VarOf(g), VarOf(h)))
    IN  CASE f = mtbdd_true -> g
          [] f = mtbdd_false -> h
          [] g = h -> g
          [] g = mtbdd_true /\ h = mtbdd_false -> f
          [] h = mtbdd_true /\ g = mtbdd_false -> sylvan_not(f)
          [] OTHER -> mtbdd_makenode(v, mtbdd_ite(LowAt(f, v), LowAt(g, v), LowAt(h, v)),
                                        mtbdd_ite(HighAt(f, v), HighAt(g, v), HighAt(h, v)))

(* Multiply and abstract in one pass. *)
RECURSIVE mtbdd_and_abstract_plus(_, _, _)
mtbdd_and_abstract_plus(a, b, vs) ==
    LET v == Least(VarOf(a), VarOf(b))
        done == mtbdd_op_times(a, b)
        next == node_high(vs)
        Low(ws) == mtbdd_and_abstract_plus(LowAt(a, v), LowAt(b, v), ws)
        High(ws) == mtbdd_and_abstract_plus(HighAt(a, v), HighAt(b, v), ws)
        once == mtbdd_and_abstract_plus(a, b, next)
    IN  IF vs = mtbdd_true THEN mtbdd_times(a, b)
        ELSE IF done # <<>> THEN mtbdd_abstract_plus(done[1], vs)
        ELSE IF VarOf(vs) < v THEN mtbdd_plus(once, once)
        ELSE IF VarOf(vs) = v THEN mtbdd_plus(Low(next), High(next))
        ELSE mtbdd_makenode(v, Low(vs), High(vs))
RECURSIVE mtbdd_and_abstract_max(_, _, _)
mtbdd_and_abstract_max(a, b, vs0) ==
    LET v == Least(VarOf(a), VarOf(b))
        done == mtbdd_op_times(a, b)
        vs == Skip(vs0, v)
        Low(ws) == mtbdd_and_abstract_max(LowAt(a, v), LowAt(b, v), ws)
        High(ws) == mtbdd_and_abstract_max(HighAt(a, v), HighAt(b, v), ws)
    IN  IF vs0 = mtbdd_true THEN mtbdd_times(a, b)
        ELSE IF done # <<>> THEN mtbdd_abstract_max(done[1], vs0)
        ELSE IF vs = mtbdd_true THEN mtbdd_times(a, b)
        ELSE IF VarOf(vs) = v
        THEN mtbdd_apply(Low(node_high(vs)), High(node_high(vs)), mtbdd_op_max)
        ELSE mtbdd_makenode(v, Low(vs), High(vs))

-----------------------------------------------------------------------------
(* Leaves at or above a bound become true, the others false. *)
AtLeast(a, value, strict) ==
    IF strict THEN Num(a) > value * Den(a) ELSE Num(a) >= value * Den(a)
Threshold(a, value, strict) ==
    IF sylvan_isconst(a) THEN IF a = mtbdd_false THEN <<mtbdd_false>> ELSE <<>>
    ELSE IF ~mtbdd_isleaf(a) THEN <<>>
    ELSE <<IF AtLeast(a, value, strict) THEN mtbdd_true ELSE mtbdd_false>>
mtbdd_threshold_double(a, value) ==
    LET Op(x) == Threshold(x, value, FALSE) IN mtbdd_uapply(a, Op)
mtbdd_strict_threshold_double(a, value) ==
    LET Op(x) == Threshold(x, value, TRUE) IN mtbdd_uapply(a, Op)

(* Comparison of two diagrams, TRUE for mtbdd_true.  same is the answer    *)
(* when both are one diagram, partial the answer when one is mtbdd_false.  *)
(* The flag shortcircuit only ends a comparison that has failed already.   *)
CompareAll(a0, b0, same, partial, R(_, _)) ==
    LET RECURSIVE do(_, _)
        do(a, b) ==
            LET v == Least(VarOf(a), VarOf(b))
            IN  IF a = b THEN same
                ELSE IF mtbdd_false \in {a, b} THEN partial
                ELSE IF mtbdd_isleaf(a) /\ mtbdd_isleaf(b) THEN R(a, b)
                ELSE do(LowAt(a, v), LowAt(b, v)) /\ do(HighAt(a, v), HighAt(b, v))
    IN  do(a0, b0)
mtbdd_equal_norm_d(a, b, eps) ==
    LET R(x, y) == Abs(Num(x) - Num(y)) < eps IN CompareAll(a, b, TRUE, FALSE, R)
mtbdd_equal_norm_rel_d(a, b, eps) ==
    LET R(x, y) == Num(x) # 0 /\ Abs(Num(x) - Num(y)) < eps * Abs(Num(x))
    IN  CompareAll(a, b, TRUE, FALSE, R)
mtbdd_leq(a, b) == LET R(x, y) == ~Below(y, x) IN CompareAll(a, b, TRUE, TRUE, R)
mtbdd_less(a, b) == CompareAll(a, b, FALSE, TRUE, Below)
mtbdd_geq(a, b) == LET R(x, y) == ~Below(x, y) IN CompareAll(a, b, TRUE, TRUE, R)
mtbdd_greater(a, b) == LET R(x, y) == Below(y, x) IN CompareAll(a, b, FALSE, TRUE, R)

RECURSIVE mtbdd_minimum(_)
mtbdd_minimum(a) ==
    LET low == mtbdd_minimum(node_low(a))
        high == mtbdd_minimum(node_high(a))
    IN  IF mtbdd_isleaf(a) THEN a ELSE IF Below(low, high) THEN low ELSE high
RECURSIVE mtbdd_maximum(_)
mtbdd_maximum(a) ==
    LET low == mtbdd_maximum(node_low(a))
        high == mtbdd_maximum(node_high(a))
    IN  IF mtbdd_isleaf(a) THEN a ELSE IF Below(high, low) THEN low ELSE high

RECURSIVE mtbdd_support(_)
mtbdd_support(a) ==
    IF mtbdd_isleaf(a) THEN mtbdd_true
    ELSE mtbdd_makenode(VarOf(a), mtbdd_false,
                        sylvan_and(mtbdd_support(node_low(a)), mtbdd_support(node_high(a))))
RECURSIVE mtbdd_compose(_, _)
mtbdd_compose(a, map0) ==
    LET map == SkipMap(map0, VarOf(a))
        root == IF VarOf(map) = VarOf(a) THEN node_high(map) ELSE sylvan_ithvar(VarOf(a))
    IN  IF mtbdd_isleaf(a) \/ sylvan_map_isempty(map) THEN a
        ELSE mtbdd_ite(root, mtbdd_compose(node_high(a), map), mtbdd_compose(node_low(a), map))
RECURSIVE mtbdd_satcount(_, _)
mtbdd_satcount(a, nvars) ==
    IF a = mtbdd_false \/ (NumberLeaf(a) /\ Num(a) = 0) THEN 0
    ELSE IF mtbdd_isleaf(a) THEN 2 ^ nvars
    ELSE mtbdd_satcount(node_low(a), nvars - 1) + mtbdd_satcount(node_high(a), nvars - 1)
mtbdd_eval_compose(dd, vars, CB(_)) ==
    LET RECURSIVE do(_, _)
        do(a, vs0) ==
            LET vs == Skip(vs0, VarOf(a))
            IN  IF mtbdd_isleaf(a) \/ vs = mtbdd_true THEN CB(a)
                ELSE mtbdd_makenode(VarOf(a), do(node_low(a), node_high(vs)),
                                              do(node_high(a), node_high(vs)))
    IN  do(dd, vars)

(* Counting marks every node that is met once. *)
RECURSIVE Nodes(_)
Nodes(a) == {a[2]} \cup (IF mtbdd_isleaf(a) THEN {} ELSE Nodes(a[2][2]) \cup Nodes(a[2][3]))
mtbdd_nodecount(a) == Cardinality(Nodes(a))
mtbdd_leafcount(a) == Cardinality({n \in Nodes(a) : Len(n) = 1})
RECURSIVE Ordered(_, _)
Ordered(a, parent) ==
    mtbdd_isleaf(a) \/ (/\ VarOf(a) > parent
                        /\ Ordered(node_low(a), VarOf(a)) /\ Ordered(node_high(a), VarOf(a)))
mtbdd_test_isvalid(a) ==
    mtbdd_isleaf(a) \/ (Ordered(node_low(a), VarOf(a)) /\ Ordered(node_high(a), VarOf(a)))

-----------------------------------------------------------------------------
(* Enumeration: <<leaf, arr>> or <<>>.  enum gives cubes over vars with 2  *)
(* for "any"; enum_all gives every assignment, and asks the filter only    *)
(* about leaves above the last variable.  filter_cb is NULL or a client's  *)
(* function, here: leaves greater than zero.                               *)
Takes(filter_cb, a) == filter_cb = "NULL" \/ Num(a) > 0
Twice(n) == [i \in 1 .. n |-> 2]
Zeros(n) == [i \in 1 .. n |-> 0]
Under(bit, r) == IF r = <<>> THEN <<>> ELSE <<r[1], <<bit>> \o r[2]>>
FirstOf(r, s) == IF r # <<>> THEN r ELSE s
mtbdd_enum_first(dd, vars, filter_cb) ==
    LET RECURSIVE do(_, _)
        do(a, vs) ==
            IF a = mtbdd_false THEN <<>>
            ELSE IF mtbdd_isleaf(a)
            THEN IF Takes(filter_cb, a) THEN <<a, Twice(sylvan_set_count(vs))>> ELSE <<>>
            ELSE IF VarOf(a) # VarOf(vs) THEN Under(2, do(a, node_high(vs)))
            ELSE FirstOf(Under(0, do(node_low(a), node_high(vs))),
                         Under(1, do(node_high(a), node_high(vs))))
    IN  do(dd, vars)
mtbdd_enum_next(dd, vars, arr0, filter_cb) ==
    LET RECURSIVE do(_, _, _)
        do(a, vs, arr) ==
            LET next == node_high(vs)
            IN  IF mtbdd_isleaf(a) THEN <<>>
                ELSE CASE arr[1] = 0 ->
                            FirstOf(Under(0, do(node_low(a), next, Tail(arr))),
                                    Under(1, mtbdd_enum_first(node_high(a), next, filter_cb)))
                       [] arr[1] = 1 -> Under(1, do(node_high(a), next, Tail(arr)))
                       [] OTHER -> Under(2, do(a, next, Tail(arr)))
    IN  do(dd, vars, arr0)
mtbdd_enum_all_first(dd, vars, filter_cb) ==
    LET RECURSIVE do(_, _)
        do(a, vs) ==
            LET v == VarOf(vs)
            IN  IF a = mtbdd_false THEN <<>>
                ELSE IF vs = mtbdd_true THEN <<a, <<>>>>
                ELSE IF mtbdd_isleaf(a)
                THEN IF Takes(filter_cb, a) THEN <<a, Zeros(sylvan_set_count(vs))>> ELSE <<>>
                ELSE FirstOf(Under(0, do(LowAt(a, v), node_high(vs))),
                             Under(1, do(HighAt(a, v), node_high(vs))))
    IN  do(dd, vars)
mtbdd_enum_all_next(dd, vars, arr0, filter_cb) ==
    LET RECURSIVE do(_, _, _)
        do(a, vs, arr) ==
            LET v == VarOf(vs)         next == node_high(vs)
            IN  IF a = mtbdd_false \/ vs = mtbdd_true THEN <<>>
                ELSE IF mtbdd_isleaf(a) /\ ~Takes(filter_cb, a) THEN <<>>
                ELSE IF arr[1] = 1 THEN Under(1, do(HighAt(a, v), next, Tail(arr)))
                ELSE FirstOf(Under(0, do(LowAt(a, v), next, Tail(arr))),
                             Under(1, mtbdd_enum_all_first(HighAt(a, v), next, filter_cb)))
    IN  do(dd, vars, arr0)
(* What a client that calls first and then next until nothing is left sees. *)
EnumFrom(dd, vars, filter_cb, r0) ==
    LET RECURSIVE go(_)
        go(r) == IF r = <<>> THEN <<>> ELSE <<r>> \o go(mtbdd_enum_next(dd, vars, r[2], filter_cb))
    IN  go(r0)
EnumAllFrom(dd, vars, filter_cb, r0) ==
    LET RECURSIVE go(_)
        go(r) == IF r = <<>> THEN <<>> ELSE <<r>> \o go(mtbdd_enum_all_next(dd, vars, r[2], filter_cb))
    IN  go(r0)

-----------------------------------------------------------------------------
(* Sets of variables. *)
RECURSIVE mtbdd_set_add(_, _)
mtbdd_set_add(set, v) ==
    IF v < VarOf(set) THEN mtbdd_makenode(v, mtbdd_false, set)
    ELSE IF v = VarOf(set) THEN set
    ELSE mtbdd_makenode(VarOf(set), mtbdd_false, mtbdd_set_add(node_high(set), v))
RECURSIVE mtbdd_set_remove(_, _)
mtbdd_set_remove(set, v) ==
    IF v < VarOf(set) THEN set
    ELSE IF v = VarOf(set) THEN node_high(set)
    ELSE mtbdd_makenode(VarOf(set), mtbdd_false, mtbdd_set_remove(node_high(set), v))
RECURSIVE mtbdd_set_from_array(_)
mtbdd_set_from_array(arr) ==
    IF arr = <<>> THEN mtbdd_true ELSE mtbdd_set_add(mtbdd_set_from_array(Tail(arr)), arr[1])
RECURSIVE mtbdd_set_to_array(_)
mtbdd_set_to_array(set) ==
    IF set = mtbdd_true THEN <<>> ELSE <<VarOf(set)>> \o mtbdd_set_to_array(node_high(set))
RECURSIVE mtbdd_set_minus(_, _)
mtbdd_set_minus(s1, s2) ==
    CASE s1 = mtbdd_true -> mtbdd_true
      [] s2 = mtbdd_true -> s1
      [] s1 = s2 -> mtbdd_true
      [] VarOf(s1) = VarOf(s2) -> mtbdd_set_minus(node_high(s1), node_high(s2))
      [] VarOf(s1) > VarOf(s2) -> mtbdd_set_minus(s1, node_high(s2))
      [] OTHER -> mtbdd_makenode(VarOf(s1), mtbdd_false, mtbdd_set_minus(node_high(s1), s2))
RECURSIVE mtbdd_set_contains(_, _)
mtbdd_set_contains(set, v) ==
    v = VarOf(set) \/ (v > VarOf(set) /\ mtbdd_set_contains(node_high(set), v))

(* Maps from variables to diagrams. *)
RECURSIVE mtbdd_map_add(_, _, _)
mtbdd_map_add(map, key, value) ==
    CASE VarOf(map) < key ->
            mtbdd_makemapnode(VarOf(map), mtbdd_map_add(node_low(map), key, value), node_high(map))
      [] VarOf(map) > key -> mtbdd_makemapnode(key, map, value)
      [] OTHER -> mtbdd_makemapnode(key, node_low(map), value)
RECURSIVE mtbdd_map_update(_, _)
mtbdd_map_update(m1, m2) ==
    LET k1 == VarOf(m1)                k2 == VarOf(m2)
        low == mtbdd_map_update(LowAt(m1, Least(k1, k2)), LowAt(m2, Least(k1, k2)))
    IN  IF sylvan_map_isempty(m1) THEN m2
        ELSE IF sylvan_map_isempty(m2) THEN m1
        ELSE mtbdd_makemapnode(Least(k1, k2), low, node_high(IF k1 < k2 THEN m1 ELSE m2))
RECURSIVE mtbdd_map_remove(_, _)
mtbdd_map_remove(map, key) ==
    CASE VarOf(map) < key ->
            mtbdd_makemapnode(VarOf(map), mtbdd_map_remove(node_low(map), key), node_high(map))
      [] VarOf(map) > key -> map
      [] OTHER -> node_low(map)
RECURSIVE mtbdd_map_removeall(_, _)
mtbdd_map_removeall(map, vs) ==
    LET k1 == VarOf(map)               k2 == VarOf(vs)
    IN  IF sylvan_map_isempty(map) \/ vs = mtbdd_true THEN map
        ELSE IF k1 < k2
        THEN mtbdd_makemapnode(k1, mtbdd_map_removeall(node_low(map), vs), node_high(map))
        ELSE mtbdd_map_removeall(LowAt(map, k2), node_high(vs))
RECURSIVE mtbdd_map_count(_)
mtbdd_map_count(map) == IF sylvan_map_isempty(map) THEN 0 ELSE 1 + mtbdd_map_count(node_low(map))
RECURSIVE mtbdd_map_contains(_, _)
mtbdd_map_contains(map, key) ==
    VarOf(map) = key \/ (VarOf(map) < key /\ mtbdd_map_contains(node_low(map), key))
=============================================================================
