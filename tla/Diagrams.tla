------------------------------ MODULE Diagrams ------------------------------
(***************************************************************************)
(* A client of Bdd and Mtbdd that applies one operation after the other to *)
(* a diagram dd, and beside it to fun, the mathematical object dd stands   *)
(* for.  kind says which:                                                  *)
(*   "bdd"    a set of assignments (the variables that are true);          *)
(*   "states" a set of states, over the even variables of two pairs;       *)
(*   "trans"  a set of transitions <<state, state>>, over both pairs;      *)
(*   "int", "double", "fraction"  a function from assignments to numbers   *)
(*            <<n, d>> in lowest terms or Undef;                           *)
(*   "set"    a set of variables;   "map"  a map from variables.           *)
(***************************************************************************)
EXTENDS Mtbdd
LOCAL INSTANCE FiniteSetsExt
LOCAL INSTANCE SequencesExt
LOCAL INSTANCE TLC
CONSTANTS Kinds,          \* the kinds to look at
          MaxNum, MaxDen, \* bounds on the numbers of each kind
          MaxTrans        \* bound on the transitions put together
VARIABLES kind, dd, fun
dvars == <<kind, dd, fun>>

-----------------------------------------------------------------------------
(* What a diagram means. *)
RECURSIVE Leaf(_, _)
Leaf(a, x) == IF mtbdd_isleaf(a) THEN a
              ELSE Leaf(IF VarOf(a) \in x THEN node_high(a) ELSE node_low(a), x)
Holds(a, V) == {x \in SUBSET V : Leaf(a, x) = sylvan_true}
(* Ordered, without redundant nodes, no complement on a low edge: then two *)
(* diagrams of one function are equal.                                     *)
RECURSIVE Reduced(_)
Reduced(a) == \/ mtbdd_isleaf(a)
              \/ LET low == a[2][2]      high == a[2][3]
                 IN  /\ low # high /\ ~Marked(low)
                     /\ VarOf(a) < Least(VarOf(low), VarOf(high))
                     /\ Reduced(low) /\ Reduced(high)
Set(vs) == mtbdd_set_from_array(SetToSeq(vs))

(* Cubes over n variables: 0, 1 or 2 (any) for each. *)
Cubes(n) == [1 .. n -> 0 .. 2]
InCube(x, c) == \A i \in DOMAIN c : c[i] = 2 \/ (c[i] = 1) = (i - 1 \in x)
Covered(c, V) == {x \in SUBSET V : InCube(x, c)}

-----------------------------------------------------------------------------
(* Sets of assignments over three variables. *)
V == 0 .. 2
Cube(c) == [dd |-> sylvan_cube(Set(V), c), fun |-> Covered(c, V)]
Not(o) == [dd |-> sylvan_not(o.dd), fun |-> SUBSET V \ o.fun]
Operands == LET cubes == {Cube(c) : c \in Cubes(3)} IN cubes \cup {Not(o) : o \in cubes}
Literals == {Cube(c) : c \in {<<1, 2, 2>>, <<2, 1, 2>>, <<2, 2, 1>>, <<0, 2, 2>>}}
Exists(S, vs) == {x \in SUBSET V : \E y \in S : x \ vs = y \ vs}
Vary(S, m) == {x \in SUBSET V : {v \in V : IF v \in DOMAIN m THEN x \in m[v].fun ELSE v \in x} \in S}
RECURSIVE MapOf(_)
MapOf(m) == LET v == CHOOSE v \in DOMAIN m : TRUE
            IN  IF m = <<>> THEN mtbdd_false
                ELSE mtbdd_map_add(MapOf(Restrict(m, DOMAIN m \ {v})), v, m[v].dd)
Substitutions == UNION {[W -> Literals] : W \in SUBSET V}

Becomes(results, f) == \E r \in results : dd' = r /\ fun' = f /\ kind' = kind
And == \E o \in Operands :
          Becomes({sylvan_and(dd, o.dd), sylvan_and_nogc(dd, o.dd),
                   sylvan_and_nogc_alone(dd, o.dd), sylvan_and_alone(dd, o.dd),
                   sylvan_and_alone_profile(dd, o.dd),
                   sylvan_and(sylvan_constrain(dd, o.dd), o.dd),
                   sylvan_and(sylvan_restrict(dd, o.dd), o.dd)}, fun \cap o.fun)
Or == \E o \in Operands : Becomes({sylvan_or(dd, o.dd)}, fun \cup o.fun)
Xor == \E o \in Operands : Becomes({sylvan_xor(dd, o.dd)}, SymDiff(fun, o.fun))
Ite == \E o \in Operands, p \in Literals :
          \/ Becomes({sylvan_ite(dd, o.dd, p.dd)}, (fun \cap o.fun) \cup (p.fun \ fun))
          \/ Becomes({sylvan_ite(p.dd, dd, o.dd)}, (p.fun \cap fun) \cup (o.fun \ p.fun))
Abstract == \E vs \in SUBSET V :
               \/ Becomes({sylvan_exists(dd, Set(vs))}, Exists(fun, vs))
               \/ Becomes({sylvan_project(dd, Set(vs))}, Exists(fun, V \ vs))
AndAbstract == \E vs \in SUBSET V :
                  \E o \in Operands : Becomes({sylvan_and_exists(dd, o.dd, Set(vs))},
                                              Exists(fun \cap o.fun, vs))
Compose == \E m \in Substitutions : Becomes({sylvan_compose(dd, MapOf(m))}, Vary(fun, m))
AddCube == \E c \in Cubes(3) : Becomes({sylvan_union_cube(dd, Set(V), c)}, fun \cup Covered(c, V))
BddStep == /\ kind = "bdd"
           /\ And \/ Or \/ Xor \/ Ite \/ Abstract \/ AndAbstract \/ Compose \/ AddCube

-----------------------------------------------------------------------------
(* States and transitions: variables 0 and 2, and 1 and 3 after the step. *)
W == 0 .. 3
State == SUBSET {0, 2}
Transition == State \X State
Both(t) == t[1] \cup {v + 1 : v \in t[2]}
Minterm(x) == [i \in 1 .. 4 |-> IF i - 1 \in x THEN 1 ELSE 0]
StateCube(s) == [i \in 1 .. 4 |-> IF i \in {2, 4} THEN 2 ELSE IF i - 1 \in s THEN 1 ELSE 0]
Union(cubes) == FoldSet(LAMBDA c, a : sylvan_union_cube(a, Set(W), c), sylvan_false, cubes)
RelationOf(R) == Union({Minterm(Both(t)) : t \in R})
Relations == [R \in UNION {kSubset(k, Transition) : k \in 0 .. 2} |-> RelationOf(R)]
Identity == {<<s, s>> : s \in State}
(* A relation on variables 2 and 3 only; the others keep their value. *)
Part == (SUBSET {2}) \X (SUBSET {2})
PartCube(x) == [i \in 1 .. 4 |-> IF i <= 2 THEN 2 ELSE Minterm(x)[i]]
PartDiagram(R) == Union({PartCube(Both(t)) : t \in R})
Whole(R) == {t \in Transition : t[1] \ {2} = t[2] \ {2} /\ <<t[1] \cap {2}, t[2] \cap {2}>> \in R}
Image(S, R) == {t \in State : \E s \in S : <<s, t>> \in R}
PreImage(S, R) == {s \in State : \E t \in S : <<s, t>> \in R}
Then(P, R) == {t \in Transition : \E m \in State : <<t[1], m>> \in P /\ <<m, t[2]>> \in R}
Doubled(R) == R \cup Then(R, R)
Closure(R) == Doubled(Doubled(R))                 \* paths of up to four transitions

OfStates == {sylvan_false, Set({0, 2}), Set(W)}
Step == \E R \in DOMAIN Relations, vs \in OfStates :
           \/ Becomes({sylvan_relnext(dd, Relations[R], vs)}, Image(fun, R))
           \/ Becomes({sylvan_relprev(Relations[R], dd, vs)}, PreImage(fun, R))
PartStep == \E R \in SUBSET Part :
               \/ Becomes({sylvan_relnext(dd, PartDiagram(R), Set({2}))}, Image(fun, Whole(R)))
               \/ Becomes({sylvan_relprev(PartDiagram(R), dd, Set({2}))}, PreImage(fun, Whole(R)))
AddState == \E s \in State :
               Becomes({sylvan_union_cube(dd, Set(W), StateCube(s))}, fun \cup {s})
StatesStep == kind = "states" /\ (Step \/ PartStep \/ AddState)

AddTransition == \E t \in Transition :
    Becomes({sylvan_union_cube(dd, Set(W), Minterm(Both(t)))}, fun \cup {t})
Sequel == \E R \in DOMAIN Relations :
    Becomes({sylvan_relprev(dd, Relations[R], sylvan_false)}, Then(fun, R))
Close == Becomes({sylvan_closure(sylvan_or(dd, RelationOf(Identity)))}, Closure(fun \cup Identity))
TransStep == /\ kind = "trans" /\ Cardinality(fun) <= MaxTrans
             /\ (Cardinality(fun) < MaxTrans /\ AddTransition) \/ Sequel \/ Close

-----------------------------------------------------------------------------
(* Functions from assignments of two variables to numbers. *)
U == 0 .. 1
LeafType == [int |-> 0, double |-> 1, fraction |-> 2]
IsNum == kind \in DOMAIN LeafType
Undef == <<>>
Low(n, d) == LET g == Max({k \in 1 .. d : d % k = 0 /\ n % k = 0}) IN <<Quot(n, g), d \div g>>
Plus(p, q) == IF p = Undef THEN q ELSE IF q = Undef THEN p
              ELSE Low(p[1] * q[2] + q[1] * p[2], p[2] * q[2])
Minus(p) == IF p = Undef THEN p ELSE <<-p[1], p[2]>>
Times(p, q) == IF Undef \in {p, q} THEN Undef ELSE Low(p[1] * q[1], p[2] * q[2])
Lt(p, q) == p[1] * q[2] < q[1] * p[2]
Smaller(p, q) == IF p = Undef THEN q ELSE IF q = Undef THEN p ELSE IF Lt(p, q) THEN p ELSE q
Larger(p, q) == IF p = Undef THEN q ELSE IF q = Undef THEN p ELSE IF Lt(p, q) THEN q ELSE p
Value(a) == IF a = mtbdd_false THEN Undef ELSE <<Num(a), Den(a)>>

Bounded(f) == \A x \in DOMAIN f : f[x] # Undef => Abs(f[x][1]) <= MaxNum[kind] /\ f[x][2] <= MaxDen
Numerals(k) == IF k = "fraction" THEN {<<-1, 2>>, <<1, 2>>, <<1, 1>>}
               ELSE {<<-1, 1>>, <<0, 1>>, <<MaxNum[k], 1>>}
LeafOf(k, p) == CASE k = "int" -> mtbdd_int64(p[1])
                  [] k = "double" -> mtbdd_double(p[1])
                  [] k = "fraction" -> mtbdd_fraction(p[1], p[2])
NumCube(k, c, p) == [dd |-> mtbdd_cube(Set(U), c, LeafOf(k, p)),
                     fun |-> [x \in SUBSET U |-> IF InCube(x, c) THEN p ELSE Undef]]
(* One numeral is an operand only as a constant function. *)
Middle(k) == IF k = "fraction" THEN <<1, 2>> ELSE <<0, 1>>
NumOperands(k) == {NumCube(k, c, p) : c \in Cubes(2), p \in Numerals(k) \ {Middle(k)}}
                  \cup {NumCube(k, <<2, 2>>, Middle(k))}
Ints == NumOperands("int")
Doubles == NumOperands("double")
Fractions == NumOperands("fraction")
Others == CASE kind = "int" -> Ints [] kind = "double" -> Doubles [] kind = "fraction" -> Fractions
Few == {o \in Others : \A x \in SUBSET U : o.fun[x] \in {Undef, <<-1, MaxDen>>, <<-1, 1>>}}

Pointwise2(F(_, _), f, g) == [x \in SUBSET U |-> F(f[x], g[x])]
Folded(F(_, _), f, vs) ==
    [x \in SUBSET U |-> LET ys == SetToSeq({y \in SUBSET U : y \ vs = x \ vs})
                        IN  FoldLeft(LAMBDA p, y : F(p, f[y]), f[ys[1]], Tail(ys))]
Gets(r, f) == Bounded(f) /\ Becomes({r}, f)

Apply == \E o \in Others :
    \/ Gets(mtbdd_plus(dd, o.dd), Pointwise2(Plus, fun, o.fun))
    \/ Gets(mtbdd_minus(dd, o.dd),
            Pointwise2(LAMBDA p, q : Plus(p, Minus(q)), fun, o.fun))
    \/ Gets(mtbdd_times(dd, o.dd), Pointwise2(Times, fun, o.fun))
    \/ Gets(mtbdd_min(dd, o.dd), Pointwise2(Smaller, fun, o.fun))
    \/ Gets(mtbdd_max(dd, o.dd), Pointwise2(Larger, fun, o.fun))
UApply ==
    \/ Gets(mtbdd_negate(dd), [x \in SUBSET U |-> Minus(fun[x])])
    \/ Gets(mtbdd_cmpl(dd),
            [x \in SUBSET U |-> IF fun[x] = Undef THEN Undef
                                ELSE IF fun[x][1] = 0 THEN <<1, 1>> ELSE <<0, 1>>])
(* A product over variables that do not occur is a power: wrong for a      *)
(* fraction.                                                               *)
NumAbstract == \E vs \in SUBSET U :
    \/ Gets(mtbdd_abstract_plus(dd, Set(vs)), Folded(Plus, fun, vs))
    \/ Gets(mtbdd_abstract_min(dd, Set(vs)), Folded(Smaller, fun, vs))
    \/ Gets(mtbdd_abstract_max(dd, Set(vs)), Folded(Larger, fun, vs))
    \/ /\ kind # "fraction"
       /\ Gets(mtbdd_abstract_times(dd, Set(vs)), Folded(Times, fun, vs))
NumAndAbstract == \E o \in Few, vs \in SUBSET U :
    LET product == Pointwise2(Times, fun, o.fun)
    IN  \/ Gets(mtbdd_and_abstract_plus(dd, o.dd, Set(vs)), Folded(Plus, product, vs))
        \/ Gets(mtbdd_and_abstract_max(dd, o.dd, Set(vs)), Folded(Larger, product, vs))
NumIte == \E o \in Few, c \in {<<0, 2>>, <<2, 1>>, <<1, 0>>} :
    Gets(mtbdd_ite(sylvan_cube(Set(U), c), dd, o.dd),
         [x \in SUBSET U |-> IF InCube(x, c) THEN fun[x] ELSE o.fun[x]])
NumCompose == \E vs \in SUBSET U : \E m \in [vs -> Literals \ {Cube(<<2, 2, 1>>)}] :
    Gets(mtbdd_compose(dd, MapOf(m)),
         [x \in SUBSET U |-> fun[{v \in U : IF v \in DOMAIN m THEN x \in m[v].fun ELSE v \in x}]])
(* The code adds a cube to a diagram with one terminal; it is right where  *)
(* no variable is skipped.                                                 *)
RECURSIVE NoSkip(_, _)
NoSkip(a, v) == mtbdd_isleaf(a) \/ (/\ VarOf(a) = v
                                    /\ NoSkip(node_low(a), v + 1) /\ NoSkip(node_high(a), v + 1))
AddNumCube == \E c \in Cubes(2), p \in Numerals(kind) :
    /\ \A x \in SUBSET U : fun[x] \in {Undef, p}
    /\ NoSkip(dd, 0)
    /\ Gets(mtbdd_union_cube(dd, Set(U), c, LeafOf(kind, p)),
            [x \in SUBSET U |-> IF InCube(x, c) THEN p ELSE fun[x]])
NumStep == /\ IsNum
           /\ \/ Apply \/ UApply \/ NumAbstract \/ NumAndAbstract \/ NumIte \/ NumCompose
              \/ AddNumCube

-----------------------------------------------------------------------------
(* Sets of variables and maps from variables to diagrams. *)
SetStep == /\ kind = "set"
           /\ \/ \E v \in W : \/ Becomes({mtbdd_set_add(dd, v)}, fun \cup {v})
                             \/ Becomes({mtbdd_set_remove(dd, v)}, fun \ {v})
              \/ \E vs \in SUBSET W :
                    \/ Becomes({mtbdd_set_minus(dd, Set(vs))}, fun \ vs)
                    \/ Becomes({sylvan_and(dd, Set(vs))}, fun \cup vs)
MapStep == /\ kind = "map"
           /\ \/ \E v \in V, o \in Literals :
                    Becomes({mtbdd_map_add(dd, v, o.dd)}, (v :> o) @@ fun)
              \/ \E v \in V : Becomes({mtbdd_map_remove(dd, v)}, Restrict(fun, DOMAIN fun \ {v}))
              \/ \E m \in Substitutions : Becomes({mtbdd_map_update(dd, MapOf(m))}, m @@ fun)
              \/ \E vs \in SUBSET V :
                    Becomes({mtbdd_map_removeall(dd, Set(vs))}, Restrict(fun, DOMAIN fun \ vs))

DiagramInit ==
    /\ kind \in Kinds
    /\ dd = IF kind = "set" THEN mtbdd_true ELSE mtbdd_false
    /\ fun = CASE IsNum -> [x \in SUBSET U |-> Undef]
               [] kind = "map" -> <<>>
               [] OTHER -> {}
DiagramNext == BddStep \/ StatesStep \/ TransStep \/ NumStep \/ SetStep \/ MapStep

-----------------------------------------------------------------------------
(* After any sequence of operations a diagram is in its one normal form    *)
(* and means what the operations computed.                                 *)
DiagramExact ==
    /\ kind = "bdd" => Holds(dd, V) = fun
    /\ kind = "states" => Holds(dd, W) = {x \in SUBSET W : x \cap {0, 2} \in fun}
    /\ kind = "trans" => Holds(dd, W) = {Both(t) : t \in fun}
    /\ kind \in {"bdd", "states", "trans"} => Reduced(dd)

(* The same for numbers, whose leaves have the type of the operands and,   *)
(* if fractions, lowest terms, and for sets and maps.                      *)
NumbersExact ==
    /\ IsNum => \A x \in SUBSET U :
          LET a == Leaf(dd, x)
          IN  Value(a) = fun[x] /\ (a # mtbdd_false => Type(a) = LeafType[kind])
    /\ kind = "set" => Holds(dd, W) = {x \in SUBSET W : fun \subseteq x}
    /\ IsNum \/ kind = "set" => Reduced(dd)
    /\ kind = "map" => dd = MapOf(fun)

Trues(s) == {i - 1 : i \in {j \in DOMAIN s : s[j] = 1}}
(* What a client asks of a set of assignments: its size, an assignment,    *)
(* by each of three ways, all of them, once each, and their images; and    *)
(* sylvan_and_project, which may yield more than the projection, yields no *)
(* less.                                                                   *)
BddAnswers ==
    kind = "bdd" =>
        LET all == sylvan_enum(dd, Set(V))
            Mirror(path) == Cube([i \in 1 .. 3 |-> 1 - path[i]]).dd
        IN  /\ sylvan_satcount(dd, Set(V)) = Cardinality(fun)
            /\ Cardinality(sylvan_sat_one_bdd(dd)) = IF fun = {} THEN 1 ELSE sylvan_pathcount(dd)
            /\ \A r \in sylvan_sat_one_bdd(dd) :
                  Holds(r, V) \subseteq fun /\ (Holds(r, V) = {} => fun = {})
            /\ fun # {} => Trues(sylvan_sat_one(dd, Set(V))) \in fun
            /\ fun # {} => \E x \in fun : Holds(sylvan_sat_single(dd, Set(V)), V) = {x}
            /\ {Trues(s) : s \in ToSet(all)} = fun /\ Len(all) = Cardinality(fun)
            /\ Holds(sylvan_collect(dd, Set(V), Mirror), V) = {V \ x : x \in fun}
            /\ \A o \in Operands, vs \in SUBSET V :
                  \A r \in sylvan_and_project(dd, o.dd, Set(vs)) :
                     Exists(fun \cap o.fun, V \ vs) \subseteq Holds(r, V)

(* What a client asks of numbers, sets and maps.  The cubes of             *)
(* mtbdd_enum_first and mtbdd_enum_next cover every assignment with a leaf *)
(* the filter takes once, with its leaf; mtbdd_enum_all_* list each        *)
(* assignment.  Undefined points are above and below all others; a strict  *)
(* comparison is exact when no point is undefined in both.                 *)
Cubed(all, x) == {i \in DOMAIN all : InCube(x, all[i][2])}
NumQueries ==
    LET Twofold(a) == mtbdd_plus(a, a)
        defined == {x \in SUBSET U : fun[x] # Undef}
        cubes == EnumFrom(dd, Set(U), "above zero", mtbdd_enum_first(dd, Set(U), "above zero"))
        points == EnumAllFrom(dd, Set(U), "NULL", mtbdd_enum_all_first(dd, Set(U), "NULL"))
        sums == mtbdd_eval_compose(dd, Set({0}), Twofold)
    IN  /\ \A x \in SUBSET U :
              LET hits == Cubed(cubes, x)
              IN  IF x \in defined /\ fun[x][1] > 0
                  THEN Cardinality(hits) = 1 /\ \A i \in hits : Value(cubes[i][1]) = fun[x]
                  ELSE hits = {}
        /\ {<<Trues(p[2]), Value(p[1])>> : p \in ToSet(points)} = {<<x, fun[x]>> : x \in defined}
        /\ Len(points) = Cardinality(defined)
        /\ mtbdd_satcount(dd, 2) = Cardinality({x \in defined : fun[x][1] # 0})
        /\ mtbdd_support(dd) = Set({v \in U : \E x \in SUBSET U : fun[x] # fun[x \cup {v}]})
        /\ defined = SUBSET U => \A x \in SUBSET U : /\ ~Lt(fun[x], Value(mtbdd_minimum(dd)))
                                                   /\ ~Lt(Value(mtbdd_maximum(dd)), fun[x])
        /\ defined = SUBSET U => {Value(mtbdd_minimum(dd)), Value(mtbdd_maximum(dd))}
                                   \subseteq {fun[x] : x \in SUBSET U}
        /\ mtbdd_leafcount(dd) = Cardinality({fun[x] : x \in defined})
        /\ mtbdd_nodecount(dd) \in 1 .. 7 /\ mtbdd_test_isvalid(dd)
        /\ \A x \in SUBSET U : Value(Leaf(sums, x)) = Plus(fun[x], fun[x])
        /\ \A k \in -1 .. 1 :
              /\ Holds(mtbdd_threshold_double(dd, k), U) = {x \in defined : ~Lt(fun[x], <<k, 1>>)}
              /\ Holds(mtbdd_strict_threshold_double(dd, k), U) = {x \in defined : Lt(<<k, 1>>, fun[x])}
Comparisons ==
    \A o \in Others :
        LET common == {x \in SUBSET U : Undef \notin {fun[x], o.fun[x]}}
            neither == {x \in SUBSET U : fun[x] = Undef /\ o.fun[x] = Undef}
            same == \A x \in SUBSET U : Undef \in {fun[x], o.fun[x]} => fun[x] = o.fun[x]
            Far(x) == Abs(fun[x][1] - o.fun[x][1])
        IN  /\ mtbdd_leq(dd, o.dd) = \A x \in common : ~Lt(o.fun[x], fun[x])
            /\ mtbdd_geq(dd, o.dd) = \A x \in common : ~Lt(fun[x], o.fun[x])
            /\ neither = {} =>
                  /\ mtbdd_less(dd, o.dd) = \A x \in common : Lt(fun[x], o.fun[x])
                  /\ mtbdd_greater(dd, o.dd) = \A x \in common : Lt(o.fun[x], fun[x])
            /\ kind = "double" =>
                  /\ mtbdd_equal_norm_d(dd, o.dd, 2) = (same /\ \A x \in common : Far(x) < 2)
                  /\ mtbdd_equal_norm_rel_d(dd, o.dd, 2) =
                        (same /\ \A x \in common : fun[x] = o.fun[x] \/ Far(x) < 2 * Abs(fun[x][1]))
SetQueries == /\ \A v \in W : mtbdd_set_contains(dd, v) = (v \in fun)
              /\ ToSet(mtbdd_set_to_array(dd)) = fun /\ sylvan_set_count(dd) = Cardinality(fun)
MapQueries == /\ \A v \in V : mtbdd_map_contains(dd, v) = (v \in DOMAIN fun)
              /\ mtbdd_map_count(dd) = Cardinality(DOMAIN fun)
NumberAnswers == /\ IsNum => NumQueries /\ Comparisons
                 /\ kind = "set" => SetQueries
                 /\ kind = "map" => MapQueries

(* The answers to a client, of whatever diagram it holds: what Sylvan      *)
(* counts, picks, enumerates and compares is that of the function.         *)
Answers == BddAnswers /\ NumberAnswers

-----------------------------------------------------------------------------
(* Where the code deviates from what it says it computes. *)
ASSUME ClosureAssumption ==      \* of a relation that is not reflexive
    LET step == RelationOf({<<{}, {0}>>}) IN sylvan_closure(step) # step
ASSUME ProjectAssumption ==      \* a AND b has no assignment
    sylvan_and_project(Cube(<<2, 1, 1>>).dd, Cube(<<2, 0, 2>>).dd, Set({0})) = {sylvan_true}
ASSUME UnionCubeAssumption ==    \* drops the assignment with 0 false, 1 true
    LET one == mtbdd_int64(1)
        with == mtbdd_union_cube(mtbdd_cube(Set(U), <<2, 1>>, one), Set(U), <<1, 0>>, one)
    IN  Leaf(with, {1}) = mtbdd_false
ASSUME PowerAssumption ==        \* 1/2 * 1/2
    LET half == mtbdd_fraction(1, 2)
    IN  Value(mtbdd_abstract_times(half, Set({0}))) # <<1, 4>>
ASSUME StrictAssumption ==       \* one meaning, "less where both are defined", two answers
    LET one == mtbdd_int64(1)
        two == mtbdd_int64(2)
        a == mtbdd_makenode(0, mtbdd_false, one)
        b == mtbdd_makenode(0, mtbdd_false, two)
    IN  ~mtbdd_less(a, b) /\ mtbdd_less(mtbdd_false, b)
=============================================================================
