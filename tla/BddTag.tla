------------------------------- MODULE BddTag -------------------------------
(***************************************************************************)
(* The tags of src/bdd_tag.cpp: a label is a node of a binary tree of      *)
(* segments [begin, end); going left skips offsets, going right takes      *)
(* them, and parent leads to the node of the segment before.  The offsets  *)
(* of a label are those of the segments on its way to the root.            *)
(* Nodes are changed when a later call splits their segment.               *)
(***************************************************************************)
EXTENDS Integers, Sequences, FiniteSets
CONSTANTS Offsets,       \* tag_off of the bytes that are read
          MAX_LB         \* labels are smaller than this
ASSUME OffsetAssumption == \A o \in Offsets : o \in Nat /\ o + 1 < MAX_LB
VARIABLES nodes,         \* label -> [left, right, parent, begin, end, sign]
          denotes        \* label returned -> the offsets it was returned for
vars == <<nodes, denotes>>
ROOT == 0

TagNode(p, b, e) == [left |-> 0, right |-> 0, parent |-> p, begin |-> b, end |-> e,
                     sign |-> FALSE]
Labels(ns) == 1 .. Len(ns) - 1
N(ns, lb) == ns[lb + 1]
BDDTag == <<TagNode(ROOT, 0, 0)>>

(* The new label is the number of nodes so far. *)
alloc_node(ns, parent, begin, end) == Append(ns, TagNode(parent, begin, end))

SplitOnes(ns, cur, new, next, from) ==
    [ns EXCEPT ![cur + 1].right = new, ![new + 1].right = next,
               ![next + 1].parent = new, ![next + 1].begin = from]

(* Both walks yield the nodes and the label reached. *)
insert_n_zeros(ns0, lb0, num0, last) ==
    LET RECURSIVE go(_, _, _)
        go(ns, cur, num) ==
            LET next == N(ns, cur).left
                size == N(ns, next).end - N(ns, next).begin
                off == N(ns, cur).end
                new == Len(ns)
                more == [alloc_node(ns, last, off, off + num)
                           EXCEPT ![cur + 1].left = new]
            IN  CASE num = 0 -> <<ns, cur>>
                  [] num # 0 /\ next = 0 -> <<more, new>>
                  [] num # 0 /\ next # 0 /\ size > num ->
                        <<[more EXCEPT ![next + 1].begin = off + num], new>>
                  [] OTHER -> go(ns, next, num - size)
    IN  go(ns0, lb0, num0)
insert_n_ones(ns0, lb0, num0, last) ==
    LET RECURSIVE go(_, _, _)
        go(ns, cur, num) ==
            LET next == N(ns, cur).right
                off == N(ns, cur).end
                size == N(ns, next).end - off
                new == Len(ns)
                more == alloc_node(ns, last, off, off + num)
            IN  CASE num = 0 -> <<ns, cur>>
                  [] num # 0 /\ next = 0 -> <<[more EXCEPT ![cur + 1].right = new], new>>
                  [] num # 0 /\ next # 0 /\ size > num ->
                        <<SplitOnes(more, cur, new, next, off + num), new>>
                  [] OTHER -> go(ns, next, num - size)
    IN  go(ns0, lb0, num0)

(* Mutant: the parent is the node of the skipped offsets. *)
ParentSkipped(ns, pos) ==
    LET z == insert_n_zeros(ns, ROOT, pos, ROOT) IN insert_n_ones(z[1], z[2], 1, z[2])
insert(ns, pos) ==
    LET z == insert_n_zeros(ns, ROOT, pos, ROOT) IN insert_n_ones(z[1], z[2], 1, ROOT)

(* The segments of both labels, from the last to the first; of two with    *)
(* one begin only the first met is kept.                                   *)
Segments(ns, lb1, lb2) ==
    LET RECURSIVE go(_, _, _, _)
        go(l1, l2, st, lastb) ==
            LET b1 == N(ns, l1).begin  b2 == N(ns, l2).begin
            IN  IF l1 = 0 \/ l1 = l2 THEN <<IF l1 > 0 THEN l1 ELSE l2, st>>
                ELSE IF b1 < b2
                THEN IF b2 < lastb THEN go(l1, N(ns, l2).parent, <<l2>> \o st, b2)
                                   ELSE go(l1, N(ns, l2).parent, st, lastb)
                ELSE IF b1 < lastb THEN go(N(ns, l1).parent, l2, <<l1>> \o st, b1)
                                   ELSE go(N(ns, l1).parent, l2, st, lastb)
    IN  go(lb1, lb2, <<>>, MAX_LB)

Lay(ns0, lb, stack) ==
    LET RECURSIVE go(_, _, _)
        go(ns, cur, st) ==
            IF st = <<>> THEN <<ns, cur>> ELSE
            LET c == N(ns, cur)
                n == N(ns, Head(st))
                r == IF c.end >= n.begin
                     THEN IF n.end > c.end
                          THEN insert_n_ones(ns, cur, n.end - c.end, cur)
                          ELSE <<ns, cur>>
                     ELSE LET z == insert_n_zeros(ns, cur, n.begin - c.end, cur)
                          IN  insert_n_ones(z[1], z[2], n.end - n.begin, cur)
                signed == IF n.sign THEN [r[1] EXCEPT ![r[2] + 1].sign = TRUE] ELSE r[1]
            IN  go(signed, r[2], Tail(st))
    IN  go(ns0, lb, stack)

combine(ns, l1, l2) ==
    CASE l1 = 0 -> <<ns, l2>>
      [] l1 # 0 /\ (l2 = 0 \/ l1 = l2) -> <<ns, l1>>
      [] OTHER -> LET s == IF l1 > l2 THEN Segments(ns, l2, l1) ELSE Segments(ns, l1, l2)
                  IN  Lay(ns, s[1], s[2])

(* The offsets that find lists for a label. *)
find(ns, lb0) ==
    LET RECURSIVE go(_, _, _)
        go(lb, lastb, acc) ==
            IF lb = 0 THEN acc
            ELSE LET n == N(ns, lb)
                 IN  IF n.begin < lastb
                     THEN go(n.parent, n.begin, acc \cup (n.begin .. n.end - 1))
                     ELSE go(n.parent, lastb, acc)
    IN  go(lb0, MAX_LB, {})

-----------------------------------------------------------------------------
BddInit == nodes = BDDTag /\ denotes = <<>>
Record(r, s) == /\ Len(r[1]) <= MAX_LB
                /\ nodes' = r[1]
                /\ denotes' = [l \in Labels(r[1]) |->
                                 IF l = r[2] THEN s
                                 ELSE IF l \in DOMAIN denotes THEN denotes[l] ELSE {}]
Known == {l \in DOMAIN denotes : denotes[l] # {}}
tag_alloc == \E o \in Offsets : Record(insert(nodes, o), {o})
tag_combine == \E l1, l2 \in Known \cup {0} :
                  /\ l1 # l2 /\ {l1, l2} \cap Known # {}
                  /\ Record(combine(nodes, l1, l2),
                         (IF l1 = 0 THEN {} ELSE denotes[l1])
                         \cup (IF l2 = 0 THEN {} ELSE denotes[l2]))
BddNext == tag_alloc \/ tag_combine

(* A label stands for the offsets it was made for, for ever: no later      *)
(* insertion or combination, which split segments of other labels, changes *)
(* what it lists, and a label is never given out for two sets.             *)
LabelsKept == \A l \in Known : find(nodes, l) = denotes[l]
=============================================================================
