---------------------------- MODULE Roots_proofs ----------------------------
(***************************************************************************)
(* Proofs about Roots: the pointers registered with Sylvan are exactly the *)
(* mailboxes and the cells in use, for any number of threads; and in a     *)
(* single-threaded program no collection frees the node of a live tag.     *)
(***************************************************************************)
EXTENDS Roots, TLAPS

(* Two threads never fill the same cell, and a cell being filled is in use.*)
Filling(t) == pc[t] \in {"protect", "clear"}
Apart ==
    /\ \A t \in Threads : Filling(t) => victim[t] \in used
    /\ \A t, u \in Threads :
        t # u /\ Filling(t) /\ Filling(u) => victim[t] # victim[u]

(* RootsExact pointer by pointer, the form the provers can use.            *)
Registered ==
    /\ \A t \in Threads : <<"res", t>> \in prot
    /\ \A c \in Cells : <<"bdd", c>> \in prot <=>
            c \in used /\ \A t \in Threads : pc[t] = "protect" => victim[t] # c

(* The iterator and its rest stay within the table.                        *)
IterInv == gc = "mark" => it \in Ptr

TInv == TypeOK /\ IterInv

(* Every step keeps the types and leaves the iterator on a pointer.        *)
LEMMA TypeStep == TInv /\ [Next]_vars => TInv'
<1> SUFFICES ASSUME TInv, [Next]_vars PROVE TInv'
    OBVIOUS
<1> USE DEF TInv, TypeOK, IterInv
<1>1. ASSUME NEW t \in Threads, Post(t) PROVE TInv'
    BY <1>1 DEF Post, gcVars
<1>2. ASSUME NEW t \in Threads, Answer(t) PROVE TInv'
    BY <1>2 DEF Answer, gcVars
<1>3. ASSUME NEW t \in Threads, Same(t) PROVE TInv'
    BY <1>3 DEF Same, gcVars
<1>4. ASSUME NEW t \in Threads, Fill(t) PROVE TInv'
    BY <1>4 DEF Fill, gcVars
<1>5. ASSUME NEW t \in Threads, Protect(t) PROVE TInv'
    BY <1>5 DEF Protect, Ptr
<1>6. ASSUME NEW t \in Threads, ClearRes(t) PROVE TInv'
    BY <1>6 DEF ClearRes, gcVars
<1>7. ASSUME NEW t \in Threads, Reclaim(t) PROVE TInv'
    BY <1>7 DEF Reclaim
<1>8. ASSUME NEW t \in Threads, GcStart(t) PROVE TInv'
    BY <1>8 DEF GcStart, appVars
<1>9. CASE GcIter
    BY <1>9 DEF GcIter, appVars
<1>10. CASE GcMark
    <2>1. At(it) \in Nodes \cup {Zero}
        BY <1>10 DEF GcMark, At, Ptr
    <2>2. marked' \subseteq Nodes
        BY <1>10, <2>1 DEF GcMark
    <2>3. /\ it' \in Ptr \cup {None} /\ ahead' \subseteq Ptr
          /\ gc' \in {"mark", "sweep"} /\ (gc' = "mark" => it' \in Ptr)
        BY <1>10 DEF GcMark, Move
    <2> QED
        BY <1>10, <2>2, <2>3 DEF GcMark, appVars
<1>11. CASE GcSweep
    BY <1>11 DEF GcSweep, appVars
<1>12. CASE UNCHANGED vars
    BY <1>12 DEF vars, appVars, gcVars
<1> QED
    BY <1>1, <1>2, <1>3, <1>4, <1>5, <1>6, <1>7, <1>8, <1>9, <1>10, <1>11,
       <1>12 DEF Next

(* No step makes two threads fill one cell.                                *)
LEMMA ApartStep == TInv /\ Apart /\ [Next]_vars => Apart'
<1> SUFFICES ASSUME TInv, Apart, [Next]_vars PROVE Apart'
    OBVIOUS
<1> USE DEF TInv, TypeOK, Apart, Filling
<1>1. ASSUME NEW t \in Threads, Post(t) PROVE Apart'
    BY <1>1 DEF Post
<1>2. ASSUME NEW t \in Threads, Answer(t) PROVE Apart'
    BY <1>2 DEF Answer
<1>3. ASSUME NEW t \in Threads, Same(t) PROVE Apart'
    BY <1>3 DEF Same
<1>4. ASSUME NEW t \in Threads, Fill(t) PROVE Apart'
    BY <1>4 DEF Fill
<1>5. ASSUME NEW t \in Threads, Protect(t) PROVE Apart'
    BY <1>5 DEF Protect
<1>6. ASSUME NEW t \in Threads, ClearRes(t) PROVE Apart'
    BY <1>6 DEF ClearRes
<1>7. ASSUME NEW t \in Threads, Reclaim(t) PROVE Apart'
    BY <1>7 DEF Reclaim
<1>8. CASE UNCHANGED appVars
    BY <1>8 DEF appVars
<1> QED
    BY <1>1, <1>2, <1>3, <1>4, <1>5, <1>6, <1>7, <1>8
    DEF Next, GcStart, GcIter, GcMark, GcSweep, vars

(* Every step keeps the table exact: filling registers the cell, ssa_gc    *)
(* takes it out, nothing else touches the table.                           *)
LEMMA RegisteredStep ==
    TInv /\ Apart /\ Registered /\ [Next]_vars => Registered'
<1> SUFFICES ASSUME TInv, Apart, Registered, [Next]_vars PROVE Registered'
    OBVIOUS
<1> USE DEF TInv, TypeOK, Apart, Filling, Registered
<1>1. ASSUME NEW t \in Threads, Post(t) PROVE Registered'
    BY <1>1 DEF Post
<1>2. ASSUME NEW t \in Threads, Answer(t) PROVE Registered'
    BY <1>2 DEF Answer
<1>3. ASSUME NEW t \in Threads, Same(t) PROVE Registered'
    BY <1>3 DEF Same
<1>4. ASSUME NEW t \in Threads, Fill(t) PROVE Registered'
    BY <1>4 DEF Fill
<1>5. ASSUME NEW t \in Threads, Protect(t) PROVE Registered'
    BY <1>5 DEF Protect
<1>6. ASSUME NEW t \in Threads, ClearRes(t) PROVE Registered'
    BY <1>6 DEF ClearRes
<1>7. ASSUME NEW t \in Threads, Reclaim(t) PROVE Registered'
    BY <1>7 DEF Reclaim
<1>8. CASE UNCHANGED <<appVars, prot>>
    BY <1>8 DEF appVars
<1> QED
    BY <1>1, <1>2, <1>3, <1>4, <1>5, <1>6, <1>7, <1>8
    DEF Next, GcStart, GcIter, GcMark, GcSweep, vars

(* The pointwise form gives the equation.                                  *)
LEMMA Exact == TInv /\ Registered => RootsExact
<1> SUFFICES ASSUME TInv, Registered PROVE RootsExact
    OBVIOUS
<1> DEFINE filling == {victim[t] : t \in {u \in Threads : pc[u] = "protect"}}
           right == ({"res"} \X Threads) \cup ({"bdd"} \X (used \ filling))
<1>1. ASSUME NEW p \in prot PROVE p \in right
    BY <1>1 DEF TInv, TypeOK, Ptr, Registered
<1>2. ASSUME NEW p \in right PROVE p \in prot
    BY <1>2 DEF TInv, TypeOK, Registered
<1> QED
    BY <1>1, <1>2 DEF RootsExact

(* The table of protected pointers holds the mailboxes and the cells in    *)
(* use that are filled, whatever the threads and the collector do.         *)
THEOREM TableExact == Spec => []RootsExact
<1> DEFINE I == TInv /\ Apart /\ Registered
<1>1. Init => I
    BY DEF Init, TInv, TypeOK, IterInv, Apart, Filling, Registered, Ptr
<1>2. I /\ [Next]_vars => I'
    BY TypeStep, ApartStep, RegisteredStep
<1>3. I => RootsExact
    BY Exact
<1> QED
    BY <1>1, <1>2, <1>3, PTL DEF Spec

-----------------------------------------------------------------------------
(* A program with one thread.                                              *)
Alone == \A t, u \in Threads : t = u

(* The application waits while its worker collects.                        *)
GcWaits == gc # "off" => \A t \in Threads : pc[t] = "wait"

(* What the collection has still to reach: every pointer of the table is   *)
(* ahead of the iterator or under it, or its node is marked.               *)
Pending(p) == p \in ahead \/ p = it
Marked(p) == At(p) = Zero \/ At(p) \in marked
Marking ==
    /\ gc = "mark" => /\ it \in prot
                      /\ \A p \in prot : Pending(p) \/ Marked(p)
                      /\ ahead \subseteq prot
    /\ gc = "sweep" => \A p \in prot : Marked(p)

(* A result that is waiting to be fetched is a node, and the collection    *)
(* marks only nodes of the table.                                          *)
KeptInv ==
    /\ LiveKept
    /\ \A t \in Threads : pc[t] = "answered" => res[t] # Zero
    /\ gc # "off" => marked \subseteq node

IInv == TInv /\ Apart /\ Registered /\ GcWaits /\ Marking /\ KeptInv

(* The invariant holds when the threads have started.                      *)
LEMMA KeptInit == Init => IInv
BY DEF Init, IInv, TInv, TypeOK, IterInv, Apart, Filling, Registered, Ptr,
       GcWaits, Marking, KeptInv, LiveKept

(* With one thread nobody moves the pointers under the collector: every    *)
(* step keeps the marking complete and the nodes of live tags in the table.*)
LEMMA KeptStep == Alone /\ IInv /\ [Next]_vars => IInv'
<1> SUFFICES ASSUME Alone, IInv, [Next]_vars PROVE IInv'
    OBVIOUS
<1> USE DEF GcWaits, Marking, KeptInv, LiveKept, Pending, Marked
<1>0. TInv' /\ Apart' /\ Registered'
    BY TypeStep, ApartStep, RegisteredStep DEF IInv
<1> DEFINE Goal == GcWaits' /\ Marking' /\ KeptInv'
<1>1. ASSUME NEW t \in Threads, Post(t) PROVE Goal
    BY <1>1 DEF Post, gcVars, IInv, TInv, TypeOK, Alone, At
<1>2. ASSUME NEW t \in Threads, Answer(t) PROVE Goal
    BY <1>2, ZeroAssumption DEF Answer, gcVars, IInv, TInv, TypeOK, Alone
<1>3. ASSUME NEW t \in Threads, Same(t) PROVE Goal
    BY <1>3 DEF Same, gcVars, IInv, TInv, TypeOK, Alone
<1>4. ASSUME NEW t \in Threads, Fill(t) PROVE Goal
    <2>1. gc = "off" /\ gc' = "off"
        BY <1>4 DEF Fill, gcVars, IInv
    <2>2. res[t] \in node
        BY <1>4 DEF Fill, IInv
    <2> QED
        BY <1>4, <2>1, <2>2 DEF Fill, IInv, TInv, TypeOK
<1>5. ASSUME NEW t \in Threads, Protect(t) PROVE Goal
    BY <1>5 DEF Protect, IInv, TInv, TypeOK, Alone
<1>6. ASSUME NEW t \in Threads, ClearRes(t) PROVE Goal
    BY <1>6 DEF ClearRes, gcVars, IInv, TInv, TypeOK, Alone
<1>7. ASSUME NEW t \in Threads, Reclaim(t) PROVE Goal
    BY <1>7 DEF Reclaim, IInv, TInv, TypeOK, Alone
<1>8. ASSUME NEW t \in Threads, GcStart(t) PROVE Goal
    BY <1>8 DEF GcStart, appVars, IInv, TInv, TypeOK, Alone
<1>9. ASSUME GcIter PROVE Goal
    <2>1. \A p : At(p)' = At(p)
        BY <1>9 DEF GcIter, At
    <2> QED
        BY <1>9, <2>1 DEF GcIter, appVars, IInv
<1>10. ASSUME GcMark PROVE Goal
    <2>1. UNCHANGED <<pc, used, bdd, res, prot, node>>
        BY <1>10 DEF GcMark, appVars
    <2>2. At(it) = Zero \/ At(it) \in node
        BY <1>10 DEF GcMark, At, IInv, TInv, TypeOK, Ptr, Registered
    <2>3. \A p : At(p)' = At(p)
        BY <2>1 DEF At
    <2>4. marked' = marked \cup ({At(it)} \ {Zero}) /\ marked' \subseteq node
        BY <1>10, <2>2 DEF GcMark, IInv
    <2>5. Marking'
        BY <1>10, <2>1, <2>3, <2>4 DEF GcMark, Move, IInv
    <2>6. gc = "mark" /\ gc' \in {"mark", "sweep"}
        BY <1>10 DEF GcMark, Move
    <2> QED
        BY <2>1, <2>4, <2>5, <2>6 DEF IInv
<1>11. ASSUME GcSweep PROVE Goal
    <2>1. ASSUME NEW c \in used PROVE bdd[c] \in node'
        <3>1. <<"bdd", c>> \in prot
            BY <1>11, <2>1 DEF GcSweep, IInv, TInv, TypeOK, Registered
        <3>2. Marked(<<"bdd", c>>)
            BY <1>11, <3>1 DEF GcSweep, IInv
        <3>3. bdd[c] # Zero
            BY <2>1, ZeroAssumption DEF IInv, TInv, TypeOK
        <3>4. At(<<"bdd", c>>) = bdd[c]
            BY DEF At
        <3> QED
            BY <1>11, <3>2, <3>3, <3>4 DEF GcSweep
    <2>2. \A t \in Threads : res[t] # Zero => res[t] \in node'
        BY <1>11 DEF GcSweep, IInv, TInv, TypeOK, Registered, At
    <2> QED
        BY <1>11, <2>1, <2>2 DEF GcSweep, appVars, IInv
<1>12. ASSUME UNCHANGED vars PROVE Goal
    <2>1. \A p : At(p)' = At(p)
        BY <1>12 DEF vars, At
    <2> QED
        BY <1>12, <2>1 DEF vars, appVars, gcVars, IInv
<1>13. Goal
    BY <1>1, <1>2, <1>3, <1>4, <1>5, <1>6, <1>7, <1>8, <1>9, <1>10, <1>11,
       <1>12 DEF Next
<1> QED
    BY <1>0, <1>13 DEF IInv

(* In a single-threaded program no collection frees the node of a cell in  *)
(* use or of a result in the mailbox, for any number of cells and nodes.   *)
THEOREM OneThreadKept == Alone /\ Spec => []LiveKept
<1> SUFFICES ASSUME Alone PROVE Spec => []LiveKept
    OBVIOUS
<1>1. Init => IInv
    BY KeptInit
<1>2. IInv /\ [Next]_vars => IInv'
    BY KeptStep
<1>3. IInv => LiveKept
    BY DEF IInv, KeptInv
<1> QED
    BY <1>1, <1>2, <1>3, PTL DEF Spec
=============================================================================
