------------------------------- MODULE Roots --------------------------------
(***************************************************************************)
(* How the BDD of a tag survives a garbage collection of Sylvan            *)
(* (ssa_tag_gc.cpp, the workers of lace.cpp, sylvan_mtbdd.c,               *)
(* sylvan_refs.c, sylvan_common.c).                                        *)
(*                                                                         *)
(* A worker leaves its result in the field res of the mailbox, which is    *)
(* registered in Sylvan's table of protected pointers since the worker was *)
(* spawned.  The application thread copies it into a cell, registers the   *)
(* cell and clears res.  A worker that finds the node table full collects: *)
(* it walks over the table of pointers, marks the nodes they point to, and *)
(* frees the others.  All workers stop for the collection (module Lace),   *)
(* but application threads do not, unless they wait for a worker.          *)
(*                                                                         *)
(* A BDD is one node.  The nodes an unfinished operation keeps alive on    *)
(* the workers' own reference stacks are external.                         *)
(***************************************************************************)
EXTENDS Integers, FiniteSets

CONSTANTS
    Threads,   \* application threads, each with its worker
    Cells,     \* tag cells
    Nodes,     \* buckets of Sylvan's node table
    Zero       \* mtbdd_false, in no bucket

ASSUME ZeroAssumption == Zero \notin Nodes

(* The pointers that are registered: &t->res and &cell.bdd.                *)
Ptr == ({"res"} \X Threads) \cup ({"bdd"} \X Cells)
None == <<"none", "none">>

VARIABLES
    pc,        \* what every application thread executes
    victim,    \* the cell it fills (of any use only then)
    used,      \* cells handed out and not yet back in the ring
    bdd, res,  \* the words the pointers point to
    prot,      \* mtbdd_protected: the pointers in the table
    node,      \* the nodes in use in the node table
    gc,        \* the collection: "off", "start", "mark", "sweep"
    ahead,     \* pointers of the table the iterator has still to reach
    it,        \* the pointer in the bucket the iterator stands on
    marked     \* nodes marked so far

appVars == <<pc, victim, used>>
gcVars == <<gc, ahead, it, marked>>
vars == <<appVars, bdd, res, prot, node, gcVars>>

At(p) == IF p[1] = "res" THEN res[p[2]] ELSE bdd[p[2]]

(* Every thread has started: lace_spawn_worker has registered its mailbox. *)
Init ==
    /\ pc = [t \in Threads |-> "idle"]
    /\ victim \in [Threads -> Cells]
    /\ used = {}
    /\ bdd = [c \in Cells |-> Zero]
    /\ res = [t \in Threads |-> Zero]
    /\ prot = {"res"} \X Threads
    /\ node = {}
    /\ gc = "off" /\ ahead = {} /\ it = None /\ marked = {}

-----------------------------------------------------------------------------
(* ssa_tag_alloc / ssa_tag_combine: the request.                           *)
Post(t) ==
    /\ pc[t] = "idle"
    /\ pc' = [pc EXCEPT ![t] = "wait"]
    /\ UNCHANGED <<victim, used, bdd, res, prot, node, gcVars>>

(* lace_steal_loop_ex: a result, new or already in the node table.         *)
Answer(t) ==
    /\ pc[t] = "wait" /\ gc = "off"
    /\ \E n \in Nodes :
        /\ res' = [res EXCEPT ![t] = n]
        /\ node' = node \cup {n}
    /\ pc' = [pc EXCEPT ![t] = "answered"]
    /\ UNCHANGED <<victim, used, bdd, prot, gcVars>>

(* ssa_tag_combine: the result is the BDD of an operand; no cell is needed *)
(* and res keeps the value.                                                *)
Same(t) ==
    /\ pc[t] = "answered" /\ \E c \in used : bdd[c] = res[t]
    /\ pc' = [pc EXCEPT ![t] = "idle"]
    /\ UNCHANGED <<victim, used, bdd, res, prot, node, gcVars>>

(* victim->bdd = t->res; sylvan_protect(&victim->bdd); t->res = 0.         *)
Fill(t) ==
    /\ pc[t] = "answered"
    /\ \E c \in Cells \ used :
        /\ victim' = [victim EXCEPT ![t] = c]
        /\ used' = used \cup {c}
        /\ bdd' = [bdd EXCEPT ![c] = res[t]]
    /\ pc' = [pc EXCEPT ![t] = "protect"]
    /\ UNCHANGED <<res, prot, node, gcVars>>

(* protect_up: the pointer's bucket may be before the iterator or behind.  *)
MutProtect(t) ==
    /\ pc[t] = "protect"
    /\ pc' = [pc EXCEPT ![t] = "clear"]
    /\ UNCHANGED <<victim, used, bdd, res, prot, node, gcVars>>
Protect(t) ==
    /\ pc[t] = "protect"
    /\ prot' = prot \cup {<<"bdd", victim[t]>>}
    /\ \/ UNCHANGED ahead
       \/ gc = "mark" /\ ahead' = ahead \cup {<<"bdd", victim[t]>>}
    /\ pc' = [pc EXCEPT ![t] = "clear"]
    /\ UNCHANGED <<victim, used, bdd, res, node, gc, it, marked>>

ClearRes(t) ==
    /\ pc[t] = "clear"
    /\ res' = [res EXCEPT ![t] = Zero]
    /\ pc' = [pc EXCEPT ![t] = "idle"]
    /\ UNCHANGED <<victim, used, bdd, prot, node, gcVars>>

(* ssa_gc by a thread in need of a cell: a cell without a tag goes back to *)
(* the ring and its pointer out of the table (protect_down).               *)
MutReclaim(t) ==
    /\ pc[t] \in {"idle", "answered"}
    /\ \E c \in used :
        /\ \A u \in Threads : pc[u] \in {"protect", "clear"} => victim[u] # c
        /\ used' = used \ {c}
    /\ UNCHANGED <<pc, victim, bdd, res, prot, node, gcVars>>
Reclaim(t) ==
    /\ pc[t] \in {"idle", "answered"}
    /\ \E c \in used :
        /\ \A u \in Threads : pc[u] \in {"protect", "clear"} => victim[u] # c
        /\ used' = used \ {c}
        /\ prot' = prot \ {<<"bdd", c>>}
        /\ ahead' = ahead \ {<<"bdd", c>>}
    /\ UNCHANGED <<pc, victim, bdd, res, node, gc, it, marked>>

-----------------------------------------------------------------------------
(* The collection, by the worker of a waiting thread.                      *)

(* sylvan_gc_go, sylvan_clear_and_mark: no node is marked ...              *)
GcStart(t) ==
    /\ pc[t] = "wait" /\ gc = "off"
    /\ gc' = "start" /\ marked' = {}
    /\ UNCHANGED <<appVars, bdd, res, prot, node, ahead, it>>

(* ... and protect_iter goes to the first bucket that is not empty.        *)
GcIter ==
    /\ gc = "start"
    /\ gc' = "mark"
    /\ it' \in prot
    /\ ahead' = prot \ {it'}
    /\ UNCHANGED <<appVars, bdd, res, prot, node, marked>>

(* mtbdd_gc_mark_protected: protect_next goes on to the next bucket, and   *)
(* the node of the last one is marked.                                     *)
Move == IF ahead = {} THEN it' = None /\ gc' = "sweep" /\ UNCHANGED ahead
        ELSE it' \in ahead /\ ahead' = ahead \ {it'} /\ UNCHANGED gc
GcMark ==
    /\ gc = "mark"
    /\ marked' = marked \cup ({At(it)} \ {Zero})
    /\ Move
    /\ UNCHANGED <<appVars, bdd, res, prot, node>>

(* llmsset_destroy_unmarked, sylvan_rehash_all: the others are free.       *)
GcSweep ==
    /\ gc = "sweep"
    /\ node' = marked
    /\ gc' = "off"
    /\ UNCHANGED <<appVars, bdd, res, prot, ahead, it, marked>>

Next ==
    \/ \E t \in Threads : \/ Post(t) \/ Answer(t) \/ Same(t) \/ Fill(t)
                          \/ Protect(t) \/ ClearRes(t) \/ Reclaim(t)
                          \/ GcStart(t)
    \/ GcIter \/ GcMark \/ GcSweep

Spec == Init /\ [][Next]_vars

-----------------------------------------------------------------------------
(* The types that the proofs start from. *)
TypeOK ==
    /\ pc \in [Threads -> {"idle", "wait", "answered", "protect", "clear"}]
    /\ victim \in [Threads -> Cells]
    /\ used \subseteq Cells
    /\ bdd \in [Cells -> Nodes \cup {Zero}]
    /\ res \in [Threads -> Nodes \cup {Zero}]
    /\ prot \subseteq Ptr
    /\ node \subseteq Nodes /\ marked \subseteq Nodes
    /\ gc \in {"off", "start", "mark", "sweep"}
    /\ ahead \subseteq Ptr /\ it \in Ptr \cup {None}

(* "Clear the nodes table and mark all referenced nodes": no collection    *)
(* frees the node of a cell a tag may point to, nor a result that has not  *)
(* been fetched.                                                           *)
LiveKept ==
    /\ \A c \in used : bdd[c] \in node
    /\ \A t \in Threads : res[t] # Zero => res[t] \in node

(* Cells in the ring are not registered, so that the pointers in the table *)
(* are those of the mailboxes and of the cells in use.                     *)
RootsExact ==
    LET filling == {victim[t] : t \in {u \in Threads : pc[u] = "protect"}}
    IN  prot = ({"res"} \X Threads) \cup ({"bdd"} \X (used \ filling))
=============================================================================
