------------------------------- MODULE MCLace -------------------------------
(***************************************************************************)
(* TLC instances of Lace.  The application makes at most MaxOps requests   *)
(* (a thread starts, posts or ends) and the table is full at most MaxFull  *)
(* times; MaxId bounds the workers.                                        *)
(***************************************************************************)
EXTENDS Lace, TLC
CONSTANTS MaxOps, MaxFull
VARIABLES ops, full

Symm == Permutations(Threads)
MCVars == <<vars, ops, full>>
Same == UNCHANGED <<ops, full>>

MCInit == Init /\ ops = 0 /\ full = 0
(* No thread starts for which there would be no worker index within MaxId. *)
Starting == {t \in Threads : app[t] \in {"lock", "spawn"}}
            \cup {w \in Id : Top(w) = "init"}
MCRequest(t) == /\ ops < MaxOps /\ ops' = ops + 1 /\ UNCHANGED full
                /\ Request(t)
                /\ nid + Cardinality(Starting') <= MaxId
MCFull(w) == full < MaxFull /\ full' = full + 1 /\ UNCHANGED ops /\ TableFull(w)
MCApp(t) == AppStep(t) /\ Same
MCLife(w) == LifeStep(w) /\ Same
MCFrame(w) == FrameStep(w) /\ Same
MCBarrier(w) == BarrierStep(w) /\ Same
MCStop == lace_stop /\ Same
MCNext ==
    \/ \E t \in Threads : MCRequest(t) \/ MCApp(t)
    \/ \E w \in Id : MCFull(w) \/ MCLife(w) \/ MCFrame(w) \/ MCBarrier(w)
    \/ MCStop
MCSpec == MCInit /\ [][MCNext]_MCVars
MCFairSpec ==
    /\ MCSpec
    /\ \A t \in Threads : WF_MCVars(MCApp(t))
    /\ \A w \in Id : WF_MCVars(MCLife(w) \/ MCFrame(w) \/ MCBarrier(w))
    /\ WF_MCVars(MCStop)
=============================================================================
