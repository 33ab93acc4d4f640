---------------------------- MODULE MCPropagate -----------------------------
(***************************************************************************)
(* TLC instances of Propagate: at most MaxOps instructions are executed.   *)
(***************************************************************************)
EXTENDS Propagate, FiniteSets
CONSTANT MaxOps
VARIABLE ops

Loses(i) == \E b \in Machine : ~(At(Execute(i), b) \subseteq At(ins_inspect(i), b))
ASSUME LossyAssumption == \A group \in Lossy : \E i \in group : Loses(i)

MCInit == Init /\ ops = 0
MCNext == ops < MaxOps /\ ops' = ops + 1 /\ Next
MCSpec == MCInit /\ [][MCNext]_<<vars, ops>>
=============================================================================
