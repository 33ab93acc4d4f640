------------------------------ MODULE MCTables ------------------------------
(* TLC instances of Tables: MaxOps operations in all. *)
EXTENDS Tables, TLC
CONSTANTS MaxOps, nodeP, nodeQ, nodeR, zero
VARIABLE ops
MCKeys == {<<1, 1>>, <<1, 2>>, <<2, 2>>}
MCNode == <<1, 1>> :> nodeP @@ <<1, 2>> :> nodeQ @@ <<2, 2>> :> nodeR
MCHash == nodeP :> 1 @@ nodeQ :> 1 @@ nodeR :> 2 @@ zero :> 1
MCSlot == [k \in MCKeys |-> 0]
MCPart == [k \in MCKeys |-> 0]
MCInit == Init /\ ops = 0
MCNext ==
    \/ (Drop \/ EndGc \/ \E w \in Workers : WorkerStep(w)) /\ UNCHANGED ops
    \/ \E w \in Workers, k \in Keys : ops < MaxOps /\ ops' = ops + 1 /\ Begin(w, k)
MCSpec == MCInit /\ [][MCNext]_<<vars, ops>>
=============================================================================
