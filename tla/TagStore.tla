----------------------------- MODULE TagStore ------------------------------
(***************************************************************************)
(* What a tag backend promises to the taint propagation code: every byte   *)
(* of shadow memory and of the shadow registers holds the set of input     *)
(* offsets that influenced it, and each request changes exactly one byte   *)
(* to the set its operands denote.  There are no cells, counts or          *)
(* collector at this level.                                                *)
(***************************************************************************)
CONSTANTS Threads, Slots, Offsets, None
VARIABLES
    val,     \* the offsets each byte is tainted with
    req,     \* the request each thread is executing, or None
    done     \* whether it has taken effect

Request ==
    [op : {"alloc"}, dst : Slots, off : Offsets] \cup
    [op : {"load", "copy", "combine"}, dst : Slots, src : Slots] \cup
    [op : {"clear"}, dst : Slots]

Init ==
    /\ val = [s \in Slots |-> {}]
    /\ req = [t \in Threads |-> None]
    /\ done = [t \in Threads |-> FALSE]

Ask(t, r) ==
    /\ req[t] = None
    /\ req' = [req EXCEPT ![t] = r]
    /\ UNCHANGED <<val, done>>

(* The set a request leaves in its destination.                            *)
Effect(r) ==
    CASE r.op = "alloc" -> {r.off}
      [] r.op \in {"load", "copy"} -> val[r.src]
      [] r.op = "clear" -> {}
      [] r.op = "combine" -> val[r.dst] \cup val[r.src]

Do(t) ==
    /\ req[t] # None /\ ~done[t]
    /\ val' = [val EXCEPT ![req[t].dst] = Effect(req[t])]
    /\ done' = [done EXCEPT ![t] = TRUE]
    /\ UNCHANGED req

Reply(t) ==
    /\ done[t]
    /\ req' = [req EXCEPT ![t] = None]
    /\ done' = [done EXCEPT ![t] = FALSE]
    /\ UNCHANGED val

Next == \E t \in Threads : (\E r \in Request : Ask(t, r)) \/ Do(t) \/ Reply(t)

Spec == Init /\ [][Next]_<<val, req, done>>
============================================================================
