----------------------------- MODULE Algorithms -----------------------------
(***************************************************************************)
(* The sequential parts side by side: system calls (SystemCalls), the      *)
(* Angora tags (BddTag) and the decision diagrams (Diagrams).  They share  *)
(* no state; each is driven through its calls while the others rest.       *)
(***************************************************************************)
EXTENDS SystemCalls, BddTag, Diagrams
CONSTANT Parts            \* of "calls", "tags", "diagrams"
VARIABLE part             \* the part that runs
allvars == <<part, call, cleared, nodes, denotes, dvars>>
Init == part \in Parts /\ CallInit /\ BddInit
        /\ IF part = "diagrams" THEN DiagramInit
           ELSE kind = "none" /\ dd = sylvan_false /\ fun = {}
Calling == part = "calls" /\ CallNext /\ UNCHANGED <<part, nodes, denotes, dvars>>
Tagging == part = "tags" /\ BddNext /\ UNCHANGED <<part, call, cleared, dvars>>
Drawing == part = "diagrams" /\ DiagramNext /\ UNCHANGED <<part, call, cleared, nodes, denotes>>
Next == Calling \/ Tagging \/ Drawing
Spec == Init /\ [][Next]_allvars
=============================================================================
