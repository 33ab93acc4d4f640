------------------------------ MODULE MCDeque -------------------------------
(* TLC instance of Deque: two workers and tasks that spawn tasks, or more  *)
(* workers or more tasks of one depth.                                     *)
EXTENDS Deque, TLC
CONSTANTS w1, w2, w3
MCSettings == {[crew |-> {w1, w2}, kids |-> 0 :> 1 @@ 1 :> 1 @@ 2 :> 1 @@ 3 :> 0],
               [crew |-> {w1, w2}, kids |-> 0 :> 6 @@ 1 :> 0],
               [crew |-> {w1, w2, w3}, kids |-> 0 :> 2 @@ 1 :> 0]}
=============================================================================
