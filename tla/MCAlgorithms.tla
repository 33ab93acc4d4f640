---------------------------- MODULE MCAlgorithms ----------------------------
(* The TLC instance of Algorithms. *)
EXTENDS Algorithms
MCMaxNum == [int |-> 2, double |-> 1, fraction |-> 1]
=============================================================================
