----------------------------- MODULE MCTaskStore -----------------------------
(* TaskStore with two nodes, which are interchangeable, and one command. *)
EXTENDS TaskStore, TLC

NodeSymmetry == Permutations(Node)
==============================================================================
