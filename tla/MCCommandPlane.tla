--------------------------- MODULE MCCommandPlane ---------------------------
(* CommandPlane with interchangeable slots. *)
EXTENDS CommandPlane, TLC

SlotSymmetry == Permutations(Slot)
=============================================================================
