--------------------------- MODULE MCAdminSession ---------------------------
(* AdminSession with interchangeable browsers and requests. *)
EXTENDS AdminSession, TLC

Symmetry == Permutations(Browser) \cup Permutations(Request)
==============================================================================
