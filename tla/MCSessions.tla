----------------------------- MODULE MCSessions -----------------------------
(* Sessions for TLC. *)
EXTENDS Sessions, TLC

Symmetry == Permutations(Users) \cup Permutations(Handlers)
=============================================================================
