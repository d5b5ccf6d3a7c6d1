------------------------------ MODULE MCGroups ------------------------------
(* Small instances of Groups for TLC.                                      *)
EXTENDS Groups, TLC

\* All constants are interchangeable; only safety is checked.
Symmetry == Permutations(Users) \cup Permutations(GroupIds) \cup Permutations(Handlers)
=============================================================================
