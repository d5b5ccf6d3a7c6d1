------------------------------ MODULE MCCalls ------------------------------
(* Small instances of Calls for TLC.                                       *)
EXTENDS Calls, TLC

\* Users, calls and handlers are interchangeable; only safety is checked.
Symmetry == Permutations(Users) \cup Permutations(CallIds) \cup Permutations(Handlers)
=============================================================================
