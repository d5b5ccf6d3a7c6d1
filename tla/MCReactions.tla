---------------------------- MODULE MCReactions ----------------------------
(* Small instances of Reactions for TLC.                                   *)
EXTENDS Reactions, TLC

\* All constants are interchangeable; only safety is checked.
Symmetry ==
  Permutations(Users) \cup Permutations(MessageIds) \cup Permutations(Emojis)
    \cup Permutations(Handlers)
=============================================================================
