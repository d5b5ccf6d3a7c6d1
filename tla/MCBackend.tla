------------------------------ MODULE MCBackend ------------------------------
(***************************************************************************)
(* Backend on two instances at once, a constant of the behaviour telling   *)
(* them apart: with readiness probes and one socket, or with every socket  *)
(* and no probe.  What is left out is nothing a fair action could do.      *)
(***************************************************************************)
EXTENDS Backend

VARIABLE probes

Probed == CHOOSE s \in Sockets : TRUE

MCInit == BackendInit /\ probes \in BOOLEAN

MCNext ==
  /\ BackendNext
  /\ IF probes THEN open' \subseteq {Probed} ELSE probe' = "none"
  /\ UNCHANGED probes

MCSpec == MCInit /\ [][MCNext]_<<backendVars, probes>> /\ Fairness
=============================================================================
