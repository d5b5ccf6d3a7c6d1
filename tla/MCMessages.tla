----------------------------- MODULE MCMessages -----------------------------
(***************************************************************************)
(* Messages and their gateway for TLC, on three instances at once, told    *)
(* apart by a variable that never changes:                                 *)
(*   alone   one handler that also marks messages as seen,                 *)
(*           without faults, with requests over HTTP and over the socket,  *)
(*           and groups deleted when it is idle                            *)
(*   http    all the handlers, with faults, without marks, over HTTP       *)
(*   socket  all the handlers, with faults, sending, editing and deleting  *)
(*           one message over the socket                                   *)
(***************************************************************************)
EXTENDS MessageGateway, TLC

VARIABLE instance

Alone == instance = "alone"

MCInit == GatewayInit /\ instance \in {"alone", "http", "socket"}

Starts(h) == task[h].at = "idle" /\ task'[h].at # "idle"

MCNext ==
  /\ IF Alone THEN GatewayNext ELSE FaultyGatewayNext
  /\ Alone => \A g, h \in Handlers : "idle" \in {task'[g].at, task'[h].at} \/ g = h
  /\ Alone /\ deleteGroup => AtRest
  /\ instance = "http" => socket' = {} /\ \A h \in Handlers : task'[h].op # "mark"
  /\ instance = "socket" =>
       /\ \A h \in Handlers : Starts(h) => h \in socket'
       /\ \A h \in Handlers : task'[h].op \in {"none", "send", "edit", "delete"}
       /\ \A m \in GroupMessages : msg'[m].state = "none"
       /\ \A h \in Handlers : task'[h].m \notin GroupMessages
  /\ UNCHANGED instance

MCSpec == MCInit /\ [][MCNext]_<<vars, gatewayVars, instance>>

\* The interchangeable constants; group messages are told from the others, so
\* the ids are not among them.  Only safety is checked.
Symmetry == Permutations(Users) \cup Permutations(Contents) \cup Permutations(Handlers)

\* message.service.ts:144: one request at a time and nothing failing, what is
\* cached is what is stored, or what went with its group.
AloneCacheCoherent == Alone => CacheCoherentAtRest

\* message.gateway.ts:92: one request at a time and nothing failing, the last
\* event a receiver got agrees with the table, unless the last write was HTTP.
AloneToldIsCurrent == Alone => ToldIsCurrent
=============================================================================
