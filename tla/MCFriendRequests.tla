-------------------------- MODULE MCFriendRequests --------------------------
(***************************************************************************)
(* FriendRequests for TLC, on two instances at once.  Two variables that   *)
(* never change tell them apart: either one handler serves all the users,  *)
(* without faults, or all the handlers serve two of them, with faults.     *)
(***************************************************************************)
EXTENDS FriendRequests, TLC

VARIABLES
  serving,  \* the handlers that serve
  people    \* the users they serve

instance == <<serving, people>>

Alone == \E h \in Handlers : serving = {h}

MCInit ==
  /\ Init
  /\ serving \in SUBSET Handlers /\ people \in SUBSET Users
  /\ \/ Alone /\ people = Users
     \/ serving = Handlers /\ Cardinality(people) = 2

\* Whatever handlers take up is about the people they serve.
Serves ==
  /\ deleted' \subseteq people
  /\ \A h \in Handlers :
       IF h \in serving THEN {task'[h].actor, task'[h].peer} \subseteq people \cup {NoUser}
       ELSE UNCHANGED task[h]

MCNext ==
  /\ IF Alone THEN Next ELSE FaultyNext
  /\ Serves
  /\ UNCHANGED instance

MCSpec == MCInit /\ [][MCNext]_<<vars, instance>>

\* Users, uuids and handlers are interchangeable; every property checked with
\* this symmetry is an invariant, an action property or a safety refinement.
Symmetry ==
  Permutations(Users) \cup Permutations(RequestIds) \cup Permutations(Handlers)

\* One request at a time and nothing failing: when no handler is half-way,
\* following is mutual and backed by a live row.
AloneFollowsMutual == Alone => FollowsMutualAtRest

\* One request at a time and nothing failing, the strict lifecycle: no accepted
\* request is canceled and only an ACCEPTED row is deleted.
AloneImplementsLifecycle ==
  Lifecycle!Init /\ [][Alone => Lifecycle!SequentialNext]_request
=============================================================================
