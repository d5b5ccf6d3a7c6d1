-------------------------- MODULE ProcessLifecycle --------------------------
(***************************************************************************)
(* What the server's process promises whoever starts and stops it, without *)
(* databases, timers or connections: it comes up or dies, serves, and once *)
(* asked to stop serves nobody new.  ServerLifecycle implements it.        *)
(***************************************************************************)
VARIABLE state

States == {"stopped", "starting", "serving", "draining", "releasing"}

\* The process may also end at any time.
Moves ==
  {<<"stopped", "starting">>, <<"starting", "serving">>, <<"serving", "draining">>,
   <<"draining", "releasing">>} \cup ((States \ {"stopped"}) \X {"stopped"})

Init == state = "stopped"

Next == \E to \in States : <<state, to>> \in Moves /\ state' = to

Safety == Init /\ [][Next]_state

\* A start comes to an end, and so does the end.
Progress ==
  /\ state = "starting" ~> state # "starting"
  /\ state = "releasing" ~> state = "stopped"

Spec == Safety /\ Progress
=============================================================================
