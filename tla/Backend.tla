------------------------------ MODULE Backend ------------------------------
(***************************************************************************)
(* The server's process and the presence of its users together: sockets    *)
(* connect only while it listens, shutdown waits for them, and its end,    *)
(* whatever the reason, takes the sockets and the pending writes with it.  *)
(* The column and the key outlive it.                                      *)
(***************************************************************************)
EXTENDS Presence, Naturals

CONSTANT Retries

ASSUME RetriesAssumption == Retries \in Nat

VARIABLES phase, dbConnected, redisConnected, redis, attempts, probe, again, exit

Server == INSTANCE ServerLifecycle WITH conns <- open

serverVars == <<phase, dbConnected, redisConnected, redis, attempts, probe, again, exit>>
backendVars == <<serverVars, vars>>

Running == phase \in {"listening", "closing"}

\* SocketManager authenticates a connection before the gateway sees it.
Connect(s, u) == Server!Accept(s) /\ handleConnection(s, u)

Disconnect(s) == Server!Leave(s) /\ disconnect(s)

\* A step of the process.  Its last one, whatever it is, ends the gateway too.
ProcessStep(A) ==
  /\ A
  /\ IF phase # "down" /\ phase' = "down" THEN ProcessEnds ELSE UNCHANGED vars

\* Updates that were started go on while the process is there, shutdown or not.
UpdateStep(s) == Update(s) /\ UNCHANGED serverVars

UpdateFails(s) == WriteFails(s) /\ UNCHANGED serverVars

WriteOverHttp(u, value) == Running /\ HttpWrites(u, value) /\ UNCHANGED serverVars

KeyExpires(u) == Expire(u) /\ UNCHANGED serverVars

BackendInit == Server!Init /\ Init

BackendNext ==
  \/ \E s \in Sockets, u \in Users : Connect(s, u)
  \/ \E s \in Sockets : Disconnect(s) \/ UpdateStep(s) \/ UpdateFails(s)
  \/ ProcessStep(Server!Process)
  \/ \E u \in Users, value \in BOOLEAN : WriteOverHttp(u, value)
  \/ \E u \in Users : KeyExpires(u)

\* The fairness of ServerLifecycle, with the gateway's part of its steps, and
\* that of a pending update: the database answers or fails, the cache answers.
Fairness ==
  /\ WF_backendVars(ProcessStep(Server!ConnectDb))
  /\ WF_backendVars(ProcessStep(Server!PingTimesOut))
  /\ WF_backendVars(ProcessStep(Server!ProbeDb))
  /\ SF_backendVars(ProcessStep(Server!ProbeRedis))
  /\ WF_backendVars(ProcessStep(Server!RedisSettles))
  /\ WF_backendVars(ProcessStep(Server!Drained))
  /\ WF_backendVars(ProcessStep(Server!Releases))
  /\ \A s \in Sockets : WF_backendVars(UpdateStep(s) \/ UpdateFails(s))

BackendSpec == BackendInit /\ [][BackendNext]_backendVars /\ Fairness

-----------------------------------------------------------------------------
(* Properties.  Those of Presence keep their names.                        *)

\* What the parts' variables may be.
BackendTypeOK == TypeOK /\ Server!TypeOK

\* server.ts:49: the process implements the abstract life cycle, also with its
\* gateway: a start ends whatever Redis does, and so does a release.
ImplementsLifecycle == Server!ImplementsLifecycle

\* server.ts:111: success is reported only by a shutdown that nothing
\* interrupted, when what it had to release could be released.
CleanExit == Server!CleanExit

\* server.ts:103: a shutdown ends, unless some client never leaves: nothing
\* closes the sockets.
ShutdownWaitsForClientsOnly == Server!ShutdownWaitsForClientsOnly

\* message.gateway.ts:149: who has left for good is recorded as offline in the
\* end, unless a failure, an overlap or the end of the process blurred it.
GoneIsRecorded ==
  \A u \in Users :
    SocketsOf(u) = {} ~> (~isOnline[u] \/ SocketsOf(u) # {} \/ u \in blurred)
=============================================================================
