--------------------------- MODULE MessageGateway ---------------------------
(***************************************************************************)
(* What the receiver of a message is told (modules/message/                *)
(* message.gateway.ts).  Clients send, edit and delete over HTTP or over   *)
(* their socket; the service does the same for both, and the socket's      *)
(* handler then emits an event to the receiver's room.                     *)
(*   socket   the handlers whose request came over a socket                *)
(*   told     the last event about a message that its receiver's room got  *)
(*   quiet    history: messages whose last write was not followed by its   *)
(*            event (read by no action)                                    *)
(* A message here is a group's or has one receiver.  Nobody ever joins a   *)
(* group's room, so the events of a group's messages reach nobody.         *)
(***************************************************************************)
EXTENDS Messages

VARIABLES socket, told, quiet

gatewayVars == <<socket, told, quiet>>

Event == [kind : {"none", "received", "edit", "delete"}, content : Contents \cup {NoContent}]

Nothing == [kind |-> "none", content |-> NoContent]

Direct == MessageIds \ GroupMessages

\* Any request starts over HTTP; those that a socket has an event for, over it.
Arrive(h) ==
  IF task[h].at = "idle" /\ task'[h].op \in {"send", "edit", "delete"}
  THEN socket' \in {socket \cup {h}, socket \ {h}}
  ELSE socket' = socket

EventOf(t) ==
  CASE t.op = "send" -> [kind |-> "received", content |-> t.content]
    [] t.op = "edit" -> [kind |-> "edit", content |-> t.content]
    [] t.op = "delete" -> [kind |-> "delete", content |-> NoContent]

\* Mutant: the event goes out with the write, without waiting for its outcome.
SucceedsEarly(h) ==
  \/ task[h].op = "send" /\ task[h].at = "cacheFill"
  \/ task[h].op \in {"edit", "delete"} /\ task[h].at = "cacheGet"

\* The last call of a request that the service answers with the message.
Succeeds(h) ==
  \/ task[h].op = "send" /\ task[h].at = "cacheFill"
  \/ task[h].op \in {"edit", "delete"} /\ task[h].at = "invalidate"

Tells(h) == h \in socket /\ Succeeds(h) /\ task[h].m \in Direct

\* Mutant: nobody is told of a deletion.
EmitNoDelete(h) ==
  told' = IF Tells(h) /\ task[h].op # "delete"
          THEN [told EXCEPT ![task[h].m] = EventOf(task[h])] ELSE told

\* Whatever fails is an ERROR event for the sender alone.
Emit(h) ==
  told' = IF Tells(h) THEN [told EXCEPT ![task[h].m] = EventOf(task[h])] ELSE told

\* The gateway picks the fields of an event and gives the sender itself; a body
\* sent over HTTP may name any.
OwnSender(h) ==
  h \in socket /\ task[h].at = "create" /\ task'[h].at = "cacheFill"
    => task'[h].copy.sender = task[h].actor

\* The gateway's part of a step of handler h.
Relay(h) ==
  /\ Arrive(h) /\ OwnSender(h) /\ Emit(h)
  /\ quiet' = IF Tells(h) THEN quiet \ {task[h].m}
              ELSE quiet \cup {m \in Direct : msg'[m].content # msg[m].content
                                            \/ msg'[m].state # msg[m].state}

GatewayNext ==
  \/ \E h \in Handlers : Step(h) /\ Relay(h)
  \/ (deleteGroup \/ \E m \in MessageIds : Expire(m)) /\ UNCHANGED gatewayVars

FaultyGatewayNext ==
  \/ GatewayNext
  \/ \E h \in Handlers : CacheFails(h) /\ Relay(h)
  \/ (\E h \in Handlers : Abort(h)) /\ UNCHANGED gatewayVars

GatewayInit ==
  /\ Init
  /\ socket = {} /\ told = [m \in MessageIds |-> Nothing] /\ quiet = {}

GatewaySpec == GatewayInit /\ [][FaultyGatewayNext]_<<vars, gatewayVars>>

-----------------------------------------------------------------------------
(* Properties.                                                             *)

\* message.gateway.ts:56 and 77: a receiver is told of a content only when the
\* message has been stored with it, whatever fails or overlaps.
ToldIsTrue ==
  /\ socket \subseteq Handlers /\ told \in [MessageIds -> Event]
  /\ \A m \in MessageIds : told[m].content \in held[m] \cup {NoContent}

\* message.gateway.ts:92: one request at a time and nothing failing, the last
\* event agrees with the table, except where the last write came over HTTP.
ToldIsCurrent ==
  AtRest => \A m \in Direct \ quiet :
    /\ msg[m].state = "none" => told[m] = Nothing
    /\ msg[m].state = "live" =>
         told[m].kind \in {"received", "edit"} /\ told[m].content = msg[m].content
    /\ msg[m].state = "deleted" => told[m].kind = "delete"
=============================================================================
