-------------------------------- MODULE Calls --------------------------------
(***************************************************************************)
(* The call service (modules/call/call.service.ts) with the socket gateway *)
(* and the HTTP controller that drive it.  One action per awaited call to  *)
(* the database or the cache; handlers interleave between them.            *)
(*   call      the calls table                                             *)
(*   row       the call_participants table: no row, present or left        *)
(*   active    calls with an ACTIVE_CALL entry in the cache                *)
(*   task      what each handler is serving and the call it makes next     *)
(*   outbox    the socket events the last step emitted                     *)
(*   invited, joined   history: who was on a call's list, whose join made  *)
(*             a participant row (not read by any action)                  *)
(***************************************************************************)
EXTENDS Naturals, Sequences, FiniteSets

CONSTANTS
  Users, CallIds,   \* accounts and the uuids calls can get
  Handlers,         \* HTTP requests and socket events in flight at once
  MaxInvites,       \* bound: length of participantIds
  JitsiConfigured,  \* whether JITSI_APP_ID and JITSI_APP_SECRET are set
  NoUser, NoCall

ASSUME CallAssumption ==
  /\ NoUser \notin Users
  /\ NoCall \notin CallIds
  /\ MaxInvites \in Nat
  /\ JitsiConfigured \in BOOLEAN

VARIABLES call, row, active, task, outbox, invited, joined

history == <<invited, joined>>
tables == <<call, row, active>>
vars == <<call, row, active, task, outbox, invited, joined>>

Lists == UNION {[1..n -> Users] : n \in 0..MaxInvites}

Members(list) == {list[i] : i \in DOMAIN list}

Ops == {"initiate", "join", "end", "leave", "reject"}

Awaits == {"create", "invite", "cacheActive", "findCall", "addParticipant",
           "setOngoing", "setEnded", "uncache", "setLeft", "findToNotify", "setRejected"}

Task == [op : Ops \cup {"none"}, at : Awaits \cup {"idle"}, via : {"http", "ws"},
         actor : Users \cup {NoUser}, call : CallIds \cup {NoCall},
         list : Lists,              \* participantIds
         next : 1..MaxInvites + 1,  \* the loop's position in it
         ringing : BOOLEAN,         \* the call was RINGING when it was read
         audience : SUBSET Users,   \* its participants when it was read
         reply : {"none", "ok", "NotFound", "Forbidden", "Error"}]

Idle(reply) == [op |-> "none", at |-> "idle", via |-> "http", actor |-> NoUser,
                call |-> NoCall, list |-> <<>>, next |-> 1, ringing |-> FALSE,
                audience |-> {}, reply |-> reply]

Participants(c) == {u \in Users : row[c][u] # "absent"}

Event(name, c, users) == {[event |-> name, call |-> c, to |-> u] : u \in users}

-----------------------------------------------------------------------------
(* Moving a handler on.                                                    *)

Goto(h, await) == task' = [task EXCEPT ![h].at = await] /\ outbox' = {}

\* The reply of an HTTP handler emits nothing; a gateway handler emits events
\* when it is done, or ERROR to its own socket when the service threw.
Done(h, events) ==
  /\ task' = [task EXCEPT ![h] = Idle("ok")]
  /\ outbox' = IF task[h].via = "ws" THEN events ELSE {}

Throw(h, reply) ==
  /\ task' = [task EXCEPT ![h] = Idle(reply)]
  /\ outbox' = IF task[h].via = "ws" THEN Event("ERROR", task[h].call, {task[h].actor})
                                    ELSE {}

Start(h, op, await, list, c) ==
  /\ task[h].at = "idle"
  /\ \E u \in Users, via \in {"http", "ws"} :
       task' = [task EXCEPT ![h] = [Idle("none") EXCEPT
         !.op = op, !.at = await, !.via = via, !.actor = u, !.call = c, !.list = list]]
  /\ outbox' = {}
  /\ UNCHANGED <<tables, history>>

-----------------------------------------------------------------------------
(* initiateCall *)

\* Bound: an initiate starts only when an unused uuid is left for it.
StartInitiate(h) ==
  /\ Cardinality({k \in Handlers : task[k].at = "create"})
       < Cardinality({c \in CallIds : call[c].status = "NONE"})
  /\ \E list \in Lists : Start(h, "initiate", "create", list, NoCall)

CreateCall(h) ==
  /\ task[h].at = "create"
  /\ \E c \in CallIds :
       /\ call[c].status = "NONE"
       /\ call' = [call EXCEPT ![c] =
            [status |-> "RINGING", initiator |-> task[h].actor, endedAt |-> FALSE]]
       /\ invited' = [invited EXCEPT ![c] = Members(task[h].list)]
       /\ task' = [task EXCEPT ![h].call = c, ![h].at = "invite"]
  /\ outbox' = {}
  /\ UNCHANGED <<row, active, joined>>

\* Mutant: the loop stops before the last participant.
InviteOffByOne(h) ==
  /\ task[h].at = "invite"
  /\ LET t == task[h]
         u == t.list[t.next]
     IN \/ /\ t.next >= Len(t.list)
           /\ Goto(h, "cacheActive")
           /\ UNCHANGED row
        \/ /\ t.next < Len(t.list)
           /\ row[t.call][u] = "absent"
           /\ row' = [row EXCEPT ![t.call][u] = "present"]
           /\ task' = [task EXCEPT ![h].next = t.next + 1]
           /\ outbox' = {}
        \/ /\ t.next < Len(t.list)
           /\ row[t.call][u] # "absent"
           /\ Throw(h, "Error")
           /\ UNCHANGED row
  /\ UNCHANGED <<call, active, history>>

\* One turn of the loop over participantIds; @@unique([callId, userId]) makes a
\* repeated id throw half-way, with the call and the earlier rows in place.
Invite(h) ==
  /\ task[h].at = "invite"
  /\ LET t == task[h]
         u == t.list[t.next]
     IN \/ /\ t.next > Len(t.list)
           /\ Goto(h, "cacheActive")
           /\ UNCHANGED row
        \/ /\ t.next <= Len(t.list)
           /\ row[t.call][u] = "absent"
           /\ row' = [row EXCEPT ![t.call][u] = "present"]
           /\ task' = [task EXCEPT ![h].next = t.next + 1]
           /\ outbox' = {}
        \/ /\ t.next <= Len(t.list)
           /\ row[t.call][u] # "absent"
           /\ Throw(h, "Error")
           /\ UNCHANGED row
  /\ UNCHANGED <<call, active, history>>

\* The cache write, then the Jitsi token, which throws without credentials.
CacheActive(h) ==
  /\ task[h].at = "cacheActive"
  /\ active' = active \cup {task[h].call}
  /\ IF JitsiConfigured
     THEN Done(h, Event("RINGING", task[h].call, Members(task[h].list)))
     ELSE Throw(h, "Error")
  /\ UNCHANGED <<call, row, history>>

-----------------------------------------------------------------------------
(* joinCall, endCall, rejectCall: all three read the call first.           *)

StartOnCall(h) ==
  \E c \in CallIds :
    \/ \E op \in {"join", "end", "reject"} : Start(h, op, "findCall", <<>>, c)
    \/ Start(h, "leave", "setLeft", <<>>, c)

\* Mutant: joinCall lets anyone in.
MayJoinAnyone(h) == TRUE

MayJoin(h) ==
  LET t == task[h]
  IN t.actor \in Participants(t.call) \/ t.actor = call[t.call].initiator

\* Mutant: any participant may end the call.
MayEndParticipant(h) ==
  task[h].actor \in Participants(task[h].call) \cup {call[task[h].call].initiator}

MayEnd(h) == task[h].actor = call[task[h].call].initiator

MayReject(h) == task[h].actor \in Participants(task[h].call)

\* What the three do with the call they read; a join goes on with joinAwait.
Decide(h, joinAwait) ==
  LET t == task[h]
      Proceed(await) ==
        /\ task' = [task EXCEPT ![h].at = await,
                                ![h].ringing = (call[t.call].status = "RINGING"),
                                ![h].audience = Participants(t.call)]
        /\ outbox' = {}
  IN IF call[t.call].status = "NONE" THEN Throw(h, "NotFound")
     ELSE CASE t.op = "join" /\ MayJoin(h)     -> Proceed(joinAwait)
            [] t.op = "end" /\ MayEnd(h)       -> Proceed("setEnded")
            [] t.op = "reject" /\ MayReject(h) -> Proceed("setRejected")
            [] OTHER                           -> Throw(h, "Forbidden")

\* Mutant: joinCall sets the status without writing the participant row.
FindCallSkipsRow(h) ==
  task[h].at = "findCall" /\ Decide(h, "setOngoing") /\ UNCHANGED <<tables, history>>

FindCall(h) ==
  task[h].at = "findCall" /\ Decide(h, "addParticipant") /\ UNCHANGED <<tables, history>>

\* What joinCall and the answer event do once the call is joined.
Joined(h) ==
  LET t == task[h]
      c == t.call
  IN IF JitsiConfigured
     THEN Done(h, Event("CALL_ANSWER", c, {t.actor})
                  \cup Event("PARTICIPANT_JOIN", c,
                             {call[c].initiator} \cup (t.audience \ {t.actor})))
     ELSE Throw(h, "Error")

\* A create, not an update: whoever already has a row gets P2002.
AddParticipant(h) ==
  /\ task[h].at = "addParticipant"
  /\ LET t == task[h]
     IN IF row[t.call][t.actor] = "absent"
        THEN /\ row' = [row EXCEPT ![t.call][t.actor] = "present"]
             /\ joined' = [joined EXCEPT ![t.call] = @ \cup {t.actor}]
             /\ IF t.ringing THEN Goto(h, "setOngoing") ELSE Joined(h)
        ELSE Throw(h, "Error") /\ UNCHANGED <<row, joined>>
  /\ UNCHANGED <<call, active, invited>>

\* Decided on the status read before the two awaits.
SetOngoing(h) ==
  /\ task[h].at = "setOngoing"
  /\ call' = [call EXCEPT ![task[h].call].status = "ONGOING"]
  /\ Joined(h)
  /\ UNCHANGED <<row, active, history>>

SetEnded(h) ==
  /\ task[h].at = "setEnded"
  /\ call' = [call EXCEPT ![task[h].call].status = "ENDED", ![task[h].call].endedAt = TRUE]
  /\ Goto(h, "uncache")
  /\ UNCHANGED <<row, active, history>>

\* The gateway then reads .participants of a row fetched without them: a
\* TypeError, caught, so the caller alone hears ERROR and nobody CALL_END.
Uncache(h) ==
  /\ task[h].at = "uncache"
  /\ active' = active \ {task[h].call}
  /\ IF task[h].via = "ws" THEN Throw(h, "Error") ELSE Done(h, {})
  /\ UNCHANGED <<call, row, history>>

SetRejected(h) ==
  /\ task[h].at = "setRejected"
  /\ call' = [call EXCEPT ![task[h].call].status = "REJECTED"]
  /\ Done(h, Event("CALL_REJECT", task[h].call, {call[task[h].call].initiator}))
  /\ UNCHANGED <<row, active, history>>

-----------------------------------------------------------------------------
(* leaveCall *)

\* An update by unique key: P2025 for a user without a row.
SetLeft(h) ==
  /\ task[h].at = "setLeft"
  /\ LET t == task[h]
     IN IF row[t.call][t.actor] = "absent"
        THEN Throw(h, "Error") /\ UNCHANGED row
        ELSE /\ row' = [row EXCEPT ![t.call][t.actor] = "left"]
             /\ IF t.via = "ws" THEN Goto(h, "findToNotify") ELSE Done(h, {})
  /\ UNCHANGED <<call, active, history>>

FindToNotify(h) ==
  /\ task[h].at = "findToNotify"
  /\ LET c == task[h].call
     IN Done(h, Event("PARTICIPANT_LEAVE", c,
                      {call[c].initiator} \cup (Participants(c) \ {task[h].actor})))
  /\ UNCHANGED <<tables, history>>

-----------------------------------------------------------------------------

\* An awaited database call fails, or the process dies between two calls.
Abort(h) ==
  /\ task[h].at # "idle"
  /\ Throw(h, "Error")
  /\ UNCHANGED <<tables, history>>

\* CacheService logs and swallows its errors: the handler goes on.
CacheFails(h) ==
  /\ \/ /\ task[h].at = "cacheActive"
        /\ IF JitsiConfigured
           THEN Done(h, Event("RINGING", task[h].call, Members(task[h].list)))
           ELSE Throw(h, "Error")
     \/ /\ task[h].at = "uncache"
        /\ IF task[h].via = "ws" THEN Throw(h, "Error") ELSE Done(h, {})
  /\ UNCHANGED <<tables, history>>

Init ==
  /\ call = [c \in CallIds |-> [status |-> "NONE", initiator |-> NoUser, endedAt |-> FALSE]]
  /\ row = [c \in CallIds |-> [u \in Users |-> "absent"]]
  /\ active = {}
  /\ task = [h \in Handlers |-> Idle("none")]
  /\ outbox = {}
  /\ invited = [c \in CallIds |-> {}]
  /\ joined = [c \in CallIds |-> {}]

Step(h) ==
  \/ StartInitiate(h) \/ CreateCall(h) \/ Invite(h) \/ CacheActive(h)
  \/ StartOnCall(h) \/ FindCall(h) \/ AddParticipant(h) \/ SetOngoing(h)
  \/ SetEnded(h) \/ Uncache(h) \/ SetRejected(h)
  \/ SetLeft(h) \/ FindToNotify(h)

Next == \E h \in Handlers : Step(h)

FaultyNext == Next \/ \E h \in Handlers : Abort(h) \/ CacheFails(h)

Spec == Init /\ [][Next]_vars

FaultySpec == Init /\ [][FaultyNext]_vars

-----------------------------------------------------------------------------
(* Properties.                                                             *)

\* Every variable has its type; an unused uuid has no row, an ENDED call has an
\* end time, and a handler past its first read works on a call that exists.
TypeOK ==
  /\ call \in [CallIds -> [status : {"NONE", "RINGING", "ONGOING", "ENDED", "REJECTED"},
                           initiator : Users \cup {NoUser}, endedAt : BOOLEAN]]
  /\ row \in [CallIds -> [Users -> {"absent", "present", "left"}]]
  /\ active \subseteq CallIds
  /\ task \in [Handlers -> Task]
  /\ outbox \subseteq [event : {"ERROR", "RINGING", "CALL_ANSWER", "CALL_REJECT",
                               "PARTICIPANT_JOIN", "PARTICIPANT_LEAVE"},
                      call : CallIds \cup {NoCall}, to : Users]
  /\ invited \in [CallIds -> SUBSET Users]
  /\ joined \in [CallIds -> SUBSET Users]
  /\ \A c \in CallIds :
       /\ call[c].status = "NONE" => Participants(c) = {} /\ c \notin active
       /\ call[c].status # "NONE" => call[c].initiator \in Users
       /\ call[c].status = "ENDED" => call[c].endedAt
  /\ \A h \in Handlers :
       task[h].at \notin {"idle", "create", "findCall", "setLeft"} =>
         task[h].call \in CallIds /\ call[task[h].call].status # "NONE"

\* Only the people on the call's list and its initiator ever get a participant
\* row, through every interleaving of the invite loop with joins.
OnlyInvitedTakePart ==
  \A c \in CallIds : Participants(c) \subseteq invited[c] \cup {call[c].initiator}

\* A call is ONGOING only once somebody's join has written a participant row,
\* even when handlers stop between the two writes of joinCall.
OngoingHasBeenJoined ==
  \A c \in CallIds : call[c].status = "ONGOING" => joined[c] # {}

\* A ring reaches a user only when the participant row that lets the user
\* reject or leave the call is already there.
RingFollowsInvite ==
  \A m \in outbox : m.event = "RINGING" => row[m.call][m.to] # "absent"

\* The status of a call changes at the hands of the right user: ENDED and
\* ONGOING of its initiator or a joiner, REJECTED of a participant.
StatusSetByRightUser ==
  [][\A c \in CallIds :
       call[c].status # "NONE" /\ call'[c].status # call[c].status
       => \E h \in Handlers :
            /\ task'[h] # task[h] /\ task[h].call = c
            /\ task[h].actor \in
                 CASE call'[c].status = "ENDED"    -> {call[c].initiator}
                   [] call'[c].status = "ONGOING"  -> joined'[c]
                   [] call'[c].status = "REJECTED" -> Participants(c)
                   [] OTHER                        -> {}]_vars

-----------------------------------------------------------------------------
(* What the documents, comments and messages say; the code differs.        *)

\* call.controller.ts:74 "Join an existing call": a user who was invited to a
\* call gets in, that is the join does not fail once the check is passed.
InvitedCanJoin ==
  [][\A h \in Handlers :
       /\ task[h].at = "addParticipant"
       /\ task[h].actor \in invited[task[h].call]
       => task'[h].reply # "Error"]_vars
=============================================================================
