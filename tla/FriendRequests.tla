--------------------------- MODULE FriendRequests ---------------------------
(***************************************************************************)
(* The friend-request service (modules/user/friend-request.service.ts).    *)
(*                                                                         *)
(* A handler serves one HTTP request.  Between two awaited database calls  *)
(* it holds nothing but what it read, and no transaction spans two calls,  *)
(* so each awaited call is one action here and handlers interleave freely. *)
(*   request   the friend_requests table, one row per uuid ever issued     *)
(*   follows   the follows table, pairs <<follower, following>>            *)
(*   deleted   users whose account is soft-deleted                         *)
(*   task      what each handler is serving, the call it makes next, and   *)
(*             the reply it gave last                                      *)
(*   consents  history: pairs <<s, r>> such that a row of s to r was once  *)
(*             ACCEPTED (not read by any action)                           *)
(***************************************************************************)
EXTENDS Naturals, FiniteSets

CONSTANTS
  Users,       \* the registered accounts
  RequestIds,  \* uuids a row can get; finite for TLC, bounds the rows created
  Handlers,    \* HTTP requests that can be in flight at the same time
  NoUser, NoRequest

ASSUME SentinelAssumption == NoUser \notin Users /\ NoRequest \notin RequestIds

VARIABLES request, follows, deleted, task, consents

vars == <<request, follows, deleted, task, consents>>
tables == <<request, follows, deleted, consents>>

Statuses == {"PENDING", "ACCEPTED", "REJECTED", "CANCELED"}

Ops == {"send", "accept", "reject", "cancel", "remove"}

Replies == {"none", "ok", "NotFound", "Forbidden", "Conflict", "Error"}

\* The database calls of the five operations, in the order they are awaited.
Calls == {"findSender", "findReceiver", "findExisting", "findReverse", "create",
          "findToAccept", "markAccepted", "followForward", "followBack",
          "findToReject", "markRejected", "findToCancel", "markCanceled",
          "findFriendship", "deleteRow", "unfollowMine", "unfollowTheirs"}

Row == [status : Statuses \cup {"UNUSED", "DELETED"},
        sender : Users \cup {NoUser}, receiver : Users \cup {NoUser}]

Task == [op : Ops \cup {"none"}, at : Calls \cup {"idle"},
         actor : Users \cup {NoUser}, peer : Users \cup {NoUser},
         req : RequestIds \cup {NoRequest}, reply : Replies]

Idle(reply) == [op |-> "none", at |-> "idle", actor |-> NoUser, peer |-> NoUser,
                req |-> NoRequest, reply |-> reply]

-----------------------------------------------------------------------------
(* The repository: what each kind of query sees.                           *)

Live(id) == request[id].status \in Statuses

\* The rows of the ordered pair (s, r); @@unique makes it one at most.
RowsOf(s, r) == {id \in RequestIds : /\ Live(id)
                                     /\ request[id].sender = s
                                     /\ request[id].receiver = r}

findByUsers(s, r, st) == {id \in RowsOf(s, r) : request[id].status = st}

findAcceptedFriendshipBetweenUsers(u, v) ==
  findByUsers(u, v, "ACCEPTED") \cup findByUsers(v, u, "ACCEPTED")

Friends(u, v) == findAcceptedFriendshipBetweenUsers(u, v) # {}

-----------------------------------------------------------------------------
(* Moving a handler on.                                                    *)

Goto(h, call) == task' = [task EXCEPT ![h].at = call]

Answer(h, reply) == task' = [task EXCEPT ![h] = Idle(reply)]

\* Await one call of handler h that only reads the tables.
Reads(h, call) == task[h].at = call /\ UNCHANGED tables

\* The user id acceptFriendRequest is called with: the authenticated user, or,
\* when sendFriendRequest calls it for a reverse request, the send's receiver.
AcceptsAs(t) == IF t.op = "send" THEN t.peer ELSE t.actor

UpdateStatus(id, st) ==
  /\ request' = [request EXCEPT ![id].status = st]
  /\ consents' = IF st = "ACCEPTED"
                 THEN consents \cup {<<request[id].sender, request[id].receiver>>}
                 ELSE consents
  /\ UNCHANGED <<follows, deleted>>

-----------------------------------------------------------------------------
(* A handler takes a new HTTP request.                                     *)

\* Bound: a send starts only when an unissued uuid is left for it.
RoomForSend ==
  Cardinality({h \in Handlers : task[h].op = "send"})
    < Cardinality({id \in RequestIds : request[id].status = "UNUSED"})

Start(h, op, call, actor, peer, id) ==
  /\ task[h].at = "idle"
  /\ task' = [task EXCEPT ![h] = [op |-> op, at |-> call, actor |-> actor,
                                  peer |-> peer, req |-> id, reply |-> "none"]]
  /\ UNCHANGED tables

StartSend(h) ==
  /\ RoomForSend
  /\ \E u, v \in Users : Start(h, "send", "findSender", u, v, NoRequest)

\* The three decisions take a row's id; ids never issued answer 404 at once.
StartDecision(h) ==
  \E u \in Users, id \in RequestIds :
    /\ request[id].status # "UNUSED"
    /\ \/ Start(h, "accept", "findToAccept", u, NoUser, id)
       \/ Start(h, "reject", "findToReject", u, NoUser, id)
       \/ Start(h, "cancel", "findToCancel", u, NoUser, id)

StartRemove(h) ==
  \E u, v \in Users : Start(h, "remove", "findFriendship", u, v, NoRequest)

-----------------------------------------------------------------------------
(* sendFriendRequest *)

FindSender(h) ==
  /\ Reads(h, "findSender")
  /\ IF task[h].actor \in deleted THEN Answer(h, "NotFound")
                                  ELSE Goto(h, "findReceiver")

FindReceiver(h) ==
  /\ Reads(h, "findReceiver")
  /\ IF task[h].peer \in deleted THEN Answer(h, "NotFound")
     ELSE IF task[h].actor = task[h].peer THEN Answer(h, "Conflict")
     ELSE Goto(h, "findExisting")

\* A row that is REJECTED or CANCELED does not stop the send here.
FindExisting(h) ==
  /\ Reads(h, "findExisting")
  /\ LET t == task[h]
     IN IF findByUsers(t.actor, t.peer, "PENDING")
             \cup findByUsers(t.actor, t.peer, "ACCEPTED") # {}
        THEN Answer(h, "Conflict")
        ELSE Goto(h, "findReverse")

\* The auto-accept branch goes on inside acceptFriendRequest.
FindReverse(h) ==
  /\ Reads(h, "findReverse")
  /\ LET reverse == findByUsers(task[h].peer, task[h].actor, "PENDING")
     IN \/ \E id \in reverse :
             task' = [task EXCEPT ![h].at = "findToAccept", ![h].req = id]
        \/ reverse = {} /\ Goto(h, "create")

\* Mutant: create without the unique key.
CreateWithoutUniqueKey(h) ==
  /\ task[h].at = "create"
  /\ UNCHANGED <<follows, deleted, consents>>
  /\ \E id \in RequestIds :
       /\ request[id].status = "UNUSED"
       /\ request' = [request EXCEPT ![id] =
            [status |-> "PENDING", sender |-> task[h].actor, receiver |-> task[h].peer]]
  /\ Answer(h, "ok")

\* Mutant: create as an upsert that re-opens the pair's decided row.
CreateReopensRow(h) ==
  /\ task[h].at = "create"
  /\ UNCHANGED <<follows, deleted, consents>>
  /\ \E id \in RequestIds :
       /\ IF RowsOf(task[h].actor, task[h].peer) = {}
          THEN request[id].status = "UNUSED"
          ELSE id \in RowsOf(task[h].actor, task[h].peer)
       /\ request' = [request EXCEPT ![id] =
            [status |-> "PENDING", sender |-> task[h].actor, receiver |-> task[h].peer]]
  /\ Answer(h, "ok")

\* The unique key of (senderId, receiverId) refuses a second row (P2002 -> 500).
Create(h) ==
  /\ task[h].at = "create"
  /\ UNCHANGED <<follows, deleted, consents>>
  /\ LET t == task[h]
     IN IF RowsOf(t.actor, t.peer) # {}
        THEN Answer(h, "Error") /\ UNCHANGED request
        ELSE /\ \E id \in RequestIds :
                  /\ request[id].status = "UNUSED"
                  /\ request' = [request EXCEPT ![id] =
                       [status |-> "PENDING", sender |-> t.actor, receiver |-> t.peer]]
             /\ Answer(h, "ok")

-----------------------------------------------------------------------------
(* acceptFriendRequest, rejectFriendRequest, cancelFriendRequest *)

\* Mutant: acceptFriendRequest does not compare the row's receiver with userId.
FindToAcceptByAnyone(h) ==
  /\ Reads(h, "findToAccept")
  /\ IF ~ Live(task[h].req) THEN Answer(h, "NotFound")
     ELSE IF request[task[h].req].status = "ACCEPTED" THEN Answer(h, "Conflict")
     ELSE Goto(h, "markAccepted")

\* Mutant: the follows are created before the status is updated.
FindToAcceptFollowsFirst(h) ==
  /\ Reads(h, "findToAccept")
  /\ LET row == request[task[h].req]
     IN IF ~ Live(task[h].req) THEN Answer(h, "NotFound")
        ELSE IF row.receiver # AcceptsAs(task[h]) THEN Answer(h, "Forbidden")
        ELSE IF row.status = "ACCEPTED" THEN Answer(h, "Conflict")
        ELSE Goto(h, "followForward")

FindToAccept(h) ==
  /\ Reads(h, "findToAccept")
  /\ LET row == request[task[h].req]
     IN IF ~ Live(task[h].req) THEN Answer(h, "NotFound")
        ELSE IF row.receiver # AcceptsAs(task[h]) THEN Answer(h, "Forbidden")
        ELSE IF row.status = "ACCEPTED" THEN Answer(h, "Conflict")
        ELSE Goto(h, "markAccepted")

\* update WHERE id: a row deleted since the read makes Prisma throw (P2025 -> 500).
Mark(h, call, st, after) ==
  /\ task[h].at = call
  /\ IF Live(task[h].req)
     THEN UpdateStatus(task[h].req, st) /\ task' = [task EXCEPT ![h] = after]
     ELSE Answer(h, "Error") /\ UNCHANGED tables

MarkAccepted(h) ==
  Mark(h, "markAccepted", "ACCEPTED", [task[h] EXCEPT !.at = "followForward"])

\* Mutant: accepting makes only the sender follow the receiver.
FollowForwardOnly(h) ==
  /\ task[h].at = "followForward"
  /\ LET row == request[task[h].req]
     IN follows' = follows \cup {<<row.sender, row.receiver>>}
  /\ Answer(h, "ok")
  /\ UNCHANGED <<request, deleted, consents>>

\* Upserts; they use the row as it was read, whose two users never change.
FollowForward(h) ==
  /\ task[h].at = "followForward"
  /\ LET row == request[task[h].req]
     IN follows' = follows \cup {<<row.sender, row.receiver>>}
  /\ Goto(h, "followBack")
  /\ UNCHANGED <<request, deleted, consents>>

FollowBack(h) ==
  /\ task[h].at = "followBack"
  /\ LET row == request[task[h].req]
     IN follows' = follows \cup {<<row.receiver, row.sender>>}
  /\ Answer(h, "ok")
  /\ UNCHANGED <<request, deleted, consents>>

\* An ACCEPTED row can be rejected.
FindToReject(h) ==
  /\ Reads(h, "findToReject")
  /\ LET row == request[task[h].req]
     IN IF ~ Live(task[h].req) THEN Answer(h, "NotFound")
        ELSE IF row.receiver # task[h].actor THEN Answer(h, "Forbidden")
        ELSE IF row.status = "REJECTED" THEN Answer(h, "Conflict")
        ELSE Goto(h, "markRejected")

MarkRejected(h) == Mark(h, "markRejected", "REJECTED", Idle("ok"))

\* Mutant: cancelFriendRequest does not refuse an ACCEPTED request.
FindToCancelAccepted(h) ==
  /\ Reads(h, "findToCancel")
  /\ LET row == request[task[h].req]
     IN IF ~ Live(task[h].req) THEN Answer(h, "NotFound")
        ELSE IF row.sender # task[h].actor THEN Answer(h, "Forbidden")
        ELSE IF row.status = "CANCELED" THEN Answer(h, "Conflict")
        ELSE Goto(h, "markCanceled")

FindToCancel(h) ==
  /\ Reads(h, "findToCancel")
  /\ LET row == request[task[h].req]
     IN IF ~ Live(task[h].req) THEN Answer(h, "NotFound")
        ELSE IF row.sender # task[h].actor THEN Answer(h, "Forbidden")
        ELSE IF row.status \in {"CANCELED", "ACCEPTED"} THEN Answer(h, "Conflict")
        ELSE Goto(h, "markCanceled")

MarkCanceled(h) == Mark(h, "markCanceled", "CANCELED", Idle("ok"))

-----------------------------------------------------------------------------
(* removeFriend *)

\* findFirst returns any one of the rows that match.
FindFriendship(h) ==
  /\ Reads(h, "findFriendship")
  /\ LET rows == findAcceptedFriendshipBetweenUsers(task[h].actor, task[h].peer)
     IN \/ \E id \in rows :
             task' = [task EXCEPT ![h].at = "deleteRow", ![h].req = id]
        \/ rows = {} /\ Answer(h, "Conflict")

DeleteRow(h) ==
  /\ task[h].at = "deleteRow"
  /\ UNCHANGED <<follows, deleted, consents>>
  /\ IF Live(task[h].req)
     THEN /\ request' = [request EXCEPT ![task[h].req].status = "DELETED"]
          /\ Goto(h, "unfollowMine")
     ELSE Answer(h, "Error") /\ UNCHANGED request

UnfollowMine(h) ==
  /\ task[h].at = "unfollowMine"
  /\ follows' = follows \ {<<task[h].actor, task[h].peer>>}
  /\ Goto(h, "unfollowTheirs")
  /\ UNCHANGED <<request, deleted, consents>>

UnfollowTheirs(h) ==
  /\ task[h].at = "unfollowTheirs"
  /\ follows' = follows \ {<<task[h].peer, task[h].actor>>}
  /\ Answer(h, "ok")
  /\ UNCHANGED <<request, deleted, consents>>

-----------------------------------------------------------------------------
(* The rest of the system, and faults.                                     *)

\* UserService.deleteUser, after which the account's rows and follows stay, and
\* updateUser, whose body may write the status back.
writeStatus(u) ==
  /\ deleted' = IF u \in deleted THEN deleted \ {u} ELSE deleted \cup {u}
  /\ UNCHANGED <<request, follows, task, consents>>

\* Any awaited call may fail, and the process may die between two calls: what
\* the handler wrote stays and the rest of it never runs.
Abort(h) ==
  /\ task[h].at # "idle"
  /\ Answer(h, "Error")
  /\ UNCHANGED tables

\* removeFriend catches and ignores the failure of either deleteFollow.
UnfollowFails(h) ==
  /\ \/ task[h].at = "unfollowMine" /\ Goto(h, "unfollowTheirs")
     \/ task[h].at = "unfollowTheirs" /\ Answer(h, "ok")
  /\ UNCHANGED tables

Init ==
  /\ request = [id \in RequestIds |->
                  [status |-> "UNUSED", sender |-> NoUser, receiver |-> NoUser]]
  /\ follows = {}
  /\ deleted = {}
  /\ task = [h \in Handlers |-> Idle("none")]
  /\ consents = {}

Step(h) ==
  \/ StartSend(h) \/ StartDecision(h) \/ StartRemove(h)
  \/ FindSender(h) \/ FindReceiver(h) \/ FindExisting(h) \/ FindReverse(h) \/ Create(h)
  \/ FindToAccept(h) \/ MarkAccepted(h) \/ FollowForward(h) \/ FollowBack(h)
  \/ FindToReject(h) \/ MarkRejected(h) \/ FindToCancel(h) \/ MarkCanceled(h)
  \/ FindFriendship(h) \/ DeleteRow(h) \/ UnfollowMine(h) \/ UnfollowTheirs(h)

Next == (\E h \in Handlers : Step(h)) \/ (\E u \in Users : writeStatus(u))

FaultyNext == Next \/ (\E h \in Handlers : Abort(h) \/ UnfollowFails(h))

\* No call fails and the process stays up.
Spec == Init /\ [][Next]_vars

\* Calls may fail and the process may die.
FaultySpec == Init /\ [][FaultyNext]_vars

-----------------------------------------------------------------------------
(* Properties.                                                             *)

UsesRow == {"markAccepted", "followForward", "followBack", "findToAccept",
            "findToReject", "markRejected", "findToCancel", "markCanceled",
            "deleteRow"}

\* Every variable has its type, an issued row names two different users, and a
\* handler about to touch a row has read one: no call is made with a null row.
TypeOK ==
  /\ request \in [RequestIds -> Row]
  /\ follows \subseteq Users \X Users
  /\ deleted \subseteq Users
  /\ consents \subseteq Users \X Users
  /\ task \in [Handlers -> Task]
  /\ \A id \in RequestIds : request[id].status # "UNUSED" =>
       /\ request[id].sender \in Users
       /\ request[id].receiver \in Users
       /\ request[id].sender # request[id].receiver
  /\ \A h \in Handlers :
       /\ task[h].at # "idle" => task[h].actor \in Users
       /\ task[h].at \in UsesRow => /\ task[h].req \in RequestIds
                                    /\ request[task[h].req].status # "UNUSED"
       /\ task[h].op \in {"send", "remove"} => task[h].peer \in Users

\* However sends interleave, an ordered pair of users has one live row: the
\* check in sendFriendRequest alone would not give it, two sends can both pass.
AtMostOneRow ==
  \A i, j \in RequestIds :
    /\ Live(i) /\ Live(j)
    /\ request[i].sender = request[j].sender
    /\ request[i].receiver = request[j].receiver
    => i = j

\* Nobody follows anybody unless a request between the two was accepted, even
\* when handlers stop half-way or race with a reject, a cancel or an unfriend.
FollowsNeedConsent ==
  \A a, b \in Users : <<a, b>> \in follows =>
    <<a, b>> \in consents \/ <<b, a>> \in consents

\* A row changes only by a step of a handler whose authenticated user may make
\* that change: its receiver accepts and rejects, its sender cancels, and one
\* of its two users unfriends.  The check ran one call earlier, on another read.
OnlyPartiesDecide ==
  [][\A id \in RequestIds :
       request[id].status # "UNUSED" /\ request'[id].status # request[id].status
       => \E h \in Handlers :
            /\ task'[h] # task[h]
            /\ task[h].actor \in
                 CASE request'[id].status \in {"ACCEPTED", "REJECTED"}
                        -> {request[id].receiver}
                   [] request'[id].status = "CANCELED" -> {request[id].sender}
                   [] OTHER -> {request[id].sender, request[id].receiver}
    ]_vars

Lifecycle == INSTANCE FriendRequestLifecycle WITH request <- request

\* The interleaved handlers implement the table's lifecycle with its three racy
\* moves: endpoints never change, no row is PENDING twice, none comes back.
ImplementsRacyLifecycle == Lifecycle!RacySpec

AtRest == \A h \in Handlers : task[h].at = "idle"

\* When no handler is half-way and no call failed, following is mutual, and two
\* users who follow each other have a live request row between them.
FollowsMutualAtRest ==
  AtRest => \A a, b \in Users : <<a, b>> \in follows =>
              <<b, a>> \in follows /\ RowsOf(a, b) \cup RowsOf(b, a) # {}

-----------------------------------------------------------------------------
(* What the comments, messages and API documents say; the code differs.    *)

\* friend-request.service.ts:44 "Auto-accept if reverse request exists": a send
\* that finds the other's PENDING row does not end in a refusal.
AutoAcceptWorks ==
  [][\A h \in Handlers :
       /\ task[h].op = "send" /\ task[h].at = "findToAccept"
       /\ request[task[h].req].status = "PENDING"
       => task'[h].reply # "Forbidden"]_vars
=============================================================================
