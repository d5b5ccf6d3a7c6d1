------------------------ MODULE FriendRequestsProofs ------------------------
(***************************************************************************)
(* Proofs about FriendRequests for any number of users, uuids and          *)
(* overlapping handlers, with failing calls and crashes (FaultySpec), and  *)
(* about one handler serving at a time, without faults (MCSpec).           *)
(***************************************************************************)
EXTENDS MCFriendRequests, TLAPS

SendCalls == {"findSender", "findReceiver", "findExisting", "findReverse", "create"}

RemoveCalls == {"findFriendship", "deleteRow", "unfollowMine", "unfollowTheirs"}

\* What the task t of a handler may rely on, given the rows rq and the history
\* cs: it makes the calls of its own operation, and every check it made on an
\* earlier read still holds, because a row's two users never change.
HandlerOK(t, rq, cs) ==
  /\ t.at # "idle" => t.actor \in Users
  /\ t.op \in {"send", "remove"} => t.peer \in Users
  /\ t.at \in SendCalls => t.op = "send"
  /\ t.at \in {"findExisting", "findReverse", "create"} => t.actor # t.peer
  /\ t.at \in RemoveCalls => t.op = "remove"
  /\ t.at \in UsesRow => t.req \in RequestIds /\ rq[t.req].status # "UNUSED"
  /\ t.at = "findToAccept" /\ t.op = "send" => rq[t.req].receiver # t.peer
  /\ t.at \in {"markAccepted", "markRejected"} => rq[t.req].receiver = t.actor
  /\ t.at = "markCanceled" => rq[t.req].sender = t.actor
  /\ t.at = "deleteRow" => t.actor \in {rq[t.req].sender, rq[t.req].receiver}
  /\ t.at \in {"followForward", "followBack"}
       => <<rq[t.req].sender, rq[t.req].receiver>> \in cs

Handlers_OK == \A h \in Handlers : HandlerOK(task[h], request, consents)

TablesOK ==
  /\ request \in [RequestIds -> Row]
  /\ follows \subseteq Users \X Users
  /\ deleted \subseteq Users
  /\ consents \subseteq Users \X Users
  /\ \A id \in RequestIds : request[id].status # "UNUSED" =>
       /\ request[id].sender \in Users
       /\ request[id].receiver \in Users
       /\ request[id].sender # request[id].receiver

TasksOK == task \in [Handlers -> Task]

\* The inductive invariant.
IInv == TablesOK /\ TasksOK /\ AtMostOneRow /\ FollowsNeedConsent /\ Handlers_OK

\* No step takes back an issued row, changes its users or forgets a consent.
RowsStable ==
  /\ \A id \in RequestIds : request[id].status # "UNUSED" =>
       /\ request'[id].status # "UNUSED"
       /\ request'[id].sender = request[id].sender
       /\ request'[id].receiver = request[id].receiver
  /\ consents \subseteq consents'

\* Handler h moves on to a task that is in order after the step.
Advance(h) ==
  \E t \in Task : /\ task' = [task EXCEPT ![h] = t]
                  /\ HandlerOK(t, request', consents')

-----------------------------------------------------------------------------

LEMMA IInvTypeOK == IInv => TypeOK
  BY DEF IInv, TablesOK, TasksOK, Handlers_OK, HandlerOK, TypeOK

LEMMA IdleOK ==
  ASSUME NEW r \in Replies, NEW rq, NEW cs
  PROVE  Idle(r) \in Task /\ HandlerOK(Idle(r), rq, cs)
<1>1. Idle(r) \in Task
  BY DEF Idle, Task
<1>2. HandlerOK(Idle(r), rq, cs)
  BY DEF Idle, HandlerOK, SendCalls, RemoveCalls, UsesRow
<1>3. QED
  BY <1>1, <1>2

LEMMA AnswerAdvances ==
  ASSUME NEW h \in Handlers, NEW r \in Replies, Answer(h, r) PROVE Advance(h)
  BY IdleOK DEF Answer, Advance

LEMMA GotoAdvances ==
  ASSUME NEW h \in Handlers, NEW l \in Calls, Goto(h, l), TasksOK,
         HandlerOK([task[h] EXCEPT !.at = l], request', consents')
  PROVE  Advance(h)
<1>1. [task[h] EXCEPT !.at = l] \in Task
  BY DEF TasksOK, Task
<1>2. task' = [task EXCEPT ![h] = [task[h] EXCEPT !.at = l]]
  BY DEF Goto
<1>3. QED
  BY <1>1, <1>2 DEF Advance

LEMMA HandlerStable ==
  ASSUME NEW t \in Task, HandlerOK(t, request, consents), RowsStable
  PROVE  HandlerOK(t, request', consents')
<1>1. CASE t.at \in UsesRow
  <2>1. /\ t.req \in RequestIds
        /\ request'[t.req].status # "UNUSED"
        /\ request'[t.req].sender = request[t.req].sender
        /\ request'[t.req].receiver = request[t.req].receiver
        /\ consents \subseteq consents'
    BY <1>1 DEF HandlerOK, RowsStable
  <2>2. QED
    BY <2>1 DEF HandlerOK
<1>2. CASE t.at \notin UsesRow
  BY <1>2 DEF HandlerOK, UsesRow
<1>3. QED
  BY <1>1, <1>2

LEMMA AdvanceKeepsHandlers ==
  ASSUME TasksOK, Handlers_OK, RowsStable, NEW h \in Handlers, Advance(h)
  PROVE  TasksOK' /\ Handlers_OK'
<1>1. PICK t \in Task : /\ task' = [task EXCEPT ![h] = t]
                        /\ HandlerOK(t, request', consents')
  BY DEF Advance
<1>2. TasksOK'
  BY <1>1 DEF TasksOK
<1>3. ASSUME NEW k \in Handlers PROVE HandlerOK(task'[k], request', consents')
  <2>1. CASE k = h
    BY <2>1, <1>1 DEF TasksOK
  <2>2. CASE k # h
    <3>1. task'[k] = task[k] /\ task[k] \in Task
      BY <2>2, <1>1 DEF TasksOK
    <3>2. HandlerOK(task[k], request, consents)
      BY DEF Handlers_OK
    <3>3. QED
      BY <3>1, <3>2, HandlerStable
  <2>3. QED
    BY <2>1, <2>2
<1>4. QED
  BY <1>2, <1>3 DEF Handlers_OK

LEMMA InitIInv == Init => IInv
<1> SUFFICES ASSUME Init PROVE IInv
  OBVIOUS
<1>1. TablesOK
  BY DEF Init, TablesOK, Row
<1>2. TasksOK /\ Handlers_OK
  BY IdleOK DEF Init, TasksOK, Handlers_OK, Replies
<1>3. AtMostOneRow
  BY DEF Init, AtMostOneRow, Live, Statuses
<1>4. FollowsNeedConsent
  BY DEF Init, FollowsNeedConsent
<1>5. QED
  BY <1>1, <1>2, <1>3, <1>4 DEF IInv

-----------------------------------------------------------------------------
(* The handler of each step moves on in order.                             *)

LEMMA StartAdvances ==
  ASSUME NEW h \in Handlers, NEW op \in Ops, NEW call, NEW u \in Users,
         NEW v \in Users \cup {NoUser}, NEW id \in RequestIds \cup {NoRequest},
         <<op, call>> \in {<<"send", "findSender">>, <<"accept", "findToAccept">>,
                          <<"reject", "findToReject">>, <<"cancel", "findToCancel">>,
                          <<"remove", "findFriendship">>},
         op \in {"send", "remove"} => v \in Users,
         op \in {"accept", "reject", "cancel"} =>
           id \in RequestIds /\ request[id].status # "UNUSED",
         Start(h, op, call, u, v, id)
  PROVE  Advance(h)
<1> DEFINE t == [op |-> op, at |-> call, actor |-> u, peer |-> v, req |-> id, reply |-> "none"]
<1>1. t \in Task
  BY DEF Task, Calls, Replies
<1>2. HandlerOK(t, request, consents)
  BY DEF HandlerOK, SendCalls, RemoveCalls, UsesRow
<1>3. request' = request /\ consents' = consents /\ task' = [task EXCEPT ![h] = t]
  BY DEF Start, tables
<1>4. QED
  BY <1>1, <1>2, <1>3 DEF Advance

LEMMA StartsAdvance ==
  ASSUME NEW h \in Handlers, StartSend(h) \/ StartDecision(h) \/ StartRemove(h)
  PROVE  Advance(h)
<1>1. CASE StartSend(h)
  BY <1>1, StartAdvances DEF StartSend, Ops
<1>2. CASE StartDecision(h)
  BY <1>2, StartAdvances DEF StartDecision, Ops
<1>3. CASE StartRemove(h)
  BY <1>3, StartAdvances DEF StartRemove, Ops
<1>4. QED
  BY <1>1, <1>2, <1>3

LEMMA SendReadsAdvance ==
  ASSUME IInv, NEW h \in Handlers,
         FindSender(h) \/ FindReceiver(h) \/ FindExisting(h) \/ FindReverse(h)
  PROVE  Advance(h)
<1> USE DEF IInv
<1>1. /\ HandlerOK(task[h], request, consents)
      /\ task[h] \in Task
      /\ request' = request
      /\ consents' = consents
  BY DEF Handlers_OK, TasksOK, FindSender, FindReceiver, FindExisting, FindReverse, Reads, tables
<1>2. \A r \in {"NotFound", "Conflict"} : Answer(h, r) => Advance(h)
  BY AnswerAdvances DEF Replies
<1>3. CASE FindSender(h)
  <2>1. ASSUME Goto(h, "findReceiver") PROVE Advance(h)
    <3>1. HandlerOK([task[h] EXCEPT !.at = "findReceiver"], request, consents)
      BY <1>1, <1>3, <2>1 DEF FindSender, Reads, HandlerOK, SendCalls, RemoveCalls, UsesRow, Task
    <3>2. QED
      BY <1>1, <2>1, <3>1, GotoAdvances DEF Calls
  <2>2. QED
    BY <1>2, <1>3, <2>1 DEF FindSender
<1>4. CASE FindReceiver(h)
  <2>1. ASSUME task[h].actor # task[h].peer, Goto(h, "findExisting") PROVE Advance(h)
    <3>1. HandlerOK([task[h] EXCEPT !.at = "findExisting"], request, consents)
      BY <1>1, <1>4, <2>1 DEF FindReceiver, Reads, HandlerOK, SendCalls, RemoveCalls, UsesRow, Task
    <3>2. QED
      BY <1>1, <2>1, <3>1, GotoAdvances DEF Calls
  <2>2. QED
    BY <1>2, <1>4, <2>1 DEF FindReceiver
<1>5. CASE FindExisting(h)
  <2>1. ASSUME Goto(h, "findReverse") PROVE Advance(h)
    <3>1. HandlerOK([task[h] EXCEPT !.at = "findReverse"], request, consents)
      BY <1>1, <1>5, <2>1 DEF FindExisting, Reads, HandlerOK, SendCalls, RemoveCalls, UsesRow, Task
    <3>2. QED
      BY <1>1, <2>1, <3>1, GotoAdvances DEF Calls
  <2>2. QED
    BY <1>2, <1>5, <2>1 DEF FindExisting
<1>6. CASE FindReverse(h)
  <2>1. ASSUME Goto(h, "create") PROVE Advance(h)
    <3>1. HandlerOK([task[h] EXCEPT !.at = "create"], request, consents)
      BY <1>1, <1>6, <2>1 DEF FindReverse, Reads, HandlerOK, SendCalls, RemoveCalls, UsesRow, Task
    <3>2. QED
      BY <1>1, <2>1, <3>1, GotoAdvances DEF Calls
  <2>2. ASSUME NEW id \in findByUsers(task[h].peer, task[h].actor, "PENDING"),
               task' = [task EXCEPT ![h].at = "findToAccept", ![h].req = id]
        PROVE  Advance(h)
    <3> DEFINE t == [task[h] EXCEPT !.at = "findToAccept", !.req = id]
    <3>1. /\ id \in RequestIds
          /\ request[id].status # "UNUSED"
          /\ request[id].receiver = task[h].actor
          /\ task[h].op = "send" /\ task[h].actor # task[h].peer
      BY <1>1, <1>6, <2>2 DEF findByUsers, RowsOf, FindReverse, Reads, HandlerOK, SendCalls
    <3>2. t \in Task
      BY <1>1, <3>1 DEF Task, Calls
    <3>3. HandlerOK(t, request, consents)
      BY <1>1, <1>6, <3>1 DEF HandlerOK, SendCalls, RemoveCalls, UsesRow, FindReverse, Reads, Task
    <3>4. task' = [task EXCEPT ![h] = t]
      BY <1>1, <2>2 DEF TasksOK, Task
    <3>5. QED
      BY <1>1, <3>2, <3>3, <3>4 DEF Advance
  <2>3. QED
    BY <1>6, <2>1, <2>2 DEF FindReverse
<1>7. QED
  BY <1>3, <1>4, <1>5, <1>6

LEMMA CreateAdvances ==
  ASSUME NEW h \in Handlers, Create(h) PROVE Advance(h)
  BY AnswerAdvances DEF Create, Replies

LEMMA DecisionReadsAdvance ==
  ASSUME IInv, NEW h \in Handlers,
         FindToAccept(h) \/ FindToReject(h) \/ FindToCancel(h) \/ FindFriendship(h)
  PROVE  Advance(h)
<1> USE DEF IInv
<1>1. /\ HandlerOK(task[h], request, consents)
      /\ task[h] \in Task
      /\ request' = request
      /\ consents' = consents
  BY DEF Handlers_OK, TasksOK, FindToAccept, FindToReject, FindToCancel, FindFriendship, Reads, tables
<1>2. \A r \in {"NotFound", "Forbidden", "Conflict"} : Answer(h, r) => Advance(h)
  BY AnswerAdvances DEF Replies
<1>3. CASE FindToAccept(h)
  <2>1. ASSUME request[task[h].req].receiver = AcceptsAs(task[h]), Goto(h, "markAccepted")
        PROVE  Advance(h)
    <3>1. HandlerOK([task[h] EXCEPT !.at = "markAccepted"], request, consents)
      BY <1>1, <1>3, <2>1 DEF FindToAccept, Reads, HandlerOK, SendCalls, RemoveCalls, UsesRow, Task, AcceptsAs
    <3>2. QED
      BY <1>1, <2>1, <3>1, GotoAdvances DEF Calls
  <2>2. QED
    BY <1>2, <1>3, <2>1 DEF FindToAccept
<1>4. CASE FindToReject(h)
  <2>1. ASSUME request[task[h].req].receiver = task[h].actor, Goto(h, "markRejected")
        PROVE  Advance(h)
    <3>1. HandlerOK([task[h] EXCEPT !.at = "markRejected"], request, consents)
      BY <1>1, <1>4, <2>1 DEF FindToReject, Reads, HandlerOK, SendCalls, RemoveCalls, UsesRow, Task
    <3>2. QED
      BY <1>1, <2>1, <3>1, GotoAdvances DEF Calls
  <2>2. QED
    BY <1>2, <1>4, <2>1 DEF FindToReject
<1>5. CASE FindToCancel(h)
  <2>1. ASSUME request[task[h].req].sender = task[h].actor, Goto(h, "markCanceled")
        PROVE  Advance(h)
    <3>1. HandlerOK([task[h] EXCEPT !.at = "markCanceled"], request, consents)
      BY <1>1, <1>5, <2>1 DEF FindToCancel, Reads, HandlerOK, SendCalls, RemoveCalls, UsesRow, Task
    <3>2. QED
      BY <1>1, <2>1, <3>1, GotoAdvances DEF Calls
  <2>2. QED
    BY <1>2, <1>5, <2>1 DEF FindToCancel
<1>6. CASE FindFriendship(h)
  <2>1. ASSUME NEW id \in findAcceptedFriendshipBetweenUsers(task[h].actor, task[h].peer),
               task' = [task EXCEPT ![h].at = "deleteRow", ![h].req = id]
        PROVE  Advance(h)
    <3> DEFINE t == [task[h] EXCEPT !.at = "deleteRow", !.req = id]
    <3>1. /\ id \in RequestIds
          /\ request[id].status # "UNUSED"
          /\ task[h].actor \in {request[id].sender, request[id].receiver}
      BY <2>1 DEF findAcceptedFriendshipBetweenUsers, findByUsers, RowsOf
    <3>2. t \in Task
      BY <1>1, <3>1 DEF Task, Calls
    <3>3. HandlerOK(t, request, consents)
      BY <1>1, <1>6, <3>1 DEF HandlerOK, SendCalls, RemoveCalls, UsesRow, FindFriendship, Reads, Task
    <3>4. task' = [task EXCEPT ![h] = t]
      BY <1>1, <2>1 DEF TasksOK, Task
    <3>5. QED
      BY <1>1, <3>2, <3>3, <3>4 DEF Advance
  <2>2. QED
    BY <1>2, <1>6, <2>1 DEF FindFriendship
<1>7. QED
  BY <1>3, <1>4, <1>5, <1>6

-----------------------------------------------------------------------------
(* Steps that write the tables.                                            *)

LEMMA ReadKeepsTables ==
  ASSUME IInv, UNCHANGED <<request, follows, consents>>, deleted' \subseteq Users
  PROVE  TablesOK' /\ AtMostOneRow' /\ FollowsNeedConsent' /\ RowsStable
  BY DEF IInv, TablesOK, AtMostOneRow, FollowsNeedConsent, RowsStable, Live

LEMMA FollowsKeepTables ==
  ASSUME IInv, UNCHANGED <<request, deleted, consents>>, follows' \subseteq Users \X Users,
         \A a, b \in Users : <<a, b>> \in follows' =>
           <<a, b>> \in follows \/ <<a, b>> \in consents \/ <<b, a>> \in consents
  PROVE  TablesOK' /\ AtMostOneRow' /\ FollowsNeedConsent' /\ RowsStable
  BY DEF IInv, TablesOK, AtMostOneRow, FollowsNeedConsent, RowsStable, Live

\* The status of a live row is overwritten; a row that is not live stays so.
LEMMA StatusKeepsTables ==
  ASSUME IInv, NEW id \in RequestIds, Live(id), NEW st \in Statuses \cup {"DELETED"},
         request' = [request EXCEPT ![id].status = st],
         consents \subseteq consents', consents' \subseteq Users \X Users,
         UNCHANGED <<follows, deleted>>
  PROVE  TablesOK' /\ AtMostOneRow' /\ FollowsNeedConsent' /\ RowsStable
<1> USE DEF IInv
<1>1. /\ request[id] \in Row
      /\ request[id].status # "UNUSED"
      /\ request'[id] = [request[id] EXCEPT !.status = st]
      /\ \A k \in RequestIds : k # id => request'[k] = request[k]
      /\ st # "UNUSED"
  BY DEF TablesOK, Live, Statuses
<1>2. request'[id] \in Row /\ request'[id].sender = request[id].sender
                           /\ request'[id].receiver = request[id].receiver
  BY <1>1 DEF Row
<1>3. TablesOK'
  <2>1. request' \in [RequestIds -> Row]
    BY <1>1, <1>2 DEF TablesOK
  <2>2. ASSUME NEW k \in RequestIds, request'[k].status # "UNUSED"
        PROVE  /\ request'[k].sender \in Users
               /\ request'[k].receiver \in Users
               /\ request'[k].sender # request'[k].receiver
    BY <1>1, <1>2, <2>2 DEF TablesOK
  <2>3. QED
    BY <2>1, <2>2 DEF TablesOK
<1>4. AtMostOneRow'
  BY <1>1, <1>2 DEF AtMostOneRow, Live
<1>5. FollowsNeedConsent'
  BY DEF FollowsNeedConsent
<1>6. RowsStable
  BY <1>1, <1>2, SMTT(30) DEF RowsStable, Row
<1>7. QED
  BY <1>3, <1>4, <1>5, <1>6

\* A new row takes an unissued uuid, and only when the pair has no live row.
LEMMA CreateKeepsTables ==
  ASSUME IInv, NEW h \in Handlers, Create(h)
  PROVE  TablesOK' /\ AtMostOneRow' /\ FollowsNeedConsent' /\ RowsStable
<1> DEFINE s == task[h].actor
           r == task[h].peer
<1> USE DEF IInv
<1>1. CASE RowsOf(s, r) # {}
  BY <1>1, ReadKeepsTables DEF Create, TablesOK
<1>2. CASE RowsOf(s, r) = {}
  <2>1. PICK id \in RequestIds :
          /\ request[id].status = "UNUSED"
          /\ request' = [request EXCEPT ![id] =
               [status |-> "PENDING", sender |-> s, receiver |-> r]]
    BY <1>2 DEF Create
  <2>2. s \in Users /\ r \in Users /\ s # r
    BY DEF Create, Handlers_OK, HandlerOK, SendCalls
  <2>3. UNCHANGED <<follows, deleted, consents>>
    BY DEF Create
  <2> DEFINE row == [status |-> "PENDING", sender |-> s, receiver |-> r]
  <2>4. /\ request'[id] = row
        /\ \A k \in RequestIds : k # id => request'[k] = request[k]
    BY <2>1 DEF TablesOK
  <2>5. TablesOK'
    <3>1. row \in Row
      BY <2>2 DEF Row, Statuses
    <3>2. request' \in [RequestIds -> Row]
      BY <3>1, <2>1 DEF TablesOK
    <3>3. QED
      BY <2>2, <2>3, <2>4, <3>2 DEF TablesOK
  <2>6. AtMostOneRow'
    <3> SUFFICES ASSUME NEW i \in RequestIds, NEW j \in RequestIds, Live(i)', Live(j)',
                        request'[i].sender = request'[j].sender,
                        request'[i].receiver = request'[j].receiver
                 PROVE  i = j
      BY DEF AtMostOneRow
    <3>1. \A k \in RequestIds : k # id => ~ (Live(k) /\ request[k].sender = s /\ request[k].receiver = r)
      BY <1>2 DEF RowsOf
    <3>2. CASE i # id /\ j # id
      BY <3>2, <2>4 DEF AtMostOneRow, Live
    <3>3. CASE i = id /\ j # id
      BY <3>3, <3>1, <2>4 DEF Live
    <3>4. CASE i # id /\ j = id
      BY <3>4, <3>1, <2>4 DEF Live
    <3>5. QED
      BY <3>2, <3>3, <3>4
  <2>7. FollowsNeedConsent'
    BY <2>3 DEF FollowsNeedConsent
  <2>8. RowsStable
    BY <2>1, <2>3, <2>4 DEF RowsStable
  <2>9. QED
    BY <2>5, <2>6, <2>7, <2>8
<1>3. QED
  BY <1>1, <1>2

LEMMA MarkStep ==
  ASSUME IInv, NEW h \in Handlers, NEW call \in UsesRow, NEW st \in Statuses, NEW after \in Task,
         Mark(h, call, st, after),
         Live(task[h].req) => HandlerOK(after, request', consents')
  PROVE  TablesOK' /\ AtMostOneRow' /\ FollowsNeedConsent' /\ RowsStable /\ Advance(h)
<1> USE DEF IInv
<1>1. task[h].req \in RequestIds
  BY DEF Mark, Handlers_OK, HandlerOK
<1>2. CASE Live(task[h].req)
  <2>1. /\ request[task[h].req].sender \in Users
        /\ request[task[h].req].receiver \in Users
    BY <1>1, <1>2 DEF TablesOK, Live, Statuses
  <2>2. /\ UpdateStatus(task[h].req, st)
        /\ task' = [task EXCEPT ![h] = after]
    BY <1>2 DEF Mark
  <2>3. consents \subseteq consents' /\ consents' \subseteq Users \X Users
    BY <2>1, <2>2 DEF UpdateStatus, TablesOK
  <2>4. TablesOK' /\ AtMostOneRow' /\ FollowsNeedConsent' /\ RowsStable
    BY <1>1, <1>2, <2>2, <2>3, StatusKeepsTables DEF UpdateStatus
  <2>5. QED
    BY <1>2, <2>2, <2>4 DEF Advance
<1>3. CASE ~ Live(task[h].req)
  <2>1. Answer(h, "Error") /\ UNCHANGED tables
    BY <1>3 DEF Mark
  <2>2. QED
    BY <2>1, AnswerAdvances, ReadKeepsTables DEF Replies, tables, TablesOK
<1>4. QED
  BY <1>2, <1>3

LEMMA MarkAcceptedStep ==
  ASSUME IInv, NEW h \in Handlers, MarkAccepted(h)
  PROVE  TablesOK' /\ AtMostOneRow' /\ FollowsNeedConsent' /\ RowsStable /\ Advance(h)
<1> DEFINE after == [task[h] EXCEPT !.at = "followForward"]
           row == request[task[h].req]
<1>1. HandlerOK(task[h], request, consents) /\ task[h] \in Task /\ task[h].at = "markAccepted"
  BY DEF IInv, Handlers_OK, TasksOK, MarkAccepted, Mark
<1>2. task[h].req \in RequestIds /\ row \in Row
  BY <1>1 DEF HandlerOK, UsesRow, IInv, TablesOK
<1>3. after \in Task
  BY <1>1 DEF Task, Calls
<1>4. ASSUME Live(task[h].req) PROVE HandlerOK(after, request', consents')
  <2>1. /\ request' = [request EXCEPT ![task[h].req].status = "ACCEPTED"]
        /\ consents' = consents \cup {<<row.sender, row.receiver>>}
    BY <1>4 DEF MarkAccepted, Mark, UpdateStatus
  <2>2. request'[task[h].req] = [row EXCEPT !.status = "ACCEPTED"]
    BY <1>2, <2>1 DEF IInv, TablesOK
  <2>3. /\ request'[task[h].req].status # "UNUSED"
        /\ request'[task[h].req].sender = row.sender
        /\ request'[task[h].req].receiver = row.receiver
    BY <1>2, <2>2 DEF Row
  <2>4. QED
    BY <1>1, <2>1, <2>3 DEF HandlerOK, UsesRow, SendCalls, RemoveCalls, Task
<1>5. QED
  BY <1>3, <1>4, MarkStep DEF MarkAccepted, UsesRow, Statuses

LEMMA MarkOthersStep ==
  ASSUME IInv, NEW h \in Handlers, MarkRejected(h) \/ MarkCanceled(h)
  PROVE  TablesOK' /\ AtMostOneRow' /\ FollowsNeedConsent' /\ RowsStable /\ Advance(h)
<1>1. Idle("ok") \in Task /\ HandlerOK(Idle("ok"), request', consents')
  BY IdleOK DEF Replies
<1>2. QED
  BY <1>1, MarkStep DEF MarkRejected, MarkCanceled, UsesRow, Statuses

LEMMA FollowStep ==
  ASSUME IInv, NEW h \in Handlers, FollowForward(h) \/ FollowBack(h)
  PROVE  TablesOK' /\ AtMostOneRow' /\ FollowsNeedConsent' /\ RowsStable /\ Advance(h)
<1> USE DEF IInv
<1> DEFINE row == request[task[h].req]
<1>1. HandlerOK(task[h], request, consents) /\ task[h] \in Task
  BY DEF Handlers_OK, TasksOK
<1>2. /\ <<row.sender, row.receiver>> \in consents
      /\ row.sender \in Users /\ row.receiver \in Users
      /\ UNCHANGED <<request, deleted, consents>>
  BY <1>1 DEF HandlerOK, UsesRow, TablesOK, FollowForward, FollowBack
<1>3. follows' \in {follows \cup {<<row.sender, row.receiver>>}, follows \cup {<<row.receiver, row.sender>>}}
  BY DEF FollowForward, FollowBack
<1>4. TablesOK' /\ AtMostOneRow' /\ FollowsNeedConsent' /\ RowsStable
  BY <1>2, <1>3, FollowsKeepTables DEF TablesOK
<1>5. CASE FollowForward(h)
  <2>1. HandlerOK([task[h] EXCEPT !.at = "followBack"], request', consents')
    BY <1>1, <1>2, <1>5 DEF FollowForward, HandlerOK, UsesRow, SendCalls, RemoveCalls, Task
  <2>2. QED
    BY <1>4, <1>5, <2>1, GotoAdvances DEF FollowForward, Calls
<1>6. CASE FollowBack(h)
  BY <1>4, <1>6, AnswerAdvances DEF FollowBack, Replies
<1>7. QED
  BY <1>5, <1>6

LEMMA DeleteRowStep ==
  ASSUME IInv, NEW h \in Handlers, DeleteRow(h)
  PROVE  TablesOK' /\ AtMostOneRow' /\ FollowsNeedConsent' /\ RowsStable /\ Advance(h)
<1> USE DEF IInv
<1>1. HandlerOK(task[h], request, consents) /\ task[h] \in Task
  BY DEF Handlers_OK, TasksOK
<1>2. task[h].req \in RequestIds
  BY <1>1 DEF HandlerOK, UsesRow, DeleteRow
<1>3. CASE Live(task[h].req)
  <2>1. HandlerOK([task[h] EXCEPT !.at = "unfollowMine"], request', consents')
    BY <1>1 DEF DeleteRow, HandlerOK, UsesRow, SendCalls, RemoveCalls, Task
  <2>2. QED
    BY <1>2, <1>3, <2>1, GotoAdvances, StatusKeepsTables DEF DeleteRow, Calls, TablesOK
<1>4. CASE ~ Live(task[h].req)
  BY <1>4, AnswerAdvances, ReadKeepsTables DEF DeleteRow, Replies, TablesOK
<1>5. QED
  BY <1>3, <1>4

LEMMA UnfollowStep ==
  ASSUME IInv, NEW h \in Handlers, UnfollowMine(h) \/ UnfollowTheirs(h) \/ UnfollowFails(h)
  PROVE  TablesOK' /\ AtMostOneRow' /\ FollowsNeedConsent' /\ RowsStable /\ Advance(h)
<1> USE DEF IInv
<1>1. HandlerOK(task[h], request, consents) /\ task[h] \in Task
  BY DEF Handlers_OK, TasksOK
<1>2. UNCHANGED <<request, deleted, consents>> /\ follows' \subseteq follows
  BY DEF UnfollowMine, UnfollowTheirs, UnfollowFails, tables
<1>3. TablesOK' /\ AtMostOneRow' /\ FollowsNeedConsent' /\ RowsStable
  BY <1>2, FollowsKeepTables DEF TablesOK, FollowsNeedConsent
<1>4. CASE task[h].at = "unfollowMine" /\ Goto(h, "unfollowTheirs")
  <2>1. HandlerOK([task[h] EXCEPT !.at = "unfollowTheirs"], request', consents')
    BY <1>1, <1>2, <1>4 DEF HandlerOK, UsesRow, SendCalls, RemoveCalls, Task
  <2>2. QED
    BY <1>3, <1>4, <2>1, GotoAdvances DEF Calls
<1>5. CASE Answer(h, "ok")
  BY <1>3, <1>5, AnswerAdvances DEF Replies
<1>6. QED
  BY <1>4, <1>5 DEF UnfollowMine, UnfollowTheirs, UnfollowFails

-----------------------------------------------------------------------------
(* The inductive invariant and the theorems.                               *)

ReadStep(h) ==
  \/ StartSend(h) \/ StartDecision(h) \/ StartRemove(h)
  \/ FindSender(h) \/ FindReceiver(h) \/ FindExisting(h) \/ FindReverse(h)
  \/ FindToAccept(h) \/ FindToReject(h) \/ FindToCancel(h) \/ FindFriendship(h)
  \/ Abort(h)

LEMMA ReadStepAdvances ==
  ASSUME IInv, NEW h \in Handlers, ReadStep(h)
  PROVE  UNCHANGED tables /\ Advance(h)
<1>1. UNCHANGED tables
  BY DEF ReadStep, StartSend, StartDecision, StartRemove, Start, FindSender, FindReceiver,
         FindExisting, FindReverse, FindToAccept, FindToReject, FindToCancel,
         FindFriendship, Abort, Reads
<1>2. CASE Abort(h)
  BY <1>1, <1>2, AnswerAdvances DEF Abort, Replies
<1>3. CASE StartSend(h) \/ StartDecision(h) \/ StartRemove(h)
  BY <1>1, <1>3, StartsAdvance
<1>4. CASE FindSender(h) \/ FindReceiver(h) \/ FindExisting(h) \/ FindReverse(h)
  BY <1>1, <1>4, SendReadsAdvance
<1>5. CASE FindToAccept(h) \/ FindToReject(h) \/ FindToCancel(h) \/ FindFriendship(h)
  BY <1>1, <1>5, DecisionReadsAdvance
<1>6. QED
  BY <1>2, <1>3, <1>4, <1>5 DEF ReadStep

LEMMA FaultyNextIInv == IInv /\ [FaultyNext]_vars => IInv'
<1> SUFFICES ASSUME IInv, [FaultyNext]_vars PROVE IInv'
  OBVIOUS
<1>1. ASSUME NEW h \in Handlers,
             TablesOK' /\ AtMostOneRow' /\ FollowsNeedConsent' /\ RowsStable /\ Advance(h)
      PROVE  IInv'
  BY <1>1, AdvanceKeepsHandlers DEF IInv
<1>2. ASSUME NEW h \in Handlers, ReadStep(h) PROVE IInv'
  BY <1>1, <1>2, ReadStepAdvances, ReadKeepsTables DEF tables, IInv, TablesOK
<1>3. ASSUME NEW h \in Handlers, Create(h) PROVE IInv'
  BY <1>1, <1>3, CreateKeepsTables, CreateAdvances
<1>4. ASSUME NEW h \in Handlers, MarkAccepted(h) PROVE IInv'
  BY <1>1, <1>4, MarkAcceptedStep
<1>5. ASSUME NEW h \in Handlers, MarkRejected(h) \/ MarkCanceled(h) PROVE IInv'
  BY <1>1, <1>5, MarkOthersStep
<1>6. ASSUME NEW h \in Handlers, FollowForward(h) \/ FollowBack(h) PROVE IInv'
  BY <1>1, <1>6, FollowStep
<1>7. ASSUME NEW h \in Handlers, DeleteRow(h) PROVE IInv'
  BY <1>1, <1>7, DeleteRowStep
<1>8. ASSUME NEW h \in Handlers, UnfollowMine(h) \/ UnfollowTheirs(h) \/ UnfollowFails(h) PROVE IInv'
  BY <1>1, <1>8, UnfollowStep
<1>9. ASSUME NEW u \in Users, writeStatus(u) PROVE IInv'
  <2>1. TablesOK' /\ AtMostOneRow' /\ FollowsNeedConsent'
    BY <1>9, ReadKeepsTables DEF writeStatus, IInv, TablesOK
  <2>2. TasksOK' /\ Handlers_OK'
    BY <1>9 DEF writeStatus, IInv, TasksOK, Handlers_OK
  <2>3. QED
    BY <2>1, <2>2 DEF IInv
<1>10. CASE UNCHANGED vars
  BY <1>10 DEF vars, IInv, TablesOK, TasksOK, AtMostOneRow, Live, FollowsNeedConsent, Handlers_OK
<1>11. QED
  BY <1>2, <1>3, <1>4, <1>5, <1>6, <1>7, <1>8, <1>9, <1>10 DEF FaultyNext, Next, Step, ReadStep

LEMMA FaultySpecIInv == FaultySpec => []IInv
  BY InitIInv, FaultyNextIInv, PTL DEF FaultySpec

\* Every state of the service, with any number of handlers and with failing
\* calls, has its types: no handler touches a row it has not read.
THEOREM TypeCorrect == FaultySpec => []TypeOK
  BY FaultySpecIInv, IInvTypeOK, PTL

\* However many sends overlap, an ordered pair of users has one live row.
THEOREM OneRowPerPair == FaultySpec => []AtMostOneRow
<1>1. IInv => AtMostOneRow
  BY DEF IInv
<1>2. QED
  BY <1>1, FaultySpecIInv, PTL

\* A follow exists only between users one of whom accepted the other's request.
THEOREM NoFollowWithoutConsent == FaultySpec => []FollowsNeedConsent
<1>1. IInv => FollowsNeedConsent
  BY DEF IInv
<1>2. QED
  BY <1>1, FaultySpecIInv, PTL

DecidedByParty(id) ==
  request[id].status # "UNUSED" /\ request'[id].status # request[id].status
  => \E h \in Handlers :
       /\ task'[h] # task[h]
       /\ task[h].actor \in
            CASE request'[id].status \in {"ACCEPTED", "REJECTED"}
                   -> {request[id].receiver}
              [] request'[id].status = "CANCELED" -> {request[id].sender}
              [] OTHER -> {request[id].sender, request[id].receiver}

LEMMA StepDecidedByParty ==
  ASSUME IInv, [FaultyNext]_vars, NEW id \in RequestIds PROVE DecidedByParty(id)
<1> SUFFICES ASSUME request[id].status # "UNUSED", request'[id].status # request[id].status
             PROVE  DecidedByParty(id)
  BY DEF DecidedByParty
<1>1. ASSUME NEW h \in Handlers
      PROVE  HandlerOK(task[h], request, consents) /\ task[h] \in Task
  BY DEF IInv, Handlers_OK, TasksOK
<1>2. ~ UNCHANGED request
  OBVIOUS
<1>3. PICK h \in Handlers : \/ Create(h) \/ MarkAccepted(h) \/ MarkRejected(h)
                            \/ MarkCanceled(h) \/ DeleteRow(h)
  BY <1>2 DEF FaultyNext, Next, Step, StartSend, StartDecision, StartRemove, Start, FindSender,
              FindReceiver, FindExisting, FindReverse, FindToAccept, FindToReject,
              FindToCancel, FindFriendship, Abort, Reads, tables, vars, FollowForward,
              FollowBack, UnfollowMine, UnfollowTheirs, UnfollowFails, writeStatus
<1>4. ~ Create(h)
  BY DEF Create, IInv, TablesOK
<1>5. task[h].req = id /\ Live(id)
  BY <1>3, <1>4 DEF MarkAccepted, MarkRejected, MarkCanceled, Mark, UpdateStatus, DeleteRow,
                    tables, IInv, TablesOK
<1>6. request[id] \in Row /\ task \in [Handlers -> Task]
  BY DEF IInv, TablesOK, TasksOK
<1>7. CASE MarkAccepted(h)
  <2>1. request'[id].status = "ACCEPTED" /\ task[h].actor = request[id].receiver
    BY <1>1, <1>5, <1>6, <1>7 DEF MarkAccepted, Mark, UpdateStatus, HandlerOK, Row, IInv, TablesOK
  <2>2. task'[h].at = "followForward" /\ task[h].at = "markAccepted"
    BY <1>5, <1>6, <1>7 DEF MarkAccepted, Mark, Task
  <2>3. QED
    BY <2>1, <2>2 DEF DecidedByParty
<1>8. CASE MarkRejected(h)
  <2>1. request'[id].status = "REJECTED" /\ task[h].actor = request[id].receiver
    BY <1>1, <1>5, <1>6, <1>8 DEF MarkRejected, Mark, UpdateStatus, HandlerOK, Row, IInv, TablesOK
  <2>2. task'[h].at = "idle" /\ task[h].at = "markRejected"
    BY <1>5, <1>6, <1>8 DEF MarkRejected, Mark, Idle
  <2>3. QED
    BY <2>1, <2>2 DEF DecidedByParty
<1>9. CASE MarkCanceled(h)
  <2>1. request'[id].status = "CANCELED" /\ task[h].actor = request[id].sender
    BY <1>1, <1>5, <1>6, <1>9 DEF MarkCanceled, Mark, UpdateStatus, HandlerOK, Row, IInv, TablesOK
  <2>2. task'[h].at = "idle" /\ task[h].at = "markCanceled"
    BY <1>5, <1>6, <1>9 DEF MarkCanceled, Mark, Idle
  <2>3. QED
    BY <2>1, <2>2 DEF DecidedByParty
<1>10. CASE DeleteRow(h)
  <2>1. request'[id].status = "DELETED" /\ task[h].actor \in {request[id].sender, request[id].receiver}
    BY <1>1, <1>5, <1>6, <1>10 DEF DeleteRow, HandlerOK, Row, IInv, TablesOK
  <2>2. task'[h].at = "unfollowMine" /\ task[h].at = "deleteRow"
    BY <1>5, <1>6, <1>10 DEF DeleteRow, Goto, Task
  <2>3. QED
    BY <2>1, <2>2 DEF DecidedByParty
<1>11. QED
  BY <1>3, <1>4, <1>7, <1>8, <1>9, <1>10

\* A row's status changes only at the hands of the user entitled to change it,
\* although the check and the write are separate database calls.
THEOREM DecisionsAreAuthorised == FaultySpec => OnlyPartiesDecide
<1>1. IInv /\ [FaultyNext]_vars => \A id \in RequestIds : DecidedByParty(id)
  BY StepDecidedByParty
<1>2. FaultySpec => [][\A id \in RequestIds : DecidedByParty(id)]_vars
  BY <1>1, FaultySpecIInv, PTL DEF FaultySpec
<1>3. QED
  BY <1>2 DEF OnlyPartiesDecide, DecidedByParty

-----------------------------------------------------------------------------
(* The refinement of the abstract life cycle.                              *)

\* What it needs beyond IInv: a uuid not yet issued has an empty row, and a
\* handler about to delete a row has seen it accepted, so it is not PENDING.
LifecycleInv ==
  /\ \A id \in RequestIds :
       request[id].status = "UNUSED" => request[id] = Lifecycle!Unissued
  /\ \A h \in Handlers :
       task[h].at = "deleteRow" => request[task[h].req].status # "PENDING"

\* The four ways a step treats the table of rows.
RowStep ==
  \/ UNCHANGED request
  \/ \E id \in RequestIds, s, r \in Users :
       /\ request[id].status = "UNUSED" /\ s # r /\ RowsOf(s, r) = {}
       /\ request' = [request EXCEPT ![id] =
            [status |-> "PENDING", sender |-> s, receiver |-> r]]
  \/ \E id \in RequestIds, st \in {"ACCEPTED", "REJECTED", "CANCELED"} :
       Live(id) /\ request' = [request EXCEPT ![id].status = st]
  \/ \E h \in Handlers :
       /\ task[h].at = "deleteRow" /\ task[h].req \in RequestIds /\ Live(task[h].req)
       /\ request' = [request EXCEPT ![task[h].req].status = "DELETED"]

LEMMA FaultyNextRowStep ==
  ASSUME IInv, [FaultyNext]_vars PROVE RowStep
<1> SUFFICES ASSUME ~ UNCHANGED request PROVE RowStep
  BY DEF RowStep
<1>1. PICK h \in Handlers : \/ Create(h) \/ MarkAccepted(h) \/ MarkRejected(h)
                            \/ MarkCanceled(h) \/ DeleteRow(h)
  BY DEF FaultyNext, Next, Step, StartSend, StartDecision, StartRemove, Start, FindSender,
         FindReceiver, FindExisting, FindReverse, FindToAccept, FindToReject,
         FindToCancel, FindFriendship, Abort, Reads, tables, vars, FollowForward,
         FollowBack, UnfollowMine, UnfollowTheirs, UnfollowFails, writeStatus
<1>2. HandlerOK(task[h], request, consents)
  BY DEF IInv, Handlers_OK
<1>3. CASE Create(h)
  <2>1. task[h].actor \in Users /\ task[h].peer \in Users /\ task[h].actor # task[h].peer
    BY <1>2, <1>3 DEF Create, HandlerOK, SendCalls
  <2> QED BY <1>3, <2>1 DEF Create, RowStep
<1>4. CASE MarkAccepted(h) \/ MarkRejected(h) \/ MarkCanceled(h)
  <2>1. task[h].req \in RequestIds /\ Live(task[h].req)
    BY <1>2, <1>4 DEF MarkAccepted, MarkRejected, MarkCanceled, Mark, HandlerOK, UsesRow, tables
  <2> QED BY <1>4, <2>1 DEF MarkAccepted, MarkRejected, MarkCanceled, Mark, UpdateStatus, RowStep
<1>5. CASE DeleteRow(h)
  BY <1>2, <1>5 DEF DeleteRow, HandlerOK, UsesRow, RowStep
<1> QED BY <1>1, <1>3, <1>4, <1>5

\* A handler comes to delete a row only by reading that it is ACCEPTED.
LEMMA AboutToDelete ==
  ASSUME IInv, [FaultyNext]_vars, NEW k \in Handlers, task'[k].at = "deleteRow"
  PROVE  \/ task'[k] = task[k]
         \/ UNCHANGED request /\ request[task'[k].req].status = "ACCEPTED"
<1> SUFFICES ASSUME task'[k] # task[k]
             PROVE  UNCHANGED request /\ request[task'[k].req].status = "ACCEPTED"
  OBVIOUS
<1>1. task \in [Handlers -> Task]
  BY DEF IInv, TasksOK
<1>2. PICK h \in Handlers : Step(h) \/ Abort(h) \/ UnfollowFails(h)
  BY DEF FaultyNext, Next, writeStatus, vars
<1>3. ASSUME NEW reply, Answer(h, reply) PROVE FALSE
  BY <1>1, <1>3 DEF Answer, Idle
<1>4. ASSUME NEW at \in Calls \ {"deleteRow"}, Goto(h, at) PROVE FALSE
  BY <1>1, <1>4 DEF Goto, Task
<1>5. ~ (StartSend(h) \/ StartDecision(h) \/ StartRemove(h))
  BY <1>1 DEF StartSend, StartDecision, StartRemove, Start, Task
<1>6. ~ (FindSender(h) \/ FindReceiver(h) \/ FindExisting(h) \/ Create(h))
  BY <1>3, <1>4 DEF FindSender, FindReceiver, FindExisting, Create, Calls
<1>7. ~ FindReverse(h)
  <2>1. ASSUME NEW id, task' = [task EXCEPT ![h].at = "findToAccept", ![h].req = id] PROVE FALSE
    BY <1>1, <2>1 DEF Task
  <2> QED BY <1>4, <2>1 DEF FindReverse, Calls
<1>8. ~ (FindToAccept(h) \/ FindToReject(h) \/ FindToCancel(h))
  BY <1>3, <1>4 DEF FindToAccept, FindToReject, FindToCancel, Calls
<1>9. ~ (MarkAccepted(h) \/ MarkRejected(h) \/ MarkCanceled(h))
  <2>1. task' # [task EXCEPT ![h] = [task[h] EXCEPT !.at = "followForward"]]
    BY <1>1 DEF Task
  <2>2. task' # [task EXCEPT ![h] = Idle("ok")]
    BY <1>3 DEF Answer
  <2> QED BY <1>3, <2>1, <2>2 DEF MarkAccepted, MarkRejected, MarkCanceled, Mark
<1>10. ~ (FollowForward(h) \/ FollowBack(h) \/ DeleteRow(h) \/ UnfollowMine(h)
            \/ UnfollowTheirs(h) \/ Abort(h) \/ UnfollowFails(h))
  BY <1>3, <1>4 DEF FollowForward, FollowBack, DeleteRow, UnfollowMine, UnfollowTheirs,
                    Abort, UnfollowFails, Calls
<1>11. FindFriendship(h)
  BY <1>2, <1>5, <1>6, <1>7, <1>8, <1>9, <1>10 DEF Step
<1>12. PICK id \in findAcceptedFriendshipBetweenUsers(task[h].actor, task[h].peer) :
         task' = [task EXCEPT ![h].at = "deleteRow", ![h].req = id]
  BY <1>3, <1>11 DEF FindFriendship
<1>13. request[id].status = "ACCEPTED" /\ UNCHANGED request
  BY <1>11 DEF findAcceptedFriendshipBetweenUsers, findByUsers, FindFriendship, Reads, tables
<1>14. task'[k].req = id
  BY <1>1, <1>12 DEF Task
<1> QED BY <1>13, <1>14

LEMMA LifecycleInvInit == Init => LifecycleInv
  BY DEF Init, LifecycleInv, Lifecycle!Unissued, Idle

LEMMA LifecycleInvStep ==
  ASSUME IInv, LifecycleInv, [FaultyNext]_vars PROVE LifecycleInv'
<1>1. RowStep /\ request \in [RequestIds -> Row]
  BY FaultyNextRowStep DEF IInv, TablesOK
<1>2. ASSUME NEW id \in RequestIds, request'[id].status = "UNUSED"
      PROVE  request'[id] = Lifecycle!Unissued
  <2>1. request[id].status = "UNUSED" => request[id] = Lifecycle!Unissued
    BY DEF LifecycleInv
  <2>2. ASSUME NEW k \in RequestIds, NEW row, row.status # "UNUSED",
               request' = [request EXCEPT ![k] = row]
        PROVE  request'[id] = request[id]
    BY <1>1, <1>2, <2>2
  <2>3. request'[id] = request[id]
    <3>1. ASSUME NEW k \in RequestIds, NEW st, st # "UNUSED",
                 request' = [request EXCEPT ![k].status = st]
          PROVE  request'[id] = request[id]
      BY <1>1, <1>2, <3>1 DEF Row
    <3>2. CASE UNCHANGED request
      BY <3>2
    <3> QED BY <1>1, <2>2, <3>1, <3>2 DEF RowStep
  <2> QED BY <1>2, <2>1, <2>3
<1>3. ASSUME NEW id \in RequestIds, request[id].status \notin {"UNUSED", "PENDING"}
      PROVE  request'[id].status # "PENDING"
  BY <1>1, <1>3 DEF RowStep, Row
<1>4. ASSUME NEW h \in Handlers, task'[h].at = "deleteRow"
      PROVE  request'[task'[h].req].status # "PENDING"
  <2>1. CASE task'[h] = task[h]
    <3>1. /\ task[h].req \in RequestIds /\ request[task[h].req].status # "UNUSED"
          /\ request[task[h].req].status # "PENDING"
      BY <1>4, <2>1 DEF LifecycleInv, IInv, Handlers_OK, HandlerOK, UsesRow
    <3> QED BY <1>3, <2>1, <3>1
  <2>2. CASE UNCHANGED request /\ request[task'[h].req].status = "ACCEPTED"
    BY <2>2
  <2> QED BY <1>4, <2>1, <2>2, AboutToDelete
<1> QED BY <1>2, <1>4 DEF LifecycleInv

LEMMA IssueImplements ==
  ASSUME LifecycleInv, NEW id \in RequestIds, NEW s \in Users, NEW r \in Users,
         request[id].status = "UNUSED", s # r, RowsOf(s, r) = {},
         request' = [request EXCEPT ![id] =
           [status |-> "PENDING", sender |-> s, receiver |-> r]]
  PROVE  Lifecycle!Issue(id)
<1>1. request[id] = Lifecycle!Unissued
  BY DEF LifecycleInv
<1>2. ~ \E other \in RequestIds : /\ Lifecycle!Live(other)
                                 /\ request[other].sender = s
                                 /\ request[other].receiver = r
  BY DEF RowsOf, Live, Statuses, Lifecycle!Live, Lifecycle!Decided
<1> QED BY <1>1, <1>2 DEF Lifecycle!Issue

LEMMA RowStepImplements ==
  ASSUME IInv, LifecycleInv, RowStep PROVE [Lifecycle!RacyNext]_request
<1>1. request \in [RequestIds -> Row]
  BY DEF IInv, TablesOK
<1>2. ASSUME NEW id \in RequestIds, NEW s \in Users, NEW r \in Users,
             request[id].status = "UNUSED", s # r, RowsOf(s, r) = {},
             request' = [request EXCEPT ![id] =
               [status |-> "PENDING", sender |-> s, receiver |-> r]]
      PROVE  Lifecycle!Issue(id)
  BY <1>2, IssueImplements
<1>3. ASSUME NEW id \in RequestIds, NEW st \in {"ACCEPTED", "REJECTED", "CANCELED"},
             Live(id), request' = [request EXCEPT ![id].status = st]
      PROVE  Lifecycle!Move(id, Lifecycle!RacyMoves) \/ UNCHANGED request
  <2>1. CASE st = request[id].status
    BY <1>1, <1>3, <2>1 DEF Row
  <2>2. CASE st # request[id].status
    <3>1. <<request[id].status, st>> \in Lifecycle!RacyMoves
      BY <1>3, <2>2 DEF Live, Statuses, Lifecycle!RacyMoves, Lifecycle!SequentialMoves,
                        Lifecycle!Decided
    <3> QED BY <1>3, <3>1 DEF Lifecycle!Move, Lifecycle!Decided
  <2> QED BY <2>1, <2>2
<1>4. ASSUME NEW h \in Handlers, task[h].at = "deleteRow", task[h].req \in RequestIds,
             Live(task[h].req), request' = [request EXCEPT ![task[h].req].status = "DELETED"]
      PROVE  Lifecycle!Move(task[h].req, Lifecycle!RacyMoves)
  <2>1. request[task[h].req].status \in {"ACCEPTED", "REJECTED", "CANCELED"}
    BY <1>4 DEF LifecycleInv, Live, Statuses
  <2>2. <<request[task[h].req].status, "DELETED">> \in Lifecycle!RacyMoves
    BY <2>1 DEF Lifecycle!RacyMoves, Lifecycle!SequentialMoves, Lifecycle!Decided
  <2> QED BY <1>4, <2>2 DEF Lifecycle!Move, Lifecycle!Decided
<1> QED BY <1>2, <1>3, <1>4 DEF RowStep, Lifecycle!RacyNext

LEMMA InitLifecycle == Init => Lifecycle!Init
  BY DEF Init, Lifecycle!Init, Lifecycle!Unissued

LEMMA FaultySpecLifecycleInv == FaultySpec => []LifecycleInv
<1>1. IInv /\ LifecycleInv /\ [FaultyNext]_vars => LifecycleInv'
  BY LifecycleInvStep
<1> QED BY <1>1, LifecycleInvInit, FaultySpecIInv, PTL DEF FaultySpec

\* friend-request.service.ts:17-194 implements the abstract life cycle of a row:
\* with every overlap and failure, the three racy moves are all that is added
\* to what the guards intend; no row is PENDING twice and none comes back.
THEOREM LifecycleImplemented == FaultySpec => ImplementsRacyLifecycle
<1>1. IInv /\ LifecycleInv /\ [FaultyNext]_vars => [Lifecycle!RacyNext]_request
  BY FaultyNextRowStep, RowStepImplements
<1> QED BY <1>1, InitLifecycle, FaultySpecIInv, FaultySpecLifecycleInv, PTL
        DEF FaultySpec, ImplementsRacyLifecycle, Lifecycle!RacySpec

-----------------------------------------------------------------------------
(* One handler serves, without faults.                                     *)

\* What it read at its last call is true still: nobody wrote in between.
StillTrue(t) ==
  /\ t.at \in {"markAccepted", "markRejected", "markCanceled", "followForward",
               "followBack"} => Live(t.req)
  /\ t.at = "markAccepted" => request[t.req].status # "ACCEPTED"
  /\ t.at = "markRejected" => request[t.req].status # "REJECTED"
  /\ t.at = "markCanceled" => request[t.req].status \notin {"CANCELED", "ACCEPTED"}
  /\ t.at = "deleteRow" =>
       /\ request[t.req].status = "ACCEPTED"
       /\ {request[t.req].sender, request[t.req].receiver} = {t.actor, t.peer}
  /\ t.at = "followBack" => <<request[t.req].sender, request[t.req].receiver>> \in follows
  /\ t.at = "unfollowTheirs" => <<t.actor, t.peer>> \notin follows

HaveRow(a, b) == RowsOf(a, b) \cup RowsOf(b, a) # {}

\* Of the follows of a and b the handler has written, or removed, the other one.
Halfway(t, a, b) ==
  \/ t.at = "followBack" /\ request[t.req].sender = a /\ request[t.req].receiver = b
  \/ t.at = "unfollowTheirs" /\ t.peer = a /\ t.actor = b

\* The handler has deleted the row of a and b, and not yet both their follows.
Unfriending(t, a, b) ==
  t.at \in {"unfollowMine", "unfollowTheirs"} /\ {t.actor, t.peer} = {a, b}

\* Following is mutual and backed by a row, but for what the handler is at.
FollowsBut(t) ==
  \A a, b \in Users : <<a, b>> \in follows =>
    /\ <<b, a>> \in follows \/ Halfway(t, a, b)
    /\ HaveRow(a, b) \/ Unfriending(t, a, b)

OthersIdle(h) == \A k \in Handlers \ {h} : task[k].at = "idle"

AloneWith(h) == OthersIdle(h) /\ StillTrue(task[h]) /\ FollowsBut(task[h])

\* The inductive invariant of that instance, which strengthens IInv.
AloneInv == \A h \in Handlers : serving = {h} => AloneWith(h)

\* The calls at which a task relies on more than IInv says.
RelyingCalls == {"markAccepted", "markRejected", "markCanceled", "deleteRow",
                 "followForward", "followBack", "unfollowMine", "unfollowTheirs"}

HalfwayCalls == {"followBack", "unfollowMine", "unfollowTheirs"}

LEMMA RelyOnNothing ==
  ASSUME NEW h \in Handlers, task'[h].at \notin RelyingCalls
  PROVE  StillTrue(task[h])'
  BY DEF StillTrue, RelyingCalls

\* Rows that are live stay live and keep their users.
RowsStay ==
  \A id \in RequestIds : Live(id) => /\ Live(id)'
                                     /\ request'[id].sender = request[id].sender
                                     /\ request'[id].receiver = request[id].receiver

LEMMA RowsStayKeepsRows ==
  ASSUME RowsStay, NEW a, NEW b, HaveRow(a, b) PROVE HaveRow(a, b)'
  BY DEF RowsStay, HaveRow, RowsOf

\* A step that leaves the follows alone, and is not between two writes of them.
LEMMA FollowsAlone ==
  ASSUME NEW h \in Handlers, FollowsBut(task[h]), RowsStay, UNCHANGED follows,
         task[h].at \notin HalfwayCalls
  PROVE  FollowsBut(task[h])'
<1>1. ASSUME NEW a \in Users, NEW b \in Users, <<a, b>> \in follows'
      PROVE  <<b, a>> \in follows' /\ HaveRow(a, b)'
  BY <1>1, RowsStayKeepsRows DEF FollowsBut, Halfway, Unfriending, HalfwayCalls
<1>2. QED
  BY <1>1 DEF FollowsBut

\* What every step of the handler that writes neither rows nor follows is.
LEMMA ReadKeepsAlone ==
  ASSUME NEW h \in Handlers, AloneWith(h), UNCHANGED <<request, follows>>,
         task[h].at \notin HalfwayCalls, StillTrue(task[h])'
  PROVE  StillTrue(task[h])' /\ FollowsBut(task[h])'
<1>1. RowsStay
  BY DEF RowsStay, Live
<1>2. QED
  BY <1>1, FollowsAlone DEF AloneWith

LEMMA AnswerRelies ==
  ASSUME IInv, NEW h \in Handlers, NEW r, Answer(h, r)
  PROVE  task'[h].at = "idle" /\ StillTrue(task[h])'
  BY RelyOnNothing DEF IInv, TasksOK, Answer, Idle, RelyingCalls

LEMMA GotoRelies ==
  ASSUME IInv, NEW h \in Handlers, NEW l, Goto(h, l)
  PROVE  /\ task'[h] = [task[h] EXCEPT !.at = l]
         /\ task'[h].at = l /\ task'[h].req = task[h].req
         /\ task'[h].actor = task[h].actor /\ task'[h].peer = task[h].peer
  BY DEF IInv, TasksOK, Task, Goto

LEMMA StartsKeepAlone ==
  ASSUME IInv, NEW h \in Handlers, AloneWith(h),
         StartSend(h) \/ StartDecision(h) \/ StartRemove(h)
  PROVE  StillTrue(task[h])' /\ FollowsBut(task[h])'
<1>1. ASSUME NEW op, NEW call, NEW u, NEW v, NEW id, Start(h, op, call, u, v, id),
             call \notin RelyingCalls
      PROVE  StillTrue(task[h])' /\ FollowsBut(task[h])'
  <2>1. task'[h].at = call /\ task[h].at = "idle" /\ UNCHANGED <<request, follows>>
    BY <1>1 DEF Start, tables, IInv, TasksOK
  <2>2. QED
    BY <1>1, <2>1, RelyOnNothing, ReadKeepsAlone DEF HalfwayCalls
<1>2. CASE StartSend(h)
  BY <1>1, <1>2 DEF StartSend, RelyingCalls
<1>3. CASE StartDecision(h)
  BY <1>1, <1>3 DEF StartDecision, RelyingCalls
<1>4. CASE StartRemove(h)
  BY <1>1, <1>4 DEF StartRemove, RelyingCalls
<1>5. QED
  BY <1>2, <1>3, <1>4

LEMMA SendReadsKeepAlone ==
  ASSUME IInv, NEW h \in Handlers, AloneWith(h),
         FindSender(h) \/ FindReceiver(h) \/ FindExisting(h) \/ FindReverse(h)
  PROVE  StillTrue(task[h])' /\ FollowsBut(task[h])'
<1>1. UNCHANGED <<request, follows>> /\ task[h].at \notin HalfwayCalls
  BY DEF FindSender, FindReceiver, FindExisting, FindReverse, Reads, tables, HalfwayCalls
<1>2. ASSUME NEW r, Answer(h, r) PROVE StillTrue(task[h])'
  BY <1>2, AnswerRelies
<1>3. ASSUME NEW l, Goto(h, l), l \notin RelyingCalls PROVE StillTrue(task[h])'
  <2>1. task'[h].at = l
    BY <1>3, GotoRelies
  <2>2. QED
    BY <1>3, <2>1, RelyOnNothing
<1>4. ASSUME NEW id, task' = [task EXCEPT ![h].at = "findToAccept", ![h].req = id]
      PROVE  StillTrue(task[h])'
  <2>1. task'[h].at = "findToAccept"
    BY <1>4 DEF IInv, TasksOK, Task
  <2>2. QED
    BY <2>1, RelyOnNothing DEF RelyingCalls
<1>5. StillTrue(task[h])'
  BY <1>2, <1>3, <1>4
     DEF FindSender, FindReceiver, FindExisting, FindReverse, RelyingCalls
<1>6. QED
  BY <1>1, <1>5, ReadKeepsAlone

LEMMA DecisionReadsKeepAlone ==
  ASSUME IInv, NEW h \in Handlers, AloneWith(h),
         FindToAccept(h) \/ FindToReject(h) \/ FindToCancel(h) \/ FindFriendship(h)
  PROVE  StillTrue(task[h])' /\ FollowsBut(task[h])'
<1>1. UNCHANGED <<request, follows>> /\ task[h].at \notin HalfwayCalls
  BY DEF FindToAccept, FindToReject, FindToCancel, FindFriendship, Reads, tables, HalfwayCalls
<1> SUFFICES StillTrue(task[h])'
  BY <1>1, ReadKeepsAlone
<1>2. ASSUME NEW r, Answer(h, r) PROVE StillTrue(task[h])'
  BY <1>2, AnswerRelies
<1>3. CASE FindToAccept(h)
  <2>1. CASE /\ Live(task[h].req) /\ request[task[h].req].status # "ACCEPTED"
             /\ Goto(h, "markAccepted")
    <3>1. task'[h].at = "markAccepted" /\ task'[h].req = task[h].req
      BY <2>1, GotoRelies
    <3>2. QED
      BY <1>1, <2>1, <3>1 DEF StillTrue, Live
  <2>2. QED
    BY <1>2, <1>3, <2>1 DEF FindToAccept
<1>4. CASE FindToReject(h)
  <2>1. CASE /\ Live(task[h].req) /\ request[task[h].req].status # "REJECTED"
             /\ Goto(h, "markRejected")
    <3>1. task'[h].at = "markRejected" /\ task'[h].req = task[h].req
      BY <2>1, GotoRelies
    <3>2. QED
      BY <1>1, <2>1, <3>1 DEF StillTrue, Live
  <2>2. QED
    BY <1>2, <1>4, <2>1 DEF FindToReject
<1>5. CASE FindToCancel(h)
  <2>1. CASE /\ Live(task[h].req)
             /\ request[task[h].req].status \notin {"CANCELED", "ACCEPTED"}
             /\ Goto(h, "markCanceled")
    <3>1. task'[h].at = "markCanceled" /\ task'[h].req = task[h].req
      BY <2>1, GotoRelies
    <3>2. QED
      BY <1>1, <2>1, <3>1 DEF StillTrue, Live
  <2>2. QED
    BY <1>2, <1>5, <2>1 DEF FindToCancel
<1>6. CASE FindFriendship(h)
  <2>1. ASSUME NEW id \in findAcceptedFriendshipBetweenUsers(task[h].actor, task[h].peer),
               task' = [task EXCEPT ![h].at = "deleteRow", ![h].req = id]
        PROVE  StillTrue(task[h])'
    <3>1. /\ task'[h].at = "deleteRow" /\ task'[h].req = id
          /\ task'[h].actor = task[h].actor /\ task'[h].peer = task[h].peer
      BY <2>1 DEF IInv, TasksOK, Task
    <3>2. /\ request[id].status = "ACCEPTED"
          /\ {request[id].sender, request[id].receiver} = {task[h].actor, task[h].peer}
      BY <2>1 DEF findAcceptedFriendshipBetweenUsers, findByUsers, RowsOf
    <3>3. QED
      BY <1>1, <3>1, <3>2 DEF StillTrue
  <2>2. QED
    BY <1>2, <1>6, <2>1 DEF FindFriendship
<1>7. QED
  BY <1>3, <1>4, <1>5, <1>6

LEMMA CreateKeepsAlone ==
  ASSUME IInv, NEW h \in Handlers, AloneWith(h), Create(h)
  PROVE  StillTrue(task[h])' /\ FollowsBut(task[h])'
<1>1. StillTrue(task[h])'
  BY AnswerRelies DEF Create
<1>2. UNCHANGED follows /\ task[h].at \notin HalfwayCalls
  BY DEF Create, HalfwayCalls
<1>3. RowsStay
  BY DEF Create, RowsStay, Live, Statuses, IInv, TablesOK
<1>4. QED
  BY <1>1, <1>2, <1>3, FollowsAlone DEF AloneWith

\* Overwriting the status of a live row leaves it live.
LEMMA MarkedStays ==
  ASSUME IInv, NEW id \in RequestIds, NEW st \in Statuses,
         request' = [request EXCEPT ![id].status = st]
  PROVE  RowsStay /\ Live(id)' /\ request'[id].status = st
<1>1. request \in [RequestIds -> Row]
  BY DEF IInv, TablesOK
<1>2. request'[id] = [request[id] EXCEPT !.status = st]
      /\ \A k \in RequestIds \ {id} : request'[k] = request[k]
  BY <1>1
<1>3. /\ request'[id].status = st
      /\ request'[id].sender = request[id].sender
      /\ request'[id].receiver = request[id].receiver
  BY <1>1, <1>2 DEF Row
<1>4. QED
  BY <1>2, <1>3 DEF RowsStay, Live

LEMMA MarksKeepAlone ==
  ASSUME IInv, NEW h \in Handlers, AloneWith(h),
         MarkAccepted(h) \/ MarkRejected(h) \/ MarkCanceled(h)
  PROVE  StillTrue(task[h])' /\ FollowsBut(task[h])'
<1>1. /\ task[h] \in Task /\ task[h].req \in RequestIds /\ Live(task[h].req)
      /\ task[h].at \notin HalfwayCalls /\ task \in [Handlers -> Task]
  BY DEF AloneWith, StillTrue, MarkAccepted, MarkRejected, MarkCanceled, Mark, IInv,
         TasksOK, Handlers_OK, HandlerOK, UsesRow, HalfwayCalls
<1>2. PICK st \in Statuses, id \in RequestIds : id = task[h].req /\ UpdateStatus(id, st)
  BY <1>1 DEF MarkAccepted, MarkRejected, MarkCanceled, Mark, Statuses
<1>3. RowsStay /\ Live(id)' /\ UNCHANGED follows
  BY <1>1, <1>2, MarkedStays DEF UpdateStatus
<1>4. FollowsBut(task[h])'
  BY <1>1, <1>3, FollowsAlone DEF AloneWith
<1>5. CASE MarkAccepted(h)
  <2>1. task' = [task EXCEPT ![h] = [task[h] EXCEPT !.at = "followForward"]]
    BY <1>1, <1>5 DEF MarkAccepted, Mark
  <2>2. task'[h].at = "followForward" /\ task'[h].req = id
    BY <1>1, <1>2, <2>1 DEF Task
  <2>3. StillTrue(task[h])'
    BY <1>3, <2>2 DEF StillTrue, Live
  <2>4. QED
    BY <1>4, <2>3
<1>6. CASE MarkRejected(h) \/ MarkCanceled(h)
  <2>1. Answer(h, "ok")
    BY <1>1, <1>6 DEF MarkRejected, MarkCanceled, Mark, Answer
  <2>2. QED
    BY <1>4, <2>1, AnswerRelies
<1>7. QED
  BY <1>5, <1>6

\* The two follows of an accepted request.
LEMMA FollowsKeepAlone ==
  ASSUME IInv, NEW h \in Handlers, AloneWith(h), FollowForward(h) \/ FollowBack(h)
  PROVE  StillTrue(task[h])' /\ FollowsBut(task[h])'
<1> DEFINE id == task[h].req
<1>1. /\ id \in RequestIds /\ Live(id) /\ UNCHANGED request
      /\ request[id].sender \in Users /\ request[id].receiver \in Users
  BY DEF AloneWith, StillTrue, FollowForward, FollowBack, IInv, TablesOK, Handlers_OK,
         HandlerOK, UsesRow
<1>2. PICK s \in Users, r \in Users : s = request[id].sender /\ r = request[id].receiver
  BY <1>1
<1>3. HaveRow(s, r) /\ HaveRow(r, s)
  BY <1>1, <1>2 DEF HaveRow, RowsOf
<1>4. \A a, b \in Users : HaveRow(a, b)' <=> HaveRow(a, b)
  BY <1>1 DEF HaveRow, RowsOf, Live
<1>5. FollowsBut(task[h])
  BY DEF AloneWith
<1>6. CASE FollowForward(h)
  <2>1. follows' = follows \cup {<<s, r>>} /\ task[h].at = "followForward"
        /\ task'[h].at = "followBack" /\ task'[h].req = id
    BY <1>2, <1>6, GotoRelies DEF FollowForward
  <2>2. StillTrue(task[h])'
    BY <1>1, <1>2, <2>1 DEF StillTrue, Live
  <2>3. ASSUME NEW a \in Users, NEW b \in Users, <<a, b>> \in follows'
        PROVE  (<<b, a>> \in follows' \/ Halfway(task[h], a, b)') /\ HaveRow(a, b)'
    <3>1. CASE <<a, b>> \in follows
      BY <1>4, <1>5, <2>1, <3>1 DEF FollowsBut, Halfway, Unfriending
    <3>2. CASE a = s /\ b = r
      BY <1>1, <1>2, <1>3, <1>4, <2>1, <3>2 DEF Halfway
    <3>3. QED
      BY <2>1, <2>3, <3>1, <3>2
  <2>4. QED
    BY <2>2, <2>3 DEF FollowsBut
<1>7. CASE FollowBack(h)
  <2>1. follows' = follows \cup {<<r, s>>} /\ task[h].at = "followBack"
        /\ task'[h].at = "idle" /\ StillTrue(task[h])' /\ <<s, r>> \in follows
    BY <1>2, <1>7, AnswerRelies DEF FollowBack, AloneWith, StillTrue
  <2>2. ASSUME NEW a \in Users, NEW b \in Users, <<a, b>> \in follows'
        PROVE  <<b, a>> \in follows' /\ HaveRow(a, b)'
    <3>1. CASE <<a, b>> \in follows
      BY <1>2, <1>4, <1>5, <2>1, <3>1 DEF FollowsBut, Halfway, Unfriending
    <3>2. CASE a = r /\ b = s
      BY <1>3, <1>4, <2>1, <3>2
    <3>3. QED
      BY <2>1, <2>2, <3>1, <3>2
  <2>3. QED
    BY <2>1, <2>2 DEF FollowsBut
<1>8. QED
  BY <1>6, <1>7

\* Deleting the row of two friends takes away no other pair's row.
LEMMA DeleteRowKeepsAlone ==
  ASSUME IInv, NEW h \in Handlers, AloneWith(h), DeleteRow(h)
  PROVE  StillTrue(task[h])' /\ FollowsBut(task[h])'
<1> DEFINE id == task[h].req
<1>1. /\ id \in RequestIds /\ Live(id) /\ task[h].at = "deleteRow"
      /\ {request[id].sender, request[id].receiver} = {task[h].actor, task[h].peer}
      /\ UNCHANGED follows
  BY DEF AloneWith, StillTrue, DeleteRow, IInv, Handlers_OK, HandlerOK, UsesRow, Live,
         Statuses
<1>2. /\ request' = [request EXCEPT ![id].status = "DELETED"]
      /\ task'[h].at = "unfollowMine"
      /\ task'[h].actor = task[h].actor /\ task'[h].peer = task[h].peer
  BY <1>1, GotoRelies DEF DeleteRow
<1>3. StillTrue(task[h])'
  BY <1>2 DEF StillTrue
<1>4. \A k \in RequestIds \ {id} : request'[k] = request[k]
  BY <1>2 DEF IInv, TablesOK
<1>5. ASSUME NEW a \in Users, NEW b \in Users, HaveRow(a, b),
             {a, b} # {task[h].actor, task[h].peer}
      PROVE  HaveRow(a, b)'
  <2>1. PICK k \in RequestIds :
          Live(k) /\ {request[k].sender, request[k].receiver} = {a, b}
          /\ k \in RowsOf(a, b) \cup RowsOf(b, a)
    BY <1>5 DEF HaveRow, RowsOf
  <2>2. k # id
    BY <1>1, <1>5, <2>1
  <2>3. QED
    BY <1>4, <2>1, <2>2 DEF HaveRow, RowsOf, Live
<1>6. ASSUME NEW a \in Users, NEW b \in Users, <<a, b>> \in follows'
      PROVE  <<b, a>> \in follows' /\ (HaveRow(a, b)' \/ Unfriending(task[h], a, b)')
  <2>1. <<b, a>> \in follows /\ HaveRow(a, b)
    BY <1>1, <1>6 DEF AloneWith, FollowsBut, Halfway, Unfriending
  <2>2. QED
    BY <1>1, <1>2, <1>5, <2>1 DEF Unfriending
<1>7. QED
  BY <1>3, <1>6 DEF FollowsBut

LEMMA UnfollowsKeepAlone ==
  ASSUME IInv, NEW h \in Handlers, AloneWith(h), UnfollowMine(h) \/ UnfollowTheirs(h)
  PROVE  StillTrue(task[h])' /\ FollowsBut(task[h])'
<1> DEFINE u == task[h].actor
           v == task[h].peer
<1>1. FollowsBut(task[h]) /\ UNCHANGED request
  BY DEF AloneWith, UnfollowMine, UnfollowTheirs
<1>2. \A a, b \in Users : HaveRow(a, b)' <=> HaveRow(a, b)
  BY <1>1 DEF HaveRow, RowsOf, Live
<1>3. CASE UnfollowMine(h)
  <2>1. /\ follows' = follows \ {<<u, v>>} /\ task[h].at = "unfollowMine"
        /\ task'[h].at = "unfollowTheirs" /\ task'[h].actor = u /\ task'[h].peer = v
    BY <1>3, GotoRelies DEF UnfollowMine
  <2>2. StillTrue(task[h])'
    BY <2>1 DEF StillTrue
  <2>3. ASSUME NEW a \in Users, NEW b \in Users, <<a, b>> \in follows'
        PROVE  /\ <<b, a>> \in follows' \/ Halfway(task[h], a, b)'
               /\ HaveRow(a, b)' \/ Unfriending(task[h], a, b)'
    <3>1. <<b, a>> \in follows /\ (HaveRow(a, b) \/ {u, v} = {a, b})
      BY <1>1, <2>1, <2>3 DEF FollowsBut, Halfway, Unfriending
    <3>2. QED
      BY <1>2, <2>1, <3>1 DEF Halfway, Unfriending
  <2>4. QED
    BY <2>2, <2>3 DEF FollowsBut
<1>4. CASE UnfollowTheirs(h)
  <2>1. /\ follows' = follows \ {<<v, u>>} /\ task[h].at = "unfollowTheirs"
        /\ <<u, v>> \notin follows
        /\ task'[h].at = "idle" /\ StillTrue(task[h])'
    BY <1>4, AnswerRelies DEF UnfollowTheirs, AloneWith, StillTrue
  <2>2. ASSUME NEW a \in Users, NEW b \in Users, <<a, b>> \in follows'
        PROVE  <<b, a>> \in follows' /\ HaveRow(a, b)'
    <3>1. /\ <<a, b>> # <<v, u>> /\ <<a, b>> # <<u, v>>
          /\ <<a, b>> \in follows
      BY <2>1, <2>2
    <3>2. ~ Halfway(task[h], a, b) /\ ~ Unfriending(task[h], a, b)
      BY <2>1, <3>1 DEF Halfway, Unfriending
    <3>3. <<b, a>> \in follows /\ HaveRow(a, b)
      BY <1>1, <3>1, <3>2 DEF FollowsBut
    <3>4. QED
      BY <1>2, <2>1, <3>1, <3>3
  <2>3. QED
    BY <2>1, <2>2 DEF FollowsBut
<1>5. QED
  BY <1>3, <1>4

\* A step changes the task of its own handler only.
LEMMA StepTakesOne ==
  ASSUME IInv, NEW h \in Handlers, Step(h), NEW k \in Handlers \ {h}
  PROVE  task'[k] = task[k]
<1>1. task \in [Handlers -> Task]
  BY DEF IInv, TasksOK
<1>2. \E t : task' = [task EXCEPT ![h] = t]
  <2>1. ASSUME NEW r, Answer(h, r) PROVE \E t : task' = [task EXCEPT ![h] = t]
    BY <2>1 DEF Answer
  <2>2. ASSUME NEW l, Goto(h, l) PROVE \E t : task' = [task EXCEPT ![h] = t]
    BY <2>2 DEF Goto
  <2>3. CASE StartSend(h) \/ StartDecision(h) \/ StartRemove(h)
    BY <2>3 DEF StartSend, StartDecision, StartRemove, Start
  <2>4. CASE FindReverse(h) \/ FindFriendship(h)
    BY <2>1, <2>2, <2>4 DEF FindReverse, FindFriendship
  <2>5. CASE MarkAccepted(h) \/ MarkRejected(h) \/ MarkCanceled(h)
    BY <2>1, <2>5 DEF MarkAccepted, MarkRejected, MarkCanceled, Mark
  <2>6. CASE FindSender(h) \/ FindReceiver(h) \/ FindExisting(h) \/ Create(h)
    BY <2>1, <2>2, <2>6 DEF FindSender, FindReceiver, FindExisting, Create
  <2>7. CASE FindToAccept(h) \/ FindToReject(h) \/ FindToCancel(h)
    BY <2>1, <2>2, <2>7 DEF FindToAccept, FindToReject, FindToCancel
  <2>8. CASE FollowForward(h) \/ FollowBack(h) \/ DeleteRow(h) \/ UnfollowMine(h)
             \/ UnfollowTheirs(h)
    BY <2>1, <2>2, <2>8 DEF FollowForward, FollowBack, DeleteRow, UnfollowMine, UnfollowTheirs
  <2>9. QED
    BY <2>3, <2>4, <2>5, <2>6, <2>7, <2>8 DEF Step
<1>3. QED
  BY <1>1, <1>2

\* An idle handler does not take a step without becoming busy.
LEMMA IdleStarts ==
  ASSUME IInv, NEW h \in Handlers, task[h].at = "idle", Step(h) PROVE task'[h] # task[h]
<1>1. StartSend(h) \/ StartDecision(h) \/ StartRemove(h)
  BY DEF Step, FindSender, FindReceiver, FindExisting, FindReverse, Create, FindToAccept,
         MarkAccepted, FollowForward, FollowBack, FindToReject, MarkRejected, FindToCancel,
         MarkCanceled, Mark, FindFriendship, DeleteRow, UnfollowMine, UnfollowTheirs, Reads
<1>2. ASSUME NEW op, NEW call \in Calls, NEW u, NEW v, NEW id, Start(h, op, call, u, v, id)
      PROVE  task'[h] # task[h]
  BY <1>2 DEF Start, IInv, TasksOK, Calls
<1>3. QED
  BY <1>1, <1>2 DEF StartSend, StartDecision, StartRemove, Calls

LEMMA StepKeepsAlone ==
  ASSUME IInv, NEW h \in Handlers, AloneWith(h), Step(h) PROVE AloneWith(h)'
<1>1. StillTrue(task[h])' /\ FollowsBut(task[h])'
  BY StartsKeepAlone, SendReadsKeepAlone, DecisionReadsKeepAlone, CreateKeepsAlone,
     MarksKeepAlone, FollowsKeepAlone, DeleteRowKeepsAlone, UnfollowsKeepAlone DEF Step
<1>2. ASSUME NEW k \in Handlers \ {h} PROVE task'[k] = task[k]
  BY StepTakesOne
<1>3. QED
  BY <1>1, <1>2 DEF AloneWith, OthersIdle

LEMMA MCNextAloneInv ==
  ASSUME IInv, AloneInv, [MCNext]_<<vars, instance>> PROVE AloneInv'
<1> SUFFICES ASSUME NEW h \in Handlers, serving' = {h} PROVE AloneWith(h)'
  BY DEF AloneInv
<1>1. serving = {h} /\ Alone /\ AloneWith(h)
  BY DEF AloneInv, Alone, MCNext, instance
<1>2. CASE UNCHANGED <<request, follows, task>>
  BY <1>1, <1>2 DEF AloneWith, OthersIdle, StillTrue, FollowsBut, HaveRow, RowsOf, Live,
                    Halfway, Unfriending
<1>3. ASSUME NEW k \in Handlers, Step(k), Serves PROVE AloneWith(h)'
  <2>1. CASE k = h
    BY <1>1, <1>3, <2>1, StepKeepsAlone
  <2>2. CASE k # h
    BY <1>1, <1>3, <2>2, IdleStarts DEF Serves, AloneWith, OthersIdle
  <2>3. QED
    BY <2>1, <2>2
<1>4. QED
  BY <1>1, <1>2, <1>3 DEF MCNext, Next, writeStatus, vars

LEMMA MCSpecIsFaulty == MCSpec => FaultySpec
<1>1. MCInit => Init
  BY DEF MCInit
<1>2. [MCNext]_<<vars, instance>> => [FaultyNext]_vars
  BY DEF MCNext, FaultyNext
<1>3. QED
  BY <1>1, <1>2, PTL DEF MCSpec, FaultySpec

LEMMA MCInitAloneInv == MCInit => AloneInv
<1> SUFFICES ASSUME MCInit, NEW h \in Handlers, serving = {h} PROVE AloneWith(h)
  BY DEF AloneInv
<1>1. \A k \in Handlers : task[k].at = "idle"
  BY DEF MCInit, Init, Idle
<1>2. follows = {}
  BY DEF MCInit, Init
<1>3. QED
  BY <1>1, <1>2 DEF AloneWith, OthersIdle, StillTrue, FollowsBut

LEMMA MCSpecAloneInv == MCSpec => []AloneInv
<1>1. IInv /\ AloneInv /\ [MCNext]_<<vars, instance>> => AloneInv'
  BY MCNextAloneInv
<1>2. QED
  BY <1>1, MCInitAloneInv, MCSpecIsFaulty, FaultySpecIInv, PTL DEF MCSpec

\* friend-request.service.ts:97-116, 180-190: served one request at a time and
\* with no call failing, whenever the handler is done, following is mutual and
\* backed by a live row, for any number of users and rows.
THEOREM AloneMutual == MCSpec => []AloneFollowsMutual
<1>1. AloneInv => AloneFollowsMutual
  BY DEF AloneInv, AloneWith, FollowsBut, Halfway, Unfriending, HaveRow, AloneFollowsMutual,
         Alone, FollowsMutualAtRest, AtRest
<1>2. QED
  BY <1>1, MCSpecAloneInv, PTL

\* The moves of one handler are those its guards intend.
LEMMA AloneStepSequential ==
  ASSUME IInv, LifecycleInv, NEW h \in Handlers, AloneWith(h), Step(h)
  PROVE  [Lifecycle!SequentialNext]_request
<1> SUFFICES ASSUME ~ UNCHANGED request PROVE Lifecycle!SequentialNext
  OBVIOUS
<1>1. \/ Create(h) \/ MarkAccepted(h) \/ MarkRejected(h) \/ MarkCanceled(h) \/ DeleteRow(h)
  BY DEF Step, StartSend, StartDecision, StartRemove, Start, FindSender, FindReceiver,
         FindExisting, FindReverse, FindToAccept, FindToReject, FindToCancel,
         FindFriendship, Reads, tables, FollowForward, FollowBack, UnfollowMine,
         UnfollowTheirs
<1>2. HandlerOK(task[h], request, consents) /\ StillTrue(task[h])
  BY DEF IInv, Handlers_OK, AloneWith
<1>3. ASSUME NEW id \in RequestIds, NEW st \in {"ACCEPTED", "REJECTED", "CANCELED", "DELETED"},
             <<request[id].status, st>> \in Lifecycle!SequentialMoves,
             request' = [request EXCEPT ![id].status = st]
      PROVE  Lifecycle!SequentialNext
  BY <1>3 DEF Lifecycle!SequentialNext, Lifecycle!Move, Lifecycle!Decided
<1>4. CASE Create(h)
  <2>1. task[h].actor \in Users /\ task[h].peer \in Users /\ task[h].actor # task[h].peer
    BY <1>2, <1>4 DEF Create, HandlerOK, SendCalls
  <2>2. QED
    BY <1>4, <2>1, IssueImplements DEF Create, Lifecycle!SequentialNext
<1>5. CASE MarkAccepted(h) \/ MarkRejected(h) \/ MarkCanceled(h)
  <2>1. task[h].req \in RequestIds /\ Live(task[h].req)
    BY <1>2, <1>5 DEF MarkAccepted, MarkRejected, MarkCanceled, Mark, HandlerOK, UsesRow,
                      StillTrue
  <2>2. PICK st \in {"ACCEPTED", "REJECTED", "CANCELED"} :
          /\ request' = [request EXCEPT ![task[h].req].status = st]
          /\ <<request[task[h].req].status, st>> \in Lifecycle!SequentialMoves
    <3>1. CASE MarkAccepted(h)
      <4>1. request[task[h].req].status \in {"PENDING", "REJECTED", "CANCELED"}
        BY <1>2, <2>1, <3>1 DEF MarkAccepted, Mark, StillTrue, Live, Statuses
      <4>2. QED
        BY <2>1, <3>1, <4>1 DEF MarkAccepted, Mark, UpdateStatus, Lifecycle!SequentialMoves,
                                Lifecycle!Decided
    <3>2. CASE MarkRejected(h)
      <4>1. request[task[h].req].status \in {"PENDING", "ACCEPTED", "CANCELED"}
        BY <1>2, <2>1, <3>2 DEF MarkRejected, Mark, StillTrue, Live, Statuses
      <4>2. QED
        BY <2>1, <3>2, <4>1 DEF MarkRejected, Mark, UpdateStatus, Lifecycle!SequentialMoves,
                                Lifecycle!Decided
    <3>3. CASE MarkCanceled(h)
      <4>1. request[task[h].req].status \in {"PENDING", "REJECTED"}
        BY <1>2, <2>1, <3>3 DEF MarkCanceled, Mark, StillTrue, Live, Statuses
      <4>2. QED
        BY <2>1, <3>3, <4>1 DEF MarkCanceled, Mark, UpdateStatus, Lifecycle!SequentialMoves,
                                Lifecycle!Decided
    <3>4. QED
      BY <1>5, <3>1, <3>2, <3>3
  <2>3. QED
    BY <1>3, <2>1, <2>2
<1>6. CASE DeleteRow(h)
  <2>1. task[h].req \in RequestIds /\ request[task[h].req].status = "ACCEPTED"
    BY <1>2, <1>6 DEF DeleteRow, HandlerOK, UsesRow, StillTrue
  <2>2. request' = [request EXCEPT ![task[h].req].status = "DELETED"]
    BY <1>6, <2>1 DEF DeleteRow, Live, Statuses
  <2>3. <<request[task[h].req].status, "DELETED">> \in Lifecycle!SequentialMoves
    BY <2>1 DEF Lifecycle!SequentialMoves
  <2>4. QED
    BY <1>3, <2>1, <2>2, <2>3
<1>7. QED
  BY <1>1, <1>4, <1>5, <1>6

LEMMA MCStepSequential ==
  ASSUME IInv, LifecycleInv, AloneInv, [MCNext]_<<vars, instance>>
  PROVE  [Alone => Lifecycle!SequentialNext]_request
<1> SUFFICES ASSUME NEW h \in Handlers, serving = {h}, ~ UNCHANGED request
             PROVE  Lifecycle!SequentialNext
  BY DEF Alone
<1>1. AloneWith(h) /\ Alone
  BY DEF AloneInv, Alone
<1>2. PICK k \in Handlers : Step(k) /\ Serves
  BY <1>1 DEF MCNext, Next, writeStatus, vars
<1>3. k = h
  BY <1>1, <1>2, IdleStarts DEF Serves, AloneWith, OthersIdle
<1>4. QED
  BY <1>1, <1>2, <1>3, AloneStepSequential

\* friend-request.service.ts:94, 158, 181: served one request at a time, the
\* table goes through the strict life cycle, without the three racy moves: no
\* accepted request is canceled and only an accepted one is deleted.
THEOREM AloneLifecycleImplemented == MCSpec => AloneImplementsLifecycle
<1>1. MCInit => Lifecycle!Init
  BY InitLifecycle DEF MCInit
<1>2. IInv /\ LifecycleInv /\ AloneInv /\ [MCNext]_<<vars, instance>>
        => [Alone => Lifecycle!SequentialNext]_request
  BY MCStepSequential
<1>3. QED
  BY <1>1, <1>2, MCSpecIsFaulty, FaultySpecIInv, FaultySpecLifecycleInv, MCSpecAloneInv, PTL
     DEF MCSpec, AloneImplementsLifecycle
=============================================================================
