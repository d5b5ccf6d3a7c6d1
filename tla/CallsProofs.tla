----------------------------- MODULE CallsProofs -----------------------------
(***************************************************************************)
(* Proofs about Calls for any number of users, calls and overlapping       *)
(* handlers, participant lists of any length and both configurations of    *)
(* Jitsi, with failing calls and crashes (FaultySpec).                     *)
(***************************************************************************)
EXTENDS Calls, TLAPS

Issued(c) == call[c].status # "NONE"

\* What a handler with task t may rely on at its next call: the call it has
\* read exists; the turns of the invite loop that are over have written their
\* rows; who is about to get a row may have one; who is about to set a status
\* may set it.
HandlerOK(t) ==
  /\ t.at # "idle" => t.actor \in Users
  /\ t.at \notin {"idle", "create"} => t.call \in CallIds
  /\ t.at \notin {"idle", "create", "findCall", "setLeft"} => Issued(t.call)
  /\ t.at = "create" => t.next = 1
  /\ t.at = "invite" =>
       /\ Members(t.list) \subseteq invited[t.call]
       /\ \A i \in DOMAIN t.list : i < t.next => row[t.call][t.list[i]] # "absent"
  /\ t.at = "cacheActive" => \A u \in Members(t.list) : row[t.call][u] # "absent"
  /\ t.at = "addParticipant" => t.actor \in Participants(t.call) \cup {call[t.call].initiator}
  /\ t.at = "setOngoing" => t.actor \in joined[t.call]
  /\ t.at = "setEnded" => t.actor = call[t.call].initiator
  /\ t.at = "setRejected" => t.actor \in Participants(t.call)

Handlers_OK == \A h \in Handlers : HandlerOK(task[h])

TasksOK == task \in [Handlers -> Task]

TablesOK ==
  /\ call \in [CallIds -> [status : {"NONE", "RINGING", "ONGOING", "ENDED", "REJECTED"},
                           initiator : Users \cup {NoUser}, endedAt : BOOLEAN]]
  /\ row \in [CallIds -> [Users -> {"absent", "present", "left"}]]
  /\ active \subseteq CallIds
  /\ invited \in [CallIds -> SUBSET Users]
  /\ joined \in [CallIds -> SUBSET Users]
  /\ \A c \in CallIds :
       /\ ~Issued(c) => Participants(c) = {} /\ c \notin active
       /\ Issued(c) => call[c].initiator \in Users
       /\ call[c].status = "ENDED" => call[c].endedAt

Events == [event : {"ERROR", "RINGING", "CALL_ANSWER", "CALL_REJECT",
                    "PARTICIPANT_JOIN", "PARTICIPANT_LEAVE"},
           call : CallIds \cup {NoCall}, to : Users]

OutboxOK == outbox \subseteq Events /\ RingFollowsInvite

\* The inductive invariant.
IInv ==
  /\ TablesOK /\ TasksOK /\ OutboxOK /\ Handlers_OK
  /\ OnlyInvitedTakePart /\ OngoingHasBeenJoined

\* No step takes back a call, its initiator or its list, a participant row or
\* the join that made one.
CallsStable ==
  /\ \A c \in CallIds :
       /\ Issued(c) => /\ Issued(c)'
                       /\ call'[c].initiator = call[c].initiator
                       /\ invited'[c] = invited[c]
       /\ joined[c] \subseteq joined'[c]
       /\ \A u \in Users : row[c][u] # "absent" => row'[c][u] # "absent"

\* Handler h moves to a task that is in order after the step.
Advance(h) == \E t \in Task : task' = [task EXCEPT ![h] = t] /\ HandlerOK(t)'

-----------------------------------------------------------------------------

LEMMA IInvTypeOK == IInv => TypeOK
  BY DEF IInv, TablesOK, TasksOK, OutboxOK, Events, Handlers_OK, HandlerOK, TypeOK, Issued

LEMMA ListFacts ==
  ASSUME NEW list \in Lists
  PROVE  /\ list \in Seq(Users) /\ Len(list) \in 0..MaxInvites
         /\ DOMAIN list = 1..Len(list) /\ Members(list) \subseteq Users
<1>1. PICK n \in 0..MaxInvites : list \in [1..n -> Users]
  BY DEF Lists
<1>2. n \in Nat /\ list \in Seq(Users) /\ Len(list) = n
  BY <1>1, CallAssumption
<1>3. QED
  BY <1>1, <1>2 DEF Members

LEMMA HandlerStable ==
  ASSUME NEW t \in Task, HandlerOK(t), CallsStable
  PROVE  HandlerOK(t)'
<1>1. t.list \in Seq(Users) /\ DOMAIN t.list = 1..Len(t.list) /\ Members(t.list) \subseteq Users
  BY ListFacts DEF Task
<1>2. \A i \in DOMAIN t.list : t.list[i] \in Users
  BY <1>1
<1>3. t.call \in CallIds => Participants(t.call) \subseteq Participants(t.call)'
  BY DEF Participants, CallsStable
<1>4. t.at \notin {"idle", "create", "findCall", "setLeft"} =>
        t.call \in CallIds /\ Issued(t.call) /\ Issued(t.call)'
        /\ call'[t.call].initiator = call[t.call].initiator
        /\ invited'[t.call] = invited[t.call]
  BY DEF HandlerOK, CallsStable
<1>5. t.at = "invite" =>
        \A i \in DOMAIN t.list : i < t.next => row'[t.call][t.list[i]] # "absent"
  BY <1>2, <1>4 DEF HandlerOK, CallsStable
<1>6. t.at = "cacheActive" => \A u \in Members(t.list) : row'[t.call][u] # "absent"
  BY <1>1, <1>4 DEF HandlerOK, CallsStable
<1>7. t.at = "setOngoing" => t.actor \in joined'[t.call]
  BY <1>4 DEF HandlerOK, CallsStable
<1>8. QED
  BY <1>3, <1>4, <1>5, <1>6, <1>7 DEF HandlerOK

LEMMA AdvanceKeepsHandlers ==
  ASSUME TasksOK, Handlers_OK, CallsStable, NEW h \in Handlers, Advance(h)
  PROVE  TasksOK' /\ Handlers_OK'
<1>1. PICK t \in Task : task' = [task EXCEPT ![h] = t] /\ HandlerOK(t)'
  BY DEF Advance
<1>2. TasksOK'
  BY <1>1 DEF TasksOK
<1>3. ASSUME NEW k \in Handlers PROVE HandlerOK(task[k])'
  <2>1. CASE k = h
    <3>1. task'[k] = t
      BY <1>1, <2>1 DEF TasksOK
    <3>2. QED
      BY <1>1, <3>1 DEF HandlerOK
  <2>2. CASE k # h
    <3>1. task'[k] = task[k] /\ task[k] \in Task /\ HandlerOK(task[k])
      BY <1>1, <2>2 DEF TasksOK, Handlers_OK
    <3>2. PICK s \in Task : s = task[k]
      BY <3>1
    <3>3. HandlerOK(s)'
      BY <3>1, <3>2, HandlerStable
    <3>4. QED
      BY <3>1, <3>2, <3>3 DEF HandlerOK
  <2>3. QED
    BY <2>1, <2>2
<1>4. QED
  BY <1>2, <1>3 DEF Handlers_OK

Replies == {"none", "ok", "NotFound", "Forbidden", "Error"}

LEMMA IdleOK ==
  ASSUME NEW r \in Replies
  PROVE  Idle(r) \in Task /\ HandlerOK(Idle(r)) /\ HandlerOK(Idle(r))'
<1>1. <<>> \in Lists /\ 1 \in 1..MaxInvites + 1
  <2>1. <<>> \in [1..0 -> Users] /\ 0 \in 0..MaxInvites
    BY CallAssumption
  <2>2. QED
    BY <2>1, CallAssumption DEF Lists
<1>2. QED
  BY <1>1 DEF Idle, Task, HandlerOK, Replies

LEMMA EventsOK ==
  ASSUME NEW name \in {"ERROR", "RINGING", "CALL_ANSWER", "CALL_REJECT",
                       "PARTICIPANT_JOIN", "PARTICIPANT_LEAVE"},
         NEW c \in CallIds \cup {NoCall}, NEW S \in SUBSET Users
  PROVE  /\ Event(name, c, S) \subseteq Events
         /\ \A m \in Event(name, c, S) : m.event = name /\ m.call = c /\ m.to \in S
  BY DEF Event, Events

LEMMA DoneAdvances ==
  ASSUME NEW h \in Handlers, NEW E \in SUBSET Events, Done(h, E),
         \A m \in E : m.event = "RINGING" => row'[m.call][m.to] # "absent"
  PROVE  Advance(h) /\ OutboxOK'
<1>1. Advance(h)
  BY IdleOK DEF Done, Advance, Replies
<1>2. outbox' \subseteq E
  BY DEF Done
<1>3. QED
  BY <1>1, <1>2 DEF OutboxOK, RingFollowsInvite

LEMMA ThrowAdvances ==
  ASSUME IInv, NEW h \in Handlers, NEW r \in Replies, task[h].at # "idle", Throw(h, r)
  PROVE  Advance(h) /\ OutboxOK'
<1>1. Advance(h)
  BY IdleOK DEF Throw, Advance
<1>2. task[h].call \in CallIds \cup {NoCall} /\ task[h].actor \in Users
  BY DEF IInv, TasksOK, Task, Handlers_OK, HandlerOK
<1>3. \A m \in outbox' : m \in Events /\ m.event = "ERROR"
  BY <1>2, EventsOK DEF Throw
<1>4. QED
  BY <1>1, <1>3 DEF OutboxOK, RingFollowsInvite

\* The handler moves to task t and nothing is emitted.
LEMMA QuietAdvances ==
  ASSUME NEW h \in Handlers, NEW t \in Task, HandlerOK(t)', task' = [task EXCEPT ![h] = t],
         outbox' = {}
  PROVE  Advance(h) /\ OutboxOK'
  BY DEF Advance, OutboxOK, RingFollowsInvite

\* The handler goes on to await l, its task otherwise unchanged.
LEMMA GotoAdvances ==
  ASSUME TasksOK, CallsStable, NEW h \in Handlers, NEW l \in Awaits, Goto(h, l),
         HandlerOK([task[h] EXCEPT !.at = l])
  PROVE  Advance(h) /\ OutboxOK'
<1>1. PICK t \in Task : t = [task[h] EXCEPT !.at = l]
  BY DEF TasksOK, Task
<1>2. HandlerOK(t)'
  BY <1>1, HandlerStable
<1>3. task' = [task EXCEPT ![h] = t] /\ outbox' = {}
  BY <1>1 DEF Goto
<1>4. QED
  BY <1>2, <1>3, QuietAdvances

LEMMA SameTables ==
  ASSUME IInv, UNCHANGED <<tables, history>>
  PROVE  CallsStable /\ TablesOK' /\ OnlyInvitedTakePart' /\ OngoingHasBeenJoined'
  BY DEF IInv, tables, history, TablesOK, CallsStable, Issued, Participants,
         OnlyInvitedTakePart, OngoingHasBeenJoined

LEMMA ReadOnly ==
  ASSUME IInv, NEW h \in Handlers, Advance(h), OutboxOK', UNCHANGED <<tables, history>>
  PROVE  IInv'
  BY SameTables, AdvanceKeepsHandlers DEF IInv

\* A step that writes a status or a cache entry of calls that exist.
LEMMA StatusWritten ==
  ASSUME IInv, UNCHANGED <<row, history>>, NEW S \in SUBSET CallIds, active' = S,
         \A c \in S : Issued(c)',
         call' \in [CallIds -> [status : {"NONE", "RINGING", "ONGOING", "ENDED", "REJECTED"},
                                initiator : Users \cup {NoUser}, endedAt : BOOLEAN]],
         \A c \in CallIds :
           \/ call'[c] = call[c]
           \/ /\ Issued(c) /\ Issued(c)'
              /\ call'[c].initiator = call[c].initiator
              /\ call'[c].status = "ENDED" => call'[c].endedAt
              /\ call'[c].status = "ONGOING" => joined[c] # {}
  PROVE  CallsStable /\ TablesOK' /\ OnlyInvitedTakePart' /\ OngoingHasBeenJoined'
<1>1. \A c \in CallIds : (Issued(c) <=> Issued(c)') /\ call'[c].initiator = call[c].initiator
  BY DEF Issued
<1>2. TablesOK'
  BY <1>1 DEF IInv, history, TablesOK, Issued, Participants
<1>3. CallsStable
  BY <1>1 DEF CallsStable, history
<1>4. OnlyInvitedTakePart'
  BY <1>1 DEF OnlyInvitedTakePart, Participants, IInv, history
<1>5. OngoingHasBeenJoined'
  BY DEF OngoingHasBeenJoined, IInv, history
<1>6. QED
  BY <1>2, <1>3, <1>4, <1>5

\* A step that writes one row of the participants of a call that exists: of
\* somebody on its list, of its initiator, or of somebody who has a row.
LEMMA RowWritten ==
  ASSUME IInv, NEW c \in CallIds, NEW u \in Users, NEW r \in {"present", "left"},
         row' = [row EXCEPT ![c][u] = r], UNCHANGED <<call, active, invited>>,
         Issued(c), u \in invited[c] \cup {call[c].initiator} \cup Participants(c),
         joined' \in [CallIds -> SUBSET Users],
         \A d \in CallIds : joined[d] \subseteq joined'[d]
  PROVE  CallsStable /\ TablesOK' /\ OnlyInvitedTakePart' /\ OngoingHasBeenJoined'
<1>1. /\ row' \in [CallIds -> [Users -> {"absent", "present", "left"}]]
      /\ row'[c][u] = r
      /\ \A d \in CallIds, v \in Users : d # c \/ v # u => row'[d][v] = row[d][v]
  BY DEF IInv, TablesOK
<1>2. Participants(c)' = Participants(c) \cup {u}
  BY <1>1 DEF Participants
<1>3. \A d \in CallIds \ {c} : Participants(d)' = Participants(d)
  BY <1>1 DEF Participants
<1>4. \A d \in CallIds : Issued(d)' <=> Issued(d)
  BY DEF Issued
<1>5. CallsStable
  BY <1>1, <1>4 DEF CallsStable
<1>6. TablesOK'
  BY <1>1, <1>3, <1>4 DEF IInv, TablesOK
<1>7. OnlyInvitedTakePart'
  BY <1>2, <1>3 DEF OnlyInvitedTakePart, IInv
<1>8. OngoingHasBeenJoined'
  BY DEF OngoingHasBeenJoined, IInv
<1>9. QED
  BY <1>5, <1>6, <1>7, <1>8

-----------------------------------------------------------------------------

LEMMA InitIInv == Init => IInv
<1> SUFFICES ASSUME Init PROVE IInv
  OBVIOUS
<1>1. TablesOK /\ OnlyInvitedTakePart /\ OngoingHasBeenJoined
  BY DEF Init, TablesOK, Issued, Participants, OnlyInvitedTakePart, OngoingHasBeenJoined
<1>2. TasksOK /\ Handlers_OK
  BY IdleOK DEF Init, TasksOK, Handlers_OK, Replies
<1>3. OutboxOK
  BY DEF Init, OutboxOK, RingFollowsInvite
<1>4. QED
  BY <1>1, <1>2, <1>3 DEF IInv

LEMMA StartsKeepIInv ==
  ASSUME IInv, NEW h \in Handlers, StartInitiate(h) \/ StartOnCall(h)
  PROVE  IInv'
<1>1. ASSUME NEW op \in Ops, NEW await \in Awaits, NEW list \in Lists,
             NEW c \in CallIds \cup {NoCall}, Start(h, op, await, list, c),
             \/ await = "create"
             \/ await \in {"findCall", "setLeft"} /\ c \in CallIds
      PROVE  IInv'
  <2>1. PICK u \in Users, via \in {"http", "ws"} :
          task' = [task EXCEPT ![h] = [Idle("none") EXCEPT
            !.op = op, !.at = await, !.via = via, !.actor = u, !.call = c, !.list = list]]
    BY <1>1 DEF Start
  <2>2. Idle("none") \in Task /\ Idle("none").next = 1
    BY IdleOK DEF Idle, Replies
  <2>3. PICK t \in Task : t = [Idle("none") EXCEPT
          !.op = op, !.at = await, !.via = via, !.actor = u, !.call = c, !.list = list]
    BY <2>2 DEF Task
  <2>3a. t.at = await /\ t.actor = u /\ t.call = c /\ t.next = 1
    BY <2>2, <2>3 DEF Task
  <2>3b. HandlerOK(t)
    BY <1>1, <2>3a DEF HandlerOK
  <2>4. UNCHANGED <<tables, history>> /\ outbox' = {} /\ CallsStable
    BY <1>1, SameTables DEF Start
  <2>5. Advance(h) /\ OutboxOK'
    BY <2>1, <2>3, <2>3b, <2>4, HandlerStable, QuietAdvances
  <2>6. QED
    BY <2>4, <2>5, ReadOnly
<1>2. <<>> \in Lists
  BY IdleOK DEF Idle, Task, Replies
<1>3. CASE StartInitiate(h)
  BY <1>1, <1>3 DEF StartInitiate, Ops, Awaits
<1>4. CASE StartOnCall(h)
  BY <1>1, <1>2, <1>4 DEF StartOnCall, Ops, Awaits
<1>5. QED
  BY <1>3, <1>4

LEMMA CreateCallKeepsIInv ==
  ASSUME IInv, NEW h \in Handlers, CreateCall(h)
  PROVE  IInv'
<1> DEFINE l == task[h].list
<1>1. PICK c \in CallIds :
        /\ call[c].status = "NONE"
        /\ call' = [call EXCEPT ![c] =
             [status |-> "RINGING", initiator |-> task[h].actor, endedAt |-> FALSE]]
        /\ invited' = [invited EXCEPT ![c] = Members(l)]
        /\ task' = [task EXCEPT ![h].call = c, ![h].at = "invite"]
  BY DEF CreateCall
<1>2. /\ task[h] \in Task /\ HandlerOK(task[h]) /\ task[h].at = "create"
      /\ outbox' = {} /\ UNCHANGED <<row, active, joined>> /\ TasksOK /\ TablesOK
  BY DEF CreateCall, IInv, TasksOK, Handlers_OK
<1>3. task[h].actor \in Users /\ l \in Lists /\ task[h].next = 1 /\ Members(l) \subseteq Users
  BY <1>2, ListFacts DEF HandlerOK, Task
<1>4. /\ call' \in [CallIds -> [status : {"NONE", "RINGING", "ONGOING", "ENDED", "REJECTED"},
                                initiator : Users \cup {NoUser}, endedAt : BOOLEAN]]
      /\ invited' \in [CallIds -> SUBSET Users] /\ invited'[c] = Members(l)
      /\ call'[c].status = "RINGING" /\ call'[c].initiator = task[h].actor
      /\ \A d \in CallIds \ {c} : call'[d] = call[d] /\ invited'[d] = invited[d]
  BY <1>1, <1>2, <1>3 DEF TablesOK
<1>5. ~Issued(c) /\ Issued(c)' /\ Participants(c) = {} /\ c \notin active
  BY <1>1, <1>2, <1>4 DEF Issued, TablesOK
<1>6. \A d \in CallIds : Participants(d)' = Participants(d)
  BY <1>2 DEF Participants
<1>7. \A d \in CallIds \ {c} : Issued(d)' <=> Issued(d)
  BY <1>4 DEF Issued
<1>8. TablesOK'
  BY <1>2, <1>3, <1>4, <1>5, <1>6, <1>7 DEF TablesOK
<1>9. CallsStable
  BY <1>2, <1>4, <1>5, <1>7 DEF CallsStable
<1>10. OnlyInvitedTakePart' /\ OngoingHasBeenJoined'
  BY <1>2, <1>4, <1>5, <1>6 DEF OnlyInvitedTakePart, OngoingHasBeenJoined, IInv
<1>11. PICK t \in Task : t = [task[h] EXCEPT !.call = c, !.at = "invite"]
  BY <1>2 DEF Task, Awaits
<1>12. HandlerOK(t)'
  <2>1. /\ t.at = "invite" /\ t.call = c /\ t.list = l /\ t.next = 1 /\ t.actor \in Users
    BY <1>2, <1>3, <1>11 DEF Task
  <2>2. \A i \in DOMAIN t.list : ~(i < t.next)
    BY <1>3, <2>1, ListFacts
  <2>3. QED
    BY <1>4, <1>5, <2>1, <2>2 DEF HandlerOK
<1>13. task' = [task EXCEPT ![h] = t]
  BY <1>1, <1>2, <1>11 DEF TasksOK, Task
<1>14. Advance(h) /\ OutboxOK'
  BY <1>2, <1>12, <1>13, QuietAdvances
<1>15. QED
  BY <1>8, <1>9, <1>10, <1>14, AdvanceKeepsHandlers DEF IInv

LEMMA InviteKeepsIInv ==
  ASSUME IInv, NEW h \in Handlers, Invite(h)
  PROVE  IInv'
<1>1. PICK t \in Task, c \in CallIds :
        /\ t = task[h] /\ c = t.call /\ HandlerOK(t) /\ t.at = "invite" /\ TasksOK
        /\ Issued(c) /\ Members(t.list) \subseteq invited[c]
        /\ UNCHANGED <<call, active, history>>
  BY DEF Invite, IInv, TasksOK, Handlers_OK, HandlerOK
<1>2. /\ t.list \in Seq(Users) /\ Len(t.list) \in 0..MaxInvites
      /\ DOMAIN t.list = 1..Len(t.list) /\ t.next \in 1..MaxInvites + 1
  BY <1>1, ListFacts DEF Task
<1>3. CASE t.next > Len(t.list)
  <2>1. Goto(h, "cacheActive") /\ UNCHANGED row
    BY <1>1, <1>2, <1>3 DEF Invite
  <2>2. \A v \in Members(t.list) : row[c][v] # "absent"
    BY <1>1, <1>2, <1>3 DEF HandlerOK, Members
  <2>3. HandlerOK([t EXCEPT !.at = "cacheActive"])
    BY <1>1, <2>2 DEF HandlerOK, Task
  <2>4. UNCHANGED <<tables, history>>
    BY <1>1, <2>1 DEF tables
  <2>5. QED
    BY <1>1, <2>1, <2>3, <2>4, SameTables, GotoAdvances, ReadOnly DEF Awaits
<1>4. CASE t.next <= Len(t.list) /\ row[c][t.list[t.next]] = "absent"
  <2>0. PICK u \in Users : u = t.list[t.next] /\ u \in Members(t.list)
    BY <1>2, <1>4 DEF Members
  <2>1. /\ row' = [row EXCEPT ![c][u] = "present"] /\ outbox' = {}
        /\ task' = [task EXCEPT ![h].next = t.next + 1]
    BY <1>1, <1>2, <1>4, <2>0 DEF Invite
  <2>3. u \in invited[c] /\ UNCHANGED <<call, active, invited, joined>>
    BY <1>1, <2>0 DEF history
  <2>4. CallsStable /\ TablesOK' /\ OnlyInvitedTakePart' /\ OngoingHasBeenJoined'
    <3>1. joined' \in [CallIds -> SUBSET Users] /\ \A d \in CallIds : joined[d] \subseteq joined'[d]
      BY <2>3 DEF IInv, TablesOK
    <3>2. u \in invited[c] \cup {call[c].initiator} \cup Participants(c)
      BY <2>3
    <3>3. QED
      BY <1>1, <2>1, <2>3, <3>1, <3>2, RowWritten
  <2>4a. PICK n \in 1..MaxInvites + 1 : n = t.next + 1
    BY <1>2, <1>4, CallAssumption
  <2>5. PICK s \in Task : s = [t EXCEPT !.next = n]
    BY DEF Task
  <2>6. HandlerOK(s)'
    <3>1. /\ s.at = "invite" /\ s.call = c /\ s.list = t.list /\ s.actor = t.actor
          /\ s.next = t.next + 1
      BY <1>1, <2>4a, <2>5 DEF Task
    <3>2. row'[c][u] = "present"
      BY <1>1, <2>1 DEF IInv, TablesOK
    <3>3. \A i \in DOMAIN t.list : i < t.next + 1 => row'[c][t.list[i]] # "absent"
      <4> SUFFICES ASSUME NEW i \in DOMAIN t.list, i < t.next + 1
                   PROVE  row'[c][t.list[i]] # "absent"
        OBVIOUS
      <4>1. i = t.next \/ i < t.next
        BY <1>2
      <4>2. t.list[i] \in Users
        BY <1>2
      <4>3. CASE i < t.next
        BY <1>1, <2>4, <4>2, <4>3 DEF HandlerOK, CallsStable
      <4>4. QED
        BY <2>0, <3>2, <4>1, <4>3
    <3>4. Issued(c)' /\ Members(t.list) \subseteq invited'[c]
      BY <1>1, <2>3 DEF Issued
    <3>5. QED
      BY <1>1, <3>1, <3>3, <3>4 DEF HandlerOK
  <2>7. task' = [task EXCEPT ![h] = s]
    BY <1>1, <2>1, <2>4a, <2>5 DEF TasksOK, Task
  <2>8. Advance(h) /\ OutboxOK'
    BY <2>1, <2>6, <2>7, QuietAdvances
  <2>9. QED
    BY <1>1, <2>4, <2>8, AdvanceKeepsHandlers DEF IInv
<1>5. CASE t.next <= Len(t.list) /\ row[c][t.list[t.next]] # "absent"
  <2>1. Throw(h, "Error") /\ UNCHANGED row
    BY <1>1, <1>2, <1>5 DEF Invite
  <2>2. UNCHANGED <<tables, history>>
    BY <1>1, <2>1 DEF tables
  <2>3. QED
    BY <1>1, <2>1, <2>2, ThrowAdvances, ReadOnly DEF Replies
<1>6. QED
  BY <1>2, <1>3, <1>4, <1>5

LEMMA RingsAndRepliesKeepIInv ==
  ASSUME IInv, NEW h \in Handlers, CacheActive(h) \/ Uncache(h) \/ CacheFails(h)
  PROVE  IInv'
<1>1. PICK t \in Task, c \in CallIds :
        /\ t = task[h] /\ c = t.call /\ HandlerOK(t) /\ Issued(c) /\ t.at # "idle"
        /\ t.at \in {"cacheActive", "uncache"}
  BY DEF IInv, TasksOK, Handlers_OK, HandlerOK, CacheActive, Uncache, CacheFails
<1>2. /\ UNCHANGED <<call, row, history>>
      /\ active' \in {active, active \cup {c}, active \ {c}}
  BY <1>1 DEF CacheActive, Uncache, CacheFails, tables
<1>3. CallsStable /\ TablesOK' /\ OnlyInvitedTakePart' /\ OngoingHasBeenJoined'
  <2>1. \A d \in CallIds : Issued(d)' <=> Issued(d)
    BY <1>2 DEF Issued
  <2>2. active' \in SUBSET CallIds /\ \A d \in active' : Issued(d)'
    BY <1>1, <1>2, <2>1 DEF IInv, TablesOK
  <2>3. QED
    BY <1>2, <2>2, StatusWritten DEF IInv, TablesOK
<1>4. Advance(h) /\ OutboxOK'
  <2>1. CASE Throw(h, "Error")
    BY <1>1, <2>1, ThrowAdvances DEF Replies
  <2>2. CASE Done(h, {})
    BY <2>2, DoneAdvances
  <2>3. CASE t.at = "cacheActive" /\ Done(h, Event("RINGING", c, Members(t.list)))
    <3>1. Members(t.list) \subseteq Users /\ \A u \in Members(t.list) : row'[c][u] # "absent"
      BY <1>1, <1>2, <2>3, ListFacts DEF HandlerOK, Task
    <3>2. PICK E \in SUBSET Events : E = Event("RINGING", c, Members(t.list))
      BY <3>1, EventsOK
    <3>3. \A m \in E : row'[m.call][m.to] # "absent"
      BY <3>1, <3>2, EventsOK
    <3>4. QED
      BY <2>3, <3>2, <3>3, DoneAdvances
  <2>4. QED
    BY <1>1, <2>1, <2>2, <2>3 DEF CacheActive, Uncache, CacheFails
<1>5. QED
  BY <1>3, <1>4, AdvanceKeepsHandlers DEF IInv

LEMMA FindCallKeepsIInv ==
  ASSUME IInv, NEW h \in Handlers, FindCall(h)
  PROVE  IInv'
<1>1. PICK t \in Task, c \in CallIds :
        t = task[h] /\ c = t.call /\ HandlerOK(t) /\ t.at = "findCall"
  BY DEF IInv, TasksOK, Handlers_OK, HandlerOK, FindCall
<1>2. UNCHANGED <<tables, history>> /\ CallsStable /\ task[h].at # "idle"
  BY <1>1, SameTables DEF FindCall
<1>3. ASSUME NEW r \in Replies, Throw(h, r)
      PROVE  IInv'
  BY <1>2, <1>3, ThrowAdvances, ReadOnly
<1>4. ASSUME Issued(c), NEW l \in Awaits, NEW ringing \in BOOLEAN,
             task' = [task EXCEPT ![h].at = l, ![h].ringing = ringing,
                                  ![h].audience = Participants(c)],
             outbox' = {},
             \/ l = "addParticipant" /\ t.actor \in Participants(c) \cup {call[c].initiator}
             \/ l = "setEnded" /\ t.actor = call[c].initiator
             \/ l = "setRejected" /\ t.actor \in Participants(c)
      PROVE  IInv'
  <2>1. Participants(c) \in SUBSET Users
    BY DEF Participants
  <2>2. PICK s \in Task :
          s = [t EXCEPT !.at = l, !.ringing = ringing, !.audience = Participants(c)]
    BY <2>1 DEF Task
  <2>3. s.at = l /\ s.actor = t.actor /\ s.call = c
    BY <1>1, <2>2 DEF Task
  <2>4. HandlerOK(s)
    BY <1>1, <1>4, <2>3 DEF HandlerOK
  <2>5. task' = [task EXCEPT ![h] = s]
    BY <1>1, <1>4, <2>2 DEF IInv, TasksOK, Task
  <2>6. Advance(h) /\ OutboxOK'
    BY <1>2, <1>4, <2>4, <2>5, HandlerStable, QuietAdvances
  <2>7. QED
    BY <1>2, <2>6, ReadOnly
<1>5. CASE ~Issued(c)
  BY <1>1, <1>3, <1>5 DEF FindCall, Decide, Issued, Replies
<1>6. CASE Issued(c)
  <2>1. PICK ringing \in BOOLEAN : ringing = (call[c].status = "RINGING")
    OBVIOUS
  <2>2. CASE t.op = "join" /\ MayJoin(h)
    <3>1. t.actor \in Participants(c) \cup {call[c].initiator}
      BY <1>1, <2>2 DEF MayJoin
    <3>2. QED
      BY <1>1, <1>4, <1>6, <2>1, <2>2, <3>1 DEF FindCall, Decide, Issued, Awaits
  <2>3. CASE t.op = "end" /\ MayEnd(h)
    <3>1. t.actor = call[c].initiator
      BY <1>1, <2>3 DEF MayEnd
    <3>2. QED
      BY <1>1, <1>4, <1>6, <2>1, <2>3, <3>1 DEF FindCall, Decide, Issued, Awaits
  <2>4. CASE t.op = "reject" /\ MayReject(h)
    <3>1. t.actor \in Participants(c)
      BY <1>1, <2>4 DEF MayReject
    <3>2. QED
      BY <1>1, <1>4, <1>6, <2>1, <2>4, <3>1 DEF FindCall, Decide, Issued, Awaits
  <2>5. CASE /\ ~(t.op = "join" /\ MayJoin(h)) /\ ~(t.op = "end" /\ MayEnd(h))
             /\ ~(t.op = "reject" /\ MayReject(h))
    BY <1>1, <1>3, <1>6, <2>5 DEF FindCall, Decide, Issued, Replies
  <2>6. QED
    BY <2>2, <2>3, <2>4, <2>5
<1>7. QED
  BY <1>5, <1>6

\* What a join emits rings nobody.
LEMMA JoinedAdvances ==
  ASSUME IInv, NEW h \in Handlers, NEW c \in CallIds, c = task[h].call, task[h].at # "idle",
         Issued(c), Joined(h)
  PROVE  Advance(h) /\ OutboxOK'
<1>1. PICK t \in Task : t = task[h] /\ t.actor \in Users
  BY DEF IInv, TasksOK, Handlers_OK, HandlerOK
<1>2. CASE JitsiConfigured
  <2>1. {call[c].initiator} \cup (t.audience \ {t.actor}) \in SUBSET Users
    BY <1>1 DEF IInv, TablesOK, Task
  <2>2. PICK S \in SUBSET Users : S = {call[c].initiator} \cup (t.audience \ {t.actor})
    BY <2>1
  <2>3. PICK A \in SUBSET Events :
          A = Event("CALL_ANSWER", c, {t.actor}) /\ \A m \in A : m.event # "RINGING"
    <3>1. {t.actor} \in SUBSET Users
      BY <1>1
    <3>2. QED
      BY <3>1, EventsOK
  <2>4. PICK J \in SUBSET Events :
          J = Event("PARTICIPANT_JOIN", c, S) /\ \A m \in J : m.event # "RINGING"
    BY EventsOK
  <2>5. A \cup J \in SUBSET Events /\ \A m \in A \cup J : m.event # "RINGING"
    BY <2>3, <2>4
  <2>6. Done(h, A \cup J)
    BY <1>1, <1>2, <2>2, <2>3, <2>4 DEF Joined
  <2>7. QED
    BY <2>5, <2>6, DoneAdvances
<1>3. CASE ~JitsiConfigured
  BY <1>3, ThrowAdvances DEF Joined, Replies
<1>4. QED
  BY <1>2, <1>3

LEMMA AddParticipantKeepsIInv ==
  ASSUME IInv, NEW h \in Handlers, AddParticipant(h)
  PROVE  IInv'
<1>1. PICK t \in Task, c \in CallIds, u \in Users :
        /\ t = task[h] /\ c = t.call /\ u = t.actor /\ HandlerOK(t)
        /\ t.at = "addParticipant" /\ Issued(c) /\ TasksOK
        /\ u \in Participants(c) \cup {call[c].initiator}
        /\ UNCHANGED <<call, active, invited>>
  BY DEF IInv, TasksOK, Handlers_OK, HandlerOK, AddParticipant
<1>2. CASE row[c][u] = "absent"
  <2>1. /\ row' = [row EXCEPT ![c][u] = "present"]
        /\ joined' = [joined EXCEPT ![c] = @ \cup {u}]
        /\ IF t.ringing THEN Goto(h, "setOngoing") ELSE Joined(h)
    BY <1>1, <1>2 DEF AddParticipant
  <2>2. /\ joined' \in [CallIds -> SUBSET Users] /\ u \in joined'[c]
        /\ \A d \in CallIds : joined[d] \subseteq joined'[d]
    BY <2>1 DEF IInv, TablesOK
  <2>3. CallsStable /\ TablesOK' /\ OnlyInvitedTakePart' /\ OngoingHasBeenJoined'
    BY <1>1, <2>1, <2>2, RowWritten
  <2>4. CASE t.ringing
    <3>1. PICK s \in Task : s = [t EXCEPT !.at = "setOngoing"]
      BY DEF Task, Awaits
    <3>2. s.at = "setOngoing" /\ s.actor = u /\ s.call = c
      BY <1>1, <3>1 DEF Task
    <3>3. Issued(c)'
      BY <1>1 DEF Issued
    <3>4. HandlerOK(s)'
      BY <2>2, <3>2, <3>3 DEF HandlerOK
    <3>5. task' = [task EXCEPT ![h] = s] /\ outbox' = {}
      BY <1>1, <2>1, <2>4, <3>1 DEF Goto
    <3>6. Advance(h) /\ OutboxOK'
      BY <3>4, <3>5, QuietAdvances
    <3>7. QED
      BY <1>1, <2>3, <3>6, AdvanceKeepsHandlers DEF IInv
  <2>5. CASE ~t.ringing
    BY <1>1, <2>1, <2>3, <2>5, JoinedAdvances, AdvanceKeepsHandlers DEF IInv
  <2>6. QED
    BY <2>4, <2>5
<1>3. CASE row[c][u] # "absent"
  <2>1. Throw(h, "Error") /\ UNCHANGED <<tables, history>>
    BY <1>1, <1>3 DEF AddParticipant, tables, history
  <2>2. QED
    BY <1>1, <2>1, ThrowAdvances, ReadOnly DEF Replies
<1>4. QED
  BY <1>2, <1>3

LEMMA StatusesKeepIInv ==
  ASSUME IInv, NEW h \in Handlers, SetOngoing(h) \/ SetEnded(h) \/ SetRejected(h)
  PROVE  IInv'
<1>1. PICK t \in Task, c \in CallIds :
        /\ t = task[h] /\ c = t.call /\ HandlerOK(t) /\ Issued(c) /\ TasksOK
        /\ t.at \in {"setOngoing", "setEnded", "setRejected"} /\ UNCHANGED <<row, active, history>>
        /\ call \in [CallIds -> [status : {"NONE", "RINGING", "ONGOING", "ENDED", "REJECTED"},
                                 initiator : Users \cup {NoUser}, endedAt : BOOLEAN]]
        /\ active \in SUBSET CallIds /\ call[c].initiator \in Users
  BY DEF IInv, TablesOK, TasksOK, Handlers_OK, HandlerOK, SetOngoing, SetEnded, SetRejected
<1>2. PICK new \in [status : {"ONGOING", "ENDED", "REJECTED"}, initiator : Users,
                    endedAt : BOOLEAN] :
        /\ call' = [call EXCEPT ![c] = new] /\ new.initiator = call[c].initiator
        /\ new.status = "ENDED" => new.endedAt
        /\ new.status = "ONGOING" => t.at = "setOngoing"
  <2>1. CASE SetOngoing(h)
    <3>1. [call[c] EXCEPT !.status = "ONGOING"] \in
            [status : {"ONGOING", "ENDED", "REJECTED"}, initiator : Users, endedAt : BOOLEAN]
      BY <1>1
    <3>2. call' = [call EXCEPT ![c] = [call[c] EXCEPT !.status = "ONGOING"]]
      BY <1>1, <2>1 DEF SetOngoing
    <3>3. QED
      BY <1>1, <2>1, <3>1, <3>2 DEF SetOngoing
  <2>2. CASE SetEnded(h)
    <3>1. [call[c] EXCEPT !.status = "ENDED", !.endedAt = TRUE] \in
            [status : {"ONGOING", "ENDED", "REJECTED"}, initiator : Users, endedAt : BOOLEAN]
      BY <1>1
    <3>2. call' = [call EXCEPT ![c] = [call[c] EXCEPT !.status = "ENDED", !.endedAt = TRUE]]
      BY <1>1, <2>2 DEF SetEnded
    <3>3. QED
      BY <1>1, <3>1, <3>2
  <2>3. CASE SetRejected(h)
    <3>1. [call[c] EXCEPT !.status = "REJECTED"] \in
            [status : {"ONGOING", "ENDED", "REJECTED"}, initiator : Users, endedAt : BOOLEAN]
      BY <1>1
    <3>2. call' = [call EXCEPT ![c] = [call[c] EXCEPT !.status = "REJECTED"]]
      BY <1>1, <2>3 DEF SetRejected
    <3>3. QED
      BY <1>1, <3>1, <3>2
  <2>4. QED
    BY <2>1, <2>2, <2>3
<1>3. \A d \in CallIds : call'[d] = IF d = c THEN new ELSE call[d]
  BY <1>1, <1>2
<1>4. \A d \in CallIds : Issued(d)' <=> Issued(d)
  BY <1>1, <1>3 DEF Issued
<1>5. CallsStable /\ TablesOK' /\ OnlyInvitedTakePart' /\ OngoingHasBeenJoined'
  <2>1. new.status = "ONGOING" => joined[c] # {}
    BY <1>1, <1>2 DEF HandlerOK
  <2>2. \A d \in active : Issued(d)'
    BY <1>4 DEF IInv, TablesOK
  <2>3. call' \in [CallIds -> [status : {"NONE", "RINGING", "ONGOING", "ENDED", "REJECTED"},
                               initiator : Users \cup {NoUser}, endedAt : BOOLEAN]]
    BY <1>1, <1>2
  <2>4. \A d \in CallIds :
           \/ call'[d] = call[d]
           \/ /\ Issued(d) /\ Issued(d)'
              /\ call'[d].initiator = call[d].initiator
              /\ call'[d].status = "ENDED" => call'[d].endedAt
              /\ call'[d].status = "ONGOING" => joined[d] # {}
    BY <1>1, <1>2, <1>3, <1>4, <2>1
  <2>5. QED
    BY <1>1, <2>2, <2>3, <2>4, StatusWritten
<1>6. Advance(h) /\ OutboxOK'
  <2>1. CASE SetOngoing(h)
    <3>1. Joined(h) /\ task[h].at # "idle" /\ c = task[h].call
      BY <1>1, <2>1 DEF SetOngoing
    <3>2. call'[c].initiator = call[c].initiator
      BY <1>2, <1>3
    <3>3. QED
      BY <1>1, <3>1, JoinedAdvances
  <2>2. CASE SetEnded(h)
    <3>1. HandlerOK([t EXCEPT !.at = "uncache"])
      BY <1>1 DEF HandlerOK, Task
    <3>2. QED
      BY <1>1, <1>5, <2>2, <3>1, GotoAdvances DEF SetEnded, Awaits
  <2>3. CASE SetRejected(h)
    <3>1. PICK E \in SUBSET Events :
            /\ E = Event("CALL_REJECT", c, {call[c].initiator})
            /\ \A m \in E : m.event # "RINGING"
      BY <1>1, EventsOK
    <3>2. QED
      BY <1>1, <2>3, <3>1, DoneAdvances DEF SetRejected
  <2>4. QED
    BY <2>1, <2>2, <2>3
<1>7. QED
  BY <1>1, <1>5, <1>6, AdvanceKeepsHandlers DEF IInv

LEMMA LeavingKeepsIInv ==
  ASSUME IInv, NEW h \in Handlers, SetLeft(h) \/ FindToNotify(h) \/ Abort(h)
  PROVE  IInv'
<1>1. PICK t \in Task : t = task[h] /\ HandlerOK(t) /\ t.at # "idle" /\ t.actor \in Users
  BY DEF IInv, TasksOK, Handlers_OK, HandlerOK, SetLeft, FindToNotify, Abort
<1>2. CASE SetLeft(h)
  <2>1. PICK c \in CallIds, u \in Users :
          c = t.call /\ u = t.actor /\ UNCHANGED <<call, active, invited, joined>>
    BY <1>1, <1>2 DEF SetLeft, HandlerOK, history
  <2>2. CASE row[c][u] = "absent"
    <3>1. Throw(h, "Error") /\ UNCHANGED <<tables, history>>
      BY <1>1, <1>2, <2>1, <2>2 DEF SetLeft, tables, history
    <3>2. QED
      BY <1>1, <3>1, ThrowAdvances, ReadOnly DEF Replies
  <2>3. CASE row[c][u] # "absent"
    <3>1. /\ row' = [row EXCEPT ![c][u] = "left"]
          /\ IF t.via = "ws" THEN Goto(h, "findToNotify") ELSE Done(h, {})
      BY <1>1, <1>2, <2>1, <2>3 DEF SetLeft
    <3>2. u \in Participants(c) /\ Issued(c)
      BY <2>3 DEF Participants, IInv, TablesOK
    <3>3. joined' \in [CallIds -> SUBSET Users] /\ \A d \in CallIds : joined[d] \subseteq joined'[d]
      BY <2>1 DEF IInv, TablesOK
    <3>4. CallsStable /\ TablesOK' /\ OnlyInvitedTakePart' /\ OngoingHasBeenJoined'
      BY <2>1, <3>1, <3>2, <3>3, RowWritten
    <3>5. HandlerOK([t EXCEPT !.at = "findToNotify"])
      BY <1>1, <2>1, <3>2 DEF HandlerOK, Task
    <3>6. Advance(h) /\ OutboxOK'
      <4>1. CASE Done(h, {})
        BY <4>1, DoneAdvances
      <4>2. CASE Goto(h, "findToNotify")
        BY <1>1, <3>4, <3>5, <4>2, GotoAdvances DEF IInv, Awaits
      <4>3. QED
        BY <3>1, <4>1, <4>2
    <3>7. QED
      BY <3>4, <3>6, AdvanceKeepsHandlers DEF IInv
  <2>4. QED
    BY <2>2, <2>3
<1>3. CASE FindToNotify(h)
  <2>1. PICK c \in CallIds : c = t.call /\ Issued(c) /\ UNCHANGED <<tables, history>>
    BY <1>1, <1>3 DEF FindToNotify, HandlerOK
  <2>2. PICK S \in SUBSET Users : S = {call[c].initiator} \cup (Participants(c) \ {t.actor})
    BY <2>1 DEF IInv, TablesOK, Participants
  <2>3. PICK E \in SUBSET Events :
          E = Event("PARTICIPANT_LEAVE", c, S) /\ \A m \in E : m.event # "RINGING"
    BY EventsOK
  <2>4. Done(h, E)
    BY <1>1, <1>3, <2>1, <2>2, <2>3 DEF FindToNotify
  <2>5. QED
    BY <2>1, <2>3, <2>4, DoneAdvances, ReadOnly
<1>4. CASE Abort(h)
  BY <1>4, ThrowAdvances, ReadOnly DEF Abort, Replies
<1>5. QED
  BY <1>2, <1>3, <1>4

LEMMA FaultyNextIInv == IInv /\ [FaultyNext]_vars => IInv'
<1> SUFFICES ASSUME IInv, [FaultyNext]_vars PROVE IInv'
  OBVIOUS
<1>1. CASE \E h \in Handlers : Step(h) \/ Abort(h) \/ CacheFails(h)
  BY <1>1, StartsKeepIInv, CreateCallKeepsIInv, InviteKeepsIInv, RingsAndRepliesKeepIInv,
     FindCallKeepsIInv, AddParticipantKeepsIInv, StatusesKeepIInv, LeavingKeepsIInv DEF Step
<1>2. CASE UNCHANGED vars
  <2>1. UNCHANGED <<tables, history>> /\ CallsStable
    BY <1>2, SameTables DEF vars, tables, history
  <2>2. TasksOK' /\ OutboxOK'
    BY <1>2 DEF vars, IInv, TasksOK, OutboxOK, RingFollowsInvite
  <2>3. Handlers_OK'
    BY <1>2 DEF vars, IInv, Handlers_OK, HandlerOK, Issued, Participants
  <2>4. QED
    BY <2>1, <2>2, <2>3, SameTables DEF IInv
<1>3. QED
  BY <1>1, <1>2 DEF FaultyNext, Next

THEOREM Invariant == FaultySpec => []IInv
  BY InitIInv, FaultyNextIInv, PTL DEF FaultySpec

\* Type correctness of calls: no row, and no entry in the cache, of a call that
\* was never created, and no handler works on one.
THEOREM TypeCorrect == FaultySpec => []TypeOK
  BY Invariant, IInvTypeOK, PTL

\* call.service.ts:98: only the people on a call's list and its initiator ever
\* get a participant row.
THEOREM OnlyInvited == FaultySpec => []OnlyInvitedTakePart
<1>1. IInv => OnlyInvitedTakePart
  BY DEF IInv
<1>2. QED
  BY <1>1, Invariant, PTL

\* call.service.ts:110: a call is ONGOING only when somebody has joined it.
THEOREM OngoingIsJoined == FaultySpec => []OngoingHasBeenJoined
<1>1. IInv => OngoingHasBeenJoined
  BY DEF IInv
<1>2. QED
  BY <1>1, Invariant, PTL

\* call.gateway.ts:35: whoever a ring reaches has a participant row.
THEOREM RingsInvited == FaultySpec => []RingFollowsInvite
<1>1. IInv => RingFollowsInvite
  BY DEF IInv, OutboxOK
<1>2. QED
  BY <1>1, Invariant, PTL

MaySet(h, c) ==
  /\ task'[h] # task[h] /\ task[h].call = c
  /\ task[h].actor \in CASE call'[c].status = "ENDED"    -> {call[c].initiator}
                         [] call'[c].status = "ONGOING"  -> joined'[c]
                         [] call'[c].status = "REJECTED" -> Participants(c)
                         [] OTHER                        -> {}

LEMMA StatusWriters ==
  ASSUME IInv, NEW h \in Handlers, SetOngoing(h) \/ SetEnded(h) \/ SetRejected(h)
  PROVE  \A c \in CallIds : call'[c].status # call[c].status => MaySet(h, c)
<1>1. PICK t \in Task, c \in CallIds :
        /\ t = task[h] /\ c = t.call /\ HandlerOK(t) /\ t.actor \in Users
        /\ t.at \in {"setOngoing", "setEnded", "setRejected"}
        /\ call \in [CallIds -> [status : {"NONE", "RINGING", "ONGOING", "ENDED", "REJECTED"},
                                 initiator : Users \cup {NoUser}, endedAt : BOOLEAN]]
        /\ TasksOK /\ UNCHANGED joined
  BY DEF IInv, TablesOK, TasksOK, Handlers_OK, HandlerOK, SetOngoing, SetEnded, SetRejected,
         history
<1>2. \A d \in CallIds \ {c} : call'[d] = call[d]
  BY <1>1 DEF SetOngoing, SetEnded, SetRejected
<1>3. task'[h] # task[h]
  <2>1. \A r \in Replies : Idle(r) # task[h]
    BY <1>1 DEF Idle
  <2>2. [task[h] EXCEPT !.at = "uncache"] # task[h] \/ t.at # "setEnded"
    BY <1>1 DEF Task
  <2>3. QED
    BY <1>1, <2>1, <2>2
       DEF SetOngoing, SetEnded, SetRejected, Joined, Done, Throw, Goto, TasksOK, Replies
<1>4. MaySet(h, c)
  <2>1. CASE SetOngoing(h)
    <3>1. call'[c].status = "ONGOING" /\ t.actor \in joined'[c]
      BY <1>1, <2>1 DEF SetOngoing, HandlerOK
    <3>2. QED
      BY <1>1, <1>3, <3>1 DEF MaySet
  <2>2. CASE SetEnded(h)
    <3>1. call'[c].status = "ENDED" /\ t.actor = call[c].initiator
      BY <1>1, <2>2 DEF SetEnded, HandlerOK
    <3>2. QED
      BY <1>1, <1>3, <3>1 DEF MaySet
  <2>3. CASE SetRejected(h)
    <3>1. call'[c].status = "REJECTED" /\ t.actor \in Participants(c)
      BY <1>1, <2>3 DEF SetRejected, HandlerOK
    <3>2. QED
      BY <1>1, <1>3, <3>1 DEF MaySet
  <2>4. QED
    BY <2>1, <2>2, <2>3
<1>5. QED
  BY <1>2, <1>4

\* call.service.ts:133: a status is set by a handler whose user may set it.
THEOREM StatusIsAuthorised == FaultySpec => StatusSetByRightUser
<1>1. ASSUME IInv, [FaultyNext]_vars, NEW c \in CallIds, call[c].status # "NONE",
             call'[c].status # call[c].status
      PROVE  \E h \in Handlers : MaySet(h, c)
  <2>1. CASE \E h \in Handlers : SetOngoing(h) \/ SetEnded(h) \/ SetRejected(h)
    BY <1>1, <2>1, StatusWriters
  <2>2. CASE \E h \in Handlers : CreateCall(h)
    BY <1>1, <2>2 DEF CreateCall, IInv, TablesOK
  <2>3. CASE /\ ~ \E h \in Handlers : SetOngoing(h) \/ SetEnded(h) \/ SetRejected(h)
             /\ ~ \E h \in Handlers : CreateCall(h)
    <3>1. UNCHANGED call
      BY <1>1, <2>3
         DEF FaultyNext, Next, Step, vars, tables, StartInitiate, StartOnCall, Start, Invite,
             CacheActive, FindCall, AddParticipant, Uncache, SetLeft, FindToNotify, Abort,
             CacheFails
    <3>2. QED
      BY <1>1, <3>1
  <2>4. QED
    BY <2>1, <2>2, <2>3
<1>2. IInv /\ [FaultyNext]_vars =>
        [\A c \in CallIds :
           call[c].status # "NONE" /\ call'[c].status # call[c].status
           => \E h \in Handlers : MaySet(h, c)]_vars
  BY <1>1
<1>3. QED
  BY <1>2, Invariant, PTL DEF FaultySpec, StatusSetByRightUser, MaySet
=============================================================================
