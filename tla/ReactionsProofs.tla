--------------------------- MODULE ReactionsProofs ---------------------------
(***************************************************************************)
(* Proofs about Reactions for any number of users, messages, emojis and    *)
(* overlapping handlers, with failing calls, a failing cache, expiries and *)
(* deletions (FaultySpec).                                                 *)
(***************************************************************************)
EXTENDS Reactions, TLAPS

\* What a handler with task t may rely on at its next call: what it acts on
\* exists, and it has a list to cache.
HandlerOK(t) ==
  /\ t.at # "idle" => t.actor \in Users /\ t.m \in MessageIds
  /\ t.at \in {"insert", "deleteMany"} => t.emoji \in Emojis
  /\ t.at = "cacheFill" => t.got # NoList

Handlers_OK == \A h \in Handlers : HandlerOK(task[h])

TablesOK ==
  /\ live \subseteq MessageIds
  /\ rows \subseteq MessageIds \X Users \X Emojis
  /\ list \in [MessageIds -> {NoList} \cup Lists]

TasksOK == task \in [Handlers -> Task]

\* The inductive invariant.
IInv == TablesOK /\ TasksOK /\ Handlers_OK

\* Handler h moves to a task that is in order after the step.
Advance(h) == \E t \in Task : task' = [task EXCEPT ![h] = t] /\ HandlerOK(t)

-----------------------------------------------------------------------------

LEMMA IInvGives == IInv => TypeOK
  BY DEF IInv, TablesOK, TasksOK, Handlers_OK, HandlerOK, TypeOK

\* A message's reactions are pairs of a user and an emoji.
LEMMA ReactionsType ==
  ASSUME NEW m
  PROVE  ReactionsOf(m) \in Lists
  BY DEF ReactionsOf, Lists

LEMMA AdvanceKeepsHandlers ==
  ASSUME TasksOK, Handlers_OK, NEW h \in Handlers, Advance(h)
  PROVE  TasksOK' /\ Handlers_OK'
  BY DEF Advance, TasksOK, Handlers_OK, HandlerOK

LEMMA AnswerAdvances ==
  ASSUME NEW h \in Handlers, NEW reply \in {NoList} \cup Lists, Answer(h, reply)
  PROVE  Advance(h)
<1>1. Idle(reply) \in Task /\ HandlerOK(Idle(reply))
  BY DEF Idle, Task, HandlerOK
<1>2. QED
  BY <1>1 DEF Answer, Advance

\* The handler goes on to the call l, its task otherwise unchanged.
LEMMA GotoAdvances ==
  ASSUME TasksOK, Handlers_OK, NEW h \in Handlers, task[h].at # "idle",
         NEW l \in {"invalidate", "findById"}, Goto(h, l)
  PROVE  Advance(h)
<1>1. PICK t \in Task : t = [task[h] EXCEPT !.at = l]
  BY DEF TasksOK, Task
<1>2. HandlerOK(t)
  BY <1>1 DEF TasksOK, Handlers_OK, HandlerOK, Task
<1>3. QED
  BY <1>1, <1>2 DEF Goto, Advance

LEMMA ReadOnly ==
  ASSUME IInv, NEW h \in Handlers, UNCHANGED <<live, rows, list>>, Advance(h)
  PROVE  IInv'
<1>1. TablesOK'
  BY DEF IInv, TablesOK
<1>2. QED
  BY <1>1, AdvanceKeepsHandlers DEF IInv

LEMMA InitIInv == Init => IInv
<1> SUFFICES ASSUME Init PROVE IInv
  OBVIOUS
<1>1. TablesOK
  BY DEF Init, TablesOK
<1>2. TasksOK /\ Handlers_OK
  BY DEF Init, TasksOK, Handlers_OK, HandlerOK, Idle, Task
<1>3. QED
  BY <1>1, <1>2 DEF IInv

LEMMA StartKeepsIInv ==
  ASSUME IInv, NEW h \in Handlers, Start(h)
  PROVE  IInv'
<1>1. PICK op \in {"add", "remove", "list", "own"},
           await \in {"insert", "deleteMany", "cacheGet", "findById"},
           u \in Users, m \in MessageIds, e \in Emojis \cup {NoEmoji} :
         /\ task' = [task EXCEPT ![h] = [Idle(NoList) EXCEPT
              !.op = op, !.at = await, !.actor = u, !.m = m, !.emoji = e]]
         /\ await \in {"insert", "deleteMany"} => e \in Emojis
  BY DEF Start
<1>2. PICK t \in Task :
        t = [Idle(NoList) EXCEPT !.op = op, !.at = await, !.actor = u, !.m = m, !.emoji = e]
  BY DEF Idle, Task
<1>3. HandlerOK(t)
  BY <1>1, <1>2 DEF HandlerOK, Idle
<1>4. Advance(h)
  BY <1>1, <1>2, <1>3 DEF Advance
<1>5. QED
  BY <1>4, ReadOnly DEF Start

LEMMA ReadsKeepIInv ==
  ASSUME IInv, NEW h \in Handlers,
         Invalidate(h) \/ CacheGet(h) \/ FindById(h) \/ CacheFails(h) \/ Abort(h)
  PROVE  IInv'
<1> DEFINE t == task[h]
<1>1. /\ TasksOK /\ Handlers_OK /\ TablesOK /\ t \in Task /\ HandlerOK(t) /\ t.at # "idle"
      /\ t.m \in MessageIds /\ UNCHANGED <<live, rows, list>>
  BY DEF IInv, TasksOK, Handlers_OK, HandlerOK, Invalidate, CacheGet, FindById, CacheFails, Abort
<1>2. ASSUME NEW reply \in {NoList} \cup Lists, Answer(h, reply) PROVE IInv'
  BY <1>1, <1>2, AnswerAdvances, ReadOnly
<1>3. CASE Goto(h, "findById")
  BY <1>1, <1>3, GotoAdvances, ReadOnly
<1>4. ASSUME t.m \in live,
             task' = [task EXCEPT ![h].at = "cacheFill", ![h].got = ReactionsOf(t.m)],
             ReactionsOf(t.m) # NoList
      PROVE  IInv'
  <2>1. ReactionsOf(t.m) \in Lists
    BY ReactionsType
  <2>2. PICK s \in Task : s = [t EXCEPT !.at = "cacheFill", !.got = ReactionsOf(t.m)]
    BY <1>1, <2>1 DEF Task
  <2>3. HandlerOK(s)
    BY <1>1, <1>4, <2>1, <2>2 DEF HandlerOK, Task
  <2>4. task' = [task EXCEPT ![h] = s]
    BY <1>4, <2>2
  <2>5. QED
    BY <1>1, <2>3, <2>4, ReadOnly DEF Advance
<1>5. CASE Invalidate(h) \/ CacheGet(h) \/ CacheFails(h) \/ Abort(h)
  <2>1. list[t.m] \in {NoList} \cup Lists /\ t.got \in {NoList} \cup Lists
    BY <1>1 DEF TablesOK, Task
  <2>2. QED
    BY <1>2, <1>3, <1>5, <2>1 DEF Invalidate, CacheGet, CacheFails, Abort
<1>6. CASE FindById(h)
  <2>1. ReactionsOf(t.m) # NoList
    BY ReactionsType, ReactionAssumption DEF Lists
  <2>2. QED
    BY <1>2, <1>4, <1>6, <2>1 DEF FindById
<1>7. QED
  BY <1>5, <1>6

LEMMA WritesKeepIInv ==
  ASSUME IInv, NEW h \in Handlers, Insert(h) \/ DeleteMany(h)
  PROVE  IInv'
<1> DEFINE t == task[h]
<1>1. /\ TasksOK /\ Handlers_OK /\ TablesOK /\ t \in Task /\ t.at # "idle"
      /\ t.m \in MessageIds /\ t.actor \in Users /\ t.emoji \in Emojis
      /\ UNCHANGED <<live, list>>
  BY DEF IInv, TasksOK, Handlers_OK, HandlerOK, Insert, DeleteMany
<1>2. rows' \subseteq MessageIds \X Users \X Emojis
  BY <1>1 DEF TablesOK, Insert, DeleteMany
<1>3. Advance(h)
  BY <1>1, AnswerAdvances, GotoAdvances DEF Insert, DeleteMany
<1>4. QED
  BY <1>1, <1>2, <1>3, AdvanceKeepsHandlers DEF IInv, TablesOK

LEMMA CacheFillKeepsIInv ==
  ASSUME IInv, NEW h \in Handlers, CacheFill(h)
  PROVE  IInv'
<1>1. /\ TasksOK /\ Handlers_OK /\ TablesOK /\ task[h] \in Task /\ task[h].m \in MessageIds
      /\ task[h].got \in Lists \cup {NoList} /\ UNCHANGED <<live, rows>>
  BY DEF IInv, TasksOK, Handlers_OK, HandlerOK, CacheFill, Task
<1>2. Advance(h)
  BY <1>1, AnswerAdvances DEF CacheFill
<1>3. TablesOK'
  BY <1>1 DEF TablesOK, CacheFill
<1>4. QED
  BY <1>1, <1>2, <1>3, AdvanceKeepsHandlers DEF IInv

LEMMA FaultyNextIInv == IInv /\ [FaultyNext]_vars => IInv'
<1> SUFFICES ASSUME IInv, [FaultyNext]_vars PROVE IInv'
  OBVIOUS
<1>1. ASSUME UNCHANGED <<rows, task>>, live' \subseteq MessageIds,
             list' \in [MessageIds -> {NoList} \cup Lists],
             \A m \in MessageIds : list'[m] \in {list[m], NoList}
      PROVE  IInv'
  BY <1>1 DEF IInv, TablesOK, TasksOK, Handlers_OK, HandlerOK
<1>2. CASE UNCHANGED vars
  BY <1>1, <1>2 DEF vars, IInv, TablesOK
<1>3. ASSUME NEW m \in MessageIds, deleteMessage(m) \/ Expire(m) PROVE IInv'
  BY <1>1, <1>3 DEF deleteMessage, Expire, IInv, TablesOK
<1>4. ASSUME NEW h \in Handlers, Step(h) \/ Abort(h) \/ CacheFails(h) PROVE IInv'
  BY <1>4, StartKeepsIInv, ReadsKeepIInv, WritesKeepIInv, CacheFillKeepsIInv DEF Step
<1>5. QED
  BY <1>2, <1>3, <1>4 DEF FaultyNext, Next

-----------------------------------------------------------------------------

THEOREM Invariant == FaultySpec => []IInv
  BY InitIInv, FaultyNextIInv, PTL DEF FaultySpec

\* Type correctness of the reactions; a fill has a list to write.
THEOREM TypeCorrect == FaultySpec => []TypeOK
  BY IInvGives, Invariant, PTL

\* A row is written by Insert, removed by DeleteMany, and both are of one handler.
LEMMA RowsChange ==
  ASSUME [FaultyNext]_vars, rows' # rows
  PROVE  \E h \in Handlers : Insert(h) \/ DeleteMany(h)
<1>1. ~UNCHANGED vars /\ \A m \in MessageIds : ~deleteMessage(m) /\ ~Expire(m)
  BY DEF vars, deleteMessage, Expire
<1>2. \A h \in Handlers : ~Start(h) /\ ~Invalidate(h) /\ ~CacheGet(h) /\ ~FindById(h)
                          /\ ~CacheFill(h) /\ ~Abort(h) /\ ~CacheFails(h)
  BY DEF Start, Invalidate, CacheGet, FindById, CacheFill, Abort, CacheFails
<1>3. QED
  BY <1>1, <1>2 DEF FaultyNext, Next, Step

\* message.service.ts:159: a reaction comes and goes only by a request of its own
\* user about its own message.
THEOREM OwnReactions == FaultySpec => OwnReactionsOnly
<1> DEFINE ByOwner(m, u, e) ==
             (<<m, u, e>> \in rows) # (<<m, u, e>> \in rows')
               => \E h \in Handlers : task'[h] # task[h] /\ task[h].actor = u /\ task[h].m = m
<1>1. ASSUME IInv, [FaultyNext]_vars, NEW m \in MessageIds, NEW u \in Users, NEW e \in Emojis
      PROVE  ByOwner(m, u, e)
  <2>1. SUFFICES ASSUME (<<m, u, e>> \in rows) # (<<m, u, e>> \in rows')
                 PROVE  \E h \in Handlers :
                          task'[h] # task[h] /\ task[h].actor = u /\ task[h].m = m
    OBVIOUS
  <2>2. PICK h \in Handlers : Insert(h) \/ DeleteMany(h)
    BY <1>1, <2>1, RowsChange
  <2>3. TasksOK /\ task[h] \in Task /\ task[h].at \in {"insert", "deleteMany"}
    BY <1>1, <2>2 DEF IInv, TasksOK, Insert, DeleteMany
  <2>4. <<m, u, e>> = <<task[h].m, task[h].actor, task[h].emoji>>
    BY <2>1, <2>2 DEF Insert, DeleteMany
  <2>5. Answer(h, NoList) \/ Goto(h, "invalidate")
    BY <2>2 DEF Insert, DeleteMany
  <2>6. task'[h].at # task[h].at
    BY <2>3, <2>5 DEF Answer, Goto, Idle, TasksOK, Task
  <2>7. QED
    BY <2>4, <2>6
<1>2. IInv /\ [FaultyNext]_vars
        => [\A m \in MessageIds, u \in Users, e \in Emojis : ByOwner(m, u, e)]_vars
  BY <1>1
<1>3. QED
  BY <1>2, InitIInv, FaultyNextIInv, PTL DEF FaultySpec, OwnReactionsOnly
=============================================================================
