--------------------------- MODULE MessagesProofs ---------------------------
(***************************************************************************)
(* Proofs about Messages and their gateway for any number of users,        *)
(* messages and overlapping handlers, with failing calls, lost cache       *)
(* writes, crashes and groups deleted with their messages (FaultySpec,     *)
(* GatewaySpec), and about one request at a time without faults (the       *)
(* instance "alone" of MCSpec).                                            *)
(***************************************************************************)
EXTENDS MCMessages, TLAPS

\* A copy that was once true of message m: the sender its row names, a content the
\* row has had.
CopyOK(m, copy) ==
  /\ copy \in Copy
  /\ msg[m].state # "none"
  /\ copy.sender = msg[m].sender
  /\ copy.content \in held[m]

TablesOK ==
  /\ msg \in [MessageIds -> Row]
  /\ cache \in [MessageIds -> Copy \cup {NoCopy}]
  /\ held \in [MessageIds -> SUBSET Contents]

RowsOK ==
  \A m \in MessageIds :
    /\ msg[m].state # "none" => msg[m].sender \in Users /\ msg[m].content \in held[m]
    /\ msg[m].state = "none" => held[m] = {}

CacheOK == \A m \in MessageIds : cache[m] # NoCopy => CopyOK(m, cache[m])

TasksOK == task \in [Handlers -> Task]

\* What a handler with task t may rely on at its next call: the copy it is about
\* to cache is one of its message, and it writes only for the message's sender,
\* although the row may have changed since its check.  The content a request
\* came with is stored when the request is about to be answered.
HandlerOK(t) ==
  /\ t.at # "idle" => t.actor \in Users
  /\ t.op \in {"send", "edit"} => t.content \in Contents
  /\ t.at = "create" => t.content \in Contents /\ t.op \in {"send", "forward"}
  /\ t.at = "create" /\ t.op = "forward" => t.m \in MessageIds
  /\ t.at = "findOriginal" => t.op = "forward"
  /\ t.at \notin {"idle", "create"} => t.m \in MessageIds
  /\ t.at = "cacheFill" => CopyOK(t.m, t.copy)
  /\ t.at = "update" => t.op = "edit"
  /\ t.at \in {"update", "softDelete"} =>
       msg[t.m].state # "none" /\ msg[t.m].sender = t.actor
  /\ t.at \in {"cacheGet", "findById"} => t.op \in {"get", "edit", "delete"}
  /\ t.at = "softDelete" => t.op = "delete"
  /\ t.at = "updateStatus" => t.op = "mark"
  /\ t.at = "touchReactions" => t.op = "react"
  /\ t.at = "cacheFill" /\ t.op = "send" => t.content = t.copy.content
  /\ t.at = "invalidate" /\ t.op = "edit" => msg[t.m].state # "none" /\ t.content \in held[t.m]

Handlers_OK == \A h \in Handlers : HandlerOK(task[h])

\* The inductive invariant.
IInv == TablesOK /\ RowsOK /\ CacheOK /\ TasksOK /\ Handlers_OK

\* What no step does to a stored message: unstore it, give it another sender,
\* forget what was written in it, or bring it back.
Stable(m) ==
  /\ msg[m].state # "none" => /\ msg'[m].state # "none"
                              /\ msg'[m].sender = msg[m].sender
                              /\ held[m] \subseteq held'[m]
  /\ msg[m].state \in {"deleted", "purged"} => msg'[m].state \in {"deleted", "purged"}

MessagesStable == \A m \in MessageIds : Stable(m)

\* Handler h moves to a task that is in order after the step.
Advance(h) ==
  \E t \in Task : task' = [task EXCEPT ![h] = t] /\ HandlerOK(t)'

-----------------------------------------------------------------------------

LEMMA IInvTypeOK == IInv => TypeOK /\ CachedCopyIsOfItsMessage
<1> SUFFICES ASSUME IInv PROVE TypeOK /\ CachedCopyIsOfItsMessage
  OBVIOUS
<1>1. \A m \in MessageIds : msg[m].state # "none" =>
        msg[m].sender \in Users /\ msg[m].content \in Contents
  BY DEF IInv, TablesOK, RowsOK
<1>2. \A h \in Handlers :
       /\ task[h].at # "idle" => task[h].actor \in Users
       /\ task[h].at \in {"create", "update"} => task[h].content \in Contents
       /\ task[h].at \notin {"idle", "create"} => task[h].m \in MessageIds
       /\ task[h].at = "cacheFill" => task[h].copy # NoCopy
  BY CopyAssumption DEF IInv, Handlers_OK, HandlerOK, CopyOK
<1>3. TypeOK
  BY <1>1, <1>2 DEF IInv, TablesOK, TasksOK, TypeOK
<1>4. CachedCopyIsOfItsMessage
  BY DEF IInv, CacheOK, CopyOK, CachedCopyIsOfItsMessage
<1>5. QED
  BY <1>3, <1>4

LEMMA CopyStable ==
  ASSUME NEW m \in MessageIds, NEW copy, CopyOK(m, copy), Stable(m)
  PROVE  CopyOK(m, copy)'
  BY DEF CopyOK, Stable

LEMMA HandlerStable ==
  ASSUME NEW t \in Task, HandlerOK(t), MessagesStable
  PROVE  HandlerOK(t)'
<1>1. t.at = "cacheFill" => CopyOK(t.m, t.copy)'
  BY CopyStable DEF HandlerOK, MessagesStable
<1>2. t.at \in {"update", "softDelete"} =>
        msg'[t.m].state # "none" /\ msg'[t.m].sender = t.actor
  BY DEF HandlerOK, MessagesStable, Stable
<1>3. t.at = "invalidate" /\ t.op = "edit" =>
        msg'[t.m].state # "none" /\ t.content \in held'[t.m]
  BY DEF HandlerOK, MessagesStable, Stable
<1>4. QED
  BY <1>1, <1>2, <1>3 DEF HandlerOK

LEMMA AdvanceKeepsHandlers ==
  ASSUME TasksOK, Handlers_OK, MessagesStable, NEW h \in Handlers, Advance(h)
  PROVE  TasksOK' /\ Handlers_OK'
<1>1. PICK t \in Task : task' = [task EXCEPT ![h] = t] /\ HandlerOK(t)'
  BY DEF Advance
<1>2. TasksOK'
  BY <1>1 DEF TasksOK
<1>3. ASSUME NEW k \in Handlers PROVE HandlerOK(task[k])'
  <2>1. CASE k = h
    <3>1. task'[k] = t
      BY <1>1, <2>1 DEF TasksOK
    <3>2. QED
      BY <1>1, <3>1 DEF HandlerOK, CopyOK
  <2>2. CASE k # h
    <3>1. task'[k] = task[k] /\ task[k] \in Task /\ HandlerOK(task[k])
      BY <2>2, <1>1 DEF TasksOK, Handlers_OK
    <3>2. PICK s \in Task : s = task[k]
      BY <3>1
    <3>3. HandlerOK(s)'
      BY <3>1, <3>2, HandlerStable
    <3>4. QED
      BY <3>1, <3>2, <3>3 DEF HandlerOK, CopyOK
  <2>3. QED
    BY <2>1, <2>2
<1>4. QED
  BY <1>2, <1>3 DEF Handlers_OK

LEMMA IdleOK == Idle \in Task /\ HandlerOK(Idle) /\ HandlerOK(Idle)'
  BY DEF Idle, Task, HandlerOK, Ops, Awaits

LEMMA FinishAdvances ==
  ASSUME NEW h \in Handlers, Finish(h) PROVE Advance(h)
  BY IdleOK DEF Finish, Advance

LEMMA GotoAdvances ==
  ASSUME TasksOK, MessagesStable, NEW h \in Handlers, NEW l \in Awaits, Goto(h, l),
         HandlerOK([task[h] EXCEPT !.at = l])
  PROVE  Advance(h)
<1>1. PICK t \in Task : t = [task[h] EXCEPT !.at = l]
  BY DEF TasksOK, Task
<1>2. HandlerOK(t)'
  BY <1>1, HandlerStable
<1>3. QED
  BY <1>1, <1>2 DEF Goto, Advance

LEMMA TablesUnchanged ==
  ASSUME TablesOK, RowsOK, CacheOK, UNCHANGED <<msg, cache, held>>
  PROVE  MessagesStable /\ TablesOK' /\ RowsOK' /\ CacheOK'
  BY DEF TablesOK, RowsOK, CacheOK, CopyOK, MessagesStable, Stable

LEMMA ReadOnly ==
  ASSUME IInv, NEW h \in Handlers, UNCHANGED <<msg, cache, held>>,
         MessagesStable => Advance(h)
  PROVE  IInv' /\ MessagesStable
  BY TablesUnchanged, AdvanceKeepsHandlers DEF IInv

LEMMA InitIInv == Init => IInv
<1> SUFFICES ASSUME Init PROVE IInv
  OBVIOUS
<1>1. TablesOK /\ RowsOK
  BY DEF Init, TablesOK, RowsOK, Row, Statuses
<1>2. CacheOK
  BY DEF Init, CacheOK
<1>3. TasksOK /\ Handlers_OK
  BY IdleOK DEF Init, TasksOK, Handlers_OK
<1>4. QED
  BY <1>1, <1>2, <1>3 DEF IInv

-----------------------------------------------------------------------------

LEMMA StartsKeepIInv ==
  ASSUME IInv, NEW h \in Handlers, StartSend(h) \/ StartForward(h) \/ StartOnMessage(h)
  PROVE  IInv' /\ MessagesStable
<1>1. ASSUME NEW op \in Ops, NEW await \in Awaits, NEW m \in MessageIds \cup {NoMessage},
             NEW content \in Contents \cup {NoContent}, Start(h, op, await, m, content),
             \/ /\ op = "send" /\ await = "create" /\ content \in Contents
             \/ /\ op = "forward" /\ await = "findOriginal" /\ m \in MessageIds
             \/ /\ op \in {"get", "delete"} /\ await = "cacheGet" /\ m \in MessageIds
             \/ /\ op = "edit" /\ await = "cacheGet" /\ m \in MessageIds /\ content \in Contents
             \/ /\ op = "mark" /\ await = "updateStatus" /\ m \in MessageIds
             \/ /\ op = "react" /\ await = "touchReactions" /\ m \in MessageIds
      PROVE  IInv' /\ MessagesStable
  <2>1. PICK u \in Users : task' = [task EXCEPT ![h] =
          [Idle EXCEPT !.op = op, !.at = await, !.actor = u, !.m = m, !.content = content]]
    BY <1>1 DEF Start
  <2>2. PICK t \in Task :
          t = [Idle EXCEPT !.op = op, !.at = await, !.actor = u, !.m = m, !.content = content]
    BY <1>1 DEF Idle, Task
  <2>3. t.op = op /\ t.at = await /\ t.actor = u /\ t.m = m /\ t.content = content
    BY <2>2 DEF Idle
  <2>4. HandlerOK(t)
    <3>1. /\ t.at \notin {"idle", "cacheFill", "update", "softDelete", "invalidate"}
          /\ t.at # "create" => t.m \in MessageIds
          /\ t.op \in {"send", "edit"} => t.content \in Contents
      BY <1>1, <2>3
    <3>2. QED
      BY <1>1, <2>3, <3>1 DEF HandlerOK
  <2>5. MessagesStable => Advance(h)
    BY <2>1, <2>2, <2>4, HandlerStable DEF Advance
  <2>6. QED
    BY <1>1, <2>5, ReadOnly DEF Start
<1>2. CASE StartSend(h)
  BY <1>1, <1>2 DEF StartSend, Ops, Awaits
<1>3. CASE StartForward(h)
  BY <1>1, <1>3 DEF StartForward, Ops, Awaits
<1>4. CASE StartOnMessage(h)
  <2>1. PICK m \in MessageIds :
          \/ \E op \in {"get", "delete"} : Start(h, op, "cacheGet", m, NoContent)
          \/ \E content \in Contents : Start(h, "edit", "cacheGet", m, content)
          \/ Start(h, "mark", "updateStatus", m, NoContent)
          \/ Start(h, "react", "touchReactions", m, NoContent)
    BY <1>4 DEF StartOnMessage
  <2>2. QED
    BY <1>1, <2>1 DEF Ops, Awaits
<1>5. QED
  BY <1>2, <1>3, <1>4

\* The sender check, made on a copy of the message, is good for the write.
LEMMA ProceedAdvances ==
  ASSUME TasksOK, MessagesStable, NEW h \in Handlers, NEW copy, Proceed(h, copy),
         HandlerOK(task[h]), task[h].at # "idle", task[h].at # "create",
         CopyOK(task[h].m, copy)
  PROVE  Advance(h)
<1> DEFINE t == task[h]
           next == IF t.op = "edit" THEN "update" ELSE "softDelete"
<1>1. CASE Finish(h)
  BY <1>1, FinishAdvances
<1>2. CASE t.op \in {"edit", "delete"} /\ copy.sender = t.actor
  <2>1. t \in Task
    BY DEF TasksOK
  <2>2. PICK s \in Task : s = [t EXCEPT !.copy = NoCopy, !.at = next]
    BY <2>1 DEF Task, Awaits
  <2>3. task' = [task EXCEPT ![h] = s]
    BY <1>2, <2>1, <2>2 DEF Proceed, TasksOK
  <2>4. /\ s.op = t.op /\ s.at = next /\ s.actor = t.actor /\ s.m = t.m
        /\ s.content = t.content
    BY <2>1, <2>2 DEF Task
  <2>5. HandlerOK(s)
    BY <1>2, <2>4 DEF HandlerOK, CopyOK
  <2>6. QED
    BY <2>3, <2>5, HandlerStable DEF Advance
<1>3. QED
  BY <1>1, <1>2 DEF Proceed

LEMMA ReadsKeepIInv ==
  ASSUME IInv, NEW h \in Handlers, FindOriginal(h) \/ CacheGet(h) \/ FindById(h)
  PROVE  IInv' /\ MessagesStable
<1> DEFINE t == task[h]
<1>1. /\ t \in Task /\ HandlerOK(t) /\ t.m \in MessageIds
      /\ t.at \in {"findOriginal", "cacheGet", "findById"}
      /\ TasksOK /\ TablesOK /\ RowsOK /\ CacheOK
      /\ UNCHANGED <<msg, cache, held>>
  BY DEF IInv, TasksOK, Handlers_OK, HandlerOK, FindOriginal, CacheGet, FindById
<1>2. CASE Finish(h)
  BY <1>1, <1>2, FinishAdvances, ReadOnly
<1>3. CASE FindOriginal(h) /\ ~Finish(h)
  <2>1. /\ task' = [task EXCEPT ![h].at = "create", ![h].content = msg[t.m].content]
        /\ msg[t.m].state = "live" /\ t.at = "findOriginal"
    BY <1>3 DEF FindOriginal
  <2>2. msg[t.m].content \in Contents
    BY <1>1, <2>1 DEF RowsOK, TablesOK
  <2>3. PICK s \in Task : s = [t EXCEPT !.at = "create", !.content = msg[t.m].content]
    BY <1>1, <2>2 DEF Task, Awaits
  <2>4. HandlerOK(s)
    BY <1>1, <2>1, <2>2, <2>3 DEF HandlerOK, Task
  <2>5. task' = [task EXCEPT ![h] = s]
    BY <1>1, <2>1, <2>3 DEF TasksOK
  <2>6. QED
    BY <1>1, <2>4, <2>5, HandlerStable, ReadOnly DEF Advance
<1>4. CASE CacheGet(h)
  <2>1. CASE cache[t.m] = NoCopy
    <3>1. Goto(h, "findById") /\ t.at = "cacheGet"
      BY <1>4, <2>1 DEF CacheGet
    <3>2. HandlerOK([t EXCEPT !.at = "findById"])
      BY <1>1, <3>1 DEF HandlerOK, Task
    <3>3. QED
      BY <1>1, <3>1, <3>2, GotoAdvances, ReadOnly DEF Awaits
  <2>2. CASE cache[t.m] # NoCopy
    <3>1. Proceed(h, cache[t.m]) /\ CopyOK(t.m, cache[t.m])
      BY <1>1, <1>4, <2>2 DEF CacheGet, CacheOK
    <3>2. QED
      BY <1>1, <3>1, ProceedAdvances, ReadOnly
  <2>3. QED
    BY <2>1, <2>2
<1>5. CASE FindById(h) /\ ~Finish(h)
  <2>1. /\ task' = [task EXCEPT ![h].at = "cacheFill", ![h].copy = CopyOf(t.m)]
        /\ msg[t.m].state = "live" /\ t.at = "findById"
    BY <1>5 DEF FindById
  <2>2. CopyOK(t.m, CopyOf(t.m))
    BY <1>1, <2>1 DEF CopyOK, CopyOf, Copy, RowsOK, TablesOK, Row
  <2>3. PICK s \in Task : s = [t EXCEPT !.at = "cacheFill", !.copy = CopyOf(t.m)]
    BY <1>1, <2>2 DEF Task, Awaits, CopyOK
  <2>4. /\ s.op = t.op /\ s.at = "cacheFill" /\ s.actor = t.actor /\ s.m = t.m
        /\ s.content = t.content /\ s.copy = CopyOf(t.m)
    BY <1>1, <2>3 DEF Task
  <2>5. HandlerOK(s)
    BY <1>1, <2>1, <2>2, <2>4 DEF HandlerOK
  <2>6. task' = [task EXCEPT ![h] = s]
    BY <1>1, <2>1, <2>3 DEF TasksOK
  <2>7. QED
    BY <1>1, <2>5, <2>6, HandlerStable, ReadOnly DEF Advance
<1>6. QED
  BY <1>2, <1>3, <1>4, <1>5

LEMMA CreateKeepsIInv ==
  ASSUME IInv, NEW h \in Handlers, Create(h) PROVE IInv' /\ MessagesStable
<1> DEFINE t == task[h]
           row(u) == [state |-> "live", sender |-> u, content |-> t.content,
                      status |-> "SENT"]
           copy(u) == [sender |-> u, content |-> t.content, status |-> "SENT"]
<1>1. /\ t \in Task /\ t.at = "create" /\ t.actor \in Users /\ t.content \in Contents
      /\ TasksOK /\ TablesOK /\ RowsOK /\ CacheOK /\ Handlers_OK /\ cache' = cache
      /\ t.op \in {"send", "forward"}
  BY DEF IInv, TasksOK, Handlers_OK, HandlerOK, Create
<1>2. CASE Finish(h) /\ UNCHANGED <<msg, held>>
  BY <1>1, <1>2, FinishAdvances, ReadOnly
<1>3. ASSUME NEW m \in MessageIds, NEW sender \in Users, msg[m].state = "none",
             msg' = [msg EXCEPT ![m] = row(sender)],
             held' = [held EXCEPT ![m] = {t.content}],
             task' = [task EXCEPT ![h].at = "cacheFill", ![h].m = m,
                                  ![h].copy = copy(sender)]
      PROVE  IInv' /\ MessagesStable
  <2>1. row(sender) \in Row /\ copy(sender) \in Copy
    BY <1>1 DEF Row, Copy, Statuses
  <2>2. TablesOK'
    BY <1>1, <1>3, <2>1 DEF TablesOK
  <2>3. MessagesStable
    BY <1>1, <1>3 DEF MessagesStable, Stable, TablesOK
  <2>4. RowsOK'
    BY <1>1, <1>3 DEF RowsOK, TablesOK
  <2>5. CacheOK'
    <3>1. SUFFICES ASSUME NEW k \in MessageIds, cache[k] # NoCopy PROVE CopyOK(k, cache[k])'
      BY <1>1 DEF CacheOK, CopyOK
    <3>2. CopyOK(k, cache[k])
      BY <1>1, <3>1 DEF CacheOK
    <3>3. QED
      BY <1>1, <2>3, <3>2 DEF MessagesStable, Stable, CopyOK
  <2>6. msg'[m] = row(sender) /\ held'[m] = {t.content}
    BY <1>1, <1>3 DEF TablesOK
  <2>7. PICK s \in Task : s = [t EXCEPT !.at = "cacheFill", !.m = m, !.copy = copy(sender)]
    BY <1>1, <2>1 DEF Task, Awaits
  <2>8. /\ s.op = t.op /\ s.at = "cacheFill" /\ s.actor = t.actor /\ s.m = m
        /\ s.content = t.content /\ s.copy = copy(sender)
    BY <1>1, <2>7 DEF Task
  <2>9. CopyOK(s.m, s.copy)'
    BY <2>1, <2>6, <2>8 DEF CopyOK
  <2>10. HandlerOK(s)'
    BY <1>1, <2>8, <2>9 DEF HandlerOK
  <2>11. task' = [task EXCEPT ![h] = s]
    BY <1>1, <1>3, <2>7 DEF TasksOK
  <2>12. QED
    BY <1>1, <2>2, <2>3, <2>4, <2>5, <2>10, <2>11, AdvanceKeepsHandlers DEF IInv, Advance
<1>4. Senders(t) \subseteq Users
  BY <1>1 DEF Senders
<1>5. QED
  BY <1>2, <1>3, <1>4 DEF Create

\* A step on the keys alone: a copy of the message is stored, or a key deleted.
LEMMA KeysOnly ==
  ASSUME IInv, NEW h \in Handlers, UNCHANGED <<msg, held>>, MessagesStable => Advance(h),
         NEW m \in MessageIds, NEW copy, cache' = [cache EXCEPT ![m] = copy],
         copy = NoCopy \/ CopyOK(m, copy)
  PROVE  IInv' /\ MessagesStable
<1>1. MessagesStable
  BY DEF IInv, MessagesStable, Stable
<1>2. TablesOK' /\ RowsOK'
  BY DEF IInv, TablesOK, RowsOK, CopyOK
<1>3. CacheOK'
  BY DEF IInv, TablesOK, CacheOK, CopyOK
<1>4. QED
  BY <1>1, <1>2, <1>3, AdvanceKeepsHandlers DEF IInv

LEMMA KeysKeepIInv ==
  ASSUME IInv, NEW h \in Handlers, CacheFill(h) \/ Invalidate(h) PROVE IInv' /\ MessagesStable
<1>1. TasksOK /\ HandlerOK(task[h]) /\ task[h].m \in MessageIds
  BY DEF IInv, Handlers_OK, HandlerOK, CacheFill, Invalidate
<1>2. CASE CacheFill(h)
  <2>1. task[h].at = "cacheFill" /\ CopyOK(task[h].m, task[h].copy)
    BY <1>1, <1>2 DEF CacheFill, HandlerOK
  <2>2. /\ Proceed(h, task[h].copy) /\ UNCHANGED <<msg, held>>
        /\ cache' = [cache EXCEPT ![task[h].m] = task[h].copy]
    BY <1>2 DEF CacheFill
  <2>3. MessagesStable => Advance(h)
    BY <1>1, <2>1, <2>2, ProceedAdvances
  <2>4. QED
    BY <1>1, <2>1, <2>2, <2>3, KeysOnly
<1>3. CASE Invalidate(h)
  BY <1>1, <1>3, FinishAdvances, KeysOnly DEF Invalidate
<1>4. QED
  BY <1>2, <1>3

\* A write by id: the row keeps its sender, its content is one of those written,
\* and it does not come back.
WritesRow(m, row) ==
  /\ held' \in [MessageIds -> SUBSET Contents]
  /\ \A k \in MessageIds : /\ held[k] \subseteq held'[k]
                           /\ msg[k].state = "none" => held'[k] = held[k]
  /\ Stored(m) => /\ row \in Row /\ row.sender = msg[m].sender
                  /\ row.content \in held'[m] /\ row.state # "none"
                  /\ msg[m].state = "deleted" => row.state \in {"deleted", "purged"}

LEMMA WriteKeepsIInv ==
  ASSUME IInv, NEW h \in Handlers, NEW await, NEW row, Write(h, await, row),
         await \in {"update", "softDelete", "updateStatus"},
         task[h].m \in MessageIds, WritesRow(task[h].m, row),
         task[h].op = "edit" /\ Stored(task[h].m) => task[h].content \in held'[task[h].m]
  PROVE  IInv' /\ MessagesStable
<1> DEFINE m == task[h].m
<1> USE DEF WritesRow
<1>1. /\ TasksOK /\ Handlers_OK /\ TablesOK /\ RowsOK /\ CacheOK /\ HandlerOK(task[h])
      /\ task[h] \in Task
  BY DEF IInv, Handlers_OK, TasksOK
<1>2. /\ task[h].at = await /\ cache' = cache
      /\ \/ Stored(m) /\ msg' = [msg EXCEPT ![m] = row] /\ Goto(h, "invalidate")
         \/ ~Stored(m) /\ msg' = msg /\ Finish(h)
  BY DEF Write
<1>3. MessagesStable
  BY <1>1, <1>2 DEF MessagesStable, Stable, TablesOK, Stored
<1>4. TablesOK'
  BY <1>1, <1>2 DEF TablesOK
<1>5. RowsOK'
  <2>1. ASSUME NEW k \in MessageIds
        PROVE  /\ msg'[k].state # "none" => msg'[k].sender \in Users /\ msg'[k].content \in held'[k]
               /\ msg'[k].state = "none" => held'[k] = {}
    <3>1. CASE k = m /\ Stored(m)
      BY <1>1, <1>2, <3>1 DEF RowsOK, TablesOK, Stored
    <3>2. CASE ~(k = m /\ Stored(m))
      <4>1. msg'[k] = msg[k]
        BY <1>1, <1>2, <3>2 DEF TablesOK
      <4>2. QED
        BY <1>1, <4>1 DEF RowsOK
    <3>3. QED
      BY <3>1, <3>2
  <2>2. QED
    BY <2>1 DEF RowsOK
<1>6. CacheOK'
  BY <1>1, <1>2, <1>3 DEF CacheOK, CopyOK, MessagesStable, Stable
<1>7. Advance(h)
  <2>1. PICK t \in Task : t = [task[h] EXCEPT !.at = "invalidate"]
    BY <1>1 DEF Task, Awaits
  <2>2. /\ t.at = "invalidate" /\ t.op = task[h].op /\ t.m = m /\ t.actor = task[h].actor
        /\ t.content = task[h].content
    BY <1>1, <2>1 DEF Task
  <2>3. Stored(m) => HandlerOK(t)'
    BY <1>1, <1>2, <1>3, <2>2 DEF HandlerOK, MessagesStable, Stable, Stored
  <2>4. QED
    BY <1>2, <2>1, <2>3, FinishAdvances DEF Goto, Advance
<1>8. QED
  BY <1>1, <1>3, <1>4, <1>5, <1>6, <1>7, AdvanceKeepsHandlers DEF IInv

LEMMA WritesKeepIInv ==
  ASSUME IInv, NEW h \in Handlers, Update(h) \/ SoftDelete(h) \/ UpdateStatus(h)
  PROVE  IInv' /\ MessagesStable
<1> DEFINE t == task[h]
<1>1. /\ t.at \in {"update", "softDelete", "updateStatus"} /\ t.m \in MessageIds
      /\ HandlerOK(t) /\ TablesOK /\ RowsOK /\ msg[t.m] \in Row
  BY DEF IInv, TablesOK, Handlers_OK, HandlerOK, Update, SoftDelete, UpdateStatus, Write
<1>2. CASE Update(h)
  <2> DEFINE row == [msg[t.m] EXCEPT !.content = t.content]
  <2>1. Write(h, "update", row) /\ t.at = "update"
    BY <1>2 DEF Update, Write
  <2>2. t.content \in Contents /\ msg[t.m].sender = t.actor
    BY <1>1, <2>1 DEF HandlerOK
  <2>3. /\ held' \in [MessageIds -> SUBSET Contents]
        /\ \A k \in MessageIds : /\ held[k] \subseteq held'[k]
                                 /\ msg[k].state = "none" => held'[k] = held[k]
        /\ Stored(t.m) => t.content \in held'[t.m]
    BY <1>1, <1>2, <2>2 DEF Update, TablesOK, Stored
  <2>4. /\ row \in Row /\ row.sender = msg[t.m].sender /\ row.content = t.content
        /\ row.state = msg[t.m].state
    BY <1>1, <2>2 DEF Row
  <2>5. WritesRow(t.m, row)
    BY <1>1, <2>3, <2>4 DEF WritesRow, Stored
  <2>6. QED
    BY <1>1, <2>1, <2>3, <2>5, WriteKeepsIInv
<1>3. ASSUME t.op # "edit", held' = held, NEW await \in {"softDelete", "updateStatus"},
             NEW row, Write(h, await, row), row \in Row, row.sender = msg[t.m].sender,
             row.content = msg[t.m].content, row.state \in {msg[t.m].state, "deleted"}
      PROVE  IInv' /\ MessagesStable
  <2>1. WritesRow(t.m, row)
    BY <1>1, <1>3 DEF WritesRow, Stored, RowsOK, TablesOK
  <2>2. QED
    BY <1>1, <1>3, <2>1, WriteKeepsIInv
<1>4. CASE SoftDelete(h)
  <2>1. Write(h, "softDelete", [msg[t.m] EXCEPT !.state = "deleted"]) /\ held' = held
    BY <1>4 DEF SoftDelete
  <2>2. t.op # "edit"
    BY <1>1, <2>1 DEF HandlerOK, Write
  <2>3. PICK row \in Row : row = [msg[t.m] EXCEPT !.state = "deleted"]
    BY <1>1 DEF Row
  <2>4. QED
    BY <1>1, <1>3, <2>1, <2>2, <2>3 DEF Row
<1>5. CASE UpdateStatus(h)
  <2>1. PICK st \in Marks : Write(h, "updateStatus", [msg[t.m] EXCEPT !.status = st])
    BY <1>5 DEF UpdateStatus
  <2>2. t.op # "edit" /\ held' = held
    BY <1>1, <1>5, <2>1 DEF HandlerOK, Write, UpdateStatus
  <2>3. PICK row \in Row : row = [msg[t.m] EXCEPT !.status = st]
    BY <1>1, MessageAssumption DEF Row, Statuses
  <2>4. QED
    BY <1>1, <1>3, <2>1, <2>2, <2>3 DEF Row
<1>6. QED
  BY <1>2, <1>4, <1>5

\* What is left: replies, the end of a key, lost cache calls, a group's deletion.
LEMMA OthersKeepIInv ==
  ASSUME IInv, NEW h \in Handlers, TouchReactions(h) \/ Abort(h) \/ CacheFails(h)
  PROVE  IInv' /\ MessagesStable
<1> DEFINE t == task[h]
<1>1. TasksOK /\ HandlerOK(t) /\ t.at # "idle" /\ UNCHANGED <<msg, cache, held>>
  BY DEF IInv, Handlers_OK, TouchReactions, Abort, CacheFails
<1>2. CASE Finish(h)
  BY <1>1, <1>2, FinishAdvances, ReadOnly
<1>3. CASE TouchReactions(h) /\ Goto(h, "invalidate")
  <2>1. HandlerOK([t EXCEPT !.at = "invalidate"])
    BY <1>1, <1>3 DEF HandlerOK, TasksOK, Task, TouchReactions
  <2>2. QED
    BY <1>1, <1>3, <2>1, GotoAdvances, ReadOnly DEF Awaits
<1>4. CASE t.at = "cacheGet" /\ Goto(h, "findById")
  <2>1. HandlerOK([t EXCEPT !.at = "findById"])
    BY <1>1, <1>4 DEF HandlerOK, TasksOK, Task
  <2>2. QED
    BY <1>1, <1>4, <2>1, GotoAdvances, ReadOnly DEF Awaits
<1>5. CASE t.at = "cacheFill" /\ Proceed(h, t.copy)
  <2>1. CopyOK(t.m, t.copy)
    BY <1>1, <1>5 DEF HandlerOK
  <2>2. QED
    BY <1>1, <1>5, <2>1, ProceedAdvances, ReadOnly
<1>6. QED
  BY <1>2, <1>3, <1>4, <1>5 DEF TouchReactions, Abort, CacheFails

LEMMA NoHandlerKeepsIInv ==
  ASSUME IInv, UNCHANGED vars \/ deleteGroup \/ \E m \in MessageIds : Expire(m)
  PROVE  IInv' /\ MessagesStable
<1>1. /\ TablesOK /\ RowsOK /\ CacheOK /\ TasksOK /\ Handlers_OK /\ held' = held
      /\ task' = task
  BY DEF IInv, vars, deleteGroup, Expire
<1>2. MessagesStable /\ TablesOK' /\ RowsOK' /\ CacheOK'
  <2>1. CASE UNCHANGED vars
    BY <1>1, <2>1, TablesUnchanged DEF vars
  <2>2. CASE deleteGroup
    <3>1. msg' = [m \in MessageIds |-> IF m \in GroupMessages /\ Stored(m)
                                      THEN [msg[m] EXCEPT !.state = "purged"] ELSE msg[m]]
          /\ cache' = cache
      BY <2>2 DEF deleteGroup
    <3>2. \A m \in MessageIds :
            /\ msg'[m] \in Row /\ msg'[m].sender = msg[m].sender
            /\ msg'[m].content = msg[m].content
            /\ msg'[m].state = msg[m].state
                 \/ (msg'[m].state = "purged" /\ msg[m].state \in {"live", "deleted"})
      BY <1>1, <3>1 DEF TablesOK, Row, Stored
    <3>3. MessagesStable
      BY <1>1, <3>2 DEF MessagesStable, Stable
    <3>4. TablesOK' /\ RowsOK'
      BY <1>1, <3>1, <3>2 DEF TablesOK, RowsOK
    <3>5. CacheOK'
      BY <1>1, <3>1, <3>2 DEF CacheOK, CopyOK
    <3>6. QED
      BY <3>3, <3>4, <3>5
  <2>3. ASSUME NEW m \in MessageIds, Expire(m)
        PROVE  MessagesStable /\ TablesOK' /\ RowsOK' /\ CacheOK'
    <3>1. cache' = [cache EXCEPT ![m] = NoCopy] /\ msg' = msg
      BY <2>3 DEF Expire
    <3>2. QED
      BY <1>1, <3>1 DEF MessagesStable, Stable, TablesOK, RowsOK, CacheOK, CopyOK
  <2>4. QED
    BY <2>1, <2>2, <2>3
<1>3. TasksOK' /\ Handlers_OK'
  <2>1. ASSUME NEW h \in Handlers PROVE HandlerOK(task[h])'
    <3>1. PICK t \in Task : t = task[h] /\ HandlerOK(t)
      BY <1>1 DEF TasksOK, Handlers_OK
    <3>2. HandlerOK(t)'
      BY <1>2, <3>1, HandlerStable
    <3>3. QED
      BY <1>1, <3>1, <3>2 DEF HandlerOK, CopyOK
  <2>2. QED
    BY <1>1, <2>1 DEF TasksOK, Handlers_OK
<1>4. QED
  BY <1>2, <1>3 DEF IInv

LEMMA FaultyNextIInv == IInv /\ [FaultyNext]_vars => IInv' /\ MessagesStable
<1> SUFFICES ASSUME IInv, [FaultyNext]_vars PROVE IInv' /\ MessagesStable
  OBVIOUS
<1>1. ASSUME NEW h \in Handlers, Step(h) \/ Abort(h) \/ CacheFails(h)
      PROVE  IInv' /\ MessagesStable
  BY <1>1, StartsKeepIInv, ReadsKeepIInv, CreateKeepsIInv, KeysKeepIInv, WritesKeepIInv,
     OthersKeepIInv DEF Step
<1>2. QED
  BY <1>1, NoHandlerKeepsIInv DEF FaultyNext, Next

-----------------------------------------------------------------------------

\* Every variable has its type, and every stored message its sender and content.
THEOREM TypeCorrect == FaultySpec => []TypeOK
<1>1. IInv => TypeOK
  BY IInvTypeOK
<1>2. IInv /\ [FaultyNext]_vars => IInv'
  BY FaultyNextIInv
<1>3. QED
  BY <1>1, <1>2, InitIInv, PTL DEF FaultySpec

\* A message:<id> key holds the sender that the row of that very message names and
\* a content the row has had, however late CacheService.set ran, whoever the body
\* of the send named, and also when the row has gone with its group.
THEOREM KeysHoldTheirMessage == FaultySpec => []CachedCopyIsOfItsMessage
<1>1. IInv => CachedCopyIsOfItsMessage
  BY IInvTypeOK
<1>2. IInv /\ [FaultyNext]_vars => IInv'
  BY FaultyNextIInv
<1>3. QED
  BY <1>1, <1>2, InitIInv, PTL DEF FaultySpec

\* A deleted message never returns to life, in spite of updates by id that do
\* not look at deletedAt.
THEOREM DeletedForGood == FaultySpec => DeletedStaysDeleted
<1>1. IInv /\ [FaultyNext]_vars => IInv'
  BY FaultyNextIInv
<1>2. IInv /\ [FaultyNext]_vars =>
        [\A m \in MessageIds : msg[m].state \in {"deleted", "purged"} =>
           msg'[m].state \in {"deleted", "purged"}]_vars
  BY FaultyNextIInv DEF MessagesStable, Stable
<1>3. QED
  BY <1>1, <1>2, InitIInv, PTL DEF FaultySpec, DeletedStaysDeleted

\* A stored message is rewritten or deleted only by a request of the sender its row
\* names, although editMessage and deleteMessage check a cached copy, calls earlier.
THEOREM SenderRewrites == FaultySpec => OnlySenderRewrites
<1> DEFINE Rewritten(m) ==
             /\ msg[m].state \in {"live", "deleted"}
             /\ \/ msg'[m].content # msg[m].content
                \/ msg'[m].state = "deleted" /\ msg[m].state = "live"
           BySender(m) == \E h \in Handlers : /\ task'[h] # task[h]
                                              /\ task[h].m = m
                                              /\ task[h].actor = msg[m].sender
<1>1. ASSUME IInv, [FaultyNext]_vars, NEW m \in MessageIds PROVE Rewritten(m) => BySender(m)
  <2>1. TablesOK /\ TasksOK /\ Handlers_OK
    BY <1>1 DEF IInv
  <2>2. ASSUME NEW h \in Handlers, Update(h) \/ SoftDelete(h), Rewritten(m) PROVE BySender(m)
    <3>1. /\ task[h].m \in MessageIds /\ task[h].at \in {"update", "softDelete"}
          /\ msg[task[h].m].sender = task[h].actor
      BY <2>1, <2>2 DEF Update, SoftDelete, Write, Handlers_OK, HandlerOK
    <3>2. task[h].m = m
      BY <2>1, <2>2, <3>1 DEF Update, SoftDelete, Write, TablesOK
    <3>3. task'[h] # task[h]
      <4>1. task' = [task EXCEPT ![h].at = "invalidate"] \/ task' = [task EXCEPT ![h] = Idle]
        BY <2>2 DEF Update, SoftDelete, Write, Goto, Finish
      <4>2. task'[h].at \in {"invalidate", "idle"}
        BY <2>1, <4>1 DEF TasksOK, Task, Idle
      <4>3. QED
        BY <3>1, <4>2
    <3>4. QED
      BY <3>1, <3>2, <3>3
  <2>3. ASSUME NEW h \in Handlers, UpdateStatus(h) \/ Create(h) PROVE ~Rewritten(m)
    <3>1. CASE UpdateStatus(h)
      BY <2>1, <3>1 DEF UpdateStatus, Write, TablesOK, Row
    <3>2. CASE Create(h)
      <4>1. \/ msg' = msg
            \/ \E k \in MessageIds : \E row :
                 msg[k].state = "none" /\ msg' = [msg EXCEPT ![k] = row]
        BY <3>2 DEF Create
      <4>2. QED
        BY <2>1, <4>1 DEF TablesOK
    <3>3. QED
      BY <2>3, <3>1, <3>2
  <2>4. CASE deleteGroup
    BY <2>1, <2>4 DEF deleteGroup, TablesOK, Row
  <2>5. ASSUME NEW h \in Handlers,
               \/ StartSend(h) \/ StartForward(h) \/ StartOnMessage(h) \/ FindOriginal(h)
               \/ CacheGet(h) \/ FindById(h) \/ CacheFill(h) \/ TouchReactions(h)
               \/ Invalidate(h) \/ Abort(h) \/ CacheFails(h)
        PROVE  msg' = msg
    BY <2>5 DEF StartSend, StartForward, StartOnMessage, Start, FindOriginal, CacheGet,
       FindById, CacheFill, TouchReactions, Invalidate, Abort, CacheFails
  <2>6. CASE UNCHANGED vars \/ \E k \in MessageIds : Expire(k)
    BY <2>6 DEF vars, Expire
  <2>7. QED
    BY <1>1, <2>2, <2>3, <2>4, <2>5, <2>6 DEF FaultyNext, Next, Step
<1>2. IInv /\ [FaultyNext]_vars => IInv'
  BY FaultyNextIInv
<1>3. IInv /\ [FaultyNext]_vars => [\A m \in MessageIds : Rewritten(m) => BySender(m)]_vars
  BY <1>1
<1>4. QED
  BY <1>2, <1>3, InitIInv, PTL DEF FaultySpec, OnlySenderRewrites

-----------------------------------------------------------------------------
(* The gateway.                                                            *)

\* What a row has held is not forgotten, also of a message not created yet.
LEMMA HeldGrows ==
  ASSUME IInv, MessagesStable
  PROVE  \A m \in MessageIds : held[m] \subseteq held'[m]
  BY DEF IInv, RowsOK, MessagesStable, Stable

\* What the receiver is told was stored before.
LEMMA EventTrue ==
  ASSUME IInv, NEW h \in Handlers, Tells(h)
  PROVE  /\ task[h].m \in MessageIds /\ EventOf(task[h]) \in Event
         /\ EventOf(task[h]).content \in held[task[h].m] \cup {NoContent}
<1> DEFINE t == task[h]
<1>1. /\ t \in Task /\ HandlerOK(t) /\ t.m \in MessageIds
      /\ held[t.m] \in SUBSET Contents
  BY DEF IInv, TasksOK, TablesOK, Handlers_OK, HandlerOK, Tells, Succeeds
<1>2. CASE t.op = "send" /\ t.at = "cacheFill"
  <2>1. t.content \in held[t.m]
    BY <1>1, <1>2 DEF HandlerOK, CopyOK
  <2>2. EventOf(t) = [kind |-> "received", content |-> t.content]
    BY <1>2 DEF EventOf
  <2>3. QED
    BY <1>1, <2>1, <2>2 DEF Event
<1>3. CASE t.op = "edit" /\ t.at = "invalidate"
  <2>1. t.content \in held[t.m]
    BY <1>1, <1>3 DEF HandlerOK
  <2>2. EventOf(t) = [kind |-> "edit", content |-> t.content]
    BY <1>3 DEF EventOf
  <2>3. QED
    BY <1>1, <2>1, <2>2 DEF Event
<1>4. CASE t.op = "delete"
  <2>1. EventOf(t) = [kind |-> "delete", content |-> NoContent]
    BY <1>4 DEF EventOf
  <2>2. QED
    BY <1>1, <2>1 DEF Event
<1>5. QED
  BY <1>2, <1>3, <1>4 DEF Tells, Succeeds

LEMMA RelayKeepsTold ==
  ASSUME IInv, ToldIsTrue, MessagesStable, NEW h \in Handlers, Relay(h)
  PROVE  ToldIsTrue'
<1>1. socket' \subseteq Handlers
  BY DEF Relay, Arrive, ToldIsTrue
<1>2. CASE Tells(h)
  <2>1. told' = [told EXCEPT ![task[h].m] = EventOf(task[h])]
    BY <1>2 DEF Relay, Emit
  <2>2. PICK e \in Event : e = EventOf(task[h])
    BY <1>2, EventTrue
  <2>3. PICK m \in MessageIds : m = task[h].m /\ e.content \in held[m] \cup {NoContent}
    BY <1>2, <2>2, EventTrue
  <2>4. told' = [told EXCEPT ![m] = e]
    BY <2>1, <2>2, <2>3
  <2>5. QED
    BY <1>1, <2>3, <2>4, HeldGrows DEF ToldIsTrue
<1>3. CASE ~Tells(h)
  BY <1>1, <1>3, HeldGrows DEF Relay, Emit, ToldIsTrue
<1>4. QED
  BY <1>2, <1>3

\* The gateway adds nothing to what the service does.
LEMMA GatewayIsMessages ==
  [FaultyGatewayNext]_<<vars, gatewayVars>> => [FaultyNext]_vars
  BY DEF FaultyGatewayNext, GatewayNext, FaultyNext, Next

LEMMA GatewayKeepsTold ==
  IInv /\ ToldIsTrue /\ [FaultyGatewayNext]_<<vars, gatewayVars>> => ToldIsTrue'
<1> SUFFICES ASSUME IInv, ToldIsTrue, [FaultyGatewayNext]_<<vars, gatewayVars>>
             PROVE  ToldIsTrue'
  OBVIOUS
<1>1. MessagesStable
  BY GatewayIsMessages, FaultyNextIInv
<1>2. CASE UNCHANGED gatewayVars
  BY <1>1, <1>2, HeldGrows DEF gatewayVars, ToldIsTrue
<1>3. QED
  BY <1>1, <1>2, RelayKeepsTold DEF FaultyGatewayNext, GatewayNext

LEMMA GatewayInitTrue == GatewayInit => IInv /\ ToldIsTrue
  BY InitIInv DEF GatewayInit, ToldIsTrue, Nothing, Event

\* message.gateway.ts:56 and 77: a receiver is told of a content only when the
\* message's row has had it, whatever fails or overlaps.
THEOREM ToldTrue == GatewaySpec => []ToldIsTrue
<1>1. IInv /\ ToldIsTrue /\ [FaultyGatewayNext]_<<vars, gatewayVars>> => (IInv /\ ToldIsTrue)'
  BY GatewayIsMessages, FaultyNextIInv, GatewayKeepsTold
<1>2. QED
  BY <1>1, GatewayInitTrue, PTL DEF GatewaySpec

-----------------------------------------------------------------------------
(* One request at a time, without faults.                                  *)

OneBusy == \A g, h \in Handlers : "idle" \in {task[g].at, task[h].at} \/ g = h

\* What the one request in flight relies on: nothing has happened to its message
\* since its last call.
AloneTask(t) ==
  /\ t.at = "cacheFill" => msg[t.m].state = "live" /\ t.copy = CopyOf(t.m)
  /\ t.at \in {"update", "softDelete"} => msg[t.m].state \in {"live", "purged"}
  /\ t.at = "invalidate" /\ t.op = "edit" =>
       msg[t.m].state = "live" /\ msg[t.m].content = t.content
  /\ t.at = "invalidate" /\ t.op = "delete" => msg[t.m].state = "deleted"

AloneTasks == \A h \in Handlers : AloneTask(task[h])

\* Only the key that is about to be deleted may hold an old copy; that of a row
\* that went with its group holds the last one.
CoherentBut ==
  \A m \in MessageIds : cache[m] # NoCopy =>
    \/ msg[m].state \in {"live", "purged"} /\ cache[m] = CopyOf(m)
    \/ \E h \in Handlers : task[h].at = "invalidate" /\ task[h].m = m

\* The last event agrees with the table also while a request is in flight.
ToldCurrent ==
  \A m \in Direct \ quiet :
    /\ msg[m].state = "none" => told[m] = Nothing
    /\ msg[m].state = "live" =>
         told[m].kind \in {"received", "edit"} /\ told[m].content = msg[m].content
    /\ msg[m].state = "deleted" => told[m].kind = "delete"

AInv == OneBusy /\ AloneTasks /\ CoherentBut /\ ToldCurrent

\* A step of h alone changes h's task.
LEMMA StepChangesOne ==
  ASSUME TasksOK, NEW h \in Handlers, Step(h)
  PROVE  /\ \E t : task' = [task EXCEPT ![h] = t]
         /\ task[h].at = "idle" =>
              /\ UNCHANGED <<msg, cache, held>>
              /\ task'[h].at \in {"create", "findOriginal", "cacheGet", "updateStatus", "touchReactions"}
<1>1. CASE StartSend(h) \/ StartForward(h) \/ StartOnMessage(h)
  BY <1>1 DEF StartSend, StartForward, StartOnMessage, Start, TasksOK, Idle
<1>2. CASE ~(StartSend(h) \/ StartForward(h) \/ StartOnMessage(h))
  BY <1>2 DEF Step, FindOriginal, Create, CacheGet, FindById, CacheFill, Update, SoftDelete,
     UpdateStatus, Write, TouchReactions, Invalidate, Proceed, Goto, Finish
<1>3. QED
  BY <1>1, <1>2

LEMMA OthersIdle ==
  ASSUME TasksOK, OneBusy, OneBusy', NEW h \in Handlers, Step(h)
  PROVE  \A k \in Handlers \ {h} : task[k].at = "idle" /\ task'[k] = task[k]
<1>1. \A k \in Handlers \ {h} : task'[k] = task[k]
  BY StepChangesOne DEF TasksOK
<1>2. task[h].at # "idle" \/ task'[h].at # "idle"
  BY StepChangesOne
<1>3. QED
  BY <1>1, <1>2 DEF OneBusy

\* The message's row, its key and the handler's next task, of every step that
\* touches no other message: enough to keep the coherence.
LEMMA AloneStep ==
  ASSUME IInv, AInv, OneBusy', NEW h \in Handlers, Step(h),
         AloneTask(task[h])',
         NEW m \in MessageIds,
         \A k \in MessageIds \ {m} : msg'[k] = msg[k] /\ cache'[k] = cache[k],
         task[h].at = "invalidate" => task[h].m = m,
         \/ cache'[m] = NoCopy
         \/ msg'[m].state \in {"live", "purged"} /\ cache'[m] = CopyOf(m)'
         \/ task'[h].at = "invalidate" /\ task'[h].m = m
  PROVE  AloneTasks' /\ CoherentBut'
<1>1. \A k \in Handlers \ {h} : task[k].at = "idle" /\ task'[k] = task[k]
  BY OthersIdle DEF IInv, AInv
<1>2. AloneTasks'
  BY <1>1 DEF AloneTasks, AloneTask
<1>3. ASSUME NEW k \in MessageIds \ {m}, cache'[k] # NoCopy
      PROVE  msg'[k].state \in {"live", "purged"} /\ cache'[k] = CopyOf(k)'
  BY <1>1, <1>3 DEF AInv, CoherentBut, CopyOf
<1>4. CoherentBut'
  BY <1>3 DEF CoherentBut
<1>5. QED
  BY <1>2, <1>4

\* Steps that leave rows and keys as they are.
LEMMA AloneReadOnly ==
  ASSUME IInv, AInv, OneBusy', NEW h \in Handlers, Step(h), UNCHANGED <<msg, cache>>,
         task[h].at # "invalidate", AloneTask(task[h])'
  PROVE  AloneTasks' /\ CoherentBut'
<1>1. \A k \in Handlers \ {h} : task[k].at = "idle" /\ task'[k] = task[k]
  BY OthersIdle DEF IInv, AInv
<1>2. \A m \in MessageIds : cache[m] # NoCopy =>
        msg[m].state \in {"live", "purged"} /\ cache[m] = CopyOf(m)
  BY <1>1 DEF AInv, CoherentBut
<1>3. AloneTasks'
  BY <1>1 DEF AloneTasks, AloneTask
<1>4. CoherentBut'
  BY <1>2 DEF CoherentBut, CopyOf
<1>5. QED
  BY <1>3, <1>4

LEMMA AloneReads ==
  ASSUME IInv, AInv, OneBusy', NEW h \in Handlers, Step(h),
         \/ StartSend(h) \/ StartForward(h) \/ StartOnMessage(h)
         \/ FindOriginal(h) \/ CacheGet(h) \/ FindById(h) \/ TouchReactions(h)
  PROVE  AloneTasks' /\ CoherentBut'
<1> DEFINE t == task[h]
<1>1. /\ TasksOK /\ t \in Task /\ HandlerOK(t) /\ UNCHANGED <<msg, cache>>
      /\ t.at # "invalidate"
  BY DEF IInv, TasksOK, Handlers_OK, StartSend, StartForward, StartOnMessage, Start,
         FindOriginal, CacheGet, FindById, TouchReactions
<1>2. \A k \in Handlers \ {h} : task[k].at = "idle"
  BY <1>1, OthersIdle DEF AInv
<1>3. ASSUME task'[h].at \notin {"cacheFill", "update", "softDelete", "invalidate"}
      PROVE  AloneTasks' /\ CoherentBut'
  BY <1>1, <1>3, AloneReadOnly DEF AloneTask
<1>4. CASE Finish(h)
  BY <1>1, <1>3, <1>4 DEF Finish, Idle, TasksOK
<1>5. CASE StartSend(h) \/ StartForward(h) \/ StartOnMessage(h)
  <2>1. t.at = "idle"
    BY <1>5 DEF StartSend, StartForward, StartOnMessage, Start
  <2>2. QED
    BY <1>1, <1>3, <2>1, StepChangesOne
<1>6. CASE FindOriginal(h) /\ ~Finish(h)
  <2>1. task'[h].at = "create"
    BY <1>1, <1>6 DEF FindOriginal, TasksOK, Task
  <2>2. QED
    BY <1>3, <2>1
<1>7. CASE CacheGet(h)
  <2>1. CASE cache[t.m] = NoCopy
    <3>1. task'[h].at = "findById"
      BY <1>1, <1>7, <2>1 DEF CacheGet, Goto, TasksOK, Task
    <3>2. QED
      BY <1>3, <3>1
  <2>2. CASE cache[t.m] # NoCopy /\ ~Finish(h)
    <3>1. t.m \in MessageIds /\ t.at = "cacheGet"
      BY <1>1, <1>7 DEF CacheGet, HandlerOK
    <3>2. msg[t.m].state \in {"live", "purged"}
      BY <1>2, <2>2, <3>1 DEF AInv, CoherentBut
    <3>3. task'[h].at \in {"update", "softDelete"} /\ task'[h].m = t.m
      BY <1>1, <1>7, <2>2 DEF CacheGet, Proceed, TasksOK, Task
    <3>4. AloneTask(task[h])'
      BY <1>1, <3>2, <3>3 DEF AloneTask
    <3>5. QED
      BY <1>1, <3>4, AloneReadOnly
  <2>3. QED
    BY <1>4, <2>1, <2>2
<1>8. CASE FindById(h) /\ ~Finish(h)
  <2>1. /\ msg[t.m].state = "live"
        /\ task'[h].at = "cacheFill" /\ task'[h].m = t.m /\ task'[h].copy = CopyOf(t.m)
    BY <1>1, <1>8 DEF FindById, TasksOK, Task
  <2>2. AloneTask(task[h])'
    BY <1>1, <2>1 DEF AloneTask, CopyOf
  <2>3. QED
    BY <1>1, <2>2, AloneReadOnly
<1>9. CASE TouchReactions(h) /\ ~Finish(h)
  <2>1. task'[h].at = "invalidate" /\ task'[h].op = "react"
    BY <1>1, <1>9 DEF TouchReactions, Goto, TasksOK, Task, HandlerOK
  <2>2. AloneTask(task[h])'
    BY <2>1 DEF AloneTask
  <2>3. QED
    BY <1>1, <2>2, AloneReadOnly
<1>10. QED
  BY <1>4, <1>5, <1>6, <1>7, <1>8, <1>9

LEMMA AloneCreate ==
  ASSUME IInv, AInv, OneBusy', NEW h \in Handlers, Step(h), Create(h)
  PROVE  AloneTasks' /\ CoherentBut'
<1> DEFINE t == task[h]
<1>1. /\ TasksOK /\ t \in Task /\ cache' = cache /\ t.at = "create" /\ TablesOK
  BY DEF IInv, TasksOK, Create
<1>2. CASE Finish(h) /\ msg' = msg
  <2>1. task'[h].at = "idle"
    BY <1>1, <1>2 DEF Finish, Idle, TasksOK
  <2>2. QED
    BY <1>1, <1>2, <2>1, AloneReadOnly DEF AloneTask
<1>3. ASSUME NEW m \in MessageIds, msg[m].state = "none", NEW row, NEW copy, NEW sender,
             row = [state |-> "live", sender |-> sender, content |-> t.content,
                    status |-> "SENT"],
             copy = [sender |-> sender, content |-> t.content, status |-> "SENT"],
             msg' = [msg EXCEPT ![m] = row],
             task' = [task EXCEPT ![h].at = "cacheFill", ![h].m = m, ![h].copy = copy]
      PROVE  AloneTasks' /\ CoherentBut'
  <2>1. msg'[m] = row /\ \A k \in MessageIds \ {m} : msg'[k] = msg[k]
    BY <1>1, <1>3 DEF TablesOK
  <2>2. task'[h].at = "cacheFill" /\ task'[h].m = m /\ task'[h].copy = copy
    BY <1>1, <1>3 DEF TasksOK, Task
  <2>3. AloneTask(task[h])'
    <3>1. CopyOf(m)' = copy /\ msg'[m].state = "live"
      BY <1>3, <2>1 DEF CopyOf
    <3>2. QED
      BY <2>2, <3>1 DEF AloneTask
  <2>4. cache'[m] = NoCopy
    BY <1>1, <1>3 DEF IInv, CacheOK, CopyOK
  <2>5. QED
    BY <1>1, <2>1, <2>3, <2>4, AloneStep
<1>4. QED
  BY <1>2, <1>3 DEF Create

LEMMA AloneKeys ==
  ASSUME IInv, AInv, OneBusy', NEW h \in Handlers, Step(h), CacheFill(h) \/ Invalidate(h)
  PROVE  AloneTasks' /\ CoherentBut'
<1> DEFINE t == task[h]
<1>1. /\ TasksOK /\ TablesOK /\ t \in Task /\ HandlerOK(t) /\ t.m \in MessageIds /\ msg' = msg
      /\ AloneTask(t)
  BY DEF IInv, AInv, AloneTasks, TasksOK, Handlers_OK, HandlerOK, CacheFill, Invalidate
<1>2. PICK m \in MessageIds : m = t.m
  BY <1>1
<1>3. CASE CacheFill(h)
  <2>1. t.at = "cacheFill" /\ msg[m].state = "live" /\ t.copy = CopyOf(m)
    BY <1>1, <1>2, <1>3 DEF CacheFill, AloneTask
  <2>2. cache' = [cache EXCEPT ![m] = CopyOf(m)]
    BY <1>2, <1>3, <2>1 DEF CacheFill
  <2>3. cache'[m] = CopyOf(m) /\ \A k \in MessageIds \ {m} : cache'[k] = cache[k]
    BY <1>1, <2>2 DEF TablesOK
  <2>4. task'[h].at \in {"idle", "update", "softDelete"} /\ (task'[h].at # "idle" => task'[h].m = m)
    BY <1>1, <1>2, <1>3 DEF CacheFill, Proceed, Finish, Idle, TasksOK, Task
  <2>5. AloneTask(task[h])'
    BY <1>1, <2>1, <2>4 DEF AloneTask
  <2>6. CopyOf(m)' = CopyOf(m)
    BY <1>1 DEF CopyOf
  <2>7. QED
    BY <1>1, <2>1, <2>3, <2>5, <2>6, AloneStep
<1>4. CASE Invalidate(h)
  <2>1. cache'[m] = NoCopy /\ \A k \in MessageIds \ {m} : cache'[k] = cache[k]
    BY <1>1, <1>2, <1>4 DEF Invalidate, TablesOK
  <2>2. task'[h].at = "idle"
    BY <1>1, <1>4 DEF Invalidate, Finish, Idle, TasksOK
  <2>3. AloneTask(task[h])'
    BY <2>2 DEF AloneTask
  <2>4. QED
    BY <1>1, <1>2, <2>1, <2>3, AloneStep
<1>5. QED
  BY <1>3, <1>4

LEMMA AloneWrites ==
  ASSUME IInv, AInv, OneBusy', NEW h \in Handlers, Step(h),
         Update(h) \/ SoftDelete(h) \/ UpdateStatus(h)
  PROVE  AloneTasks' /\ CoherentBut'
<1> DEFINE t == task[h]
<1>1. /\ TasksOK /\ TablesOK /\ t \in Task /\ HandlerOK(t) /\ AloneTask(t)
      /\ t.m \in MessageIds /\ msg[t.m] \in Row /\ cache' = cache
      /\ t.at \in {"update", "softDelete", "updateStatus"}
  BY DEF IInv, AInv, AloneTasks, TasksOK, TablesOK, Handlers_OK, HandlerOK, Update,
         SoftDelete, UpdateStatus, Write
<1>2. PICK m \in MessageIds : m = t.m
  BY <1>1
<1>3. ASSUME NEW row, Stored(m), msg' = [msg EXCEPT ![m] = row], Goto(h, "invalidate"),
             t.op = "edit" => row.state = "live" /\ row.content = t.content,
             t.op = "delete" => row.state = "deleted"
      PROVE  AloneTasks' /\ CoherentBut'
  <2>1. msg'[m] = row /\ \A k \in MessageIds \ {m} : msg'[k] = msg[k]
    BY <1>1, <1>3 DEF TablesOK
  <2>2. /\ task'[h].at = "invalidate" /\ task'[h].m = m /\ task'[h].op = t.op
        /\ task'[h].content = t.content
    BY <1>1, <1>2, <1>3 DEF Goto, TasksOK, Task
  <2>3. AloneTask(task[h])'
    BY <1>3, <2>1, <2>2 DEF AloneTask
  <2>4. QED
    BY <1>1, <2>1, <2>2, <2>3, AloneStep
<1>4. CASE Finish(h) /\ msg' = msg
  <2>1. task'[h].at = "idle"
    BY <1>1, <1>4 DEF Finish, Idle, TasksOK
  <2>2. QED
    BY <1>1, <1>4, <2>1, AloneReadOnly DEF AloneTask
<1>5. CASE Update(h)
  <2>1. /\ t.op = "edit" /\ (Stored(m) => msg[m].state = "live")
        /\ Write(h, "update", [msg[m] EXCEPT !.content = t.content])
    BY <1>1, <1>2, <1>5 DEF Update, Write, HandlerOK, AloneTask, Stored
  <2>2. PICK row : row = [msg[m] EXCEPT !.content = t.content]
    OBVIOUS
  <2>3. (Stored(m) => row.state = "live") /\ row.content = t.content
    BY <1>1, <1>2, <2>1, <2>2 DEF Row
  <2>4. QED
    BY <1>2, <1>3, <1>4, <2>1, <2>2, <2>3 DEF Write
<1>6. CASE SoftDelete(h)
  <2>1. t.op = "delete" /\ Write(h, "softDelete", [msg[m] EXCEPT !.state = "deleted"])
    BY <1>1, <1>2, <1>6 DEF SoftDelete, Write, HandlerOK
  <2>2. PICK row : row = [msg[m] EXCEPT !.state = "deleted"]
    OBVIOUS
  <2>3. row.state = "deleted"
    BY <1>1, <1>2, <2>2 DEF Row
  <2>4. QED
    BY <1>2, <1>3, <1>4, <2>1, <2>2, <2>3 DEF Write
<1>7. CASE UpdateStatus(h)
  <2>1. PICK st \in Marks : Write(h, "updateStatus", [msg[m] EXCEPT !.status = st])
    BY <1>2, <1>7 DEF UpdateStatus
  <2>2. t.op = "mark"
    BY <1>1, <2>1 DEF Write, HandlerOK
  <2>3. PICK row : row = [msg[m] EXCEPT !.status = st]
    OBVIOUS
  <2>4. QED
    BY <1>2, <1>3, <1>4, <2>1, <2>2, <2>3 DEF Write
<1>8. QED
  BY <1>5, <1>6, <1>7

\* An event goes out with the last call of a request, which writes no row.
LEMMA TellsAfterWrite ==
  ASSUME NEW h \in Handlers, Step(h), Tells(h)
  PROVE  msg' = msg
  BY DEF Tells, Succeeds, Step, StartSend, StartForward, StartOnMessage, Start, FindOriginal,
     Create, CacheGet, FindById, CacheFill, Update, SoftDelete, UpdateStatus, Write,
     TouchReactions, Invalidate

LEMMA RelayKeepsCurrent ==
  ASSUME IInv, AInv, ToldIsTrue, NEW h \in Handlers, Step(h), Relay(h)
  PROVE  ToldCurrent'
<1> DEFINE t == task[h]
<1>1. AloneTask(t) /\ HandlerOK(t) /\ ToldCurrent /\ told \in [MessageIds -> Event]
  BY DEF AInv, AloneTasks, IInv, Handlers_OK, ToldIsTrue
<1>2. CASE ~Tells(h)
  <2>1. told' = told
    BY <1>2 DEF Relay, Emit
  <2>2. \A m \in Direct \ quiet' : /\ m \notin quiet
                                   /\ msg'[m].content = msg[m].content
                                   /\ msg'[m].state = msg[m].state
    BY <1>2 DEF Relay
  <2>3. QED
    BY <1>1, <2>1, <2>2 DEF ToldCurrent
<1>3. CASE Tells(h)
  <2>1. PICK m \in MessageIds : m = t.m /\ m \in Direct
    BY <1>3 DEF Tells, Direct
  <2>2. /\ told' = [told EXCEPT ![m] = EventOf(t)] /\ quiet' = quiet \ {m} /\ msg' = msg
    BY <1>3, <2>1, TellsAfterWrite DEF Relay, Emit
  <2>3. PICK e : e = EventOf(t)
    OBVIOUS
  <2>4. told'[m] = e /\ \A k \in MessageIds \ {m} : told'[k] = told[k]
    BY <1>1, <2>2, <2>3
  <2>5. /\ msg[m].state \in {"live", "deleted"}
        /\ msg[m].state = "live" =>
             e.kind \in {"received", "edit"} /\ e.content = msg[m].content
        /\ msg[m].state = "deleted" => e.kind = "delete"
    <3>1. CASE t.op = "send" /\ t.at = "cacheFill"
      <4>1. msg[m].state = "live" /\ t.content = msg[m].content
        BY <1>1, <2>1, <3>1 DEF AloneTask, HandlerOK, CopyOf
      <4>2. e = [kind |-> "received", content |-> t.content]
        BY <2>3, <3>1 DEF EventOf
      <4>3. QED
        BY <4>1, <4>2
    <3>2. CASE t.op = "edit" /\ t.at = "invalidate"
      <4>1. msg[m].state = "live" /\ t.content = msg[m].content
        BY <1>1, <2>1, <3>2 DEF AloneTask
      <4>2. e = [kind |-> "edit", content |-> t.content]
        BY <2>3, <3>2 DEF EventOf
      <4>3. QED
        BY <4>1, <4>2
    <3>3. CASE t.op = "delete" /\ t.at = "invalidate"
      <4>1. msg[m].state = "deleted"
        BY <1>1, <2>1, <3>3 DEF AloneTask
      <4>2. e = [kind |-> "delete", content |-> NoContent]
        BY <2>3, <3>3 DEF EventOf
      <4>3. QED
        BY <4>1, <4>2
    <3>4. QED
      BY <1>3, <3>1, <3>2, <3>3 DEF Tells, Succeeds
  <2>6. ASSUME NEW k \in Direct \ quiet'
        PROVE  /\ msg'[k].state = "none" => told'[k] = Nothing
               /\ msg'[k].state = "live" =>
                    told'[k].kind \in {"received", "edit"} /\ told'[k].content = msg'[k].content
               /\ msg'[k].state = "deleted" => told'[k].kind = "delete"
    <3>1. CASE k = m
      BY <2>2, <2>4, <2>5, <3>1
    <3>2. CASE k # m
      <4>1. k \in MessageIds \ {m} /\ k \in Direct \ quiet
        BY <2>2, <2>6, <3>2 DEF Direct
      <4>2. QED
        BY <1>1, <2>2, <2>4, <4>1 DEF ToldCurrent
    <3>3. QED
      BY <3>1, <3>2
  <2>7. QED
    BY <2>6 DEF ToldCurrent, Direct
<1>4. QED
  BY <1>2, <1>3

\* A key that runs out takes nothing but itself away.
LEMMA AloneExpire ==
  ASSUME IInv, AInv, NEW m \in MessageIds, Expire(m), UNCHANGED gatewayVars
  PROVE  AInv'
<1>1. /\ UNCHANGED <<msg, task>> /\ cache' = [cache EXCEPT ![m] = NoCopy]
      /\ cache \in [MessageIds -> Copy \cup {NoCopy}]
  BY DEF Expire, IInv, TablesOK
<1>2. OneBusy' /\ AloneTasks' /\ ToldCurrent'
  BY <1>1 DEF AInv, OneBusy, AloneTasks, AloneTask, CopyOf, ToldCurrent, gatewayVars
<1>3. CoherentBut'
  BY <1>1 DEF AInv, CoherentBut, CopyOf
<1>4. QED
  BY <1>2, <1>3 DEF AInv

\* A group goes with its messages between two requests: their keys keep the last
\* copies, and no receiver had been told of them.
LEMMA AloneDeleteGroup ==
  ASSUME IInv, AInv, AtRest, deleteGroup, UNCHANGED gatewayVars
  PROVE  AInv'
<1>1. /\ msg \in [MessageIds -> Row] /\ UNCHANGED <<cache, task>>
      /\ msg' = [m \in MessageIds |-> IF m \in GroupMessages /\ Stored(m)
                                      THEN [msg[m] EXCEPT !.state = "purged"] ELSE msg[m]]
  BY DEF deleteGroup, IInv, TablesOK
<1>2. OneBusy' /\ AloneTasks'
  BY <1>1 DEF AInv, AtRest, OneBusy, AloneTasks, AloneTask
<1>3. \A m \in MessageIds : /\ CopyOf(m)' = CopyOf(m)
                            /\ msg'[m].state \in {msg[m].state, "purged"}
                            /\ m \in Direct => msg'[m] = msg[m]
  BY <1>1 DEF CopyOf, Row, Direct
<1>4. CoherentBut'
  BY <1>1, <1>3 DEF AInv, AtRest, CoherentBut
<1>5. ToldCurrent'
  BY <1>3 DEF AInv, ToldCurrent, gatewayVars, Direct
<1>6. QED
  BY <1>2, <1>4, <1>5 DEF AInv

mcVars == <<vars, gatewayVars, instance>>

\* The inductive invariant of the instances.
MCInv == IInv /\ ToldIsTrue /\ (Alone => AInv)

LEMMA MCNextMCInv == MCInv /\ [MCNext]_mcVars => MCInv'
<1> SUFFICES ASSUME MCInv, [MCNext]_mcVars PROVE MCInv'
  OBVIOUS
<1>1. [FaultyGatewayNext]_<<vars, gatewayVars>>
  BY DEF MCNext, mcVars, FaultyGatewayNext
<1>2. IInv' /\ ToldIsTrue'
  BY <1>1, GatewayIsMessages, FaultyNextIInv, GatewayKeepsTold DEF MCInv
<1>3. ASSUME Alone' PROVE AInv'
  <2>1. Alone /\ IInv /\ ToldIsTrue /\ AInv
    BY <1>3 DEF MCInv, MCNext, mcVars, Alone
  <2>2. CASE UNCHANGED mcVars
    BY <2>1, <2>2 DEF mcVars, vars, gatewayVars, AInv, OneBusy, AloneTasks, AloneTask, CopyOf,
       CoherentBut, ToldCurrent
  <2>3. CASE MCNext
    <3>1. OneBusy' /\ GatewayNext /\ (deleteGroup => AtRest)
      BY <2>1, <2>3 DEF MCNext, OneBusy
    <3>2. ASSUME NEW h \in Handlers, Step(h), Relay(h) PROVE AInv'
      <4>1. ToldCurrent'
        BY <2>1, <3>2, RelayKeepsCurrent
      <4>2. AloneTasks' /\ CoherentBut'
        BY <2>1, <3>1, <3>2, AloneReads, AloneCreate, AloneKeys, AloneWrites DEF Step
      <4>3. QED
        BY <3>1, <4>1, <4>2 DEF AInv
    <3>3. QED
      BY <2>1, <3>1, <3>2, AloneExpire, AloneDeleteGroup DEF GatewayNext
  <2>4. QED
    BY <2>2, <2>3
<1>4. QED
  BY <1>2, <1>3 DEF MCInv

LEMMA MCInitMCInv == MCInit => MCInv
<1> SUFFICES ASSUME MCInit PROVE MCInv
  OBVIOUS
<1>1. IInv /\ ToldIsTrue
  BY GatewayInitTrue DEF MCInit
<1>2. AInv
  BY DEF MCInit, GatewayInit, Init, AInv, OneBusy, AloneTasks, AloneTask, CoherentBut,
         ToldCurrent, Idle, Direct
<1>3. QED
  BY <1>1, <1>2 DEF MCInv

LEMMA InstancesInv == MCSpec => []MCInv
  BY MCInitMCInv, MCNextMCInv, PTL DEF MCSpec, mcVars

\* message.service.ts:129 and 144, "Invalidate cache": one request at a time and
\* nothing failing, what is cached is the stored row, or the last state of a row
\* that group.repository.ts:68 removed with its group and that nothing
\* invalidates; it is never a deleted message.
THEOREM AloneCoherent == MCSpec => []AloneCacheCoherent
<1>1. MCInv => AloneCacheCoherent
  BY DEF MCInv, AInv, CoherentBut, AloneCacheCoherent, CacheCoherentAtRest, AtRest
<1>2. QED
  BY <1>1, InstancesInv, PTL

\* message.gateway.ts:92: one request at a time and nothing failing, the last
\* event the receiver got agrees with the table.
THEOREM AloneToldCurrent == MCSpec => []AloneToldIsCurrent
<1>1. MCInv => AloneToldIsCurrent
  BY DEF MCInv, AInv, ToldCurrent, AloneToldIsCurrent, ToldIsCurrent
<1>2. QED
  BY <1>1, InstancesInv, PTL
=============================================================================
