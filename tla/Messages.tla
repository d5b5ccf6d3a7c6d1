------------------------------- MODULE Messages -------------------------------
(***************************************************************************)
(* The message service (modules/message/message.service.ts): rows in the   *)
(* database, copies of them in the cache under one key per message.        *)
(* Reads fill the cache, writes delete the key afterwards; every database  *)
(* and cache call is awaited on its own, so handlers interleave between    *)
(* them.  Reactions have a module of their own; here they only delete the  *)
(* message's key.                                                          *)
(*   msg     the messages table                                            *)
(*   cache   the message:<id> keys                                         *)
(*   task    what each handler is serving and the call it makes next       *)
(*   held    history: the contents a message's row has had (not read by    *)
(*           any action)                                                   *)
(***************************************************************************)
EXTENDS Naturals, FiniteSets

CONSTANTS
  Users, MessageIds, Contents,  \* finite for TLC
  GroupMessages,  \* the messages that belong to a group (rows go with it)
  Handlers,       \* requests in flight at once
  Marks,          \* the statuses clients report
  NoUser, NoMessage, NoContent, NoCopy

ASSUME MessageAssumption ==
  /\ GroupMessages \subseteq MessageIds
  /\ Marks \subseteq {"DELIVERED", "SEEN"}
  /\ NoUser \notin Users
  /\ NoMessage \notin MessageIds
  /\ NoContent \notin Contents

VARIABLES msg, cache, task, held

vars == <<msg, cache, task, held>>

Statuses == {"SENT", "DELIVERED", "SEEN"}

\* What is cached of a message: sender, content and status stand for the row.
Copy == [sender : Users, content : Contents, status : Statuses]

ASSUME CopyAssumption == NoCopy \notin Copy

Row == [state : {"none", "live", "deleted", "purged"}, sender : Users \cup {NoUser},
        content : Contents \cup {NoContent}, status : Statuses]

Ops == {"none", "send", "forward", "get", "edit", "delete", "mark", "react"}

Awaits == {"idle", "create", "findOriginal", "cacheGet", "findById", "cacheFill",
           "update", "softDelete", "updateStatus", "touchReactions", "invalidate"}

Task == [op : Ops, at : Awaits, actor : Users \cup {NoUser},
         m : MessageIds \cup {NoMessage}, content : Contents \cup {NoContent},
         copy : Copy \cup {NoCopy}]

Idle == [op |-> "none", at |-> "idle", actor |-> NoUser, m |-> NoMessage,
         content |-> NoContent, copy |-> NoCopy]

CopyOf(m) == [sender |-> msg[m].sender, content |-> msg[m].content, status |-> msg[m].status]

\* findUnique by id finds any row; findById only one that is not soft-deleted.
Stored(m) == msg[m].state \in {"live", "deleted"}

Goto(h, await) == task' = [task EXCEPT ![h].at = await]

\* The handler replies: a result, or 403, 404 or 500.
Finish(h) == task' = [task EXCEPT ![h] = Idle]

-----------------------------------------------------------------------------

Start(h, op, await, m, content) ==
  /\ task[h].at = "idle"
  /\ \E u \in Users :
       task' = [task EXCEPT ![h] = [Idle EXCEPT !.op = op, !.at = await, !.actor = u,
                                                !.m = m, !.content = content]]
  /\ UNCHANGED <<msg, cache, held>>

\* Bound: a create starts only when an unused uuid is left for it.
RoomForCreate ==
  Cardinality({h \in Handlers : task[h].at \in {"create", "findOriginal"}})
    < Cardinality({m \in MessageIds : msg[m].state = "none"})

StartSend(h) ==
  RoomForCreate /\ \E content \in Contents : Start(h, "send", "create", NoMessage, content)

StartForward(h) ==
  /\ RoomForCreate
  /\ \E m \in MessageIds : Start(h, "forward", "findOriginal", m, NoContent)

StartOnMessage(h) ==
  \E m \in MessageIds :
    \/ \E op \in {"get", "delete"} : Start(h, op, "cacheGet", m, NoContent)
    \/ \E content \in Contents : Start(h, "edit", "cacheGet", m, content)
    \/ Marks # {} /\ Start(h, "mark", "updateStatus", m, NoContent)
    \/ Start(h, "react", "touchReactions", m, NoContent)

-----------------------------------------------------------------------------
(* sendMessage, forwardMessage *)

\* A missing or deleted original is an error; the copy's content is sent on.
FindOriginal(h) ==
  /\ task[h].at = "findOriginal"
  /\ LET t == task[h]
     IN IF msg[t.m].state = "live"
        THEN task' = [task EXCEPT ![h].at = "create", ![h].content = msg[t.m].content]
        ELSE Finish(h)
  /\ UNCHANGED <<msg, cache, held>>

\* Mutant: the forwarded message is cached under the original's id.
CreateCachedUnderOriginal(h) ==
  /\ task[h].at = "create"
  /\ \E m \in MessageIds :
       /\ msg[m].state = "none"
       /\ msg' = [msg EXCEPT ![m] = [state |-> "live", sender |-> task[h].actor,
                                     content |-> task[h].content, status |-> "SENT"]]
       /\ held' = [held EXCEPT ![m] = {task[h].content}]
       /\ task' = [task EXCEPT ![h].at = "cacheFill",
            ![h].m = IF task[h].op = "forward" THEN @ ELSE m,
            ![h].copy = [sender |-> task[h].actor, content |-> task[h].content,
                         status |-> "SENT"]]
  /\ UNCHANGED cache

\* The senderId of a new message.  That of a send is the body's, if it has one:
\* the body is spread over the actor's id.  A forward names the actor.
Senders(t) == IF t.op = "send" THEN Users ELSE {t.actor}

\* A sender, group or parent that is not there makes it fail, as does the
\* original of a forward that was purged meanwhile.
Create(h) ==
  /\ task[h].at = "create"
  /\ LET t == task[h]
     IN \/ Finish(h) /\ UNCHANGED <<msg, held>>
        \/ /\ t.op = "forward" => Stored(t.m)
           /\ \E m \in MessageIds, sender \in Senders(t) :
                /\ msg[m].state = "none"
                /\ msg' = [msg EXCEPT ![m] = [state |-> "live", sender |-> sender,
                                              content |-> t.content, status |-> "SENT"]]
                /\ held' = [held EXCEPT ![m] = {t.content}]
                /\ task' = [task EXCEPT ![h].at = "cacheFill", ![h].m = m, ![h].copy =
                     [sender |-> sender, content |-> t.content, status |-> "SENT"]]
  /\ UNCHANGED cache

-----------------------------------------------------------------------------
(* getMessage, and the read that editMessage and deleteMessage begin with. *)

\* Mutant: no sender check.
ProceedForAnyone(h, copy) ==
  IF task[h].op \in {"edit", "delete"}
  THEN task' = [task EXCEPT ![h].copy = NoCopy,
         ![h].at = IF task[h].op = "edit" THEN "update" ELSE "softDelete"]
  ELSE Finish(h)

\* What the handler does with the message it got, from the cache or the table.
\* The sender check is made on that copy.
Proceed(h, copy) ==
  LET t == task[h]
  IN IF t.op \in {"edit", "delete"} /\ copy.sender = t.actor
     THEN task' = [task EXCEPT ![h].copy = NoCopy,
            ![h].at = IF t.op = "edit" THEN "update" ELSE "softDelete"]
     ELSE Finish(h)

CacheGet(h) ==
  /\ task[h].at = "cacheGet"
  /\ LET copy == cache[task[h].m]
     IN IF copy = NoCopy THEN Goto(h, "findById") ELSE Proceed(h, copy)
  /\ UNCHANGED <<msg, cache, held>>

FindById(h) ==
  /\ task[h].at = "findById"
  /\ LET m == task[h].m
     IN IF msg[m].state = "live"
        THEN task' = [task EXCEPT ![h].at = "cacheFill", ![h].copy = CopyOf(m)]
        ELSE Finish(h)
  /\ UNCHANGED <<msg, cache, held>>

\* What was read or created is cached, whatever happened to the row since.
CacheFill(h) ==
  /\ task[h].at = "cacheFill"
  /\ cache' = [cache EXCEPT ![task[h].m] = task[h].copy]
  /\ Proceed(h, task[h].copy)
  /\ UNCHANGED <<msg, held>>

-----------------------------------------------------------------------------
(* The writes: by id alone, then the key is deleted.                       *)

Write(h, await, row) ==
  /\ task[h].at = await
  /\ IF Stored(task[h].m)
     THEN msg' = [msg EXCEPT ![task[h].m] = row] /\ Goto(h, "invalidate")
     ELSE Finish(h) /\ UNCHANGED msg
  /\ UNCHANGED cache

\* Mutant: the update writes the whole row back, deletedAt included.
UpdateWholeRow(h) ==
  /\ Write(h, "update", [msg[task[h].m] EXCEPT !.content = task[h].content, !.state = "live"])
  /\ held' = [held EXCEPT ![task[h].m] = @ \cup {task[h].content}]

\* The update does not look at deletedAt.
Update(h) ==
  /\ Write(h, "update", [msg[task[h].m] EXCEPT !.content = task[h].content])
  /\ held' = IF Stored(task[h].m)
             THEN [held EXCEPT ![task[h].m] = @ \cup {task[h].content}] ELSE held

SoftDelete(h) ==
  /\ Write(h, "softDelete", [msg[task[h].m] EXCEPT !.state = "deleted"])
  /\ UNCHANGED held

\* Anyone, any status in any order: updateMessageStatus checks nothing.
UpdateStatus(h) ==
  /\ \E st \in Marks :
       Write(h, "updateStatus", [msg[task[h].m] EXCEPT !.status = st])
  /\ UNCHANGED held

\* addReaction throws for a missing row or a repeated reaction; removeReaction
\* goes on even when it deleted nothing.  Their rows are in module Reactions.
TouchReactions(h) ==
  /\ task[h].at = "touchReactions"
  /\ Goto(h, "invalidate") \/ Finish(h)
  /\ UNCHANGED <<msg, cache, held>>

\* Mutant: the key is deleted only after an edit.
InvalidateOnEditOnly(h) ==
  /\ task[h].at = "invalidate"
  /\ cache' = IF task[h].op = "edit" THEN [cache EXCEPT ![task[h].m] = NoCopy] ELSE cache
  /\ Finish(h)
  /\ UNCHANGED <<msg, held>>

Invalidate(h) ==
  /\ task[h].at = "invalidate"
  /\ cache' = [cache EXCEPT ![task[h].m] = NoCopy]
  /\ Finish(h)
  /\ UNCHANGED <<msg, held>>

-----------------------------------------------------------------------------
(* The rest of the system, and faults.                                     *)

\* The time to live of a key (30 minutes) runs out.
Expire(m) ==
  /\ cache[m] # NoCopy
  /\ cache' = [cache EXCEPT ![m] = NoCopy]
  /\ UNCHANGED <<msg, task, held>>

\* The one write of a group's deletion, whose request is in module Groups: it
\* removes the rows of its messages (onDelete: Cascade), not their keys.
deleteGroup ==
  /\ \E m \in GroupMessages : Stored(m)
  /\ msg' = [m \in MessageIds |-> IF m \in GroupMessages /\ Stored(m)
                                  THEN [msg[m] EXCEPT !.state = "purged"] ELSE msg[m]]
  /\ UNCHANGED <<cache, task, held>>

\* A database call fails, or the process dies between two calls.
Abort(h) ==
  /\ task[h].at # "idle"
  /\ Finish(h)
  /\ UNCHANGED <<msg, cache, held>>

\* CacheService swallows its errors: a get is a miss, a set or delete is lost.
CacheFails(h) ==
  /\ \/ task[h].at = "cacheGet" /\ Goto(h, "findById")
     \/ task[h].at = "cacheFill" /\ Proceed(h, task[h].copy)
     \/ task[h].at = "invalidate" /\ Finish(h)
  /\ UNCHANGED <<msg, cache, held>>

Init ==
  /\ msg = [m \in MessageIds |-> [state |-> "none", sender |-> NoUser,
                                  content |-> NoContent, status |-> "SENT"]]
  /\ cache = [m \in MessageIds |-> NoCopy]
  /\ task = [h \in Handlers |-> Idle]
  /\ held = [m \in MessageIds |-> {}]

Step(h) ==
  \/ StartSend(h) \/ StartForward(h) \/ StartOnMessage(h)
  \/ FindOriginal(h) \/ Create(h) \/ CacheGet(h) \/ FindById(h) \/ CacheFill(h)
  \/ Update(h) \/ SoftDelete(h) \/ UpdateStatus(h) \/ TouchReactions(h)
  \/ Invalidate(h)

Next ==
  \/ \E h \in Handlers : Step(h)
  \/ \E m \in MessageIds : Expire(m)
  \/ deleteGroup

FaultyNext == Next \/ \E h \in Handlers : Abort(h) \/ CacheFails(h)

\* No call fails and the process stays up.
Spec == Init /\ [][Next]_vars

FaultySpec == Init /\ [][FaultyNext]_vars

-----------------------------------------------------------------------------
(* Properties.                                                             *)

\* Every variable has its type; a stored row has a sender and a content, and a
\* handler about to write by id has one.
TypeOK ==
  /\ msg \in [MessageIds -> Row]
  /\ cache \in [MessageIds -> Copy \cup {NoCopy}]
  /\ task \in [Handlers -> Task]
  /\ held \in [MessageIds -> SUBSET Contents]
  /\ \A m \in MessageIds : msg[m].state # "none" =>
       msg[m].sender \in Users /\ msg[m].content \in Contents
  /\ \A h \in Handlers :
       /\ task[h].at # "idle" => task[h].actor \in Users
       /\ task[h].at \in {"create", "update"} => task[h].content \in Contents
       /\ task[h].at \notin {"idle", "create"} => task[h].m \in MessageIds
       /\ task[h].at = "cacheFill" => task[h].copy # NoCopy

\* A key holds a copy of the message it is named after: the sender its row names
\* and a content the row has had, however late the copy was written.  The sender
\* check of editMessage and deleteMessage rests on it.
CachedCopyIsOfItsMessage ==
  \A m \in MessageIds : cache[m] # NoCopy =>
    /\ cache[m].sender = msg[m].sender
    /\ cache[m].content \in held[m]

\* The content or the deletion of a stored message changes only by a step of a
\* handler acting for its sender, although the check ran on a cached copy.
OnlySenderRewrites ==
  [][\A m \in MessageIds :
       /\ msg[m].state \in {"live", "deleted"}
       /\ \/ msg'[m].content # msg[m].content
          \/ msg'[m].state = "deleted" /\ msg[m].state = "live"
       => \E h \in Handlers : /\ task'[h] # task[h]
                              /\ task[h].m = m
                              /\ task[h].actor = msg[m].sender]_vars

\* No interleaving or failure brings a deleted or purged message back.
DeletedStaysDeleted ==
  [][\A m \in MessageIds : msg[m].state \in {"deleted", "purged"} =>
       msg'[m].state \in {"deleted", "purged"}]_vars

AtRest == \A h \in Handlers : task[h].at = "idle"

\* message.service.ts:144: one request at a time and nothing failing, what is
\* cached is the stored row or, which nothing invalidates, the last state of a
\* row that went with its group; it is never a deleted message.
CacheCoherentAtRest ==
  AtRest => \A m \in MessageIds : cache[m] # NoCopy =>
              msg[m].state \in {"live", "purged"} /\ cache[m] = CopyOf(m)

-----------------------------------------------------------------------------
(* What a comment says; the code differs.                                  *)

\* message.service.ts:144 "Invalidate cache": after a delete has run to its end
\* the message is not cached, so getMessage does not serve it.
DeletedNotServed ==
  AtRest => \A m \in MessageIds : msg[m].state = "deleted" => cache[m] = NoCopy
=============================================================================
