------------------------------ MODULE Reactions ------------------------------
(***************************************************************************)
(* Reactions to messages (MessageService.addReaction, removeReaction,      *)
(* getMessageReactions, getUserReaction).  The grouped list is cached under*)
(* message_reactions:<id>, a key no write deletes: addReaction and         *)
(* removeReaction delete message:<id>, which module Messages models.       *)
(* The messages are direct ones: no group deletion takes their rows away.  *)
(*   live      messages that exist and are not soft-deleted                *)
(*   rows      the message_reactions table: <<message, user, emoji>>       *)
(*   list      the message_reactions:<id> keys, as sets of <<user, emoji>> *)
(*   task      what each handler is serving and the call it makes next     *)
(***************************************************************************)
EXTENDS Naturals, FiniteSets

CONSTANTS Users, MessageIds, Emojis, Handlers, NoUser, NoMessage, NoEmoji, NoList

ASSUME ReactionAssumption ==
  /\ NoUser \notin Users /\ NoMessage \notin MessageIds /\ NoEmoji \notin Emojis
  /\ \A S \in SUBSET (Users \X Emojis) : S # NoList

VARIABLES live, rows, list, task

vars == <<live, rows, list, task>>

Lists == SUBSET (Users \X Emojis)

Task == [op : {"none", "add", "remove", "list", "own"},
         at : {"idle", "insert", "deleteMany", "invalidate", "cacheGet", "findById", "cacheFill"},
         actor : Users \cup {NoUser}, m : MessageIds \cup {NoMessage},
         emoji : Emojis \cup {NoEmoji}, got : {NoList} \cup Lists,
         reply : {NoList} \cup Lists]  \* what the last getMessageReactions answered

Idle(reply) == [op |-> "none", at |-> "idle", actor |-> NoUser, m |-> NoMessage,
                emoji |-> NoEmoji, got |-> NoList, reply |-> reply]

ReactionsOf(m) == {x \in Users \X Emojis : <<m, x[1], x[2]>> \in rows}

Goto(h, await) == task' = [task EXCEPT ![h].at = await]

Answer(h, reply) == task' = [task EXCEPT ![h] = Idle(reply)]

-----------------------------------------------------------------------------

Start(h) ==
  /\ task[h].at = "idle"
  /\ \E u \in Users, m \in MessageIds, e \in Emojis :
       LET Begin(op, await, emoji) ==
             task' = [task EXCEPT ![h] = [Idle(NoList) EXCEPT
               !.op = op, !.at = await, !.actor = u, !.m = m, !.emoji = emoji]]
       IN \/ Begin("add", "insert", e)
          \/ Begin("remove", "deleteMany", e)
          \/ Begin("list", "cacheGet", NoEmoji)
          \/ Begin("own", "findById", NoEmoji)
  /\ UNCHANGED <<live, rows, list>>

\* addReaction: @@unique([messageId, userId, emoji]) makes a repetition throw.
\* The message may be soft-deleted, its row is still there.
Insert(h) ==
  /\ task[h].at = "insert"
  /\ LET t == task[h]
     IN IF <<t.m, t.actor, t.emoji>> \in rows
        THEN Answer(h, NoList) /\ UNCHANGED rows
        ELSE rows' = rows \cup {<<t.m, t.actor, t.emoji>>} /\ Goto(h, "invalidate")
  /\ UNCHANGED <<live, list>>

\* Mutant: removeReaction forgets the user in its where clause.
DeleteManyOfAnyUser(h) ==
  /\ task[h].at = "deleteMany"
  /\ rows' = rows \ {<<task[h].m, u, task[h].emoji>> : u \in Users}
  /\ Goto(h, "invalidate")
  /\ UNCHANGED <<live, list>>

DeleteMany(h) ==
  /\ task[h].at = "deleteMany"
  /\ rows' = rows \ {<<task[h].m, task[h].actor, task[h].emoji>>}
  /\ Goto(h, "invalidate")
  /\ UNCHANGED <<live, list>>

\* Deletes message:<id> only; the list's key stays.
Invalidate(h) ==
  /\ task[h].at = "invalidate"
  /\ Answer(h, NoList)
  /\ UNCHANGED <<live, rows, list>>

\* An empty list is cached too: [] is truthy.
CacheGet(h) ==
  /\ task[h].at = "cacheGet"
  /\ LET cached == list[task[h].m]
     IN IF cached = NoList THEN Goto(h, "findById") ELSE Answer(h, cached)
  /\ UNCHANGED <<live, rows, list>>

\* Mutant: what findById gave is cached, null included.
FindByIdCachesNull(h) ==
  /\ task[h].at = "findById"
  /\ task' = [task EXCEPT ![h].at = "cacheFill",
       ![h].got = IF task[h].m \in live THEN ReactionsOf(task[h].m) ELSE NoList]
  /\ UNCHANGED <<live, rows, list>>

\* getMessageReactions on a miss, and getUserReaction, which only reads.
FindById(h) ==
  /\ task[h].at = "findById"
  /\ LET t == task[h]
     IN IF t.op = "own" \/ t.m \notin live THEN Answer(h, NoList)
        ELSE task' = [task EXCEPT ![h].at = "cacheFill", ![h].got = ReactionsOf(t.m)]
  /\ UNCHANGED <<live, rows, list>>

CacheFill(h) ==
  /\ task[h].at = "cacheFill"
  /\ list' = [list EXCEPT ![task[h].m] = task[h].got]
  /\ Answer(h, task[h].got)
  /\ UNCHANGED <<live, rows>>

-----------------------------------------------------------------------------

\* MessageService.deleteMessage: soft, the reactions and the list stay.
deleteMessage(m) ==
  /\ live' = live \ {m}
  /\ UNCHANGED <<rows, list, task>>

\* The list's time to live (30 minutes) runs out.
Expire(m) ==
  /\ list[m] # NoList
  /\ list' = [list EXCEPT ![m] = NoList]
  /\ UNCHANGED <<live, rows, task>>

\* A database call fails, or the process dies between two calls.
Abort(h) ==
  /\ task[h].at # "idle"
  /\ Answer(h, NoList)
  /\ UNCHANGED <<live, rows, list>>

\* CacheService swallows its errors: a miss, a lost write.
CacheFails(h) ==
  /\ \/ task[h].at = "cacheGet" /\ Goto(h, "findById")
     \/ task[h].at = "cacheFill" /\ Answer(h, task[h].got)
  /\ UNCHANGED <<live, rows, list>>

Init ==
  /\ live = MessageIds
  /\ rows = {}
  /\ list = [m \in MessageIds |-> NoList]
  /\ task = [h \in Handlers |-> Idle(NoList)]

Step(h) ==
  \/ Start(h) \/ Insert(h) \/ DeleteMany(h) \/ Invalidate(h)
  \/ CacheGet(h) \/ FindById(h) \/ CacheFill(h)

Next ==
  \/ \E h \in Handlers : Step(h)
  \/ \E m \in MessageIds : deleteMessage(m) \/ Expire(m)

FaultyNext == Next \/ \E h \in Handlers : Abort(h) \/ CacheFails(h)

Spec == Init /\ [][Next]_vars

FaultySpec == Init /\ [][FaultyNext]_vars

-----------------------------------------------------------------------------
(* Properties.                                                             *)

\* Every variable has its type, and a fill has a list to write.
TypeOK ==
  /\ live \subseteq MessageIds
  /\ rows \subseteq MessageIds \X Users \X Emojis
  /\ list \in [MessageIds -> {NoList} \cup Lists]
  /\ task \in [Handlers -> Task]
  /\ \A h \in Handlers : task[h].at = "cacheFill" => task[h].got # NoList

\* A reaction appears and disappears only by a step of its own user's handler.
OwnReactionsOnly ==
  [][\A m \in MessageIds, u \in Users, e \in Emojis :
       (<<m, u, e>> \in rows) # (<<m, u, e>> \in rows')
       => \E h \in Handlers : task'[h] # task[h] /\ task[h].actor = u /\ task[h].m = m]_vars
=============================================================================
