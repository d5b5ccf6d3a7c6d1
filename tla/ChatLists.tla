----------------------------- MODULE ChatLists -----------------------------
(***************************************************************************)
(* The lists clients page through: a user's conversations                  *)
(* (MessageRepository.getChatList), the messages of a group, of two users  *)
(* or of a search, and a user's groups.  Each is several database calls    *)
(* outside any transaction, and other requests write between two of them.  *)
(*   table    the messages, in the order of their creation; a deleted one  *)
(*            is Gone, since every query here asks for deletedAt = null    *)
(*   members  pairs <<user, group>>                                        *)
(*   groups   the groups that exist                                        *)
(*   task     the query a handler serves and what it has gathered          *)
(* and two histories, read by no action:                                   *)
(*   since    what was written since the query began                       *)
(*   stays    the conversations a chat list's user has had ever since      *)
(* The writers are the operations of Messages and Groups, seen from here   *)
(* as the one call of each that changes a table.  Users' rows are never    *)
(* removed, so looking them up is not a step: it tells which of the ids    *)
(* that messages were sent to are users'.                                  *)
(***************************************************************************)
EXTENDS Integers, FiniteSets, SequencesExt

CONSTANTS
  Users, Groups, Handlers,
  Strangers,      \* ids of receivers that are no user's: receiverId has no relation
  Texts,          \* what clients search for
  MaxMessages,    \* bound: messages ever sent
  Pages, Limits,  \* the page numbers and limits clients ask for
  NoUser, NoGroup

ASSUME ListAssumption ==
  /\ MaxMessages \in Nat /\ Pages \subseteq Int /\ Limits \subseteq Int
  /\ Users \cap Groups = {} /\ Strangers \cap (Users \cup Groups) = {}
  /\ NoUser \notin Users \cup Strangers /\ NoGroup \notin Groups

VARIABLES table, members, groups, task, since, stays

tables == <<table, members, groups>>
history == <<since, stays>>
vars == <<tables, task, history>>

Receivers == Users \cup Strangers

Conversations == Receivers \cup Groups

\* A message may be to a receiver, to a group, to both or to neither, and has some
\* of the texts that are searched for.
Message == [from : Users, to : Receivers \cup {NoUser}, group : Groups \cup {NoGroup},
            seen : BOOLEAN, has : SUBSET Texts]

Gone == [from |-> NoUser, to |-> NoUser, group |-> NoGroup, seen |-> FALSE, has |-> {}]

Live == {i \in DOMAIN table : table[i] # Gone}

-----------------------------------------------------------------------------
(* The where clauses *)

Newest(S) == CHOOSE i \in S : \A j \in S : j <= i

InGroup(g) == {i \in Live : table[i].group = g}

SentTo(u, v) == {i \in Live : table[i].from = u /\ table[i].to = v}

\* Mutant: only what the other one sent.
FromOther(u, v) == SentTo(v, u)

\* Group messages that name a receiver are among them.
Between(u, v) == SentTo(u, v) \cup SentTo(v, u)

Of(u) == {i \in Live : u \in {table[i].from, table[i].to}}

Found(u, text) == {i \in Of(u) : text \in table[i].has}

\* The messages of a conversation of u, and those that u has not seen.
In(u, c) == IF c \in Groups THEN InGroup(c) ELSE Between(u, c)

Unread(u, c) ==
  {i \in In(u, c) : /\ ~table[i].seen
                    /\ IF c \in Groups THEN table[i].from # u
                       ELSE table[i].from = c /\ table[i].to = u}

\* Whom u has a direct conversation with, by the latest message first.
Other(u, i) == IF table[i].from = u THEN table[i].to ELSE table[i].from

Direct(u, v) == {i \in Of(u) : table[i].group = NoGroup /\ Other(u, i) = v}

Partners(u) == {v \in Receivers : Direct(u, v) # {}}

\* Those of groups u is in, or has sent a message to.
GroupsWith(u) ==
  {g \in Groups : \E i \in InGroup(g) : table[i].from = u \/ <<u, g>> \in members}

\* The conversations of u that a chat list can show.
Listed(u) == (Partners(u) \ Strangers) \cup GroupsWith(u)

GroupsOf(u) == {g \in groups : <<u, g>> \in members}

-----------------------------------------------------------------------------
(* Pages *)

skip(page, limit) == (page - 1) * limit

\* skip and take, of a sequence in the order asked for.  A negative take is of the
\* last rows, and what is skipped then are those at the end.
Slice(page, limit, seq) ==
  LET n == Len(seq)
      d == skip(page, limit)
      passed == IF limit < 0 THEN n - d + limit ELSE d
      last == IF limit < 0 THEN n - d ELSE d + limit
  IN SubSeq(seq, IF passed < 0 THEN 1 ELSE passed + 1, IF last < n THEN last ELSE n)

\* The elements of S in an order of the kind First: orderBy, and Array.sort.
Sorted(S, First(_, _)) ==
  CHOOSE s \in SetToSeqs(S) : \A i, j \in DOMAIN s : i < j => ~First(s[j], s[i])

Latest(S) == Sorted(S, >)

\* Math.ceil(total / limit)
totalPages(total, limit) == (total + limit - 1) \div limit

-----------------------------------------------------------------------------
(* Handlers *)

Ops == {"chats", "group", "direct", "search", "groups"}

Calls == {"directMessages", "groupMessages", "groups", "last", "unread",
          "find", "count"}

Entry == [with : Users \cup Groups, last : 1..MaxMessages, unread : 0..MaxMessages]

Idle == [op |-> "none", at |-> "idle", user |-> NoUser, with |-> NoUser, page |-> 0,
         limit |-> 0, todo |-> <<>>, last |-> 0, items |-> <<>>, total |-> 0]

\* Only the chat list has its page and limit validated.
Valid(page, limit) == page >= 1 /\ limit \in 1..100

\* A query of u begins.  The database refuses to skip a negative number of rows.
Begin(h, op, call, u, with) ==
  /\ task[h].at \in {"idle", "answered"}
  /\ \E page \in Pages, limit \in Limits :
       /\ op = "chats" => Valid(page, limit)
       /\ task' = [task EXCEPT ![h] = IF skip(page, limit) < 0 THEN Idle ELSE
            [Idle EXCEPT !.op = op, !.at = call, !.user = u, !.with = with,
                         !.page = page, !.limit = limit]]
  /\ since' = [since EXCEPT ![h] = "none"]
  /\ stays' = [stays EXCEPT ![h] = IF op = "chats" THEN Listed(u) ELSE {}]
  /\ UNCHANGED tables

StartChats(h) == \E u \in Users : Begin(h, "chats", "directMessages", u, NoUser)

StartGroupMessages(h) == \E u \in Users, g \in Groups : Begin(h, "group", "find", u, g)

StartDirectMessages(h) ==
  \E u \in Users, v \in Receivers : Begin(h, "direct", "find", u, v)

StartSearch(h) == \E u \in Users, text \in Texts : Begin(h, "search", "find", u, text)

StartUserGroups(h) == \E u \in Users : Begin(h, "groups", "find", u, NoUser)

\* What a paged list selects.
Selected(t) ==
  CASE t.op = "group" -> InGroup(t.with)
    [] t.op = "direct" -> Between(t.user, t.with)
    [] t.op = "search" -> Found(t.user, t.with)
    [] t.op = "groups" -> GroupsOf(t.user)

\* Messages come latest first, groups in an order that the members do not tell.
InOrder(t) == IF t.op = "groups" THEN SetToSeq(Selected(t)) ELSE Latest(Selected(t))

\* One awaited call of handler h.
Awaits(h, call) == task[h].at = call /\ UNCHANGED <<tables, history>>

Find(h) ==
  /\ Awaits(h, "find")
  /\ task' = [task EXCEPT ![h].at = "count",
                          ![h].items = Slice(task[h].page, task[h].limit, InOrder(task[h]))]

\* Mutant: what is counted is the page.
CountPage(h) ==
  /\ Awaits(h, "count")
  /\ task' = [task EXCEPT ![h].at = "answered", ![h].total = Len(task[h].items)]

Count(h) ==
  /\ Awaits(h, "count")
  /\ task' = [task EXCEPT ![h].at = "answered", ![h].total = Cardinality(Selected(task[h]))]

-----------------------------------------------------------------------------
(* getChatList *)

Before(a, b) ==
  \/ a.last > b.last
  \/ a.last = b.last /\ a.with \in Users /\ b.with \in Groups

\* A Set keeps the order in which its elements first came.
uniqueUserIds(u) ==
  Sorted(Partners(u), LAMBDA v, w : Newest(Direct(u, v)) > Newest(Direct(u, w)))

uniqueGroupIds(u) ==
  Sorted(GroupsWith(u), LAMBDA g, k : Newest(InGroup(g)) > Newest(InGroup(k)))

allChats(entries) == Sorted(entries, Before)

\* With every conversation looked at, the list is sorted, counted and cut.  Each
\* entry is of another conversation, so the list is the set of its entries.
Go(h, t) ==
  task' = [task EXCEPT ![h] =
    IF t.todo # <<>> THEN [t EXCEPT !.at = "last", !.last = 0]
    ELSE [t EXCEPT !.at = "answered", !.last = 0, !.total = Len(t.items),
                   !.items = Slice(t.page, t.limit, allChats(Range(t.items)))]]

FindDirect(h) ==
  /\ Awaits(h, "directMessages")
  /\ task' = [task EXCEPT ![h].at = "groupMessages", ![h].todo = uniqueUserIds(task[h].user)]

FindGroupMessages(h) ==
  /\ Awaits(h, "groupMessages")
  /\ task' = [task EXCEPT ![h].at = "groups", ![h].todo = @ \o uniqueGroupIds(task[h].user)]

\* The titles of the groups.  One deleted since the call before is not among
\* them; it has no messages left either, so FindLast passes it over.
FindGroups(h) == Awaits(h, "groups") /\ Go(h, task[h])

\* Mutant: a conversation that is empty by now is looked at again.
FindLastAgain(h) ==
  /\ Awaits(h, "last")
  /\ LET t == task[h]
         found == In(t.user, Head(t.todo))
     IN IF found = {} THEN UNCHANGED task
        ELSE task' = [task EXCEPT ![h].at = "unread", ![h].last = Newest(found)]

\* Mutant: the list ends at a conversation that is empty by now.
FindLastBreaks(h) ==
  /\ Awaits(h, "last")
  /\ LET t == task[h]
         found == In(t.user, Head(t.todo))
     IN IF found = {} THEN Go(h, [t EXCEPT !.todo = <<>>])
        ELSE task' = [task EXCEPT ![h].at = "unread", ![h].last = Newest(found)]

FindLast(h) ==
  /\ Awaits(h, "last")
  /\ LET t == task[h]
         found == In(t.user, Head(t.todo))
     IN IF found = {} THEN Go(h, [t EXCEPT !.todo = Tail(@)])
        ELSE task' = [task EXCEPT ![h].at = "unread", ![h].last = Newest(found)]

\* What is found of a receiver that is no user is not listed.
CountUnread(h) ==
  /\ Awaits(h, "unread")
  /\ LET t == task[h]
         c == Head(t.todo)
         entry == [with |-> c, last |-> t.last, unread |-> Cardinality(Unread(t.user, c))]
     IN Go(h, [t EXCEPT !.todo = Tail(@),
                        !.items = IF c \in Strangers THEN @ ELSE Append(@, entry)])

\* A call fails and the request gets 500, or the process goes down.
Abort(h) ==
  /\ task[h].at \in Calls
  /\ task' = [task EXCEPT ![h] = Idle]
  /\ UNCHANGED <<tables, history>>

-----------------------------------------------------------------------------
(* Other requests *)

\* A write that adds or marks, or one that takes something out of a list.
Written(kind) ==
  /\ UNCHANGED task
  /\ since' = [h \in Handlers |->
                 IF task[h].at = "idle" \/ since[h] = "removed"
                 THEN since[h] ELSE kind]
  /\ stays' = [h \in Handlers |->
                 IF task[h].at \in {"idle", "answered"} THEN stays[h]
                 ELSE stays[h] \cap Listed(task[h].user)']

\* Nothing asks whether the sender is a member, or the receiver a user.
send ==
  /\ Len(table) < MaxMessages
  /\ \E from \in Users, to \in Receivers \cup {NoUser}, g \in groups \cup {NoGroup},
        seen \in BOOLEAN, has \in SUBSET Texts :
       table' = Append(table, [from |-> from, to |-> to, group |-> g, seen |-> seen,
                               has |-> has])
  /\ UNCHANGED <<members, groups>>
  /\ Written("added")

\* An edited message may no longer have what a search asks for.
edit ==
  /\ UNCHANGED <<members, groups>>
  /\ \E i \in Live, has \in SUBSET Texts :
       /\ table' = [table EXCEPT ![i].has = has]
       /\ Written(IF table[i].has \subseteq has THEN "added" ELSE "removed")

\* A message once seen may be marked as delivered again.
mark ==
  /\ \E i \in Live, seen \in BOOLEAN : table' = [table EXCEPT ![i].seen = seen]
  /\ UNCHANGED <<members, groups>>
  /\ Written("added")

delete ==
  /\ \E i \in Live : table' = [table EXCEPT ![i] = Gone]
  /\ UNCHANGED <<members, groups>>
  /\ Written("removed")

join ==
  /\ \E u \in Users, g \in groups : members' = members \cup {<<u, g>>}
  /\ UNCHANGED <<table, groups>>
  /\ Written("added")

leave ==
  /\ \E pair \in members : members' = members \ {pair}
  /\ UNCHANGED <<table, groups>>
  /\ Written("removed")

\* The cascade takes the members and the messages.
deleteGroup ==
  /\ \E g \in groups :
       /\ groups' = groups \ {g}
       /\ members' = {pair \in members : pair[2] # g}
       /\ table' = [i \in DOMAIN table |-> IF table[i].group = g THEN Gone ELSE table[i]]
  /\ Written("removed")

-----------------------------------------------------------------------------

Init ==
  /\ table = <<>> /\ members = {} /\ groups = Groups
  /\ task = [h \in Handlers |-> Idle]
  /\ since = [h \in Handlers |-> "none"]
  /\ stays = [h \in Handlers |-> {}]

Start(h) ==
  \/ StartChats(h) \/ StartGroupMessages(h) \/ StartDirectMessages(h)
  \/ StartSearch(h) \/ StartUserGroups(h)

Call(h) ==
  \/ Find(h) \/ Count(h)
  \/ FindDirect(h) \/ FindGroupMessages(h) \/ FindGroups(h)
  \/ FindLast(h) \/ CountUnread(h)

Writes == send \/ edit \/ mark \/ delete \/ join \/ leave \/ deleteGroup

Next ==
  \/ \E h \in Handlers : Start(h) \/ Call(h) \/ Abort(h)
  \/ Writes

\* The database answers, and the requests of others do not stop the event loop.
Spec == Init /\ [][Next]_vars /\ \A h \in Handlers : WF_vars(Call(h))

-----------------------------------------------------------------------------
(* Properties.                                                             *)

\* Every variable has its type, rows refer to groups that exist, and what a query
\* holds can be looked at.
TypeOK ==
  /\ table \in SeqOf(Message \cup {Gone}, MaxMessages)
  /\ members \subseteq Users \X groups /\ groups \subseteq Groups
  /\ \A i \in Live : table[i].group \in groups \cup {NoGroup}
  /\ \A h \in Handlers :
       LET t == task[h]
       IN /\ t.at \in Calls \cup {"idle", "answered"}
          /\ t.at # "idle" => t.op \in Ops /\ t.user \in Users
          /\ t.at \in {"last", "unread"} => t.todo # <<>>
          /\ t.at = "unread" => t.last \in DOMAIN table
          /\ \A k \in DOMAIN t.items :
               t.items[k] \in IF t.op = "chats" THEN Entry ELSE DOMAIN table \cup Groups

\* What one query over one state of the tables would have answered.
Shared(u, c) ==
  {i \in Live : IF c \in Groups THEN table[i].group = c
                ELSE {table[i].from, table[i].to} = {u, c}}

ChatsOf(u) ==
  {[with |-> c, last |-> Newest(Shared(u, c)),
    unread |-> Cardinality({i \in Shared(u, c) :
                 /\ ~table[i].seen
                 /\ IF c \in Users THEN table[i].to = u /\ table[i].from = c
                    ELSE table[i].from # u})] :
     c \in Listed(u)}

RowsOf(t) ==
  CASE t.op = "chats" -> ChatsOf(t.user)
    [] t.op \in {"group", "direct"} -> Shared(t.user, t.with)
    [] t.op = "search" ->
         {i \in Live : /\ t.with \in table[i].has
                       /\ table[i].from = t.user \/ table[i].to = t.user}
    [] t.op = "groups" -> {g \in groups : \E pair \in members : pair = <<t.user, g>>}

\* Of two rows of a list the one that comes first.
Ahead(t, a, b) == IF t.op = "chats" THEN Before(a, b) ELSE a > b

\* How many of n rows a page has, and how many come before a page of m.
Fitting(page, limit, n) ==
  Cardinality({k \in 1..(IF limit < 0 THEN -limit ELSE limit) : skip(page, limit) + k <= n})

Preceding(page, limit, n, m) ==
  IF limit < 0 THEN n - skip(page, limit) - m ELSE skip(page, limit)

\* message.repository.ts:211: where nothing was written meanwhile, the calls of
\* a query amount to one: page and total are those of the whole list, in order,
\* whatever page and limit came unvalidated (a negative limit pages from the end).
\* The order of a user's groups is not told by what is modelled.
UndisturbedIsExact ==
  \A h \in Handlers :
    LET t == task[h]
        rows == RowsOf(t)
    IN t.at = "answered" /\ since[h] = "none" =>
         /\ t.total = Cardinality(rows)
         /\ Range(t.items) \subseteq rows /\ IsInjective(t.items)
         /\ Len(t.items) = Fitting(t.page, t.limit, t.total)
         /\ t.op # "groups" =>
              \A k \in DOMAIN t.items :
                Cardinality({r \in rows : Ahead(t, r, t.items[k])})
                  = Preceding(t.page, t.limit, t.total, Len(t.items)) + k - 1

\* message.repository.ts:301: whatever others write during its many calls, a chat
\* list leaves out no conversation with a user or of a group that was there from
\* its first call to its last, however its messages came and went.
NoConversationLost ==
  \A h \in Handlers :
    LET t == task[h]
    IN t.at = "answered" /\ t.op = "chats" =>
         /\ Cardinality(stays[h]) <= t.total
         /\ t.page = 1 /\ t.total <= t.limit =>
              stays[h] \subseteq {t.items[k].with : k \in DOMAIN t.items}

\* response.ts:66: unless something was removed or edited out of the list between
\* the page and its count, a page with entries is within totalPages (which means
\* nothing where the limit is not positive).
PageWithinTotal ==
  \A h \in Handlers :
    LET t == task[h]
    IN t.at = "answered" /\ since[h] # "removed" /\ t.items # <<>> /\ t.limit > 0
         => t.page <= totalPages(t.total, t.limit)

\* message.repository.ts:321: a query ends, whatever the conversations it goes
\* through have become.
QueriesEnd == \A h \in Handlers : task[h].at \in Calls ~> task[h].at \notin Calls
=============================================================================
