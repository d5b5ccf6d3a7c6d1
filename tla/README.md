# Verification of the social-communication backend

TLA+ modules, TLC runs and TLAPS proofs for the TypeScript backend under
`src/`: an Express HTTP API and a socket.io gateway over PostgreSQL (Prisma)
and Redis.  Paths below are relative to `src/`.

The program has one shape everywhere.  A handler (an HTTP request or a socket
event) runs on Node's single thread, awaits one database or cache call after
another, and between two awaits holds only what it has read.  No operation
opens a transaction and nothing is locked, so **every `await` is a point where
another handler may run**, and a handler that fails half-way leaves what it has
written.  The models have one action per awaited call for that reason.

## 1. Inventory

| component | state | operations | interacts with | hard part |
|---|---|---|---|---|
| Friend requests (`modules/user/friend-request.*`) | `friend_requests`, `follows` | send, accept, reject, cancel, remove | users (existence check) | check-then-write on one table, two more writes on another |
| Calls (`modules/call/*`, `infrastructure/jitsi.service.ts`) | `calls`, `call_participants`, `call:<id>` keys | initiate, join, end, leave, reject, over HTTP and sockets | Jitsi token, socket rooms of users | status read long before it is written; loop of inserts; notices after the fact |
| Messages (`modules/message/*`) | `messages`, `message:<id>` keys | send, forward, get, edit, delete, delivered/seen | groups (cascade), gateway events | cache filled from old reads; permission checked on a cached copy |
| Chat list and queries (`modules/message/message.repository.ts`, `modules/group/*`) | none of its own | chat list, messages of a group, of two users, of a search, a user's groups | messages, groups | one answer gathered from many calls while others write |
| Reactions (same files) | `message_reactions`, `message_reactions:<id>` keys | add, remove, list, own | messages | the list's key is never invalidated |
| Authentication (`modules/auth/*`, `middlewares/auth-guard.ts`) | `refresh_tokens`, `users` | register, login, refresh, logout, logoutAll | presence column | token rotation and revocation interleave |
| Users (`modules/user/user.*`) | `users`, `user:<id>` keys | register, read, update, delete | sessions, presence | two checks before a create; a cached copy |
| Presence (`modules/message/message.gateway.ts`, `UserService.updateOnlineStatus`) | `users.isOnline`, `presence:<id>` keys, sockets | connect, disconnect | process, login and logout | two sockets of one user; unawaited writes; column and key written separately; crashes |
| Groups (`modules/group/*`) | `groups`, `group_members` | create, update, delete, add, remove, leave, role | messages (cascade) | permission read and write are two calls; creation is two writes |
| Real-time delivery (`modules/message/message.gateway.ts`, `infrastructure/socket.manager.ts`) | socket rooms, typing keys | send, edit, delete, typing | message and call services | nobody joins a group room; the event follows the write by a call |
| Server lifecycle (`application/server.ts`, `modules/health/*`) | the process, its flags, client connections | start, readiness probe, signals, shut down | Redis, Prisma, sockets | ping against a timer; shutdown waits for sockets; a second signal |
| Cache and Redis client (`infrastructure/cache.service.ts`, `config/redis.ts`) | keys with a time to live; the connection | get, set, delete; retry, give up | every service | errors are swallowed: a miss, or a write or delete that is lost |
| HTTP pipeline, configuration, documents, seed | rate-limit counters | validation, error mapping | all | little state of their own |

What makes each component correct:

- *Friend requests*: one live row for an ordered pair; a row moves only the
  ways and by the users the guards intend; following needs consent and is mutual.
- *Calls*: only invited users take part; a call is ongoing only when somebody
  joined, and is closed by who may close it; who is rung can answer.
- *Messages*: a key holds its own message; only the sender changes or deletes
  it; a deleted message stays deleted; a receiver is told only what was stored.
- *Queries*: an answer is that of one state when nobody writes, and loses no
  conversation when somebody does; a page lies within the total; it comes.
- *Reactions*: only its user adds or removes one.
- *Accounts*: no two share an email or a name; a cached user was once true, and
  is so still when requests do not overlap.
- *Sessions*: a revoked or lapsed token is never honoured; a refresh retires its
  token; logoutAll ends every session.
- *Presence*: online exactly while a socket is open, as far as the code goes.
- *Groups*: ownership begins and ends by a decision of staff or with the group;
  only an owner deletes; members are let in by staff; no member without a group.
- *Server*: a start ends, a shutdown waits for clients only, success means that
  everything was released.

## 2. Modules

| module | models |
|---|---|
| `FriendRequestLifecycle` | abstract: the life of a friend-request row, one atomic step per change |
| `FriendRequests` | the friend-request service, call by call |
| `Calls` | the call service, its gateway and its controller |
| `Messages` | the message service with its per-message cache |
| `MessageGateway` | what the receivers of messages are told: the gateway over `Messages` |
| `ChatLists` | the chat list and the paged lists, call by call, with others writing |
| `Reactions` | reactions with the cached list |
| `Sessions` | refresh tokens: login, refresh, logout, logoutAll, with a clock |
| `UserRows`, `Accounts` | the unique columns of a user; registration, reads, updates, deletion and the cache of users |
| `Identity` | `Sessions` and `Accounts` over one users table |
| `Groups` | groups, members and roles behind the HTTP routes |
| `ProcessLifecycle` | abstract: what the process promises whoever starts and stops it |
| `ServerLifecycle` | start-up, the Redis client, the readiness probe, signals and shutdown |
| `Presence` | sockets, the `isOnline` column and the presence key |
| `Backend` | `ServerLifecycle` and `Presence` together |
| `FriendRequestsProofs`, `CallsProofs`, `MessagesProofs` (with the gateway), `ReactionsProofs`, `IdentityProofs` (`Sessions`, `Accounts` and the two together), `GroupsProofs`, `BackendProofs` (`Presence`, `ServerLifecycle` and the two together), `ChatListsProofs` | the TLAPS proofs about them |
| `MCFriendRequests`, `MCCalls`, `MCMessages`, `MCReactions`, `MCSessions`, `MCIdentity`, `MCGroups`, `MCBackend`, `MCChatLists` | the instances TLC checks, with their symmetry |

How they are composed: `MessageGateway` EXTENDS `Messages` and conjoins the
gateway's part (`Relay`) to each of its steps; `Identity` EXTENDS `Sessions` and
takes `Accounts` as an INSTANCE (named `A`), the two sharing `deleted` and
`online`; `Backend` EXTENDS
`Presence` and takes `ServerLifecycle` as an INSTANCE `WITH conns <- open`: what
the HTTP server counts as connections are the sockets of `Presence`.
Refinements: `FriendRequests` implements `FriendRequestLifecycle`,
`ServerLifecycle` and `Backend` implement `ProcessLifecycle`; `Identity`
implements `Sessions` and `Accounts`.

**Common shape.** `Handlers` is the set of requests that can be in flight.
`task[h]` is what handler `h` is serving: `op`, the authenticated `actor`, the
arguments, what was read and is still held, and `at`, the awaited call it makes
next.  A `Start...` action takes a request from an idle handler with any
arguments the route lets through.  That is more than the schemas of the
validation say: `validate` (`middlewares/validation.ts:8`) parses the body and
drops the result, so keys no schema names reach the handler, and where the
handler hands the body on, they reach the database.  The models have what such
a body writes in the tables they keep: another sender of a message, the status
and `isOnline` of a user, the members of a group.  Each later action makes the call `at`
names, applies the code's conditions on what it returned, and either moves `at`
on or replies, in which case the handler is idle again.  A thrown error is a
reply.  `Spec` has no failures; `FaultySpec` adds, in each module,

- `Abort`: the awaited call fails or the process dies, before the call took
  effect; the handler ends and what it had written stays.  A call that took
  effect and whose answer was lost is the same state one action later;
- `CacheFails` (where there is a cache): `CacheService` catches its errors, so a `get` is a miss and a
  `set` or `delete` is lost while the handler goes on
  (`infrastructure/cache.service.ts:7-36`).

`Expire`, the end of a key's time to live, is in `Spec` too.

Variables called history (`consents`, `invited`, `joined`, `held`, `quiet`,
`parent`, `killed`, `was`, `behind`, `founder`, `promoted`, `blurred`, `unkeyed`,
`since`, `stays`, and `late` in a session's task) record the past for the
properties and are read by no action.  `staff` of `Groups` is the one that is
read, by `Known`.

**FriendRequests** (`modules/user/friend-request.service.ts`,
`.repository.ts`).  `request` is the table, a row per uuid ever issued, with
`UNUSED` for a uuid not yet issued and `DELETED` for a removed row; `follows`
are pairs.  The actions follow the service line by line:

| action | code |
|---|---|
| `StartSend`, `StartDecision`, `StartRemove` | the controller's handlers |
| `FindSender`, `FindReceiver`, `FindExisting`, `FindReverse`, `Create` | `sendFriendRequest` 17-54 |
| `FindToAccept`, `MarkAccepted`, `FollowForward`, `FollowBack` | `acceptFriendRequest` 57-87 |
| `FindToReject`, `MarkRejected` | `rejectFriendRequest` 89-112 |
| `FindToCancel`, `MarkCanceled` | `cancelFriendRequest` 117-144 |
| `FindFriendship`, `DeleteRow`, `UnfollowMine`, `UnfollowTheirs`, `UnfollowFails` | `removeFriend` 171-194 |
| `writeStatus` | `UserService.deleteUser`, which soft-deletes the account and leaves its rows, and an update whose body writes the status back |

A `Create` that breaks `@@unique([senderId, receiverId])` is an error, and so
is a write to a row that is gone.

**Calls** (`modules/call/call.service.ts`, `call.gateway.ts`).  `task[h].via`
tells HTTP from a socket: both run the same service operation, a socket handler
also emits events, collected in `outbox` (the events of the last step).
`initiateCall` is `CreateCall`, one `Invite` per turn of the loop of inserts
(the list comes from the client, so it may repeat a user or name the initiator,
and the unique key makes the repetition fail), then `CacheActive`, which also
issues the Jitsi token and fails when `JitsiConfigured` is FALSE.  `Decide` is
what join, end and reject do with the call `FindCall` returned; the status they
saw travels in `task[h].ringing`.  `Uncache` is the end of `endCall`, where the
gateway then reads `.participants` of a row returned without them and throws.
Left out are the event to the caller's own socket (`call.gateway.ts:42`), which
tells the caller what its reply would, and the two hours after which the key of
an active call lapses (`call.service.ts:74`): `endCall` deletes it and nothing
reads it.

**Messages** (`modules/message/message.service.ts`).  A row's `state` is
`live`, `deleted` (the `deletedAt` column) or `purged` (removed with its group).
`Copy` is what a cached or read message carries.  `editMessage` and
`deleteMessage` begin with `getMessage`, so all three start at `CacheGet`, then
`FindById`, then `CacheFill`; `Proceed` is what each does with the copy, and the
sender check is made there, on the copy.  The writes are by id alone and do not
look at `deletedAt`; `Invalidate` deletes the key afterwards.  The body of a send
is spread over the actor's id (`message.controller.ts:97-100`), so the row names
the sender the body names (`Senders`).  `deleteGroup` is the one write of a
group's deletion, an ordinary request of `Groups`: it removes the rows of its
messages and leaves their keys, which `getMessage` goes on serving
(`AloneCacheCoherent` says that nothing else is stale).  Reactions appear as the
deletion of the message's key only (`TouchReactions`).

**Reactions**.  The rows and the `message_reactions:<id>` key.  Grouping by
emoji and counting is a function of the set of `<<user, emoji>>` pairs, so a
list is that set.  The messages here are direct ones: a group's deletion, which
would take the rows away, is in `Messages` only.  No property is about the
cached list: no write deletes its key, so that what it answers may be as old as
its time to live (section 6).

**Sessions** (`modules/auth/auth.service.ts`).  `jwt.sign` is deterministic: a
refresh token is determined by the user and the second it is signed in, so a
token *is* the pair `<<user, second>>`, and the unique key on the column makes a
second one of the same second an error (`CreateToken`).  `Sign` is the
synchronous part of `generateAuthTokens`, which runs in the same turn of the
event loop as the answer before it; storing the token is the next action, and
the clock (`Tick`) may move in between.  `StartRefresh` contains `jwt.verify`,
which throws before the first await when the token has expired; `FindToken`
compares the stored expiry again.  The stored expiry has milliseconds, so at the
very second it falls in the model lets the token pass.  Access tokens carry no
state: any user may call `logout` and `logoutAll`.  The task's `reply` tells
only success from failure.

**Groups** (`modules/group/group.service.ts`).  `role[g][u]` is the row of the
`group_members` table, or `"none"`.  `CheckPermission` reads it; `Update`,
`Delete`, `AddMember`, `GetTarget` act on it a call later.  The body of an update
goes to Prisma as it came (`group.controller.ts:215`, `group.repository.ts:61`),
so `Update` may rewrite the group's member rows in the same call: any of them,
in any roles.  Other relations a body might name are left out.  A foreign key
and a unique key make `AddMember` fail; deleting a group cascades.  The removal route
is `/:id/members/:userId` while its handler reads `params.memberId`, so the
service is called with an undefined target and Prisma refuses the lookup
(`GetTarget`).  A client can only name a group it has seen: `Known` says the
owner's row exists or existed, since a group is listed through its members and
`createGroup` answers after the row is written; `NoGroup` stands for every other
uuid.

**MessageGateway** (`modules/message/message.gateway.ts`).  A request reaches
`Messages` over HTTP or over a socket (`Arrive`), and when the service's last
call has returned, the socket's handler emits to the receiver's room in the same
turn (`Emit`); over HTTP it emits nothing.  `told` is the last event a message's
receiver got.  A group's room has no members, since `joinGroupRoom` has no
caller, so the events of group messages reach nobody.

**ChatLists** (`message.repository.ts:211-401` and the paged queries of
`message.service.ts`, `group.service.ts`).  `getChatList` is `FindDirect`,
`FindGroupMessages`, `FindGroups`, then for each conversation `FindLast` and
`CountUnread`; the paged lists are `Find` then `Count`.  `table` is the messages
in the order of creation, `Gone` where one was deleted.  The writers are the
operations of `Messages` and `Groups` seen from the tables, the one call of each
that changes a row; an edit is one of them, since it may take a message out of a
search.  A message may be to an id that is no user's (`Strangers`), as
`receiverId` has no relation: such a conversation is looked at and then not
listed (`message.repository.ts:334`).  Page and limit of the chat list are
validated; of the four others they are any numbers (`Pages`, `Limits`): a
negative `skip` is refused by the database, a negative limit takes rows from the
end (`Slice`), a limit of 0 none.  Left out are numbers that are not whole, and
bodies of a send that set `createdAt` or `deletedAt`.  An order (`orderBy`, `Array.sort`, the insertion order of a
JavaScript `Set`) is `Sorted`: the enumeration of a set in which none comes
before what should precede it.  A group deleted under way is not dropped by
`FindGroups`: its messages went with it, so `FindLast` finds none and passes on.

**Accounts** (`auth.service.ts:28-54`, `user.service.ts`).  Registration is
`FindByEmail`, `FindByUsername`, `Create`, with the two unique columns in
`CanStore`; deleted rows keep theirs, so the address of a deleted account is
refused with 500.  `CacheGet`, `FindById`, `CacheFill` are `getUserById`, which
`getUserPresence` ends in when the presence key is missing; `Update` and
`SoftDelete` are followed by `Invalidate`.  Updating writes by id alone, a
deleted account too, and any column its body names, the status and `isOnline`
among them (`user.controller.ts:115`, `user.repository.ts:29`); bodies that name
the id or a relation are left out.  The cached copy carries `isOnline`, which
login, logout and the sockets write past it (`updateOnlineStatus`): `behind`
holds the users whose copy may tell it wrong, and `CachedUserIsCurrent` excepts
that column for them and nothing else.

**Identity**.  `SessionStep` is a step of `Sessions` by a user who is registered;
`AccountStep` a step of `Accounts`.  The status and `isOnline` are the columns
they share: an account's writes of them are `writeUser` of `Sessions`, and the
sessions' writes of `isOnline` are `updateOnlineStatus` of `Accounts`.

**ServerLifecycle** (`application/server.ts`, `config/redis.ts`,
`health.controller.ts`).  `phase` is the await `startServer` or `shutdown` is at.
The ping is answered (`PingAnswered`), overtaken by its timer (`PingTimesOut`) or
refused by a client that closes (`RedisCloses`); then the server listens or
finds its port in use.  `Signal` covers the time before the handlers are
installed, the first signal, and a second one.  `Drained` is the callback of
`server.close`, `Releases` the two disconnections.  `Exit` is every end.

**Presence** (`message.gateway.ts:20-36, 148-153`, `user.service.ts:78-88`).  A
connection starts an update that nobody awaits, a disconnection another; `online`
and `offline` hold the next call of each.  The column is written, then the key.
Login and logout write the column alone (`HttpWrites`).  `blurred` holds the
users whom overlapping events, a second socket, a failed write, a login or an
ended process left with a column that may be wrong; a later undisturbed event
puts it right.

**Backend**.  Sockets connect only while the server listens, a shutdown waits for
them, and the end of the process, whatever it is, is `ProcessEnds` too.  The
column and the key outlive it.

**External code.** PostgreSQL is taken to make each call atomic and to enforce
unique and foreign keys; Redis to make each command atomic.  Both are used with
no options that would weaken this.  Nothing else is assumed about them.

## 3. Runs

| run | asks | instance |
|---|---|---|
| `friend_races` | one row per pair, consent, who decides and which life cycle a row has, with overlap, failures and crashes; and alone: the strict life cycle and mutual follows | 2 users, 3 rows, 2 handlers with faults; 3 users, 3 rows, 1 handler without |
| `friend_auto_accept` | does a send that meets a pending reverse request accept it? **no** | 2 users, 1 handler |
| `call_races` | who takes part, who sets which status, what can a ring rely on? | 3 users, 1 call, 2 handlers, lists of up to 2 |
| `call_invited_join` | can an invited user join? **no** | 2 users, 1 handler |
| `message_races` | what do late fills, races, faults and group deletions leave true of the rows, the cache and what receivers are told; and alone: do cache and events agree with the table? | 2 users, 2 messages (one in a group), 2 contents; 2 handlers over HTTP with faults, 2 over sockets on one message with faults, 1 over both without |
| `message_stale_fill` | is a deleted message gone from the cache? **no** | 2 users, 1 message, 2 handlers |
| `reaction_races` | is every reaction its user's own, with adds, removals and the message's deletion overlapping? | 2 users, 1 message, 2 emojis, 2 handlers |
| `session_races` | what can a revoked or expired token never do again; what of accounts is unique, what may the cache hold, and is it current when nothing overlaps? | 1 account, seconds 0 to 2, tokens living 1 second, 2 handlers and a deletion; 2 users, 2 emails, 2 names, 2 requests with faults; one request without |
| `session_logout_all` | does logoutAll end every session? **no** | 1 user, 2 handlers |
| `group_races` | who may end or pass on ownership, delete, let in, with permission read a call too early and updates that rewrite the members | 3 users, 1 group, 2 handlers |
| `server_presence` | what `isOnline` and the key mean through outages, signals and crashes; is the life cycle implemented; when does a shutdown end? | 1 user, 2 sockets without probes; 1 socket with probes; 3 retries |
| `chat_lists` | is an undisturbed answer exact, is no conversation lost, is a page within its total, does every query end? | 2 users, 1 id that is no user's, 1 group, 2 messages, 1 text, pages 0 to 2, limits 1 and -1, 1 handler |

`MCFriendRequests`, `MCMessages`, `MCIdentity` and `MCBackend` run several
instances in one state space: a variable that never changes says which one a
behaviour belongs to, and a property about one of them is guarded by it
(`Alone...`; `Alone` picks the instance that serves one request at a time).  An instance with one handler and no faults is what the code's
comments speak of; the others are what it is exposed to.

The four runs marked **no** each check one statement of a comment, message or
test that the code contradicts; TLC prints the shortest way there:

1. `AutoAcceptWorks`: `sendFriendRequest` accepts the reverse request on behalf
   of the wrong user and always answers 403 (`friend-request.service.ts:45`).
2. `InvitedCanJoin`: initiating a call writes the participant rows; `joinCall`
   creates the same row again, breaks the unique key and answers 500
   (`call.service.ts:107`).  A user who is not on the list passes the insert but
   is refused by the check before it, so nobody joins but an initiator who left
   itself off the list.
3. `DeletedNotServed`: a fill of the cache that was decided before a delete lands
   after the delete's invalidation, and the deleted message is served until the
   key expires.  The trace TLC prints is of `sendMessage`'s own fill
   (`message.service.ts:45-49`): the row is there and can be deleted by id before
   the copy is cached.  The fill of `getMessage` (line 68) does the same to a
   message that was there before.
4. `LogoutAllEndsSessions`: a refresh that has found its token live stores the
   new one after `logoutAll` revoked the old (`auth.service.ts:113`).

**Bounds.**  Two handlers reach every pair of overlapping operations, and a
guard reads one row, so two are enough for a race.  Two users give both
directions of a pair, with a third where an outsider matters (someone not on
the call's list, a second friend).  `RequestIds` bounds the rows ever created:
three allow a row each way and a new one after a deletion.  `MaxInvites` is 2:
a list that repeats a user, and a loop that can fail half-way.  One call is
enough because no operation reads two; the same holds of groups, and of the
tokens of two users, which share no row and no key.  Three seconds and a lifetime
of one let a token be refreshed, its successor be refreshed again, and the first
be found lapsed by a refresh that was verified in time.  Two messages are needed for forwards
and for a copy under a wrong key; in the instance over sockets one, direct,
message is enough, as an event concerns one.  Delivery marks are in the
instance with one handler only, as no property of the others reads them, and of
one kind: whether a copy agrees with its row does not depend on which.
`RoomForCreate` lets a create start only while a message id is left for it.
Two users compete for two emails and two names: a race for one, and a free
one to move to.  Two sockets of one user are what the column cannot tell apart;
users share nothing.  Three retries are the code's (`config/redis.ts:16`).
Two emojis of two users give a user a second reaction to one message.
In `chat_lists` one user asks, and `MCNext` leaves out what cannot reach that
user's lists (`Reaches`); a query holds nothing of the one before it, so each kind
is gone through as a handler's first, from every state of the tables, and
of the later ones a single kind stands for all (`Ended`).  Two messages, one
entry a page and pages 1 and 2 give a conversation that empties, one that
appears, and a page past the end; page 0 and limit -1 are what an unvalidated
query may ask: with page 0 the skip is negative under limit 1, and positive under
limit -1.  Identifiers are interchangeable where the instances
use symmetry, and only for runs of safety properties; `server_presence` and
`chat_lists`, which check liveness, use none.

**Deadlock** is checked in every run: an idle handler can always start a
request, a stopped process can start, so no state stops the system.

**Fairness** is assumed in three modules.

- `ServerLifecycle` and `Backend`: weak fairness of each step whose callback the
  event loop or a timer owes: the database connection is settled, the two-second
  timer fires, an attempt to connect to Redis ends one way or the other, the
  callback of `server.close` runs once no connection is left, the releases end,
  a pending presence update goes on or fails.  Strong fairness of the probe's
  ping only: Redis may come and go, and a probe that finds it up often enough is
  answered.  Clients, signals, outages and crashes are not fair.
- `ChatLists`: weak fairness of each handler's awaited call: Prisma settles it,
  and other requests do not stop the event loop.

Under it TLC checks that a start and a release end (`ImplementsLifecycle`, whose
abstract specification has the two progress conditions), that a shutdown ends
unless some client never leaves (`ShutdownWaitsForClientsOnly`: nothing closes
the sockets), that who has left for good is recorded offline in the end
(`GoneIsRecorded`) and that every query ends (`QueriesEnd`).  The other modules
claim no liveness: their requests are straight lines of awaited calls.  That a
ringing call is never timed out is a fact of the code with no action to model.

Each property of a passing run has a mutant in `PROJECT.json`: an operator next
to the one it replaces, commented *Mutant*, with a plausible slip (a dropped
check, a swapped order, a forgotten invalidation), under which the run fails.

## 4. Proofs

Each proof module is about the specification with faults (`FaultySpec`,
`GatewaySpec`, `IdentitySpec`, `BackendSpec`; the failures of `ChatLists` are in
its `Spec`), that is every interleaving, failed call, lost cache write and crash,
and holds for any sets of users, identifiers and handlers and any bound.  The
runs show the same properties on small instances.  What is asked of one request
at a time is proved of the specification its run checks (`MCSpec`), in which
`Alone` picks the behaviours without overlap and faults; the sets stay arbitrary.

**Every invariant and every action property of a passing run is a theorem.**

| module | theorems (property proved) |
|---|---|
| `FriendRequestsProofs` | `TypeCorrect` (`TypeOK`), `OneRowPerPair` (`AtMostOneRow`), `NoFollowWithoutConsent` (`FollowsNeedConsent`), `DecisionsAreAuthorised` (`OnlyPartiesDecide`), `LifecycleImplemented` (`ImplementsRacyLifecycle`), `AloneMutual` (`AloneFollowsMutual`), `AloneLifecycleImplemented` (`AloneImplementsLifecycle`) |
| `CallsProofs` | `TypeCorrect` (`TypeOK`), `OnlyInvited` (`OnlyInvitedTakePart`), `OngoingIsJoined` (`OngoingHasBeenJoined`), `RingsInvited` (`RingFollowsInvite`), `StatusIsAuthorised` (`StatusSetByRightUser`) |
| `MessagesProofs` | `TypeCorrect` (`TypeOK`), `KeysHoldTheirMessage` (`CachedCopyIsOfItsMessage`), `DeletedForGood` (`DeletedStaysDeleted`), `SenderRewrites` (`OnlySenderRewrites`), `ToldTrue` (`ToldIsTrue`), `AloneCoherent` (`AloneCacheCoherent`), `AloneToldCurrent` (`AloneToldIsCurrent`) |
| `ReactionsProofs` | `TypeCorrect` (`TypeOK`), `OwnReactions` (`OwnReactionsOnly`) |
| `IdentityProofs`, sessions | `TypeCorrect` (`TypeOK`), `Lapsing` (`SessionsLapse`), `RevokedRefused` (`RevokedNotHonoured`), `RevokedForGood` (`RevokedStaysRevoked`), `OldRetired` (`RefreshRetiresOld`) |
| `IdentityProofs`, accounts | `AccountsTypeCorrect`, `IdentitiesUnique`, `CachedUsersWereTrue`, of `Accounts` alone |
| `IdentityProofs`, together | `AccountsImplemented`, `SessionsImplemented` (no run checks it), `LapsingTogether` (`SessionsLapse`), `IdentitiesUniqueTogether` (`UniqueIdentities`), `CachedUsersWereTrueTogether` (`CachedUserWasTrue`), `AloneCachedCurrent` (`AloneCachedUserIsCurrent`) |
| `GroupsProofs` | `TypeCorrect` (`TypeOK`), `OwnershipDecided` (`OwnershipIsDecided`), `OwnerDeletes` (`DeletedByItsOwner`), `MembersAreDecided` (`MembershipIsDecided`) |
| `BackendProofs` | `PresenceImplemented`, `TypeCorrect` (`TypeOK`), `OnlineIsConnected` (`OnlineWhileConnected`), `KeyFollowsColumn` (`KeyAgrees`), `ExitIsClean` (`CleanExit`), `ServerTypeCorrect` (`BackendTypeOK`), `LifecycleImplemented` (the safety of `ImplementsLifecycle`) |
| `ChatListsProofs` | `TypeCorrect` (`TypeOK`), `UndisturbedExact` (`UndisturbedIsExact`), `NoneLost` (`NoConversationLost`), `PagesWithinTotal` (`PageWithinTotal`), `QueriesAdvance` (the safety of `QueriesEnd`) |

Type correctness is proved, for every value of the constants, and is a property
of a run for `Reactions` only.

The assumptions are the named ones of the modules: sentinels (`NoUser`,
`NoMessage`, `NoCopy` and the like) are not members of the sets they stand
outside of, a token's lifetime is positive, group messages are messages,
statuses clients report are DELIVERED or SEEN, `Retries` and `MaxMessages` are
natural numbers, pages and limits are integers, an id that is no user's is not
one of a user or a group; `NoList` is none of the sets of reactions.

**The argument** is the same for all the services.  None of these properties is
inductive alone, since what makes a write right is a check made calls earlier,
on a row others may have changed since.  The inductive invariant is

    IInv == the tables are in order /\ tasks are typed /\ Handlers_OK

where `HandlerOK(t)` says what a handler with task `t` *still* knows at its next
call, although everything else has moved on:

- *friend requests*: the row it holds has been issued, its actor is the user the
  call requires, and where a follow is about to be written the consent is
  recorded.  Status is not part of it: that is what the races change;
- *messages*: the copy it is about to cache was once true of its message, and
  before `update` or `softDelete` its actor is the message's sender;
- *sessions*: the given token exists; a new one was signed while the given one
  lasted; a token that was late is still revoked and only about to be looked up;
- *calls*: the call it has read exists; the turns of the invite loop that are
  over have written their rows; who is about to get a row or to set a status is
  on the list, is the initiator, or has joined, as the call requires;
- *accounts*: the row it is about to cache is one its account has had, the
  account it acts on exists;
- *reactions*: a handler about to write the table has an actor and an emoji, and
  one about to cache a list has one;
- *groups*: the group had staff when it was named; before `delete` the actor is
  its founder or was made its owner by an update, before `update` and `addMember`
  the actor was of its staff, before `removeMember` an actor who is an owner by
  now was made one by an update.

Such facts concern what never changes (a row's users, a message's sender, a
group's founder), what only grows (the history), and what is final (revoked,
deleted, gone).  So the proofs go by frame: `RowsStable`, `MessagesStable`,
`TokensStable`, `GroupsStable` say what no step undoes; `HandlerStable` carries
a handler's knowledge over any such step; and each action is then checked for
its own handler (`Advance`) and for the tables it writes.  `GroupsProofs` needs
three facts more: once a group is known nobody becomes its owner without being
promoted by an update (`Stable`), between the two writes of `createGroup` a group waits for its
owner with no member at all (`Waiting`), and no two handlers wait to give the
same group its owner (`OneCreator`).  `FaultyNextIInv` combines one lemma per
group of actions; the action properties then follow from `IInv` and one step.

`LifecycleImplemented` needs two facts more: an unused uuid has an empty row, and
a handler about to delete a row has seen it accepted, so that it is not PENDING,
which it cannot become again (`LifecycleInv`).  `RowStep` reduces a step to what
it does to the table, and each case is a move of the abstract specification.

**One request at a time.**  The invariant of that instance adds to `IInv` that no
second handler is busy, that what the handler has read is still so (`StillTrue`,
`AloneTasks`, `FillIsCurrent`: nobody wrote in between), and that the tables
agree *but for what the request has yet to write*: the other half of a follow
(`FollowsBut`), or a key it is about to invalidate (`CoherentBut`,
`CachedIsCurrent`).  At rest nothing is left over, which is the property.  What a
receiver was told agrees even in flight (`ToldCurrent`), since `quiet` holds the
message from its write to its event.  `AloneLifecycleImplemented` uses the same
invariant: a status that was read is the status when it is written, so the three
moves of races never happen.

In `IdentityProofs` the composition's invariant (`TogetherInv`) is that of the two
parts and that whoever a handler serves has an account.  Every step is a step of
`Sessions` or leaves its variables alone, a write of the status or of `isOnline`
being the `writeUser` of `Sessions`, and the same for `Accounts`; so the theorems
about the parts hold of the whole, and three are restated there.

`ChatListsProofs` has the longest argument, for two reasons.  First, orders: that
`Sorted` is an enumeration at all rests on `LastOne` (a finite set has an element
that comes before no other; a minimal counterexample over its finite subsets
takes the place of an induction, which the provers cannot instantiate).  Then an
entry's place in the list is the number of those before it (`Rank`), and a page
is the entries whose rank falls into it, which is how `UndisturbedIsExact` says
it; a page of a negative limit is counted from the end (`SliceIs`).  Second, the gathering: what has been listed and what is still to be looked
at are together, at each call, the conversations of the user (`Listing`), each
once (`EachOnce`), as long as nothing was written; and whatever was written they
leave out none that was there all along.  A write keeps that, since its history
`stays` loses exactly the conversations it takes away.  `PageOK` carries a page
from its call to that of its total: what is added meanwhile can only raise the
count, and an edit that takes a text out of a message counts as a removal.  `QueriesAdvance` orders what a query still has to do: the lists to fetch
first, then two calls for each conversation found.  Each call lowers it and
others' steps do not touch it, so that of `QueriesEnd` only the use of fairness
is left to TLC.

`BackendProofs` is about sockets instead of handlers.  Its invariant says, of a
user who is not `blurred`: connections and disconnections are not under way at
once; while a write is pending the sockets already are as it will say; and when
the last write of the column, or of the key, is over, it tells the truth
(`Consistent`).  A step disturbs one user (`OthersUntouched`).  `BackendStep`
shows that the process adds nothing to what the gateway does.  `ExitIsClean`
needs `Releasing`: past the last connection nothing is connected, nobody has
signalled again, and Redis is waited for only if it is to be quit.
`LifecycleImplemented` needs the types of the process (`ServerInv`), whose
inductive form says that the lazy Redis client is untouched before the ping, and
that a client which has not given up has failed at most `Retries` times.

Model-checked only: liveness, which is out of the prover's reach, that is
`QueriesEnd`, `GoneIsRecorded`, `ShutdownWaitsForClientsOnly` and the progress in
`ImplementsLifecycle`.  The four runs that end in a violation refute a statement,
and have nothing to prove.

## 5. Abstract specifications

`FriendRequestLifecycle` says what a row may do, with no handler in it.  Its
`SequentialSpec` has the moves the service's guards allow when requests do not
overlap (an accepted request may still be rejected: that guard does not exist);
`RacySpec` adds the three moves two overlapping handlers can make.
`FriendRequests` implements the first with one handler and no faults
(`AloneImplementsLifecycle`), the second always (`ImplementsRacyLifecycle`);
both are checked and proved.  The difference is exactly what the missing transaction
costs.  The mapping is the identity on `request`.

`ProcessLifecycle` is a process as an operator sees it: stopped, starting,
serving, draining, releasing, with any of them ending at any time, and two
promises, that a start comes to an end and that a release does.
`ServerLifecycle` implements it under the mapping `ProcessState` of the awaits to
those five, and `Backend` does so with the gateway attached; that each step maps
to a move or to none is proved, the two promises are checked.

`Sessions` is the abstract specification of `Identity`: with accounts that are
registered, rewritten and deleted beside them, its tokens do nothing else.  That
follows step by step from the composition, so it is proved and no run repeats it.

## 6. Not modelled, and why

- **Typing indicators**: the keys are written and no code reads them, and Redis
  answers the calls of one socket in order.
- **Group rooms**: `joinGroupRoom` is called by nothing, so an event sent to a
  group reaches nobody; there is no behaviour to check.  For the same reason
  `updateMemberRole`, `verifyAccessToken` and `blacklistToken`, which only tests
  call, and `exists`, `deletePattern` and the counters of the cache are left out.
- **The Redis adapter of socket.io**: it matters for a second server only.
- **HTTP pipeline, rate limiting, error mapping, logging, documents,
  configuration**: no state of the program's own but the limiter's, a
  third-party store.  What validation admits bounds the inputs.
- **Seed and migration scripts**: one-shot tools that run beside no server.
- **Reads of one call**: pending requests, friends, followers, `getCall`,
  `getUserCalls`, user search: each answers from one state of one table.
- **`Device`, `Notification`, `BlockedUser`, `Report`, `ActivityLog`**: tables
  of the schema no code under `src/` uses outside the seed.
- **Payloads**: titles, metadata, file types, Jitsi token contents, wording; of a
  message's text only which searches match it.

Known differences from the documents that have no run of their own: a user who
accepted a request may send a second one back, and `removeFriend` then removes
one of the two accepted rows (`friend-request.service.ts:43`, `:173`); a cancel
overlapping an accept cancels an accepted request (`:138`, the move
`<<"ACCEPTED", "CANCELED">>` of `RacyMoves`); an accept overlapping a removal
leaves follows without a row (`:184`); ending a call over a socket tells nobody
(`call.gateway.ts:104`); a join that read RINGING reopens a call that was ended
meanwhile (`call.service.ts:110`); MISSED is never set; a reaction list, once
cached, is answered for thirty minutes whatever is added or removed, since no
write deletes its key (`message.service.ts:159-179`), while
`tests/integration/enhanced-reactions.test.ts` expects the new list right after
(`:193-200`, `:228-235`, `:262-269`): in `Reactions` two steps show it, a list and
an add; the cached message of a deleted group is served until its key
expires (`group.repository.ts:69`, the exception in `CacheCoherentAtRest`); a
presence answered from the cached user may tell an `isOnline` that login, logout
or a socket has written over since (`user.service.ts:98-101`, the exception in
`CachedUserIsCurrent`); a request's body may name another sender of a message, the
status of an account or the members of a group, though the schemas of the
validation do not; a conversation with an id that is no user's has messages and is in
no chat list (`message.repository.ts:334`); the last message of a direct
conversation may be a group message that names a receiver (`:302`);
`totalPages` means nothing where a list is asked for with a limit of zero or less
(`response.ts:66`); no member can be removed over HTTP
(`group.controller.ts:336`); a second emoji is a second reaction
(`message.repository.ts:122`); messages written over HTTP are not announced to
sockets (`message.controller.ts:93`); a user with two sockets goes offline when
one disconnects (`message.gateway.ts:151`); the address of a deleted account is
refused with 500 (`auth.service.ts:44`); a successful exit can leave the last
clients online in the database (`server.ts:123`).

## 7. Plan

What is modelled is what keeps state.  What would add to it, in order:

1. Proofs: what makes the other liveness properties hold but for fairness, as
   `QueriesAdvance` does for `QueriesEnd`: a pending presence write is gone after
   a bounded number of its steps, a release after two.
2. An abstract group with a fixed owner, which `Groups` implements, and a
   session as a chain of tokens with one live end, for `Sessions`.
3. Two servers behind the Redis adapter: rooms and presence across processes.
4. The cascade of a group's deletion in `Reactions`, which is in `Messages` now.
5. Bodies of updates that write other relations than those modelled.
