------------------------------ MODULE Accounts ------------------------------
(***************************************************************************)
(* User accounts: AuthService.register and UserService with its cache of   *)
(* users (user:<id>).  One action is one awaited call of a request.        *)
(*   account  the users table: its two unique columns, NoAccount before    *)
(*            the account exists; a row is never removed                   *)
(*   deleted  the users whose status is DELETED                            *)
(*   online   the users whose isOnline is set                              *)
(*   cached   the user:<id> keys                                           *)
(*   work     what each request is doing and the call it makes next        *)
(*   was      history: the rows an account has had                         *)
(*   behind   history: cached users whose isOnline was written since, past *)
(*            the cache (neither is read by any action)                    *)
(* The body of an update is not validated: it may write any column.  Left  *)
(* out are bodies that name another id or write other tables through the   *)
(* relations of a user.  Presence is another module: whether its key       *)
(* answers is open here.                                                   *)
(***************************************************************************)
EXTENDS UserRows

CONSTANTS
  Users,     \* the uuids of accounts, finite for TLC
  Requests,  \* in flight at once
  NoUser

VARIABLES account, deleted, online, cached, work, was, behind

stores == <<account, deleted, online, cached, was, behind>>
vars == <<stores, work>>

Ops == {"register", "get", "presence", "update", "delete"}

Calls == {"findByEmail", "findByUsername", "create", "presenceKey", "cacheGet",
          "findById", "cacheFill", "update", "softDelete", "invalidate"}

\* "row" is the row a registration asks for, "copy" what a read found.
Work == [op : Ops \cup {"none"}, at : Calls \cup {"idle"}, user : Users \cup {NoUser},
         row : Account \cup {NoAccount}, copy : Copy \cup {NoAccount}]

Idle == [op |-> "none", at |-> "idle", user |-> NoUser, row |-> NoAccount,
         copy |-> NoAccount]

-----------------------------------------------------------------------------
(* UserRepository *)

Registered == {u \in Users : account[u] # NoAccount}

\* The finds by id, email and username see no deleted account.
Active == Registered \ deleted

HasEmail(S, email) == \E u \in S : account[u].email = email

HasName(S, name) == \E u \in S : account[u].name = name

\* The two unique columns, which the deleted rows still fill.
CanStore(u, row) ==
  ~HasEmail(Registered \ {u}, row.email) /\ ~HasName(Registered \ {u}, row.name)

Store(u, row) ==
  /\ account' = [account EXCEPT ![u] = row]
  /\ was' = [was EXCEPT ![u] = @ \cup {row}]

-----------------------------------------------------------------------------

Begin(r, op, call, u, row) ==
  /\ work[r].at = "idle"
  /\ work' = [work EXCEPT ![r] = [Idle EXCEPT !.op = op, !.at = call, !.user = u, !.row = row]]
  /\ UNCHANGED stores

Goto(r, call) == work' = [work EXCEPT ![r].at = call]

\* The request is answered, with a result or an error.
Finish(r) == work' = [work EXCEPT ![r] = Idle]

StartRegister(r) == \E row \in Account : Begin(r, "register", "findByEmail", NoUser, row)

\* Anybody may read; an account is updated and deleted by whoever has a token
\* of it, which goes on being accepted after the deletion.
StartGet(r) == \E u \in Registered : Begin(r, "get", "cacheGet", u, NoAccount)

StartGetPresence(r) ==
  \E u \in Registered : Begin(r, "presence", "presenceKey", u, NoAccount)

StartUpdate(r) == \E u \in Registered : Begin(r, "update", "update", u, NoAccount)

StartDelete(r) == \E u \in Registered : Begin(r, "delete", "softDelete", u, NoAccount)

-----------------------------------------------------------------------------
(* register *)

FindByEmail(r) ==
  /\ work[r].at = "findByEmail"
  /\ IF HasEmail(Active, work[r].row.email) THEN Finish(r) ELSE Goto(r, "findByUsername")
  /\ UNCHANGED stores

\* The password is hashed before the next call.
FindByUsername(r) ==
  /\ work[r].at = "findByUsername"
  /\ IF HasName(Active, work[r].row.name) THEN Finish(r) ELSE Goto(r, "create")
  /\ UNCHANGED stores

\* Mutant: the columns are not unique, the two checks have to do.
CreateUnchecked(r) ==
  /\ work[r].at = "create"
  /\ \E u \in Users \ Registered : Store(u, work[r].row)
  /\ Finish(r)
  /\ UNCHANGED <<deleted, online, cached, behind>>

\* Who lost a race to the address, or wants that of a deleted account, gets 500.
\* Bound: with every uuid in use the creation fails as well.
Create(r) ==
  /\ work[r].at = "create"
  /\ \/ \E u \in Users \ Registered : CanStore(u, work[r].row) /\ Store(u, work[r].row)
     \/ /\ \A u \in Users \ Registered : ~CanStore(u, work[r].row)
        /\ UNCHANGED <<account, was>>
  /\ Finish(r)
  /\ UNCHANGED <<deleted, online, cached, behind>>

-----------------------------------------------------------------------------
(* getUserById, getUserPresence *)

\* The presence key answers, or is not there.
PresenceKey(r) ==
  /\ work[r].at = "presenceKey"
  /\ Finish(r) \/ Goto(r, "cacheGet")
  /\ UNCHANGED stores

CacheGet(r) ==
  /\ work[r].at = "cacheGet"
  /\ IF cached[work[r].user] # NoAccount THEN Finish(r) ELSE Goto(r, "findById")
  /\ UNCHANGED stores

CopyOf(u) == [row |-> account[u], online |-> u \in online]

\* Mutant: deleted users are found too.
FindByIdAny(r) ==
  /\ work[r].at = "findById"
  /\ work' = [work EXCEPT ![r].at = "cacheFill", ![r].copy = CopyOf(work[r].user)]
  /\ UNCHANGED stores

FindById(r) ==
  /\ work[r].at = "findById"
  /\ LET u == work[r].user
     IN IF u \in Active
        THEN work' = [work EXCEPT ![r].at = "cacheFill", ![r].copy = CopyOf(u)]
        ELSE Finish(r)
  /\ UNCHANGED stores

CacheFill(r) ==
  /\ work[r].at = "cacheFill"
  /\ cached' = [cached EXCEPT ![work[r].user] = work[r].copy]
  /\ behind' = behind \ {work[r].user}
  /\ Finish(r)
  /\ UNCHANGED <<account, deleted, online, was>>

-----------------------------------------------------------------------------
(* updateUser, deleteUser *)

\* Mutant: the new row is cached before it is known to be stored.
UpdateCachedFirst(r) ==
  /\ work[r].at = "update"
  /\ \E row \in Account :
       LET u == work[r].user
       IN /\ cached' = [cached EXCEPT ![u] = [row |-> row, online |-> u \in online]]
          /\ IF CanStore(u, row) THEN Store(u, row) ELSE UNCHANGED <<account, was>>
  /\ Finish(r)
  /\ UNCHANGED <<deleted, online, behind>>

\* By id alone: a deleted account is updated as well.  The body names the columns
\* it writes, the status and isOnline among them.
Update(r) ==
  /\ work[r].at = "update"
  /\ LET u == work[r].user
     IN \/ \E row \in Account : CanStore(u, row) /\ Store(u, row)
           /\ deleted' \in {deleted \cup {u}, deleted \ {u}}
           /\ online' \in {online \cup {u}, online \ {u}}
           /\ Goto(r, "invalidate")
        \/ /\ \E row \in Account : ~CanStore(u, row)
           /\ Finish(r) /\ UNCHANGED <<account, was, deleted, online>>
  /\ UNCHANGED <<cached, behind>>

SoftDelete(r) ==
  /\ work[r].at = "softDelete"
  /\ deleted' = deleted \cup {work[r].user}
  /\ Goto(r, "invalidate")
  /\ UNCHANGED <<account, online, cached, was, behind>>

Invalidate(r) ==
  /\ work[r].at = "invalidate"
  /\ cached' = [cached EXCEPT ![work[r].user] = NoAccount]
  /\ behind' = behind \ {work[r].user}
  /\ Finish(r)
  /\ UNCHANGED <<account, deleted, online, was>>

-----------------------------------------------------------------------------

\* Login, logout and the sockets write isOnline in one call each and leave the
\* cached copy, which getUserPresence answers from.
updateOnlineStatus(u) ==
  /\ online' \in {online \cup {u}, online \ {u}}
  /\ behind' = IF cached[u] # NoAccount THEN behind \cup {u} ELSE behind
  /\ UNCHANGED <<account, deleted, cached, work, was>>

\* CACHE_TTL.USER
Expire(u) ==
  /\ cached[u] # NoAccount
  /\ cached' = [cached EXCEPT ![u] = NoAccount]
  /\ behind' = behind \ {u}
  /\ UNCHANGED <<account, deleted, online, work, was>>

\* The awaited call fails, or the process dies before it.
Abort(r) ==
  /\ work[r].at # "idle"
  /\ Finish(r)
  /\ UNCHANGED stores

\* CacheService swallows its errors.
CacheFails(r) ==
  /\ \/ work[r].at = "cacheGet" /\ Goto(r, "findById")
     \/ work[r].at \in {"cacheFill", "invalidate"} /\ Finish(r)
  /\ UNCHANGED stores

Init ==
  /\ account = [u \in Users |-> NoAccount]
  /\ deleted = {} /\ online = {} /\ behind = {}
  /\ cached = [u \in Users |-> NoAccount]
  /\ work = [r \in Requests |-> Idle]
  /\ was = [u \in Users |-> {}]

Step(r) ==
  \/ StartRegister(r) \/ StartGet(r) \/ StartGetPresence(r)
  \/ StartUpdate(r) \/ StartDelete(r)
  \/ FindByEmail(r) \/ FindByUsername(r) \/ Create(r)
  \/ PresenceKey(r) \/ CacheGet(r) \/ FindById(r) \/ CacheFill(r)
  \/ Update(r) \/ SoftDelete(r) \/ Invalidate(r)

Next ==
  \/ \E r \in Requests : Step(r)
  \/ \E u \in Users : Expire(u)
  \/ \E u \in Registered : updateOnlineStatus(u)

FaultyNext == Next \/ \E r \in Requests : Abort(r) \/ CacheFails(r)

Spec == Init /\ [][Next]_vars

FaultySpec == Init /\ [][FaultyNext]_vars

-----------------------------------------------------------------------------
(* Properties.                                                             *)

\* Every variable has its type; only accounts that exist are deleted, online,
\* cached or about to be, and a request that registers or caches has what to.
AccountsTypeOK ==
  /\ account \in [Users -> Account \cup {NoAccount}]
  /\ cached \in [Users -> Copy \cup {NoAccount}]
  /\ work \in [Requests -> Work]
  /\ was \in [Users -> SUBSET Account]
  /\ deleted \subseteq Registered /\ online \subseteq Registered
  /\ behind \subseteq {u \in Users : cached[u] # NoAccount}
  /\ \A r \in Requests :
       /\ work[r].at \in {"findByEmail", "findByUsername", "create"} => work[r].row \in Account
       /\ work[r].at = "cacheFill" => work[r].copy \in Copy
       /\ work[r].at \notin {"idle", "findByEmail", "findByUsername", "create"}
            => work[r].user \in Registered

\* auth.service.ts:33: no two accounts share an email or a username, deleted
\* ones included, although registrations check in one call and store in another.
UniqueIdentities ==
  \A u, v \in Registered :
    account[u].email = account[v].email \/ account[u].name = account[v].name => u = v

\* user.service.ts:30: what a key holds is a row that user has had, its own and
\* no other's, however late the copy was written.
CachedUserWasTrue == \A u \in Users : cached[u] # NoAccount => cached[u].row \in was[u]

AtRest == \A r \in Requests : work[r].at = "idle"

\* user.service.ts:47 "Invalidate cache": one request at a time and nothing
\* failing, a cached user exists and is as stored, except for an isOnline that
\* login, logout or a socket has written since.
CachedUserIsCurrent ==
  AtRest => \A u \in Users : cached[u] # NoAccount =>
    /\ u \in Active /\ cached[u].row = account[u]
    /\ u \notin behind => cached[u] = CopyOf(u)
=============================================================================
