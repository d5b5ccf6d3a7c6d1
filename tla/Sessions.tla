------------------------------ MODULE Sessions ------------------------------
(***************************************************************************)
(* Refresh tokens (modules/auth/auth.service.ts): login, refresh, logout   *)
(* and logoutAll over the refresh_tokens table.  A refresh token is a JWT  *)
(* of the user's data and the second it is signed in, so it is the pair    *)
(* <<user, second>>, and the unique key lets one exist per user and second.*)
(*   now       the clock, in seconds                                       *)
(*   token     the refresh_tokens table                                    *)
(*   online    users whose isOnline column is set                          *)
(*   deleted   users whose account is soft-deleted                         *)
(*   task      what each handler is serving and the call it makes next     *)
(*   parent    history: the token a refresh gave for this one              *)
(*   killed    history: tokens a logoutAll revoked (neither is read by any *)
(*             action)                                                     *)
(* Access tokens are stateless: any user may call logout and logoutAll.    *)
(***************************************************************************)
EXTENDS Naturals

CONSTANTS
  Users, Handlers,
  MaxSecond,  \* bound on the clock
  Lifetime,   \* JWT_REFRESH_EXPIRATION, in seconds
  NoUser, NoToken

ASSUME SessionAssumption ==
  /\ MaxSecond \in Nat
  /\ Lifetime \in Nat \ {0}
  /\ NoUser \notin Users
  /\ NoToken \notin Users \X (0..MaxSecond)

VARIABLES now, token, online, deleted, task, parent, killed

tables == <<token, online, deleted, parent, killed>>
vars == <<now, token, online, deleted, task, parent, killed>>

Tokens == Users \X (0..MaxSecond)

Task == [op : {"none", "login", "refresh", "logout", "logoutAll"},
         at : {"idle", "findByEmail", "verifyPassword", "findToken", "createToken",
               "revokeOld", "revokeGiven", "revokeAll", "setOnline", "setOffline"},
         actor : Users \cup {NoUser},
         given : Tokens \cup {NoToken},  \* the refreshToken of the request
         new : Tokens \cup {NoToken},    \* signed, perhaps not stored yet
         late : BOOLEAN,  \* history: given was revoked when the request came
         reply : {"none", "ok"}]  \* 401 and 500 are no reply

Idle(reply) == [op |-> "none", at |-> "idle", actor |-> NoUser, given |-> NoToken,
                new |-> NoToken, late |-> FALSE, reply |-> reply]

Goto(h, await) == task' = [task EXCEPT ![h].at = await]

Answer(h, reply) == task' = [task EXCEPT ![h] = Idle(reply)]

Stored == {t \in Tokens : token[t] # "none"}

Lapses(t) == t[2] + Lifetime

\* jwt.sign: the clock's second is all that tells a user's tokens apart.
Sign(h, u) == task' = [task EXCEPT ![h].at = "createToken", ![h].new = <<u, now>>]

-----------------------------------------------------------------------------

Start(h, op, await, u, given) ==
  /\ task[h].at = "idle"
  /\ task' = [task EXCEPT ![h] = [Idle("none") EXCEPT
                !.op = op, !.at = await, !.actor = u, !.given = given,
                !.late = given \in Stored /\ token[given] = "revoked"]]
  /\ UNCHANGED <<now, tables>>

StartLogin(h) == \E u \in Users : Start(h, "login", "findByEmail", u, NoToken)

\* jwt.verify accepts a token until its own expiry; others are answered 401.
StartRefresh(h) ==
  \E t \in Stored : now < Lapses(t) /\ Start(h, "refresh", "findToken", t[1], t)

\* The token is optional, and may be any that was issued or an unknown string.
StartLogout(h) ==
  \E u \in Users :
    \/ Start(h, "logout", "setOffline", u, NoToken)
    \/ \E t \in Stored \cup {NoToken} : Start(h, "logout", "revokeGiven", u, t)

StartLogoutAll(h) == \E u \in Users : Start(h, "logoutAll", "revokeAll", u, NoToken)

-----------------------------------------------------------------------------
(* login, refreshAccessToken *)

FindByEmail(h) ==
  /\ task[h].at = "findByEmail"
  /\ IF task[h].actor \in deleted
     THEN Answer(h, "none") ELSE Goto(h, "verifyPassword")
  /\ UNCHANGED <<now, tables>>

VerifyPassword(h) ==
  /\ task[h].at = "verifyPassword"
  /\ Answer(h, "none") \/ Sign(h, task[h].actor)
  /\ UNCHANGED <<now, tables>>

\* Mutant: the stored expiry is not compared with the clock.
FindTokenNotExpired(h) ==
  /\ task[h].at = "findToken"
  /\ IF token[task[h].given] = "live"
     THEN Sign(h, task[h].given[1]) ELSE Answer(h, "none")
  /\ UNCHANGED <<now, tables>>

\* Mutant: a revoked token is accepted.
FindTokenRevoked(h) ==
  /\ task[h].at = "findToken"
  /\ IF now <= Lapses(task[h].given)
     THEN Sign(h, task[h].given[1]) ELSE Answer(h, "none")
  /\ UNCHANGED <<now, tables>>

\* The account's status is not looked at.
FindToken(h) ==
  /\ task[h].at = "findToken"
  /\ LET t == task[h].given
     IN IF token[t] = "live" /\ now <= Lapses(t)
        THEN Sign(h, t[1]) ELSE Answer(h, "none")
  /\ UNCHANGED <<now, tables>>

\* Mutant: an upsert, which brings a revoked token of this second back.
CreateTokenUpsert(h) ==
  /\ task[h].at = "createToken"
  /\ token' = [token EXCEPT ![task[h].new] = "live"]
  /\ parent' = [parent EXCEPT ![task[h].new] = task[h].given]
  /\ Goto(h, IF task[h].op = "login" THEN "setOnline" ELSE "revokeOld")
  /\ UNCHANGED <<now, online, deleted, killed>>

\* A second token of the same user and second breaks the unique key.
CreateToken(h) ==
  /\ task[h].at = "createToken"
  /\ LET t == task[h]
     IN IF token[t.new] # "none"
        THEN Answer(h, "none") /\ UNCHANGED <<token, parent>>
        ELSE /\ token' = [token EXCEPT ![t.new] = "live"]
             /\ parent' = [parent EXCEPT ![t.new] = t.given]
             /\ Goto(h, IF t.op = "login" THEN "setOnline" ELSE "revokeOld")
  /\ UNCHANGED <<now, online, deleted, killed>>

\* Mutant: the old token is left as it is.
RevokeOldForgotten(h) ==
  /\ task[h].at = "revokeOld"
  /\ Answer(h, "ok")
  /\ UNCHANGED <<now, tables>>

RevokeOld(h) ==
  /\ task[h].at = "revokeOld"
  /\ token' = [token EXCEPT ![task[h].given] = "revoked"]
  /\ Answer(h, "ok")
  /\ UNCHANGED <<now, online, deleted, parent, killed>>

SetOnline(h) ==
  /\ task[h].at = "setOnline"
  /\ online' = online \cup {task[h].actor}
  /\ Answer(h, "ok")
  /\ UNCHANGED <<now, token, deleted, parent, killed>>

-----------------------------------------------------------------------------
(* logout, logoutAll *)

\* The row is found by the token alone; an unknown one makes the update throw,
\* and the user stays online.
RevokeGiven(h) ==
  /\ task[h].at = "revokeGiven"
  /\ IF task[h].given = NoToken
     THEN Answer(h, "none") /\ UNCHANGED token
     ELSE /\ token' = [token EXCEPT ![task[h].given] = "revoked"]
          /\ Goto(h, "setOffline")
  /\ UNCHANGED <<now, online, deleted, parent, killed>>

RevokeAll(h) ==
  /\ task[h].at = "revokeAll"
  /\ LET mine == {t \in Stored : t[1] = task[h].actor /\ token[t] = "live"}
     IN /\ token' = [t \in Tokens |-> IF t \in mine THEN "revoked" ELSE token[t]]
        /\ killed' = killed \cup mine
  /\ Goto(h, "setOffline")
  /\ UNCHANGED <<now, online, deleted, parent>>

SetOffline(h) ==
  /\ task[h].at = "setOffline"
  /\ online' = online \ {task[h].actor}
  /\ Answer(h, "ok")
  /\ UNCHANGED <<now, token, deleted, parent, killed>>

-----------------------------------------------------------------------------

\* UserService.deleteUser (soft, the tokens stay) and updateUser, whose body may
\* write the status either way and isOnline; the sockets write isOnline too.
writeUser(u) ==
  /\ deleted' \in {deleted \cup {u}, deleted \ {u}}
  /\ online' \in {online \cup {u}, online \ {u}}
  /\ UNCHANGED <<now, token, task, parent, killed>>

Tick ==
  /\ now < MaxSecond
  /\ now' = now + 1
  /\ UNCHANGED <<tables, task>>

\* The awaited call fails, or the process dies before it.
Abort(h) ==
  /\ task[h].at # "idle"
  /\ Answer(h, "none")
  /\ UNCHANGED <<now, tables>>

Init ==
  /\ now = 0
  /\ token = [t \in Tokens |-> "none"]
  /\ online = {} /\ deleted = {}
  /\ task = [h \in Handlers |-> Idle("none")]
  /\ parent = [t \in Tokens |-> NoToken]
  /\ killed = {}

Step(h) ==
  \/ StartLogin(h) \/ StartRefresh(h) \/ StartLogout(h) \/ StartLogoutAll(h)
  \/ FindByEmail(h) \/ VerifyPassword(h) \/ FindToken(h) \/ CreateToken(h)
  \/ RevokeOld(h) \/ SetOnline(h) \/ RevokeGiven(h) \/ RevokeAll(h) \/ SetOffline(h)

Next == (\E h \in Handlers : Step(h)) \/ (\E u \in Users : writeUser(u)) \/ Tick

FaultyNext == Next \/ \E h \in Handlers : Abort(h)

Spec == Init /\ [][Next]_vars

FaultySpec == Init /\ [][FaultyNext]_vars

-----------------------------------------------------------------------------
(* Properties.                                                             *)

\* Every variable has its type; a handler that stores a token has signed one,
\* and a handler that revokes the old one was given one that exists.
TypeOK ==
  /\ now \in 0..MaxSecond
  /\ token \in [Tokens -> {"none", "live", "revoked"}]
  /\ online \subseteq Users /\ deleted \subseteq Users
  /\ task \in [Handlers -> Task]
  /\ parent \in [Tokens -> Tokens \cup {NoToken}]
  /\ killed \subseteq Stored
  /\ \A h \in Handlers :
       /\ task[h].at = "createToken" => task[h].new \in Tokens
       /\ task[h].at \in {"findToken", "revokeOld"} => task[h].given \in Stored

\* A session that was not refreshed within a token's lifetime is over, even if
\* the clock passes the expiry while a refresh is between its two checks.
SessionsLapse ==
  \A t \in Stored : parent[t] # NoToken => t[2] <= Lapses(parent[t])

\* A refresh that arrives after its token was revoked stores no new token.
RevokedNotHonoured ==
  [][\A h \in Handlers : task[h].op = "refresh" /\ task[h].late =>
       task'[h].at \notin {"createToken", "revokeOld"}]_vars

\* No interleaving makes a revoked token valid again.
RevokedStaysRevoked ==
  [][\A t \in Tokens : token[t] = "revoked" => token'[t] = "revoked"]_vars

\* swagger.ts:56 "Old refresh token is invalidated": when a refresh has been
\* answered with new tokens, the old one is revoked.
RefreshRetiresOld ==
  [][\A h \in Handlers :
       task[h].op = "refresh" /\ task'[h].at = "idle" /\ task'[h].reply = "ok"
       => token'[task[h].given] = "revoked"]_vars

-----------------------------------------------------------------------------
(* What a message says; the code differs.                                  *)

\* auth.controller.ts:235 "Logged out from all devices": no session goes on
\* from a token that logoutAll revoked.
LogoutAllEndsSessions ==
  \A t \in Stored : token[t] = "live" => parent[t] \notin killed
=============================================================================
