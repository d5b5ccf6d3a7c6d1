--------------------------- MODULE IdentityProofs ---------------------------
(***************************************************************************)
(* Proofs about sessions (Sessions) and accounts (Accounts), each for any  *)
(* number of users and overlapping handlers, any clock and any lifetime of *)
(* a token, with failing calls and crashes; that the two together, over    *)
(* one users table (Identity), implement both; and that one request about  *)
(* an account at a time, nothing failing, leaves the cache of users exact. *)
(***************************************************************************)
EXTENDS MCIdentity, TLAPS

-----------------------------------------------------------------------------
(* Sessions.                                                               *)

\* What a handler with task t may rely on at its next call: which operation it
\* serves, that the token it was given exists, that one given too late is still
\* revoked and only about to be looked up, and that a new one was signed while
\* the given one lasted.
HandlerOK(t) ==
  /\ t.at = "findByEmail" => t.op = "login" /\ t.given = NoToken
  /\ t.at = "verifyPassword" => t.op = "login" /\ t.given = NoToken
  /\ t.at = "setOnline" => t.op = "login"
  /\ t.at = "createToken" =>
       /\ t.new \in Tokens
       /\ \/ t.op = "login" /\ t.given = NoToken
          \/ t.op = "refresh" /\ t.given \in Stored /\ t.new[2] <= Lapses(t.given)
  /\ t.at \in {"findToken", "revokeOld"} => t.op = "refresh" /\ t.given \in Stored
  /\ t.at \in {"revokeGiven", "revokeAll", "setOffline"} => t.op \in {"logout", "logoutAll"}
  /\ t.at = "revokeGiven" => t.given \in Stored \cup {NoToken}
  /\ t.op = "refresh" /\ t.late => t.at = "findToken" /\ token[t.given] = "revoked"
  /\ t.at = "idle" => t.op = "none"
  /\ t.at \notin {"idle", "findToken", "createToken", "revokeOld"} => t.actor \in Users
  /\ t.at = "createToken" /\ t.op = "login" => t.actor \in Users

Handlers_OK == \A h \in Handlers : HandlerOK(task[h])

TablesOK ==
  /\ now \in 0..MaxSecond
  /\ token \in [Tokens -> {"none", "live", "revoked"}]
  /\ online \subseteq Users /\ deleted \subseteq Users
  /\ parent \in [Tokens -> Tokens \cup {NoToken}]
  /\ killed \subseteq Stored

TasksOK == task \in [Handlers -> Task]

\* The inductive invariant.
IInv == TablesOK /\ TasksOK /\ SessionsLapse /\ Handlers_OK

\* No step takes a token out of the table or makes a revoked one valid.
TokensStable ==
  /\ token \in [Tokens -> {"none", "live", "revoked"}]
  /\ token' \in [Tokens -> {"none", "live", "revoked"}]
  /\ \A t \in Tokens : /\ token[t] # "none" => token'[t] # "none"
                       /\ token[t] = "revoked" => token'[t] = "revoked"

\* Handler h moves to a task that is in order after the step.
Advance(h) ==
  \E t \in Task : task' = [task EXCEPT ![h] = t] /\ HandlerOK(t)'

-----------------------------------------------------------------------------

LEMMA IInvTypeOK == IInv => TypeOK
  BY DEF IInv, TablesOK, TasksOK, Handlers_OK, HandlerOK, TypeOK

LEMMA HandlerStable ==
  ASSUME NEW t \in Task, HandlerOK(t), TokensStable
  PROVE  HandlerOK(t)'
<1>1. \A k \in Stored : k \in Stored'
  BY DEF Stored, TokensStable
<1>2. t.op = "refresh" /\ t.late => t.given \in Tokens /\ token'[t.given] = "revoked"
  BY DEF HandlerOK, Stored, TokensStable
<1>3. QED
  BY <1>1, <1>2 DEF HandlerOK

LEMMA AdvanceKeepsHandlers ==
  ASSUME TasksOK, Handlers_OK, TokensStable, NEW h \in Handlers, Advance(h)
  PROVE  TasksOK' /\ Handlers_OK'
<1>1. PICK t \in Task : task' = [task EXCEPT ![h] = t] /\ HandlerOK(t)'
  BY DEF Advance
<1>2. TasksOK'
  BY <1>1 DEF TasksOK
<1>3. ASSUME NEW k \in Handlers PROVE HandlerOK(task[k])'
  <2>1. CASE k = h
    <3>1. task'[k] = t
      BY <1>1, <2>1 DEF TasksOK
    <3>2. QED
      BY <1>1, <3>1 DEF HandlerOK
  <2>2. CASE k # h
    <3>1. task'[k] = task[k] /\ task[k] \in Task /\ HandlerOK(task[k])
      BY <2>2, <1>1 DEF TasksOK, Handlers_OK
    <3>2. PICK s \in Task : s = task[k]
      BY <3>1
    <3>3. HandlerOK(s)'
      BY <3>1, <3>2, HandlerStable
    <3>4. QED
      BY <3>1, <3>2, <3>3 DEF HandlerOK
  <2>3. QED
    BY <2>1, <2>2
<1>4. QED
  BY <1>2, <1>3 DEF Handlers_OK

LEMMA IdleOK ==
  ASSUME NEW r \in {"none", "ok"}
  PROVE  Idle(r) \in Task /\ HandlerOK(Idle(r)) /\ HandlerOK(Idle(r))'
  BY DEF Idle, Task, HandlerOK

LEMMA AnswerAdvances ==
  ASSUME NEW h \in Handlers, NEW r \in {"none", "ok"}, Answer(h, r)
  PROVE  Advance(h)
  BY IdleOK DEF Answer, Advance

\* The handler goes on to await l, its task otherwise unchanged.
LEMMA GotoAdvances ==
  ASSUME TasksOK, TokensStable, NEW h \in Handlers, NEW l, Goto(h, l),
         [task[h] EXCEPT !.at = l] \in Task, HandlerOK([task[h] EXCEPT !.at = l])
  PROVE  Advance(h)
<1>1. PICK t \in Task : t = [task[h] EXCEPT !.at = l]
  OBVIOUS
<1>2. HandlerOK(t)'
  BY <1>1, HandlerStable
<1>3. QED
  BY <1>1, <1>2 DEF Goto, Advance

\* A step that writes no table but perhaps the columns of users.
LEMMA TokensUnchanged ==
  ASSUME TablesOK, SessionsLapse, UNCHANGED <<token, parent, killed>>
  PROVE  TokensStable /\ SessionsLapse'
         /\ ((now' \in 0..MaxSecond /\ online' \subseteq Users /\ deleted' \subseteq Users)
                => TablesOK')
  BY DEF TablesOK, TokensStable, SessionsLapse, Stored

LEMMA ReadOnly ==
  ASSUME IInv, NEW h \in Handlers, Advance(h), UNCHANGED <<now, tables>>
  PROVE  IInv'
<1>1. TokensStable /\ SessionsLapse' /\ TablesOK'
  BY TokensUnchanged DEF IInv, tables, TablesOK
<1>2. QED
  BY <1>1, AdvanceKeepsHandlers DEF IInv

LEMMA InitIInv == Init => IInv
  BY IdleOK, SessionAssumption
     DEF Init, IInv, TablesOK, TasksOK, SessionsLapse, Handlers_OK, Stored

LEMMA StartsKeepIInv ==
  ASSUME IInv, NEW h \in Handlers,
         StartLogin(h) \/ StartRefresh(h) \/ StartLogout(h) \/ StartLogoutAll(h)
  PROVE  IInv'
<1>1. ASSUME NEW op \in {"login", "refresh", "logout", "logoutAll"}, NEW await,
             NEW u \in Users, NEW given \in Stored \cup {NoToken},
             Start(h, op, await, u, given),
             \/ op = "login" /\ await = "findByEmail" /\ given = NoToken
             \/ op = "refresh" /\ await = "findToken" /\ given \in Stored
             \/ op = "logout" /\ await \in {"setOffline", "revokeGiven"}
             \/ op = "logoutAll" /\ await = "revokeAll"
      PROVE  IInv'
  <2>1. PICK t \in Task :
          t = [Idle("none") EXCEPT !.op = op, !.at = await, !.actor = u, !.given = given,
                 !.late = given \in Stored /\ token[given] = "revoked"]
    <3>1. PICK late \in BOOLEAN : late = (given \in Stored /\ token[given] = "revoked")
      OBVIOUS
    <3>2. [Idle("none") EXCEPT !.op = op, !.at = await, !.actor = u, !.given = given,
             !.late = late] \in Task
      BY <1>1 DEF Idle, Task, Stored
    <3>3. QED
      BY <3>1, <3>2
  <2>2. HandlerOK(t)
    BY <1>1, <2>1 DEF HandlerOK, Idle
  <2>3. UNCHANGED <<now, tables>> /\ TokensStable
    BY <1>1, TokensUnchanged DEF Start, tables, IInv
  <2>4. Advance(h)
    BY <1>1, <2>1, <2>2, <2>3, HandlerStable DEF Start, Advance
  <2>5. QED
    BY <2>3, <2>4, ReadOnly
<1>2. CASE StartLogin(h)
  BY <1>1, <1>2 DEF StartLogin
<1>3. CASE StartRefresh(h)
  <2>1. PICK t \in Stored : Start(h, "refresh", "findToken", t[1], t)
    BY <1>3 DEF StartRefresh
  <2>2. t[1] \in Users
    BY DEF Stored, Tokens
  <2>3. QED
    BY <1>1, <2>1, <2>2
<1>4. CASE StartLogout(h)
  BY <1>1, <1>4 DEF StartLogout
<1>5. CASE StartLogoutAll(h)
  BY <1>1, <1>5 DEF StartLogoutAll
<1>6. QED
  BY <1>2, <1>3, <1>4, <1>5

\* The synchronous part of generateAuthTokens.
LEMMA SignAdvances ==
  ASSUME IInv, NEW h \in Handlers, NEW u \in Users, Sign(h, u), UNCHANGED <<now, tables>>,
         ~(task[h].op = "refresh" /\ task[h].late),
         \/ task[h].op = "login" /\ task[h].given = NoToken /\ task[h].actor \in Users
         \/ task[h].op = "refresh" /\ task[h].given \in Stored /\ now <= Lapses(task[h].given)
  PROVE  IInv'
<1>1. task[h] \in Task /\ HandlerOK(task[h]) /\ now \in 0..MaxSecond
  BY DEF IInv, TasksOK, Handlers_OK, TablesOK
<1>2. <<u, now>> \in Tokens
  BY <1>1 DEF Tokens
<1>3. PICK t \in Task : t = [task[h] EXCEPT !.at = "createToken", !.new = <<u, now>>]
  BY <1>1, <1>2 DEF Task
<1>4. HandlerOK(t)
  <2>1. /\ t.at = "createToken" /\ t.op = task[h].op /\ t.given = task[h].given
        /\ t.actor = task[h].actor /\ t.new = <<u, now>>
    BY <1>1, <1>3 DEF Task
  <2>2. ~(t.op = "refresh" /\ t.late)
    BY <1>1, <1>3 DEF Task
  <2>3. t.op = "refresh" => t.new[2] <= Lapses(t.given)
    BY <2>1
  <2>4. QED
    BY <1>2, <2>1, <2>2, <2>3 DEF HandlerOK
<1>5. TokensStable
  BY TokensUnchanged DEF IInv, tables
<1>6. Advance(h)
  BY <1>3, <1>4, <1>5, HandlerStable DEF Sign, Advance
<1>7. QED
  BY <1>6, ReadOnly

LEMMA ReadsKeepIInv ==
  ASSUME IInv, NEW h \in Handlers, FindByEmail(h) \/ VerifyPassword(h) \/ FindToken(h)
  PROVE  IInv'
<1> DEFINE t == task[h]
<1>1. t \in Task /\ HandlerOK(t) /\ UNCHANGED <<now, tables>> /\ TasksOK
  BY DEF IInv, TasksOK, Handlers_OK, FindByEmail, VerifyPassword, FindToken
<1>2. ASSUME Answer(h, "none") PROVE IInv'
  BY <1>1, <1>2, AnswerAdvances, ReadOnly
<1>3. CASE FindByEmail(h)
  <2>1. CASE Goto(h, "verifyPassword")
    <3>1. TokensStable
      BY <1>1, TokensUnchanged DEF IInv, tables
    <3>2. [t EXCEPT !.at = "verifyPassword"] \in Task
      BY <1>1 DEF Task
    <3>3. HandlerOK([t EXCEPT !.at = "verifyPassword"])
      BY <1>1, <1>3 DEF HandlerOK, FindByEmail, Task
    <3>4. QED
      BY <1>1, <2>1, <3>1, <3>2, <3>3, GotoAdvances, ReadOnly
  <2>2. QED
    BY <1>2, <1>3, <2>1 DEF FindByEmail
<1>4. CASE VerifyPassword(h)
  <2>1. CASE Sign(h, t.actor)
    BY <1>1, <1>4, <2>1, SignAdvances DEF VerifyPassword, HandlerOK
  <2>2. QED
    BY <1>2, <1>4, <2>1 DEF VerifyPassword
<1>5. CASE FindToken(h)
  <2>1. CASE token[t.given] = "live" /\ now <= Lapses(t.given)
    <3>1. t.op = "refresh" /\ t.given \in Stored /\ ~t.late
      BY <1>1, <1>5, <2>1 DEF FindToken, HandlerOK
    <3>2. t.given[1] \in Users
      BY <3>1 DEF Stored, Tokens
    <3>3. Sign(h, t.given[1])
      BY <1>5, <2>1 DEF FindToken
    <3>4. QED
      BY <1>1, <2>1, <3>1, <3>2, <3>3, SignAdvances
  <2>2. QED
    BY <1>2, <1>5, <2>1 DEF FindToken
<1>6. QED
  BY <1>3, <1>4, <1>5

\* The calls that write the isOnline column and reply.
LEMMA PresenceKeepsIInv ==
  ASSUME IInv, NEW h \in Handlers, SetOnline(h) \/ SetOffline(h) PROVE IInv'
<1>1. /\ task[h].actor \in Users /\ Answer(h, "ok")
      /\ UNCHANGED <<now, token, deleted, parent, killed>>
      /\ online' \subseteq online \cup {task[h].actor}
  BY DEF SetOnline, SetOffline, IInv, Handlers_OK, HandlerOK
<1>2. TokensStable /\ SessionsLapse' /\ TablesOK'
  BY <1>1, TokensUnchanged DEF IInv, TablesOK
<1>3. QED
  BY <1>1, <1>2, AnswerAdvances, AdvanceKeepsHandlers DEF IInv

LEMMA CreateTokenKeepsIInv ==
  ASSUME IInv, NEW h \in Handlers, CreateToken(h) PROVE IInv'
<1> DEFINE t == task[h]
<1>1. /\ t \in Task /\ HandlerOK(t) /\ t.at = "createToken" /\ TablesOK /\ TasksOK
      /\ SessionsLapse /\ Handlers_OK
      /\ t.new \in Tokens
      /\ UNCHANGED <<now, online, deleted, killed>>
  BY DEF IInv, TasksOK, Handlers_OK, HandlerOK, CreateToken
<1>2. CASE token[t.new] # "none"
  BY <1>1, <1>2, AnswerAdvances, ReadOnly DEF CreateToken, tables
<1>3. CASE token[t.new] = "none"
  <2> DEFINE next == IF t.op = "login" THEN "setOnline" ELSE "revokeOld"
  <2>1. /\ token' = [token EXCEPT ![t.new] = "live"]
        /\ parent' = [parent EXCEPT ![t.new] = t.given]
        /\ Goto(h, next)
    BY <1>3 DEF CreateToken
  <2>2. TokensStable
    BY <1>1, <1>3, <2>1 DEF TokensStable, TablesOK
  <2>3. [t EXCEPT !.at = next] \in Task
    BY <1>1 DEF Task
  <2>4. HandlerOK([t EXCEPT !.at = next])
    BY <1>1 DEF HandlerOK, Task
  <2>5. Advance(h)
    BY <1>1, <2>1, <2>2, <2>3, <2>4, GotoAdvances
  <2>6. TablesOK'
    BY <1>1, <2>1, <2>2 DEF TablesOK, TokensStable, Stored, Task
  <2>7. SessionsLapse'
    <3>1. ASSUME NEW k \in Tokens, token'[k] # "none", parent'[k] # NoToken
          PROVE  k[2] <= Lapses(parent'[k])
      <4>1. CASE k = t.new
        BY <1>1, <2>1, <3>1, <4>1 DEF HandlerOK, TablesOK
      <4>2. CASE k # t.new
        BY <1>1, <2>1, <3>1, <4>2 DEF SessionsLapse, Stored, TablesOK
      <4>3. QED
        BY <4>1, <4>2
    <3>2. QED
      BY <3>1 DEF SessionsLapse, Stored, Lapses
  <2>8. QED
    BY <1>1, <2>2, <2>5, <2>6, <2>7, AdvanceKeepsHandlers DEF IInv
<1>4. QED
  BY <1>2, <1>3

\* Revoking is what the rest of the writes do.
LEMMA RevokingKeepsIInv ==
  ASSUME IInv, NEW h \in Handlers, UNCHANGED <<now, online, deleted, parent>>,
         TokensStable => Advance(h),
         token' \in [Tokens -> {"none", "live", "revoked"}],
         \A t \in Tokens : token'[t] # token[t] => token[t] # "none" /\ token'[t] = "revoked",
         killed' \subseteq Stored
  PROVE  IInv'
<1>1. TokensStable /\ Stored' = Stored
  BY DEF TokensStable, Stored, IInv, TablesOK
<1>2. TablesOK' /\ SessionsLapse'
  BY <1>1 DEF IInv, TablesOK, SessionsLapse
<1>3. QED
  BY <1>1, <1>2, AdvanceKeepsHandlers DEF IInv

LEMMA RevokingGiven ==
  ASSUME IInv, NEW h \in Handlers, task[h].given \in Stored,
         UNCHANGED <<now, online, deleted, parent, killed>>,
         TokensStable => Advance(h),
         token' = [token EXCEPT ![task[h].given] = "revoked"]
  PROVE  IInv'
<1>1. TablesOK /\ task[h].given \in Tokens /\ token[task[h].given] # "none"
  BY DEF IInv, Stored
<1>2. token' \in [Tokens -> {"none", "live", "revoked"}] /\ killed' \subseteq Stored
  BY <1>1 DEF TablesOK
<1>3. ASSUME NEW k \in Tokens
      PROVE  token'[k] # token[k] => token[k] # "none" /\ token'[k] = "revoked"
  BY <1>1 DEF TablesOK
<1>4. QED
  BY <1>2, <1>3, RevokingKeepsIInv

LEMMA RevokesKeepIInv ==
  ASSUME IInv, NEW h \in Handlers, RevokeOld(h) \/ RevokeGiven(h) \/ RevokeAll(h) PROVE IInv'
<1> DEFINE t == task[h]
<1>1. t \in Task /\ HandlerOK(t) /\ TablesOK /\ TasksOK /\ now' = now
  BY DEF IInv, TasksOK, Handlers_OK, RevokeOld, RevokeGiven, RevokeAll
<1>2. CASE RevokeOld(h)
  <2>1. t.given \in Stored /\ t.given \in Tokens
    BY <1>1, <1>2 DEF RevokeOld, HandlerOK, Stored
  <2>2. /\ token' = [token EXCEPT ![t.given] = "revoked"]
        /\ Advance(h) /\ UNCHANGED <<now, online, deleted, parent, killed>>
    BY <1>2, AnswerAdvances DEF RevokeOld
  <2>3. QED
    BY <2>1, <2>2, RevokingGiven
<1>3. CASE RevokeGiven(h) /\ t.given = NoToken
  BY <1>3, AnswerAdvances, ReadOnly DEF RevokeGiven, tables
<1>4. ASSUME Goto(h, "setOffline"), t.at \in {"revokeGiven", "revokeAll"}, TokensStable
      PROVE  Advance(h)
  <2>1. [t EXCEPT !.at = "setOffline"] \in Task
    BY <1>1 DEF Task
  <2>2. HandlerOK([t EXCEPT !.at = "setOffline"])
    BY <1>1, <1>4 DEF HandlerOK, Task
  <2>3. QED
    BY <1>1, <1>4, <2>1, <2>2, GotoAdvances
<1>5. CASE RevokeGiven(h) /\ t.given # NoToken
  <2>1. t.given \in Stored /\ t.given \in Tokens
    BY <1>1, <1>5 DEF RevokeGiven, HandlerOK, Stored
  <2>2. /\ token' = [token EXCEPT ![t.given] = "revoked"]
        /\ TokensStable => Advance(h)
        /\ UNCHANGED <<now, online, deleted, parent, killed>>
    BY <1>4, <1>5 DEF RevokeGiven
  <2>3. QED
    BY <2>1, <2>2, RevokingGiven
<1>6. CASE RevokeAll(h)
  <2> DEFINE mine == {k \in Stored : k[1] = t.actor /\ token[k] = "live"}
  <2>1. /\ token' = [k \in Tokens |-> IF k \in mine THEN "revoked" ELSE token[k]]
        /\ killed' = killed \cup mine
        /\ TokensStable => Advance(h)
        /\ UNCHANGED <<now, online, deleted, parent>>
    BY <1>4, <1>6 DEF RevokeAll
  <2>2. token' \in [Tokens -> {"none", "live", "revoked"}]
    BY <1>1, <2>1 DEF TablesOK
  <2>3. ASSUME NEW k \in Tokens
        PROVE  token'[k] # token[k] => token[k] # "none" /\ token'[k] = "revoked"
    <3>1. k \in mine => token[k] # "none"
      OBVIOUS
    <3>2. token'[k] = IF k \in mine THEN "revoked" ELSE token[k]
      BY <2>1
    <3>3. QED
      BY <3>1, <3>2
  <2>4. killed' \subseteq Stored
    BY <1>1, <2>1 DEF TablesOK
  <2>5. QED
    BY <2>1, <2>2, <2>3, <2>4, RevokingKeepsIInv
<1>7. QED
  BY <1>2, <1>3, <1>5, <1>6

LEMMA FaultyNextIInv == IInv /\ [FaultyNext]_vars => IInv'
<1> SUFFICES ASSUME IInv, [FaultyNext]_vars PROVE IInv'
  OBVIOUS
<1>1. ASSUME UNCHANGED <<token, parent, killed, task>>, now' \in 0..MaxSecond,
             online' \subseteq Users, deleted' \subseteq Users
      PROVE  IInv'
  <2>1. TokensStable /\ SessionsLapse' /\ TablesOK'
    BY <1>1, TokensUnchanged DEF IInv
  <2>2. Handlers_OK' /\ TasksOK'
    BY <1>1 DEF IInv, Handlers_OK, HandlerOK, TasksOK, Stored
  <2>3. QED
    BY <2>1, <2>2 DEF IInv
<1>2. CASE UNCHANGED vars
  BY <1>1, <1>2 DEF vars, IInv, TablesOK
<1>3. CASE Tick
  BY <1>1, <1>3, SessionAssumption DEF Tick, tables, IInv, TablesOK
<1>4. ASSUME NEW u \in Users, writeUser(u) PROVE IInv'
  BY <1>1, <1>4 DEF writeUser, IInv, TablesOK
<1>5. ASSUME NEW h \in Handlers, Step(h) PROVE IInv'
  BY <1>5, StartsKeepIInv, ReadsKeepIInv, PresenceKeepsIInv, CreateTokenKeepsIInv,
     RevokesKeepIInv DEF Step
<1>6. ASSUME NEW h \in Handlers, Abort(h) PROVE IInv'
  BY <1>6, AnswerAdvances, ReadOnly DEF Abort
<1>7. QED
  BY <1>2, <1>3, <1>4, <1>5, <1>6 DEF FaultyNext, Next

-----------------------------------------------------------------------------

\* Every variable has its type, and a handler stores or revokes only a token it
\* has signed or found.
THEOREM TypeCorrect == FaultySpec => []TypeOK
  BY IInvTypeOK, InitIInv, FaultyNextIInv, PTL DEF FaultySpec

\* Every refresh happened within the lifetime of the token it was made from,
\* although refreshAccessToken checks the expiry calls before it stores.
THEOREM Lapsing == FaultySpec => []SessionsLapse
<1>1. IInv => SessionsLapse
  BY DEF IInv
<1>2. QED
  BY <1>1, InitIInv, FaultyNextIInv, PTL DEF FaultySpec

\* Only one handler's task changes in a step, by its own action.
LEMMA TaskChanges ==
  ASSUME [FaultyNext]_vars, NEW h \in Handlers, TasksOK
  PROVE  task'[h] = task[h] \/ Step(h) \/ Abort(h)
<1>1. CASE UNCHANGED task
  BY <1>1
<1>2. ASSUME NEW k \in Handlers, Step(k) \/ Abort(k), k # h PROVE task'[h] = task[h]
  BY <1>2 DEF TasksOK, Step, Abort, StartLogin, StartRefresh, StartLogout, StartLogoutAll,
     Start, FindByEmail, VerifyPassword, FindToken, CreateToken, RevokeOld, SetOnline,
     RevokeGiven, RevokeAll, SetOffline, Answer, Goto, Sign
<1>3. QED
  BY <1>1, <1>2 DEF FaultyNext, Next, vars, Tick, writeUser

\* A refresh with a token that was already revoked stores nothing, however the
\* lookup is delayed.
THEOREM RevokedRefused == FaultySpec => RevokedNotHonoured
<1> DEFINE Refused(h) == task[h].op = "refresh" /\ task[h].late =>
             task'[h].at \notin {"createToken", "revokeOld"}
<1>1. ASSUME IInv, [FaultyNext]_vars, NEW h \in Handlers PROVE Refused(h)
  <2>1. SUFFICES ASSUME task[h].op = "refresh", task[h].late
                 PROVE  task'[h].at \notin {"createToken", "revokeOld"}
    OBVIOUS
  <2>2. TasksOK /\ task[h].at = "findToken" /\ token[task[h].given] = "revoked"
    BY <1>1, <2>1 DEF IInv, Handlers_OK, HandlerOK
  <2>3. task'[h] = task[h] \/ FindToken(h) \/ Abort(h)
    BY <1>1, <2>2, TaskChanges
       DEF Step, StartLogin, StartRefresh, StartLogout, StartLogoutAll, Start, FindByEmail,
           VerifyPassword, CreateToken, RevokeOld, SetOnline, RevokeGiven, RevokeAll, SetOffline
  <2>4. task'[h] = task[h] \/ Answer(h, "none")
    BY <2>2, <2>3 DEF FindToken, Abort
  <2>5. QED
    BY <2>2, <2>4 DEF Answer, Idle, TasksOK
<1>2. IInv /\ [FaultyNext]_vars => [\A h \in Handlers : Refused(h)]_vars
  BY <1>1
<1>3. QED
  BY <1>2, InitIInv, FaultyNextIInv, PTL DEF FaultySpec, RevokedNotHonoured

\* Nothing makes a revoked token valid again.
THEOREM RevokedForGood == FaultySpec => RevokedStaysRevoked
<1> DEFINE Stays(t) == token[t] = "revoked" => token'[t] = "revoked"
<1>1. ASSUME IInv, [FaultyNext]_vars, NEW t \in Tokens PROVE Stays(t)
  <2>1. TablesOK
    BY <1>1 DEF IInv
  <2>2. ASSUME NEW h \in Handlers, CreateToken(h) PROVE Stays(t)
    BY <2>1, <2>2 DEF CreateToken, TablesOK
  <2>3. ASSUME NEW h \in Handlers, RevokeOld(h) \/ RevokeGiven(h) PROVE Stays(t)
    BY <2>1, <2>3 DEF RevokeOld, RevokeGiven, TablesOK
  <2>4. ASSUME NEW h \in Handlers, RevokeAll(h) PROVE Stays(t)
    BY <2>4 DEF RevokeAll
  <2>5. ASSUME NEW h \in Handlers,
               \/ StartLogin(h) \/ StartRefresh(h) \/ StartLogout(h) \/ StartLogoutAll(h)
               \/ FindByEmail(h) \/ VerifyPassword(h) \/ FindToken(h) \/ SetOnline(h)
               \/ SetOffline(h) \/ Abort(h)
        PROVE  token' = token
    BY <2>5 DEF StartLogin, StartRefresh, StartLogout, StartLogoutAll, Start, FindByEmail,
       VerifyPassword, FindToken, SetOnline, SetOffline, Abort, tables
  <2>6. CASE UNCHANGED vars \/ Tick \/ \E u \in Users : writeUser(u)
    BY <2>6 DEF vars, Tick, writeUser, tables
  <2>7. QED
    BY <1>1, <2>2, <2>3, <2>4, <2>5, <2>6 DEF FaultyNext, Next, Step
<1>2. IInv /\ [FaultyNext]_vars => [\A t \in Tokens : Stays(t)]_vars
  BY <1>1
<1>3. QED
  BY <1>2, InitIInv, FaultyNextIInv, PTL DEF FaultySpec, RevokedStaysRevoked

\* A refresh answered with new tokens leaves its old one revoked.
THEOREM OldRetired == FaultySpec => RefreshRetiresOld
<1> DEFINE Retired(h) ==
             task[h].op = "refresh" /\ task'[h].at = "idle" /\ task'[h].reply = "ok"
               => token'[task[h].given] = "revoked"
<1>1. ASSUME IInv, [FaultyNext]_vars, NEW h \in Handlers PROVE Retired(h)
  <2>1. SUFFICES ASSUME task[h].op = "refresh", task'[h].at = "idle", task'[h].reply = "ok"
                 PROVE  token'[task[h].given] = "revoked"
    OBVIOUS
  <2>2. /\ TasksOK /\ TablesOK /\ task[h].at \in {"findToken", "createToken", "revokeOld"}
        /\ task[h].at = "revokeOld" => task[h].given \in Tokens
    BY <1>1, <2>1 DEF IInv, TasksOK, Task, Handlers_OK, HandlerOK, Stored
  <2>3. FindToken(h) \/ CreateToken(h) \/ RevokeOld(h) \/ Abort(h)
    BY <1>1, <2>1, <2>2, TaskChanges
       DEF Step, StartLogin, StartRefresh, StartLogout, StartLogoutAll, Start, FindByEmail,
           VerifyPassword, SetOnline, RevokeGiven, RevokeAll, SetOffline
  <2>4. ~Answer(h, "none")
    BY <2>1, <2>2 DEF Answer, Idle, TasksOK
  <2>5. ASSUME NEW u, Sign(h, u) PROVE FALSE
    BY <2>1, <2>2, <2>5 DEF Sign, TasksOK
  <2>6. ASSUME NEW l \in {"setOnline", "revokeOld"}, Goto(h, l) PROVE FALSE
    BY <2>1, <2>2, <2>6 DEF Goto, TasksOK
  <2>7. RevokeOld(h)
    BY <2>3, <2>4, <2>5, <2>6 DEF FindToken, CreateToken, Abort
  <2>8. QED
    BY <2>2, <2>7 DEF RevokeOld, TablesOK
<1>2. IInv /\ [FaultyNext]_vars => [\A h \in Handlers : Retired(h)]_vars
  BY <1>1
<1>3. QED
  BY <1>2, InitIInv, FaultyNextIInv, PTL DEF FaultySpec, RefreshRetiresOld

-----------------------------------------------------------------------------
(* Accounts.                                                               *)

\* What a request w may rely on at its next call: the row it registers is one,
\* the account it acts on exists, and the copy it is about to cache has a row
\* that account has had.
RequestOK(w) ==
  /\ w.at \in {"findByEmail", "findByUsername", "create"} => w.row \in A!Account
  /\ w.at \notin {"idle", "findByEmail", "findByUsername", "create"}
       => w.user \in A!Registered
  /\ w.at = "cacheFill" => w.copy \in A!Copy /\ w.copy.row \in was[w.user]

Requests_OK == \A r \in Requests : RequestOK(work[r])

RowsOK ==
  /\ account \in [Users -> A!Account \cup {NoAccount}]
  /\ cached \in [Users -> A!Copy \cup {NoAccount}]
  /\ was \in [Users -> SUBSET A!Account]
  /\ deleted \subseteq A!Registered /\ online \subseteq A!Registered
  /\ behind \subseteq {u \in Users : cached[u] # NoAccount}
  /\ \A u \in A!Registered : account[u] \in was[u]

WorkOK == work \in [Requests -> A!Work]

\* The inductive invariant.
AccountsInv ==
  RowsOK /\ WorkOK /\ A!UniqueIdentities /\ A!CachedUserWasTrue /\ Requests_OK

\* No step takes an account away or forgets a row it has had.
AccountsStable ==
  A!Registered \subseteq A!Registered' /\ \A u \in Users : was[u] \subseteq was'[u]

\* Request r moves to a step of its work that is in order afterwards.
Proceed(r) == \E w \in A!Work : work' = [work EXCEPT ![r] = w] /\ RequestOK(w)'

-----------------------------------------------------------------------------

LEMMA AccountsInvTypeOK == AccountsInv => A!AccountsTypeOK
  BY DEF AccountsInv, RowsOK, WorkOK, Requests_OK, RequestOK, A!AccountsTypeOK

LEMMA RequestStable ==
  ASSUME NEW w \in A!Work, RequestOK(w), AccountsStable
  PROVE  RequestOK(w)'
  BY DEF RequestOK, AccountsStable, A!Registered

LEMMA ProceedKeepsRequests ==
  ASSUME WorkOK, Requests_OK, AccountsStable, NEW r \in Requests, Proceed(r)
  PROVE  WorkOK' /\ Requests_OK'
<1>1. PICK w \in A!Work : work' = [work EXCEPT ![r] = w] /\ RequestOK(w)'
  BY DEF Proceed
<1>2. WorkOK'
  BY <1>1 DEF WorkOK
<1>3. ASSUME NEW q \in Requests PROVE RequestOK(work[q])'
  <2>1. CASE q = r
    <3>1. work'[q] = w
      BY <1>1, <2>1 DEF WorkOK
    <3>2. QED
      BY <1>1, <3>1 DEF RequestOK
  <2>2. CASE q # r
    <3>1. work'[q] = work[q] /\ work[q] \in A!Work /\ RequestOK(work[q])
      BY <1>1, <2>2 DEF WorkOK, Requests_OK
    <3>2. PICK v \in A!Work : v = work[q]
      BY <3>1
    <3>3. RequestOK(v)'
      BY <3>1, <3>2, RequestStable
    <3>4. QED
      BY <3>1, <3>2, <3>3 DEF RequestOK
  <2>3. QED
    BY <2>1, <2>2
<1>4. QED
  BY <1>2, <1>3 DEF Requests_OK

LEMMA IdleRequestOK == A!Idle \in A!Work /\ RequestOK(A!Idle) /\ RequestOK(A!Idle)'
  BY DEF A!Idle, A!Work, RequestOK, A!Calls

LEMMA FinishProceeds ==
  ASSUME NEW r \in Requests, A!Finish(r)
  PROVE  Proceed(r)
  BY IdleRequestOK DEF A!Finish, Proceed

\* The request goes on to the call l, its work otherwise unchanged.
LEMMA GotoProceeds ==
  ASSUME WorkOK, AccountsStable, NEW r \in Requests, NEW l \in A!Calls, A!Goto(r, l),
         RequestOK([work[r] EXCEPT !.at = l])
  PROVE  Proceed(r)
<1>1. PICK w \in A!Work : w = [work[r] EXCEPT !.at = l]
  BY DEF WorkOK, A!Work
<1>2. RequestOK(w)'
  BY <1>1, RequestStable
<1>3. QED
  BY <1>1, <1>2 DEF A!Goto, Proceed

LEMMA RowsUnchanged ==
  ASSUME AccountsInv, UNCHANGED A!stores
  PROVE  /\ AccountsStable /\ RowsOK' /\ A!UniqueIdentities' /\ A!CachedUserWasTrue'
  BY DEF AccountsInv, A!stores, RowsOK, AccountsStable, A!Registered, A!UniqueIdentities,
         A!CachedUserWasTrue

LEMMA RowsReadOnly ==
  ASSUME AccountsInv, NEW r \in Requests, Proceed(r), UNCHANGED A!stores
  PROVE  AccountsInv'
  BY RowsUnchanged, ProceedKeepsRequests DEF AccountsInv

LEMMA NotARow == NoAccount \notin A!Account /\ NoAccount \notin A!Copy
  BY AccountAssumption DEF Account, A!Account, Copy, A!Copy

LEMMA CopyIsOne ==
  ASSUME NEW u \in Users, account[u] \in A!Account
  PROVE  A!CopyOf(u) \in A!Copy /\ A!CopyOf(u).row = account[u]
<1>1. (u \in online) \in BOOLEAN
  BY Z3
<1>2. QED
  BY <1>1 DEF A!CopyOf, A!Copy

\* A row that may be stored keeps the two columns unique, whatever it says of the
\* status and of isOnline.
LEMMA StoreKeepsRows ==
  ASSUME AccountsInv, NEW u \in Users, NEW row \in A!Account, A!CanStore(u, row),
         A!Store(u, row),
         deleted' \subseteq deleted \cup {u}, online' \subseteq online \cup {u},
         UNCHANGED <<cached, behind>>
  PROVE  AccountsStable /\ RowsOK' /\ A!UniqueIdentities' /\ A!CachedUserWasTrue'
<1>1. /\ account' \in [Users -> A!Account \cup {NoAccount}]
      /\ was' \in [Users -> SUBSET A!Account]
      /\ account'[u] = row /\ was'[u] = was[u] \cup {row}
      /\ \A v \in Users \ {u} : account'[v] = account[v] /\ was'[v] = was[v]
  BY DEF AccountsInv, RowsOK, A!Store
<1>2. A!Registered' = A!Registered \cup {u}
  BY <1>1, NotARow DEF A!Registered
<1>3. AccountsStable
  BY <1>1, <1>2 DEF AccountsStable
<1>4. RowsOK'
  <2>1. \A v \in A!Registered' : account'[v] \in was'[v]
    BY <1>1, <1>2 DEF AccountsInv, RowsOK, A!Registered
  <2>2. QED
    BY <1>1, <1>2, <2>1 DEF AccountsInv, RowsOK
<1>5. A!UniqueIdentities'
  <2>1. \A v \in A!Registered \ {u} :
          account[v].email # row.email /\ account[v].name # row.name
    BY DEF A!CanStore, A!HasEmail, A!HasName
  <2>2. QED
    BY <1>1, <1>2, <2>1 DEF A!UniqueIdentities, AccountsInv, A!Registered
<1>6. A!CachedUserWasTrue'
  BY <1>1 DEF A!CachedUserWasTrue, AccountsInv
<1>7. QED
  BY <1>3, <1>4, <1>5, <1>6

-----------------------------------------------------------------------------

LEMMA InitAccountsInv == A!Init => AccountsInv
  BY IdleRequestOK
     DEF A!Init, AccountsInv, RowsOK, WorkOK, Requests_OK, A!Registered, A!UniqueIdentities,
     A!CachedUserWasTrue

LEMMA BeginsKeepAccountsInv ==
  ASSUME AccountsInv, NEW r \in Requests,
         \/ A!StartRegister(r) \/ A!StartGet(r) \/ A!StartGetPresence(r)
         \/ A!StartUpdate(r) \/ A!StartDelete(r)
  PROVE  AccountsInv'
<1>1. ASSUME NEW op \in A!Ops, NEW call \in A!Calls, NEW u \in Users \cup {NoUser},
             NEW row \in A!Account \cup {NoAccount}, A!Begin(r, op, call, u, row),
             \/ call = "findByEmail" /\ row \in A!Account
             \/ call \in {"cacheGet", "presenceKey", "softDelete", "update"}
                  /\ u \in A!Registered
      PROVE  AccountsInv'
  <2>1. PICK w \in A!Work :
          w = [A!Idle EXCEPT !.op = op, !.at = call, !.user = u, !.row = row]
    BY DEF A!Work, A!Idle
  <2>2. RequestOK(w)
    BY <1>1, <2>1 DEF RequestOK, A!Idle
  <2>3. UNCHANGED A!stores /\ AccountsStable
    BY <1>1, RowsUnchanged DEF A!Begin
  <2>4. RequestOK(w)'
    BY <2>2, <2>3, RequestStable
  <2>5. Proceed(r)
    BY <1>1, <2>1, <2>4 DEF A!Begin, Proceed
  <2>6. QED
    BY <2>3, <2>5, RowsReadOnly
<1>2. CASE A!StartRegister(r)
  BY <1>1, <1>2 DEF A!StartRegister, A!Ops, A!Calls
<1>3. CASE \/ A!StartGet(r) \/ A!StartGetPresence(r) \/ A!StartUpdate(r)
           \/ A!StartDelete(r)
  BY <1>1, <1>3
     DEF A!StartGet, A!StartGetPresence, A!StartUpdate, A!StartDelete, A!Ops, A!Calls,
         A!Registered
<1>4. QED
  BY <1>2, <1>3

LEMMA LookupsKeepAccountsInv ==
  ASSUME AccountsInv, NEW r \in Requests,
         \/ A!FindByEmail(r) \/ A!FindByUsername(r) \/ A!PresenceKey(r)
         \/ A!CacheGet(r) \/ A!FindById(r) \/ A!CacheFails(r) \/ A!Abort(r)
  PROVE  AccountsInv'
<1>1. work[r] \in A!Work /\ RequestOK(work[r]) /\ WorkOK
  BY DEF AccountsInv, WorkOK, Requests_OK
<1>2. UNCHANGED A!stores
  BY DEF A!FindByEmail, A!FindByUsername, A!PresenceKey, A!CacheGet, A!FindById,
         A!CacheFails, A!Abort
<1>3. AccountsStable
  BY <1>2, RowsUnchanged
<1>4. CASE A!Finish(r)
  BY <1>2, <1>4, FinishProceeds, RowsReadOnly
<1>5. ASSUME NEW l \in {"findByUsername", "create", "cacheGet", "findById"}, A!Goto(r, l),
             \/ l \in {"findByUsername", "create"} /\ work[r].row \in A!Account
             \/ l \in {"cacheGet", "findById"} /\ work[r].user \in A!Registered
      PROVE  AccountsInv'
  <2>1. l \in A!Calls /\ RequestOK([work[r] EXCEPT !.at = l])
    BY <1>1, <1>5 DEF RequestOK, A!Calls, A!Work
  <2>2. Proceed(r)
    BY <1>1, <1>3, <1>5, <2>1, GotoProceeds
  <2>3. QED
    BY <1>2, <2>2, RowsReadOnly
<1>6. CASE A!FindByEmail(r) \/ A!FindByUsername(r)
  BY <1>1, <1>4, <1>5, <1>6 DEF A!FindByEmail, A!FindByUsername, RequestOK
<1>7. CASE A!PresenceKey(r) \/ A!CacheGet(r) \/ A!CacheFails(r)
  BY <1>1, <1>4, <1>5, <1>7 DEF A!PresenceKey, A!CacheGet, A!CacheFails, RequestOK
<1>8. CASE A!FindById(r)
  <2>1. CASE work[r].user \in A!Active
    <3>1. work[r].user \in Users /\ account[work[r].user] \in A!Account
          /\ account[work[r].user] \in was[work[r].user]
      BY <2>1 DEF A!Active, A!Registered, AccountsInv, RowsOK
    <3>2. PICK copy \in A!Copy :
            copy = A!CopyOf(work[r].user) /\ copy.row = account[work[r].user]
      BY <3>1, CopyIsOne
    <3>3. PICK w \in A!Work : w = [work[r] EXCEPT !.at = "cacheFill", !.copy = copy]
      BY <1>1 DEF A!Work, A!Calls
    <3>4. RequestOK(w) /\ work' = [work EXCEPT ![r] = w]
      BY <1>1, <1>8, <2>1, <3>1, <3>2, <3>3 DEF RequestOK, A!Active, A!Work, A!FindById
    <3>5. Proceed(r)
      BY <1>3, <3>4, RequestStable DEF Proceed
    <3>6. QED
      BY <1>2, <3>5, RowsReadOnly
  <2>2. CASE work[r].user \notin A!Active
    BY <1>4, <1>8, <2>2 DEF A!FindById
  <2>3. QED
    BY <2>1, <2>2
<1>9. QED
  BY <1>4, <1>6, <1>7, <1>8 DEF A!Abort

LEMMA CreateKeepsAccountsInv ==
  ASSUME AccountsInv, NEW r \in Requests, A!Create(r)
  PROVE  AccountsInv'
<1>1. work[r].row \in A!Account /\ Proceed(r)
  BY FinishProceeds DEF AccountsInv, Requests_OK, RequestOK, A!Create
<1>2. CASE UNCHANGED <<account, was>>
  BY <1>1, <1>2, RowsReadOnly DEF A!Create, A!stores
<1>3. CASE \E u \in Users \ A!Registered :
             A!CanStore(u, work[r].row) /\ A!Store(u, work[r].row)
  <2>1. PICK u \in Users : A!CanStore(u, work[r].row) /\ A!Store(u, work[r].row)
    BY <1>3
  <2>2. QED
    BY <1>1, <2>1, StoreKeepsRows, ProceedKeepsRequests DEF A!Create, AccountsInv
<1>4. QED
  BY <1>2, <1>3 DEF A!Create

LEMMA UpdateKeepsAccountsInv ==
  ASSUME AccountsInv, NEW r \in Requests, A!Update(r)
  PROVE  AccountsInv'
<1> DEFINE u == work[r].user
<1>1. /\ WorkOK /\ Requests_OK /\ work[r] \in A!Work /\ work[r].at = "update"
      /\ u \in A!Registered /\ u \in Users /\ UNCHANGED <<cached, behind>>
  BY DEF AccountsInv, WorkOK, Requests_OK, RequestOK, A!Update, A!Registered
<1>2. ASSUME NEW row \in A!Account, A!CanStore(u, row), A!Store(u, row),
             deleted' \in {deleted \cup {u}, deleted \ {u}},
             online' \in {online \cup {u}, online \ {u}}, A!Goto(r, "invalidate")
      PROVE  AccountsInv'
  <2>1. deleted' \subseteq deleted \cup {u} /\ online' \subseteq online \cup {u}
    BY <1>2
  <2>2. AccountsStable /\ RowsOK' /\ A!UniqueIdentities' /\ A!CachedUserWasTrue'
    <3> HIDE DEF u
    <3> QED
      BY <1>1, <1>2, <2>1, StoreKeepsRows
  <2>3. RequestOK([work[r] EXCEPT !.at = "invalidate"])
    BY <1>1 DEF RequestOK, A!Work
  <2>4. Proceed(r)
    BY <1>1, <1>2, <2>2, <2>3, GotoProceeds DEF A!Calls
  <2>5. QED
    BY <1>1, <2>2, <2>4, ProceedKeepsRequests DEF AccountsInv
<1>3. CASE A!Finish(r) /\ UNCHANGED <<account, was, deleted, online>>
  BY <1>1, <1>3, FinishProceeds, RowsReadOnly DEF A!stores
<1>4. QED
  BY <1>2, <1>3 DEF A!Update

LEMMA SoftDeleteKeepsAccountsInv ==
  ASSUME AccountsInv, NEW r \in Requests, A!SoftDelete(r)
  PROVE  AccountsInv'
<1>1. /\ WorkOK /\ Requests_OK /\ work[r] \in A!Work /\ work[r].user \in A!Registered
      /\ UNCHANGED <<account, online, cached, was, behind>>
      /\ deleted' = deleted \cup {work[r].user}
  BY DEF AccountsInv, WorkOK, Requests_OK, RequestOK, A!SoftDelete
<1>2. AccountsStable /\ RowsOK' /\ A!UniqueIdentities' /\ A!CachedUserWasTrue'
  BY <1>1 DEF AccountsInv, RowsOK, AccountsStable, A!Registered, A!UniqueIdentities,
              A!CachedUserWasTrue
<1>3. RequestOK([work[r] EXCEPT !.at = "invalidate"])
  BY <1>1 DEF RequestOK, A!Work
<1>4. Proceed(r)
  BY <1>1, <1>2, <1>3, GotoProceeds DEF A!SoftDelete, A!Calls
<1>5. QED
  BY <1>1, <1>2, <1>4, ProceedKeepsRequests DEF AccountsInv

LEMMA CacheWritesKeepAccountsInv ==
  ASSUME AccountsInv, NEW r \in Requests, A!CacheFill(r) \/ A!Invalidate(r)
  PROVE  AccountsInv'
<1>1. /\ WorkOK /\ Requests_OK /\ work[r] \in A!Work /\ work[r].user \in Users
      /\ UNCHANGED <<account, deleted, online, was>> /\ Proceed(r)
      /\ behind' = behind \ {work[r].user}
  BY FinishProceeds
     DEF AccountsInv, WorkOK, Requests_OK, RequestOK, A!CacheFill, A!Invalidate,
         A!Registered
<1>2. PICK copy \in A!Copy \cup {NoAccount} :
        /\ cached' = [cached EXCEPT ![work[r].user] = copy]
        /\ copy # NoAccount => copy.row \in was[work[r].user]
  BY DEF A!CacheFill, A!Invalidate, AccountsInv, Requests_OK, RequestOK
<1>3. AccountsStable /\ A!UniqueIdentities' /\ A!CachedUserWasTrue'
  BY <1>1, <1>2 DEF AccountsInv, RowsOK, AccountsStable, A!Registered, A!UniqueIdentities,
                    A!CachedUserWasTrue
<1>4. RowsOK'
  BY <1>1, <1>2 DEF AccountsInv, RowsOK, A!Registered
<1>5. QED
  BY <1>1, <1>3, <1>4, ProceedKeepsRequests DEF AccountsInv

LEMMA ExpireKeepsAccountsInv ==
  ASSUME AccountsInv, NEW u \in Users, A!Expire(u)
  PROVE  AccountsInv'
<1>1. RowsOK'
  BY DEF A!Expire, AccountsInv, RowsOK, A!Registered
<1>2. QED
  BY <1>1 DEF A!Expire, AccountsInv, RowsOK, WorkOK, Requests_OK, RequestOK, A!Registered,
              A!UniqueIdentities, A!CachedUserWasTrue

LEMMA PresenceKeepsAccountsInv ==
  ASSUME AccountsInv, NEW u \in A!Registered, A!updateOnlineStatus(u)
  PROVE  AccountsInv'
<1>1. RowsOK'
  BY DEF A!updateOnlineStatus, AccountsInv, RowsOK, A!Registered
<1>2. QED
  BY <1>1 DEF A!updateOnlineStatus, AccountsInv, WorkOK, Requests_OK, RequestOK,
              A!Registered, A!UniqueIdentities, A!CachedUserWasTrue

LEMMA FaultyNextAccountsInv == AccountsInv /\ [A!FaultyNext]_(A!vars) => AccountsInv'
<1> SUFFICES ASSUME AccountsInv, [A!FaultyNext]_(A!vars) PROVE AccountsInv'
  OBVIOUS
<1>1. CASE \E r \in Requests : A!Step(r) \/ A!Abort(r) \/ A!CacheFails(r)
  BY <1>1, BeginsKeepAccountsInv, LookupsKeepAccountsInv, CreateKeepsAccountsInv,
     UpdateKeepsAccountsInv, SoftDeleteKeepsAccountsInv, CacheWritesKeepAccountsInv DEF A!Step
<1>2. CASE \E u \in Users : A!Expire(u)
  BY <1>2, ExpireKeepsAccountsInv
<1>3. CASE \E u \in A!Registered : A!updateOnlineStatus(u)
  BY <1>3, PresenceKeepsAccountsInv
<1>4. CASE UNCHANGED A!vars
  BY <1>4, RowsUnchanged
     DEF A!vars, A!stores, AccountsInv, WorkOK, Requests_OK, RequestOK, A!Registered
<1>5. QED
  BY <1>1, <1>2, <1>3, <1>4 DEF A!FaultyNext, A!Next

\* A uuid in use stays in use.
LEMMA RegisteredStays ==
  ASSUME AccountsInv, A!FaultyNext
  PROVE  A!Registered \subseteq A!Registered'
<1>1. ASSUME NEW u \in Users, NEW row \in A!Account, A!Store(u, row)
      PROVE  A!Registered \subseteq A!Registered'
  BY <1>1, NotARow DEF A!Store, A!Registered, AccountsInv, RowsOK
<1>2. ASSUME NEW r \in Requests, A!Create(r)
      PROVE  account' = account \/ \E u \in Users, row \in A!Account : A!Store(u, row)
  BY <1>2 DEF A!Create, AccountsInv, Requests_OK, RequestOK
<1>3. ASSUME NEW r \in Requests, A!Update(r)
      PROVE  account' = account \/ \E u \in Users, row \in A!Account : A!Store(u, row)
  BY <1>3 DEF A!Update, AccountsInv, Requests_OK, RequestOK, A!Registered
<1>4. \/ account' = account
      \/ \E r \in Requests : A!Create(r) \/ A!Update(r)
  BY DEF A!FaultyNext, A!Next, A!Step, A!Expire, A!Abort, A!CacheFails,
         A!StartRegister, A!StartGet, A!StartGetPresence, A!StartUpdate, A!StartDelete,
         A!Begin, A!stores, A!FindByEmail, A!FindByUsername, A!PresenceKey, A!CacheGet,
         A!FindById, A!CacheFill, A!SoftDelete, A!Invalidate, A!updateOnlineStatus
<1>5. account' = account => A!Registered \subseteq A!Registered'
  BY DEF A!Registered
<1>6. QED
  BY <1>1, <1>2, <1>3, <1>4, <1>5

THEOREM AccountsInvariant == A!FaultySpec => []AccountsInv
  BY InitAccountsInv, FaultyNextAccountsInv, PTL DEF A!FaultySpec

\* Type correctness of accounts; only accounts that exist are deleted or cached.
THEOREM AccountsTypeCorrect == A!FaultySpec => []A!AccountsTypeOK
  BY AccountsInvariant, AccountsInvTypeOK, PTL

\* auth.service.ts:33: emails and usernames are unique, however registrations
\* and updates interleave.
THEOREM IdentitiesUnique == A!FaultySpec => []A!UniqueIdentities
<1>1. AccountsInv => A!UniqueIdentities
  BY DEF AccountsInv
<1>2. QED
  BY <1>1, AccountsInvariant, PTL

\* user.service.ts:30: a cached user is a row that user has had, however late
\* the copy was written.
THEOREM CachedUsersWereTrue == A!FaultySpec => []A!CachedUserWasTrue
<1>1. AccountsInv => A!CachedUserWasTrue
  BY DEF AccountsInv
<1>2. QED
  BY <1>1, AccountsInvariant, PTL

-----------------------------------------------------------------------------
(* The two together.                                                       *)

identityVars == <<vars, accountVars>>

\* What is inductive for the two: both invariants, and that whoever a handler
\* serves has an account.
TogetherInv ==
  /\ AccountsInv /\ IInv
  /\ \A h \in Handlers : task[h].actor \in A!Registered \cup {NoUser}

\* A step of a session writes, of what Accounts has, the isOnline of its user.
LEMMA SessionWrites ==
  ASSUME IInv, SessionStep, online' # online
  PROVE  \E h \in Handlers : /\ task[h].actor \in Users
                            /\ online' \in {online \cup {task[h].actor},
                                           online \ {task[h].actor}}
<1>1. PICK h \in Handlers : SetOnline(h) \/ SetOffline(h)
  BY DEF SessionStep, Tick, Step, Abort, tables, Start, StartLogin, StartRefresh,
         StartLogout, StartLogoutAll, FindByEmail, VerifyPassword, FindToken,
         CreateToken, RevokeOld, RevokeGiven, RevokeAll
<1>2. HandlerOK(task[h]) /\ task[h].at \in {"setOnline", "setOffline"}
  BY <1>1 DEF IInv, Handlers_OK, SetOnline, SetOffline
<1>3. task[h].actor \in Users
  BY <1>2 DEF HandlerOK
<1>4. QED
  BY <1>1, <1>3 DEF SetOnline, SetOffline

\* The requests about accounts do what Accounts says, whatever the sessions do.
LEMMA StepIsAccountStep ==
  ASSUME TogetherInv, [IdentityNext]_identityVars
  PROVE  [A!FaultyNext]_(A!vars)
<1>1. CASE SessionStep
  <2>1. UNCHANGED <<account, deleted, cached, work, was>>
    BY <1>1
       DEF SessionStep, Tick, Step, Abort, tables, Start, StartLogin, StartRefresh,
           StartLogout, StartLogoutAll, FindByEmail, VerifyPassword, FindToken,
           CreateToken, RevokeOld, SetOnline, RevokeGiven, RevokeAll, SetOffline
  <2>2. CASE online' = online
    <3>1. behind' = behind
      BY <1>1, <2>2 DEF SessionStep
    <3>2. QED
      BY <2>1, <2>2, <3>1 DEF A!vars, A!stores
  <2>3. CASE online' # online
    <3>1. PICK h \in Handlers : /\ task[h].actor \in Users
                               /\ online' \in {online \cup {task[h].actor},
                                              online \ {task[h].actor}}
      BY <1>1, <2>3, SessionWrites DEF TogetherInv
    <3> DEFINE u == task[h].actor
    <3>2. u \in A!Registered
      BY <3>1, SessionAssumption DEF TogetherInv
    <3>3. {v \in Users : cached[v] # NoAccount /\ (v \in online) # (v \in online')}
            = IF cached[u] # NoAccount THEN {u} ELSE {}
      BY <2>3, <3>1
    <3>4. behind' = IF cached[u] # NoAccount THEN behind \cup {u} ELSE behind
      BY <1>1, <3>3 DEF SessionStep
    <3>5. A!updateOnlineStatus(u)
      BY <2>1, <3>1, <3>4 DEF A!updateOnlineStatus
    <3>6. QED
      BY <3>2, <3>5 DEF A!FaultyNext, A!Next
  <2>4. QED
    BY <2>2, <2>3
<1>2. CASE AccountStep
  BY <1>2 DEF AccountStep
<1>3. CASE UNCHANGED identityVars
  BY <1>3 DEF identityVars, vars, accountVars, A!vars, A!stores
<1>4. QED
  BY <1>1, <1>2, <1>3 DEF IdentityNext

\* A request about an account writes, of what Sessions has, its user's columns.
LEMMA StepIsSessionsStep ==
  ASSUME TogetherInv, [IdentityNext]_identityVars
  PROVE  [FaultyNext]_vars
<1>1. CASE SessionStep
  BY <1>1 DEF SessionStep, FaultyNext, Next
<1>2. CASE AccountStep
  <2>1. UNCHANGED <<now, token, task, parent, killed>>
    BY <1>2 DEF AccountStep, sessionVars
  <2>2. ASSUME NEW u \in Users, deleted' \in {deleted, deleted \cup {u}, deleted \ {u}},
               online' \in {online, online \cup {u}, online \ {u}}
        PROVE  FaultyNext
    <3>1. (deleted = deleted \cup {u} \/ deleted = deleted \ {u})
          /\ (online = online \cup {u} \/ online = online \ {u})
      OBVIOUS
    <3>2. writeUser(u)
      BY <2>1, <2>2, <3>1 DEF writeUser
    <3>3. QED
      BY <3>2 DEF FaultyNext, Next
  <2>3. CASE \E r \in Requests : A!Update(r) \/ A!SoftDelete(r)
    <3>1. PICK r \in Requests : A!Update(r) \/ A!SoftDelete(r)
      BY <2>3
    <3>2. work[r].user \in Users
      BY <3>1 DEF TogetherInv, AccountsInv, Requests_OK, RequestOK, A!Registered, A!Update,
                  A!SoftDelete
    <3>3. QED
      BY <2>2, <3>1, <3>2 DEF A!Update, A!SoftDelete
  <2>4. CASE \E u \in A!Registered : A!updateOnlineStatus(u)
    BY <2>2, <2>4 DEF A!updateOnlineStatus, A!Registered
  <2>5. CASE UNCHANGED <<deleted, online>>
    BY <2>1, <2>5 DEF vars
  <2>6. ~(\E r \in Requests : A!Update(r) \/ A!SoftDelete(r))
        /\ ~(\E u \in A!Registered : A!updateOnlineStatus(u)) => UNCHANGED <<deleted, online>>
    BY <1>2
       DEF AccountStep, A!FaultyNext, A!Next, A!Step, A!Expire, A!Abort, A!CacheFails,
           A!StartRegister, A!StartGet, A!StartGetPresence, A!StartUpdate,
           A!StartDelete, A!Begin, A!stores, A!FindByEmail, A!FindByUsername,
           A!Create, A!PresenceKey, A!CacheGet, A!FindById, A!CacheFill, A!Invalidate
  <2>7. QED
    BY <2>3, <2>4, <2>5, <2>6
<1>3. CASE UNCHANGED identityVars
  BY <1>3 DEF identityVars
<1>4. QED
  BY <1>1, <1>2, <1>3 DEF IdentityNext

LEMMA TogetherInductive == TogetherInv /\ [IdentityNext]_identityVars => TogetherInv'
<1> SUFFICES ASSUME TogetherInv, [IdentityNext]_identityVars PROVE TogetherInv'
  OBVIOUS
<1>1. AccountsInv' /\ IInv'
  BY StepIsAccountStep, StepIsSessionsStep, FaultyNextAccountsInv, FaultyNextIInv
     DEF TogetherInv
<1>2. ASSUME NEW h \in Handlers PROVE task'[h].actor \in A!Registered' \cup {NoUser}
  <2>1. CASE SessionStep
    BY <2>1 DEF SessionStep, A!Registered
  <2>2. CASE AccountStep
    <3>1. task' = task /\ A!Registered \subseteq A!Registered'
      BY <2>2, RegisteredStays DEF AccountStep, sessionVars, TogetherInv
    <3>2. QED
      BY <3>1 DEF TogetherInv
  <2>3. CASE UNCHANGED identityVars
    BY <2>3 DEF identityVars, vars, accountVars, TogetherInv, A!Registered
  <2>4. QED
    BY <2>1, <2>2, <2>3 DEF IdentityNext
<1>3. QED
  BY <1>1, <1>2 DEF TogetherInv

LEMMA TogetherInvariant == IdentitySpec => []TogetherInv
<1>1. IdentityInit => TogetherInv
  BY InitAccountsInv, InitIInv DEF IdentityInit, TogetherInv, Init, Idle
<1>2. QED
  BY <1>1, TogetherInductive, PTL DEF IdentitySpec, identityVars

\* The accounts under the sessions are those of Accounts.
THEOREM AccountsImplemented == IdentitySpec => A!FaultySpec
<1>1. IdentityInit => A!Init
  BY DEF IdentityInit
<1>2. TogetherInv /\ [IdentityNext]_identityVars => [A!FaultyNext]_(A!vars)
  BY StepIsAccountStep
<1>3. QED
  BY <1>1, <1>2, TogetherInvariant, PTL DEF IdentitySpec, A!FaultySpec, identityVars

\* auth.service.ts:102: whatever becomes of the accounts, the sessions over them
\* are those of Sessions.
THEOREM SessionsImplemented == IdentitySpec => FaultySpec
<1>1. IdentityInit => Init
  BY DEF IdentityInit
<1>2. TogetherInv /\ [IdentityNext]_identityVars => [FaultyNext]_vars
  BY StepIsSessionsStep
<1>3. QED
  BY <1>1, <1>2, TogetherInvariant, PTL DEF IdentitySpec, FaultySpec, identityVars

\* auth.service.ts:102: accounts and sessions together, a refreshed session was
\* refreshed within the lifetime of a token.
THEOREM LapsingTogether == IdentitySpec => []SessionsLapse
  BY SessionsImplemented, Lapsing, PTL

\* auth.service.ts:33: and emails and usernames are unique.
THEOREM IdentitiesUniqueTogether == IdentitySpec => []UniqueIdentities
  BY AccountsImplemented, IdentitiesUnique, PTL DEF UniqueIdentities

\* user.service.ts:30: and a cached user is a row that this user has had.
THEOREM CachedUsersWereTrueTogether == IdentitySpec => []CachedUserWasTrue
  BY AccountsImplemented, CachedUsersWereTrue, PTL DEF CachedUserWasTrue

-----------------------------------------------------------------------------
(* One request about an account at a time, nothing failing.                *)

OneRequest == \A q, r \in Requests : work[q].at = "idle" \/ work[r].at = "idle" \/ q = r

\* The copy of u is the row, but for an isOnline written past the cache.
IsCurrent(u) ==
  /\ u \in A!Active /\ cached[u].row = account[u]
  /\ u \notin behind => cached[u] = A!CopyOf(u)

\* A cached user is current, or is about to be dropped.
CachedIsCurrent ==
  \A u \in Users : cached[u] # NoAccount =>
    IsCurrent(u) \/ \E r \in Requests : work[r].at = "invalidate" /\ work[r].user = u

\* The copy about to be cached is the row still.
FillIsCurrent ==
  \A r \in Requests : work[r].at = "cacheFill" =>
    work[r].user \in A!Active /\ work[r].copy = A!CopyOf(work[r].user)

\* The inductive invariant of that instance.
AloneInv == AccountsInv /\ OneRequest /\ CachedIsCurrent /\ FillIsCurrent

\* Whoever else was busy when r took its step would be busy after it.
LEMMA OthersIdle ==
  ASSUME AloneInv, OneRequest', NEW r \in Requests, A!Step(r)
  PROVE  \A q \in Requests \ {r} : work[q].at = "idle" /\ work'[q].at = "idle"
<1> SUFFICES ASSUME NEW q \in Requests \ {r}
             PROVE  work[q].at = "idle" /\ work'[q].at = "idle"
  OBVIOUS
<1>1. WorkOK /\ OneRequest
  BY DEF AloneInv, AccountsInv
<1>2. work'[q] = work[q]
  BY <1>1 DEF WorkOK, A!Step, A!StartRegister, A!StartGet, A!StartGetPresence,
     A!StartUpdate, A!StartDelete, A!Begin, A!FindByEmail, A!FindByUsername, A!Create,
     A!PresenceKey, A!CacheGet, A!FindById, A!CacheFill, A!Update, A!SoftDelete,
     A!Invalidate, A!Goto, A!Finish
<1>3. CASE work[r].at # "idle"
  BY <1>1, <1>2, <1>3 DEF OneRequest
<1>4. CASE work[r].at = "idle"
  <2>1. \/ A!StartRegister(r) \/ A!StartGet(r) \/ A!StartGetPresence(r)
        \/ A!StartUpdate(r) \/ A!StartDelete(r)
    BY <1>4 DEF A!Step, A!FindByEmail, A!FindByUsername, A!Create, A!PresenceKey,
       A!CacheGet, A!FindById, A!CacheFill, A!Update, A!SoftDelete, A!Invalidate
  <2>2. work'[r].at # "idle"
    BY <1>1, <2>1 DEF WorkOK, A!StartRegister, A!StartGet, A!StartGetPresence,
       A!StartUpdate, A!StartDelete, A!Begin, A!Idle
  <2>3. QED
    BY <1>2, <2>2 DEF OneRequest
<1>5. QED
  BY <1>3, <1>4

\* Unless r is about to drop a cached user, every cached user is current.
LEMMA CurrentBefore ==
  ASSUME AloneInv, NEW r \in Requests, work[r].at # "invalidate",
         \A q \in Requests \ {r} : work[q].at = "idle"
  PROVE  \A u \in Users : cached[u] # NoAccount => IsCurrent(u)
  BY DEF AloneInv, CachedIsCurrent

\* Only r can be about to cache a user.
LEMMA FillAfter ==
  ASSUME NEW r \in Requests, \A q \in Requests \ {r} : work'[q].at = "idle",
         work'[r].at = "cacheFill" =>
             work'[r].user \in A!Active' /\ work'[r].copy = A!CopyOf(work[r].user)'
  PROVE  FillIsCurrent'
  BY DEF FillIsCurrent

LEMMA StepKeepsCurrent ==
  ASSUME AloneInv, OneRequest', AccountsInv', NEW r \in Requests, A!Step(r)
  PROVE  CachedIsCurrent' /\ FillIsCurrent'
<1>1. /\ work[r] \in A!Work /\ RequestOK(work[r]) /\ WorkOK /\ RowsOK
      /\ \A q \in Requests \ {r} : work[q].at = "idle" /\ work'[q].at = "idle"
  BY OthersIdle DEF AloneInv, AccountsInv, WorkOK, Requests_OK
<1>2. ASSUME UNCHANGED A!stores, work[r].at # "invalidate", work'[r].at # "cacheFill"
      PROVE  CachedIsCurrent' /\ FillIsCurrent'
  BY <1>1, <1>2, CurrentBefore, FillAfter
     DEF CachedIsCurrent, IsCurrent, A!Active, A!Registered, A!CopyOf, A!stores
<1>3. CASE \/ A!StartRegister(r) \/ A!StartGet(r) \/ A!StartGetPresence(r)
           \/ A!StartUpdate(r) \/ A!StartDelete(r)
  <2>1. ASSUME NEW op, NEW call, NEW u, NEW row, A!Begin(r, op, call, u, row),
               call # "cacheFill"
        PROVE  CachedIsCurrent' /\ FillIsCurrent'
    <3>1. UNCHANGED A!stores /\ work[r].at = "idle" /\ work'[r].at = call
      BY <1>1, <2>1 DEF A!Begin, WorkOK
    <3>2. QED
      BY <1>2, <2>1, <3>1
  <2>2. CASE A!StartRegister(r)
    BY <2>1, <2>2 DEF A!StartRegister
  <2>3. CASE A!StartGet(r) \/ A!StartGetPresence(r)
    BY <2>1, <2>3 DEF A!StartGet, A!StartGetPresence
  <2>4. CASE A!StartUpdate(r) \/ A!StartDelete(r)
    BY <2>1, <2>4 DEF A!StartUpdate, A!StartDelete
  <2>5. QED
    BY <1>3, <2>2, <2>3, <2>4
<1>4. CASE A!FindByEmail(r) \/ A!FindByUsername(r) \/ A!PresenceKey(r) \/ A!CacheGet(r)
  <2>1. UNCHANGED A!stores /\ work[r].at # "invalidate"
    BY <1>4 DEF A!FindByEmail, A!FindByUsername, A!PresenceKey, A!CacheGet
  <2>2. \/ A!Finish(r)
        \/ \E l \in {"findByUsername", "create", "cacheGet", "findById"} : A!Goto(r, l)
    BY <1>4 DEF A!FindByEmail, A!FindByUsername, A!PresenceKey, A!CacheGet
  <2>3. work'[r].at # "cacheFill"
    BY <1>1, <2>2 DEF A!Goto, A!Finish, A!Idle, WorkOK, A!Work
  <2>4. QED
    BY <1>2, <2>1, <2>3
<1>5. CASE A!Create(r)
  <2>1. /\ \A u \in Users : cached[u] # NoAccount => IsCurrent(u)
        /\ UNCHANGED <<deleted, online, cached, behind>> /\ work'[r].at = "idle"
    BY <1>1, <1>5, CurrentBefore DEF A!Create, A!Finish, A!Idle, WorkOK
  <2>2. \A u \in A!Registered : account'[u] = account[u]
    BY <1>1, <1>5 DEF A!Create, A!Store, A!Registered, RowsOK
  <2>3. \A u \in Users : IsCurrent(u) => IsCurrent(u)'
    BY <2>1, <2>2 DEF IsCurrent, A!Active, A!Registered, A!CopyOf
  <2>4. QED
    BY <1>1, <2>1, <2>3, FillAfter DEF CachedIsCurrent
<1>6. CASE A!FindById(r)
  <2>1. /\ \A u \in Users : cached[u] # NoAccount => IsCurrent(u)
        /\ UNCHANGED A!stores
        /\ A!Active' = A!Active
    BY <1>1, <1>6, CurrentBefore DEF A!FindById, A!stores, A!Active, A!Registered
  <2>2. work'[r].at = "cacheFill" =>
             work'[r].user \in A!Active' /\ work'[r].copy = A!CopyOf(work[r].user)'
    BY <1>1, <1>6, <2>1 DEF A!FindById, A!Finish, A!Idle, A!stores, WorkOK, A!Work, A!CopyOf
  <2>3. QED
    BY <1>1, <2>1, <2>2, FillAfter DEF CachedIsCurrent, IsCurrent, A!CopyOf, A!stores
<1>7. CASE A!CacheFill(r)
  <2>1. /\ \A u \in Users : cached[u] # NoAccount => IsCurrent(u)
        /\ UNCHANGED <<account, deleted, online>> /\ work'[r].at = "idle"
        /\ behind' = behind \ {work[r].user}
        /\ work[r].user \in A!Active /\ work[r].copy = A!CopyOf(work[r].user)
        /\ cached' = [cached EXCEPT ![work[r].user] = work[r].copy]
    BY <1>1, <1>7, CurrentBefore
       DEF A!CacheFill, A!Finish, A!Idle, WorkOK, AloneInv, FillIsCurrent
  <2>2. \A u \in Users : cached'[u] # NoAccount => IsCurrent(u)'
    BY <1>1, <2>1 DEF IsCurrent, A!Active, A!Registered, A!CopyOf, RowsOK
  <2>3. QED
    BY <1>1, <2>1, <2>2, FillAfter DEF CachedIsCurrent
<1>8. CASE A!Update(r) \/ A!SoftDelete(r)
  <2>1. CASE UNCHANGED <<account, deleted, online, was>> /\ A!Finish(r)
    BY <1>1, <1>2, <1>8, <2>1
       DEF A!Update, A!SoftDelete, A!Finish, A!Idle, WorkOK, A!stores
  <2>2. CASE A!Goto(r, "invalidate")
    <3>1. /\ \A u \in Users : cached[u] # NoAccount => IsCurrent(u)
          /\ UNCHANGED <<cached, behind>>
          /\ work'[r].at = "invalidate" /\ work'[r].user = work[r].user
      BY <1>1, <1>8, <2>2, CurrentBefore
         DEF A!Update, A!SoftDelete, A!Goto, WorkOK, A!Work
    <3>2. \A u \in Users : u # work[r].user /\ IsCurrent(u) => IsCurrent(u)'
      BY <1>1, <1>8, <3>1
         DEF IsCurrent, A!Active, A!Registered, A!CopyOf, A!Update, A!SoftDelete, A!Store,
             RowsOK
    <3>3. QED
      BY <1>1, <3>1, <3>2, FillAfter DEF CachedIsCurrent
  <2>3. QED
    BY <1>8, <2>1, <2>2 DEF A!Update, A!SoftDelete
<1>9. CASE A!Invalidate(r)
  <2>1. /\ \A u \in Users : cached[u] # NoAccount => u = work[r].user \/ IsCurrent(u)
        /\ UNCHANGED <<account, deleted, online>> /\ work'[r].at = "idle"
        /\ behind' = behind \ {work[r].user}
        /\ cached' = [cached EXCEPT ![work[r].user] = NoAccount]
    BY <1>1, <1>9 DEF A!Invalidate, A!Finish, A!Idle, WorkOK, AloneInv, CachedIsCurrent
  <2>2. \A u \in Users : cached'[u] # NoAccount => IsCurrent(u)'
    BY <1>1, <2>1 DEF IsCurrent, A!Active, A!Registered, A!CopyOf, RowsOK
  <2>3. QED
    BY <1>1, <2>1, <2>2, FillAfter DEF CachedIsCurrent
<1>10. QED
  BY <1>3, <1>4, <1>5, <1>6, <1>7, <1>8, <1>9 DEF A!Step

LEMMA ExpireKeepsCurrent ==
  ASSUME AloneInv, NEW u \in Users, A!Expire(u)
  PROVE  OneRequest' /\ CachedIsCurrent' /\ FillIsCurrent'
<1>1. /\ \A v \in Users : cached'[v] # NoAccount => cached'[v] = cached[v] /\ v # u
      /\ UNCHANGED <<account, deleted, online, work>> /\ behind' = behind \ {u}
  BY DEF A!Expire, AloneInv, AccountsInv, RowsOK
<1>2. QED
  BY <1>1 DEF AloneInv, OneRequest, CachedIsCurrent, FillIsCurrent, IsCurrent, A!Active,
              A!Registered, A!CopyOf

\* A user comes or goes between the requests.
LEMMA PresenceKeepsCurrent ==
  ASSUME AloneInv, NEW u \in A!Registered, A!updateOnlineStatus(u), A!AtRest
  PROVE  OneRequest' /\ CachedIsCurrent' /\ FillIsCurrent'
<1>1. /\ UNCHANGED <<account, deleted, cached, work>>
      /\ \A v \in Users : v # u => (v \in online' <=> v \in online)
      /\ cached[u] # NoAccount => u \in behind'
      /\ behind \subseteq behind'
  BY DEF A!updateOnlineStatus
<1>2. \A r \in Requests : work[r].at = "idle"
  BY DEF A!AtRest
<1>3. \A v \in Users : cached[v] # NoAccount /\ IsCurrent(v) => IsCurrent(v)'
  BY <1>1 DEF IsCurrent, A!Active, A!Registered, A!CopyOf
<1>4. QED
  BY <1>1, <1>2, <1>3 DEF AloneInv, OneRequest, CachedIsCurrent, FillIsCurrent

MCInv == Alone => AloneInv

mcVars == <<vars, accountVars, about>>

LEMMA InitMCInv == MCInit => MCInv
<1> SUFFICES ASSUME MCInit, Alone PROVE AloneInv
  BY DEF MCInv
<1>1. A!Init
  BY DEF MCInit, Alone
<1>2. AccountsInv
  BY <1>1, InitAccountsInv
<1>3. OneRequest /\ CachedIsCurrent /\ FillIsCurrent
  BY <1>1 DEF A!Init, A!Idle, OneRequest, CachedIsCurrent, FillIsCurrent
<1>4. QED
  BY <1>2, <1>3 DEF AloneInv

LEMMA OneRequestNextAloneInv ==
  ASSUME AloneInv, OneRequestNext
  PROVE  AloneInv'
<1>1. AccountsInv'
  BY FaultyNextAccountsInv DEF OneRequestNext, A!FaultyNext, AloneInv
<1>2. OneRequest'
  BY DEF OneRequestNext, OneRequest, Quiet
<1>3. CachedIsCurrent' /\ FillIsCurrent'
  BY <1>1, <1>2, StepKeepsCurrent, ExpireKeepsCurrent, PresenceKeepsCurrent
     DEF OneRequestNext, A!Next
<1>4. QED
  BY <1>1, <1>2, <1>3 DEF AloneInv

LEMMA MCNextMCInv == MCInv /\ [MCNext]_mcVars => MCInv'
<1> SUFFICES ASSUME MCInv, [MCNext]_mcVars, Alone' PROVE AloneInv'
  BY DEF MCInv
<1>1. Alone /\ AloneInv
  BY DEF MCInv, Alone, MCNext, mcVars
<1>2. CASE MCNext
  BY <1>1, <1>2, OneRequestNextAloneInv DEF MCNext, Alone
<1>3. CASE UNCHANGED mcVars
  <2>1. UNCHANGED A!vars
    BY <1>3 DEF mcVars, accountVars, vars, A!vars, A!stores
  <2>2. AccountsInv'
    BY <1>1, <2>1, FaultyNextAccountsInv DEF AloneInv
  <2>3. QED
    BY <1>1, <2>1, <2>2 DEF AloneInv, OneRequest, CachedIsCurrent, FillIsCurrent, IsCurrent,
                            A!Active, A!Registered, A!CopyOf, A!vars, A!stores
<1>4. QED
  BY <1>2, <1>3

\* user.service.ts:47 "Invalidate cache": as long as requests about accounts come
\* one at a time and nothing fails, a cached user exists and is as stored, for any
\* number of users and requests, except for an isOnline that login, logout or a
\* socket has written since.
THEOREM AloneCachedCurrent == MCSpec => []AloneCachedUserIsCurrent
<1>1. MCInv => AloneCachedUserIsCurrent
  BY DEF MCInv, AloneInv, CachedIsCurrent, IsCurrent, AloneCachedUserIsCurrent,
         CachedUserIsCurrent, A!CachedUserIsCurrent, A!AtRest
<1>2. QED
  BY <1>1, InitMCInv, MCNextMCInv, PTL DEF MCSpec, mcVars
=============================================================================
