----------------------------- MODULE MCIdentity -----------------------------
(***************************************************************************)
(* Identity for TLC, on three instances at once, told apart by a variable  *)
(* that never changes: the sessions of one account that may be deleted,    *)
(* with overlapping handlers; overlapping requests about accounts, with    *)
(* faults, while nobody comes or goes; and one such request at a time,     *)
(* without faults, while users come and go between them.                   *)
(***************************************************************************)
EXTENDS Identity, TLC

VARIABLE about

Alone == about = "oneAccountRequest"

Known == CHOOSE u \in Users : TRUE

MCInit ==
  /\ about \in {"sessions", "accounts", "oneAccountRequest"}
  /\ Init
  /\ cached = [u \in Users |-> NoAccount]
  /\ work = [r \in Requests |-> A!Idle]
  /\ behind = {}
  /\ IF about = "sessions"
     THEN LET row == CHOOSE a \in Account : TRUE
          IN /\ account = [u \in Users |-> IF u = Known THEN row ELSE NoAccount]
             /\ was = [u \in Users |-> IF u = Known THEN {row} ELSE {}]
     ELSE A!Init

Quiet(r) == work'[r].at = "idle"

\* Of the account's requests only its deletion, once.
Deletion(r) ==
  /\ \/ deleted = {} /\ A!StartDelete(r)
     \/ A!SoftDelete(r) \/ A!Invalidate(r) \/ A!Abort(r)
  /\ \A q, s \in Requests : Quiet(q) \/ Quiet(s) \/ q = s
  /\ UNCHANGED sessionVars

SessionsNext == SessionStep \/ \E r \in Requests : Deletion(r)

AccountsNext == AccountStep /\ online' = online

OneRequestNext ==
  /\ A!Next
  /\ (\E u \in A!Registered : A!updateOnlineStatus(u)) => A!AtRest
  /\ \A q, r \in Requests : Quiet(q) \/ Quiet(r) \/ q = r
  /\ UNCHANGED sessionVars

MCNext ==
  /\ \/ about = "sessions" /\ SessionsNext
     \/ about = "accounts" /\ AccountsNext
     \/ about = "oneAccountRequest" /\ OneRequestNext
  /\ UNCHANGED about

MCSpec == MCInit /\ [][MCNext]_<<vars, accountVars, about>>

\* Which address and which name the account of the sessions has is one choice that
\* stands for all: nothing else tells them apart.  Only safety is checked.
Symmetry ==
  Permutations(Handlers) \cup Permutations(Requests)
    \cup Permutations(Emails) \cup Permutations(Names)

\* user.service.ts:47 "Invalidate cache": one request at a time and nothing
\* failing, a cached user exists and is as stored, except for an isOnline that was
\* written past the cache.
AloneCachedUserIsCurrent == Alone => CachedUserIsCurrent
=============================================================================
