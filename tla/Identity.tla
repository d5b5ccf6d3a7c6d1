------------------------------ MODULE Identity ------------------------------
(***************************************************************************)
(* Accounts and their sessions together, over one users table: only an     *)
(* account that exists logs in, the sessions' writes of isOnline are those *)
(* Accounts sees, and the writes of the status that Sessions sees are the  *)
(* calls of UserService.updateUser and deleteUser.  Each then does what    *)
(* its own module allows, so the theorems of both hold here.               *)
(***************************************************************************)
EXTENDS Sessions, UserRows

CONSTANT Requests

VARIABLES account, cached, work, was, behind

A == INSTANCE Accounts

sessionVars == <<now, token, task, parent, killed>>
accountVars == <<account, cached, work, was, behind>>

\* Whoever is not registered, or is deleted, is not found by a login.
SessionStep ==
  /\ Tick \/ \E h \in Handlers : Step(h) \/ Abort(h)
  /\ \A h \in Handlers : task'[h].actor \in A!Registered \cup {NoUser}
  /\ behind' = behind \cup {u \in Users : /\ cached[u] # NoAccount
                                         /\ (u \in online) # (u \in online')}
  /\ UNCHANGED <<account, cached, work, was>>

AccountStep == A!FaultyNext /\ UNCHANGED sessionVars

IdentityInit == Init /\ A!Init

IdentityNext == SessionStep \/ AccountStep

IdentitySpec == IdentityInit /\ [][IdentityNext]_<<vars, accountVars>>

-----------------------------------------------------------------------------
(* Properties.  Those of Sessions keep their names.                        *)

AccountsTypeOK == A!AccountsTypeOK

\* auth.service.ts:33: no two accounts share an email or a username, although
\* registrations check in one call and store in another.
UniqueIdentities == A!UniqueIdentities

\* user.service.ts:30: a cached user is a row that user has had.
CachedUserWasTrue == A!CachedUserWasTrue

\* user.service.ts:47: one request at a time and nothing failing, it is the row,
\* but for an isOnline written since.
CachedUserIsCurrent == A!CachedUserIsCurrent
=============================================================================
