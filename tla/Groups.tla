------------------------------- MODULE Groups -------------------------------
(***************************************************************************)
(* Groups and their members (modules/group/group.service.ts) behind the    *)
(* routes of group.routes.ts.  Permission is read in one call and used in  *)
(* a later one; creating a group is two writes.                            *)
(*   group     the groups table                                            *)
(*   role      the group_members table: each user's role, or "none"        *)
(*   task      what each handler is serving and the call it makes next     *)
(*   staff     who ever was a group's OWNER or ADMIN; its uuid is known    *)
(*             once somebody is                                            *)
(*   founder, promoted   history: who created a group, and whom an update  *)
(*             made its OWNER (neither is read by any action)              *)
(* The body of an update is not validated: it may rewrite the group's      *)
(* member rows.  Left out are bodies that write any other rows through the *)
(* relations, and updateMemberRole, which has no caller.                   *)
(***************************************************************************)
EXTENDS Naturals, FiniteSets

CONSTANTS Users, GroupIds, Handlers, NoUser, NoGroup

ASSUME GroupAssumption == NoUser \notin Users /\ NoGroup \notin GroupIds

VARIABLES group, role, task, staff, founder, promoted

vars == <<group, role, task, staff, founder, promoted>>
tables == <<group, role, staff, founder, promoted>>

Roles == {"MEMBER", "ADMIN", "OWNER"}

Task == [op : {"none", "create", "update", "delete", "add", "remove", "leave"},
         at : {"idle", "create", "addOwner", "checkPermission", "update", "delete",
               "addMember", "getTarget", "getMember", "removeMember"},
         actor : Users \cup {NoUser}, g : GroupIds \cup {NoGroup},
         target : Users \cup {NoUser}, as : Roles \cup {"none"}]

Idle == [op |-> "none", at |-> "idle", actor |-> NoUser, g |-> NoGroup,
         target |-> NoUser, as |-> "none"]

Goto(h, await) == task' = [task EXCEPT ![h].at = await]

\* The handler replies: success, 403, 404 or 500.
Finish(h) == task' = [task EXCEPT ![h] = Idle]

\* A group's uuid is known to clients once its owner's row, which is written
\* before the reply, makes it appear in their lists.
Known(g) == staff[g] # {}

\* groupMember.findUnique; NoGroup is a uuid that no group has.
RoleIn(g, u) == IF g = NoGroup THEN "none" ELSE role[g][u]

\* groupMember.create: the group must exist, and (group, user) is unique.
CanInsert(g, u) == group[g] = "live" /\ role[g][u] = "none"

InsertMember(g, u, r) ==
  /\ role' = [role EXCEPT ![g][u] = r]
  /\ staff' = [staff EXCEPT ![g] = IF r = "MEMBER" THEN @ ELSE @ \cup {u}]

-----------------------------------------------------------------------------

Start(h, op, await, g, target, r) ==
  /\ task[h].at = "idle"
  /\ \E u \in Users :
       task' = [task EXCEPT ![h] = [op |-> op, at |-> await, actor |-> u, g |-> g,
                                    target |-> target, as |-> r]]
  /\ UNCHANGED tables

\* Bound: a create starts only when an unused uuid is left for it.
StartCreate(h) ==
  /\ Cardinality({k \in Handlers : task[k].at = "create"})
       < Cardinality({g \in GroupIds : group[g] = "none"})
  /\ Start(h, "create", "create", NoGroup, NoUser, "none")

\* The member routes: addGroupMemberSchema admits MEMBER and ADMIN; removeMember
\* reads params.memberId, which the route /:id/members/:userId never sets.
StartOnGroup(h) ==
  \E g \in {k \in GroupIds : Known(k)} \cup {NoGroup} :
    \/ \E op \in {"update", "delete"} : Start(h, op, "checkPermission", g, NoUser, "none")
    \/ \E u \in Users, r \in {"MEMBER", "ADMIN"} : Start(h, "add", "checkPermission", g, u, r)
    \/ Start(h, "remove", "checkPermission", g, NoUser, "none")
    \/ Start(h, "leave", "getMember", g, NoUser, "none")

-----------------------------------------------------------------------------

Create(h) ==
  /\ task[h].at = "create"
  /\ \E g \in GroupIds :
       /\ group[g] = "none"
       /\ group' = [group EXCEPT ![g] = "live"]
       /\ founder' = [founder EXCEPT ![g] = task[h].actor]
       /\ task' = [task EXCEPT ![h].at = "addOwner", ![h].g = g]
  /\ UNCHANGED <<role, staff, promoted>>

\* Then getGroupById reads the group for the reply.
AddOwner(h) ==
  /\ task[h].at = "addOwner"
  /\ InsertMember(task[h].g, task[h].actor, "OWNER")
  /\ Finish(h)
  /\ UNCHANGED <<group, founder, promoted>>

\* Mutant: any member may add.
AllowedForMembers(op) == IF op = "add" THEN Roles ELSE {"OWNER", "ADMIN"}

\* Mutant: an administrator may delete the group.
AllowedForStaff(op) == {"OWNER", "ADMIN"}

Allowed(op) == IF op = "delete" THEN {"OWNER"} ELSE {"OWNER", "ADMIN"}

CheckPermission(h) ==
  /\ task[h].at = "checkPermission"
  /\ LET t == task[h]
     IN IF RoleIn(t.g, t.actor) \in Allowed(t.op)
        THEN Goto(h, CASE t.op = "add"    -> "addMember"
                       [] t.op = "remove" -> "getTarget"
                       [] OTHER           -> t.op)
        ELSE Finish(h)
  /\ UNCHANGED tables

\* One nested write: the members may become any, in any roles, besides the title
\* and the like.  Updating a group that is gone is an error.
Update(h) ==
  /\ task[h].at = "update"
  /\ LET g == task[h].g
     IN IF group[g] = "live"
        THEN \E members \in [Users -> Roles \cup {"none"}] :
               /\ role' = [role EXCEPT ![g] = members]
               /\ staff' = [staff EXCEPT ![g] =
                              @ \cup {u \in Users : members[u] \in {"ADMIN", "OWNER"}}]
               /\ promoted' = [promoted EXCEPT ![g] = @ \cup
                    {u \in Users : members[u] = "OWNER" /\ role[g][u] # "OWNER"}]
        ELSE UNCHANGED <<role, staff, promoted>>
  /\ Finish(h)
  /\ UNCHANGED <<group, founder>>

\* onDelete: Cascade takes the members along; a second delete is an error.
Delete(h) ==
  /\ task[h].at = "delete"
  /\ LET g == task[h].g
     IN IF group[g] = "live"
        THEN /\ group' = [group EXCEPT ![g] = "gone"]
             /\ role' = [role EXCEPT ![g] = [u \in Users |-> "none"]]
        ELSE UNCHANGED <<group, role>>
  /\ Finish(h)
  /\ UNCHANGED <<staff, founder, promoted>>

\* Mutant: an upsert, which overwrites the role of a member.
AddMemberUpsert(h) ==
  /\ task[h].at = "addMember"
  /\ LET t == task[h]
     IN IF group[t.g] = "live"
        THEN InsertMember(t.g, t.target, t.as) ELSE UNCHANGED <<role, staff>>
  /\ Finish(h)
  /\ UNCHANGED <<group, founder, promoted>>

AddMember(h) ==
  /\ task[h].at = "addMember"
  /\ LET t == task[h]
     IN IF CanInsert(t.g, t.target)
        THEN InsertMember(t.g, t.target, t.as) ELSE UNCHANGED <<role, staff>>
  /\ Finish(h)
  /\ UNCHANGED <<group, founder, promoted>>

\* Prisma refuses a findUnique with an undefined user: the removal ends in 500.
GetTarget(h) ==
  /\ task[h].at = "getTarget"
  /\ Finish(h)
  /\ UNCHANGED tables

\* leaveGroup: a user who is no member passes, and fails at the delete.
GetMember(h) ==
  /\ task[h].at = "getMember"
  /\ IF RoleIn(task[h].g, task[h].actor) = "OWNER"
     THEN Finish(h) ELSE Goto(h, "removeMember")
  /\ UNCHANGED tables

RemoveMember(h) ==
  /\ task[h].at = "removeMember"
  /\ role' = IF task[h].g = NoGroup THEN role
             ELSE [role EXCEPT ![task[h].g][task[h].actor] = "none"]
  /\ Finish(h)
  /\ UNCHANGED <<group, staff, founder, promoted>>

-----------------------------------------------------------------------------

\* The awaited call fails, or the process dies before it.
Abort(h) ==
  /\ task[h].at # "idle"
  /\ Finish(h)
  /\ UNCHANGED tables

Init ==
  /\ group = [g \in GroupIds |-> "none"]
  /\ role = [g \in GroupIds |-> [u \in Users |-> "none"]]
  /\ task = [h \in Handlers |-> Idle]
  /\ founder = [g \in GroupIds |-> NoUser]
  /\ staff = [g \in GroupIds |-> {}]
  /\ promoted = [g \in GroupIds |-> {}]

Step(h) ==
  \/ StartCreate(h) \/ StartOnGroup(h) \/ Create(h) \/ AddOwner(h)
  \/ CheckPermission(h) \/ Update(h) \/ Delete(h) \/ AddMember(h) \/ GetTarget(h)
  \/ GetMember(h) \/ RemoveMember(h)

Next == \E h \in Handlers : Step(h)

FaultyNext == Next \/ \E h \in Handlers : Abort(h)

Spec == Init /\ [][Next]_vars

FaultySpec == Init /\ [][FaultyNext]_vars

-----------------------------------------------------------------------------
(* Properties.                                                             *)

\* Every variable has its type, and no member row outlives or precedes its
\* group, although adds and deletes overlap.
TypeOK ==
  /\ group \in [GroupIds -> {"none", "live", "gone"}]
  /\ role \in [GroupIds -> [Users -> Roles \cup {"none"}]]
  /\ task \in [Handlers -> Task]
  /\ founder \in [GroupIds -> Users \cup {NoUser}]
  /\ staff \in [GroupIds -> SUBSET Users]
  /\ promoted \in [GroupIds -> SUBSET Users]
  /\ \A g \in GroupIds : group[g] # "live" => \A u \in Users : role[g][u] = "none"

\* Handler h ends its call await about group g in this step.
Ends(h, await, g) == task[h].at = await /\ task[h].g = g /\ task'[h] # task[h]

\* group.service.ts:124 "Owner cannot leave the group": ownership ends with the
\* group or by an update from its staff, and begins with the creation or by such
\* an update; an owner gets out by leaving only if an update made them owner
\* between the check of leaveGroup and its delete.
OwnershipIsDecided ==
  [][\A g \in GroupIds, u \in Users :
       (role'[g][u] = "OWNER") # (role[g][u] = "OWNER") =>
         \/ group[g] = "live" /\ group'[g] = "gone"
         \/ \E h \in Handlers :
              \/ Ends(h, "update", g) /\ task[h].actor \in staff[g]
              \/ Ends(h, "addOwner", g) /\ u = founder[g] /\ u = task[h].actor
              \/ Ends(h, "removeMember", g) /\ u = task[h].actor /\ u \in promoted[g]]_vars

\* group.service.ts:75: a group is deleted only by its founder or by somebody an
\* update made its owner, although permission is read one call earlier.
DeletedByItsOwner ==
  [][\A g \in GroupIds : group[g] = "live" /\ group'[g] = "gone" =>
       \E h \in Handlers : /\ Ends(h, "delete", g)
                           /\ task[h].actor \in promoted[g] \cup {founder[g]}]_vars

\* group.service.ts:86, 124: members are let in by somebody who was once owner or
\* administrator of that very group, and out by themselves, by an update of such
\* a person, or with the group.
MembershipIsDecided ==
  [][\A g \in GroupIds, u \in Users :
       (role'[g][u] = "none") # (role[g][u] = "none") /\ group'[g] = "live" =>
         \E h \in Handlers :
           /\ task'[h] # task[h] /\ task[h].g = g
           /\ \/ /\ task[h].actor \in staff[g] \cup {founder[g]}
                 /\ role'[g][u] # "none" \/ task[h].at = "update"
              \/ role'[g][u] = "none" /\ task[h].actor = u]_vars
=============================================================================
