---------------------------- MODULE GroupsProofs ----------------------------
(***************************************************************************)
(* Proofs about Groups for any number of users, groups and overlapping     *)
(* handlers, with failing calls and crashes (FaultySpec).                  *)
(***************************************************************************)
EXTENDS Groups, TLAPS

\* The tables: a member's group is known, its owners founded it or were made so by
\* an update, and staff has everybody who holds a role of the staff.
RolesOK ==
  /\ \A g \in GroupIds : Known(g) => group[g] # "none"
  /\ \A g \in GroupIds, u \in Users :
       /\ role[g][u] # "none" => Known(g)
       /\ role[g][u] = "OWNER" => u \in promoted[g] \cup {founder[g]}
       /\ role[g][u] \in {"OWNER", "ADMIN"} => u \in staff[g]

\* A new group waits for its owner's row; nobody else can have a row in it.
Waiting(g) ==
  /\ group[g] = "live" /\ founder[g] \in Users /\ ~Known(g)
  /\ \A u \in Users : role[g][u] = "none"

\* What a handler with task t may rely on at its next call, whatever ran since
\* its checks: the group was known when it was named, a deleting handler's actor
\* was its owner, one that adds or updates was of its staff, and a leaving one is
\* no owner unless an update has made them one since.
HandlerOK(t) ==
  /\ t.at # "idle" => t.actor \in Users
  /\ t.at = "create" => t.g = NoGroup
  /\ t.at = "addOwner" => t.g \in GroupIds /\ Waiting(t.g) /\ founder[t.g] = t.actor
  /\ t.at # "addOwner" /\ t.g # NoGroup => Known(t.g) /\ group[t.g] # "none"
  /\ t.at = "checkPermission" => t.op \in {"update", "delete", "add", "remove"}
  /\ t.op = "add" => t.target \in Users /\ t.as \in {"MEMBER", "ADMIN"}
  /\ t.at \in {"update", "delete", "addMember", "getTarget"} => t.g \in GroupIds
  /\ t.at = "delete" => t.actor \in promoted[t.g] \cup {founder[t.g]}
  /\ t.at \in {"addMember", "update"} => t.actor \in staff[t.g]
  /\ t.at = "addMember" => t.op = "add"
  /\ t.at = "removeMember" /\ t.g # NoGroup /\ role[t.g][t.actor] = "OWNER"
       => t.actor \in promoted[t.g]

Handlers_OK == \A h \in Handlers : HandlerOK(task[h])

\* No two handlers are to write the owner's row of one group.
OneCreator ==
  \A h, k \in Handlers :
    task[h].at = "addOwner" /\ task[k].at = "addOwner" /\ task[h].g = task[k].g => h = k

\* The inductive invariant.
IInv == TypeOK /\ RolesOK /\ Handlers_OK /\ OneCreator

\* What every step does to a group g: its founder, its staff and those promoted stay
\* on record, and once it is known nobody becomes its owner without being promoted.
Stable(g) ==
  /\ group[g] # "none" => group'[g] # "none" /\ founder'[g] = founder[g]
  /\ staff[g] \subseteq staff'[g] /\ promoted[g] \subseteq promoted'[g]
  /\ Known(g) => \A u \in Users :
       role'[g][u] = "OWNER" => role[g][u] = "OWNER" \/ u \in promoted'[g]

GroupsStable == \A g \in GroupIds : Stable(g)

\* Groups that still wait for their owner's row are left alone, but for except.
WaitingStable(except) ==
  \A g \in GroupIds \ {except} : Waiting(g) => Waiting(g)'

-----------------------------------------------------------------------------

\* A handler that does nothing keeps what it knows.
LEMMA HandlerStable ==
  ASSUME NEW t \in Task, HandlerOK(t), GroupsStable,
         t.at = "addOwner" => Waiting(t.g)'
  PROVE  HandlerOK(t)'
<1>1. CASE t.g = NoGroup
  BY <1>1, GroupAssumption DEF HandlerOK
<1>2. CASE t.g # NoGroup
  <2>1. t.g \in GroupIds /\ Stable(t.g)
    BY <1>2 DEF Task, GroupsStable
  <2>2. CASE t.at = "addOwner"
    BY <2>1, <2>2 DEF HandlerOK, Stable, Waiting, Known
  <2>3. CASE t.at # "addOwner"
    <3>1. Known(t.g) /\ group[t.g] # "none"
      BY <1>2, <2>3 DEF HandlerOK
    <3>2. Known(t.g)' /\ group'[t.g] # "none" /\ founder'[t.g] = founder[t.g]
      BY <2>1, <3>1 DEF Stable, Known
    <3>3. staff[t.g] \subseteq staff'[t.g] /\ promoted[t.g] \subseteq promoted'[t.g]
      BY <2>1 DEF Stable
    <3>4. t.at = "removeMember" /\ role'[t.g][t.actor] = "OWNER" => t.actor \in promoted'[t.g]
      <4>1. SUFFICES ASSUME t.at = "removeMember", role'[t.g][t.actor] = "OWNER"
                     PROVE  t.actor \in promoted'[t.g]
        OBVIOUS
      <4>2. t.actor \in Users /\ (role[t.g][t.actor] = "OWNER" => t.actor \in promoted[t.g])
        BY <1>2, <4>1 DEF HandlerOK
      <4>3. role[t.g][t.actor] = "OWNER" \/ t.actor \in promoted'[t.g]
        BY <2>1, <3>1, <4>1, <4>2 DEF Stable
      <4>4. QED
        BY <3>3, <4>2, <4>3
    <3>5. QED
      BY <2>1, <2>3, <3>1, <3>2, <3>3, <3>4 DEF HandlerOK
  <2>4. QED
    BY <2>2, <2>3
<1>3. QED
  BY <1>1, <1>2

LEMMA IdleOK == Idle \in Task /\ HandlerOK(Idle) /\ HandlerOK(Idle)'
  BY GroupAssumption DEF Idle, Task, HandlerOK

\* Handler h moves to a task in order after the step, which creates no group
\* and leaves the waiting ones alone, but for the one h was to give an owner.
Advance(h) ==
  \E t \in Task :
    /\ task' = [task EXCEPT ![h] = t]
    /\ HandlerOK(t)'
    /\ t.at = "addOwner" => ~\E k \in Handlers : task[k].at = "addOwner" /\ task[k].g = t.g
    /\ GroupsStable
    /\ WaitingStable(IF task[h].at = "addOwner" THEN task[h].g ELSE NoGroup)

LEMMA AdvanceKeepsHandlers ==
  ASSUME IInv, NEW h \in Handlers, Advance(h)
  PROVE  task' \in [Handlers -> Task] /\ Handlers_OK' /\ OneCreator'
<1>1. PICK t \in Task :
        /\ task' = [task EXCEPT ![h] = t]
        /\ HandlerOK(t)'
        /\ t.at = "addOwner" =>
             ~\E k \in Handlers : task[k].at = "addOwner" /\ task[k].g = t.g
        /\ GroupsStable
        /\ WaitingStable(IF task[h].at = "addOwner" THEN task[h].g ELSE NoGroup)
  BY DEF Advance
<1>2. task \in [Handlers -> Task]
  BY DEF IInv, TypeOK
<1>3. task' \in [Handlers -> Task]
  BY <1>1, <1>2
<1>4. ASSUME NEW k \in Handlers PROVE HandlerOK(task[k])'
  <2>1. CASE k = h
    BY <1>1, <1>2, <2>1 DEF HandlerOK
  <2>2. CASE k # h
    <3>1. task'[k] = task[k] /\ task[k] \in Task /\ HandlerOK(task[k])
      BY <1>1, <1>2, <2>2 DEF IInv, Handlers_OK
    <3>2. task[k].at = "addOwner" => Waiting(task[k].g)'
      <4>1. SUFFICES ASSUME task[k].at = "addOwner" PROVE Waiting(task[k].g)'
        OBVIOUS
      <4>2. task[k].g \in GroupIds /\ Waiting(task[k].g)
        BY <3>1, <4>1 DEF HandlerOK
      <4>3. task[k].g # (IF task[h].at = "addOwner" THEN task[h].g ELSE NoGroup)
        BY <2>2, <4>1, <4>2, GroupAssumption DEF IInv, OneCreator
      <4>4. QED
        BY <1>1, <3>1, <4>2, <4>3 DEF WaitingStable, Waiting
    <3>3. QED
      BY <1>1, <3>1, <3>2, HandlerStable DEF HandlerOK
  <2>3. QED
    BY <2>1, <2>2
<1>5. OneCreator'
  BY <1>1, <1>2 DEF IInv, OneCreator
<1>6. QED
  BY <1>3, <1>4, <1>5 DEF Handlers_OK

LEMMA InitIInv == Init => IInv
<1> SUFFICES ASSUME Init PROVE IInv
  OBVIOUS
<1>1. TypeOK
  BY IdleOK DEF Init, TypeOK
<1>2. RolesOK
  BY DEF Init, RolesOK, Known
<1>3. Handlers_OK
  BY IdleOK DEF Init, Handlers_OK
<1>4. OneCreator
  BY DEF Init, OneCreator, Idle
<1>5. QED
  BY <1>1, <1>2, <1>3, <1>4 DEF IInv

\* A step that leaves the tables alone.
LEMMA TablesUnchanged ==
  ASSUME IInv, UNCHANGED tables
  PROVE  /\ GroupsStable
         /\ \A g : WaitingStable(g)
         /\ RolesOK'
         /\ TypeOK /\ task' \in [Handlers -> Task] => TypeOK'
  BY DEF tables, IInv, TypeOK, GroupsStable, Stable, WaitingStable, Waiting, Known, RolesOK

LEMMA ReadOnly ==
  ASSUME IInv, NEW h \in Handlers, UNCHANGED tables, NEW t \in Task,
         task' = [task EXCEPT ![h] = t], HandlerOK(t)', t.at # "addOwner"
  PROVE  IInv'
<1>1. Advance(h)
  BY TablesUnchanged DEF Advance
<1>2. QED
  BY <1>1, AdvanceKeepsHandlers, TablesUnchanged DEF IInv

LEMMA FinishReadOnly ==
  ASSUME IInv, NEW h \in Handlers, UNCHANGED tables, Finish(h)
  PROVE  IInv'
  BY IdleOK, ReadOnly DEF Finish, Idle

LEMMA GotoReadOnly ==
  ASSUME IInv, NEW h \in Handlers, UNCHANGED tables, NEW l, Goto(h, l), l # "addOwner",
         [task[h] EXCEPT !.at = l] \in Task, HandlerOK([task[h] EXCEPT !.at = l])
  PROVE  IInv'
<1>1. task' = [task EXCEPT ![h] = [task[h] EXCEPT !.at = l]]
  BY DEF Goto
<1>2. ASSUME NEW t \in Task, t = [task[h] EXCEPT !.at = l] PROVE HandlerOK(t)'
  <2>1. HandlerOK(t) /\ t.at # "addOwner"
    BY <1>2
  <2>2. QED
    BY <2>1, HandlerStable, TablesUnchanged
<1>3. QED
  BY <1>1, <1>2, ReadOnly DEF Task

Request(op, await, u, g, target, r) ==
  [op |-> op, at |-> await, actor |-> u, g |-> g, target |-> target, as |-> r]

LEMMA StartKeepsIInv ==
  ASSUME IInv, NEW h \in Handlers, NEW op, NEW await, NEW g, NEW target, NEW r,
         Start(h, op, await, g, target, r), await # "addOwner",
         \A u \in Users : /\ Request(op, await, u, g, target, r) \in Task
                          /\ HandlerOK(Request(op, await, u, g, target, r))
  PROVE  IInv'
<1>1. PICK u \in Users : task' = [task EXCEPT ![h] = Request(op, await, u, g, target, r)]
  BY DEF Start, Request
<1>2. UNCHANGED tables
  BY DEF Start
<1>3. PICK t \in Task : t = Request(op, await, u, g, target, r)
  OBVIOUS
<1>4. HandlerOK(t) /\ t.at # "addOwner"
  BY <1>3 DEF Request
<1>5. HandlerOK(t)'
  BY <1>2, <1>4, HandlerStable, TablesUnchanged
<1>6. QED
  BY <1>1, <1>2, <1>3, <1>4, <1>5, ReadOnly

LEMMA StartsKeepIInv ==
  ASSUME IInv, NEW h \in Handlers, StartCreate(h) \/ StartOnGroup(h) PROVE IInv'
<1>1. CASE StartCreate(h)
  <2>1. Start(h, "create", "create", NoGroup, NoUser, "none")
    BY <1>1 DEF StartCreate
  <2>2. \A u \in Users : /\ Request("create", "create", u, NoGroup, NoUser, "none") \in Task
                         /\ HandlerOK(Request("create", "create", u, NoGroup, NoUser, "none"))
    BY DEF Request, HandlerOK, Task
  <2>3. QED
    BY <2>1, <2>2, StartKeepsIInv
<1>2. CASE StartOnGroup(h)
  <2>1. PICK g \in {k \in GroupIds : Known(k)} \cup {NoGroup} :
          \/ \E op \in {"update", "delete"} : Start(h, op, "checkPermission", g, NoUser, "none")
          \/ \E u \in Users, r \in {"MEMBER", "ADMIN"} : Start(h, "add", "checkPermission", g, u, r)
          \/ Start(h, "remove", "checkPermission", g, NoUser, "none")
          \/ Start(h, "leave", "getMember", g, NoUser, "none")
    BY <1>2 DEF StartOnGroup
  <2>2. g \in GroupIds \cup {NoGroup} /\ (g # NoGroup => Known(g) /\ group[g] # "none")
    BY <2>1 DEF IInv, RolesOK
  <2>3. ASSUME NEW op \in {"update", "delete"},
               Start(h, op, "checkPermission", g, NoUser, "none")
        PROVE  IInv'
    <3>1. \A u \in Users : /\ Request(op, "checkPermission", u, g, NoUser, "none") \in Task
                           /\ HandlerOK(Request(op, "checkPermission", u, g, NoUser, "none"))
      BY <2>2 DEF Request, HandlerOK, Task
    <3>2. QED
      BY <2>3, <3>1, StartKeepsIInv
  <2>4. ASSUME NEW target \in Users, NEW r \in {"MEMBER", "ADMIN"},
               Start(h, "add", "checkPermission", g, target, r)
        PROVE  IInv'
    <3>1. \A u \in Users : /\ Request("add", "checkPermission", u, g, target, r) \in Task
                           /\ HandlerOK(Request("add", "checkPermission", u, g, target, r))
      BY <2>2 DEF Request, HandlerOK, Task, Roles
    <3>2. QED
      BY <2>4, <3>1, StartKeepsIInv
  <2>5. CASE Start(h, "remove", "checkPermission", g, NoUser, "none")
    <3>1. \A u \in Users : /\ Request("remove", "checkPermission", u, g, NoUser, "none") \in Task
                           /\ HandlerOK(Request("remove", "checkPermission", u, g, NoUser, "none"))
      BY <2>2 DEF Request, HandlerOK, Task
    <3>2. QED
      BY <2>5, <3>1, StartKeepsIInv
  <2>6. CASE Start(h, "leave", "getMember", g, NoUser, "none")
    <3>1. \A u \in Users : /\ Request("leave", "getMember", u, g, NoUser, "none") \in Task
                           /\ HandlerOK(Request("leave", "getMember", u, g, NoUser, "none"))
      BY <2>2 DEF Request, HandlerOK, Task
    <3>2. QED
      BY <2>6, <3>1, StartKeepsIInv
  <2>7. QED
    BY <2>1, <2>3, <2>4, <2>5, <2>6
<1>3. QED
  BY <1>1, <1>2

LEMMA ChecksKeepIInv ==
  ASSUME IInv, NEW h \in Handlers, CheckPermission(h) \/ GetMember(h) PROVE IInv'
<1> DEFINE t == task[h]
<1>1. UNCHANGED tables /\ t \in Task /\ HandlerOK(t)
  BY DEF CheckPermission, GetMember, IInv, TypeOK, Handlers_OK
<1>2. CASE CheckPermission(h)
  <2> DEFINE next == CASE t.op = "add" -> "addMember" [] t.op = "remove" -> "getTarget"
                       [] OTHER -> t.op
  <2>1. CASE RoleIn(t.g, t.actor) \notin Allowed(t.op)
    BY <1>1, <1>2, <2>1, FinishReadOnly DEF CheckPermission
  <2>2. CASE RoleIn(t.g, t.actor) \in Allowed(t.op)
    <3>1. /\ t.at = "checkPermission" /\ t.g \in GroupIds /\ Known(t.g)
          /\ role[t.g][t.actor] \in Allowed(t.op)
          /\ t.actor \in Users
      BY <1>1, <1>2, <2>2 DEF CheckPermission, RoleIn, Allowed, HandlerOK, Task
    <3>2. t.actor \in staff[t.g]
      BY <3>1 DEF IInv, RolesOK, Allowed
    <3>3. t.op = "delete" => t.actor \in promoted[t.g] \cup {founder[t.g]}
      BY <3>1 DEF IInv, RolesOK, Allowed
    <3>4. t.op \in {"update", "delete", "add", "remove"}
      BY <1>1, <3>1 DEF HandlerOK
    <3>5. [t EXCEPT !.at = next] \in Task /\ next # "addOwner"
      BY <1>1, <3>4 DEF Task
    <3>6. HandlerOK([t EXCEPT !.at = next])
      BY <1>1, <3>1, <3>2, <3>3, <3>4, GroupAssumption DEF HandlerOK, Task
    <3>7. Goto(h, next)
      BY <1>2, <2>2 DEF CheckPermission
    <3>8. QED
      BY <1>1, <3>5, <3>6, <3>7, GotoReadOnly
  <2>3. QED
    BY <2>1, <2>2
<1>3. CASE GetMember(h)
  <2>1. CASE RoleIn(t.g, t.actor) = "OWNER"
    BY <1>1, <1>3, <2>1, FinishReadOnly DEF GetMember
  <2>2. CASE RoleIn(t.g, t.actor) # "OWNER"
    <3>1. t.at = "getMember" /\ Goto(h, "removeMember")
      BY <1>3, <2>2 DEF GetMember
    <3>2. t.g # NoGroup => role[t.g][t.actor] # "OWNER"
      BY <2>2 DEF RoleIn
    <3>3. [t EXCEPT !.at = "removeMember"] \in Task
      BY <1>1 DEF Task
    <3>4. HandlerOK([t EXCEPT !.at = "removeMember"])
      BY <1>1, <3>1, <3>2 DEF HandlerOK, Task
    <3>5. QED
      BY <1>1, <3>1, <3>3, <3>4, GotoReadOnly
  <2>3. QED
    BY <2>1, <2>2
<1>4. QED
  BY <1>2, <1>3

\* The calls that end a request without touching the tables.
LEMMA RepliesKeepIInv ==
  ASSUME IInv, NEW h \in Handlers, GetTarget(h) \/ Abort(h) PROVE IInv'
  BY FinishReadOnly DEF GetTarget, Abort

\* A call that writes and then replies: what is left to check is the tables.
LEMMA FinishKeepsIInv ==
  ASSUME IInv, NEW h \in Handlers, Finish(h), GroupsStable,
         WaitingStable(IF task[h].at = "addOwner" THEN task[h].g ELSE NoGroup),
         RolesOK', task' \in [Handlers -> Task] => TypeOK'
  PROVE  IInv'
<1>1. Advance(h)
  BY IdleOK DEF Finish, Advance, Idle
<1>2. QED
  BY <1>1, AdvanceKeepsHandlers DEF IInv

LEMMA CreateKeepsIInv ==
  ASSUME IInv, NEW h \in Handlers, Create(h) PROVE IInv'
<1>1. PICK g \in GroupIds :
        /\ group[g] = "none"
        /\ group' = [group EXCEPT ![g] = "live"]
        /\ founder' = [founder EXCEPT ![g] = task[h].actor]
        /\ task' = [task EXCEPT ![h].at = "addOwner", ![h].g = g]
  BY DEF Create
<1>2. UNCHANGED <<role, staff, promoted>> /\ task[h].at = "create"
  BY DEF Create
<1>3. TypeOK /\ RolesOK /\ task[h] \in Task /\ HandlerOK(task[h]) /\ task[h].actor \in Users
  BY <1>2 DEF IInv, TypeOK, Handlers_OK, HandlerOK
<1>4. ~Known(g) /\ \A u \in Users : role[g][u] = "none"
  BY <1>1, <1>3 DEF TypeOK, RolesOK
<1>5. GroupsStable
  BY <1>1, <1>2, <1>3 DEF GroupsStable, Stable, TypeOK
<1>6. WaitingStable(NoGroup)
  BY <1>1, <1>2, <1>3 DEF WaitingStable, Waiting, Known, TypeOK
<1>7. PICK t \in Task : t = [task[h] EXCEPT !.at = "addOwner", !.g = g]
  BY <1>3 DEF Task
<1>8. Waiting(g)' /\ founder'[g] = task[h].actor
  BY <1>1, <1>2, <1>3, <1>4 DEF Waiting, Known, TypeOK
<1>9. HandlerOK(t)'
  BY <1>2, <1>3, <1>7, <1>8 DEF HandlerOK, Task
<1>10. ~\E k \in Handlers : task[k].at = "addOwner" /\ task[k].g = g
  BY <1>1 DEF IInv, Handlers_OK, HandlerOK, Waiting
<1>11. Advance(h)
  BY <1>1, <1>2, <1>5, <1>6, <1>7, <1>9, <1>10 DEF Advance, Task
<1>12. RolesOK'
  BY <1>1, <1>2, <1>3, <1>4 DEF RolesOK, Known, TypeOK
<1>13. TypeOK'
  BY <1>1, <1>2, <1>3, <1>4, <1>11, AdvanceKeepsHandlers DEF TypeOK
<1>14. QED
  BY <1>11, <1>12, <1>13, AdvanceKeepsHandlers DEF IInv

LEMMA AddOwnerKeepsIInv ==
  ASSUME IInv, NEW h \in Handlers, AddOwner(h) PROVE IInv'
<1> DEFINE g == task[h].g
           u == task[h].actor
<1>1. /\ g \in GroupIds /\ u \in Users /\ Waiting(g) /\ founder[g] = u
      /\ task[h].at = "addOwner" /\ TypeOK /\ RolesOK
  BY DEF AddOwner, IInv, Handlers_OK, HandlerOK
<1>2. /\ role' = [role EXCEPT ![g][u] = "OWNER"]
      /\ staff' = [staff EXCEPT ![g] = @ \cup {u}]
      /\ UNCHANGED <<group, founder, promoted>> /\ Finish(h)
  BY DEF AddOwner, InsertMember
<1>3. GroupsStable
  BY <1>1, <1>2 DEF GroupsStable, Stable, Waiting, TypeOK
<1>4. WaitingStable(g)
  BY <1>1, <1>2 DEF WaitingStable, Waiting, Known, TypeOK
<1>5. group'[g] = "live" /\ founder'[g] = u /\ role'[g][u] = "OWNER" /\ u \in staff'[g]
  BY <1>1, <1>2 DEF Waiting, TypeOK
<1>6. RolesOK'
  <2>1. ASSUME NEW k \in GroupIds PROVE Known(k)' => group'[k] # "none"
    BY <1>1, <1>2, <1>5 DEF RolesOK, Known, Waiting, TypeOK
  <2>2. ASSUME NEW k \in GroupIds, NEW v \in Users
        PROVE  /\ role'[k][v] # "none" => Known(k)'
               /\ role'[k][v] = "OWNER" => v \in promoted'[k] \cup {founder'[k]}
               /\ role'[k][v] \in {"OWNER", "ADMIN"} => v \in staff'[k]
    <3>1. CASE k = g
      BY <1>1, <1>2, <1>5, <3>1 DEF Known, Waiting, TypeOK
    <3>2. CASE k # g
      BY <1>1, <1>2, <3>2 DEF RolesOK, Known, TypeOK
    <3>3. QED
      BY <3>1, <3>2
  <2>3. QED
    BY <2>1, <2>2 DEF RolesOK
<1>7. task' \in [Handlers -> Task] => TypeOK'
  BY <1>1, <1>2 DEF TypeOK, Waiting, Roles
<1>8. QED
  BY <1>1, <1>2, <1>3, <1>4, <1>6, <1>7, FinishKeepsIInv

LEMMA DeleteKeepsIInv ==
  ASSUME IInv, NEW h \in Handlers, Delete(h) PROVE IInv'
<1> DEFINE g == task[h].g
<1>1. g \in GroupIds /\ Known(g) /\ task[h].at = "delete" /\ TypeOK /\ RolesOK
  BY GroupAssumption DEF Delete, IInv, Handlers_OK, HandlerOK
<1>2. Finish(h) /\ UNCHANGED <<staff, founder, promoted>>
  BY DEF Delete
<1>3. CASE group[g] # "live"
  BY <1>2, <1>3, FinishReadOnly DEF Delete, tables
<1>4. CASE group[g] = "live"
  <2>1. /\ group' = [group EXCEPT ![g] = "gone"]
        /\ role' = [role EXCEPT ![g] = [v \in Users |-> "none"]]
    BY <1>4 DEF Delete
  <2>2. GroupsStable
    BY <1>1, <1>2, <2>1 DEF GroupsStable, Stable, TypeOK
  <2>3. WaitingStable(NoGroup)
    BY <1>1, <1>2, <2>1 DEF WaitingStable, Waiting, Known, TypeOK
  <2>4. RolesOK'
    BY <1>1, <1>2, <2>1 DEF RolesOK, Known, TypeOK
  <2>5. task' \in [Handlers -> Task] => TypeOK'
    BY <1>1, <1>2, <2>1 DEF TypeOK, Roles
  <2>6. QED
    BY <1>1, <1>2, <2>2, <2>3, <2>4, <2>5, FinishKeepsIInv
<1>5. QED
  BY <1>3, <1>4

LEMMA AddMemberKeepsIInv ==
  ASSUME IInv, NEW h \in Handlers, AddMember(h) PROVE IInv'
<1> DEFINE g == task[h].g
           u == task[h].target
           r == task[h].as
<1>1. /\ g \in GroupIds /\ u \in Users /\ Known(g) /\ r \in {"MEMBER", "ADMIN"}
      /\ task[h].at = "addMember" /\ TypeOK /\ RolesOK
  BY GroupAssumption DEF AddMember, IInv, Handlers_OK, HandlerOK
<1>2. Finish(h) /\ UNCHANGED <<group, founder, promoted>>
  BY DEF AddMember
<1>3. CASE ~CanInsert(g, u)
  BY <1>2, <1>3, FinishReadOnly DEF AddMember, tables
<1>4. CASE CanInsert(g, u)
  <2>1. /\ role' = [role EXCEPT ![g][u] = r]
        /\ staff' = [staff EXCEPT ![g] = IF r = "MEMBER" THEN @ ELSE @ \cup {u}]
        /\ group[g] = "live" /\ role[g][u] = "none"
    BY <1>4 DEF AddMember, InsertMember, CanInsert
  <2>2. GroupsStable
    BY <1>1, <1>2, <2>1 DEF GroupsStable, Stable, TypeOK
  <2>3. WaitingStable(NoGroup)
    BY <1>1, <1>2, <2>1 DEF WaitingStable, Waiting, Known, TypeOK
  <2>4. RolesOK'
    BY <1>1, <1>2, <2>1 DEF RolesOK, Known, TypeOK
  <2>5. task' \in [Handlers -> Task] => TypeOK'
    BY <1>1, <1>2, <2>1 DEF TypeOK, Roles
  <2>6. QED
    BY <1>1, <1>2, <2>2, <2>3, <2>4, <2>5, FinishKeepsIInv
<1>5. QED
  BY <1>3, <1>4

LEMMA RemoveMemberKeepsIInv ==
  ASSUME IInv, NEW h \in Handlers, RemoveMember(h) PROVE IInv'
<1> DEFINE g == task[h].g
           u == task[h].actor
<1>1. /\ u \in Users /\ task[h].at = "removeMember" /\ TypeOK /\ RolesOK
      /\ Finish(h) /\ UNCHANGED <<group, staff, founder, promoted>>
  BY DEF RemoveMember, IInv, Handlers_OK, HandlerOK
<1>2. CASE g = NoGroup
  BY <1>1, <1>2, FinishReadOnly DEF RemoveMember, tables
<1>3. CASE g # NoGroup
  <2>1. /\ g \in GroupIds /\ Known(g) /\ role' = [role EXCEPT ![g][u] = "none"]
    BY <1>1, <1>3 DEF RemoveMember, IInv, TypeOK, Task, Handlers_OK, HandlerOK
  <2>2. GroupsStable
    BY <1>1, <2>1 DEF GroupsStable, Stable, TypeOK
  <2>3. WaitingStable(NoGroup)
    BY <1>1, <2>1 DEF WaitingStable, Waiting, Known, TypeOK
  <2>4. RolesOK'
    BY <1>1, <2>1 DEF RolesOK, Known, TypeOK
  <2>5. task' \in [Handlers -> Task] => TypeOK'
    BY <1>1, <2>1 DEF TypeOK, Roles
  <2>6. QED
    BY <1>1, <2>2, <2>3, <2>4, <2>5, FinishKeepsIInv
<1>4. QED
  BY <1>2, <1>3

LEMMA UpdateKeepsIInv ==
  ASSUME IInv, NEW h \in Handlers, Update(h) PROVE IInv'
<1> DEFINE g == task[h].g
<1>1. /\ g \in GroupIds /\ Known(g) /\ task[h].at = "update" /\ TypeOK /\ RolesOK
      /\ Finish(h) /\ UNCHANGED <<group, founder>>
  BY GroupAssumption DEF Update, IInv, Handlers_OK, HandlerOK
<1>2. CASE group[g] # "live"
  BY <1>1, <1>2, FinishReadOnly DEF Update, tables
<1>3. CASE group[g] = "live"
  <2>1. PICK members \in [Users -> Roles \cup {"none"}] :
          /\ role' = [role EXCEPT ![g] = members]
          /\ staff' = [staff EXCEPT ![g] =
                         @ \cup {u \in Users : members[u] \in {"ADMIN", "OWNER"}}]
          /\ promoted' = [promoted EXCEPT ![g] = @ \cup
               {u \in Users : members[u] = "OWNER" /\ role[g][u] # "OWNER"}]
    BY <1>3 DEF Update
  <2>2. GroupsStable
    BY <1>1, <2>1 DEF GroupsStable, Stable, TypeOK
  <2>3. WaitingStable(NoGroup)
    BY <1>1, <2>1 DEF WaitingStable, Waiting, Known, TypeOK
  <2>4. RolesOK'
    <3>1. ASSUME NEW k \in GroupIds PROVE Known(k)' => group'[k] # "none"
      BY <1>1, <1>3, <2>1 DEF RolesOK, Known, TypeOK
    <3>2. ASSUME NEW k \in GroupIds, NEW v \in Users
          PROVE  /\ role'[k][v] # "none" => Known(k)'
                 /\ role'[k][v] = "OWNER" => v \in promoted'[k] \cup {founder'[k]}
                 /\ role'[k][v] \in {"OWNER", "ADMIN"} => v \in staff'[k]
      <4>1. CASE k = g
        BY <1>1, <2>1, <4>1 DEF RolesOK, Known, TypeOK
      <4>2. CASE k # g
        BY <1>1, <2>1, <4>2 DEF RolesOK, Known, TypeOK
      <4>3. QED
        BY <4>1, <4>2
    <3>3. QED
      BY <3>1, <3>2 DEF RolesOK
  <2>5. task' \in [Handlers -> Task] => TypeOK'
    BY <1>1, <1>3, <2>1 DEF TypeOK
  <2>6. QED
    BY <1>1, <2>2, <2>3, <2>4, <2>5, FinishKeepsIInv
<1>4. QED
  BY <1>2, <1>3

LEMMA FaultyNextIInv == IInv /\ [FaultyNext]_vars => IInv'
<1> SUFFICES ASSUME IInv, [FaultyNext]_vars PROVE IInv'
  OBVIOUS
<1>1. CASE UNCHANGED vars
  <2>1. UNCHANGED tables /\ task' = task
    BY <1>1 DEF vars, tables
  <2>2. Handlers_OK' /\ OneCreator'
    BY <2>1 DEF IInv, Handlers_OK, HandlerOK, OneCreator, Known, Waiting, tables
  <2>3. QED
    BY <2>1, <2>2, TablesUnchanged DEF IInv, TypeOK
<1>2. ASSUME NEW h \in Handlers, Step(h) PROVE IInv'
  BY <1>2, StartsKeepIInv, ChecksKeepIInv, RepliesKeepIInv, CreateKeepsIInv, AddOwnerKeepsIInv,
     DeleteKeepsIInv, AddMemberKeepsIInv, RemoveMemberKeepsIInv, UpdateKeepsIInv DEF Step
<1>3. ASSUME NEW h \in Handlers, Abort(h) PROVE IInv'
  BY <1>3, RepliesKeepIInv
<1>4. QED
  BY <1>1, <1>2, <1>3 DEF FaultyNext, Next

\* The steps that write member rows or take a group away.
LEMMA Writers ==
  ASSUME IInv, [FaultyNext]_vars
  PROVE  \/ role' = role /\ \A g \in GroupIds : group[g] = "live" => group'[g] = "live"
         \/ \E h \in Handlers :
              AddOwner(h) \/ Update(h) \/ Delete(h) \/ AddMember(h) \/ RemoveMember(h)
<1>1. CASE UNCHANGED vars
  BY <1>1 DEF vars
<1>2. ASSUME NEW h \in Handlers, Create(h)
      PROVE  role' = role /\ \A g \in GroupIds : group[g] = "live" => group'[g] = "live"
  BY <1>2 DEF Create, IInv, TypeOK
<1>3. ASSUME NEW h \in Handlers,
             \/ StartCreate(h) \/ StartOnGroup(h) \/ CheckPermission(h)
             \/ GetTarget(h) \/ GetMember(h) \/ Abort(h)
      PROVE  role' = role /\ group' = group
  BY <1>3 DEF StartCreate, StartOnGroup, Start, CheckPermission, GetTarget,
              GetMember, Abort, tables
<1>4. QED
  BY <1>1, <1>2, <1>3 DEF FaultyNext, Next, Step

\* What the writers do to one row, given the checks their handlers made earlier.
LEMMA AddOwnerEffect ==
  ASSUME IInv, NEW h \in Handlers, AddOwner(h), NEW g \in GroupIds, NEW u \in Users
  PROVE  /\ group' = group
         /\ \/ role'[g][u] = role[g][u]
            \/ /\ Ends(h, "addOwner", g) /\ task[h].actor = u
               /\ u = founder[g] /\ role[g][u] = "none" /\ role'[g][u] = "OWNER"
<1>1. /\ task[h].g \in GroupIds /\ Waiting(task[h].g) /\ group' = group
      /\ task[h].actor = founder[task[h].g] /\ task'[h] # task[h]
      /\ role' = [role EXCEPT ![task[h].g][task[h].actor] = "OWNER"]
      /\ role \in [GroupIds -> [Users -> Roles \cup {"none"}]]
  BY DEF IInv, TypeOK, Handlers_OK, HandlerOK, AddOwner, InsertMember, Finish, Idle
<1>2. task[h].at = "addOwner"
  BY DEF AddOwner
<1>3. QED
  BY <1>1, <1>2 DEF Waiting, Ends

LEMMA DeleteEffect ==
  ASSUME IInv, NEW h \in Handlers, Delete(h), NEW g \in GroupIds, NEW u \in Users
  PROVE  \/ group'[g] = group[g] /\ role'[g][u] = role[g][u]
         \/ /\ Ends(h, "delete", g) /\ task[h].actor \in promoted[g] \cup {founder[g]}
            /\ group[g] = "live" /\ group'[g] = "gone" /\ role'[g][u] = "none"
<1>1. /\ task[h].g \in GroupIds /\ task'[h] # task[h] /\ task[h].at = "delete"
      /\ task[h].actor \in promoted[task[h].g] \cup {founder[task[h].g]}
      /\ group \in [GroupIds -> {"none", "live", "gone"}]
      /\ role \in [GroupIds -> [Users -> Roles \cup {"none"}]]
      /\ \/ group' = group /\ role' = role
         \/ /\ group[task[h].g] = "live"
            /\ group' = [group EXCEPT ![task[h].g] = "gone"]
            /\ role' = [role EXCEPT ![task[h].g] = [v \in Users |-> "none"]]
  BY GroupAssumption
     DEF IInv, TypeOK, Handlers_OK, HandlerOK, Delete, Finish, Idle
<1>2. QED
  BY <1>1 DEF Ends

LEMMA AddMemberEffect ==
  ASSUME IInv, NEW h \in Handlers, AddMember(h), NEW g \in GroupIds, NEW u \in Users
  PROVE  /\ group' = group
         /\ \/ role'[g][u] = role[g][u]
            \/ /\ task[h].g = g /\ task[h].actor \in staff[g]
               /\ task'[h] # task[h]
               /\ role[g][u] = "none" /\ role'[g][u] \in {"MEMBER", "ADMIN"}
<1>1. /\ task[h].g \in GroupIds /\ group' = group
      /\ role \in [GroupIds -> [Users -> Roles \cup {"none"}]]
      /\ \/ role' = role
         \/ /\ role[task[h].g][task[h].target] = "none"
            /\ task[h].as \in {"MEMBER", "ADMIN"}
            /\ task[h].actor \in staff[task[h].g]
            /\ task'[h] # task[h]
            /\ role' = [role EXCEPT ![task[h].g][task[h].target] = task[h].as]
  BY GroupAssumption
     DEF IInv, TypeOK, Handlers_OK, HandlerOK, AddMember, CanInsert, InsertMember, Finish, Idle
<1>2. QED
  BY <1>1

LEMMA RemoveMemberEffect ==
  ASSUME IInv, NEW h \in Handlers, RemoveMember(h), NEW g \in GroupIds, NEW u \in Users
  PROVE  /\ group' = group
         /\ \/ role'[g][u] = role[g][u]
            \/ /\ Ends(h, "removeMember", g) /\ task[h].actor = u
               /\ role[g][u] = "OWNER" => u \in promoted[g]
               /\ role'[g][u] = "none"
<1>1. /\ TypeOK /\ group' = group /\ task'[h] # task[h] /\ task[h].at = "removeMember"
      /\ \/ role' = role
         \/ /\ task[h].g \in GroupIds
            /\ role[task[h].g][task[h].actor] = "OWNER"
                 => task[h].actor \in promoted[task[h].g]
            /\ role' = [role EXCEPT ![task[h].g][task[h].actor] = "none"]
  BY DEF IInv, TypeOK, Task, Handlers_OK, HandlerOK, RemoveMember, Finish, Idle
<1>2. CASE role' = role
  BY <1>1, <1>2
<1>3. CASE role' # role
  BY <1>1, <1>3 DEF TypeOK, Ends
<1>4. QED
  BY <1>2, <1>3

LEMMA UpdateEffect ==
  ASSUME IInv, NEW h \in Handlers, Update(h), NEW g \in GroupIds, NEW u \in Users
  PROVE  /\ group' = group
         /\ \/ role'[g][u] = role[g][u]
            \/ Ends(h, "update", g) /\ task[h].actor \in staff[g]
<1>1. /\ task[h].g \in GroupIds /\ group' = group
      /\ role \in [GroupIds -> [Users -> Roles \cup {"none"}]]
      /\ task[h].actor \in staff[task[h].g] /\ task'[h] # task[h] /\ task[h].at = "update"
      /\ \/ role' = role
         \/ \E members \in [Users -> Roles \cup {"none"}] :
              role' = [role EXCEPT ![task[h].g] = members]
  BY GroupAssumption DEF IInv, TypeOK, Handlers_OK, HandlerOK, Update, Finish, Idle
<1>2. QED
  BY <1>1 DEF Ends

-----------------------------------------------------------------------------

\* Every variable has its type, and a group that is not live has no members,
\* whatever overlaps and fails (adds and deletes of addMember, deleteGroup).
THEOREM TypeCorrect == FaultySpec => []TypeOK
<1>1. IInv => TypeOK
  BY DEF IInv
<1>2. QED
  BY <1>1, InitIInv, FaultyNextIInv, PTL DEF FaultySpec

\* group.service.ts:124: an owner leaves only if an update made them owner after
\* leaveGroup read their role; nobody else's request but an update of the group's
\* staff, or its deletion, ends an ownership.
THEOREM OwnershipDecided == FaultySpec => OwnershipIsDecided
<1> DEFINE Decided(g, u) ==
      (role'[g][u] = "OWNER") # (role[g][u] = "OWNER") =>
        \/ group[g] = "live" /\ group'[g] = "gone"
        \/ \E h \in Handlers :
             \/ Ends(h, "update", g) /\ task[h].actor \in staff[g]
             \/ Ends(h, "addOwner", g) /\ u = founder[g] /\ u = task[h].actor
             \/ Ends(h, "removeMember", g) /\ u = task[h].actor /\ u \in promoted[g]
<1>1. ASSUME IInv, [FaultyNext]_vars, NEW g \in GroupIds, NEW u \in Users PROVE Decided(g, u)
  <2>1. CASE role' = role
    BY <2>1
  <2>2. ASSUME NEW h \in Handlers, AddOwner(h) PROVE Decided(g, u)
    BY <1>1, <2>2, AddOwnerEffect
  <2>3. ASSUME NEW h \in Handlers, Update(h) PROVE Decided(g, u)
    BY <1>1, <2>3, UpdateEffect
  <2>4. ASSUME NEW h \in Handlers, Delete(h) PROVE Decided(g, u)
    BY <1>1, <2>4, DeleteEffect
  <2>5. ASSUME NEW h \in Handlers, AddMember(h) PROVE Decided(g, u)
    BY <1>1, <2>5, AddMemberEffect
  <2>6. ASSUME NEW h \in Handlers, RemoveMember(h) PROVE Decided(g, u)
    BY <1>1, <2>6, RemoveMemberEffect
  <2>7. QED
    BY <1>1, <2>1, <2>2, <2>3, <2>4, <2>5, <2>6, Writers
<1>2. IInv /\ [FaultyNext]_vars => [\A g \in GroupIds, u \in Users : Decided(g, u)]_vars
  BY <1>1
<1>3. QED
  BY <1>2, InitIInv, FaultyNextIInv, PTL DEF FaultySpec, OwnershipIsDecided

\* group.service.ts:75: a group is deleted by a request of its founder or of somebody
\* an update made its owner, although deleteGroup read the permission one call earlier.
THEOREM OwnerDeletes == FaultySpec => DeletedByItsOwner
<1> DEFINE ByOwner(g) == group[g] = "live" /\ group'[g] = "gone" =>
             \E h \in Handlers : /\ Ends(h, "delete", g)
                                 /\ task[h].actor \in promoted[g] \cup {founder[g]}
<1>1. ASSUME IInv, [FaultyNext]_vars, NEW g \in GroupIds PROVE ByOwner(g)
  <2>1. ASSUME NEW h \in Handlers, Delete(h) PROVE ByOwner(g)
    <3>1. task[h].actor \in Users
      BY <1>1, <2>1 DEF IInv, Handlers_OK, HandlerOK, Delete
    <3>2. QED
      BY <1>1, <2>1, <3>1, DeleteEffect
  <2>2. ASSUME NEW h \in Handlers, AddOwner(h) \/ Update(h) \/ AddMember(h) \/ RemoveMember(h)
        PROVE  group' = group
    BY <2>2 DEF AddOwner, Update, AddMember, RemoveMember
  <2>3. QED
    BY <1>1, <2>1, <2>2, Writers
<1>2. IInv /\ [FaultyNext]_vars => [\A g \in GroupIds : ByOwner(g)]_vars
  BY <1>1
<1>3. QED
  BY <1>2, InitIInv, FaultyNextIInv, PTL DEF FaultySpec, DeletedByItsOwner

\* Members come in by a request of somebody who is or was of the group's staff
\* (addMember, updateGroup) and go by their own (leaveGroup), by an update of such a
\* person, or with the group.
THEOREM MembersAreDecided == FaultySpec => MembershipIsDecided
<1> DEFINE Decided(g, u) ==
             (role'[g][u] = "none") # (role[g][u] = "none") /\ group'[g] = "live" =>
               \E h \in Handlers :
                 /\ task'[h] # task[h] /\ task[h].g = g
                 /\ \/ /\ task[h].actor \in staff[g] \cup {founder[g]}
                       /\ role'[g][u] # "none" \/ task[h].at = "update"
                    \/ role'[g][u] = "none" /\ task[h].actor = u
<1>1. ASSUME IInv, [FaultyNext]_vars, NEW g \in GroupIds, NEW u \in Users PROVE Decided(g, u)
  <2>1. TypeOK
    BY <1>1 DEF IInv
  <2>2. CASE role' = role
    BY <2>2
  <2>3. ASSUME NEW h \in Handlers, AddOwner(h) PROVE Decided(g, u)
    BY <1>1, <2>1, <2>3, AddOwnerEffect DEF Ends
  <2>4. ASSUME NEW h \in Handlers, Delete(h) PROVE Decided(g, u)
    BY <1>1, <2>1, <2>4, DeleteEffect DEF TypeOK
  <2>5. ASSUME NEW h \in Handlers, AddMember(h) PROVE Decided(g, u)
    BY <1>1, <2>1, <2>5, AddMemberEffect
  <2>6. ASSUME NEW h \in Handlers, RemoveMember(h) PROVE Decided(g, u)
    BY <1>1, <2>1, <2>6, RemoveMemberEffect DEF Ends
  <2>7. ASSUME NEW h \in Handlers, Update(h) PROVE Decided(g, u)
    BY <1>1, <2>1, <2>7, UpdateEffect DEF Ends
  <2>8. QED
    BY <1>1, <2>2, <2>3, <2>4, <2>5, <2>6, <2>7, Writers
<1>2. IInv /\ [FaultyNext]_vars => [\A g \in GroupIds, u \in Users : Decided(g, u)]_vars
  BY <1>1
<1>3. QED
  BY <1>2, InitIInv, FaultyNextIInv, PTL DEF FaultySpec, MembershipIsDecided
=============================================================================
