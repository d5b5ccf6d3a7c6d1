---------------------------- MODULE BackendProofs ----------------------------
(***************************************************************************)
(* Proofs about Presence and Backend, for any number of users and sockets: *)
(* what the column and the key mean in spite of overlapping connections,   *)
(* failed writes, requests that write the column and the ends of the       *)
(* process (Spec), and that the server's process adds nothing to what the  *)
(* gateway may do (BackendSpec).                                           *)
(***************************************************************************)
EXTENDS Backend, TLAPS

\* A user whose events did not clash connects or disconnects, not both; while
\* a write is under way the sockets are already as it will say; and once the
\* last write of the column (or of the key) is over, it tells the truth.
Consistent(u) ==
  /\ Coming(u) # {} => SocketsOf(u) # {}
  /\ Going(u) # {} => SocketsOf(u) = {}
  /\ SocketsOf(u) # {} =>
       isOnline[u] \/ \E s \in Coming(u) : online[s] = "db"
  /\ SocketsOf(u) = {} =>
       ~isOnline[u] \/ \E s \in Going(u) : offline[s] = "db"
  /\ u \notin unkeyed =>
       /\ SocketsOf(u) # {} /\ Coming(u) = {} => presence[u] \in {"none", "on"}
       /\ SocketsOf(u) = {} /\ Going(u) = {} => presence[u] \in {"none", "off"}

\* The inductive invariant.
IInv == TypeOK /\ \A u \in Users \ blurred : Consistent(u)

-----------------------------------------------------------------------------

LEMMA IInvOnline == IInv => OnlineWhileConnected
<1> SUFFICES ASSUME IInv, NEW u \in Users \ blurred, Settled(u)
             PROVE  isOnline[u] = (SocketsOf(u) # {})
  BY DEF OnlineWhileConnected
<1>1. Consistent(u) /\ Coming(u) = {} /\ Going(u) = {} /\ isOnline[u] \in BOOLEAN
  BY DEF IInv, Settled, TypeOK
<1> QED BY <1>1 DEF Consistent

LEMMA IInvKey == IInv => KeyAgrees
<1> SUFFICES ASSUME IInv, NEW u \in Users \ (blurred \cup unkeyed), Settled(u)
             PROVE  presence[u] \in {"none", IF isOnline[u] THEN "on" ELSE "off"}
  BY DEF KeyAgrees
<1>1. Consistent(u) /\ Coming(u) = {} /\ Going(u) = {}
  BY DEF IInv, Settled
<1>2. CASE SocketsOf(u) # {}
  BY <1>1, <1>2 DEF Consistent
<1>3. CASE SocketsOf(u) = {}
  BY <1>1, <1>3 DEF Consistent
<1> QED BY <1>2, <1>3

LEMMA InitIInv == Init => IInv
<1>1. Init => TypeOK
  BY PresenceAssumption DEF Init, TypeOK, Awaits
<1>2. ASSUME Init, NEW u \in Users PROVE Consistent(u)
  BY <1>2 DEF Init, Consistent, SocketsOf, Coming, Going
<1> QED BY <1>1, <1>2 DEF IInv

\* A user none of whose sockets, writes and records a step touches.
Untouched(u) ==
  /\ SocketsOf(u)' = SocketsOf(u) /\ Coming(u)' = Coming(u) /\ Going(u)' = Going(u)
  /\ \A s \in Coming(u) : online'[s] = online[s]
  /\ \A s \in Going(u) : offline'[s] = offline[s]
  /\ isOnline'[u] = isOnline[u] /\ presence'[u] = presence[u]
  /\ u \in blurred => u \in blurred'
  /\ u \in unkeyed => u \in unkeyed'

LEMMA UntouchedStays ==
  ASSUME IInv, NEW u \in Users, u \notin blurred', Untouched(u)
  PROVE  Consistent(u)'
  BY DEF IInv, Untouched, Consistent

\* What a step does to the sockets of another user than its own.
LEMMA OthersUntouched ==
  ASSUME IInv, NEW s \in Sockets, NEW v \in Users, NEW u \in Users \ {v},
         owner[s] \in {v, NoUser}, owner'[s] \in {v, NoUser},
         \A x \in Sockets \ {s} : /\ owner'[x] = owner[x] /\ online'[x] = online[x]
                                  /\ offline'[x] = offline[x]
                                  /\ x \in open' <=> x \in open,
         open' \subseteq Sockets,
         isOnline'[u] = isOnline[u], presence'[u] = presence[u],
         u \in blurred => u \in blurred', u \in unkeyed => u \in unkeyed'
  PROVE  Untouched(u)
<1>1. u # NoUser /\ open \subseteq Sockets
  BY PresenceAssumption DEF IInv, TypeOK
<1>2. SocketsOf(u)' = SocketsOf(u)
  BY <1>1 DEF SocketsOf
<1>3. Coming(u)' = Coming(u) /\ \A x \in Coming(u) : online'[x] = online[x]
  BY <1>1 DEF Coming
<1>4. Going(u)' = Going(u) /\ \A x \in Going(u) : offline'[x] = offline[x]
  BY <1>1 DEF Going
<1> QED BY <1>2, <1>3, <1>4 DEF Untouched

-----------------------------------------------------------------------------

LEMMA ConnectIInv ==
  ASSUME IInv, NEW s \in Sockets, NEW v \in Users, handleConnection(s, v)
  PROVE  IInv'
<1>1. TypeOK'
  BY PresenceAssumption DEF IInv, TypeOK, handleConnection, Blur, records, Awaits
<1>2. ASSUME NEW u \in Users, u \notin blurred' PROVE Consistent(u)'
  <2>1. CASE u # v
    <3>1. Untouched(u)
      BY <2>1, OthersUntouched DEF IInv, TypeOK, handleConnection, Blur, records
    <3> QED BY <1>2, <3>1, UntouchedStays
  <2>2. CASE u = v
    <3>1. s \in SocketsOf(u)' /\ s \in Coming(u)' /\ online'[s] = "db"
      BY <2>2 DEF IInv, TypeOK, handleConnection, SocketsOf, Coming
    <3>2. Going(u)' = Going(u)
      BY <2>2, PresenceAssumption DEF IInv, TypeOK, handleConnection, Going
    <3>3. Going(u) = {}
      BY <1>2, <2>2 DEF handleConnection, Blur, Settled
    <3> QED BY <3>1, <3>2, <3>3 DEF Consistent
  <2> QED BY <2>1, <2>2
<1> QED BY <1>1, <1>2 DEF IInv

LEMMA DisconnectIInv ==
  ASSUME IInv, NEW s \in Sockets, disconnect(s)
  PROVE  IInv'
<1>1. PICK v \in Users : v = owner[s]
  BY DEF IInv, TypeOK, disconnect
<1>2. TypeOK'
  BY <1>1, PresenceAssumption DEF IInv, TypeOK, disconnect, Blur, records, Awaits
<1>3. ASSUME NEW u \in Users, u \notin blurred' PROVE Consistent(u)'
  <2>1. CASE u # v
    <3>1. Untouched(u)
      BY <1>1, <2>1, OthersUntouched DEF IInv, TypeOK, disconnect, Blur, records
    <3> QED BY <1>3, <3>1, UntouchedStays
  <2>2. CASE u = v
    <3>1. Coming(u) = {} /\ SocketsOf(u) = {s}
      BY <1>1, <1>3, <2>2 DEF disconnect, Blur, Settled
    <3>2. Coming(u)' = {} /\ SocketsOf(u)' = {}
      BY <3>1 DEF disconnect, Coming, SocketsOf
    <3>3. s \in Going(u)' /\ offline'[s] = "db"
      BY <1>1, <2>2 DEF IInv, TypeOK, disconnect, Going
    <3> QED BY <3>2, <3>3 DEF Consistent
  <2> QED BY <2>1, <2>2
<1> QED BY <1>2, <1>3 DEF IInv

LEMMA WriteOnlineIInv ==
  ASSUME IInv, NEW s \in Sockets, WriteOnline(s)
  PROVE  IInv'
<1>1. PICK v \in Users : v = owner[s]
  BY DEF IInv, TypeOK, WriteOnline
<1>2. TypeOK'
  BY <1>1 DEF IInv, TypeOK, WriteOnline, Awaits
<1>3. ASSUME NEW u \in Users, u \notin blurred' PROVE Consistent(u)'
  <2>1. CASE u # v
    <3>1. Untouched(u)
      BY <1>1, <2>1, OthersUntouched DEF IInv, TypeOK, WriteOnline
    <3> QED BY <1>3, <3>1, UntouchedStays
  <2>2. CASE u = v
    <3>1. s \in Coming(u) /\ Consistent(u)
      BY <1>1, <1>3, <2>2 DEF WriteOnline, Coming, IInv
    <3>2. SocketsOf(u)' = SocketsOf(u) /\ Going(u)' = Going(u)
      BY DEF WriteOnline, SocketsOf, Going
    <3>3. Coming(u)' = Coming(u)
      BY <3>1 DEF WriteOnline, Coming, IInv, TypeOK
    <3>4. isOnline'[u] /\ UNCHANGED <<presence, unkeyed>>
      BY <1>1, <2>2 DEF WriteOnline, IInv, TypeOK
    <3> QED BY <3>1, <3>2, <3>3, <3>4 DEF Consistent
  <2> QED BY <2>1, <2>2
<1> QED BY <1>2, <1>3 DEF IInv

LEMMA WriteOfflineIInv ==
  ASSUME IInv, NEW s \in Sockets, WriteOffline(s)
  PROVE  IInv'
<1>1. PICK v \in Users : v = owner[s]
  BY DEF IInv, TypeOK, WriteOffline
<1>2. TypeOK'
  BY <1>1 DEF IInv, TypeOK, WriteOffline, Awaits
<1>3. ASSUME NEW u \in Users, u \notin blurred' PROVE Consistent(u)'
  <2>1. CASE u # v
    <3>1. Untouched(u)
      BY <1>1, <2>1, OthersUntouched DEF IInv, TypeOK, WriteOffline
    <3> QED BY <1>3, <3>1, UntouchedStays
  <2>2. CASE u = v
    <3>1. s \in Going(u) /\ Consistent(u)
      BY <1>1, <1>3, <2>2 DEF WriteOffline, Going, IInv
    <3>2. SocketsOf(u)' = SocketsOf(u) /\ Coming(u)' = Coming(u)
      BY DEF WriteOffline, SocketsOf, Coming
    <3>3. Going(u)' = Going(u)
      BY <3>1 DEF WriteOffline, Going, IInv, TypeOK
    <3>4. ~isOnline'[u] /\ UNCHANGED <<presence, unkeyed>>
      BY <1>1, <2>2 DEF WriteOffline, IInv, TypeOK
    <3> QED BY <3>1, <3>2, <3>3, <3>4 DEF Consistent
  <2> QED BY <2>1, <2>2
<1> QED BY <1>2, <1>3 DEF IInv

\* The end of an update forgets a socket only when nothing is left of it.
LEMMA EndsFacts ==
  ASSUME IInv, NEW s \in Sockets, Ends(s), open' = open,
         online' \in [Sockets -> Awaits], offline' \in [Sockets -> Awaits],
         \/ online' = [online EXCEPT ![s] = "none"] /\ UNCHANGED offline
         \/ offline' = [offline EXCEPT ![s] = "none"] /\ UNCHANGED online,
         online[s] # "none" \/ offline[s] # "none"
  PROVE  /\ owner' \in [Sockets -> Users \cup {NoUser}]
         /\ owner'[s] \in {owner[s], NoUser}
         /\ \A x \in Sockets \ {s} : owner'[x] = owner[x]
         /\ \A x \in Sockets :
              owner'[x] # NoUser <=> x \in open \/ online'[x] # "none" \/ offline'[x] # "none"
         /\ \A u \in Users : SocketsOf(u)' = SocketsOf(u)
<1>1. /\ owner' \in [Sockets -> Users \cup {NoUser}]
      /\ owner'[s] \in {owner[s], NoUser}
      /\ \A x \in Sockets \ {s} : owner'[x] = owner[x]
  BY DEF IInv, TypeOK, Ends
<1>2. ASSUME NEW x \in Sockets
      PROVE  owner'[x] # NoUser <=> x \in open \/ online'[x] # "none" \/ offline'[x] # "none"
  BY <1>1 DEF IInv, TypeOK, Ends
<1>3. ASSUME NEW u \in Users PROVE SocketsOf(u)' = SocketsOf(u)
  BY <1>1 DEF IInv, TypeOK, Ends, SocketsOf
<1> QED BY <1>1, <1>2, <1>3

LEMMA KeyOnlineIInv ==
  ASSUME IInv, NEW s \in Sockets, KeyOnline(s)
  PROVE  IInv'
<1>1. PICK v \in Users : v = owner[s]
  BY DEF IInv, TypeOK, KeyOnline
<1>2. online' \in [Sockets -> Awaits] /\ offline' \in [Sockets -> Awaits]
  BY DEF IInv, TypeOK, KeyOnline, Awaits
<1>3. /\ owner' \in [Sockets -> Users \cup {NoUser}]
      /\ owner'[s] \in {owner[s], NoUser}
      /\ \A x \in Sockets \ {s} : owner'[x] = owner[x]
      /\ \A x \in Sockets :
           owner'[x] # NoUser <=> x \in open \/ online'[x] # "none" \/ offline'[x] # "none"
      /\ \A u \in Users : SocketsOf(u)' = SocketsOf(u)
  BY <1>2, EndsFacts DEF KeyOnline
<1>4. TypeOK'
  BY <1>1, <1>2, <1>3 DEF IInv, TypeOK, KeyOnline, Key
<1>5. ASSUME NEW u \in Users, u \notin blurred' PROVE Consistent(u)'
  <2>1. CASE u # v
    <3>1. /\ presence'[u] = presence[u]
          /\ u \in unkeyed => u \in unkeyed'
      BY <1>1, <2>1 DEF KeyOnline, Key, IInv, TypeOK
    <3>2. Untouched(u)
      BY <1>1, <1>3, <2>1, <3>1, OthersUntouched DEF IInv, TypeOK, KeyOnline
    <3> QED BY <1>5, <3>2, UntouchedStays
  <2>2. CASE u = v
    <3>1. s \in Coming(u) /\ Consistent(u)
      BY <1>1, <1>5, <2>2 DEF KeyOnline, Coming, IInv
    <3>2. SocketsOf(u)' # {} /\ isOnline'[u] = isOnline[u]
      BY <1>3, <3>1 DEF KeyOnline, Consistent
    <3>3. isOnline[u] \/ \E x \in Coming(u)' : online'[x] = "db"
      BY <1>3, <3>1, <3>2 DEF KeyOnline, Coming, Consistent, IInv, TypeOK
    <3>4. Going(u)' = {}
      BY <1>3, <3>1 DEF KeyOnline, Going, Consistent
    <3>5. u \notin unkeyed' => presence'[u] = "on"
      BY <1>1, <2>2 DEF KeyOnline, Key, IInv, TypeOK
    <3> QED BY <3>2, <3>3, <3>4, <3>5 DEF Consistent
  <2> QED BY <2>1, <2>2
<1> QED BY <1>4, <1>5 DEF IInv

LEMMA KeyOfflineIInv ==
  ASSUME IInv, NEW s \in Sockets, KeyOffline(s)
  PROVE  IInv'
<1>1. PICK v \in Users : v = owner[s]
  BY DEF IInv, TypeOK, KeyOffline
<1>2. online' \in [Sockets -> Awaits] /\ offline' \in [Sockets -> Awaits]
  BY DEF IInv, TypeOK, KeyOffline, Awaits
<1>3. /\ owner' \in [Sockets -> Users \cup {NoUser}]
      /\ owner'[s] \in {owner[s], NoUser}
      /\ \A x \in Sockets \ {s} : owner'[x] = owner[x]
      /\ \A x \in Sockets :
           owner'[x] # NoUser <=> x \in open \/ online'[x] # "none" \/ offline'[x] # "none"
      /\ \A u \in Users : SocketsOf(u)' = SocketsOf(u)
  BY <1>2, EndsFacts DEF KeyOffline
<1>4. TypeOK'
  BY <1>1, <1>2, <1>3 DEF IInv, TypeOK, KeyOffline, Key
<1>5. ASSUME NEW u \in Users, u \notin blurred' PROVE Consistent(u)'
  <2>1. CASE u # v
    <3>1. /\ presence'[u] = presence[u]
          /\ u \in unkeyed => u \in unkeyed'
      BY <1>1, <2>1 DEF KeyOffline, Key, IInv, TypeOK
    <3>2. Untouched(u)
      BY <1>1, <1>3, <2>1, <3>1, OthersUntouched DEF IInv, TypeOK, KeyOffline
    <3> QED BY <1>5, <3>2, UntouchedStays
  <2>2. CASE u = v
    <3>1. s \in Going(u) /\ Consistent(u)
      BY <1>1, <1>5, <2>2 DEF KeyOffline, Going, IInv
    <3>2. SocketsOf(u)' = {} /\ isOnline'[u] = isOnline[u]
      BY <1>3, <3>1 DEF KeyOffline, Consistent
    <3>3. ~isOnline[u] \/ \E x \in Going(u)' : offline'[x] = "db"
      BY <1>3, <3>1, <3>2 DEF KeyOffline, Going, Consistent, IInv, TypeOK
    <3>4. Coming(u)' = {}
      BY <1>3, <3>1 DEF KeyOffline, Coming, Consistent
    <3>5. u \notin unkeyed' => presence'[u] = "off"
      BY <1>1, <2>2 DEF KeyOffline, Key, IInv, TypeOK
    <3> QED BY <3>2, <3>3, <3>4, <3>5 DEF Consistent
  <2> QED BY <2>1, <2>2
<1> QED BY <1>4, <1>5 DEF IInv

LEMMA WriteFailsIInv ==
  ASSUME IInv, NEW s \in Sockets, WriteFails(s)
  PROVE  IInv'
<1>1. PICK v \in Users : v = owner[s]
  BY DEF IInv, TypeOK, WriteFails
<1>2. online' \in [Sockets -> Awaits] /\ offline' \in [Sockets -> Awaits]
  BY DEF IInv, TypeOK, WriteFails, Awaits
<1>3. /\ owner' \in [Sockets -> Users \cup {NoUser}]
      /\ owner'[s] \in {owner[s], NoUser}
      /\ \A x \in Sockets \ {s} : owner'[x] = owner[x]
      /\ \A x \in Sockets :
           owner'[x] # NoUser <=> x \in open \/ online'[x] # "none" \/ offline'[x] # "none"
  BY <1>2, EndsFacts DEF WriteFails
<1>4. TypeOK'
  BY <1>1, <1>2, <1>3 DEF IInv, TypeOK, WriteFails, records
<1>5. ASSUME NEW u \in Users, u \notin blurred' PROVE Consistent(u)'
  <2>1. u # v
    BY <1>1, <1>5 DEF WriteFails
  <2>2. Untouched(u)
    BY <1>1, <1>3, <2>1, OthersUntouched DEF IInv, TypeOK, WriteFails, records
  <2> QED BY <1>5, <2>2, UntouchedStays
<1> QED BY <1>4, <1>5 DEF IInv

-----------------------------------------------------------------------------

LEMMA HttpWritesIInv ==
  ASSUME IInv, NEW v \in Users, NEW value \in BOOLEAN, HttpWrites(v, value)
  PROVE  IInv'
<1>1. TypeOK'
  BY DEF IInv, TypeOK, HttpWrites, sockets
<1>2. ASSUME NEW u \in Users, u \notin blurred' PROVE Consistent(u)'
  <2>1. /\ SocketsOf(u)' = SocketsOf(u) /\ Coming(u)' = Coming(u) /\ Going(u)' = Going(u)
        /\ UNCHANGED <<online, offline, presence>>
    BY DEF HttpWrites, sockets, SocketsOf, Coming, Going
  <2>2. Consistent(u)
    BY <1>2 DEF IInv, HttpWrites
  <2>3. CASE u # v
    <3>1. isOnline'[u] = isOnline[u] /\ (u \in unkeyed => u \in unkeyed')
      BY <2>3 DEF HttpWrites, IInv, TypeOK
    <3> QED BY <2>1, <2>2, <3>1 DEF Consistent
  <2>4. CASE u = v
    <3>1. isOnline'[u] = (SocketsOf(u) # {}) /\ u \in unkeyed'
      BY <1>2, <2>4 DEF HttpWrites, IInv, TypeOK
    <3> QED BY <2>1, <2>2, <3>1 DEF Consistent
  <2> QED BY <2>3, <2>4
<1> QED BY <1>1, <1>2 DEF IInv

LEMMA ExpireIInv ==
  ASSUME IInv, NEW v \in Users, Expire(v)
  PROVE  IInv'
<1>1. TypeOK'
  BY DEF IInv, TypeOK, Expire, sockets
<1>2. ASSUME NEW u \in Users, u \notin blurred' PROVE Consistent(u)'
  <2>1. /\ SocketsOf(u)' = SocketsOf(u) /\ Coming(u)' = Coming(u) /\ Going(u)' = Going(u)
        /\ UNCHANGED <<online, offline, isOnline>>
    BY DEF Expire, sockets, SocketsOf, Coming, Going
  <2>2. Consistent(u)
    BY <1>2 DEF IInv, Expire
  <2>3. presence'[u] = "none" \/ (presence'[u] = presence[u] /\ (u \in unkeyed => u \in unkeyed'))
    BY DEF Expire, IInv, TypeOK
  <2> QED BY <2>1, <2>2, <2>3 DEF Consistent
<1> QED BY <1>1, <1>2 DEF IInv

LEMMA ProcessEndsIInv ==
  ASSUME IInv, ProcessEnds
  PROVE  IInv'
<1>1. TypeOK'
  BY DEF IInv, TypeOK, ProcessEnds, records, Awaits
<1>2. ASSUME NEW u \in Users, u \notin blurred' PROVE Consistent(u)'
  <2>1. Consistent(u) /\ SocketsOf(u) = {} /\ Coming(u) = {} /\ Going(u) = {}
    BY <1>2 DEF IInv, ProcessEnds, Settled
  <2>2. SocketsOf(u)' = {} /\ Coming(u)' = {} /\ Going(u)' = {}
    BY DEF ProcessEnds, SocketsOf, Coming, Going
  <2> QED BY <2>1, <2>2 DEF ProcessEnds, records, Consistent
<1> QED BY <1>1, <1>2 DEF IInv

LEMMA NextIInv == IInv /\ [Next]_vars => IInv'
<1>1. IInv /\ UNCHANGED vars => IInv'
  BY DEF vars, sockets, records, IInv, TypeOK, Consistent, SocketsOf, Coming, Going
<1>2. IInv /\ Next => IInv'
  BY ConnectIInv, DisconnectIInv, WriteOnlineIInv, WriteOfflineIInv, KeyOnlineIInv,
     KeyOfflineIInv, WriteFailsIInv, HttpWritesIInv, ExpireIInv, ProcessEndsIInv
     DEF Next, Update
<1> QED BY <1>1, <1>2

LEMMA SpecIInv == Spec => []IInv
<1>1. Init => IInv
  BY InitIInv
<1>2. IInv /\ [Next]_vars => IInv'
  BY NextIInv
<1> QED BY <1>1, <1>2, PTL DEF Spec

\* Every step of the composed server is a step of the gateway's, or none.
LEMMA BackendStep == [BackendNext]_backendVars => [Next]_vars
<1>1. UNCHANGED backendVars => UNCHANGED vars
  BY DEF backendVars
<1>2. ASSUME NEW s \in Sockets, NEW u \in Users, Connect(s, u) PROVE Next
  BY <1>2 DEF Connect, Next
<1>3. ASSUME NEW s \in Sockets, Disconnect(s) \/ UpdateStep(s) \/ UpdateFails(s) PROVE Next
  BY <1>3 DEF Disconnect, UpdateStep, UpdateFails, Next
<1>4. ProcessStep(Server!Process) => Next \/ UNCHANGED vars
  BY DEF ProcessStep, Next
<1>5. ASSUME NEW u \in Users, NEW value \in BOOLEAN, WriteOverHttp(u, value) PROVE Next
  BY <1>5 DEF WriteOverHttp, Next
<1>6. ASSUME NEW u \in Users, KeyExpires(u) PROVE Next
  BY <1>6 DEF KeyExpires, Next
<1> QED BY <1>1, <1>2, <1>3, <1>4, <1>5, <1>6 DEF BackendNext

\* The gateway of a server that starts, stops, loses Redis and crashes behaves
\* as Presence says: no step of the process (server.ts) touches a socket, a
\* pending write or a record in any other way.
THEOREM PresenceImplemented == BackendSpec => Spec
<1>1. BackendInit => Init
  BY DEF BackendInit
<1>2. [BackendNext]_backendVars => [Next]_vars
  BY BackendStep
<1> QED BY <1>1, <1>2, PTL DEF BackendSpec, Spec

\* Each variable of the gateway's records is of its type (message.gateway.ts:20-36,
\* 148-153), and a socket has an owner just as long as anything of it is left.
THEOREM TypeCorrect == BackendSpec => []TypeOK
<1>1. IInv => TypeOK
  BY DEF IInv
<1> QED BY <1>1, PresenceImplemented, SpecIInv, PTL

\* message.gateway.ts:30, 149: where no write of a user is under way, isOnline
\* says whether the user has a socket, unless overlapping events, several
\* sockets, a failed write, a login or the end of a process blurred it.
THEOREM OnlineIsConnected == BackendSpec => []OnlineWhileConnected
<1>1. IInv => OnlineWhileConnected
  BY IInvOnline
<1> QED BY <1>1, PresenceImplemented, SpecIInv, PTL

\* user.service.ts:81: the presence key, which is what is answered, then agrees
\* with the column, unless the column was last written without it.
THEOREM KeyFollowsColumn == BackendSpec => []KeyAgrees
<1>1. IInv => KeyAgrees
  BY IInvKey
<1> QED BY <1>1, PresenceImplemented, SpecIInv, PTL

-----------------------------------------------------------------------------
(* The process *)

\* Past the last connection nothing is connected or asked any more, nobody has
\* signalled again, and Redis is waited for only if it is to be quit.
Releasing ==
  phase \in {"disconnectDb", "quitRedis"} =>
    /\ open = {} /\ ~Server!Probing /\ ~again
    /\ phase = "quitRedis" => redisConnected

LEMMA ReleasingInit == BackendInit => Releasing
  BY DEF BackendInit, Server!Init, Releasing

\* What the process does, or clients do to it.
LEMMA BackendStepOfServer ==
  ASSUME BackendNext
  PROVE  \/ Server!Process \/ \E s \in Sockets : Server!Accept(s) \/ Server!Leave(s)
         \/ UNCHANGED <<serverVars, open>>
  BY DEF BackendNext, Connect, Disconnect, UpdateStep, UpdateFails, ProcessStep,
         WriteOverHttp, KeyExpires, WriteOnline, WriteOffline, KeyOnline, KeyOffline,
         Update, WriteFails, HttpWrites, Expire, sockets

LEMMA ReleasingStep == Releasing /\ [BackendNext]_backendVars => Releasing'
<1>1. Releasing /\ UNCHANGED <<serverVars, open>> => Releasing'
  BY DEF serverVars, Releasing, Server!Probing
<1>2. UNCHANGED backendVars => UNCHANGED <<serverVars, open>>
  BY DEF backendVars, vars, sockets
<1>3. ASSUME Releasing, NEW s \in Sockets, Server!Accept(s) \/ Server!Leave(s)
      PROVE  Releasing'
  BY <1>3 DEF Releasing, Server!Accept, Server!Leave, Server!flags, Server!client, Server!Probing
<1>4. ASSUME Releasing, Server!Process PROVE Releasing'
  <2>1. ASSUME NEW how, Server!Exit(how) PROVE Releasing'
    BY <2>1 DEF Server!Exit, Releasing
  <2>2. ASSUME NEW pong, NEW status, NEW n, Server!Listen(pong, status, n) PROVE Releasing'
    BY <2>1, <2>2 DEF Server!Listen, Releasing
  <2>3. CASE Server!Boot \/ Server!ConnectDb \/ Server!RedisConnects \/ Server!StartProbe
             \/ Server!ProbeDb \/ Server!ProbeRedis
    BY <1>4, <2>3 DEF Releasing, Server!Boot, Server!ConnectDb, Server!RedisConnects,
       Server!StartProbe, Server!ProbeDb, Server!ProbeRedis, Server!flags, Server!client,
       Server!Probing
  <2>4. CASE Server!PingAnswered \/ Server!PingTimesOut
    BY <2>2, <2>4 DEF Server!PingAnswered, Server!PingTimesOut
  <2>5. CASE Server!RedisCloses
    <3>1. \/ \E status, n : Server!Listen(FALSE, status, n)
          \/ probe' \in {"notReady", probe} /\ UNCHANGED <<phase, Server!flags, open, again>>
      BY <2>5, Zenon DEF Server!RedisCloses
    <3>2. CASE \E status, n : Server!Listen(FALSE, status, n)
      BY <2>2, <3>2
    <3>3. CASE probe' \in {"notReady", probe} /\ UNCHANGED <<phase, Server!flags, open, again>>
      BY <1>4, <3>3 DEF Releasing, Server!flags, Server!Probing
    <3> QED BY <3>1, <3>2, <3>3
  <2>6. CASE Server!Signal \/ Server!Crash
    BY <1>4, <2>1, <2>6 DEF Server!Signal, Server!Crash, Releasing, Server!flags, Server!client,
       Server!Probing
  <2>7. CASE Server!Drained
    BY <2>1, <2>7 DEF Server!Drained, Releasing, Server!flags, Server!client, Server!Probing
  <2>8. CASE Server!DbDisconnected \/ Server!RedisQuit
    BY <1>4, <2>1, <2>8 DEF Server!DbDisconnected, Server!RedisQuit, Releasing, Server!flags,
       Server!client, Server!Probing
  <2> QED BY <1>4, <2>3, <2>4, <2>5, <2>6, <2>7, <2>8 DEF Server!Process
<1> QED BY <1>1, <1>2, <1>3, <1>4, BackendStepOfServer

\* A step that ends the process with success is one of shutdown's.
LEMMA SuccessStep ==
  ASSUME Releasing, [BackendNext]_backendVars, phase # "down", phase' = "down", exit' = "ok"
  PROVE  /\ phase \in {"closing", "disconnectDb", "quitRedis"}
         /\ open = {} /\ ~Server!Probing
         /\ again => ~dbConnected /\ ~redisConnected
         /\ redisConnected => redis # "end"
<1>1. BackendNext
  BY DEF backendVars, serverVars
<1>2. \A s \in Sockets : ~Server!Accept(s) /\ ~Server!Leave(s)
  BY DEF Server!Accept, Server!Leave
<1>3. Server!Process
  BY <1>1, <1>2, BackendStepOfServer DEF serverVars
<1>4. Server!Drained \/ Server!DbDisconnected \/ Server!RedisQuit
  BY <1>3 DEF Server!Process, Server!Boot, Server!ConnectDb, Server!PingAnswered,
     Server!PingTimesOut, Server!Listen, Server!RedisConnects, Server!RedisCloses,
     Server!StartProbe, Server!ProbeDb, Server!ProbeRedis, Server!Signal, Server!Crash,
     Server!Exit
<1> QED BY <1>4 DEF Releasing, Server!Drained, Server!DbDisconnected, Server!RedisQuit, Server!Exit

\* server.ts:111: exit code 0 is given only by a shutdown that nothing
\* interrupted, after the last connection, and with Redis there to be quit.
THEOREM ExitIsClean == BackendSpec => CleanExit
<1>1. BackendInit => Releasing
  BY ReleasingInit
<1>2. Releasing /\ [BackendNext]_backendVars => Releasing'
  BY ReleasingStep
<1>3. Releasing /\ [BackendNext]_backendVars =>
        [phase # "down" /\ phase' = "down" /\ exit' = "ok" =>
           /\ phase \in {"closing", "disconnectDb", "quitRedis"}
           /\ open = {} /\ ~Server!Probing
           /\ again => ~dbConnected /\ ~redisConnected
           /\ redisConnected => redis # "end"]_Server!vars
  BY SuccessStep
<1> QED BY <1>1, <1>2, <1>3, PTL DEF BackendSpec, CleanExit, Server!CleanExit

-----------------------------------------------------------------------------
(* The types of the process, and its life cycle.                           *)

\* The client is lazy, and gives up only after Retries failures in a row.
RedisTyped ==
  /\ phase \in {"down", "connectDb"} => redis = "wait"
  /\ redis # "end" => attempts <= Retries

ServerInv == Server!TypeOK /\ RedisTyped

LEMMA RetriesCount == 0 \in 0..(Retries + 1) /\ 0 <= Retries
BY RetriesAssumption

LEMMA ServerInvInit == BackendInit => ServerInv
BY RetriesCount DEF BackendInit, Server!Init, Server!TypeOK, Server!Phases, ServerInv,
   RedisTyped

LEMMA ExitTyped ==
  ASSUME NEW how \in {"ok", "error", "killed", "crashed"}, Server!Exit(how)
  PROVE  ServerInv'
BY RetriesCount DEF Server!Exit, Server!TypeOK, Server!Phases, ServerInv, RedisTyped

\* The end of start-up, with what is known of the Redis client by then.
LEMMA ListenTyped ==
  ASSUME ServerInv, NEW pong \in BOOLEAN, NEW status, NEW n, Server!Listen(pong, status, n),
         status \in {"connecting", "ready", "end", "wait"}, n \in 0..(Retries + 1),
         status # "end" => n <= Retries
  PROVE  ServerInv'
<1>1. CASE Server!Exit("error")
  BY <1>1, ExitTyped
<1>2. CASE ~Server!Exit("error")
  BY <1>2 DEF Server!Listen, Server!TypeOK, Server!Phases, ServerInv, RedisTyped
<1> QED BY <1>1, <1>2

LEMMA RedisClosesTyped ==
  ASSUME ServerInv, Server!RedisCloses
  PROVE  ServerInv'
<1> DEFINE n == attempts + 1
           status == IF n > Retries THEN "end" ELSE "connecting"
<1>1. attempts \in Nat /\ attempts <= Retries /\ Retries \in Nat
  BY RetriesAssumption DEF Server!RedisCloses, Server!TypeOK, ServerInv, RedisTyped
<1>2. n \in 0..(Retries + 1) /\ status \in {"connecting", "end"} /\ (status # "end" => n <= Retries)
  BY <1>1
<1>3. \/ Server!Listen(FALSE, status, n)
      \/ /\ phase \notin {"down", "connectDb"} /\ redis' = status /\ attempts' = n
         /\ probe' \in {"notReady", probe}
         /\ UNCHANGED <<phase, Server!flags, open, again, exit>>
  BY DEF Server!RedisCloses, ServerInv, RedisTyped
<1>4. CASE Server!Listen(FALSE, status, n)
  <2> HIDE DEF n, status
  <2> QED BY <1>2, <1>4, ListenTyped
<1>5. CASE /\ phase \notin {"down", "connectDb"} /\ redis' = status /\ attempts' = n
           /\ probe' \in {"notReady", probe}
           /\ UNCHANGED <<phase, Server!flags, open, again, exit>>
  <2> HIDE DEF n, status
  <2> QED BY <1>2, <1>5 DEF Server!flags, Server!TypeOK, ServerInv, RedisTyped
<1> QED BY <1>3, <1>4, <1>5

LEMMA ProcessTyped ==
  ASSUME ServerInv, Server!Process
  PROVE  ServerInv'
<1>1. CASE \E how \in {"ok", "error", "killed", "crashed"} : Server!Exit(how)
  BY <1>1, ExitTyped
<1>2. CASE Server!PingAnswered \/ Server!PingTimesOut
  <2>1. Server!Listen(TRUE, redis, attempts) \/ Server!Listen(FALSE, redis, attempts)
    BY <1>2 DEF Server!PingAnswered, Server!PingTimesOut
  <2> QED BY <2>1, ListenTyped DEF Server!TypeOK, ServerInv, RedisTyped
<1>3. CASE Server!RedisCloses
  BY <1>3, RedisClosesTyped
<1>4. CASE Server!Boot
  BY <1>4 DEF Server!Boot, Server!flags, Server!client, Server!TypeOK, Server!Phases,
     ServerInv, RedisTyped
<1>8. CASE Server!ConnectDb
  BY <1>8 DEF Server!ConnectDb, Server!TypeOK, Server!Phases, ServerInv, RedisTyped
<1>7. CASE Server!RedisConnects
  BY <1>7, RetriesCount DEF Server!RedisConnects, Server!flags, Server!TypeOK, ServerInv,
     RedisTyped
<1>5. CASE Server!StartProbe \/ Server!ProbeDb \/ Server!ProbeRedis
  BY <1>5 DEF Server!StartProbe, Server!ProbeDb, Server!ProbeRedis,
     Server!flags, Server!client, Server!TypeOK, ServerInv, RedisTyped
<1>6. CASE /\ Server!Signal \/ Server!Drained \/ Server!DbDisconnected \/ Server!RedisQuit
              \/ Server!Crash
           /\ ~\E how \in {"ok", "error", "killed", "crashed"} : Server!Exit(how)
  BY <1>6 DEF Server!Signal, Server!Drained, Server!DbDisconnected, Server!RedisQuit,
     Server!Crash, Server!flags, Server!client, Server!TypeOK, Server!Phases, ServerInv,
     RedisTyped
<1> QED BY <1>1, <1>2, <1>3, <1>4, <1>5, <1>6, <1>7, <1>8 DEF Server!Process

LEMMA ServerInvStep == ServerInv /\ [BackendNext]_backendVars => ServerInv'
<1>1. ServerInv /\ UNCHANGED <<serverVars, open>> => ServerInv'
  BY DEF serverVars, ServerInv, Server!TypeOK, RedisTyped
<1>2. UNCHANGED backendVars => UNCHANGED <<serverVars, open>>
  BY DEF backendVars, vars, sockets
<1>3. ASSUME ServerInv, NEW s \in Sockets, Server!Accept(s) \/ Server!Leave(s)
      PROVE  ServerInv'
  BY <1>3 DEF Server!Accept, Server!Leave, Server!flags, Server!client, Server!TypeOK,
     ServerInv, RedisTyped
<1> QED BY <1>1, <1>2, <1>3, ProcessTyped, BackendStepOfServer

\* config/redis.ts:16: the phases, flags and counters of the process are of their
\* types, and the Redis client gives up after Retries failures in a row, not later.
THEOREM ServerTypeCorrect == BackendSpec => []BackendTypeOK
<1>1. ServerInv /\ TypeOK => BackendTypeOK
  BY DEF ServerInv, BackendTypeOK
<1>2. BackendSpec => []ServerInv
  BY ServerInvInit, ServerInvStep, PTL DEF BackendSpec
<1> QED BY <1>1, <1>2, TypeCorrect, PTL

\* What a step does to the phase, other than ending the process.
LEMMA PhaseMoves ==
  ASSUME Server!Process, phase' # phase, phase' # "down"
  PROVE  <<phase, phase'>> \in
           {<<"down", "connectDb">>, <<"connectDb", "pingRedis">>, <<"pingRedis", "listening">>,
            <<"listening", "closing">>, <<"closing", "disconnectDb">>,
            <<"closing", "quitRedis">>, <<"disconnectDb", "quitRedis">>}
<1>1. \A how : ~Server!Exit(how)
  BY DEF Server!Exit
<1>2. CASE Server!Boot \/ Server!ConnectDb \/ Server!PingAnswered \/ Server!PingTimesOut
  BY <1>1, <1>2 DEF Server!Boot, Server!ConnectDb, Server!PingAnswered, Server!PingTimesOut,
     Server!Listen
<1>3. CASE Server!RedisCloses
  <2>1. phase = "pingRedis" /\ phase' = "listening"
    BY <1>1, <1>3 DEF Server!RedisCloses, Server!Listen
  <2> QED BY <2>1
<1>4. CASE Server!Signal \/ Server!Drained \/ Server!DbDisconnected \/ Server!RedisQuit
           \/ Server!Crash
  BY <1>1, <1>4 DEF Server!Signal, Server!Drained, Server!DbDisconnected, Server!RedisQuit,
     Server!Crash
<1>5. ~(Server!RedisConnects \/ Server!StartProbe \/ Server!ProbeDb \/ Server!ProbeRedis)
  BY DEF Server!RedisConnects, Server!StartProbe, Server!ProbeDb, Server!ProbeRedis
<1> QED BY <1>2, <1>3, <1>4, <1>5 DEF Server!Process

LEMMA LifecycleStep ==
  ServerInv /\ ServerInv' /\ [BackendNext]_backendVars =>
    [Server!Lifecycle!Next]_Server!ProcessState
<1> SUFFICES ASSUME ServerInv, ServerInv', [BackendNext]_backendVars, phase' # phase
             PROVE  [Server!Lifecycle!Next]_Server!ProcessState
  BY DEF Server!ProcessState
<1>1. phase \in Server!Phases /\ phase' \in Server!Phases
  BY DEF ServerInv, Server!TypeOK
<1>2. Server!Process
  <2>1. BackendNext
    BY DEF backendVars, serverVars
  <2>2. \A s \in Sockets : ~Server!Accept(s) /\ ~Server!Leave(s)
    BY DEF Server!Accept, Server!Leave
  <2> QED BY <2>1, <2>2, BackendStepOfServer DEF serverVars
<1>3. CASE phase' = "down"
  BY <1>1, <1>3 DEF Server!Phases, Server!ProcessState, Server!Lifecycle!Next,
     Server!Lifecycle!Moves, Server!Lifecycle!States
<1>4. CASE phase' # "down"
  <2>1. \/ phase = "down" /\ phase' = "connectDb"
        \/ phase = "connectDb" /\ phase' = "pingRedis"
        \/ phase = "pingRedis" /\ phase' = "listening"
        \/ phase = "listening" /\ phase' = "closing"
        \/ phase = "closing" /\ phase' \in {"disconnectDb", "quitRedis"}
        \/ phase = "disconnectDb" /\ phase' = "quitRedis"
    BY <1>2, <1>4, PhaseMoves
  <2>2. \/ Server!ProcessState = "stopped" /\ Server!ProcessState' = "starting"
        \/ Server!ProcessState = "starting" /\ Server!ProcessState' = "serving"
        \/ Server!ProcessState = "serving" /\ Server!ProcessState' = "draining"
        \/ Server!ProcessState = "draining" /\ Server!ProcessState' = "releasing"
        \/ UNCHANGED Server!ProcessState
    BY <2>1 DEF Server!ProcessState
  <2>3. <<Server!ProcessState, Server!ProcessState'>> \in Server!Lifecycle!Moves
        \/ UNCHANGED Server!ProcessState
    BY <2>2, Zenon DEF Server!Lifecycle!Moves
  <2>4. Server!ProcessState' \in Server!Lifecycle!States \/ UNCHANGED Server!ProcessState
    BY <2>2, Zenon DEF Server!Lifecycle!States
  <2> QED BY <2>3, <2>4, Zenon DEF Server!Lifecycle!Next
<1> QED BY <1>3, <1>4

\* server.ts:49: whatever Redis, clients, signals and crashes do, the process goes
\* from stopped over starting and serving to draining and releasing, or stops.
THEOREM LifecycleImplemented == BackendSpec => Server!Lifecycle!Safety
<1>1. BackendInit => Server!Lifecycle!Init
  BY DEF BackendInit, Server!Init, Server!Lifecycle!Init, Server!ProcessState
<1>2. BackendSpec => []ServerInv
  BY ServerInvInit, ServerInvStep, PTL DEF BackendSpec
<1> QED BY <1>1, <1>2, LifecycleStep, PTL DEF BackendSpec, Server!Lifecycle!Safety
=============================================================================
