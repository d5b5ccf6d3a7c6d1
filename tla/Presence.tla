------------------------------ MODULE Presence ------------------------------
(***************************************************************************)
(* Who is online (message.gateway.ts, UserService.updateOnlineStatus).  A  *)
(* socket that connects or disconnects has the users.isOnline column       *)
(* written and then the presence key; the connection does not await it.    *)
(*   open       the sockets that are connected                             *)
(*   owner      the user of a socket, kept while a write of it is pending  *)
(*   online, offline   the next call of the update a connection and a      *)
(*              disconnection of the socket started                        *)
(*   isOnline   the column                                                 *)
(*   presence   the presence:<id> key                                      *)
(* and two histories, read by no action:                                   *)
(*   blurred    users whose socket events overlapped, whose write failed,  *)
(*              or whom a request or the end of a process left wrong       *)
(*   unkeyed    users whose column was last written without their key      *)
(***************************************************************************)
EXTENDS FiniteSets

CONSTANTS Users, Sockets, NoUser

ASSUME PresenceAssumption == NoUser \notin Users

VARIABLES open, owner, online, offline, isOnline, presence, blurred, unkeyed

sockets == <<open, owner, online, offline>>
records == <<isOnline, presence>>
vars == <<sockets, records, blurred, unkeyed>>

Awaits == {"none", "db", "key"}

SocketsOf(u) == {s \in open : owner[s] = u}

Coming(u) == {s \in Sockets : owner[s] = u /\ online[s] # "none"}

Going(u) == {s \in Sockets : owner[s] = u /\ offline[s] # "none"}

Settled(u) == Coming(u) = {} /\ Going(u) = {}

-----------------------------------------------------------------------------
(* The gateway *)

\* A quiet event, alone with its write, puts an earlier blur right.  An event
\* whose write can meet one of the opposite value, or a disconnection while
\* another socket stays, blurs.
Blur(u, quiet, clash) ==
  blurred' = IF quiet THEN blurred \ {u}
             ELSE IF clash THEN blurred \cup {u} ELSE blurred

\* Mutant: no update is started for a connection.
handleConnectionUnrecorded(s, u) ==
  /\ s \notin open /\ online[s] = "none" /\ offline[s] = "none"
  /\ open' = open \cup {s} /\ owner' = [owner EXCEPT ![s] = u]
  /\ Blur(u, Settled(u) /\ SocketsOf(u) = {}, Going(u) # {})
  /\ UNCHANGED <<online, offline, records, unkeyed>>

handleConnection(s, u) ==
  /\ s \notin open /\ online[s] = "none" /\ offline[s] = "none"
  /\ open' = open \cup {s} /\ owner' = [owner EXCEPT ![s] = u]
  /\ online' = [online EXCEPT ![s] = "db"]
  /\ Blur(u, Settled(u) /\ SocketsOf(u) = {}, Going(u) # {})
  /\ UNCHANGED <<offline, records, unkeyed>>

\* Mutant: the last socket's end is not recorded.
disconnectUnrecorded(s) ==
  /\ s \in open
  /\ open' = open \ {s}
  /\ owner' = [owner EXCEPT ![s] = IF online[s] = "none" THEN NoUser ELSE @]
  /\ Blur(owner[s], TRUE, FALSE)
  /\ UNCHANGED <<online, offline, records, unkeyed>>

disconnect(s) ==
  /\ s \in open
  /\ open' = open \ {s}
  /\ offline' = [offline EXCEPT ![s] = "db"]
  /\ LET u == owner[s]
         alone == SocketsOf(u) = {s}
     IN Blur(u, Settled(u) /\ alone, Coming(u) # {} \/ ~alone)
  /\ UNCHANGED <<owner, online, records, unkeyed>>

-----------------------------------------------------------------------------
(* updateOnlineStatus *)

WriteOnline(s) ==
  /\ online[s] = "db"
  /\ isOnline' = [isOnline EXCEPT ![owner[s]] = TRUE]
  /\ online' = [online EXCEPT ![s] = "key"]
  /\ UNCHANGED <<open, owner, offline, presence, blurred, unkeyed>>

WriteOffline(s) ==
  /\ offline[s] = "db"
  /\ isOnline' = [isOnline EXCEPT ![owner[s]] = FALSE]
  /\ offline' = [offline EXCEPT ![s] = "key"]
  /\ UNCHANGED <<open, owner, online, presence, blurred, unkeyed>>

\* An update that ends: its socket is forgotten once it is closed as well.
Ends(s) ==
  owner' = IF s \in open \/ online'[s] # "none" \/ offline'[s] # "none"
           THEN owner ELSE [owner EXCEPT ![s] = NoUser]

\* The cache swallows its errors: the key may stay as it is.
Key(u, value) ==
  \/ presence' = [presence EXCEPT ![u] = value] /\ unkeyed' = unkeyed \ {u}
  \/ unkeyed' = unkeyed \cup {u} /\ UNCHANGED presence

\* Mutant: a connection's key is left to expire.
KeyOnlineLeft(s) ==
  /\ online[s] = "key"
  /\ online' = [online EXCEPT ![s] = "none"] /\ UNCHANGED offline
  /\ Ends(s)
  /\ UNCHANGED <<open, records, blurred, unkeyed>>

KeyOnline(s) ==
  /\ online[s] = "key"
  /\ Key(owner[s], "on")
  /\ online' = [online EXCEPT ![s] = "none"] /\ UNCHANGED offline
  /\ Ends(s)
  /\ UNCHANGED <<open, isOnline, blurred>>

\* USER_OFFLINE is then broadcast to everybody.
KeyOffline(s) ==
  /\ offline[s] = "key"
  /\ Key(owner[s], "off")
  /\ offline' = [offline EXCEPT ![s] = "none"] /\ UNCHANGED online
  /\ Ends(s)
  /\ UNCHANGED <<open, isOnline, blurred>>

\* The update throws.  Nobody awaits it, or nobody catches it: it is logged.
WriteFails(s) ==
  /\ \/ /\ online[s] = "db" /\ online' = [online EXCEPT ![s] = "none"]
        /\ UNCHANGED offline
     \/ /\ offline[s] = "db" /\ offline' = [offline EXCEPT ![s] = "none"]
        /\ UNCHANGED online
  /\ blurred' = blurred \cup {owner[s]}
  /\ Ends(s)
  /\ UNCHANGED <<open, records, unkeyed>>

-----------------------------------------------------------------------------
(* Others who write the column or the key *)

\* The last write of login, of logout and logoutAll, and an update of the user that
\* names isOnline: the column alone.
HttpWrites(u, value) ==
  /\ isOnline' = [isOnline EXCEPT ![u] = value]
  /\ unkeyed' = unkeyed \cup {u}
  /\ blurred' = IF value # (SocketsOf(u) # {}) THEN blurred \cup {u} ELSE blurred
  /\ UNCHANGED <<sockets, presence>>

\* CACHE_TTL.PRESENCE: nothing renews the key of a connection that stays.
Expire(u) ==
  /\ presence[u] # "none"
  /\ presence' = [presence EXCEPT ![u] = "none"]
  /\ unkeyed' = unkeyed \ {u}
  /\ UNCHANGED <<sockets, isOnline, blurred>>

\* The process is gone, its sockets and pending writes with it.
ProcessEnds ==
  /\ open' = {} /\ owner' = [s \in Sockets |-> NoUser]
  /\ online' = [s \in Sockets |-> "none"] /\ offline' = [s \in Sockets |-> "none"]
  /\ blurred' = blurred \cup {u \in Users : ~Settled(u) \/ SocketsOf(u) # {}}
  /\ UNCHANGED <<records, unkeyed>>

-----------------------------------------------------------------------------

Init ==
  /\ open = {} /\ owner = [s \in Sockets |-> NoUser]
  /\ online = [s \in Sockets |-> "none"] /\ offline = [s \in Sockets |-> "none"]
  /\ isOnline = [u \in Users |-> FALSE]
  /\ presence = [u \in Users |-> "none"]
  /\ blurred = {} /\ unkeyed = {}

Update(s) == WriteOnline(s) \/ WriteOffline(s) \/ KeyOnline(s) \/ KeyOffline(s)

Next ==
  \/ \E s \in Sockets, u \in Users : handleConnection(s, u)
  \/ \E s \in Sockets : disconnect(s) \/ Update(s) \/ WriteFails(s)
  \/ \E u \in Users, value \in BOOLEAN : HttpWrites(u, value)
  \/ \E u \in Users : Expire(u)
  \/ ProcessEnds

Spec == Init /\ [][Next]_vars

-----------------------------------------------------------------------------
(* Properties.                                                             *)

TypeOK ==
  /\ open \subseteq Sockets
  /\ owner \in [Sockets -> Users \cup {NoUser}]
  /\ online \in [Sockets -> Awaits] /\ offline \in [Sockets -> Awaits]
  /\ isOnline \in [Users -> BOOLEAN]
  /\ presence \in [Users -> {"none", "on", "off"}]
  /\ blurred \subseteq Users /\ unkeyed \subseteq Users
  /\ \A s \in Sockets :
       owner[s] # NoUser <=> s \in open \/ online[s] # "none" \/ offline[s] # "none"

\* Where no write is under way, the column says whether the user has a socket,
\* except for the users of "blurred": overlapping events, several sockets,
\* failed writes, logins and the end of a process are all that makes it wrong.
OnlineWhileConnected ==
  \A u \in Users \ blurred : Settled(u) => isOnline[u] = (SocketsOf(u) # {})

\* Then the key, which is what is answered, agrees with the column, unless the
\* column was last written without it.
KeyAgrees ==
  \A u \in Users \ (blurred \cup unkeyed) :
    Settled(u) => presence[u] \in {"none", IF isOnline[u] THEN "on" ELSE "off"}
=============================================================================
