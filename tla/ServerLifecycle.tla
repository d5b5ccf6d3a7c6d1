-------------------------- MODULE ServerLifecycle --------------------------
(***************************************************************************)
(* The process (application/server.ts) and its Redis client                *)
(* (config/redis.ts): start-up, with a ping that races a timer, the        *)
(* readiness probe, and shutdown on a signal.                              *)
(*   phase    the await startServer or shutdown is at; "down": no process  *)
(*   dbConnected, redisConnected   what start-up found: its local flags    *)
(*   redis    the status of the Redis client                               *)
(*   attempts its failed attempts to connect since it was last ready       *)
(*   conns    the sockets the HTTP server counts                           *)
(*   probe    the call of a readiness probe, an HTTP request in flight     *)
(*   again    a second signal came while the server was closing            *)
(*   exit     how the last process ended                                   *)
(* Fair are the steps of the event loop and its timers: a database's call  *)
(* is answered or fails, an attempt to connect to Redis ends one way or    *)
(* the other, and a probe's ping is answered by a Redis that stays.  The   *)
(* ping of start-up has its timer and needs no answer.  Clients, outages   *)
(* and whoever sends signals are not fair.                                 *)
(***************************************************************************)
EXTENDS Naturals

CONSTANTS
  Sockets,
  Retries  \* reconnections before the Redis client gives up, a natural number

VARIABLES phase, dbConnected, redisConnected, redis, attempts, conns, probe, again, exit

flags == <<dbConnected, redisConnected>>
client == <<redis, attempts>>
vars == <<phase, flags, client, conns, probe, again, exit>>

Phases == {"down", "connectDb", "pingRedis", "listening", "closing",
           "disconnectDb", "quitRedis"}

Probing == probe \in {"db", "redis"}

\* process.exit, a signal nobody handles yet, or a crash: all of it is gone.
Exit(how) ==
  /\ phase' = "down" /\ exit' = how
  /\ dbConnected' = FALSE /\ redisConnected' = FALSE
  /\ redis' = "wait" /\ attempts' = 0
  /\ conns' = {} /\ probe' = "none" /\ again' = FALSE

-----------------------------------------------------------------------------
(* startServer *)

Boot ==
  /\ phase = "down"
  /\ phase' = "connectDb" /\ exit' = "none"
  /\ UNCHANGED <<flags, client, conns, probe, again>>

\* Start-up goes on without a database.  The ping connects the lazy client.
ConnectDb ==
  /\ phase = "connectDb"
  /\ dbConnected' \in BOOLEAN
  /\ phase' = "pingRedis" /\ redis' = "connecting"
  /\ UNCHANGED <<redisConnected, attempts, conns, probe, again, exit>>

\* From the end of the race to listen() and the signal handlers nothing is
\* awaited; a port in use then comes as an 'error' event, and exit(1).
Listen(pong, status, failures) ==
  /\ phase = "pingRedis"
  /\ \/ /\ phase' = "listening" /\ redisConnected' = pong
        /\ redis' = status /\ attempts' = failures
        /\ UNCHANGED <<dbConnected, conns, probe, again, exit>>
     \/ Exit("error")

PingAnswered == redis = "ready" /\ Listen(TRUE, redis, attempts)

\* Mutant: no timer, so that only a client that gave up ends the wait.
PingWithoutTimer == redis = "end" /\ Listen(FALSE, redis, attempts)

\* The client may connect later: the flag then says that it has not.
PingTimesOut == Listen(FALSE, redis, attempts)

-----------------------------------------------------------------------------
(* The Redis client *)

RedisConnects ==
  /\ redis = "connecting"
  /\ redis' = "ready" /\ attempts' = 0
  /\ UNCHANGED <<phase, flags, conns, probe, again, exit>>

\* A failed attempt, or a lost connection.  maxRetriesPerRequest is 1: at every
\* second close, and when the client gives up, the calls it has queued fail,
\* which are the ping of start-up or that of a probe.
RedisCloses ==
  /\ redis \in {"connecting", "ready"}
  /\ LET n == attempts + 1
         status == IF n > Retries THEN "end" ELSE "connecting"
         refuse == status = "end" \/ n % 2 = 0
     IN \/ refuse /\ Listen(FALSE, status, n)
        \/ /\ ~(refuse /\ phase = "pingRedis")
           /\ redis' = status /\ attempts' = n
           /\ probe' = IF refuse /\ probe = "redis" THEN "notReady" ELSE probe
           /\ UNCHANGED <<phase, flags, conns, again, exit>>

-----------------------------------------------------------------------------
(* Clients and the readiness probe *)

Accept(c) ==
  /\ phase = "listening" /\ c \notin conns
  /\ conns' = conns \cup {c}
  /\ UNCHANGED <<phase, flags, client, probe, again, exit>>

Leave(c) ==
  /\ c \in conns
  /\ conns' = conns \ {c}
  /\ UNCHANGED <<phase, flags, client, probe, again, exit>>

StartProbe ==
  /\ phase = "listening" /\ ~Probing
  /\ probe' = "db"
  /\ UNCHANGED <<phase, flags, client, conns, again, exit>>

\* The probe asks the databases and not the flags.
ProbeDb ==
  /\ probe = "db"
  /\ probe' \in {"redis", "notReady"}
  /\ UNCHANGED <<phase, flags, client, conns, again, exit>>

\* Mutant: a client that gave up keeps the calls it is given.
ProbeRedisHangs ==
  /\ probe = "redis" /\ redis = "ready"
  /\ probe' = "ready"
  /\ UNCHANGED <<phase, flags, client, conns, again, exit>>

\* A client that gave up refuses every call at once.
ProbeRedis ==
  /\ probe = "redis"
  /\ \/ redis = "ready" /\ probe' = "ready"
     \/ redis = "end" /\ probe' = "notReady"
  /\ UNCHANGED <<phase, flags, client, conns, again, exit>>

-----------------------------------------------------------------------------
(* shutdown *)

\* Before the handlers are installed a signal ends the process.  A second
\* shutdown waits for the same 'close' event, and fails when it comes.
Signal ==
  \/ phase \in {"connectDb", "pingRedis"} /\ Exit("killed")
  \/ /\ phase = "listening" /\ phase' = "closing"
     /\ UNCHANGED <<flags, client, conns, probe, again, exit>>
  \/ /\ phase = "closing" /\ again' = TRUE
     /\ UNCHANGED <<phase, flags, client, conns, probe, exit>>
  \/ phase \in {"disconnectDb", "quitRedis"} /\ Exit("error")

\* server.close calls back when no connection is left.  The first shutdown
\* goes on until its next await; then a second one ends the process.
Drained ==
  /\ phase = "closing" /\ conns = {} /\ ~Probing
  /\ \/ ~dbConnected /\ ~redisConnected /\ Exit("ok")
     \/ (dbConnected \/ redisConnected) /\ again /\ Exit("error")
     \/ /\ dbConnected \/ redisConnected
        /\ ~again
        /\ phase' = IF dbConnected THEN "disconnectDb" ELSE "quitRedis"
        /\ UNCHANGED <<flags, client, conns, probe, again, exit>>

DbDisconnected ==
  /\ phase = "disconnectDb"
  /\ \/ /\ redisConnected
        /\ phase' = "quitRedis"
        /\ UNCHANGED <<flags, client, conns, probe, again, exit>>
     \/ ~redisConnected /\ Exit("ok")
     \/ Exit("error")

\* Mutant: an error of quit is ignored.
RedisQuitQuietly == phase = "quitRedis" /\ Exit("ok")

\* Quitting a client that gave up throws.
RedisQuit ==
  /\ phase = "quitRedis"
  /\ \/ redis # "end" /\ Exit("ok")
     \/ Exit("error")

\* An uncaught exception, or the machine.
Crash == phase # "down" /\ Exit("crashed")

-----------------------------------------------------------------------------

Init ==
  /\ phase = "down" /\ exit = "none"
  /\ dbConnected = FALSE /\ redisConnected = FALSE
  /\ redis = "wait" /\ attempts = 0
  /\ conns = {} /\ probe = "none" /\ again = FALSE

\* The steps that leave the connections to their clients.
Process ==
  \/ Boot \/ ConnectDb \/ PingAnswered \/ PingTimesOut
  \/ RedisConnects \/ RedisCloses
  \/ StartProbe \/ ProbeDb \/ ProbeRedis
  \/ Signal \/ Drained \/ DbDisconnected \/ RedisQuit \/ Crash

Next == Process \/ \E c \in Sockets : Accept(c) \/ Leave(c)

\* An attempt to connect ends, one way or the other.
RedisSettles == redis = "connecting" /\ (RedisConnects \/ RedisCloses)

Releases == DbDisconnected \/ RedisQuit

Fairness ==
  /\ WF_vars(ConnectDb) /\ WF_vars(PingTimesOut)
  /\ WF_vars(ProbeDb) /\ SF_vars(ProbeRedis)
  /\ WF_vars(RedisSettles) /\ WF_vars(Drained) /\ WF_vars(Releases)

Spec == Init /\ [][Next]_vars /\ Fairness

-----------------------------------------------------------------------------
(* Properties.                                                             *)

TypeOK ==
  /\ phase \in Phases
  /\ dbConnected \in BOOLEAN /\ redisConnected \in BOOLEAN
  /\ redis \in {"wait", "connecting", "ready", "end"} /\ attempts \in 0..(Retries + 1)
  /\ conns \subseteq Sockets
  /\ probe \in {"none", "db", "redis", "ready", "notReady"}
  /\ again \in BOOLEAN
  /\ exit \in {"none", "ok", "error", "killed", "crashed"}

\* The phases as whoever runs the process sees them.
ProcessState ==
  CASE phase = "down" -> "stopped"
    [] phase \in {"connectDb", "pingRedis"} -> "starting"
    [] phase = "listening" -> "serving"
    [] phase = "closing" -> "draining"
    [] phase \in {"disconnectDb", "quitRedis"} -> "releasing"

Lifecycle == INSTANCE ProcessLifecycle WITH state <- ProcessState

\* The process implements the abstract life cycle: a start ends whatever Redis
\* does, and what follows the last connection ends.
ImplementsLifecycle == Lifecycle!Spec

\* A shutdown ends unless some client never leaves: nothing closes the sockets.
ShutdownWaitsForClientsOnly ==
  phase = "closing" ~> (phase = "down" \/ [](conns # {}))

\* Success is reported only by a shutdown that nothing interrupted and that
\* could release what start-up had counted on: a Redis client that gave up
\* since, or a second signal, makes it a failure.
CleanExit ==
  [][phase # "down" /\ phase' = "down" /\ exit' = "ok" =>
       /\ phase \in {"closing", "disconnectDb", "quitRedis"}
       /\ conns = {} /\ ~Probing
       /\ again => ~dbConnected /\ ~redisConnected
       /\ redisConnected => redis # "end"]_vars
=============================================================================
