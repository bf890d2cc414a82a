-------------------------------- MODULE Process --------------------------------
(***************************************************************************)
(* One server process: its start, its connections, its end.                *)
(*                                                                         *)
(* startServer connects to MongoDB and Redis, sets the realtime server up  *)
(* and listens; a signal starts gracefulShutdown, at any point of the      *)
(* start. A container runs one process after the other. The connections    *)
(* have reconnect strategies that end: a client that has given up is never *)
(* connected again by this process.                                        *)
(***************************************************************************)
EXTENDS Access

CONSTANTS
    Attempt,            \* HTTP requests, 1..n in the order they are sent
    useRedisAdapter,    \* config.realtime.useRedisAdapter
    Budgets             \* bound: how often each kind of event happens

VARIABLES
    main,       \* startServer: connecting, wiring, serving, failing, failed; gone
    mongo,      \* the mongoose connection: off, opening, on
    redis,      \* the Redis client: off, opening, ready, retrying, dead
    bull,       \* the connection of the queues: connecting, ready, retrying, end
    io,         \* the realtime server: none, open
    server,     \* the variable server of server.ts is set
    listening,  \* the HTTP server accepts requests
    stop,       \* gracefulShutdown: none, realtime, draining, http, closing, links, failed
    timer,      \* forceShutdownTimer is running
    ended,      \* how the process ended: not, clean, failed, forced, crash
    late,       \* history: it began to listen while it was shutting down
    running,    \* the requests being served
    left        \* left[event]: the events the behaviour may still see

startVars == <<main, mongo, io, server, late>>
stopVars == <<stop, timer, ended>>
processVars == <<startVars, stopVars, redis, bull, listening, running, left>>

Started ==
    /\ main' = "connecting" /\ mongo' = "opening" /\ redis' = "opening" /\ bull' = "connecting"
    /\ io' = "none" /\ server' = FALSE /\ listening' = FALSE
    /\ stop' = "none" /\ timer' = FALSE /\ ended' = "not"
    /\ late' = FALSE /\ running' = {}

\* A process begins as it is started, or has been serving for a while.
ProcessInit ==
    /\ left \in Budgets
    /\ stop = "none" /\ timer = FALSE /\ ended = "not" /\ late = FALSE /\ running = {}
    /\ \/ /\ left.start > 0
          /\ main = "connecting" /\ mongo = "opening" /\ redis = "opening" /\ bull = "connecting"
          /\ io = "none" /\ server = FALSE /\ listening = FALSE
       \/ /\ left.start = 0
          /\ main = "serving" /\ mongo = "on" /\ redis = "ready" /\ bull = "ready"
          /\ io = "open" /\ server = TRUE /\ listening = TRUE

Alive == main # "gone"
Spend(event) == left[event] > 0 /\ left' = [left EXCEPT ![event] = @ - 1]

-------------------------------------------------------------------------------
(* Start *)

connectDatabase ==
    /\ Alive /\ mongo = "opening"
    /\ \/ mongo' = "on" /\ UNCHANGED <<main, left>>
       \/ /\ Spend("fault") /\ mongo' = "off"
          /\ main' = IF main = "connecting" THEN "failing" ELSE main
    /\ UNCHANGED <<io, server, late, stopVars, redis, bull, listening, running>>

connectRedis ==
    /\ Alive /\ redis = "opening"
    /\ \/ redis' = "ready" /\ UNCHANGED <<main, left>>
       \/ /\ Spend("fault") /\ redis' = "dead"
          /\ main' = IF main = "connecting" THEN "failing" ELSE main
    /\ UNCHANGED <<mongo, io, server, late, stopVars, bull, listening, running>>

\* Both connections stand: the realtime server is made on an HTTP server that does not
\* listen yet, and the handler waits for the adapter's two clients.
setupRealtimeServer ==
    /\ main = "connecting" /\ mongo = "on" /\ redis = "ready"
    /\ main' = "wiring" /\ io' = "open"
    /\ UNCHANGED <<mongo, server, late, stopVars, redis, bull, listening, running, left>>

connectRedisAdapter ==
    /\ main = "wiring" /\ useRedisAdapter /\ Spend("fault")
    /\ main' = "failing"
    /\ UNCHANGED <<mongo, io, server, late, stopVars, redis, bull, listening, running>>

listen ==
    /\ main = "wiring"
    /\ main' = "serving" /\ server' = TRUE /\ listening' = TRUE
    /\ late' = (stop # "none")
    /\ UNCHANGED <<mongo, io, stopVars, redis, bull, running, left>>

\* The catch of startServer: what is connected stays connected, and keeps the process up.
StartFails ==
    /\ main = "failing"
    /\ main' = "failed" /\ io' = "none"
    /\ UNCHANGED <<mongo, server, late, stopVars, redis, bull, listening, running, left>>

\* Nothing keeps the event loop going any more: the process ends with exitCode 1.
LoopEnds ==
    /\ main = "failed" /\ stop = "none"
    /\ mongo = "off" /\ redis \in {"off", "dead"} /\ bull = "end"
    /\ main' = "gone" /\ ended' = "failed"
    /\ UNCHANGED <<mongo, io, server, late, stop, timer, redis, bull, listening, running, left>>

-------------------------------------------------------------------------------
(* Connections *)

\* reconnectStrategy: after ten tries the client gives up.
RedisFlaps ==
    /\ Alive
    /\ \/ redis = "ready" /\ Spend("flap") /\ redis' = "retrying"
       \/ redis = "retrying" /\ redis' \in {"ready", "dead"} /\ UNCHANGED left
    /\ UNCHANGED <<startVars, stopVars, bull, listening, running>>

\* retryStrategy: after three tries the connection of the queues ends.
BullFlaps ==
    /\ Alive
    /\ \/ bull = "connecting" /\ bull' = "ready" /\ UNCHANGED left
       \/ bull \in {"connecting", "ready"} /\ Spend("fault") /\ bull' = "retrying"
       \/ bull = "retrying" /\ bull' \in {"ready", "end"} /\ UNCHANGED left
    /\ UNCHANGED <<startVars, stopVars, redis, listening, running>>

-------------------------------------------------------------------------------
(* Shutdown *)

\* Slip: the timer that forces the exit is never set.
gracefulShutdown_NoTimer ==
    /\ Alive /\ stop = "none" /\ Spend("signal")
    /\ stop' = "realtime"
    /\ UNCHANGED <<startVars, timer, ended, redis, bull, listening, running>>

gracefulShutdown ==
    /\ Alive /\ stop = "none" /\ Spend("signal")
    /\ stop' = "realtime" /\ timer' = TRUE
    /\ UNCHANGED <<startVars, ended, redis, bull, listening, running>>

\* closeRealtimeServer: io is taken; closing it closes the HTTP server below it, which
\* takes no request any more and waits for those it has.
closeRealtimeServer ==
    /\ Alive /\ stop = "realtime"
    /\ io' = "none"
    /\ stop' = IF io = "open" /\ listening THEN "draining" ELSE "http"
    /\ listening' = (listening /\ io # "open")
    /\ UNCHANGED <<main, mongo, server, late, timer, ended, redis, bull, running, left>>

\* Slip: the close of the realtime server is not awaited.
HttpDrained_NotAwaited ==
    /\ Alive /\ stop = "draining"
    /\ stop' = "http"
    /\ UNCHANGED <<startVars, timer, ended, redis, bull, listening, running, left>>

HttpDrained ==
    /\ Alive /\ stop \in {"draining", "closing"} /\ running = {}
    /\ stop' = IF stop = "draining" THEN "http" ELSE "links"
    /\ UNCHANGED <<startVars, timer, ended, redis, bull, listening, running, left>>

\* server.close of a server that no longer listens reports that it is not running.
CloseServer ==
    /\ Alive /\ stop = "http"
    /\ stop' = CASE ~server -> "links" [] server /\ listening -> "closing" [] OTHER -> "failed"
    /\ listening' = FALSE
    /\ UNCHANGED <<startVars, timer, ended, redis, bull, running, left>>

closeBullConnection ==
    /\ Alive /\ stop = "links" /\ bull # "end"
    /\ bull' = "end"
    /\ UNCHANGED <<startVars, stopVars, redis, listening, running, left>>

disconnectDatabase ==
    /\ Alive /\ stop = "links" /\ mongo # "off"
    /\ mongo' = "off"
    /\ UNCHANGED <<main, io, server, late, stopVars, redis, bull, listening, running, left>>

disconnectRedis ==
    /\ Alive /\ stop = "links" /\ redis \notin {"off", "dead"}
    /\ redis' = "off"
    /\ UNCHANGED <<startVars, stopVars, bull, listening, running, left>>

Exit(how) ==
    /\ main' = "gone" /\ ended' = how /\ timer' = FALSE /\ listening' = FALSE
    /\ UNCHANGED <<mongo, io, server, late, stop, redis, bull, running>>

\* All three have settled, or the close of the HTTP server was refused.
ShutdownCompletes ==
    /\ Alive
    /\ \/ stop = "links" /\ bull = "end" /\ mongo = "off" /\ redis \in {"off", "dead"}
       \/ stop = "failed"
    /\ Exit(IF stop = "failed" THEN "failed" ELSE "clean")
    /\ UNCHANGED left

ForcedExit == Alive /\ timer /\ Exit("forced") /\ UNCHANGED left

Crash == Alive /\ stop = "none" /\ Spend("crash") /\ Exit("crash")

\* The container starts the next process.
Restart == ~Alive /\ Spend("restart") /\ Started

ProcessNext ==
    \/ connectDatabase \/ connectRedis \/ setupRealtimeServer \/ connectRedisAdapter
    \/ listen \/ StartFails \/ LoopEnds
    \/ RedisFlaps \/ BullFlaps
    \/ gracefulShutdown \/ closeRealtimeServer \/ HttpDrained \/ CloseServer
    \/ closeBullConnection \/ disconnectDatabase \/ disconnectRedis
    \/ ShutdownCompletes \/ ForcedExit \/ Crash \/ Restart

-------------------------------------------------------------------------------
(* Health *)

MongoCheck(aborted) == IF ~aborted /\ mongo = "on" THEN "ok" ELSE "down"
RedisCheck(aborted) == IF ~aborted /\ redis = "ready" THEN "ok" ELSE "down"

\* A ping waits in the offline queue until the connection is back or has ended.
QueueAnswers(aborted) == aborted \/ bull \in {"ready", "end"}
QueueCheck(aborted) == IF ~aborted /\ bull = "ready" THEN "ok" ELSE "down"

resolveOverallStatus(checks) ==
    CASE "down" \in checks -> "down"
      [] "degraded" \in checks -> "degraded"
      [] OTHER -> "ok"

check(aborted) ==
    resolveOverallStatus({MongoCheck(aborted), RedisCheck(aborted), QueueCheck(aborted)})
===============================================================================
