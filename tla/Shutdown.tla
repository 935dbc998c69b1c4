------------------------------ MODULE Shutdown ------------------------------
(***************************************************************************)
(* The end of a process: RequestTrackingMiddleware counts the requests in  *)
(* flight, SIGTERM makes Nest close the HTTP server and then call          *)
(* ShutdownService.onApplicationShutdown, which reads a counter and        *)
(* releases Prisma and the Redis clients.                                  *)
(*                                                                         *)
(* AppModule and ShutdownModule hold two instances of the counter.  The    *)
(* middleware counts in the first; the service reads the second, which     *)
(* nothing increments, so its wait of 30 seconds is never entered.         *)
(***************************************************************************)
EXTENDS RedisClients, Integers, FiniteSets

CONSTANT Reqs   \* the requests the process receives

VARIABLES
  proc,          \* "running", "closing", "releasing", "exited"
  stage,         \* Reqs -> where the request is
  active,        \* activeRequests of the tracker of AppModule
  prisma,        \* the database client: "connected" or "disconnected"
  quit           \* Clients -> quit of destroy: "none", "sent", "ok", "failed"

requests == <<stage, active>>
release == <<prisma, quit>>
vars == <<redisVars, proc, requests, release>>

Init ==
  /\ RedisInit
  /\ proc = "running"
  /\ stage = [r \in Reqs |-> "none"]
  /\ active = 0
  /\ prisma = "connected"
  /\ quit = [c \in Clients |-> "none"]

-----------------------------------------------------------------------------
(* Requests.  The response emits finish when it is written and close when  *)
(* it is over or the client goes away; each listener decrements.           *)

Move(r, from, to) == stage[r] = from /\ stage' = [stage EXCEPT ![r] = to]

(* Mutant: the HTTP server is not closed and accepts requests to the end.   *)
ReceiveWhileUp(r) ==
  /\ proc # "exited"
  /\ Move(r, "none", "handling")
  /\ active' = active + 1
  /\ UNCHANGED <<redisVars, proc, release>>

Receive(r) ==
  /\ proc = "running"
  /\ Move(r, "none", "handling")
  /\ active' = active + 1
  /\ UNCHANGED <<redisVars, proc, release>>

OnFinish(r) ==
  /\ proc # "exited"
  /\ Move(r, "handling", "written")
  /\ active' = active - 1
  /\ UNCHANGED <<redisVars, proc, release>>

(* Mutant: no listener for close.                                          *)
OnCloseIgnored(r) ==
  /\ proc # "exited"
  /\ Move(r, "written", "over") \/ Move(r, "handling", "left")
  /\ UNCHANGED <<redisVars, proc, active, release>>

(* "left": the client went away while the handler still runs.              *)
OnClose(r) ==
  /\ proc # "exited"
  /\ Move(r, "written", "over") \/ Move(r, "handling", "left")
  /\ active' = active - 1
  /\ UNCHANGED <<redisVars, proc, release>>

InFlight == {r \in Reqs : stage[r] = "handling"}

-----------------------------------------------------------------------------
(* Shutdown.                                                               *)

Sigterm ==
  /\ proc = "running"
  /\ proc' = "closing"
  /\ UNCHANGED <<redisVars, requests, release>>

(* The tracker of ShutdownModule.                                          *)
GetActiveRequests == 0

(* Mutant: the release in onModuleDestroy, before the server is closed.    *)
HookDueAtOnce == TRUE

(* Nest calls onApplicationShutdown once httpServer.close has called back, *)
(* when every connection is over.                                          *)
HookDue == \A r \in Reqs : stage[r] \notin {"handling", "written"}

(* destroy calls quit on both clients in the turn of the hook.  Without an *)
(* offline queue it is rejected at once on a client that is not ready.     *)
OnApplicationShutdown ==
  /\ proc = "closing"
  /\ HookDue
  /\ GetActiveRequests <= 0
  /\ proc' = "releasing"
  /\ quit' = [c \in Clients |-> IF status[c] = "ready" THEN "sent" ELSE "failed"]
  /\ UNCHANGED <<redisVars, requests, prisma>>

Disconnect ==
  /\ proc = "releasing"
  /\ prisma' = "disconnected"
  /\ UNCHANGED <<redisVars, proc, requests, quit>>

(* disconnect follows a quit that succeeds.  A connection lost before the  *)
(* reply rejects it, and ioredis does not reconnect a client that quits.   *)
Quits(c, fate) ==
  /\ proc = "releasing" /\ quit[c] = "sent"
  /\ quit' = [quit EXCEPT ![c] = fate]
  /\ status' = [status EXCEPT ![c] = "end"]
  /\ UNCHANGED <<serverUp, attempts, proc, requests, prisma>>
QuitOk(c) == Quits(c, "ok")
QuitFails(c) == Quits(c, "failed")

(* Mutant: a rejected quit is not caught.                                  *)
SettledIfOk(c) == quit[c] = "ok"
Settled(c) == quit[c] # "sent"

(* The hook returns and Nest kills the process with the signal.            *)
Exit ==
  /\ proc = "releasing"
  /\ prisma = "disconnected" /\ \A c \in Clients : Settled(c)
  /\ proc' = "exited"
  /\ UNCHANGED <<redisVars, requests, release>>

Redis ==
  /\ proc # "exited"
  /\ RedisNext
  /\ \A c \in Clients : quit[c] = "sent" => status'[c] = status[c]
  /\ UNCHANGED <<proc, requests, release>>

Next ==
  \/ \E r \in Reqs : Receive(r) \/ OnFinish(r) \/ OnClose(r)
  \/ Sigterm \/ OnApplicationShutdown
  \/ Disconnect \/ \E c \in Clients : QuitOk(c) \/ QuitFails(c)
  \/ Exit \/ Redis

Spec == Init /\ [][Next]_vars

-----------------------------------------------------------------------------
TypeOK ==
  /\ RedisTypeOK
  /\ proc \in {"running", "closing", "releasing", "exited"}
  /\ stage \in [Reqs -> {"none", "handling", "written", "over", "left"}]
  /\ active \in Int
  /\ prisma \in {"connected", "disconnected"}
  /\ quit \in [Clients -> {"none", "sent", "ok", "failed"}]

(* fault-tolerance.md: a counter greater than zero means that requests are *)
(* being processed.  A request whose client went away does not keep the    *)
(* counter up.                                                             *)
PositiveMeansActive == active > 0 => InFlight # {}

(* No client that still waits for its answer loses the database, even with *)
(* a request that takes forever and a tracker that counts nothing: it is   *)
(* the choice of the last of Nest's hooks that protects it.                *)
AnsweredBeforeRelease ==
  prisma = "disconnected" \/ (\E c \in Clients : quit[c] # "none") => InFlight = {}

(* docs/fault-tolerance.md: a shutdown waits for a configurable timeout,   *)
(* after which the remaining requests are terminated.  A shutdown does not *)
(* wait for ever for a request.                                            *)
RemainingTerminated == proc = "closing" ~> InFlight = {} \/ proc = "exited"

(* A client does not try for ever: while the process runs it is again and  *)
(* again either ready or given up.                                         *)
ClientsSettle ==
  \A c \in Clients : []<>(proc = "exited" \/ status[c] \in {"ready", "end"})

=============================================================================
