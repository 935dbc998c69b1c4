------------------------------- MODULE Health -------------------------------
(***************************************************************************)
(* The health endpoints and the health gauge, in the process of Shutdown:  *)
(* GET /health (database and shutdown state), GET /health/deps (database   *)
(* and Redis) and GET /metrics, whose middleware runs the checks of        *)
(* /health and sets service_health_status.  A probe is a request: it is    *)
(* tracked, and SIGTERM finds it under way.                                *)
(***************************************************************************)
EXTENDS Shutdown

VARIABLES
  dbUp,      \* the database answers a ping within its second
  probe,     \* Reqs -> the path and the results of its checks
  report,    \* Reqs -> the status of the health check, "none" until it is known
  gauge,     \* service_health_status: service -> "unset", "up" (1) or "down" (0)
  wavered    \* the database changed, or was slow, since scrapes are under way (history)

healthVars == <<dbUp, probe, report, gauge, wavered>>
allVars == <<vars, healthVars>>

Paths == {"other", "health", "health/deps", "metrics"}
Probe ==
  [path : Paths, database : {"skipped", "pending", "up", "down"},
   shutdown : {"skipped", "up", "down"},      \* "skipped": not checked, or not yet
   redis : [Clients -> {"skipped", "sent", "pong", "rejected"}]]

(* runAll and runCritical, as they start.  The ping of a client that is    *)
(* not ready is rejected at once: there is no offline queue.               *)
IsShuttingDown == proc \in {"releasing", "exited"}
ShutdownCheck == IF IsShuttingDown THEN "down" ELSE "up"
Started(path) ==
  [path |-> path,
   database |-> "pending",
   shutdown |-> IF path = "health/deps" THEN "skipped" ELSE ShutdownCheck,
   redis |-> [c \in Clients |-> IF path # "health/deps" THEN "skipped"
                                ELSE IF status[c] = "ready" THEN "sent" ELSE "rejected"]]

Unchecked(path) ==
  [path |-> path, database |-> "skipped", shutdown |-> "skipped",
   redis |-> [c \in Clients |-> "skipped"]]

HealthInit ==
  /\ Init
  /\ dbUp \in BOOLEAN
  /\ probe = [r \in Reqs |-> Unchecked("other")]
  /\ report = [r \in Reqs |-> "none"]
  /\ gauge = [s \in {"database", "shutdown"} |-> "unset"]
  /\ wavered = TRUE

-----------------------------------------------------------------------------
(* A handler goes on when its client has left.                             *)
Running(r) == proc # "exited" /\ stage[r] \in {"handling", "left"} /\ report[r] = "none"
Scraping(r) == Running(r) /\ probe[r].path = "metrics"

(* A ping whose connection is lost is rejected, it is not sent again.      *)
LostPings ==
  probe' = [r \in Reqs |->
    [probe[r] EXCEPT !.redis =
       [c \in Clients |-> IF @[c] = "sent" /\ status'[c] # "ready" THEN "rejected" ELSE @[c]]]]

(* What the rest of the process does, with a probe under way or not.       *)
Elsewhere == LostPings /\ UNCHANGED <<dbUp, report, gauge, wavered>>

(* The middleware of /metrics starts the checks in the turn in which the   *)
(* request arrives, before its guards.  A scrape that no other overlaps    *)
(* starts a batch.                                                         *)
ReceiveProbe(r) ==
  /\ Receive(r)
  /\ \E path \in Paths :
       /\ probe' = [probe EXCEPT ![r] = IF path = "metrics" THEN Started(path) ELSE Unchecked(path)]
       /\ wavered' = (wavered /\ (path # "metrics" \/ \E o \in Reqs : Scraping(o)))
  /\ UNCHANGED <<dbUp, report, gauge>>

(* The handlers start them once the guards have let the request through.   *)
StartChecks(r) ==
  /\ Running(r)
  /\ probe[r].path \in {"health", "health/deps"}
  /\ probe[r].database = "skipped"
  /\ probe' = [probe EXCEPT ![r] = Started(@.path)]
  /\ UNCHANGED <<vars, dbUp, report, gauge, wavered>>

(* pingCheck of the database: its answer, or an error, or its time is up   *)
(* although the database works.                                            *)
DatabasePing(r, result) ==
  /\ Running(r)
  /\ probe[r].database = "pending"
  /\ result = "up" => dbUp
  /\ probe' = [probe EXCEPT ![r].database = result]
  /\ wavered' = (wavered \/ (result = "down" /\ dbUp))
  /\ UNCHANGED <<vars, dbUp, report, gauge>>

RedisPong(r, c) ==
  /\ Running(r)
  /\ probe[r].redis[c] = "sent"
  /\ serverUp
  /\ probe' = [probe EXCEPT ![r].redis[c] = "pong"]
  /\ UNCHANGED <<vars, dbUp, report, gauge, wavered>>

(* Mutant: the checks are started and not awaited.                          *)
ChecksStarted(r) == probe[r].database # "skipped"

ChecksSettled(r) ==
  /\ probe[r].database \in {"up", "down"}
  /\ \A c \in Clients : probe[r].redis[c] # "sent"

AllUp(r) ==
  /\ "down" \notin {probe[r].database, probe[r].shutdown}
  /\ \A c \in Clients : probe[r].redis[c] # "rejected"

(* HealthCheckService.check resolves for "ok" and throws otherwise; its    *)
(* executor says shutting_down from beforeApplicationShutdown on.          *)
Status(r) == IF proc # "running" THEN "shutting_down" ELSE IF AllUp(r) THEN "ok" ELSE "error"

(* Mutant: the catch of updateMetrics does not read the response.           *)
DetailsOfResult(r) ==
  IF Status(r) = "ok" THEN [database |-> probe[r].database, shutdown |-> probe[r].shutdown]
                      ELSE gauge

(* The details of the result, or of the response of what was thrown.       *)
Details(r) == [database |-> probe[r].database, shutdown |-> probe[r].shutdown]

Conclude(r) ==
  /\ Running(r)
  /\ ChecksSettled(r)
  /\ report' = [report EXCEPT ![r] = Status(r)]
  /\ gauge' = IF Scraping(r) THEN Details(r) ELSE gauge
  /\ UNCHANGED <<vars, dbUp, probe, wavered>>

(* A request that is not a probe, or that a guard turns away, is answered  *)
(* without a report.                                                       *)
FinishProbe(r) ==
  /\ probe[r].database # "skipped" => report[r] # "none"
  /\ OnFinish(r)
  /\ Elsewhere

DatabaseChanges ==
  /\ proc # "exited"
  /\ dbUp' = ~dbUp
  /\ wavered' = TRUE
  /\ UNCHANGED <<vars, probe, report, gauge>>

ProcessStep ==
  \/ \E r \in Reqs : OnClose(r)
  \/ Sigterm \/ OnApplicationShutdown
  \/ Disconnect \/ \E c \in Clients : QuitOk(c) \/ QuitFails(c)
  \/ Exit \/ Redis

HealthNext ==
  \/ \E r \in Reqs :
       \/ ReceiveProbe(r) \/ StartChecks(r) \/ Conclude(r) \/ FinishProbe(r)
       \/ DatabasePing(r, "up") \/ DatabasePing(r, "down")
       \/ \E c \in Clients : RedisPong(r, c)
  \/ DatabaseChanges
  \/ ProcessStep /\ Elsewhere

HealthSpec == HealthInit /\ [][HealthNext]_allVars

(* The handler of a health probe has its report, and answers with it.      *)
Checked(r) == probe[r].path \in {"health", "health/deps"} /\ report[r] # "none"

(* What the process itself brings about: timers of reconnects, pings of    *)
(* the database (Terminus gives them a second), the end of what is         *)
(* written, the hooks; $disconnect is assumed to return.  Nothing bounds a *)
(* handler, a guard (it asks Redis), or the answers of a connected Redis.  *)
HealthFairness ==
  /\ \A c \in Clients : WF_allVars(Redis /\ (Connected(c) \/ ConnectFails(c)) /\ Elsewhere)
  /\ \A r \in Reqs :
       /\ WF_allVars(DatabasePing(r, "up") \/ DatabasePing(r, "down"))
       /\ WF_allVars(Conclude(r))
       /\ WF_allVars(Checked(r) /\ FinishProbe(r))
       /\ WF_allVars(OnClose(r) /\ stage[r] = "written" /\ Elsewhere)
  /\ WF_allVars(OnApplicationShutdown /\ Elsewhere)
  /\ WF_allVars(Disconnect /\ Elsewhere) /\ WF_allVars(Exit /\ Elsewhere)

HealthFairSpec == HealthSpec /\ HealthFairness

-----------------------------------------------------------------------------
HealthTypeOK ==
  /\ dbUp \in BOOLEAN
  /\ probe \in [Reqs -> Probe]
  /\ report \in [Reqs -> {"none", "ok", "error", "shutting_down"}]
  /\ gauge \in [{"database", "shutdown"} -> {"unset", "up", "down"}]
  /\ wavered \in BOOLEAN

(* The gauge of the database is current when no scrape is under way and    *)
(* the database neither changed nor was slow since the last scrapes that   *)
(* overlap began: overlapping scrapes finish in any order, and a check     *)
(* that fails throws instead of returning.                                 *)
GaugeIsCurrent ==
  proc # "exited" /\ ~wavered /\ (\A r \in Reqs : ~Scraping(r)) =>
    gauge["database"] = IF dbUp THEN "up" ELSE "down"

(* The shutdown check of ShutdownHealthService never says down to a client *)
(* that waits for the answer, or in the gauge: when its flag is set, only  *)
(* handlers whose client has left still run.                               *)
ShutdownUnseen ==
  /\ gauge["shutdown"] # "down"
  /\ \A r \in Reqs : probe[r].shutdown = "down" => stage[r] = "left"

(* A request waits for what nothing bounds: a guard, a handler that is not *)
(* a check, or the answer to a ping that a connected client has sent.      *)
Unbounded(r) ==
  /\ stage[r] = "handling"
  /\ \/ probe[r].path \in {"other", "metrics"}
     \/ probe[r].database = "skipped"
     \/ \E c \in Clients : probe[r].redis[c] = "sent"
HeldUp ==
  \/ \E r \in Reqs : Unbounded(r)
  \/ proc = "releasing" /\ \E c \in Clients : quit[c] = "sent"

(* Only that holds a shutdown up.  Neither a database nor a Redis that is  *)
(* down does, nor a quit that is rejected, nor a client that went away.    *)
ShutdownHeldUp == <>[]HeldUp \/ (proc = "closing" ~> proc = "exited")
=============================================================================
