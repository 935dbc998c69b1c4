---------------------------- MODULE HealthProofs ----------------------------
(***************************************************************************)
(* What a shutdown guarantees, and what the health endpoints and the       *)
(* health gauge show meanwhile, for any number of requests, probes, Redis  *)
(* clients and retries.                                                    *)
(***************************************************************************)
EXTENDS Health, FiniteSetTheorems, TLAPS

USE RetriesAssumption

(* A client that has used up its retries is ended: retryStrategy is never  *)
(* asked about more than one attempt past the bound.                       *)
EndedWhenSpent == \A c \in Clients : attempts[c] > MaxRetries => status[c] = "end"
RedisInv == RedisTypeOK /\ EndedWhenSpent

LEMMA ClosedTypes ==
  ASSUME RedisInv, NEW c \in Clients, status[c] # "end", Closed(c), serverUp' \in BOOLEAN
  PROVE  RedisInv'
<1>1. attempts[c] \in 0 .. MaxRetries
  BY DEF RedisInv, RedisTypeOK, EndedWhenSpent
<1>2. attempts' = [attempts EXCEPT ![c] = attempts[c] + 1]
  BY DEF Closed
<1>3. status' = [status EXCEPT ![c] = IF attempts[c] + 1 > MaxRetries THEN "end" ELSE "connecting"]
  BY DEF Closed, GivesUp
<1>4. RedisTypeOK'
  BY <1>1, <1>2, <1>3 DEF RedisInv, RedisTypeOK
<1>5. EndedWhenSpent'
  BY <1>1, <1>2, <1>3 DEF RedisInv, RedisTypeOK, EndedWhenSpent
<1> QED BY <1>4, <1>5 DEF RedisInv

LEMMA RedisNextTypes ==
  ASSUME RedisInv, RedisNext PROVE RedisInv'
<1>1. ASSUME NEW c \in Clients, Connected(c) PROVE RedisInv'
  BY <1>1 DEF RedisInv, RedisTypeOK, EndedWhenSpent, Connected
<1>2. ASSUME NEW c \in Clients, ConnectFails(c) \/ Lost(c) PROVE RedisInv'
  <2>1. Closed(c) /\ serverUp' = serverUp /\ status[c] # "end"
    BY <1>2 DEF ConnectFails, Lost
  <2> QED BY <2>1, ClosedTypes DEF RedisInv, RedisTypeOK
<1>3. CASE ServerStops \/ ServerStarts
  BY <1>3 DEF RedisInv, RedisTypeOK, EndedWhenSpent, ServerStops, ServerStarts
<1> QED BY <1>1, <1>2, <1>3 DEF RedisNext

(* Every variable keeps its type, whatever order requests, Redis and the   *)
(* shutdown take.                                                          *)
THEOREM TypeCorrect == Spec => []TypeOK
<1> DEFINE Inv == TypeOK /\ EndedWhenSpent
<1>1. Init => Inv
  BY DEF Init, RedisInit, TypeOK, RedisTypeOK, EndedWhenSpent
<1>2. Inv /\ [Next]_vars => Inv'
  <2> SUFFICES ASSUME Inv, [Next]_vars PROVE Inv'
    OBVIOUS
  <2>0. RedisInv
    BY DEF RedisInv, TypeOK
  <2>1. ASSUME UNCHANGED redisVars PROVE RedisInv'
    BY <2>0, <2>1 DEF RedisInv, RedisTypeOK, EndedWhenSpent, redisVars
  <2>2. ASSUME NEW r \in Reqs, Receive(r) \/ OnFinish(r) \/ OnClose(r) PROVE Inv'
    BY <2>1, <2>2 DEF Receive, OnFinish, OnClose, Move, release, RedisInv, TypeOK
  <2>3. CASE Sigterm \/ Exit
    BY <2>1, <2>3 DEF Sigterm, Exit, requests, release, RedisInv, TypeOK
  <2>4. CASE OnApplicationShutdown
    BY <2>1, <2>4 DEF OnApplicationShutdown, requests, RedisInv, TypeOK
  <2>5. CASE Disconnect
    BY <2>1, <2>5 DEF Disconnect, requests, RedisInv, TypeOK
  <2>6. ASSUME NEW c \in Clients, NEW fate \in {"ok", "failed"}, Quits(c, fate) PROVE Inv'
    BY <2>6 DEF Quits, requests, RedisTypeOK, EndedWhenSpent, TypeOK
  <2>7. ASSUME NEW c \in Clients, QuitOk(c) \/ QuitFails(c) PROVE Inv'
    BY <2>6, <2>7 DEF QuitOk, QuitFails
  <2>8. CASE Redis
    BY <2>0, <2>8, RedisNextTypes DEF Redis, requests, release, RedisInv, TypeOK
  <2>9. CASE UNCHANGED vars
    BY <2>1, <2>9 DEF vars, requests, release, RedisInv, TypeOK
  <2> QED BY <2>2, <2>3, <2>4, <2>5, <2>7, <2>8, <2>9 DEF Next
<1>3. Inv => TypeOK
  OBVIOUS
<1> QED BY <1>1, <1>2, <1>3, PTL DEF Spec

-----------------------------------------------------------------------------
(* The order of the hooks: past HookDue no response is under way, before   *)
(* it nothing is released.                                                 *)
Drained == \A r \in Reqs : stage[r] \notin {"handling", "written"}
Untouched == prisma = "connected" /\ \A c \in Clients : quit[c] = "none"
HookOrder ==
  /\ proc \in {"releasing", "exited"} => Drained
  /\ proc \in {"running", "closing"} => Untouched
ReleaseInv == TypeOK /\ HookOrder

LEMMA HookOrderStep ==
  ASSUME TypeOK, HookOrder, [Next]_vars PROVE HookOrder'
<1> USE DEF HookOrder, Drained, Untouched, TypeOK
<1>1. ASSUME NEW r \in Reqs, Receive(r) PROVE HookOrder'
  <2>1. proc = "running" /\ proc' = "running" /\ UNCHANGED release
    BY <1>1 DEF Receive
  <2> QED BY <2>1 DEF release
<1>2. ASSUME NEW r \in Reqs, OnFinish(r) \/ OnClose(r) PROVE HookOrder'
  <2>1. stage[r] \in {"handling", "written"} /\ UNCHANGED <<proc, release>>
    BY <1>2 DEF OnFinish, OnClose, Move
  <2>2. proc \notin {"releasing", "exited"}
    BY <2>1
  <2> QED BY <2>1, <2>2 DEF release
<1>3. CASE Sigterm
  BY <1>3 DEF Sigterm, requests, release
<1>4. CASE OnApplicationShutdown
  BY <1>4 DEF OnApplicationShutdown, HookDue, requests
<1>6. CASE Exit
  BY <1>6 DEF Exit, requests, release
<1>7. CASE Disconnect
  BY <1>7 DEF Disconnect, requests
<1>8. ASSUME NEW c \in Clients, QuitOk(c) \/ QuitFails(c) PROVE HookOrder'
  <2>1. proc = "releasing" /\ UNCHANGED <<proc, requests>>
    BY <1>8 DEF QuitOk, QuitFails, Quits
  <2> QED BY <2>1 DEF requests
<1>9. CASE Redis \/ UNCHANGED vars
  BY <1>9 DEF Redis, vars, requests, release
<1> QED BY <1>1, <1>2, <1>3, <1>4, <1>6, <1>7, <1>8, <1>9 DEF Next

(* No client that still waits for its answer loses the database or Redis,  *)
(* for any number of requests: nothing is released while one is handled.   *)
THEOREM AnsweredBeforeReleaseHolds == Spec => []AnsweredBeforeRelease
<1>1. Init => HookOrder
  BY DEF Init, HookOrder, Drained, Untouched
<1>2. TypeOK /\ HookOrder /\ [Next]_vars => HookOrder'
  BY HookOrderStep
<1>3. TypeOK /\ HookOrder => AnsweredBeforeRelease
  BY DEF TypeOK, HookOrder, Drained, Untouched, AnsweredBeforeRelease, InFlight
<1> QED BY <1>1, <1>2, <1>3, TypeCorrect, PTL DEF Spec

-----------------------------------------------------------------------------
(* The counter never exceeds the requests in flight: each adds one and     *)
(* takes at least one away.                                                *)
CountBound ==
  /\ IsFiniteSet(InFlight)
  /\ active <= Cardinality(InFlight)

LEMMA CountBoundStep ==
  ASSUME TypeOK, CountBound, [Next]_vars PROVE CountBound'
<1> USE DEF CountBound
<1>0. Cardinality(InFlight) \in Nat /\ active \in Int
  BY FS_CardinalityType DEF TypeOK
<1>1. ASSUME NEW r \in Reqs, Receive(r) PROVE CountBound'
  <2>1. InFlight' = InFlight \cup {r} /\ r \notin InFlight /\ active' = active + 1
    BY <1>1 DEF TypeOK, Receive, Move, InFlight
  <2>2. IsFiniteSet(InFlight') /\ Cardinality(InFlight') = Cardinality(InFlight) + 1
    BY <2>1, FS_AddElement
  <2> QED BY <1>0, <2>1, <2>2
<1>2. ASSUME NEW r \in Reqs, OnFinish(r) \/ OnClose(r) PROVE CountBound'
  <2>1. InFlight' = InFlight \ {r} /\ active' = active - 1
    BY <1>2 DEF TypeOK, OnFinish, OnClose, Move, InFlight
  <2>2. IsFiniteSet(InFlight') /\ Cardinality(InFlight') >= Cardinality(InFlight) - 1
    <3>1. CASE r \in InFlight
      BY <1>0, <2>1, <3>1, FS_RemoveElement
    <3>2. CASE r \notin InFlight
      <4>1. InFlight' = InFlight
        BY <2>1, <3>2
      <4> QED BY <1>0, <4>1
    <3> QED BY <3>1, <3>2
  <2>3. Cardinality(InFlight') \in Nat
    BY <2>2, FS_CardinalityType
  <2> QED BY <1>0, <2>1, <2>2, <2>3
<1>3. ASSUME UNCHANGED requests PROVE CountBound'
  BY <1>3 DEF requests, InFlight
<1>4. CASE Sigterm \/ OnApplicationShutdown \/ Disconnect \/ Exit \/ Redis
  BY <1>3, <1>4 DEF Sigterm, OnApplicationShutdown, Disconnect, Exit, Redis, requests
<1>5. ASSUME NEW c \in Clients, QuitOk(c) \/ QuitFails(c) PROVE CountBound'
  BY <1>3, <1>5 DEF QuitOk, QuitFails, Quits, requests
<1>6. CASE UNCHANGED vars
  BY <1>3, <1>6 DEF vars, requests
<1> QED BY <1>1, <1>2, <1>4, <1>5, <1>6 DEF Next

(* The counter is positive only while a client waits for its answer: no    *)
(* request leaks a count, not even one whose client went away.             *)
THEOREM PositiveMeansActiveHolds == Spec => []PositiveMeansActive
<1>1. Init => CountBound
  <2> SUFFICES ASSUME Init PROVE CountBound
    OBVIOUS
  <2>1. InFlight = {} /\ active = 0
    BY DEF Init, InFlight
  <2> QED BY <2>1, FS_EmptySet DEF CountBound
<1>2. TypeOK /\ CountBound /\ [Next]_vars => CountBound'
  BY CountBoundStep
<1>3. TypeOK /\ CountBound => PositiveMeansActive
  <2> SUFFICES ASSUME TypeOK, CountBound, active > 0 PROVE InFlight # {}
    BY DEF PositiveMeansActive
  <2>1. active \in Int /\ active <= Cardinality(InFlight)
    BY DEF TypeOK, CountBound
  <2>2. InFlight = {} => Cardinality(InFlight) = 0
    BY FS_EmptySet
  <2> QED BY <2>1, <2>2
<1> QED BY <1>1, <1>2, <1>3, TypeCorrect, PTL DEF Spec

-----------------------------------------------------------------------------
(* The health endpoints.                                                   *)

(* A probe is a request of Shutdown with more state: what Shutdown does    *)
(* not see of it changes nothing there.                                    *)
LEMMA HealthStepImplements == [HealthNext]_allVars => [Next]_vars
<1> SUFFICES ASSUME [HealthNext]_allVars PROVE [Next]_vars
  OBVIOUS
<1>1. ASSUME NEW r \in Reqs, ReceiveProbe(r) \/ FinishProbe(r) PROVE Next
  <2>1. Receive(r) \/ OnFinish(r)
    BY <1>1 DEF ReceiveProbe, FinishProbe
  <2> QED BY <2>1 DEF Next
<1>2. ASSUME NEW r \in Reqs,
             \/ StartChecks(r) \/ Conclude(r)
             \/ DatabasePing(r, "up") \/ DatabasePing(r, "down")
             \/ \E c \in Clients : RedisPong(r, c)
      PROVE  UNCHANGED vars
  BY <1>2 DEF StartChecks, Conclude, DatabasePing, RedisPong
<1>3. CASE DatabaseChanges
  BY <1>3 DEF DatabaseChanges
<1>4. CASE ProcessStep
  BY <1>4 DEF ProcessStep, Next
<1>5. CASE UNCHANGED allVars
  BY <1>5 DEF allVars
<1> QED BY <1>1, <1>2, <1>3, <1>4, <1>5 DEF HealthNext

(* The process with its probes implements the process without: a shutdown  *)
(* is what it is whoever watches it.                                       *)
THEOREM ImplementsShutdown == HealthSpec => Spec
<1>1. HealthInit => Init
  BY DEF HealthInit
<1> QED BY <1>1, HealthStepImplements, PTL DEF HealthSpec, Spec

-----------------------------------------------------------------------------
LEMMA ProbeTypes ==
  ASSUME NEW path \in Paths
  PROVE  Started(path) \in Probe /\ Unchecked(path) \in Probe
<1>1. [c \in Clients |-> IF path # "health/deps" THEN "skipped"
                         ELSE IF status[c] = "ready" THEN "sent" ELSE "rejected"]
        \in [Clients -> {"skipped", "sent", "pong", "rejected"}]
  OBVIOUS
<1>2. Started(path) \in Probe
  BY <1>1 DEF Started, ShutdownCheck, Probe
<1>3. Unchecked(path) \in Probe
  BY DEF Unchecked, Probe
<1> QED BY <1>2, <1>3

(* The rest of the process changes of a probe no more than its pings.      *)
LEMMA LostPingsFrame ==
  ASSUME HealthTypeOK, LostPings
  PROVE  /\ probe' \in [Reqs -> Probe]
         /\ \A r \in Reqs : /\ probe'[r].path = probe[r].path
                            /\ probe'[r].database = probe[r].database
                            /\ probe'[r].shutdown = probe[r].shutdown
<1> SUFFICES ASSUME NEW r \in Reqs
             PROVE  /\ probe'[r] \in Probe
                    /\ probe'[r].path = probe[r].path
                    /\ probe'[r].database = probe[r].database
                    /\ probe'[r].shutdown = probe[r].shutdown
  BY DEF LostPings
<1> DEFINE pings == [c \in Clients |-> IF probe[r].redis[c] = "sent" /\ status'[c] # "ready"
                                       THEN "rejected" ELSE probe[r].redis[c]]
<1>1. probe'[r] = [probe[r] EXCEPT !.redis = pings]
  BY DEF LostPings
<1>2. probe[r] \in Probe
  BY DEF HealthTypeOK
<1>3. pings \in [Clients -> {"skipped", "sent", "pong", "rejected"}]
  BY <1>2 DEF Probe
<1> HIDE DEF pings
<1> QED BY <1>1, <1>2, <1>3 DEF Probe

(* A scrape has its checks started with it, before a shutdown may be seen. *)
ScrapesChecked ==
  \A r \in Reqs : probe[r].path = "metrics" =>
    probe[r].database # "skipped" /\ probe[r].shutdown = "up"

ProbeInv == HealthTypeOK /\ ScrapesChecked

LEMMA ProbeStep ==
  ASSUME ProbeInv, [HealthNext]_allVars PROVE ProbeInv'
<1> USE DEF ProbeInv, ScrapesChecked
<1>0. HealthTypeOK
  OBVIOUS
<1>1. ASSUME NEW r \in Reqs, ReceiveProbe(r) PROVE ProbeInv'
  <2>1. PICK path \in Paths :
          /\ probe' = [probe EXCEPT ![r] = IF path = "metrics" THEN Started(path) ELSE Unchecked(path)]
          /\ wavered' = (wavered /\ (path # "metrics" \/ \E o \in Reqs : Scraping(o)))
    BY <1>1 DEF ReceiveProbe
  <2>2. proc \in {"running", "closing"}
    BY <1>1 DEF ReceiveProbe, Receive
  <2>3. /\ Started(path).path = path /\ Started(path).database = "pending"
        /\ path = "metrics" => Started(path).shutdown = "up"
    BY <2>2 DEF Started, ShutdownCheck, IsShuttingDown
  <2>4. Unchecked(path).path = path
    BY DEF Unchecked
  <2>5. probe' \in [Reqs -> Probe]
    BY <2>1, ProbeTypes DEF HealthTypeOK
  <2>6. wavered' \in BOOLEAN
    BY <2>1 DEF HealthTypeOK
  <2>7. HealthTypeOK'
    BY <1>1, <2>5, <2>6 DEF ReceiveProbe, HealthTypeOK
  <2>8. probe'[r].path = "metrics" => probe'[r].database # "skipped" /\ probe'[r].shutdown = "up"
    BY <2>1, <2>3, <2>4 DEF HealthTypeOK
  <2>9. \A q \in Reqs : q # r => probe'[q] = probe[q]
    BY <2>1 DEF HealthTypeOK
  <2> QED BY <2>7, <2>8, <2>9
<1>2. ASSUME NEW r \in Reqs, StartChecks(r) PROVE ProbeInv'
  <2>1. Started(probe[r].path) \in Probe /\ Started(probe[r].path).path = probe[r].path
    BY ProbeTypes DEF HealthTypeOK, Probe, Started
  <2>2. probe' = [probe EXCEPT ![r] = Started(probe[r].path)] /\ probe[r].path # "metrics"
    BY <1>2 DEF StartChecks
  <2>3. HealthTypeOK'
    BY <1>2, <2>1, <2>2 DEF StartChecks, HealthTypeOK
  <2> QED BY <2>1, <2>2, <2>3 DEF HealthTypeOK
<1>3. ASSUME NEW r \in Reqs, NEW result \in {"up", "down"}, DatabasePing(r, result)
      PROVE  ProbeInv'
  <2>1. probe[r] \in Probe
    BY DEF HealthTypeOK
  <2>2. /\ [probe[r] EXCEPT !.database = result] \in Probe
        /\ [probe[r] EXCEPT !.database = result].path = probe[r].path
        /\ [probe[r] EXCEPT !.database = result].shutdown = probe[r].shutdown
        /\ [probe[r] EXCEPT !.database = result].database = result
    BY <2>1 DEF Probe
  <2>3. probe' = [probe EXCEPT ![r] = [probe[r] EXCEPT !.database = result]]
    BY <1>3 DEF DatabasePing
  <2>4. wavered' \in BOOLEAN
    BY <1>3 DEF DatabasePing, HealthTypeOK
  <2>5. HealthTypeOK'
    BY <1>3, <2>2, <2>3, <2>4 DEF DatabasePing, HealthTypeOK
  <2> QED BY <2>2, <2>3, <2>5 DEF HealthTypeOK
<1>4. ASSUME NEW r \in Reqs, NEW c \in Clients, RedisPong(r, c) PROVE ProbeInv'
  <2>1. probe[r] \in Probe
    BY DEF HealthTypeOK
  <2> DEFINE answered == [probe[r] EXCEPT !.redis = [probe[r].redis EXCEPT ![c] = "pong"]]
  <2>2. /\ answered \in Probe /\ answered.path = probe[r].path
        /\ answered.database = probe[r].database /\ answered.shutdown = probe[r].shutdown
    BY <2>1 DEF Probe
  <2>3. probe' = [probe EXCEPT ![r] = answered]
    BY <1>4 DEF RedisPong
  <2> HIDE DEF answered
  <2>4. HealthTypeOK'
    BY <1>4, <2>2, <2>3 DEF RedisPong, HealthTypeOK
  <2> QED BY <2>2, <2>3, <2>4 DEF HealthTypeOK
<1>5. ASSUME NEW r \in Reqs, Conclude(r) PROVE ProbeInv'
  <2>1. Status(r) \in {"ok", "error", "shutting_down"}
    BY DEF Status
  <2>2. probe[r].database \in {"up", "down"}
    BY <1>5 DEF Conclude, ChecksSettled
  <2>3. Scraping(r) => probe[r].shutdown = "up"
    BY DEF Scraping
  <2>4. gauge' \in [{"database", "shutdown"} -> {"unset", "up", "down"}]
    BY <1>5, <2>2, <2>3 DEF Conclude, Details, HealthTypeOK
  <2> QED BY <1>5, <2>1, <2>4 DEF Conclude, HealthTypeOK
<1>6. ASSUME LostPings, UNCHANGED <<dbUp, report, gauge, wavered>> PROVE ProbeInv'
  BY <1>0, <1>6, LostPingsFrame DEF HealthTypeOK
<1>7. ASSUME NEW r \in Reqs, FinishProbe(r) PROVE ProbeInv'
  BY <1>6, <1>7 DEF FinishProbe, Elsewhere
<1>8. CASE DatabaseChanges
  BY <1>8 DEF DatabaseChanges, HealthTypeOK
<1>9. CASE ProcessStep /\ Elsewhere
  BY <1>6, <1>9 DEF Elsewhere
<1>10. CASE UNCHANGED allVars
  BY <1>10 DEF allVars, healthVars, HealthTypeOK
<1> HIDE DEF ProbeInv
<1> QED BY <1>1, <1>2, <1>3, <1>4, <1>5, <1>7, <1>8, <1>9, <1>10 DEF HealthNext

LEMMA ProbeInit == HealthInit => ProbeInv
<1> SUFFICES ASSUME HealthInit PROVE ProbeInv
  OBVIOUS
<1>1. Unchecked("other") \in Probe /\ Unchecked("other").path = "other"
  BY ProbeTypes DEF Paths, Unchecked
<1> QED BY <1>1 DEF HealthInit, ProbeInv, HealthTypeOK, ScrapesChecked

(* The probes and the gauge keep their types: a scrape never puts a check  *)
(* that has not run into the gauge.                                        *)
THEOREM HealthTypeCorrect == HealthSpec => []HealthTypeOK
<1>1. ProbeInv => HealthTypeOK
  BY DEF ProbeInv
<1> QED BY <1>1, ProbeInit, ProbeStep, PTL DEF HealthSpec

-----------------------------------------------------------------------------
(* ShutdownUnseen: once IsShuttingDown, what still runs has lost its       *)
(* client.                                                                 *)
LEMMA StagesAdvance ==
  ASSUME TypeOK, [Next]_vars, NEW r \in Reqs
  PROVE  /\ stage[r] = "left" => stage'[r] = "left"
         /\ stage'[r] # stage[r] => stage[r] \in {"none", "handling", "written"}
BY DEF TypeOK, Next, Receive, OnFinish, OnClose, Move, Sigterm, OnApplicationShutdown,
       Disconnect, QuitOk, QuitFails, Quits, Exit, Redis, vars, requests

LEMMA ShutdownUnseenStep ==
  ASSUME TypeOK, HookOrder, ProbeInv, ShutdownUnseen, [HealthNext]_allVars
  PROVE  ShutdownUnseen'
<1> USE DEF ShutdownUnseen
<1>0. HealthTypeOK /\ ScrapesChecked
  BY DEF ProbeInv
<1>a. \A r \in Reqs : stage[r] = "left" => stage'[r] = "left"
  BY HealthStepImplements, StagesAdvance
<1>1. ASSUME NEW r \in Reqs, ReceiveProbe(r) PROVE ShutdownUnseen'
  <2>1. PICK path \in Paths :
          probe' = [probe EXCEPT ![r] = IF path = "metrics" THEN Started(path) ELSE Unchecked(path)]
    BY <1>1 DEF ReceiveProbe
  <2>2. proc = "running"
    BY <1>1 DEF ReceiveProbe, Receive
  <2>3. Started(path).shutdown # "down" /\ Unchecked(path).shutdown # "down"
    BY <2>2 DEF Started, Unchecked, ShutdownCheck, IsShuttingDown
  <2>4. probe'[r].shutdown # "down" /\ \A q \in Reqs : q # r => probe'[q] = probe[q]
    BY <1>0, <2>1, <2>3 DEF HealthTypeOK
  <2>5. gauge' = gauge
    BY <1>1 DEF ReceiveProbe
  <2> QED BY <1>a, <2>4, <2>5
<1>2. ASSUME NEW r \in Reqs, StartChecks(r) PROVE ShutdownUnseen'
  <2>1. probe' = [probe EXCEPT ![r] = Started(probe[r].path)]
        /\ gauge' = gauge /\ stage' = stage /\ stage[r] \in {"handling", "left"}
    BY <1>2 DEF StartChecks, Running, vars, requests
  <2>2. probe'[r].shutdown = "down" => IsShuttingDown
    BY <1>0, <2>1 DEF HealthTypeOK, Started, ShutdownCheck
  <2>3. IsShuttingDown => stage[r] = "left"
    BY <2>1 DEF IsShuttingDown, HookOrder, Drained
  <2>4. \A q \in Reqs : q # r => probe'[q] = probe[q]
    BY <1>0, <2>1 DEF HealthTypeOK
  <2> QED BY <2>1, <2>2, <2>3, <2>4
<1>3. ASSUME \A r \in Reqs : probe'[r].shutdown = probe[r].shutdown, gauge' = gauge
      PROVE  ShutdownUnseen'
  BY <1>3, <1>a
<1>4. ASSUME NEW r \in Reqs, NEW result \in {"up", "down"}, DatabasePing(r, result)
      PROVE  ShutdownUnseen'
  <2>1. probe' = [probe EXCEPT ![r] = [probe[r] EXCEPT !.database = result]] /\ gauge' = gauge
    BY <1>4 DEF DatabasePing
  <2>2. [probe[r] EXCEPT !.database = result].shutdown = probe[r].shutdown
    BY <1>0 DEF HealthTypeOK, Probe
  <2> QED BY <1>0, <1>3, <2>1, <2>2 DEF HealthTypeOK
<1>5. ASSUME NEW r \in Reqs, NEW c \in Clients, RedisPong(r, c) PROVE ShutdownUnseen'
  <2>1. probe' = [probe EXCEPT ![r] = [probe[r] EXCEPT !.redis = [probe[r].redis EXCEPT ![c] = "pong"]]]
        /\ gauge' = gauge
    BY <1>5 DEF RedisPong
  <2>2. [probe[r] EXCEPT !.redis = [probe[r].redis EXCEPT ![c] = "pong"]].shutdown = probe[r].shutdown
    BY <1>0 DEF HealthTypeOK, Probe
  <2> QED BY <1>0, <1>3, <2>1, <2>2 DEF HealthTypeOK
<1>6. ASSUME NEW r \in Reqs, Conclude(r) PROVE ShutdownUnseen'
  <2>1. gauge' = (IF Scraping(r) THEN Details(r) ELSE gauge) /\ UNCHANGED <<vars, probe>>
    BY <1>6 DEF Conclude
  <2>2. Scraping(r) => Details(r)["shutdown"] = "up"
    BY <1>0 DEF Scraping, Details, ScrapesChecked
  <2>3. gauge'["shutdown"] # "down"
    BY <2>1, <2>2
  <2> QED BY <1>a, <2>1, <2>3
<1>7. ASSUME LostPings, gauge' = gauge PROVE ShutdownUnseen'
  BY <1>0, <1>3, <1>7, LostPingsFrame
<1>8. ASSUME NEW r \in Reqs, FinishProbe(r) PROVE ShutdownUnseen'
  BY <1>7, <1>8 DEF FinishProbe, Elsewhere
<1>9. CASE DatabaseChanges
  BY <1>3, <1>9 DEF DatabaseChanges
<1>10. CASE ProcessStep /\ Elsewhere
  BY <1>7, <1>10 DEF Elsewhere
<1>11. CASE UNCHANGED allVars
  BY <1>3, <1>11 DEF allVars, healthVars
<1> HIDE DEF ShutdownUnseen
<1> QED BY <1>1, <1>2, <1>4, <1>5, <1>6, <1>8, <1>9, <1>10, <1>11 DEF HealthNext

(* Nobody who waits, and no scrape, is ever told that the process shuts    *)
(* down: onApplicationShutdown sets the flag when all connections are over. *)
THEOREM ShutdownUnseenHolds == HealthSpec => []ShutdownUnseen
<1>1. HealthInit => ShutdownUnseen
  BY DEF HealthInit, ShutdownUnseen, Unchecked
<1>2. Init => HookOrder
  BY DEF Init, HookOrder, Drained, Untouched
<1>3. TypeOK /\ HookOrder /\ [Next]_vars => HookOrder'
  BY HookOrderStep
<1>4. Spec => []HookOrder
  BY <1>2, <1>3, TypeCorrect, PTL DEF Spec
<1>5. TypeOK /\ HookOrder /\ ProbeInv /\ ShutdownUnseen /\ [HealthNext]_allVars => ShutdownUnseen'
  BY ShutdownUnseenStep
<1> QED BY <1>1, <1>4, <1>5, ImplementsShutdown, TypeCorrect, ProbeInit, ProbeStep, PTL
        DEF HealthSpec

-----------------------------------------------------------------------------
(* GaugeIsCurrent: since the batch began, every scrape that is still under *)
(* way has seen nothing but the present state of the database, and so will *)
(* the one that ends last.                                                 *)
Current == IF dbUp THEN "up" ELSE "down"

Fresh ==
  ~wavered =>
    /\ \A r \in Reqs : Scraping(r) => probe[r].database \in {"pending", Current}
    /\ proc # "exited" /\ (\A r \in Reqs : ~Scraping(r)) => gauge["database"] = Current

Unreported == \A r \in Reqs : stage[r] = "none" => report[r] = "none"

GaugeInv == Fresh /\ Unreported

(* What the process does starts and ends no scrape, unless it exits.       *)
LEMMA ScrapesStay ==
  ASSUME TypeOK, HealthTypeOK, ProcessStep, Elsewhere
  PROVE  /\ proc # "exited"
         /\ proc' = "exited" \/ \A r \in Reqs : Scraping(r)' <=> Scraping(r)
<1>1. /\ \A r \in Reqs : probe'[r].path = probe[r].path
      /\ report' = report
  BY LostPingsFrame DEF Elsewhere
<1>2. ASSUME proc # "exited", proc' # "exited", stage' = stage
      PROVE  \A r \in Reqs : Scraping(r)' <=> Scraping(r)
  BY <1>1, <1>2 DEF Scraping, Running
<1>3. ASSUME NEW q \in Reqs, OnClose(q)
      PROVE  /\ proc # "exited" /\ proc' # "exited"
             /\ \A r \in Reqs : Scraping(r)' <=> Scraping(r)
  <2>1. proc # "exited" /\ proc' = proc
    BY <1>3 DEF OnClose
  <2>2. \A r \in Reqs : r # q => stage'[r] = stage[r]
    BY <1>3 DEF OnClose, Move, TypeOK
  <2>3. \/ stage[q] = "written" /\ stage'[q] = "over"
        \/ stage[q] = "handling" /\ stage'[q] = "left"
    BY <1>3 DEF OnClose, Move, TypeOK
  <2> QED BY <1>1, <2>1, <2>2, <2>3 DEF Scraping, Running
<1>4. ASSUME Sigterm \/ OnApplicationShutdown \/ Disconnect
      PROVE  proc # "exited" /\ proc' # "exited" /\ stage' = stage
  BY <1>4 DEF Sigterm, OnApplicationShutdown, Disconnect, requests
<1>5. ASSUME NEW c \in Clients, QuitOk(c) \/ QuitFails(c)
      PROVE  proc # "exited" /\ proc' # "exited" /\ stage' = stage
  BY <1>5 DEF QuitOk, QuitFails, Quits, requests
<1>6. CASE Exit
  BY <1>6 DEF Exit
<1>7. ASSUME Redis
      PROVE  proc # "exited" /\ proc' # "exited" /\ stage' = stage
  BY <1>7 DEF Redis, requests
<1> QED BY <1>2, <1>3, <1>4, <1>5, <1>6, <1>7 DEF ProcessStep

LEMMA UnreportedStep ==
  ASSUME TypeOK, HealthTypeOK, Unreported, [HealthNext]_allVars PROVE Unreported'
<1> SUFFICES ASSUME NEW q \in Reqs, stage'[q] = "none" PROVE report'[q] = "none"
  BY DEF Unreported
<1>1. stage[q] = "none"
  <2>1. stage'[q] # stage[q] => stage[q] \in {"none", "handling", "written"}
    BY HealthStepImplements, StagesAdvance
  <2>2. stage[q] \in {"handling", "written"} => stage'[q] # "none"
    BY HealthStepImplements
       DEF TypeOK, Next, Receive, OnFinish, OnClose, Move, Sigterm, OnApplicationShutdown,
           Disconnect, QuitOk, QuitFails, Quits, Exit, Redis, vars, requests
  <2> QED BY <2>1, <2>2
<1>2. report[q] = "none"
  BY <1>1 DEF Unreported
<1>3. ASSUME NEW r \in Reqs, Conclude(r) PROVE report'[q] = report[q]
  <2>1. r # q
    BY <1>1, <1>3 DEF Conclude, Running
  <2> QED BY <1>3, <2>1 DEF Conclude, HealthTypeOK
<1>4. ASSUME NEW r \in Reqs,
             \/ ReceiveProbe(r) \/ StartChecks(r) \/ FinishProbe(r)
             \/ DatabasePing(r, "up") \/ DatabasePing(r, "down")
             \/ \E c \in Clients : RedisPong(r, c)
      PROVE  report' = report
  BY <1>4 DEF ReceiveProbe, StartChecks, FinishProbe, Elsewhere, DatabasePing, RedisPong
<1>5. CASE DatabaseChanges \/ (ProcessStep /\ Elsewhere) \/ UNCHANGED allVars
  BY <1>2, <1>5 DEF DatabaseChanges, Elsewhere, allVars, healthVars
<1> QED BY <1>2, <1>3, <1>4, <1>5 DEF HealthNext

LEMMA FreshStep ==
  ASSUME TypeOK, ProbeInv, GaugeInv, [HealthNext]_allVars PROVE Fresh'
<1>0. HealthTypeOK /\ ScrapesChecked /\ Fresh /\ Unreported
  BY DEF ProbeInv, GaugeInv
(* A step after which the same scrapes are under way, having seen the same *)
(* of the same database, with the same gauge.                              *)
<1>1. ASSUME \A r \in Reqs : Scraping(r)' <=> Scraping(r),
             \A r \in Reqs : probe'[r].database = probe[r].database,
             proc' # "exited" => proc # "exited",
             wavered' = wavered, dbUp' = dbUp, gauge' = gauge
      PROVE  Fresh'
  BY <1>0, <1>1 DEF Fresh, Current
<1>2. ASSUME NEW r \in Reqs, ReceiveProbe(r) PROVE Fresh'
  <2>1. PICK path \in Paths :
          /\ probe' = [probe EXCEPT ![r] = IF path = "metrics" THEN Started(path) ELSE Unchecked(path)]
          /\ wavered' = (wavered /\ (path # "metrics" \/ \E o \in Reqs : Scraping(o)))
    BY <1>2 DEF ReceiveProbe
  <2>2. /\ stage[r] = "none" /\ stage' = [stage EXCEPT ![r] = "handling"]
        /\ proc' = proc /\ proc # "exited"
        /\ UNCHANGED <<dbUp, report, gauge>>
    BY <1>2 DEF ReceiveProbe, Receive, Move
  <2>3. \A q \in Reqs \ {r} : (Scraping(q)' <=> Scraping(q)) /\ probe'[q] = probe[q]
    BY <1>0, <2>1, <2>2 DEF HealthTypeOK, TypeOK, Scraping, Running
  <2>4. ~Scraping(r)
    BY <2>2 DEF Scraping, Running
  <2>5. CASE path = "metrics"
    <3>1. probe'[r] = Started(path)
      BY <1>0, <2>1, <2>5 DEF HealthTypeOK
    <3>2. probe'[r].path = "metrics" /\ probe'[r].database = "pending"
      BY <2>5, <3>1 DEF Started
    <3>3. stage'[r] = "handling" /\ report'[r] = "none"
      BY <1>0, <2>2 DEF TypeOK, Unreported
    <3>4. Scraping(r)'
      BY <2>2, <3>2, <3>3 DEF Scraping, Running
    <3>5. ASSUME ~wavered', NEW q \in Reqs \ {r}, Scraping(q)'
          PROVE  probe'[q].database \in {"pending", Current'}
      <4>1. Scraping(q)
        BY <2>3, <3>5
      <4>2. ~wavered
        BY <2>1, <3>5, <4>1
      <4>3. probe[q].database \in {"pending", Current}
        BY <1>0, <4>1, <4>2 DEF Fresh
      <4>4. Current' = Current /\ probe'[q] = probe[q]
        BY <2>2, <2>3 DEF Current
      <4> QED BY <4>3, <4>4
    <3> QED BY <3>2, <3>4, <3>5 DEF Fresh
  <2>6. CASE path # "metrics"
    <3>1. probe'[r] = Unchecked(path)
      BY <1>0, <2>1, <2>6 DEF HealthTypeOK
    <3>2. ~Scraping(r)'
      BY <2>6, <3>1 DEF Scraping, Unchecked
    <3>3. wavered' = wavered
      BY <1>0, <2>1, <2>6 DEF HealthTypeOK
    <3> QED BY <1>0, <2>2, <2>3, <2>4, <3>2, <3>3 DEF Fresh, Current
  <2> QED BY <2>5, <2>6
<1>3. ASSUME NEW r \in Reqs, StartChecks(r) PROVE Fresh'
  <2>1. probe' = [probe EXCEPT ![r] = Started(probe[r].path)] /\ probe[r].path # "metrics"
    BY <1>3 DEF StartChecks
  <2>2. UNCHANGED <<proc, stage, dbUp, report, gauge, wavered>>
    BY <1>3 DEF StartChecks, vars, requests
  <2>3. probe'[r].path # "metrics" /\ \A q \in Reqs : q # r => probe'[q] = probe[q]
    BY <1>0, <2>1 DEF HealthTypeOK, Started
  <2>4. ~Scraping(r) /\ ~Scraping(r)' /\ \A q \in Reqs : q # r => (Scraping(q)' <=> Scraping(q))
    BY <2>1, <2>2, <2>3 DEF Scraping, Running
  <2> QED BY <1>0, <2>2, <2>3, <2>4 DEF Fresh, Current
<1>4. ASSUME NEW r \in Reqs, NEW result \in {"up", "down"}, DatabasePing(r, result)
      PROVE  Fresh'
  <2>1. probe' = [probe EXCEPT ![r] = [probe[r] EXCEPT !.database = result]]
    BY <1>4 DEF DatabasePing
  <2>2. UNCHANGED <<proc, stage, dbUp, report, gauge>>
    BY <1>4 DEF DatabasePing, vars, requests
  <2>3. /\ probe'[r].path = probe[r].path /\ probe'[r].database = result
        /\ \A q \in Reqs : q # r => probe'[q] = probe[q]
    BY <1>0, <2>1 DEF HealthTypeOK, Probe
  <2>4. \A q \in Reqs : Scraping(q)' <=> Scraping(q)
    BY <2>2, <2>3 DEF Scraping, Running
  <2>5. ~wavered' => ~wavered /\ result = Current
    BY <1>4 DEF DatabasePing, Current
  <2> QED BY <1>0, <2>2, <2>3, <2>4, <2>5 DEF Fresh, Current
<1>5. ASSUME NEW r \in Reqs, NEW c \in Clients, RedisPong(r, c) PROVE Fresh'
  <2>1. probe' = [probe EXCEPT ![r] = [probe[r] EXCEPT !.redis = [probe[r].redis EXCEPT ![c] = "pong"]]]
    BY <1>5 DEF RedisPong
  <2>2. UNCHANGED <<proc, stage, dbUp, report, gauge, wavered>>
    BY <1>5 DEF RedisPong, vars, requests
  <2>3. \A q \in Reqs : probe'[q].path = probe[q].path /\ probe'[q].database = probe[q].database
    BY <1>0, <2>1 DEF HealthTypeOK, Probe
  <2>4. \A q \in Reqs : Scraping(q)' <=> Scraping(q)
    BY <2>2, <2>3 DEF Scraping, Running
  <2> QED BY <1>1, <2>2, <2>3, <2>4
<1>6. ASSUME NEW r \in Reqs, Conclude(r) PROVE Fresh'
  <2>1. /\ report' = [report EXCEPT ![r] = Status(r)]
        /\ gauge' = IF Scraping(r) THEN Details(r) ELSE gauge
        /\ UNCHANGED <<proc, stage, dbUp, probe, wavered>>
    BY <1>6 DEF Conclude, vars, requests
  <2>2. Running(r) /\ probe[r].database \in {"up", "down"}
    BY <1>6 DEF Conclude, ChecksSettled
  <2>3. Status(r) # "none" /\ report'[r] = Status(r)
    BY <1>0, <2>1 DEF Status, HealthTypeOK
  <2>4. ~Scraping(r)'
    BY <2>3 DEF Scraping, Running
  <2>5. \A q \in Reqs : q # r => (Scraping(q)' <=> Scraping(q))
    BY <1>0, <2>1 DEF Scraping, Running, HealthTypeOK
  <2>6. CASE Scraping(r)
    <3>1. ~wavered => probe[r].database = Current
      <4>1. ~wavered => probe[r].database \in {"pending", Current}
        BY <1>0, <2>6 DEF Fresh
      <4> QED BY <2>2, <4>1
    <3>2. gauge'["database"] = probe[r].database
      BY <2>1, <2>6 DEF Details
    <3> QED BY <1>0, <2>1, <2>4, <2>5, <3>1, <3>2 DEF Fresh, Current
  <2>7. CASE ~Scraping(r)
    BY <1>0, <2>1, <2>4, <2>5, <2>7 DEF Fresh, Current
  <2> QED BY <2>6, <2>7
<1>7. ASSUME NEW r \in Reqs, FinishProbe(r) PROVE Fresh'
  <2>1. /\ stage[r] = "handling" /\ stage' = [stage EXCEPT ![r] = "written"]
        /\ proc' = proc /\ proc # "exited"
        /\ UNCHANGED <<dbUp, report, gauge, wavered>>
        /\ probe[r].database # "skipped" => report[r] # "none"
    BY <1>7 DEF FinishProbe, OnFinish, Move, Elsewhere
  <2>2. \A q \in Reqs : probe'[q].path = probe[q].path /\ probe'[q].database = probe[q].database
    BY <1>0, <1>7, LostPingsFrame DEF FinishProbe, Elsewhere
  <2>3. ~Scraping(r)
    BY <1>0, <2>1 DEF Scraping, Running, ScrapesChecked
  <2>4. ~Scraping(r)'
    BY <2>1 DEF Scraping, Running, TypeOK
  <2>5. \A q \in Reqs : q # r => (Scraping(q)' <=> Scraping(q))
    BY <2>1, <2>2 DEF Scraping, Running, TypeOK
  <2> QED BY <1>1, <2>1, <2>2, <2>3, <2>4, <2>5
<1>8. CASE DatabaseChanges
  BY <1>8 DEF DatabaseChanges, Fresh
<1>9. CASE ProcessStep /\ Elsewhere
  <2>1. /\ \A q \in Reqs : probe'[q].database = probe[q].database
        /\ UNCHANGED <<dbUp, report, gauge, wavered>>
    BY <1>0, <1>9, LostPingsFrame DEF Elsewhere
  <2>2. CASE proc' = "exited"
    BY <2>2 DEF Fresh, Scraping, Running
  <2>3. CASE proc' # "exited"
    BY <1>0, <1>1, <1>9, <2>1, <2>3, ScrapesStay
  <2> QED BY <2>2, <2>3
<1>10. CASE UNCHANGED allVars
  <2>1. UNCHANGED <<proc, stage, dbUp, probe, report, gauge, wavered>>
    BY <1>10 DEF allVars, healthVars, vars, requests
  <2> QED BY <1>1, <2>1 DEF Scraping, Running
<1> QED BY <1>2, <1>3, <1>4, <1>5, <1>6, <1>7, <1>8, <1>9, <1>10 DEF HealthNext

(* The database's gauge is right whenever no scrape is under way and the   *)
(* database stood still since the batch began, in whichever order scrapes  *)
(* that overlap finish, and whether their checks failed or not.            *)
THEOREM GaugeIsCurrentHolds == HealthSpec => []GaugeIsCurrent
<1>1. HealthInit => GaugeInv
  BY DEF HealthInit, GaugeInv, Fresh, Unreported
<1>2. TypeOK /\ ProbeInv /\ GaugeInv /\ [HealthNext]_allVars => GaugeInv'
  <2> SUFFICES ASSUME TypeOK, ProbeInv, GaugeInv, [HealthNext]_allVars PROVE GaugeInv'
    OBVIOUS
  <2>1. Fresh'
    BY FreshStep
  <2>2. Unreported'
    BY UnreportedStep DEF ProbeInv, GaugeInv
  <2> QED BY <2>1, <2>2 DEF GaugeInv
<1>3. GaugeInv => GaugeIsCurrent
  BY DEF GaugeInv, Fresh, Current, GaugeIsCurrent
<1> QED BY <1>1, <1>2, <1>3, ImplementsShutdown, TypeCorrect, ProbeInit, ProbeStep, PTL
        DEF HealthSpec
=============================================================================
