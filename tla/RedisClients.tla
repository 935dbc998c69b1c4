---------------------------- MODULE RedisClients ----------------------------
(***************************************************************************)
(* The two ioredis clients of a process, CacheRedis and ThrottlerRedis,    *)
(* with the options of BaseRedisService: no offline queue, no retry of a   *)
(* command, and a retryStrategy that gives a client up for good.           *)
(***************************************************************************)
EXTENDS Naturals

CONSTANTS
  Clients,      \* cacheRedis and throttlerRedis
  MaxRetries    \* MAX_RETRIES, 0 in the test environment

ASSUME RetriesAssumption == MaxRetries \in Nat

VARIABLES
  serverUp,   \* the Redis server answers
  status,     \* Clients -> "connecting", "ready" or "end"
  attempts    \* Clients -> connections that failed or broke since the last ready

redisVars == <<serverUp, status, attempts>>

RedisTypeOK ==
  /\ serverUp \in BOOLEAN
  /\ status \in [Clients -> {"connecting", "ready", "end"}]
  /\ attempts \in [Clients -> 0 .. MaxRetries + 1]

RedisInit ==
  /\ serverUp \in BOOLEAN
  /\ status = [c \in Clients |-> "connecting"]
  /\ attempts = [c \in Clients |-> 0]

(* Mutant: one attempt too many.                                           *)
GivesUpLate(times) == times > MaxRetries + 1

(* retryStrategy(times) is null: ioredis ends the client.                  *)
GivesUp(times) == times > MaxRetries

(* Mutant: the attempts are not counted.                                   *)
ClosedUncounted(c) ==
  /\ status' = [status EXCEPT ![c] = IF GivesUp(1) THEN "end" ELSE "connecting"]
  /\ UNCHANGED attempts

(* The connection is closed, by the peer or because it could not be made.  *)
Closed(c) ==
  LET times == attempts[c] + 1 IN
    /\ attempts' = [attempts EXCEPT ![c] = times]
    /\ status' = [status EXCEPT ![c] = IF GivesUp(times) THEN "end" ELSE "connecting"]

Connected(c) ==
  /\ status[c] = "connecting"
  /\ serverUp
  /\ status' = [status EXCEPT ![c] = "ready"]
  /\ attempts' = [attempts EXCEPT ![c] = 0]
  /\ UNCHANGED serverUp

ConnectFails(c) ==
  /\ status[c] = "connecting"
  /\ ~serverUp
  /\ Closed(c)
  /\ UNCHANGED serverUp

Lost(c) ==
  /\ status[c] = "ready"
  /\ Closed(c)
  /\ UNCHANGED serverUp

ServerStops == serverUp /\ serverUp' = FALSE /\ UNCHANGED <<status, attempts>>
ServerStarts == ~serverUp /\ serverUp' = TRUE /\ UNCHANGED <<status, attempts>>

RedisNext ==
  \/ \E c \in Clients : Connected(c) \/ ConnectFails(c) \/ Lost(c)
  \/ ServerStops \/ ServerStarts
=============================================================================
