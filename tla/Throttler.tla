----------------------------- MODULE Throttler -----------------------------
(***************************************************************************)
(* Rate limiting: the ThrottlerGuard of every instance asks its            *)
(* ThrottlerStorage to count a call.  increment counts in Redis, shared by *)
(* all instances; when that throws, fallback counts in a Map of the        *)
(* instance.                                                               *)
(*                                                                         *)
(* fallback returns the record object that stays in the Map, and the guard *)
(* reads it only when its await resumes, after other calls may have        *)
(* changed it.  Objects of one client are told apart by timeToExpire,      *)
(* which every new record moves forward.                                   *)
(***************************************************************************)
EXTENDS Naturals

CONSTANTS
  Clients,        \* tracker keys, one per client and route
  Instances,      \* running processes of the server
  Calls,          \* slots for calls under way
  Ttl, Limit,     \* THROTTLE_TTL and THROTTLE_LIMIT, each 0 when it is blank
  BlockDuration,  \* the guard passes the ttl, the module configuring none
  MaxTime,        \* bound on the clock
  MaxArrivals     \* bound on the calls that arrive

ASSUME ThrottlerAssumption ==
  /\ Ttl \in Nat /\ Limit \in Nat /\ BlockDuration \in Nat /\ MaxTime \in Nat \ {0}
  /\ MaxArrivals \in Nat

VARIABLES
  now,       \* Date.now()
  arrivals,  \* calls that have arrived
  up,        \* Instances -> the throttler client is connected
  shared,    \* Clients -> the counter and block in Redis
  memory,    \* Instances -> Clients -> the record in the Map
  stage,     \* Calls -> "idle", "redis", "fallback" or "guard"
  caller,    \* Calls -> [instance, client]
  answer,    \* Calls -> the record the guard will read
  nth,       \* Calls -> its number in its window (history)
  counted,   \* Instances -> Clients -> window -> calls the fallback counted (history)
  admitted   \* Instances -> Clients -> window -> calls let through (history)

vars == <<now, arrivals, up, shared, memory, stage, caller, answer, nth, counted, admitted>>
history == <<counted, admitted>>

Time == 0 .. MaxTime + Ttl
Record ==
  [isBlocked : BOOLEAN, timeToBlockExpire : Nat, timeToExpire : Nat, totalHits : Nat]
NoRecord == [isBlocked |-> FALSE, timeToBlockExpire |-> 0, timeToExpire |-> 0, totalHits |-> 0]

Init ==
  /\ now = 1 /\ arrivals = 0
  /\ up \in [Instances -> BOOLEAN]
  /\ shared = [k \in Clients |-> [hits |-> 0, expires |-> 0, blockedUntil |-> 0]]
  /\ memory = [i \in Instances |-> [k \in Clients |-> NoRecord]]
  /\ stage = [c \in Calls |-> "idle"]
  /\ caller \in [Calls -> [instance : Instances, client : Clients]]
  /\ answer = [c \in Calls |-> NoRecord]
  /\ nth = [c \in Calls |-> 0]
  /\ counted = [i \in Instances |-> [k \in Clients |-> [w \in Time |-> 0]]]
  /\ admitted = counted

Goto(c, next) == stage' = [stage EXCEPT ![c] = next]

(* A request reaches the guard of an instance.                             *)
Arrive(c) ==
  /\ stage[c] = "idle"
  /\ arrivals < MaxArrivals
  /\ arrivals' = arrivals + 1
  /\ \E i \in Instances, k \in Clients : caller' = [caller EXCEPT ![c] = [instance |-> i, client |-> k]]
  /\ Goto(c, "redis")
  /\ UNCHANGED <<now, up, shared, memory, answer, nth, history>>

(* The script of the Redis storage: count, and block for BlockDuration     *)
(* when the count passes the limit.                                        *)
Script(k) ==
  LET r == shared[k]
      open == r.expires > now
      hits == IF open THEN r.hits + 1 ELSE 1
      expires == IF open THEN r.expires ELSE now + Ttl
      blocked == r.blockedUntil > now
  IN  [hits |-> hits, expires |-> expires,
       blockedUntil |-> IF ~blocked /\ hits > Limit THEN now + BlockDuration ELSE r.blockedUntil]

RedisIncrement(c) ==
  /\ stage[c] = "redis"
  /\ up[caller[c].instance]
  /\ LET k == caller[c].client
         r == Script(k)
     IN  /\ shared' = [shared EXCEPT ![k] = r]
         /\ answer' = [answer EXCEPT ![c] =
              [isBlocked |-> r.blockedUntil > now, timeToBlockExpire |-> r.blockedUntil,
               timeToExpire |-> 0, totalHits |-> r.hits]]
  /\ Goto(c, "guard")
  /\ UNCHANGED <<now, arrivals, up, memory, caller, nth, history>>

(* increment catches what Redis throws; the script may have run.           *)
RedisThrows(c) ==
  /\ stage[c] = "redis"
  /\ \/ ~up[caller[c].instance] /\ UNCHANGED <<up, shared>>
     \/ /\ up[caller[c].instance]
        /\ up' = [up EXCEPT ![caller[c].instance] = FALSE]
        /\ LET k == caller[c].client IN shared' \in {shared, [shared EXCEPT ![k] = Script(k)]}
  /\ Goto(c, "fallback")
  /\ UNCHANGED <<now, arrivals, memory, caller, answer, nth, history>>

-----------------------------------------------------------------------------
(* fallback runs to its end in one turn of the event loop.                 *)

Mine(c) == memory[caller[c].instance][caller[c].client]
Expired(r) == r.timeToExpire <= now
Held(r) == r.isBlocked /\ r.timeToBlockExpire > now

NewRecord ==
  [isBlocked |-> FALSE, timeToBlockExpire |-> 0, timeToExpire |-> now + Ttl, totalHits |-> 1]

(* Mutants: the answer counts down from the limit; the block starts one    *)
(* call late, or is given a duration for a time.                           *)
CountRemaining(r) == [r EXCEPT !.totalHits = Limit - (@ + 1)]
CountLate(r) ==
  [r EXCEPT !.totalHits = @ + 1, !.isBlocked = r.totalHits > Limit, !.timeToBlockExpire = now + BlockDuration]
CountDuration(r) ==
  [r EXCEPT !.totalHits = @ + 1, !.isBlocked = r.totalHits + 1 > Limit, !.timeToBlockExpire = BlockDuration]

(* A block that has run out gives the record a new count.                  *)
Count(r) ==
  LET hits == IF r.isBlocked THEN 1 ELSE r.totalHits + 1 IN
    [r EXCEPT !.totalHits = hits,
              !.isBlocked = hits > Limit,
              !.timeToBlockExpire = IF hits > Limit THEN now + BlockDuration ELSE @]

(* Guards that wait for the answer of the same object see its new content. *)
SameObject(c, d) ==
  d = c \/ /\ stage[d] = "guard"
           /\ caller[d] = caller[c]
           /\ answer[d].timeToExpire = Mine(c).timeToExpire

Return(c, r, holders) ==
  /\ memory' = [memory EXCEPT ![caller[c].instance][caller[c].client] = r]
  /\ answer' = [d \in Calls |-> IF d \in holders THEN r ELSE answer[d]]
  /\ nth' = [nth EXCEPT ![c] = r.totalHits]
  /\ counted' = [counted EXCEPT ![caller[c].instance][caller[c].client][r.timeToExpire] = @ + 1]
  /\ Goto(c, "guard")
  /\ UNCHANGED <<now, arrivals, up, shared, caller, admitted>>

(* Mutant: a record whose window has ended starts over, block and all.     *)
FallbackNewBlocked(c) ==
  /\ stage[c] = "fallback"
  /\ Expired(Mine(c))
  /\ Return(c, [Mine(c) EXCEPT !.timeToExpire = now + Ttl, !.totalHits = 1], {c})

FallbackNew(c) ==
  /\ stage[c] = "fallback"
  /\ Expired(Mine(c))
  /\ Return(c, NewRecord, {c})

FallbackBlocked(c) ==
  /\ stage[c] = "fallback"
  /\ ~Expired(Mine(c))
  /\ Held(Mine(c))
  /\ Return(c, Mine(c), {c})

FallbackCount(c) ==
  /\ stage[c] = "fallback"
  /\ ~Expired(Mine(c))
  /\ ~Held(Mine(c))
  /\ Return(c, Count(Mine(c)), {d \in Calls : SameObject(c, d)})

(* The guard's await resumes: it lets the call through or answers 429.     *)
Guard(c) ==
  /\ stage[c] = "guard"
  /\ LET at == caller[c]
         r == answer[c]
     IN  admitted' = IF r.isBlocked \/ r.timeToExpire = 0 THEN admitted
                     ELSE [admitted EXCEPT ![at.instance][at.client][r.timeToExpire] = @ + 1]
  /\ Goto(c, "idle")
  /\ answer' = [answer EXCEPT ![c] = NoRecord]
  /\ nth' = [nth EXCEPT ![c] = 0]
  /\ UNCHANGED <<now, arrivals, up, shared, memory, caller, counted>>

Reconnect(i) ==
  /\ ~up[i]
  /\ up' = [up EXCEPT ![i] = TRUE]
  /\ UNCHANGED <<now, arrivals, shared, memory, stage, caller, answer, nth, history>>

Tick ==
  /\ now < MaxTime
  /\ now' = now + 1
  /\ UNCHANGED <<arrivals, up, shared, memory, stage, caller, answer, nth, history>>

Next ==
  \/ \E c \in Calls :
       \/ Arrive(c) \/ RedisIncrement(c) \/ RedisThrows(c)
       \/ FallbackNew(c) \/ FallbackBlocked(c) \/ FallbackCount(c) \/ Guard(c)
  \/ \E i \in Instances : Reconnect(i)
  \/ Tick

Spec == Init /\ [][Next]_vars

-----------------------------------------------------------------------------
Stages == {"idle", "redis", "fallback", "guard"}

TypeOK ==
  /\ now \in Nat /\ arrivals \in Nat
  /\ up \in [Instances -> BOOLEAN]
  /\ shared \in [Clients -> [hits : Nat, expires : Nat, blockedUntil : Nat]]
  /\ memory \in [Instances -> [Clients -> Record]]
  /\ stage \in [Calls -> Stages]
  /\ caller \in [Calls -> [instance : Instances, client : Clients]]
  /\ answer \in [Calls -> Record]
  /\ nth \in [Calls -> Nat]
  /\ counted \in [Instances -> [Clients -> [Time -> Nat]]]
  /\ admitted \in [Instances -> [Clients -> [Time -> Nat]]]

(* The call that opens a window is let through whatever the limit is.      *)
Budget == IF Limit = 0 THEN 1 ELSE Limit

(* While Redis is out of reach each instance still limits a client: in one *)
(* window of Ttl it lets at most Limit of its calls through, and one when  *)
(* the limit is 0, however the calls interleave with the guards that read  *)
(* the shared record.                                                      *)
WindowBudget ==
  \A i \in Instances, k \in Clients, w \in Time : admitted[i][k][w] <= Budget

(* The fallback turns a call away only in a window that has counted more   *)
(* than Limit calls of the client on this instance.                        *)
RejectedIsOverLimit ==
  \A c \in Calls :
    stage[c] = "guard" /\ answer[c].timeToExpire > 0 /\ answer[c].isBlocked =>
      counted[caller[c].instance][caller[c].client][answer[c].timeToExpire] > Limit

(* A block lasts as long as the window it was set in, so the branch that   *)
(* resets a block in its window is never taken: a client is let through    *)
(* again only by a new window.  It rests on the guard passing the ttl for  *)
(* the block duration.                                                     *)
BlockOutlivesWindow ==
  \A i \in Instances, k \in Clients :
    LET r == memory[i][k] IN r.isBlocked => r.timeToBlockExpire >= r.timeToExpire

(* throttler.storage.spec.ts: blocks when totalHits exceeds limit.  A call *)
(* the fallback counted within the limit is let through.                   *)
WithinLimitIsAdmitted ==
  \A c \in Calls : stage[c] = "guard" /\ nth[c] \in 1 .. Limit => ~answer[c].isBlocked
=============================================================================
