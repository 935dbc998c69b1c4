--------------------------- MODULE ThrottlerProofs ---------------------------
(***************************************************************************)
(* What the fallback guarantees for any number of instances, clients and   *)
(* calls and for any limit; two theorems assume that a block lasts at      *)
(* least a window.                                                         *)
(***************************************************************************)
EXTENDS Throttler, FiniteSetTheorems, TLAPS

USE ThrottlerAssumption

LEMMA BudgetFacts == Budget \in Nat /\ 1 <= Budget /\ Limit <= Budget
BY DEF Budget

(* A counter raised in a table of clients and windows.                     *)
LEMMA Raised ==
  ASSUME NEW I, NEW K, NEW W, NEW f \in [I -> [K -> [W -> Nat]]],
         NEW i \in I, NEW k \in K, NEW w
  PROVE  [f EXCEPT ![i][k][w] = @ + 1] \in [I -> [K -> [W -> Nat]]]
<1> DEFINE g == [f[i][k] EXCEPT ![w] = @ + 1]
<1>1. f[i][k] \in [W -> Nat]
  OBVIOUS
<1>2. g \in [W -> Nat]
  <2> DEFINE h == f[i][k]
  <2>1. h \in [W -> Nat] /\ g = [x \in W |-> IF x = w THEN h[w] + 1 ELSE h[x]]
    BY <1>1
  <2>2. ASSUME NEW x \in W PROVE (IF x = w THEN h[w] + 1 ELSE h[x]) \in Nat
    <3>1. CASE x = w
      <4>1. w \in W /\ h[w] \in Nat
        BY <2>1, <3>1
      <4> HIDE DEF h
      <4> QED BY <3>1, <4>1
    <3>2. CASE x # w
      BY <2>1, <3>2
    <3> QED BY <3>1, <3>2
  <2> HIDE DEF g, h
  <2> QED BY <2>1, <2>2
<1> HIDE DEF g
<1>3. [f[i] EXCEPT ![k] = g] \in [K -> [W -> Nat]]
  BY <1>2
<1>4. [f EXCEPT ![i] = [f[i] EXCEPT ![k] = g]] \in [I -> [K -> [W -> Nat]]]
  BY <1>3
<1> QED BY <1>4 DEF g

LEMMA MineType ==
  ASSUME TypeOK, NEW c \in Calls
  PROVE  /\ caller[c].instance \in Instances /\ caller[c].client \in Clients
         /\ Mine(c) \in Record
<1>1. caller[c].instance \in Instances /\ caller[c].client \in Clients
  BY DEF TypeOK
<1>2. memory \in [Instances -> [Clients -> Record]]
  BY DEF TypeOK
<1> QED BY <1>1, <1>2 DEF Mine

LEMMA CountType ==
  ASSUME now \in Nat, NEW r \in Record PROVE Count(r) \in Record
<1> DEFINE hits == IF r.isBlocked THEN 1 ELSE r.totalHits + 1
           over == hits > Limit
<1>1. r.totalHits \in Nat /\ r.timeToBlockExpire \in Nat
  BY DEF Record
<1>2. hits \in Nat /\ over \in BOOLEAN
  BY <1>1
<1>3. (IF over THEN now + BlockDuration ELSE r.timeToBlockExpire) \in Nat
  BY <1>1
<1>4. Count(r) = [r EXCEPT !.totalHits = hits, !.isBlocked = over,
                           !.timeToBlockExpire = IF over THEN now + BlockDuration ELSE r.timeToBlockExpire]
  BY DEF Count, Record
<1> HIDE DEF hits, over
<1> QED BY <1>2, <1>3, <1>4 DEF Record

LEMMA NewRecordType ==
  ASSUME now \in Nat PROVE NewRecord \in Record
BY DEF NewRecord, Record

LEMMA ReturnTypes ==
  ASSUME TypeOK, NEW c \in Calls, NEW r \in Record, NEW holders, Return(c, r, holders)
  PROVE  TypeOK'
<1>1. memory' \in [Instances -> [Clients -> Record]]
  BY DEF TypeOK, Return
<1>2. answer' \in [Calls -> Record] /\ nth' \in [Calls -> Nat]
  BY DEF TypeOK, Return, Record
<1>3. counted' \in [Instances -> [Clients -> [Time -> Nat]]]
  <2>1. caller[c].instance \in Instances /\ caller[c].client \in Clients
    BY MineType
  <2>2. counted' = [counted EXCEPT ![caller[c].instance][caller[c].client][r.timeToExpire] = @ + 1]
    BY DEF Return
  <2>3. counted \in [Instances -> [Clients -> [Time -> Nat]]]
    BY DEF TypeOK
  <2> QED BY <2>1, <2>2, <2>3, Raised, ZenonT(60)
<1>4. stage' \in [Calls -> Stages]
  BY DEF TypeOK, Return, Goto, Stages
<1> QED BY <1>1, <1>2, <1>3, <1>4 DEF TypeOK, Return

LEMMA ScriptType ==
  ASSUME TypeOK, NEW k \in Clients
  PROVE  Script(k) \in [hits : Nat, expires : Nat, blockedUntil : Nat]
BY DEF TypeOK, Script

LEMMA TypeStep == TypeOK /\ [Next]_vars => TypeOK'
<1> SUFFICES ASSUME TypeOK, [Next]_vars PROVE TypeOK'
  OBVIOUS
<1>1. ASSUME NEW c \in Calls, Arrive(c) PROVE TypeOK'
  BY <1>1 DEF TypeOK, Arrive, Goto, Stages, history
<1>2. ASSUME NEW c \in Calls, RedisIncrement(c) PROVE TypeOK'
  <2>1. caller[c].client \in Clients
    BY MineType
  <2>2. Script(caller[c].client) \in [hits : Nat, expires : Nat, blockedUntil : Nat]
    BY <2>1, ScriptType
  <2>3. shared' \in [Clients -> [hits : Nat, expires : Nat, blockedUntil : Nat]]
    BY <1>2, <2>2 DEF TypeOK, RedisIncrement
  <2>4. answer' \in [Calls -> Record]
    BY <1>2, <2>2 DEF TypeOK, RedisIncrement, Record
  <2> QED BY <1>2, <2>3, <2>4 DEF TypeOK, RedisIncrement, Goto, Stages, history
<1>3. ASSUME NEW c \in Calls, RedisThrows(c) PROVE TypeOK'
  <2>1. caller[c].client \in Clients
    BY MineType
  <2>2. Script(caller[c].client) \in [hits : Nat, expires : Nat, blockedUntil : Nat]
    BY <2>1, ScriptType
  <2>3. up' \in [Instances -> BOOLEAN]
    BY <1>3 DEF TypeOK, RedisThrows
  <2>4. shared' \in [Clients -> [hits : Nat, expires : Nat, blockedUntil : Nat]]
    BY <1>3, <2>2 DEF TypeOK, RedisThrows
  <2> QED BY <1>3, <2>3, <2>4 DEF TypeOK, RedisThrows, Goto, Stages, history
<1>4. ASSUME NEW c \in Calls, FallbackNew(c) PROVE TypeOK'
  BY <1>4, NewRecordType, ReturnTypes DEF TypeOK, FallbackNew
<1>5. ASSUME NEW c \in Calls, FallbackBlocked(c) PROVE TypeOK'
  BY <1>5, MineType, ReturnTypes DEF FallbackBlocked
<1>6. ASSUME NEW c \in Calls, FallbackCount(c) PROVE TypeOK'
  <2>1. Count(Mine(c)) \in Record
    BY MineType, CountType DEF TypeOK
  <2> QED BY <1>6, <2>1, ReturnTypes DEF FallbackCount
<1>7. ASSUME NEW c \in Calls, Guard(c) PROVE TypeOK'
  <2>1. admitted' \in [Instances -> [Clients -> [Time -> Nat]]]
    <3>1. caller[c].instance \in Instances /\ caller[c].client \in Clients
      BY MineType
    <3>2. admitted \in [Instances -> [Clients -> [Time -> Nat]]]
      BY DEF TypeOK
    <3>3. \/ admitted' = admitted
          \/ admitted' = [admitted EXCEPT ![caller[c].instance][caller[c].client][answer[c].timeToExpire] = @ + 1]
      BY <1>7 DEF Guard
    <3>4. [admitted EXCEPT ![caller[c].instance][caller[c].client][answer[c].timeToExpire] = @ + 1]
            \in [Instances -> [Clients -> [Time -> Nat]]]
      BY <3>1, <3>2, Raised, ZenonT(60)
    <3>5. CASE admitted' = admitted
      BY <3>2, <3>5
    <3> QED BY <3>3, <3>4, <3>5
  <2>2. NoRecord \in Record
    BY DEF NoRecord, Record
  <2> QED BY <1>7, <2>1, <2>2 DEF TypeOK, Guard, Goto, Stages
<1>8. ASSUME NEW i \in Instances, Reconnect(i) PROVE TypeOK'
  BY <1>8 DEF TypeOK, Reconnect, history
<1>9. CASE Tick
  BY <1>9 DEF TypeOK, Tick, history
<1>10. CASE UNCHANGED vars
  BY <1>10 DEF TypeOK, vars
<1> QED BY <1>1, <1>2, <1>3, <1>4, <1>5, <1>6, <1>7, <1>8, <1>9, <1>10 DEF Next

(* Every variable keeps its type, for any parameters.                      *)
THEOREM TypeCorrect == Spec => []TypeOK
<1>1. Init => TypeOK
  <2> SUFFICES ASSUME Init PROVE TypeOK
    OBVIOUS
  <2>1. NoRecord \in Record
    BY DEF NoRecord, Record
  <2>2. memory \in [Instances -> [Clients -> Record]] /\ answer \in [Calls -> Record]
    BY <2>1 DEF Init
  <2> QED BY <2>2 DEF Init, TypeOK, Stages
<1> QED BY <1>1, TypeStep, PTL DEF Spec

-----------------------------------------------------------------------------
(* The window budget.  A guard that is about to let a call through is      *)
(* counted with the calls already let through.                             *)
Waiting(i, k, w) ==
  {c \in Calls : /\ stage[c] = "guard"
                 /\ caller[c].instance = i /\ caller[c].client = k
                 /\ answer[c].timeToExpire = w /\ ~answer[c].isBlocked}
Passed(i, k, w) == admitted[i][k][w] + Cardinality(Waiting(i, k, w))

(* Guards see the record of the window under way as it is, or one of an    *)
(* earlier window.                                                         *)
SharedRecord ==
  \A c \in Calls :
    stage[c] = "guard" /\ answer[c].timeToExpire > 0 =>
      /\ answer[c].timeToExpire <= Mine(c).timeToExpire
      /\ answer[c].timeToExpire = Mine(c).timeToExpire => answer[c] = Mine(c)

OpenWithinBudget ==
  \A i \in Instances, k \in Clients : ~memory[i][k].isBlocked => memory[i][k].totalHits <= Budget

NothingLater ==
  \A i \in Instances, k \in Clients : \A w \in Time :
    w > memory[i][k].timeToExpire => admitted[i][k][w] = 0

PassedWithinHits ==
  \A i \in Instances, k \in Clients : \A w \in Time \ {0} :
    /\ Passed(i, k, w) <= Budget
    /\ w = memory[i][k].timeToExpire /\ ~memory[i][k].isBlocked
         => Passed(i, k, w) <= memory[i][k].totalHits

NothingAtZero == \A i \in Instances, k \in Clients : admitted[i][k][0] = 0

WindowInv ==
  /\ BlockOutlivesWindow /\ SharedRecord /\ OpenWithinBudget
  /\ NothingLater /\ PassedWithinHits /\ NothingAtZero

(* A block set at a call of an open window ends no earlier than the window *)
(* when it lasts at least a window.                                        *)
WindowBounded == \A i \in Instances, k \in Clients : memory[i][k].timeToExpire <= now + Ttl

LEMMA ReturnMemory ==
  ASSUME TypeOK, NEW c \in Calls, NEW r, NEW holders, Return(c, r, holders),
         NEW i \in Instances, NEW k \in Clients
  PROVE  memory'[i][k] = IF caller[c].instance = i /\ caller[c].client = k THEN r ELSE memory[i][k]
BY MineType DEF TypeOK, Return

(* The steps that only touch records: what happens to a record of the Map. *)
LEMMA RecordStep ==
  ASSUME TypeOK, [Next]_vars, NEW i \in Instances, NEW k \in Clients
  PROVE  LET r == memory[i][k] IN
         /\ now' >= now
         /\ \/ memory'[i][k] = r
            \/ memory'[i][k] = NewRecord /\ Expired(r) /\ now' = now
            \/ memory'[i][k] = Count(r) /\ ~Expired(r) /\ ~Held(r) /\ now' = now
<1> DEFINE r == memory[i][k]
<1>0. now \in Nat
  BY DEF TypeOK
<1>1. ASSUME NEW c \in Calls,
             Arrive(c) \/ RedisIncrement(c) \/ RedisThrows(c) \/ Guard(c)
      PROVE  memory' = memory /\ now' = now
  BY <1>1 DEF Arrive, RedisIncrement, RedisThrows, Guard
<1>2. ASSUME NEW c \in Calls, NEW q, NEW holders, Return(c, q, holders)
      PROVE  /\ now' = now
             /\ memory'[i][k] = r \/ (memory'[i][k] = q /\ Mine(c) = r)
  <2>1. now' = now
    BY <1>2 DEF Return
  <2>2. memory'[i][k] = IF caller[c].instance = i /\ caller[c].client = k THEN q ELSE memory[i][k]
    BY <1>2, ReturnMemory
  <2> QED BY <2>1, <2>2 DEF Mine
<1>3. ASSUME NEW c \in Calls, FallbackNew(c)
      PROVE  memory'[i][k] = r \/ (memory'[i][k] = NewRecord /\ Expired(r))
  BY <1>2, <1>3 DEF FallbackNew
<1>4. ASSUME NEW c \in Calls, FallbackBlocked(c) PROVE memory'[i][k] = r
  BY <1>2, <1>4 DEF FallbackBlocked
<1>5. ASSUME NEW c \in Calls, FallbackCount(c)
      PROVE  memory'[i][k] = r \/ (memory'[i][k] = Count(r) /\ ~Expired(r) /\ ~Held(r))
  BY <1>2, <1>5 DEF FallbackCount
<1>6. ASSUME NEW c \in Calls, FallbackNew(c) \/ FallbackBlocked(c) \/ FallbackCount(c)
      PROVE  now' = now
  BY <1>6 DEF FallbackNew, FallbackBlocked, FallbackCount, Return
<1>7. ASSUME NEW j \in Instances, Reconnect(j) PROVE memory' = memory /\ now' = now
  BY <1>7 DEF Reconnect
<1>8. ASSUME Tick PROVE memory' = memory /\ now' = now + 1
  BY <1>8 DEF Tick
<1>9. ASSUME UNCHANGED vars PROVE memory' = memory /\ now' = now
  BY <1>9 DEF vars
<1> QED BY <1>0, <1>1, <1>3, <1>4, <1>5, <1>6, <1>7, <1>8, <1>9 DEF Next

LEMMA BlockStep ==
  ASSUME BlockDuration >= Ttl, TypeOK, BlockOutlivesWindow, WindowBounded, [Next]_vars
  PROVE  BlockOutlivesWindow' /\ WindowBounded'
<1> SUFFICES ASSUME NEW i \in Instances, NEW k \in Clients
             PROVE  /\ memory'[i][k].isBlocked => memory'[i][k].timeToBlockExpire >= memory'[i][k].timeToExpire
                    /\ memory'[i][k].timeToExpire <= now' + Ttl
  BY DEF BlockOutlivesWindow, WindowBounded
<1> DEFINE r == memory[i][k]
<1>0. now \in Nat /\ r \in Record
  BY DEF TypeOK
<1>1. now' \in Nat
  BY TypeStep DEF TypeOK
<1>2. /\ r.isBlocked => r.timeToBlockExpire >= r.timeToExpire
      /\ r.timeToExpire <= now + Ttl
  BY DEF BlockOutlivesWindow, WindowBounded
<1>3. now' >= now
  BY RecordStep
<1>4. CASE memory'[i][k] = r
  BY <1>0, <1>1, <1>2, <1>3, <1>4 DEF Record
<1>5. CASE memory'[i][k] = NewRecord /\ now' = now
  BY <1>0, <1>5 DEF NewRecord
<1>6. CASE memory'[i][k] = Count(r) /\ now' = now
  <2> DEFINE hits == IF r.isBlocked THEN 1 ELSE r.totalHits + 1
             over == hits > Limit
  <2>1. /\ Count(r).timeToExpire = r.timeToExpire
        /\ Count(r).isBlocked = over
        /\ over => Count(r).timeToBlockExpire = now + BlockDuration
    BY <1>0 DEF Count, Record
  <2> HIDE DEF over, r
  <2>2. r.timeToExpire \in Nat
    BY <1>0 DEF Record
  <2> QED BY <1>0, <1>2, <1>6, <2>1, <2>2
<1> QED BY <1>4, <1>5, <1>6, RecordStep

(* With a block as long as a window the reset of a block is dead code.     *)
THEOREM BlockOutlivesWindowHolds ==
  ASSUME BlockDuration >= Ttl PROVE Spec => []BlockOutlivesWindow
<1>1. Init => BlockOutlivesWindow /\ WindowBounded
  BY DEF Init, NoRecord, BlockOutlivesWindow, WindowBounded
<1>2. TypeOK /\ BlockOutlivesWindow /\ WindowBounded /\ [Next]_vars
        => BlockOutlivesWindow' /\ WindowBounded'
  BY BlockStep
<1> QED BY <1>1, <1>2, TypeCorrect, PTL DEF Spec

-----------------------------------------------------------------------------
(* How each step moves the record, the guards and the tally of a client.   *)

LEMMA CountFields ==
  ASSUME now \in Nat, NEW r \in Record
  PROVE  /\ Count(r).timeToExpire = r.timeToExpire
         /\ Count(r).totalHits = IF r.isBlocked THEN 1 ELSE r.totalHits + 1
         /\ Count(r).isBlocked = (Count(r).totalHits > Limit)
BY DEF Count, Record

LEMMA CallerEqual ==
  ASSUME TypeOK, NEW c \in Calls, NEW d \in Calls
  PROVE  caller[c] = caller[d] <=>
           caller[c].instance = caller[d].instance /\ caller[c].client = caller[d].client
<1>1. \A a, b \in [instance : Instances, client : Clients] :
        a.instance = b.instance /\ a.client = b.client => a = b
  OBVIOUS
<1>2. caller[c] \in [instance : Instances, client : Clients]
      /\ caller[d] \in [instance : Instances, client : Clients]
  BY DEF TypeOK
<1> QED BY <1>1, <1>2

(* Steps that leave the records and the guards alone.                      *)
Aside(c) == Arrive(c) \/ RedisIncrement(c) \/ RedisThrows(c)
Elsewhere == Tick \/ (\E i \in Instances : Reconnect(i)) \/ UNCHANGED vars

LEMMA AsideStep ==
  ASSUME TypeOK, NEW c \in Calls, Aside(c)
  PROVE  /\ UNCHANGED <<memory, admitted>>
         /\ stage'[c] = "guard" => answer'[c].timeToExpire = 0
         /\ stage[c] # "guard"
         /\ \A d \in Calls \ {c} :
              stage'[d] = stage[d] /\ caller'[d] = caller[d] /\ answer'[d] = answer[d]
<1>1. CASE Arrive(c)
  BY <1>1 DEF Arrive, TypeOK, Goto, history
<1>2. CASE RedisIncrement(c)
  <2>1. answer'[c].timeToExpire = 0
    BY <1>2 DEF RedisIncrement, TypeOK
  <2>2. \A d \in Calls \ {c} : answer'[d] = answer[d]
    BY <1>2 DEF RedisIncrement, TypeOK
  <2> QED BY <1>2, <2>1, <2>2 DEF RedisIncrement, TypeOK, Goto, history
<1>3. CASE RedisThrows(c)
  BY <1>3 DEF RedisThrows, TypeOK, Goto, history
<1> QED BY <1>1, <1>2, <1>3 DEF Aside

LEMMA ElsewhereStep ==
  ASSUME Elsewhere PROVE UNCHANGED <<memory, admitted, stage, caller, answer>>
BY DEF Elsewhere, Tick, Reconnect, vars, history

LEMMA ReturnStep ==
  ASSUME TypeOK, NEW c \in Calls, NEW q, NEW holders, Return(c, q, holders)
  PROVE  /\ UNCHANGED <<caller, admitted>>
         /\ now' = now
         /\ stage'[c] = "guard"
         /\ \A d \in Calls \ {c} : stage'[d] = stage[d]
         /\ \A d \in Calls : answer'[d] = IF d \in holders THEN q ELSE answer[d]
         /\ \A d \in Calls : Mine(d)' = IF caller[d] = caller[c] THEN q ELSE Mine(d)
<1>1. \A d \in Calls : Mine(d)' = IF caller[d] = caller[c] THEN q ELSE Mine(d)
  <2> SUFFICES ASSUME NEW d \in Calls PROVE Mine(d)' = IF caller[d] = caller[c] THEN q ELSE Mine(d)
    OBVIOUS
  <2>1. caller' = caller
    BY DEF Return
  <2>2. caller[d].instance \in Instances /\ caller[d].client \in Clients
    BY MineType
  <2>3. memory'[caller[d].instance][caller[d].client] =
          IF caller[c].instance = caller[d].instance /\ caller[c].client = caller[d].client
            THEN q ELSE memory[caller[d].instance][caller[d].client]
    BY <2>2, ReturnMemory
  <2> QED BY <2>1, <2>3, CallerEqual DEF Mine
<1>2. \A d \in Calls \ {c} : stage'[d] = stage[d]
  BY DEF Return, Goto, TypeOK
<1>3. stage'[c] = "guard"
  BY DEF Return, Goto, TypeOK
<1> QED BY <1>1, <1>2, <1>3 DEF Return

(* The record an open window has, while it is counted in, is not blocked.  *)
LEMMA CountedOpen ==
  ASSUME TypeOK, BlockOutlivesWindow, NEW c \in Calls, FallbackCount(c)
  PROVE  ~Mine(c).isBlocked /\ Mine(c).timeToExpire > 0
<1>1. Mine(c) \in Record /\ now \in Nat
  BY MineType DEF TypeOK
<1>2. Mine(c).isBlocked => Mine(c).timeToBlockExpire >= Mine(c).timeToExpire
  BY MineType DEF BlockOutlivesWindow, Mine
<1>3. ~(Mine(c).timeToExpire <= now) /\ ~(Mine(c).isBlocked /\ Mine(c).timeToBlockExpire > now)
  BY DEF FallbackCount, Expired, Held
<1> QED BY <1>1, <1>2, <1>3 DEF Record

LEMMA SharedRecordStep ==
  ASSUME Ttl > 0, TypeOK, BlockOutlivesWindow, SharedRecord, [Next]_vars PROVE SharedRecord'
<1> SUFFICES ASSUME NEW d \in Calls, stage'[d] = "guard", answer'[d].timeToExpire > 0
             PROVE  /\ answer'[d].timeToExpire <= Mine(d)'.timeToExpire
                    /\ answer'[d].timeToExpire = Mine(d)'.timeToExpire => answer'[d] = Mine(d)'
  BY DEF SharedRecord
<1>0. now \in Nat /\ Mine(d) \in Record /\ answer[d] \in Record
  BY MineType DEF TypeOK
<1>1. stage[d] = "guard" /\ answer[d].timeToExpire > 0 =>
        /\ answer[d].timeToExpire <= Mine(d).timeToExpire
        /\ answer[d].timeToExpire = Mine(d).timeToExpire => answer[d] = Mine(d)
  BY DEF SharedRecord
<1>2. CASE stage'[d] = stage[d] /\ answer'[d] = answer[d] /\ Mine(d)' = Mine(d)
  BY <1>1, <1>2
<1>3. ASSUME NEW c \in Calls, Aside(c) PROVE d # c /\ Mine(d)' = Mine(d)
  <2>1. d # c
    BY <1>3, AsideStep
  <2> QED BY <1>3, <2>1, AsideStep DEF Mine
<1>4. ASSUME NEW c \in Calls, Aside(c) PROVE stage'[d] = stage[d] /\ answer'[d] = answer[d]
  BY <1>3, <1>4, AsideStep
<1>5. ASSUME NEW c \in Calls, Guard(c)
      PROVE  stage'[d] = stage[d] /\ answer'[d] = answer[d] /\ Mine(d)' = Mine(d)
  BY <1>5 DEF Guard, Goto, TypeOK, Mine
<1>6. CASE Elsewhere
  BY <1>2, <1>6, ElsewhereStep DEF Mine
<1>7. ASSUME NEW c \in Calls, FallbackNew(c)
      PROVE  /\ answer'[d].timeToExpire <= Mine(d)'.timeToExpire
             /\ answer'[d].timeToExpire = Mine(d)'.timeToExpire => answer'[d] = Mine(d)'
  <2>1. Return(c, NewRecord, {c}) /\ Mine(c).timeToExpire <= now
    BY <1>7 DEF FallbackNew, Expired
  <2>2. NewRecord.timeToExpire = now + Ttl
    BY DEF NewRecord
  <2>3. CASE d = c
    BY <2>1, <2>2, <2>3, ReturnStep, <1>0
  <2>4. CASE d # c /\ caller[d] = caller[c]
    <3>1. Mine(d) = Mine(c)
      BY <2>4 DEF Mine
    <3>2. stage[d] = "guard" /\ answer'[d] = answer[d] /\ Mine(d)' = NewRecord
      BY <2>1, <2>4, ReturnStep
    <3>3. answer[d].timeToExpire <= now
      <4>1. answer[d].timeToExpire \in Nat /\ Mine(d).timeToExpire \in Nat
        BY <1>0 DEF Record
      <4> QED BY <4>1, <1>0, <1>1, <2>1, <3>1, <3>2
    <3>4. answer[d].timeToExpire \in Nat
      BY <1>0 DEF Record
    <3>5. answer[d].timeToExpire < now + Ttl
      BY <3>3, <3>4, <1>0, ThrottlerAssumption
    <3> QED BY <3>2, <3>4, <3>5, <2>2, <1>0
  <2>5. CASE d # c /\ caller[d] # caller[c]
    BY <2>1, <2>5, <1>2, ReturnStep
  <2> QED BY <2>3, <2>4, <2>5
<1>8. ASSUME NEW c \in Calls, FallbackBlocked(c)
      PROVE  /\ answer'[d].timeToExpire <= Mine(d)'.timeToExpire
             /\ answer'[d].timeToExpire = Mine(d)'.timeToExpire => answer'[d] = Mine(d)'
  <2>1. Return(c, Mine(c), {c})
    BY <1>8 DEF FallbackBlocked
  <2>2. Mine(d)' = Mine(d)
    BY <2>1, ReturnStep DEF Mine
  <2>3. CASE d = c
    <3>1. answer'[d] = Mine(d)'
      BY <2>1, <2>2, <2>3, ReturnStep
    <3> QED BY <2>2, <3>1, <1>0 DEF Record
  <2>4. CASE d # c
    BY <2>1, <2>2, <2>4, <1>2, ReturnStep
  <2> QED BY <2>3, <2>4
<1>9. ASSUME NEW c \in Calls, FallbackCount(c)
      PROVE  /\ answer'[d].timeToExpire <= Mine(d)'.timeToExpire
             /\ answer'[d].timeToExpire = Mine(d)'.timeToExpire => answer'[d] = Mine(d)'
  <2> DEFINE q == Count(Mine(c))
             holders == {e \in Calls : SameObject(c, e)}
  <2>1. Return(c, q, holders)
    BY <1>9 DEF FallbackCount
  <2>2. q.timeToExpire = Mine(c).timeToExpire
    BY <1>0, MineType, CountFields
  <2>3. d \in holders => caller[d] = caller[c]
    BY DEF SameObject
  <2> HIDE DEF q, holders
  <2>4. CASE d \in holders
    <3>1. answer'[d] = q /\ Mine(d)' = q
      BY <2>1, <2>3, <2>4, ReturnStep
    <3>2. q.timeToExpire \in Nat
      BY <2>2, MineType DEF Record
    <3> QED BY <3>1, <3>2
  <2>5. CASE d \notin holders /\ caller[d] # caller[c]
    <3>1. d # c
      BY <2>5
    <3> QED BY <2>1, <2>5, <3>1, <1>2, ReturnStep
  <2>6. CASE d \notin holders /\ caller[d] = caller[c]
    <3>1. d # c /\ Mine(d) = Mine(c)
      BY <2>6 DEF Mine, holders, SameObject
    <3>2. stage[d] = "guard" /\ answer'[d] = answer[d] /\ Mine(d)' = q
      BY <2>1, <2>6, <3>1, ReturnStep
    <3>3. answer[d].timeToExpire # Mine(c).timeToExpire
      BY <2>6, <3>2 DEF holders, SameObject
    <3>4. answer[d].timeToExpire <= Mine(c).timeToExpire
      BY <1>1, <3>1, <3>2
    <3> QED BY <2>2, <3>2, <3>3, <3>4
  <2> QED BY <2>4, <2>5, <2>6
<1> QED BY <1>2, <1>3, <1>4, <1>5, <1>6, <1>7, <1>8, <1>9 DEF Next, Aside, Elsewhere

-----------------------------------------------------------------------------
(* The tally of one client on one instance in one window.                  *)

LEMMA WaitingFinite ==
  ASSUME IsFiniteSet(Calls), NEW i, NEW k, NEW w
  PROVE  IsFiniteSet(Waiting(i, k, w)) /\ Cardinality(Waiting(i, k, w)) \in Nat
BY FS_Subset, FS_CardinalityType DEF Waiting

LEMMA AdmittedType ==
  ASSUME TypeOK, NEW i \in Instances, NEW k \in Clients, NEW w \in Time
  PROVE  admitted[i][k][w] \in Nat
<1>1. admitted[i] \in [Clients -> [Time -> Nat]]
  BY DEF TypeOK
<1>2. admitted[i][k] \in [Time -> Nat]
  BY <1>1
<1> QED BY <1>2

(* A guard that lets its call through moves it from waiting to admitted.   *)
LEMMA GuardStep ==
  ASSUME TypeOK, NEW c \in Calls, Guard(c),
         NEW i \in Instances, NEW k \in Clients, NEW w \in Time \ {0}
  PROVE  /\ Waiting(i, k, w)' = Waiting(i, k, w) \ {c}
         /\ admitted'[i][k][w] = IF c \in Waiting(i, k, w) THEN admitted[i][k][w] + 1
                                                          ELSE admitted[i][k][w]
<1>1. Waiting(i, k, w)' = Waiting(i, k, w) \ {c}
  BY DEF Guard, Goto, TypeOK, Waiting
<1>2. admitted' = IF answer[c].isBlocked \/ answer[c].timeToExpire = 0 THEN admitted
                  ELSE [admitted EXCEPT ![caller[c].instance][caller[c].client][answer[c].timeToExpire] = @ + 1]
  BY DEF Guard
<1>3. admitted \in [Instances -> [Clients -> [Time -> Nat]]] /\ stage[c] = "guard"
  BY DEF Guard, TypeOK
<1>4. CASE c \in Waiting(i, k, w)
  <2>1. /\ caller[c].instance = i /\ caller[c].client = k
        /\ answer[c].timeToExpire = w /\ ~answer[c].isBlocked
    BY <1>4 DEF Waiting
  <2>2. admitted' = [admitted EXCEPT ![i][k][w] = @ + 1]
    BY <1>2, <2>1
  <2>3. admitted[i] \in [Clients -> [Time -> Nat]] /\ admitted[i][k] \in [Time -> Nat]
    BY <1>3
  <2> QED BY <1>1, <1>3, <1>4, <2>2, <2>3
<1>5. CASE c \notin Waiting(i, k, w)
  <2>1. \/ answer[c].isBlocked \/ answer[c].timeToExpire # w
        \/ caller[c].instance # i \/ caller[c].client # k
    BY <1>3, <1>5 DEF Waiting
  <2>2. admitted[i] \in [Clients -> [Time -> Nat]] /\ admitted[i][k] \in [Time -> Nat]
    BY <1>3
  <2>3. admitted'[i][k][w] = admitted[i][k][w]
    BY <1>2, <1>3, <2>1, <2>2
  <2> QED BY <1>1, <1>5, <2>3
<1> QED BY <1>4, <1>5

(* No step but Guard touches the tally of the calls let through.           *)
LEMMA AdmittedStep ==
  ASSUME TypeOK, [Next]_vars
  PROVE  admitted' = admitted \/ \E c \in Calls : Guard(c)
<1>1. ASSUME NEW c \in Calls, Aside(c) PROVE admitted' = admitted
  BY <1>1, AsideStep
<1>2. ASSUME NEW c \in Calls, FallbackNew(c) \/ FallbackBlocked(c) \/ FallbackCount(c)
      PROVE  admitted' = admitted
  BY <1>2 DEF FallbackNew, FallbackBlocked, FallbackCount, Return
<1>3. CASE Elsewhere
  BY <1>3, ElsewhereStep
<1> QED BY <1>1, <1>2, <1>3 DEF Next, Aside, Elsewhere

LEMMA ZeroStep ==
  ASSUME TypeOK, NothingAtZero, [Next]_vars PROVE NothingAtZero'
<1>1. ASSUME NEW c \in Calls, Guard(c), NEW i \in Instances, NEW k \in Clients
      PROVE  admitted'[i][k][0] = admitted[i][k][0]
  <2>1. admitted' = IF answer[c].isBlocked \/ answer[c].timeToExpire = 0 THEN admitted
                    ELSE [admitted EXCEPT ![caller[c].instance][caller[c].client][answer[c].timeToExpire] = @ + 1]
    BY <1>1 DEF Guard
  <2>2. admitted \in [Instances -> [Clients -> [Time -> Nat]]]
    BY DEF TypeOK
  <2>3. admitted[i] \in [Clients -> [Time -> Nat]] /\ admitted[i][k] \in [Time -> Nat]
    BY <2>2
  <2> QED BY <2>1, <2>2, <2>3
<1> QED BY <1>1, AdmittedStep DEF NothingAtZero

LEMMA LaterStep ==
  ASSUME TypeOK, SharedRecord, NothingLater, [Next]_vars PROVE NothingLater'
<1> SUFFICES ASSUME NEW i \in Instances, NEW k \in Clients, NEW w \in Time,
                    w > memory'[i][k].timeToExpire
             PROVE  admitted'[i][k][w] = 0
  BY DEF NothingLater
<1>0. now \in Nat /\ memory[i][k] \in Record /\ memory[i][k].timeToExpire \in Nat
  BY DEF TypeOK, Record
<1>1. w > memory[i][k].timeToExpire
  <2>1. memory'[i][k].timeToExpire >= memory[i][k].timeToExpire
    <3>1. CASE memory'[i][k] = memory[i][k]
      BY <1>0, <3>1
    <3>2. CASE memory'[i][k] = NewRecord /\ Expired(memory[i][k])
      BY <1>0, <3>2 DEF NewRecord, Expired
    <3>3. CASE memory'[i][k] = Count(memory[i][k])
      BY <1>0, <3>3, CountFields
    <3> QED BY <3>1, <3>2, <3>3, RecordStep
  <2>2. memory'[i][k].timeToExpire \in Nat
    <3>1. memory' \in [Instances -> [Clients -> Record]]
      BY TypeStep DEF TypeOK
    <3> QED BY <3>1 DEF Record
  <2> QED BY <1>0, <2>1, <2>2 DEF Time
<1>2. admitted[i][k][w] = 0 /\ w # 0
  BY <1>0, <1>1 DEF NothingLater, Time
<1>3. ASSUME NEW c \in Calls, Guard(c) PROVE admitted'[i][k][w] = admitted[i][k][w]
  <2>1. c \notin Waiting(i, k, w)
    <3> SUFFICES ASSUME c \in Waiting(i, k, w) PROVE FALSE
      OBVIOUS
    <3>1. /\ stage[c] = "guard" /\ answer[c].timeToExpire = w
          /\ Mine(c) = memory[i][k]
      BY DEF Waiting, Mine
    <3>2. w <= memory[i][k].timeToExpire
      BY <1>0, <1>1, <3>1 DEF SharedRecord, Time
    <3> QED BY <1>0, <1>1, <3>2 DEF Time
  <2> QED BY <1>2, <1>3, <2>1, GuardStep
<1> QED BY <1>2, <1>3, AdmittedStep

LEMMA WithinBudgetStep ==
  ASSUME TypeOK, OpenWithinBudget, [Next]_vars PROVE OpenWithinBudget'
<1> SUFFICES ASSUME NEW i \in Instances, NEW k \in Clients, ~memory'[i][k].isBlocked
             PROVE  memory'[i][k].totalHits <= Budget
  BY DEF OpenWithinBudget
<1>0. now \in Nat /\ memory[i][k] \in Record
  BY DEF TypeOK
<1>1. CASE memory'[i][k] = memory[i][k]
  BY <1>1 DEF OpenWithinBudget
<1>2. CASE memory'[i][k] = NewRecord
  BY <1>2, BudgetFacts DEF NewRecord
<1>3. CASE memory'[i][k] = Count(memory[i][k])
  <2>1. Count(memory[i][k]) \in Record
    BY <1>0, CountType
  <2>2. ~(Count(memory[i][k]).totalHits > Limit)
    BY <1>0, <1>3, CountFields
  <2> QED BY <1>3, <2>1, <2>2, BudgetFacts DEF Record
<1> QED BY <1>1, <1>2, <1>3, RecordStep

(* The tally of a window under one step: TallyOK is what PassedWithinHits  *)
(* says of one client on one instance in one window.                       *)
TallyOK(i, k, w) ==
  /\ Passed(i, k, w) <= Budget
  /\ w = memory[i][k].timeToExpire /\ ~memory[i][k].isBlocked
       => Passed(i, k, w) <= memory[i][k].totalHits

LEMMA ReturnFrame ==
  ASSUME TypeOK, NEW c \in Calls, NEW q, NEW holders, Return(c, q, holders),
         stage[c] # "guard", \A d \in holders : d = c \/ SameObject(c, d),
         NEW i \in Instances, NEW k \in Clients, NEW w \in Time,
         caller[c].instance # i \/ caller[c].client # k
  PROVE  /\ UNCHANGED <<memory[i][k], admitted[i][k][w]>>
         /\ Waiting(i, k, w)' = Waiting(i, k, w)
<1>1. memory'[i][k] = memory[i][k]
  BY ReturnMemory
<1>2. admitted' = admitted /\ caller' = caller
  BY ReturnStep
<1>3. \A d \in Calls : caller[d].instance = i /\ caller[d].client = k =>
        d # c /\ d \notin holders
  BY DEF SameObject
<1>4. \A d \in Calls : caller[d].instance = i /\ caller[d].client = k =>
        stage'[d] = stage[d] /\ answer'[d] = answer[d]
  BY <1>3, ReturnStep
<1> QED BY <1>1, <1>2, <1>4 DEF Waiting

LEMMA NewTally ==
  ASSUME Ttl > 0, IsFiniteSet(Calls), TypeOK, WindowInv, NEW c \in Calls, FallbackNew(c),
         NEW i \in Instances, NEW k \in Clients, NEW w \in Time \ {0},
         TallyOK(i, k, w), caller[c].instance = i, caller[c].client = k
  PROVE  TallyOK(i, k, w)'
<1>1. Return(c, NewRecord, {c}) /\ Mine(c).timeToExpire <= now /\ stage[c] = "fallback"
  BY DEF FallbackNew, Expired
<1>2. memory'[i][k] = NewRecord /\ memory[i][k] = Mine(c)
  BY <1>1, ReturnMemory DEF Mine
<1>3. /\ NewRecord.timeToExpire = now + Ttl /\ NewRecord.totalHits = 1 /\ ~NewRecord.isBlocked
      /\ now \in Nat /\ Mine(c).timeToExpire \in Nat
  BY MineType DEF NewRecord, TypeOK, Record
<1>4. admitted'[i][k][w] = admitted[i][k][w] /\ admitted[i][k][w] \in Nat
  BY <1>1, ReturnStep, AdmittedType
<1>5. \A d \in Calls \ {c} : stage'[d] = stage[d] /\ answer'[d] = answer[d] /\ caller'[d] = caller[d]
  BY <1>1, ReturnStep
<1>6. /\ stage'[c] = "guard" /\ answer'[c] = NewRecord /\ caller'[c] = caller[c]
      /\ c \notin Waiting(i, k, w)
  BY <1>1, ReturnStep DEF Waiting
<1>7. CASE w # now + Ttl
  <2>1. Waiting(i, k, w)' = Waiting(i, k, w)
    BY <1>3, <1>5, <1>6, <1>7 DEF Waiting
  <2> QED BY <1>2, <1>3, <1>4, <1>7, <2>1 DEF TallyOK, Passed
<1>8. CASE w = now + Ttl
  <2>1. w > memory[i][k].timeToExpire
    BY <1>1, <1>2, <1>3, <1>8, ThrottlerAssumption
  <2>2. admitted[i][k][w] = 0
    BY <2>1 DEF WindowInv, NothingLater
  <2>3. Waiting(i, k, w) = {}
    <3> SUFFICES ASSUME NEW d \in Waiting(i, k, w) PROVE FALSE
      OBVIOUS
    <3>1. d \in Calls /\ stage[d] = "guard" /\ answer[d].timeToExpire = w /\ Mine(d) = memory[i][k]
      BY DEF Waiting, Mine
    <3>2. w <= memory[i][k].timeToExpire
      BY <1>3, <1>8, <3>1 DEF WindowInv, SharedRecord
    <3> QED BY <1>2, <1>3, <1>8, <2>1, <3>2
  <2>4. Waiting(i, k, w)' = {c}
    BY <1>3, <1>5, <1>6, <1>8, <2>3 DEF Waiting
  <2>5. Cardinality(Waiting(i, k, w)') = 1
    BY <2>4, FS_Singleton
  <2>6. Passed(i, k, w)' = 1
    BY <1>4, <2>2, <2>5 DEF Passed
  <2> QED BY <1>2, <1>3, <2>6, BudgetFacts DEF TallyOK
<1> QED BY <1>7, <1>8

LEMMA BlockedTally ==
  ASSUME TypeOK, NEW c \in Calls, FallbackBlocked(c),
         NEW i \in Instances, NEW k \in Clients, NEW w \in Time \ {0}, TallyOK(i, k, w)
  PROVE  TallyOK(i, k, w)'
<1>1. Return(c, Mine(c), {c}) /\ Mine(c).isBlocked /\ stage[c] = "fallback"
  BY DEF FallbackBlocked, Held
<1>2. memory'[i][k] = memory[i][k]
  BY <1>1, ReturnMemory DEF Mine
<1>3. admitted' = admitted
  BY <1>1, ReturnStep
<1>4. \A d \in Calls \ {c} : stage'[d] = stage[d] /\ answer'[d] = answer[d] /\ caller'[d] = caller[d]
  BY <1>1, ReturnStep
<1>5. answer'[c] = Mine(c) /\ c \notin Waiting(i, k, w)
  BY <1>1, ReturnStep DEF Waiting
<1>6. Waiting(i, k, w)' = Waiting(i, k, w)
  BY <1>1, <1>4, <1>5 DEF Waiting
<1> QED BY <1>2, <1>3, <1>6 DEF TallyOK, Passed

LEMMA CountTally ==
  ASSUME IsFiniteSet(Calls), TypeOK, WindowInv, NEW c \in Calls, FallbackCount(c),
         NEW i \in Instances, NEW k \in Clients, NEW w \in Time \ {0},
         TallyOK(i, k, w), caller[c].instance = i, caller[c].client = k
  PROVE  TallyOK(i, k, w)'
<1> DEFINE q == Count(Mine(c))
           holders == {e \in Calls : SameObject(c, e)}
<1>1. Return(c, q, holders) /\ stage[c] = "fallback"
  BY DEF FallbackCount
<1>2. memory'[i][k] = q /\ memory[i][k] = Mine(c)
  BY <1>1, ReturnMemory DEF Mine
<1>3. ~Mine(c).isBlocked /\ Mine(c) \in Record
  BY CountedOpen, MineType DEF WindowInv
<1>4. /\ q.timeToExpire = Mine(c).timeToExpire
      /\ q.totalHits = Mine(c).totalHits + 1
      /\ q.isBlocked = (q.totalHits > Limit)
  BY <1>3, CountFields DEF TypeOK
<1>5. Mine(c).timeToExpire \in Nat /\ Mine(c).totalHits \in Nat
  BY <1>3 DEF Record
<1>6. admitted' = admitted /\ caller' = caller /\ admitted[i][k][w] \in Nat
  BY <1>1, ReturnStep, AdmittedType
<1>7. stage'[c] = "guard" /\ c \in holders /\ c \notin Waiting(i, k, w)
  BY <1>1, ReturnStep DEF SameObject, Waiting
<1>8. \A d \in Calls : answer'[d] = IF d \in holders THEN q ELSE answer[d]
  BY <1>1, ReturnStep
<1>9. \A d \in Calls \ {c} : stage'[d] = stage[d]
  BY <1>1, ReturnStep
<1>10. \A d \in Calls \ {c} :
         d \in holders <=> /\ stage[d] = "guard" /\ caller[d] = caller[c]
                            /\ answer[d].timeToExpire = Mine(c).timeToExpire
  BY DEF SameObject
<1>11. Cardinality(Waiting(i, k, w)) \in Nat /\ IsFiniteSet(Waiting(i, k, w))
  BY WaitingFinite
<1>12. Passed(i, k, w) <= Budget
  BY DEF TallyOK
<1> HIDE DEF q, holders
<1>13. CASE w # Mine(c).timeToExpire
  <2>1. Waiting(i, k, w)' = Waiting(i, k, w)
    BY <1>4, <1>6, <1>7, <1>8, <1>9, <1>10, <1>13 DEF Waiting
  <2> QED BY <1>2, <1>4, <1>6, <1>12, <1>13, <2>1 DEF TallyOK, Passed
<1>14. CASE w = Mine(c).timeToExpire
  <2>1. \A d \in Waiting(i, k, w) : d \in holders
    <3> SUFFICES ASSUME NEW d \in Waiting(i, k, w) PROVE d \in holders
      OBVIOUS
    <3>1. d \in Calls \ {c} /\ caller[d] = caller[c]
      BY <1>7, CallerEqual DEF Waiting
    <3> QED BY <1>10, <1>14, <3>1 DEF Waiting
  <2>2. CASE q.isBlocked
    <3>1. Waiting(i, k, w)' = {}
      <4> SUFFICES ASSUME NEW d \in Calls, d \in Waiting(i, k, w)' PROVE FALSE
        BY DEF Waiting
      <4>1. ~answer'[d].isBlocked /\ d \notin holders
        BY <1>8, <2>2 DEF Waiting
      <4>2. d # c /\ answer'[d] = answer[d] /\ stage'[d] = stage[d]
        BY <1>7, <1>8, <1>9, <4>1
      <4>3. d \in Waiting(i, k, w)
        BY <1>6, <4>1, <4>2 DEF Waiting
      <4> QED BY <2>1, <4>1, <4>3
    <3>2. Cardinality(Waiting(i, k, w)') = 0
      BY <3>1, FS_EmptySet
    <3>3. Passed(i, k, w)' <= Budget
      BY <1>6, <1>11, <1>12, <3>2, BudgetFacts DEF Passed
    <3> QED BY <1>2, <2>2, <3>3 DEF TallyOK
  <2>3. CASE ~q.isBlocked
    <3>1. Waiting(i, k, w)' = Waiting(i, k, w) \cup {c}
      <4>1. ASSUME NEW d \in Waiting(i, k, w) PROVE d \in Waiting(i, k, w)'
        <5>1. d \in Calls \ {c} /\ answer'[d] = q /\ stage'[d] = stage[d]
          BY <1>7, <1>8, <1>9, <2>1, <4>1 DEF Waiting
        <5> QED BY <1>4, <1>6, <1>14, <2>3, <4>1, <5>1 DEF Waiting
      <4>2. c \in Waiting(i, k, w)'
        BY <1>4, <1>6, <1>7, <1>8, <1>14, <2>3 DEF Waiting
      <4>3. ASSUME NEW d \in Waiting(i, k, w)', d # c PROVE d \in Waiting(i, k, w)
        <5>1. d \in Calls /\ stage[d] = "guard" /\ caller[d].instance = i /\ caller[d].client = k
          BY <1>6, <1>9, <4>3 DEF Waiting
        <5>2. CASE d \notin holders
          BY <1>8, <4>3, <5>1, <5>2 DEF Waiting
        <5>3. CASE d \in holders
          <6>1. answer[d].timeToExpire = w
            BY <1>10, <1>14, <4>3, <5>1, <5>3
          <6>2. answer[d] = Mine(d) /\ Mine(d) = Mine(c)
            <7>1. Mine(d) = Mine(c)
              BY <5>1 DEF Mine
            <7>2. answer[d].timeToExpire > 0
              BY <1>5, <1>14, <6>1
            <7> QED BY <1>14, <5>1, <6>1, <7>1, <7>2 DEF WindowInv, SharedRecord
          <6> QED BY <1>3, <5>1, <6>1, <6>2 DEF Waiting
        <5> QED BY <5>2, <5>3
      <4> QED BY <4>1, <4>2, <4>3
    <3>2. Cardinality(Waiting(i, k, w)') = Cardinality(Waiting(i, k, w)) + 1
      BY <1>7, <1>11, <3>1, FS_AddElement, ZenonT(60)
    <3>3. Passed(i, k, w) <= Mine(c).totalHits
      BY <1>2, <1>3, <1>14 DEF TallyOK
    <3>4. Passed(i, k, w)' = Passed(i, k, w) + 1 /\ Passed(i, k, w) \in Nat
      BY <1>6, <1>11, <3>2 DEF Passed
    <3>5. q.totalHits <= Limit
      <4>1. ~(q.totalHits > Limit)
        BY <1>4, <2>3, Zenon
      <4> QED BY <1>4, <1>5, <4>1
    <3>6. Passed(i, k, w)' <= q.totalHits
      BY <1>4, <1>5, <3>3, <3>4
    <3>7. Passed(i, k, w)' <= Budget
      BY <1>4, <1>5, <3>4, <3>5, <3>6, BudgetFacts
    <3> QED BY <1>2, <3>6, <3>7 DEF TallyOK
  <2> QED BY <2>2, <2>3
<1> QED BY <1>13, <1>14

LEMMA TallyStep ==
  ASSUME Ttl > 0, IsFiniteSet(Calls), TypeOK, WindowInv, [Next]_vars PROVE PassedWithinHits'
<1> SUFFICES ASSUME NEW i \in Instances, NEW k \in Clients, NEW w \in Time \ {0}
             PROVE  TallyOK(i, k, w)'
  BY DEF PassedWithinHits, TallyOK
<1>0. TallyOK(i, k, w)
  BY DEF WindowInv, PassedWithinHits, TallyOK
<1>1. ASSUME memory'[i][k] = memory[i][k], admitted'[i][k][w] = admitted[i][k][w],
             Waiting(i, k, w)' = Waiting(i, k, w)
      PROVE  TallyOK(i, k, w)'
  BY <1>0, <1>1 DEF TallyOK, Passed
<1>2. ASSUME NEW c \in Calls, Aside(c) PROVE TallyOK(i, k, w)'
  <2>1. memory' = memory /\ admitted' = admitted
    BY <1>2, AsideStep
  <2>2. \A d \in Calls \ {c} : stage'[d] = stage[d] /\ caller'[d] = caller[d] /\ answer'[d] = answer[d]
    BY <1>2, AsideStep
  <2>3. stage[c] # "guard" /\ (stage'[c] = "guard" => answer'[c].timeToExpire = 0)
    BY <1>2, AsideStep
  <2>4. Waiting(i, k, w)' = Waiting(i, k, w)
    BY <2>2, <2>3 DEF Waiting
  <2> QED BY <1>1, <2>1, <2>4
<1>3. CASE Elsewhere
  <2>1. UNCHANGED <<memory, admitted, stage, caller, answer>>
    BY <1>3, ElsewhereStep
  <2>2. Waiting(i, k, w)' = Waiting(i, k, w)
    BY <2>1 DEF Waiting
  <2> QED BY <1>1, <2>1, <2>2
<1>4. ASSUME NEW c \in Calls, Guard(c) PROVE TallyOK(i, k, w)'
  <2>1. memory' = memory
    BY <1>4 DEF Guard
  <2>2. IsFiniteSet(Waiting(i, k, w)) /\ Cardinality(Waiting(i, k, w)) \in Nat /\ admitted[i][k][w] \in Nat
    BY WaitingFinite, AdmittedType
  <2>3. CASE c \in Waiting(i, k, w)
    <3>1. Cardinality(Waiting(i, k, w)') = Cardinality(Waiting(i, k, w)) - 1
      BY <1>4, <2>2, <2>3, GuardStep, FS_RemoveElement
    <3>2. admitted'[i][k][w] = admitted[i][k][w] + 1
      BY <1>4, <2>3, GuardStep
    <3>3. Passed(i, k, w)' = Passed(i, k, w)
      BY <2>2, <3>1, <3>2 DEF Passed
    <3> QED BY <1>0, <2>1, <3>3 DEF TallyOK
  <2>4. CASE c \notin Waiting(i, k, w)
    <3>1. /\ Waiting(i, k, w)' = Waiting(i, k, w) \ {c}
          /\ admitted'[i][k][w] = admitted[i][k][w]
      BY <1>4, <2>4, GuardStep
    <3>2. Passed(i, k, w)' = Passed(i, k, w)
      BY <2>4, <3>1 DEF Passed
    <3> QED BY <1>0, <2>1, <3>2 DEF TallyOK
  <2> QED BY <2>3, <2>4
<1>5. ASSUME NEW c \in Calls, FallbackBlocked(c) PROVE TallyOK(i, k, w)'
  BY <1>0, <1>5, BlockedTally
<1>6. ASSUME NEW c \in Calls, FallbackNew(c) \/ FallbackCount(c),
             caller[c].instance # i \/ caller[c].client # k
      PROVE  TallyOK(i, k, w)'
  <2>1. CASE FallbackNew(c)
    <3>1. Return(c, NewRecord, {c}) /\ stage[c] # "guard"
      BY <2>1 DEF FallbackNew
    <3> QED BY <1>1, <1>6, <3>1, ReturnFrame
  <2>2. CASE FallbackCount(c)
    <3>1. Return(c, Count(Mine(c)), {d \in Calls : SameObject(c, d)}) /\ stage[c] # "guard"
      BY <2>2 DEF FallbackCount
    <3> QED BY <1>1, <1>6, <3>1, ReturnFrame
  <2> QED BY <1>6, <2>1, <2>2
<1>7. ASSUME NEW c \in Calls, FallbackNew(c) \/ FallbackCount(c) PROVE TallyOK(i, k, w)'
  BY <1>0, <1>6, <1>7, NewTally, CountTally
<1> QED BY <1>2, <1>3, <1>4, <1>5, <1>7 DEF Next, Aside, Elsewhere

(* The budget of the fallback holds for any number of instances, clients   *)
(* and concurrent calls and any limit, whatever Redis does, when a block   *)
(* lasts at least a window, as it does with the guard's default.  Without  *)
(* a window (a blank THROTTLE_TTL is 0) there is no budget to keep.        *)
THEOREM WindowBudgetHolds ==
  ASSUME Ttl > 0, BlockDuration >= Ttl, IsFiniteSet(Calls) PROVE Spec => []WindowBudget
<1>1. Init => WindowInv /\ WindowBounded
  <2> SUFFICES ASSUME Init PROVE WindowInv /\ WindowBounded
    OBVIOUS
  <2>1. /\ \A i \in Instances, k \in Clients : memory[i][k] = NoRecord
        /\ \A i \in Instances, k \in Clients : \A w \in Time : admitted[i][k][w] = 0
        /\ \A c \in Calls : stage[c] = "idle"
        /\ now = 1
    BY DEF Init
  <2>2. \A i \in Instances, k \in Clients : \A w \in Time :
          Waiting(i, k, w) = {} /\ Passed(i, k, w) = 0
    <3> SUFFICES ASSUME NEW i \in Instances, NEW k \in Clients, NEW w \in Time
                 PROVE  Waiting(i, k, w) = {} /\ Passed(i, k, w) = 0
      OBVIOUS
    <3>1. Waiting(i, k, w) = {}
      BY <2>1 DEF Waiting
    <3> QED BY <2>1, <3>1, FS_EmptySet DEF Passed
  <2>3. 0 \in Time
    BY DEF Time
  <2>4. SharedRecord /\ NothingLater /\ NothingAtZero
    BY <2>1, <2>3 DEF SharedRecord, NothingLater, NothingAtZero
  <2>5. BlockOutlivesWindow /\ OpenWithinBudget /\ WindowBounded
    BY <2>1, BudgetFacts DEF BlockOutlivesWindow, OpenWithinBudget, WindowBounded, NoRecord
  <2>6. PassedWithinHits
    BY <2>1, <2>2, BudgetFacts DEF PassedWithinHits, NoRecord
  <2> QED BY <2>4, <2>5, <2>6 DEF WindowInv
<1>2. TypeOK /\ WindowInv /\ WindowBounded /\ [Next]_vars => WindowInv' /\ WindowBounded'
  BY BlockStep, SharedRecordStep, WithinBudgetStep, LaterStep, ZeroStep, TallyStep DEF WindowInv
<1>3. TypeOK /\ WindowInv => WindowBudget
  <2> SUFFICES ASSUME TypeOK, WindowInv, NEW i \in Instances, NEW k \in Clients, NEW w \in Time
               PROVE  admitted[i][k][w] <= Budget
    BY DEF WindowBudget
  <2>1. admitted[i][k][w] \in Nat /\ Cardinality(Waiting(i, k, w)) \in Nat
    BY AdmittedType, WaitingFinite
  <2>2. CASE w = 0
    BY <2>2, BudgetFacts DEF WindowInv, NothingAtZero
  <2>3. CASE w # 0
    <3>1. Passed(i, k, w) <= Budget
      BY <2>3 DEF WindowInv, PassedWithinHits
    <3> QED BY <2>1, <3>1, BudgetFacts DEF Passed
  <2> QED BY <2>2, <2>3
<1> QED BY <1>1, <1>2, <1>3, TypeCorrect, PTL DEF Spec

-----------------------------------------------------------------------------
(* Nobody is turned away within the limit.  The hits of a record are never *)
(* more than the calls its window has counted, and a record is blocked     *)
(* only in a window that has counted too many, also when a block that ran  *)
(* out gives it a new count: no assumption on BlockDuration.               *)
WithinTime ==
  /\ now > 0 /\ now <= MaxTime
  /\ \A i \in Instances, k \in Clients : memory[i][k].timeToExpire \in Time
  /\ \A c \in Calls : answer[c].timeToExpire \in Time

HitsAreCounted ==
  \A i \in Instances, k \in Clients :
    LET r == memory[i][k] IN
      r.timeToExpire > 0 =>
        /\ r.totalHits <= counted[i][k][r.timeToExpire]
        /\ r.isBlocked => counted[i][k][r.timeToExpire] > Limit

RejectInv == WithinTime /\ HitsAreCounted /\ RejectedIsOverLimit

LEMMA CountedType ==
  ASSUME TypeOK, NEW i \in Instances, NEW k \in Clients, NEW w \in Time
  PROVE  counted[i][k][w] \in Nat
<1>1. counted[i] \in [Clients -> [Time -> Nat]]
  BY DEF TypeOK
<1>2. counted[i][k] \in [Time -> Nat]
  BY <1>1
<1> QED BY <1>2

(* A call that returns from the fallback is counted in the window of its   *)
(* record, and nowhere else.                                               *)
LEMMA ReturnCounts ==
  ASSUME TypeOK, NEW c \in Calls, NEW q, NEW holders, Return(c, q, holders),
         NEW i \in Instances, NEW k \in Clients, NEW w \in Time
  PROVE  counted'[i][k][w] =
           IF caller[c].instance = i /\ caller[c].client = k /\ q.timeToExpire = w
             THEN counted[i][k][w] + 1 ELSE counted[i][k][w]
<1>1. counted \in [Instances -> [Clients -> [Time -> Nat]]]
  BY DEF TypeOK
<1>2. counted[i] \in [Clients -> [Time -> Nat]] /\ counted[i][k] \in [Time -> Nat]
  BY <1>1
<1>3. counted' = [counted EXCEPT ![caller[c].instance][caller[c].client][q.timeToExpire] = @ + 1]
  BY DEF Return
<1>4. CASE caller[c].instance = i /\ caller[c].client = k
  <2>1. counted'[i][k] = [counted[i][k] EXCEPT ![q.timeToExpire] = @ + 1]
    BY <1>1, <1>2, <1>3, <1>4
  <2> QED BY <1>2, <1>4, <2>1
<1>5. CASE ~(caller[c].instance = i /\ caller[c].client = k)
  <2>1. counted'[i][k] = counted[i][k]
    BY <1>1, <1>2, <1>3, <1>5
  <2> QED BY <1>5, <2>1
<1> QED BY <1>4, <1>5

(* Any of the three branches of fallback: what it returns is covered by    *)
(* the calls of its window, this one included.                             *)
LEMMA ReturnRejects ==
  ASSUME TypeOK, RejectInv, NEW c \in Calls, NEW q \in Record, NEW holders,
         Return(c, q, holders), c \in holders, \A d \in holders : caller[d] = caller[c],
         q.timeToExpire \in Time \ {0},
         LET seen == counted[caller[c].instance][caller[c].client][q.timeToExpire] + 1 IN
           q.totalHits <= seen /\ (q.isBlocked => seen > Limit)
  PROVE  RejectInv'
<1>1. caller[c].instance \in Instances /\ caller[c].client \in Clients
  BY MineType
<1>2. now' = now /\ caller' = caller
  BY ReturnStep
<1>3. counted'[caller[c].instance][caller[c].client][q.timeToExpire] =
        counted[caller[c].instance][caller[c].client][q.timeToExpire] + 1
  BY <1>1, ReturnCounts
<1>4. ASSUME NEW i \in Instances, NEW k \in Clients, NEW w \in Time
      PROVE  /\ counted[i][k][w] \in Nat /\ counted'[i][k][w] \in Nat
             /\ counted'[i][k][w] >= counted[i][k][w]
  BY ReturnCounts, CountedType
<1>5. WithinTime'
  <2>1. ASSUME NEW i \in Instances, NEW k \in Clients PROVE memory'[i][k].timeToExpire \in Time
    BY ReturnMemory DEF RejectInv, WithinTime
  <2>2. ASSUME NEW d \in Calls PROVE answer'[d].timeToExpire \in Time
    BY ReturnStep DEF RejectInv, WithinTime
  <2>3. now > 0 /\ now <= MaxTime
    BY DEF RejectInv, WithinTime
  <2>4. Time' = Time
    BY DEF Time
  <2> QED BY <1>2, <2>1, <2>2, <2>3, <2>4 DEF WithinTime
<1>6. HitsAreCounted'
  <2> SUFFICES ASSUME NEW i \in Instances, NEW k \in Clients, memory'[i][k].timeToExpire > 0
               PROVE  /\ memory'[i][k].totalHits <= counted'[i][k][memory'[i][k].timeToExpire]
                      /\ memory'[i][k].isBlocked => counted'[i][k][memory'[i][k].timeToExpire] > Limit
    BY DEF HitsAreCounted
  <2>1. CASE caller[c].instance = i /\ caller[c].client = k
    <3>1. memory'[i][k] = q
      BY <2>1, ReturnMemory
    <3> QED BY <1>3, <2>1, <3>1
  <2>2. CASE ~(caller[c].instance = i /\ caller[c].client = k)
    <3>1. memory'[i][k] = memory[i][k]
      BY <2>2, ReturnMemory
    <3> DEFINE r == memory[i][k]
               w == r.timeToExpire
    <3>2. /\ w \in Time /\ r.totalHits \in Nat
          /\ r.totalHits <= counted[i][k][w] /\ (r.isBlocked => counted[i][k][w] > Limit)
      BY <3>1 DEF RejectInv, WithinTime, HitsAreCounted, TypeOK, Record
    <3>3. /\ counted[i][k][w] \in Nat /\ counted'[i][k][w] \in Nat
          /\ counted'[i][k][w] >= counted[i][k][w]
      BY <1>4, <3>2
    <3> QED BY <3>1, <3>2, <3>3
  <2> QED BY <2>1, <2>2
<1>7. RejectedIsOverLimit'
  <2> SUFFICES ASSUME NEW d \in Calls, stage'[d] = "guard", answer'[d].timeToExpire > 0,
                      answer'[d].isBlocked
               PROVE  counted'[caller[d].instance][caller[d].client][answer'[d].timeToExpire] > Limit
    BY <1>2 DEF RejectedIsOverLimit
  <2>1. caller[d].instance \in Instances /\ caller[d].client \in Clients
    BY MineType
  <2>2. CASE d \in holders
    <3>1. answer'[d] = q /\ caller[d] = caller[c]
      BY <2>2, ReturnStep
    <3> QED BY <1>3, <3>1
  <2>3. CASE d \notin holders
    <3>1. answer'[d] = answer[d] /\ stage[d] = "guard"
      BY <2>3, ReturnStep
    <3> DEFINE w == answer[d].timeToExpire
               n == counted[caller[d].instance][caller[d].client][w]
    <3>2. n > Limit /\ w \in Time
      BY <3>1 DEF RejectInv, RejectedIsOverLimit, WithinTime
    <3>3. /\ n \in Nat /\ counted'[caller[d].instance][caller[d].client][w] \in Nat
          /\ counted'[caller[d].instance][caller[d].client][w] >= n
      BY <1>4, <2>1, <3>2
    <3> HIDE DEF n
    <3>4. counted'[caller[d].instance][caller[d].client][w] > Limit
      BY <3>2, <3>3
    <3> QED BY <3>1, <3>4
  <2> QED BY <2>2, <2>3
<1> QED BY <1>5, <1>6, <1>7 DEF RejectInv

LEMMA RejectStep == TypeOK /\ RejectInv /\ [Next]_vars => RejectInv'
<1> SUFFICES ASSUME TypeOK, RejectInv, [Next]_vars PROVE RejectInv'
  OBVIOUS
<1>t. now \in Nat /\ now > 0 /\ now <= MaxTime
  BY DEF TypeOK, RejectInv, WithinTime
<1>1. ASSUME UNCHANGED <<now, memory, counted>>,
             \A d \in Calls : \/ answer'[d].timeToExpire = 0
                              \/ /\ stage[d] = "guard"
                                 /\ answer'[d] = answer[d] /\ caller'[d] = caller[d]
                              \/ stage'[d] # "guard" /\ answer'[d] = answer[d]
      PROVE  RejectInv'
  <2>1. Time' = Time /\ 0 \in Time
    BY DEF Time
  <2>2. WithinTime'
    BY <1>1, <2>1 DEF RejectInv, WithinTime
  <2>3. HitsAreCounted'
    BY <1>1 DEF RejectInv, HitsAreCounted
  <2>4. RejectedIsOverLimit'
    BY <1>1 DEF RejectInv, RejectedIsOverLimit
  <2> QED BY <2>2, <2>3, <2>4 DEF RejectInv
<1>2. ASSUME NEW c \in Calls, Aside(c) PROVE RejectInv'
  <2>1. UNCHANGED <<now, memory, counted>>
    BY <1>2 DEF Aside, Arrive, RedisIncrement, RedisThrows, history
  <2>2. \A d \in Calls \ {c} : stage'[d] = stage[d] /\ caller'[d] = caller[d] /\ answer'[d] = answer[d]
    BY <1>2, AsideStep
  <2>3. answer'[c].timeToExpire = 0 \/ (stage'[c] # "guard" /\ answer'[c] = answer[c])
    BY <1>2 DEF Aside, Arrive, RedisIncrement, RedisThrows, Goto, TypeOK
  <2> QED BY <1>1, <2>1, <2>2, <2>3
<1>3. ASSUME NEW c \in Calls, Guard(c) PROVE RejectInv'
  <2>1. UNCHANGED <<now, memory, counted, caller>>
    BY <1>3 DEF Guard
  <2>2. \A d \in Calls \ {c} : stage'[d] = stage[d] /\ answer'[d] = answer[d]
    BY <1>3 DEF Guard, Goto, TypeOK
  <2>3. answer'[c].timeToExpire = 0
    BY <1>3 DEF Guard, NoRecord, TypeOK
  <2> QED BY <1>1, <2>1, <2>2, <2>3
<1>4. ASSUME NEW c \in Calls, FallbackNew(c) PROVE RejectInv'
  <2>1. Return(c, NewRecord, {c}) /\ NewRecord \in Record
    BY <1>4, <1>t, NewRecordType DEF FallbackNew
  <2>2. NewRecord.timeToExpire = now + Ttl /\ NewRecord.totalHits = 1 /\ ~NewRecord.isBlocked
    BY DEF NewRecord
  <2>3. now + Ttl \in Time \ {0}
    BY <1>t DEF Time
  <2>4. counted[caller[c].instance][caller[c].client][now + Ttl] \in Nat
    BY <2>3, MineType, CountedType
  <2> QED BY <2>1, <2>2, <2>3, <2>4, ReturnRejects
<1>5. ASSUME NEW c \in Calls, FallbackBlocked(c) \/ FallbackCount(c)
      PROVE  LET r == Mine(c) IN
             /\ r \in Record /\ r.timeToExpire \in Time \ {0}
             /\ counted[caller[c].instance][caller[c].client][r.timeToExpire] \in Nat
             /\ r.totalHits <= counted[caller[c].instance][caller[c].client][r.timeToExpire]
             /\ r.isBlocked => counted[caller[c].instance][caller[c].client][r.timeToExpire] > Limit
  <2>1. /\ Mine(c) \in Record
        /\ caller[c].instance \in Instances /\ caller[c].client \in Clients
    BY MineType
  <2>2. ~(Mine(c).timeToExpire <= now)
    BY <1>5 DEF FallbackBlocked, FallbackCount, Expired
  <2>3. Mine(c).timeToExpire \in Time /\ Mine(c).timeToExpire > 0
    BY <1>t, <2>1, <2>2 DEF RejectInv, WithinTime, Mine, Record
  <2>4. counted[caller[c].instance][caller[c].client][Mine(c).timeToExpire] \in Nat
    BY <2>1, <2>3, CountedType
  <2>5. Mine(c).timeToExpire \in Time \ {0}
    BY <2>3
  <2>6. /\ Mine(c).totalHits <= counted[caller[c].instance][caller[c].client][Mine(c).timeToExpire]
        /\ Mine(c).isBlocked
             => counted[caller[c].instance][caller[c].client][Mine(c).timeToExpire] > Limit
    <3>1. \A i \in Instances, k \in Clients :
            memory[i][k].timeToExpire > 0 =>
              /\ memory[i][k].totalHits <= counted[i][k][memory[i][k].timeToExpire]
              /\ memory[i][k].isBlocked => counted[i][k][memory[i][k].timeToExpire] > Limit
      BY DEF RejectInv, HitsAreCounted
    <3>2. Mine(c) = memory[caller[c].instance][caller[c].client]
      BY DEF Mine
    <3> QED BY <2>1, <2>3, <3>1, <3>2, Zenon
  <2> QED BY <2>1, <2>4, <2>5, <2>6, Zenon
<1>6. ASSUME NEW c \in Calls, FallbackBlocked(c) PROVE RejectInv'
  <2> DEFINE r == Mine(c)
             n == counted[caller[c].instance][caller[c].client][r.timeToExpire]
  <2>1. Return(c, r, {c})
    BY <1>6 DEF FallbackBlocked
  <2>2. /\ r \in Record /\ r.timeToExpire \in Time \ {0} /\ n \in Nat
        /\ r.totalHits <= n /\ (r.isBlocked => n > Limit)
    BY <1>5, <1>6
  <2>3. r.totalHits \in Nat
    BY <2>2 DEF Record
  <2>4. r.totalHits <= n + 1 /\ (r.isBlocked => n + 1 > Limit)
    BY <2>2, <2>3
  <2> QED BY <2>1, <2>2, <2>4, ReturnRejects
<1>7. ASSUME NEW c \in Calls, FallbackCount(c) PROVE RejectInv'
  <2> DEFINE r == Mine(c)
             q == Count(r)
             n == counted[caller[c].instance][caller[c].client][r.timeToExpire]
             holders == {d \in Calls : SameObject(c, d)}
  <2>1. Return(c, q, holders)
    BY <1>7 DEF FallbackCount
  <2>2. c \in holders /\ \A d \in holders : caller[d] = caller[c]
    BY DEF SameObject
  <2>3. r \in Record /\ r.timeToExpire \in Time \ {0} /\ n \in Nat /\ r.totalHits <= n
    BY <1>5, <1>7
  <2>4. /\ q \in Record
        /\ q.timeToExpire = r.timeToExpire
        /\ q.totalHits = (IF r.isBlocked THEN 1 ELSE r.totalHits + 1)
        /\ q.isBlocked = (q.totalHits > Limit)
    BY <1>t, <2>3, CountType, CountFields
  <2>5. r.totalHits \in Nat
    BY <2>3 DEF Record
  <2> HIDE DEF q, n, holders, r
  <2>6. q.totalHits \in Nat /\ q.totalHits <= n + 1
    BY <2>3, <2>4, <2>5
  <2>7. ASSUME q.isBlocked PROVE n + 1 > Limit
    <3>1. q.totalHits > Limit
      BY <2>4, <2>7
    <3> QED BY <2>3, <2>6, <3>1
  <2> QED BY <2>1, <2>2, <2>3, <2>4, <2>6, <2>7, ReturnRejects DEF n
<1>8. ASSUME Tick PROVE RejectInv'
  <2>1. now' > 0 /\ now' <= MaxTime /\ UNCHANGED <<memory, stage, caller, answer, counted>>
    BY <1>8, <1>t, ThrottlerAssumption DEF Tick, history
  <2>2. Time' = Time
    BY DEF Time
  <2> QED BY <2>1, <2>2 DEF RejectInv, WithinTime, HitsAreCounted, RejectedIsOverLimit
<1>9. ASSUME (\E i \in Instances : Reconnect(i)) \/ UNCHANGED vars PROVE RejectInv'
  <2>1. UNCHANGED <<now, memory, stage, caller, answer, counted>>
    BY <1>9 DEF Reconnect, vars, history
  <2>2. Time' = Time
    BY DEF Time
  <2> QED BY <2>1, <2>2 DEF RejectInv, WithinTime, HitsAreCounted, RejectedIsOverLimit
<1> QED BY <1>2, <1>3, <1>4, <1>6, <1>7, <1>8, <1>9 DEF Next, Aside

(* The fallback turns a call away only in a window that has counted more   *)
(* than Limit calls of the client on this instance, for any parameters:    *)
(* neither a shared record nor a block that ran out can reject early.      *)
THEOREM RejectedIsOverLimitHolds == Spec => []RejectedIsOverLimit
<1>1. Init => RejectInv
  <2> SUFFICES ASSUME Init PROVE RejectInv
    OBVIOUS
  <2>1. 0 \in Time /\ now > 0 /\ now <= MaxTime
    BY ThrottlerAssumption DEF Init, Time
  <2>2. /\ \A i \in Instances, k \in Clients : memory[i][k].timeToExpire = 0
        /\ \A c \in Calls : answer[c].timeToExpire = 0
    BY DEF Init, NoRecord
  <2> QED BY <2>1, <2>2 DEF RejectInv, WithinTime, HitsAreCounted, RejectedIsOverLimit
<1>2. RejectInv => RejectedIsOverLimit
  BY DEF RejectInv
<1> QED BY <1>1, <1>2, RejectStep, TypeCorrect, PTL DEF Spec

-----------------------------------------------------------------------------
(* Where a call within the limit is turned away: only where two calls of   *)
(* one client wait for their guards together.                              *)
WaitApart ==
  \A c, d \in Calls :
    c # d /\ stage[c] = "guard" /\ stage[d] = "guard" => caller[c] # caller[d]

BlockedIsOver(r) == r.isBlocked => r.totalHits > Limit

(* A record is blocked by a count over the limit, and the record a guard   *)
(* will read still has the count it was returned with.                     *)
ReadsItsOwn ==
  /\ \A i \in Instances, k \in Clients : BlockedIsOver(memory[i][k])
  /\ \A c \in Calls : stage[c] # "guard" => nth[c] = 0
  /\ \A c \in Calls : nth[c] # 0 => nth[c] = answer[c].totalHits /\ BlockedIsOver(answer[c])

(* A call that leaves the fallback alone keeps ReadsItsOwn.                *)
LEMMA ReturnApart ==
  ASSUME TypeOK, ReadsItsOwn, NEW c \in Calls, NEW r \in Record, BlockedIsOver(r),
         Return(c, r, {c})
  PROVE  ReadsItsOwn'
<1>1. /\ memory' = [memory EXCEPT ![caller[c].instance][caller[c].client] = r]
      /\ answer' = [d \in Calls |-> IF d \in {c} THEN r ELSE answer[d]]
      /\ nth' = [nth EXCEPT ![c] = r.totalHits]
      /\ stage' = [stage EXCEPT ![c] = "guard"]
  BY DEF Return, Goto
<1>2. \A i \in Instances, k \in Clients : memory'[i][k] = r \/ memory'[i][k] = memory[i][k]
  BY <1>1 DEF TypeOK
<1>3. (\A i \in Instances, k \in Clients : BlockedIsOver(memory[i][k]))'
  BY <1>2 DEF ReadsItsOwn, BlockedIsOver
<1>4. /\ answer'[c] = r /\ nth'[c] = r.totalHits /\ stage'[c] = "guard"
      /\ \A d \in Calls : d # c => /\ answer'[d] = answer[d] /\ nth'[d] = nth[d]
                                   /\ stage'[d] = stage[d]
  BY <1>1 DEF TypeOK
<1> QED
  BY <1>3, <1>4 DEF ReadsItsOwn, BlockedIsOver

(* Every step keeps ReadsItsOwn if the calls still wait apart after it.    *)
LEMMA ReadsItsOwnStep == TypeOK /\ ReadsItsOwn /\ WaitApart' /\ [Next]_vars => ReadsItsOwn'
<1> SUFFICES ASSUME TypeOK, ReadsItsOwn, WaitApart', [Next]_vars PROVE ReadsItsOwn'
  OBVIOUS
<1>1. ASSUME NEW c \in Calls, Arrive(c) \/ RedisThrows(c) PROVE ReadsItsOwn'
  <2>1. UNCHANGED <<memory, answer, nth>> /\ stage[c] # "guard"
    BY <1>1 DEF Arrive, RedisThrows
  <2>2. \A d \in Calls : d # c => stage'[d] = stage[d]
    BY <1>1 DEF Arrive, RedisThrows, Goto, TypeOK
  <2> QED
    BY <2>1, <2>2 DEF ReadsItsOwn
<1>2. ASSUME NEW c \in Calls, RedisIncrement(c) PROVE ReadsItsOwn'
  <2>1. UNCHANGED <<memory, nth>> /\ stage[c] = "redis"
    BY <1>2 DEF RedisIncrement
  <2>2. \A d \in Calls : d # c => stage'[d] = stage[d] /\ answer'[d] = answer[d]
    BY <1>2 DEF RedisIncrement, Goto, TypeOK
  <2>3. nth[c] = 0
    BY <2>1 DEF ReadsItsOwn
  <2> QED
    BY <2>1, <2>2, <2>3 DEF ReadsItsOwn
<1>3. ASSUME NEW c \in Calls, FallbackNew(c) PROVE ReadsItsOwn'
  <2>1. NewRecord \in Record /\ BlockedIsOver(NewRecord)
    BY NewRecordType DEF NewRecord, BlockedIsOver, TypeOK
  <2> QED
    BY <1>3, <2>1, ReturnApart DEF FallbackNew
<1>4. ASSUME NEW c \in Calls, FallbackBlocked(c) PROVE ReadsItsOwn'
  <2>1. Mine(c) \in Record /\ BlockedIsOver(Mine(c))
    BY MineType DEF ReadsItsOwn, Mine
  <2> QED
    BY <1>4, <2>1, ReturnApart DEF FallbackBlocked
<1>5. ASSUME NEW c \in Calls, FallbackCount(c) PROVE ReadsItsOwn'
  <2> DEFINE r == Count(Mine(c))
             holders == {d \in Calls : SameObject(c, d)}
  <2>1. Return(c, r, holders) /\ r \in Record
    BY <1>5, MineType, CountType DEF FallbackCount, TypeOK
  <2>2. BlockedIsOver(r)
    <3>1. now \in Nat /\ Mine(c) \in Record
      BY MineType DEF TypeOK
    <3>2. r.isBlocked = (r.totalHits > Limit)
      BY <3>1, CountFields
    <3> QED
      BY <3>2 DEF BlockedIsOver
  <2>3. stage' = [stage EXCEPT ![c] = "guard"] /\ caller' = caller
    BY <2>1 DEF Return, Goto
  <2>4. holders = {c}
    <3> SUFFICES ASSUME NEW d \in Calls, SameObject(c, d), d # c PROVE FALSE
      BY DEF SameObject
    <3>1. stage[d] = "guard" /\ caller[d] = caller[c]
      BY DEF SameObject
    <3>2. stage'[d] = "guard" /\ stage'[c] = "guard"
      BY <2>3, <3>1 DEF TypeOK
    <3> QED
      BY <2>3, <3>1, <3>2 DEF WaitApart
  <2> QED
    BY <2>1, <2>2, <2>4, ReturnApart
<1>6. ASSUME NEW c \in Calls, Guard(c) PROVE ReadsItsOwn'
  <2>1. /\ memory' = memory /\ nth'[c] = 0
        /\ \A d \in Calls : d # c => /\ stage'[d] = stage[d] /\ answer'[d] = answer[d]
                                     /\ nth'[d] = nth[d]
    BY <1>6 DEF Guard, Goto, TypeOK
  <2> QED
    BY <2>1 DEF ReadsItsOwn
<1>7. ASSUME (\E i \in Instances : Reconnect(i)) \/ Tick \/ UNCHANGED vars PROVE ReadsItsOwn'
  <2>1. UNCHANGED <<memory, stage, answer, nth>>
    BY <1>7 DEF Reconnect, Tick, vars
  <2> QED
    BY <2>1 DEF ReadsItsOwn
<1> QED
  BY <1>1, <1>2, <1>3, <1>4, <1>5, <1>6, <1>7 DEF Next

(* A call counted within the limit is let through as long as no two calls  *)
(* of a client wait for their guards on one instance at the same time: the *)
(* shared record is the only way in which one is turned away.              *)
THEOREM ApartIsAdmitted == Spec /\ []WaitApart => []WithinLimitIsAdmitted
<1>1. Init => ReadsItsOwn
  BY DEF Init, ReadsItsOwn, BlockedIsOver, NoRecord
<1>2. ReadsItsOwn => WithinLimitIsAdmitted
  <2> SUFFICES ASSUME ReadsItsOwn, NEW c \in Calls, nth[c] \in 1 .. Limit
               PROVE  ~answer[c].isBlocked
    BY DEF WithinLimitIsAdmitted
  <2>1. nth[c] = answer[c].totalHits /\ BlockedIsOver(answer[c]) /\ ~(nth[c] > Limit)
    BY DEF ReadsItsOwn
  <2> QED
    BY <2>1 DEF BlockedIsOver
<1> QED
  BY <1>1, <1>2, ReadsItsOwnStep, TypeCorrect, PTL DEF Spec
=============================================================================
