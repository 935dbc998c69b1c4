-------------------------- MODULE TodoCacheProofs --------------------------
(***************************************************************************)
(* Proofs about TodoCache for any sets of todos, users, queries and        *)
(* request slots, any key prefix, any number of outages and mutations, and *)
(* with database failures.                                                 *)
(***************************************************************************)
EXTENDS TodoCache, SequenceTheorems, TLAPS

(* The operation a step belongs to.                                        *)
OpOf(step) ==
  CASE step \in {"create.insert", "create.keys", "create.del"} -> "create"
    [] step \in {"findAll.get", "findAll.query", "findAll.set"} -> "findAll"
    [] step \in {"findOne.get", "findOne.query", "findOne.set"} -> "findOne"
    [] step \in {"remove.find", "remove.refind", "remove.delete", "remove.del"} -> "remove"
    [] step \in {"update.write", "update.del"} -> "update"
    [] OTHER -> "none"

StepMatchesOp == \A p \in Procs : pc[p] # "idle" => req[p].op = OpOf(pc[p])

TypeInv == TypeOK /\ StepMatchesOp

-----------------------------------------------------------------------------
(* The operands of a request, by its operation.                            *)
LEMMA RequestFields ==
  ASSUME NEW r \in Requests
  PROVE  /\ r.op \in {"create", "findAll", "findOne", "remove", "update"}
         /\ r.op # "findAll" => r.id \in Ids
         /\ r.op = "findAll" => r.user \in Users /\ r.query \in Queries
  BY DEF Requests

(* The keys of one todo and of list pages are keys, and all distinct.      *)
LEMMA KeyFacts ==
  /\ \A i \in Ids : TodoKey(i) \in Keys
  /\ \A u \in Users, q \in Queries : ListKey(u, q) \in Keys
  /\ \A i, j \in Ids : TodoKey(i) = TodoKey(j) => i = j
  /\ \A i \in Ids, u \in Users, q \in Queries : TodoKey(i) # ListKey(u, q)
  BY DEF TodoKey, ListKey, Keys

(* The names KEYS returns are names of the server.                         *)
LEMMA KeysReplyType == \A pattern : KeysReply(pattern) \subseteq Names
  BY DEF KeysReply

(* A commit on a row keeps the table well typed and touches that row only. *)
LEMMA CommitType ==
  ASSUME NEW i \in Ids, NEW b \in BOOLEAN, row \in [Ids -> [live : BOOLEAN, ver : Nat]]
  PROVE  /\ Commit(i, b) \in [Ids -> [live : BOOLEAN, ver : Nat]]
         /\ Commit(i, b)[i] = [live |-> b, ver |-> row[i].ver + 1]
         /\ \A j \in Ids : j # i => Commit(i, b)[j] = row[j]
  BY DEF Commit

LEMMA AbsentType == Absent \in Entry
  BY DEF Absent, Entry

LEMMA InitType == Init => TypeInv
<1> SUFFICES ASSUME Init PROVE TypeInv
  OBVIOUS
<1>1. (CHOOSE r \in Requests : TRUE) \in Requests
  <2>1. PICK i \in Ids : TRUE
    BY OwnerAssumption
  <2>2. [op |-> "findOne", id |-> i] \in Requests
    BY DEF Requests
  <2> QED
    BY <2>2
<1>2. row \in [Ids -> [live : BOOLEAN, ver : Nat]]
  <2>1. {[live |-> FALSE, ver |-> 0], [live |-> TRUE, ver |-> 1]}
          \subseteq [live : BOOLEAN, ver : Nat]
    OBVIOUS
  <2> QED
    BY <2>1 DEF Init
<1>3. redis \in [Keys -> Entry]
  BY AbsentType DEF Init
<1>4. req \in [Procs -> Requests]
  BY <1>1 DEF Init
<1>5. result \in [Procs -> [status : Statuses, todos : SUBSET Todos]]
  BY DEF Init, Pending, Answer, Statuses
<1>6. StepMatchesOp
  BY DEF Init, StepMatchesOp
<1> QED
  BY <1>2, <1>3, <1>4, <1>5, <1>6 DEF Init, TypeInv, TypeOK, Steps, BlameValues

(* A request that finishes keeps the request variables well typed.         *)
LEMMA FinishType ==
  ASSUME TypeInv, NEW p \in Procs, NEW status \in Statuses, NEW todos \in SUBSET Todos,
         Finish(p, status, todos), UNCHANGED req
  PROVE  /\ pc' \in [Procs -> Steps]
         /\ seen' \in [Procs -> SUBSET Todos]
         /\ found' \in [Procs -> SUBSET Names]
         /\ result' \in [Procs -> [status : Statuses, todos : SUBSET Todos]]
         /\ StepMatchesOp'
<1>1. pc' \in [Procs -> Steps] /\ seen' \in [Procs -> SUBSET Todos]
  BY DEF TypeInv, TypeOK, Finish, Steps
<1>2. found' \in [Procs -> SUBSET Names]
  BY DEF TypeInv, TypeOK, Finish
<1>3. result' \in [Procs -> [status : Statuses, todos : SUBSET Todos]]
  BY DEF TypeInv, TypeOK, Finish, Answer
<1>4. StepMatchesOp'
  BY DEF TypeInv, TypeOK, StepMatchesOp, Finish
<1> QED
  BY <1>1, <1>2, <1>3, <1>4

(* So does one that goes on to another step of its method, ...             *)
LEMMA GotoType ==
  ASSUME TypeInv, NEW p \in Procs, NEW step \in Steps, Goto(p, step), UNCHANGED req,
         pc[p] # "idle", OpOf(step) = OpOf(pc[p])
  PROVE  pc' \in [Procs -> Steps] /\ StepMatchesOp'
  BY DEF TypeInv, TypeOK, Goto, StepMatchesOp

(* ... taking todos into its local variable or leaving it alone.           *)
LEMMA HoldType ==
  ASSUME TypeInv, NEW p \in Procs, NEW todos \in SUBSET Todos, Hold(p, todos)
  PROVE  /\ seen' \in [Procs -> SUBSET Todos]
         /\ found' \in [Procs -> SUBSET Names]
         /\ result' \in [Procs -> [status : Statuses, todos : SUBSET Todos]]
  BY DEF TypeInv, TypeOK, Hold

LEMMA StayType ==
  ASSUME TypeInv, NEW p \in Procs, Stay(p)
  PROVE  /\ seen' \in [Procs -> SUBSET Todos]
         /\ found' \in [Procs -> SUBSET Names]
         /\ result' \in [Procs -> [status : Statuses, todos : SUBSET Todos]]
  BY DEF TypeInv, TypeOK, Stay

(* The cache commands keep the cache well typed.                           *)
LEMMA CacheTypes ==
  ASSUME TypeInv, NEW k \in Keys, NEW todos \in SUBSET Todos, NEW ttl \in Nat, NEW args
  PROVE  /\ CacheSet(k, todos, ttl) => redis' \in [Keys -> Entry]
         /\ CacheDel(args) => redis' \in [Keys -> Entry]
         /\ CacheGet(k) \in Entry
<1>1. CacheSet(k, todos, ttl) => redis' \in [Keys -> Entry]
  BY DEF TypeInv, TypeOK, CacheSet, Entry
<1>2. CacheDel(args) => redis' \in [Keys -> Entry]
  BY AbsentType DEF TypeInv, TypeOK, CacheDel
<1>3. CacheGet(k) \in Entry
  BY AbsentType DEF TypeInv, TypeOK, CacheGet
<1> QED
  BY <1>1, <1>2, <1>3

(* What a write decided by the database leaves in the table.               *)
LEMMA WrittenType ==
  ASSUME TypeInv, NEW p \in Procs, req[p].op # "findAll"
  PROVE  Written(req[p]) \in [Ids -> [live : BOOLEAN, ver : Nat]]
<1>1. req[p].id \in Ids /\ (req[p].op # "remove") \in BOOLEAN
  BY RequestFields DEF TypeInv, TypeOK
<1> QED
  BY <1>1, CommitType DEF Written, TypeInv, TypeOK

LEMMA TypeStep == TypeInv /\ [Next]_vars => TypeInv'
<1> SUFFICES ASSUME TypeInv, [Next]_vars PROVE TypeInv'
  OBVIOUS
<1> USE DEF TypeInv
<1>1. ASSUME NEW p \in Procs, Arrive(p) PROVE TypeInv'
  <2>1. PICK r \in Requests : /\ req' = [req EXCEPT ![p] = r]
                              /\ Goto(p, FirstStep[r.op])
                              /\ mutations' = IF Mutating(r) THEN mutations + 1 ELSE mutations
    BY <1>1 DEF Arrive
  <2>2. FirstStep[r.op] \in Steps /\ OpOf(FirstStep[r.op]) = r.op
    BY RequestFields DEF FirstStep, Steps, DbSteps, CacheSteps, OpOf
  <2>3. pc' \in [Procs -> Steps] /\ req' \in [Procs -> Requests]
    BY <2>1, <2>2 DEF TypeOK, Goto
  <2>4. result' \in [Procs -> [status : Statuses, todos : SUBSET Todos]]
    BY <1>1 DEF Arrive, TypeOK, Pending, Answer, Statuses
  <2>5. mutations' \in Nat
    BY <2>1 DEF TypeOK
  <2>6. StepMatchesOp'
    BY <2>1, <2>2 DEF StepMatchesOp, TypeOK, Goto
  <2> QED
    BY <1>1, <2>3, <2>4, <2>5, <2>6 DEF Arrive, TypeOK, store
<1>2. ASSUME NEW p \in Procs, CreateInsert(p) PROVE TypeInv'
  <2>1. req[p].op = "create" /\ req[p].id \in Ids
    BY <1>2, RequestFields DEF CreateInsert, StepMatchesOp, TypeOK, OpOf
  <2>2. {<<req[p].id, row[req[p].id].ver + 1>>} \in SUBSET Todos
    BY <2>1 DEF TypeOK, Todos
  <2>3. row' \in [Ids -> [live : BOOLEAN, ver : Nat]]
    BY <1>2, <2>1, WrittenType DEF CreateInsert, TypeOK
  <2>4. CASE Goto(p, "create.keys") /\ Hold(p, {<<req[p].id, row[req[p].id].ver + 1>>})
    <3>1. pc' \in [Procs -> Steps] /\ StepMatchesOp'
      BY <1>2, <2>4, GotoType DEF CreateInsert, OpOf, Steps, CacheSteps
    <3> QED
      BY <1>2, <2>2, <2>3, <2>4, <3>1, HoldType DEF CreateInsert, TypeOK, counters
  <2>5. CASE Finish(p, 409, {})
    BY <1>2, <2>3, <2>5, FinishType DEF CreateInsert, TypeOK, counters, Statuses
  <2> QED
    BY <1>2, <2>4, <2>5 DEF CreateInsert
<1>3. ASSUME NEW p \in Procs, CreateKeys(p) PROVE TypeInv'
  <2>1. CASE /\ Goto(p, "create.del")
             /\ found' = [found EXCEPT ![p] = KeysReply(UserPattern(Owner[req[p].id]))]
             /\ UNCHANGED <<seen, result>>
    <3>1. pc' \in [Procs -> Steps] /\ StepMatchesOp'
      BY <1>3, <2>1, GotoType DEF CreateKeys, OpOf, Steps, CacheSteps
    <3>2. found' \in [Procs -> SUBSET Names]
      BY <2>1, KeysReplyType DEF TypeOK
    <3> QED
      BY <1>3, <2>1, <3>1, <3>2 DEF CreateKeys, TypeOK, store, counters
  <2>2. CASE Finish(p, 201, seen[p])
    BY <1>3, <2>2, FinishType DEF CreateKeys, TypeOK, store, counters, Statuses
  <2> QED
    BY <1>3, <2>1, <2>2 DEF CreateKeys
<1>4. ASSUME NEW p \in Procs, CreateDel(p) PROVE TypeInv'
  <2>1. redis' \in [Keys -> Entry]
    BY <1>4, AbsentType DEF CreateDel, CacheDel, TypeOK
  <2>2. blame' \in [Ids -> BlameValues] /\ seen[p] \in SUBSET Todos
    BY <1>4 DEF CreateDel, TypeOK, BlameValues
  <2> QED
    BY <1>4, <2>1, <2>2, FinishType DEF CreateDel, TypeOK, counters, Statuses
<1>5. ASSUME NEW p \in Procs, FindAllGet(p) PROVE TypeInv'
  <2> DEFINE cached == CacheGet(ListKey(req[p].user, req[p].query))
  <2>1. cached \in Entry
    <3>1. ListKey(req[p].user, req[p].query) \in Keys
      BY <1>5, RequestFields, KeyFacts DEF FindAllGet, StepMatchesOp, TypeOK, OpOf
    <3> QED
      BY <3>1, AbsentType DEF CacheGet, TypeOK
  <2>2. CASE Finish(p, 200, cached.todos)
    BY <1>5, <2>1, <2>2, FinishType DEF FindAllGet, Entry, TypeOK, store, counters, Statuses
  <2>3. CASE Goto(p, "findAll.query") /\ Stay(p)
    <3>1. pc' \in [Procs -> Steps] /\ StepMatchesOp'
      BY <1>5, <2>3, GotoType DEF FindAllGet, OpOf, Steps, DbSteps
    <3> QED
      BY <1>5, <2>3, <3>1, StayType DEF FindAllGet, TypeOK, store, counters
  <2> QED
    BY <1>5, <2>2, <2>3 DEF FindAllGet
<1>6. ASSUME NEW p \in Procs, FindAllQuery(p) PROVE TypeInv'
  <2>0. UNION {Current(i) : i \in LiveOf(req[p].user)} \in SUBSET Todos
    BY DEF Current, LiveOf, TypeOK, Todos
  <2>1. CASE Goto(p, "findAll.set") /\ Hold(p, UNION {Current(i) : i \in LiveOf(req[p].user)})
    <3>1. pc' \in [Procs -> Steps] /\ StepMatchesOp'
      BY <1>6, <2>1, GotoType DEF FindAllQuery, OpOf, Steps, DbSteps, CacheSteps
    <3> QED
      BY <1>6, <2>0, <2>1, <3>1, HoldType DEF FindAllQuery, TypeOK, store, counters
  <2> QED
    BY <1>6, <2>1 DEF FindAllQuery
<1>7. ASSUME NEW p \in Procs, FindAllSet(p) PROVE TypeInv'
  <2>1. ListKey(req[p].user, req[p].query) \in Keys /\ seen[p] \in SUBSET Todos
    BY <1>7, RequestFields, KeyFacts DEF FindAllSet, StepMatchesOp, TypeOK, OpOf
  <2>2. redis' \in [Keys -> Entry]
    BY <1>7, <2>1, CacheTypes DEF FindAllSet
  <2>3. blame' \in [Ids -> BlameValues]
    BY <1>7 DEF FindAllSet, TypeOK, BlameValues
  <2> QED
    BY <1>7, <2>1, <2>2, <2>3, FinishType DEF FindAllSet, TypeOK, counters, Statuses
<1>8. ASSUME NEW p \in Procs, FindOneGet(p) PROVE TypeInv'
  <2> DEFINE cached == CacheGet(TodoKey(req[p].id))
  <2>1. cached \in Entry
    <3>1. TodoKey(req[p].id) \in Keys
      BY <1>8, RequestFields, KeyFacts DEF FindOneGet, StepMatchesOp, TypeOK, OpOf
    <3> QED
      BY <3>1, AbsentType DEF CacheGet, TypeOK
  <2>2. CASE Finish(p, 200, cached.todos)
    BY <1>8, <2>1, <2>2, FinishType DEF FindOneGet, Entry, TypeOK, store, counters, Statuses
  <2>3. CASE Goto(p, "findOne.query") /\ Stay(p)
    <3>1. pc' \in [Procs -> Steps] /\ StepMatchesOp'
      BY <1>8, <2>3, GotoType DEF FindOneGet, OpOf, Steps, DbSteps
    <3> QED
      BY <1>8, <2>3, <3>1, StayType DEF FindOneGet, TypeOK, store, counters
  <2> QED
    BY <1>8, <2>2, <2>3 DEF FindOneGet
<1>9. ASSUME NEW p \in Procs, FindOneQuery(p) PROVE TypeInv'
  <2>0. Current(req[p].id) \in SUBSET Todos
    BY <1>9, RequestFields DEF FindOneQuery, StepMatchesOp, TypeOK, OpOf, Current, Todos
  <2>1. CASE Goto(p, "findOne.set") /\ Hold(p, Current(req[p].id))
    <3>1. pc' \in [Procs -> Steps] /\ StepMatchesOp'
      BY <1>9, <2>1, GotoType DEF FindOneQuery, OpOf, Steps, DbSteps, CacheSteps
    <3> QED
      BY <1>9, <2>0, <2>1, <3>1, HoldType DEF FindOneQuery, TypeOK, store, counters
  <2>2. CASE Finish(p, 404, {})
    BY <1>9, <2>2, FinishType DEF FindOneQuery, TypeOK, store, counters, Statuses
  <2> QED
    BY <1>9, <2>1, <2>2 DEF FindOneQuery
<1>10. ASSUME NEW p \in Procs, FindOneSet(p) PROVE TypeInv'
  <2>1. TodoKey(req[p].id) \in Keys /\ seen[p] \in SUBSET Todos
    BY <1>10, RequestFields, KeyFacts DEF FindOneSet, StepMatchesOp, TypeOK, OpOf
  <2>2. redis' \in [Keys -> Entry]
    BY <1>10, <2>1, CacheTypes DEF FindOneSet
  <2>3. blame' \in [Ids -> BlameValues]
    BY <1>10 DEF FindOneSet, TypeOK, BlameValues
  <2>4. Finish(p, 200, seen[p]) /\ UNCHANGED <<row, redisUp, req, counters>>
    BY <1>10 DEF FindOneSet
  <2> QED
    BY <2>1, <2>2, <2>3, <2>4, FinishType DEF TypeOK, counters, Statuses
<1>11. ASSUME NEW p \in Procs, RemoveFind(p) PROVE TypeInv'
  <2>1. CASE Goto(p, "remove.refind") /\ Stay(p)
    <3>1. pc' \in [Procs -> Steps] /\ StepMatchesOp'
      BY <1>11, <2>1, GotoType DEF RemoveFind, OpOf, Steps, DbSteps, CacheSteps
    <3> QED
      BY <1>11, <2>1, <3>1, StayType DEF RemoveFind, TypeOK, store, counters
  <2>2. CASE Finish(p, 404, {})
    BY <1>11, <2>2, FinishType DEF RemoveFind, TypeOK, store, counters, Statuses
  <2> QED
    BY <1>11, <2>1, <2>2 DEF RemoveFind
<1>12. ASSUME NEW p \in Procs, RemoveRefind(p) PROVE TypeInv'
  <2>1. CASE Goto(p, "remove.delete") /\ Stay(p)
    <3>1. pc' \in [Procs -> Steps] /\ StepMatchesOp'
      BY <1>12, <2>1, GotoType DEF RemoveRefind, OpOf, Steps, DbSteps, CacheSteps
    <3> QED
      BY <1>12, <2>1, <3>1, StayType DEF RemoveRefind, TypeOK, store, counters
  <2> QED
    BY <1>12, <2>1 DEF RemoveRefind
<1>13. ASSUME NEW p \in Procs, RemoveDelete(p) PROVE TypeInv'
  <2>1. req[p].op = "remove" /\ req[p].id \in Ids
    BY <1>13, RequestFields DEF RemoveDelete, StepMatchesOp, TypeOK, OpOf
  <2>2. {<<req[p].id, row[req[p].id].ver + 1>>} \in SUBSET Todos
    BY <2>1 DEF TypeOK, Todos
  <2>3. row' \in [Ids -> [live : BOOLEAN, ver : Nat]]
    BY <1>13, <2>1, WrittenType DEF RemoveDelete, TypeOK
  <2>4. CASE Goto(p, "remove.del") /\ Stay(p)
    <3>1. pc' \in [Procs -> Steps] /\ StepMatchesOp'
      BY <1>13, <2>4, GotoType DEF RemoveDelete, OpOf, Steps, CacheSteps
    <3> QED
      BY <1>13, <2>2, <2>3, <2>4, <3>1, StayType DEF RemoveDelete, TypeOK, counters
  <2>5. CASE Finish(p, 404, {})
    BY <1>13, <2>3, <2>5, FinishType DEF RemoveDelete, TypeOK, counters, Statuses
  <2> QED
    BY <1>13, <2>4, <2>5 DEF RemoveDelete
<1>14. ASSUME NEW p \in Procs, RemoveDel(p) PROVE TypeInv'
  <2>1. redis' \in [Keys -> Entry]
    BY <1>14, AbsentType DEF RemoveDel, DelTodo, CacheDel, TypeOK
  <2>2. blame' \in [Ids -> BlameValues] /\ {} \in SUBSET Todos
    BY <1>14 DEF RemoveDel, DelTodo, TypeOK, BlameValues
  <2> QED
    BY <1>14, <2>1, <2>2, FinishType DEF RemoveDel, TypeOK, counters, Statuses
<1>15. ASSUME NEW p \in Procs, UpdateWrite(p) PROVE TypeInv'
  <2>1. req[p].op = "update" /\ req[p].id \in Ids
    BY <1>15, RequestFields DEF UpdateWrite, StepMatchesOp, TypeOK, OpOf
  <2>2. {<<req[p].id, row[req[p].id].ver + 1>>} \in SUBSET Todos
    BY <2>1 DEF TypeOK, Todos
  <2>3. row' \in [Ids -> [live : BOOLEAN, ver : Nat]]
    BY <1>15, <2>1, WrittenType DEF UpdateWrite, TypeOK
  <2>4. CASE Goto(p, "update.del") /\ Hold(p, {<<req[p].id, row[req[p].id].ver + 1>>})
    <3>1. pc' \in [Procs -> Steps] /\ StepMatchesOp'
      BY <1>15, <2>4, GotoType DEF UpdateWrite, OpOf, Steps, CacheSteps
    <3> QED
      BY <1>15, <2>2, <2>3, <2>4, <3>1, HoldType DEF UpdateWrite, TypeOK, counters
  <2>5. CASE Finish(p, 404, {})
    BY <1>15, <2>3, <2>5, FinishType DEF UpdateWrite, TypeOK, counters, Statuses
  <2> QED
    BY <1>15, <2>4, <2>5 DEF UpdateWrite
<1>16. ASSUME NEW p \in Procs, UpdateDel(p) PROVE TypeInv'
  <2>1. redis' \in [Keys -> Entry]
    BY <1>16, AbsentType DEF UpdateDel, DelTodo, CacheDel, TypeOK
  <2>2. blame' \in [Ids -> BlameValues] /\ seen[p] \in SUBSET Todos
    BY <1>16 DEF UpdateDel, DelTodo, TypeOK, BlameValues
  <2> QED
    BY <1>16, <2>1, <2>2, FinishType DEF UpdateDel, TypeOK, counters, Statuses
<1>17. ASSUME NEW p \in Procs, DbError(p) PROVE TypeInv'
  <2>1. CASE UNCHANGED <<row, blame>>
    BY <1>17, <2>1, FinishType DEF DbError, TypeOK, counters, Statuses
  <2>2. CASE /\ pc[p] \in WriteSteps
             /\ row' = Written(req[p])
             /\ blame' = [blame EXCEPT ![req[p].id] = "lost ack"]
    <3>1. req[p].op # "findAll"
      BY <2>2 DEF WriteSteps, StepMatchesOp, OpOf
    <3>2. row' \in [Ids -> [live : BOOLEAN, ver : Nat]]
      BY <2>2, <3>1, WrittenType
    <3>3. blame' \in [Ids -> BlameValues]
      BY <2>2 DEF TypeOK, BlameValues
    <3>4. Finish(p, 500, {}) /\ UNCHANGED <<redis, redisUp, req, counters>>
      BY <1>17 DEF DbError
    <3> QED
      BY <3>2, <3>3, <3>4, FinishType DEF TypeOK, counters, Statuses
  <2> QED
    BY <1>17, <2>1, <2>2 DEF DbError
<1>18. ASSUME NEW k \in Keys, Expire(k) PROVE TypeInv'
  <2>1. redis' \in [Keys -> Entry] /\ blame' \in [Ids -> BlameValues]
    BY <1>18, AbsentType DEF Expire, TypeOK, BlameValues
  <2> QED
    BY <1>18, <2>1 DEF Expire, TypeOK, StepMatchesOp, counters
<1>19. ASSUME RedisDown PROVE TypeInv'
  <2>1. redisUp' \in BOOLEAN /\ outages' \in Nat
    <3>1. redisUp' = FALSE
      BY <1>19 DEF RedisDown
    <3>2. outages' = outages + 1
      BY <1>19 DEF RedisDown
    <3>3. outages \in Nat
      BY DEF TypeOK
    <3>4. redisUp' \in BOOLEAN
      BY <3>1
    <3>5. outages' \in Nat
      BY <3>2, <3>3
    <3> QED
      BY <3>4, <3>5
  <2>2. UNCHANGED <<row, redis, pc, req, seen, found, result, blame, mutations>>
    BY <1>19 DEF RedisDown
  <2>3. TypeOK'
    BY <2>1, <2>2 DEF TypeOK
  <2>4. StepMatchesOp'
    BY <2>2 DEF StepMatchesOp
  <2> QED
    BY <2>3, <2>4
<1>20. ASSUME RedisUp PROVE TypeInv'
  BY <1>20 DEF RedisUp, TypeOK, StepMatchesOp, counters
<1>21. ASSUME UNCHANGED vars PROVE TypeInv'
  BY <1>21 DEF vars, TypeOK, StepMatchesOp
<1> QED
  BY <1>1, <1>2, <1>3, <1>4, <1>5, <1>6, <1>7, <1>8, <1>9, <1>10, <1>11, <1>12, <1>13,
     <1>14, <1>15, <1>16, <1>17, <1>18, <1>19, <1>20, <1>21 DEF Next, Step

(* Every variable keeps its type in every reachable state.                 *)
THEOREM TypeCorrect == Spec => []TypeOK
<1>1. Spec => []TypeInv
  BY InitType, TypeStep, PTL DEF Spec
<1> QED
  BY <1>1, PTL DEF TypeInv

-----------------------------------------------------------------------------
(* What a step can do to the table: nothing, or one commit.                *)
RowUnchangedOrCommit ==
  row' = row \/ \E i \in Ids, live \in BOOLEAN : row' = Commit(i, live)

LEMMA RowStep == TypeInv /\ [Next]_vars => RowUnchangedOrCommit
<1> SUFFICES ASSUME TypeInv, [Next]_vars PROVE RowUnchangedOrCommit
  OBVIOUS
<1>1. ASSUME NEW p \in Procs, pc[p] \in WriteSteps, row' = Written(req[p])
      PROVE  RowUnchangedOrCommit
  <2>1. req[p].op # "findAll"
    BY <1>1 DEF WriteSteps, TypeInv, StepMatchesOp, OpOf
  <2>2. req[p].id \in Ids /\ (req[p].op # "remove") \in BOOLEAN
    BY <2>1, RequestFields DEF TypeInv, TypeOK
  <2> QED
    BY <1>1, <2>2 DEF Written, RowUnchangedOrCommit
<1>2. ASSUME NEW p \in Procs, CreateInsert(p) \/ RemoveDelete(p) \/ UpdateWrite(p) \/ DbError(p)
      PROVE  RowUnchangedOrCommit
  BY <1>1, <1>2
  DEF CreateInsert, RemoveDelete, UpdateWrite, DbError, WriteSteps, RowUnchangedOrCommit
<1>3. ASSUME NEW p \in Procs, Arrive(p) \/ CreateKeys(p) \/ CreateDel(p) \/ FindAllGet(p)
                \/ FindAllQuery(p) \/ FindAllSet(p) \/ FindOneGet(p) \/ FindOneQuery(p)
                \/ FindOneSet(p) \/ RemoveFind(p) \/ RemoveRefind(p) \/ RemoveDel(p)
                \/ UpdateDel(p)
      PROVE  RowUnchangedOrCommit
  BY <1>3 DEF Arrive, CreateKeys, CreateDel, FindAllGet, FindAllQuery, FindAllSet, FindOneGet,
              FindOneQuery, FindOneSet, RemoveFind, RemoveRefind, RemoveDel, UpdateDel, store,
              RowUnchangedOrCommit
<1>4. ASSUME RedisDown \/ RedisUp \/ (\E k \in Keys : Expire(k)) \/ UNCHANGED vars
      PROVE  RowUnchangedOrCommit
  BY <1>4 DEF RedisDown, RedisUp, Expire, vars, RowUnchangedOrCommit
<1> QED
  BY <1>2, <1>3, <1>4 DEF Next, Step

(* A version that was held stays held: versions only grow.                 *)
LEMMA HeldStable ==
  ASSUME TypeInv, RowUnchangedOrCommit, NEW t \in Todos, Held(t)
  PROVE  Held(t)'
<1>1. CASE row' = row
  BY <1>1 DEF Held
<1>2. ASSUME NEW i \in Ids, NEW live \in BOOLEAN, row' = Commit(i, live) PROVE Held(t)'
  <2>1. t[1] \in Ids /\ t[2] \in Nat /\ row[t[1]].ver \in Nat
    BY DEF Todos, TypeInv, TypeOK
  <2>2. row'[i] = [live |-> live, ver |-> row[i].ver + 1]
    BY <1>2, CommitType DEF TypeInv, TypeOK
  <2>3. t[1] # i => row'[t[1]] = row[t[1]]
    BY <1>2, <2>1, CommitType DEF TypeInv, TypeOK
  <2> QED
    BY <2>1, <2>2, <2>3 DEF Held
<1> QED
  BY <1>1, <1>2 DEF RowUnchangedOrCommit

(* What a step can do to a cache entry: drop it, or fill it from the local *)
(* variable of a request whose key it is.                                  *)
Fills(p, k) ==
  \/ FindAllSet(p) /\ k = ListKey(req[p].user, req[p].query)
  \/ FindOneSet(p) /\ k = TodoKey(req[p].id)

CacheUnchangedOrFill ==
  \A k \in Keys :
    \/ redis'[k] = redis[k]
    \/ redis'[k] = Absent
    \/ \E p \in Procs : Fills(p, k) /\ redis'[k].todos = seen[p]

LEMMA CacheStep == TypeInv /\ [Next]_vars => CacheUnchangedOrFill
<1> SUFFICES ASSUME TypeInv, [Next]_vars PROVE CacheUnchangedOrFill
  OBVIOUS
<1>1. ASSUME NEW p \in Procs, NEW key, NEW ttl, CacheSet(key, seen[p], ttl), Fills(p, key)
      PROVE  CacheUnchangedOrFill
  <2> SUFFICES ASSUME NEW k \in Keys
               PROVE  redis'[k] = redis[k] \/ (Fills(p, k) /\ redis'[k].todos = seen[p])
    BY DEF CacheUnchangedOrFill
  <2>1. CASE redisUp /\ k = key
    <3>1. redis'[k] = [hit |-> TRUE, todos |-> seen[p], expires |-> ttl > 0]
      BY <1>1, <2>1 DEF CacheSet, TypeInv, TypeOK
    <3> QED
      BY <1>1, <2>1, <3>1
  <2>2. CASE ~(redisUp /\ k = key)
    BY <1>1, <2>2 DEF CacheSet, TypeInv, TypeOK
  <2> QED
    BY <2>1, <2>2
<1>2. ASSUME NEW p \in Procs, FindAllSet(p) \/ FindOneSet(p) PROVE CacheUnchangedOrFill
  <2>1. CASE FindAllSet(p)
    <3>1. CacheSet(ListKey(req[p].user, req[p].query), seen[p], 30)
      BY <2>1 DEF FindAllSet
    <3>2. Fills(p, ListKey(req[p].user, req[p].query))
      BY <2>1 DEF Fills
    <3> QED
      BY <1>1, <3>1, <3>2
  <2>2. CASE FindOneSet(p)
    <3>1. CacheSet(TodoKey(req[p].id), seen[p], 60)
      BY <2>2 DEF FindOneSet
    <3>2. Fills(p, TodoKey(req[p].id))
      BY <2>2 DEF Fills
    <3> QED
      BY <1>1, <3>1, <3>2
  <2> QED
    BY <1>2, <2>1, <2>2
<1>3. ASSUME NEW p \in Procs, CreateDel(p) \/ RemoveDel(p) \/ UpdateDel(p)
      PROVE  CacheUnchangedOrFill
  BY <1>3 DEF CreateDel, RemoveDel, UpdateDel, DelTodo, CacheDel, CacheUnchangedOrFill
<1>4. ASSUME NEW k \in Keys, Expire(k) PROVE CacheUnchangedOrFill
  BY <1>4 DEF Expire, CacheUnchangedOrFill, TypeInv, TypeOK
<1>5. ASSUME NEW p \in Procs, Arrive(p) \/ CreateInsert(p) \/ CreateKeys(p) \/ FindAllGet(p)
                \/ FindAllQuery(p) \/ FindOneGet(p) \/ FindOneQuery(p) \/ RemoveFind(p)
                \/ RemoveRefind(p) \/ RemoveDelete(p) \/ UpdateWrite(p) \/ DbError(p)
      PROVE  CacheUnchangedOrFill
  <2>1. redis' = redis
    BY <1>5 DEF Arrive, CreateInsert, CreateKeys, FindAllGet, FindAllQuery, FindOneGet,
                FindOneQuery, RemoveFind, RemoveRefind, RemoveDelete, UpdateWrite, DbError, store
  <2> QED
    BY <2>1 DEF CacheUnchangedOrFill
<1>6. ASSUME RedisDown \/ RedisUp \/ UNCHANGED vars PROVE CacheUnchangedOrFill
  BY <1>6 DEF RedisDown, RedisUp, vars, CacheUnchangedOrFill
<1> QED
  BY <1>2, <1>3, <1>4, <1>5, <1>6 DEF Next, Step

(* A live row has been committed at least once.                            *)
LiveIsVersioned == \A i \in Ids : row[i].live => row[i].ver > 0

LEMMA LiveIsVersionedStep ==
  ASSUME TypeInv, RowUnchangedOrCommit, LiveIsVersioned
  PROVE  LiveIsVersioned'
<1>1. CASE row' = row
  BY <1>1 DEF LiveIsVersioned
<1>2. ASSUME NEW i \in Ids, NEW live \in BOOLEAN, row' = Commit(i, live) PROVE LiveIsVersioned'
  <2>1. row'[i] = [live |-> live, ver |-> row[i].ver + 1] /\ row[i].ver \in Nat
    BY <1>2, CommitType DEF TypeInv, TypeOK
  <2>2. \A j \in Ids : j # i => row'[j] = row[j]
    BY <1>2, CommitType DEF TypeInv, TypeOK
  <2>3. row'[i].ver > 0
    BY <2>1
  <2> QED
    BY <2>2, <2>3 DEF LiveIsVersioned
<1> QED
  BY <1>1, <1>2 DEF RowUnchangedOrCommit

(* What a step can do to the local variables: keep them, drop them, or     *)
(* take todos the table holds after the step.                              *)
SeenKeptOrHeld == \A p \in Procs : \A t \in seen'[p] : t \in seen[p] \/ Held(t)'

LEMMA SeenStep == TypeInv /\ LiveIsVersioned /\ [Next]_vars => SeenKeptOrHeld
<1> SUFFICES ASSUME TypeInv, LiveIsVersioned, [Next]_vars PROVE SeenKeptOrHeld
  OBVIOUS
<1>1. ASSUME NEW p \in Procs, NEW status, NEW todos, Finish(p, status, todos)
      PROVE  SeenKeptOrHeld
  BY <1>1 DEF Finish, SeenKeptOrHeld, TypeInv, TypeOK
<1>2. ASSUME seen' = seen PROVE SeenKeptOrHeld
  BY <1>2 DEF SeenKeptOrHeld
<1>3. ASSUME NEW p \in Procs, NEW todos, Hold(p, todos), \A t \in todos : Held(t)'
      PROVE  SeenKeptOrHeld
  BY <1>3 DEF Hold, SeenKeptOrHeld, TypeInv, TypeOK
<1>4. ASSUME NEW p \in Procs, pc[p] \in {"create.insert", "update.write"}, row' = Written(req[p]),
             Hold(p, {<<req[p].id, row[req[p].id].ver + 1>>})
      PROVE  SeenKeptOrHeld
  <2> DEFINE i == req[p].id
  <2>1. req[p].op \in {"create", "update"} /\ i \in Ids
    BY <1>4, RequestFields DEF TypeInv, TypeOK, StepMatchesOp, OpOf
  <2>2. row' = Commit(i, TRUE)
    BY <1>4, <2>1 DEF Written
  <2>3. row'[i] = [live |-> TRUE, ver |-> row[i].ver + 1] /\ row[i].ver \in Nat
    BY <2>1, <2>2, CommitType DEF TypeInv, TypeOK
  <2>4. \A t \in {<<i, row[i].ver + 1>>} : Held(t)'
    BY <2>3 DEF Held
  <2> QED
    BY <1>3, <1>4, <2>4
<1>5. ASSUME NEW i \in Ids, row[i].live, row' = row
      PROVE  \A t \in Current(i) : Held(t)'
  <2>1. row[i].ver \in Nat /\ row[i].ver > 0
    BY <1>5 DEF TypeInv, TypeOK, LiveIsVersioned
  <2>2. \A t \in Current(i) : t[1] = i /\ t[2] = row[i].ver
    BY DEF Current
  <2> QED
    BY <1>5, <2>1, <2>2 DEF Held
<1>6. ASSUME NEW p \in Procs, FindAllQuery(p) PROVE SeenKeptOrHeld
  <2>1. row' = row /\ Hold(p, UNION {Current(i) : i \in LiveOf(req[p].user)})
    BY <1>6 DEF FindAllQuery, store
  <2>2. \A t \in UNION {Current(i) : i \in LiveOf(req[p].user)} : Held(t)'
    BY <1>5, <2>1 DEF LiveOf
  <2> QED
    BY <1>3, <2>1, <2>2
<1>7. ASSUME NEW p \in Procs, FindOneQuery(p) PROVE SeenKeptOrHeld
  <2>1. row' = row /\ req[p].id \in Ids
    BY <1>7, RequestFields DEF FindOneQuery, store, TypeInv, TypeOK, StepMatchesOp, OpOf
  <2>2. CASE row[req[p].id].live /\ Hold(p, Current(req[p].id))
    BY <1>3, <1>5, <2>1, <2>2
  <2>3. CASE Finish(p, 404, {})
    BY <1>1, <2>3
  <2> QED
    BY <1>7, <2>2, <2>3 DEF FindOneQuery
<1>8. ASSUME NEW p \in Procs, CreateInsert(p) \/ UpdateWrite(p) PROVE SeenKeptOrHeld
  BY <1>1, <1>4, <1>8 DEF CreateInsert, UpdateWrite
<1>9. ASSUME NEW p \in Procs, CreateDel(p) \/ FindAllSet(p) \/ FindOneSet(p) \/ RemoveDel(p)
                \/ UpdateDel(p) \/ DbError(p)
      PROVE  SeenKeptOrHeld
  BY <1>1, <1>9 DEF CreateDel, FindAllSet, FindOneSet, RemoveDel, UpdateDel, DbError
<1>10. ASSUME NEW p \in Procs, CreateKeys(p) \/ FindAllGet(p) \/ FindOneGet(p) \/ RemoveFind(p)
                \/ RemoveRefind(p) \/ RemoveDelete(p)
       PROVE  SeenKeptOrHeld
  BY <1>1, <1>2, <1>10 DEF CreateKeys, FindAllGet, FindOneGet, RemoveFind, RemoveRefind,
                           RemoveDelete, Stay
<1>11. ASSUME RedisDown \/ RedisUp \/ (\E k \in Keys : Expire(k)) \/ UNCHANGED vars
                \/ \E p \in Procs : Arrive(p)
       PROVE  SeenKeptOrHeld
  BY <1>2, <1>11 DEF RedisDown, RedisUp, Expire, Arrive, vars
<1> QED
  BY <1>6, <1>7, <1>8, <1>9, <1>10, <1>11 DEF Next, Step

(* What a step can answer: todos it had in its local variable or found in  *)
(* the cache.                                                              *)
AnswerFromSeenOrCache ==
  \A p \in Procs : \A t \in result'[p].todos :
    t \in result[p].todos \cup seen[p] \/ \E k \in Keys : t \in redis[k].todos

LEMMA AnswerStep == TypeInv /\ [Next]_vars => AnswerFromSeenOrCache
<1> SUFFICES ASSUME TypeInv, [Next]_vars PROVE AnswerFromSeenOrCache
  OBVIOUS
<1>1. ASSUME NEW p \in Procs, NEW status, NEW todos, Finish(p, status, todos),
             \A t \in todos : t \in seen[p] \/ \E k \in Keys : t \in redis[k].todos
      PROVE  AnswerFromSeenOrCache
  BY <1>1 DEF Finish, Answer, AnswerFromSeenOrCache, TypeInv, TypeOK
<1>2. ASSUME result' = result PROVE AnswerFromSeenOrCache
  BY <1>2 DEF AnswerFromSeenOrCache
<1>3. ASSUME NEW p \in Procs, Finish(p, 409, {}) \/ Finish(p, 404, {}) \/ Finish(p, 500, {})
                \/ Finish(p, 204, {}) \/ Finish(p, 200, seen[p]) \/ Finish(p, 201, seen[p])
      PROVE  AnswerFromSeenOrCache
  BY <1>1, <1>3
<1>4. ASSUME NEW p \in Procs, NEW key \in Keys, Finish(p, 200, CacheGet(key).todos)
      PROVE  AnswerFromSeenOrCache
  <2>1. \A t \in CacheGet(key).todos : t \in redis[key].todos
    BY DEF CacheGet, Absent
  <2> QED
    BY <1>1, <1>4, <2>1
<1>5. ASSUME NEW p \in Procs, FindAllGet(p) PROVE AnswerFromSeenOrCache
  <2>1. ListKey(req[p].user, req[p].query) \in Keys
    BY <1>5, RequestFields, KeyFacts DEF FindAllGet, TypeInv, TypeOK, StepMatchesOp, OpOf
  <2> QED
    BY <1>2, <1>4, <1>5, <2>1 DEF FindAllGet, Stay
<1>6. ASSUME NEW p \in Procs, FindOneGet(p) PROVE AnswerFromSeenOrCache
  <2>1. TodoKey(req[p].id) \in Keys
    BY <1>6, RequestFields, KeyFacts DEF FindOneGet, TypeInv, TypeOK, StepMatchesOp, OpOf
  <2> QED
    BY <1>2, <1>4, <1>6, <2>1 DEF FindOneGet, Stay
<1>7. ASSUME NEW p \in Procs, CreateInsert(p) \/ CreateKeys(p) \/ CreateDel(p) \/ FindAllQuery(p)
                \/ FindAllSet(p) \/ FindOneQuery(p) \/ FindOneSet(p) \/ RemoveFind(p)
                \/ RemoveRefind(p) \/ RemoveDelete(p) \/ RemoveDel(p) \/ UpdateWrite(p)
                \/ UpdateDel(p) \/ DbError(p)
      PROVE  AnswerFromSeenOrCache
  <2>1. CASE CreateInsert(p) \/ CreateKeys(p) \/ CreateDel(p) \/ FindAllQuery(p)
    BY <1>2, <1>3, <2>1 DEF CreateInsert, CreateKeys, CreateDel, FindAllQuery, Hold
  <2>2. CASE FindAllSet(p) \/ FindOneSet(p)
    BY <1>3, <2>2 DEF FindAllSet, FindOneSet
  <2>5. CASE FindOneQuery(p)
    BY <1>2, <1>3, <2>5 DEF FindOneQuery, Hold
  <2>3. CASE RemoveFind(p) \/ RemoveRefind(p) \/ RemoveDelete(p) \/ RemoveDel(p)
    BY <1>2, <1>3, <2>3 DEF RemoveFind, RemoveRefind, RemoveDelete, RemoveDel, Stay
  <2>4. CASE UpdateWrite(p)
    BY <1>2, <1>3, <2>4 DEF UpdateWrite, Hold
  <2>6. CASE UpdateDel(p) \/ DbError(p)
    <3>1. Finish(p, 200, seen[p]) \/ Finish(p, 500, {})
      BY <2>6 DEF UpdateDel, DbError
    <3> QED
      BY <1>3, <3>1
  <2> QED
    BY <1>7, <2>1, <2>2, <2>3, <2>4, <2>5, <2>6
<1>8. ASSUME NEW p \in Procs, Arrive(p) PROVE AnswerFromSeenOrCache
  BY <1>8 DEF Arrive, Pending, Answer, AnswerFromSeenOrCache, TypeInv, TypeOK
<1>9. ASSUME RedisDown \/ RedisUp \/ (\E k \in Keys : Expire(k)) \/ UNCHANGED vars
      PROVE  AnswerFromSeenOrCache
  BY <1>2, <1>9 DEF RedisDown, RedisUp, Expire, vars
<1> QED
  BY <1>5, <1>6, <1>7, <1>8, <1>9 DEF Next, Step

LEMMA CommittedOnlyStep ==
  TypeInv /\ LiveIsVersioned /\ CommittedOnly /\ [Next]_vars => CommittedOnly'
<1> SUFFICES ASSUME TypeInv, LiveIsVersioned, CommittedOnly, [Next]_vars PROVE CommittedOnly'
  OBVIOUS
<1>1. \A t \in Todos : Held(t) => Held(t)'
  BY RowStep, HeldStable
<1>2. \A k \in Keys : \A t \in redis[k].todos : Held(t)'
  BY <1>1 DEF CommittedOnly, TypeInv, TypeOK, Entry
<1>3. \A p \in Procs : \A t \in seen[p] \cup result[p].todos : Held(t)'
  BY <1>1 DEF CommittedOnly, TypeInv, TypeOK
<1>4. \A k \in Keys : \A t \in redis'[k].todos : Held(t)'
  BY <1>2, <1>3, CacheStep DEF CacheUnchangedOrFill, Absent
<1>5. \A p \in Procs : \A t \in seen'[p] : Held(t)'
  BY <1>3, SeenStep DEF SeenKeptOrHeld
<1>6. \A p \in Procs : \A t \in result'[p].todos : Held(t)'
  BY <1>2, <1>3, AnswerStep DEF AnswerFromSeenOrCache
<1>7. \A p \in Procs : \A t \in seen'[p] \cup result'[p].todos : Held(t)'
  BY <1>5, <1>6
<1> QED
  BY <1>4, <1>7 DEF CommittedOnly

LEMMA InitCommitted == Init => LiveIsVersioned /\ CommittedOnly
<1> SUFFICES ASSUME Init PROVE LiveIsVersioned /\ CommittedOnly
  OBVIOUS
<1>1. \A i \in Ids : row[i] \in {[live |-> FALSE, ver |-> 0], [live |-> TRUE, ver |-> 1]}
  BY DEF Init
<1>2. LiveIsVersioned
  BY <1>1 DEF LiveIsVersioned
<1>3. CommittedOnly
  BY DEF Init, CommittedOnly, Absent, Pending, Answer
<1> QED
  BY <1>2, <1>3

(* No cache entry, local variable or answer ever shows a version of a todo *)
(* that the database did not hold as a live row.                           *)
THEOREM CommittedOnlyHolds == Spec => []CommittedOnly
<1> DEFINE Inv == TypeInv /\ LiveIsVersioned /\ CommittedOnly
<1>1. Init => Inv
  BY InitType, InitCommitted
<1>2. Inv /\ [Next]_vars => Inv'
  <2>1. TypeInv /\ [Next]_vars => RowUnchangedOrCommit
    BY RowStep
  <2>2. TypeInv /\ RowUnchangedOrCommit /\ LiveIsVersioned => LiveIsVersioned'
    BY LiveIsVersionedStep
  <2> QED
    BY <2>1, <2>2, TypeStep, CommittedOnlyStep
<1>3. Inv => CommittedOnly
  OBVIOUS
<1> QED
  BY <1>1, <1>2, <1>3, PTL DEF Spec

-----------------------------------------------------------------------------
(* A step moves one request and leaves the others where they were.         *)
Unmoved(p) ==
  pc'[p] = pc[p] /\ req'[p] = req[p] /\ seen'[p] = seen[p] /\ result'[p] = result[p]

LEMMA OthersUnmoved ==
  ASSUME TypeInv, NEW q \in Procs, Arrive(q) \/ Step(q), NEW p \in Procs, p # q
  PROVE  Unmoved(p)
<1>1. ASSUME NEW status, NEW todos, Finish(q, status, todos), req' = req
      PROVE  Unmoved(p)
  BY <1>1 DEF Finish, Unmoved, TypeInv, TypeOK
<1>2. ASSUME NEW step, Goto(q, step), req' = req,
             (\E todos : Hold(q, todos)) \/ UNCHANGED <<seen, result>>
      PROVE  Unmoved(p)
  BY <1>2 DEF Goto, Hold, Unmoved, TypeInv, TypeOK
<1>3. CASE Arrive(q)
  BY <1>3 DEF Arrive, Goto, Unmoved, TypeInv, TypeOK
<1>4. CASE CreateInsert(q) \/ FindAllQuery(q) \/ FindOneQuery(q) \/ UpdateWrite(q)
  BY <1>1, <1>2, <1>4 DEF CreateInsert, FindAllQuery, FindOneQuery, UpdateWrite
<1>5. CASE CreateKeys(q) \/ FindAllGet(q) \/ FindOneGet(q) \/ RemoveFind(q) \/ RemoveRefind(q)
             \/ RemoveDelete(q)
  BY <1>1, <1>2, <1>5 DEF CreateKeys, FindAllGet, FindOneGet, RemoveFind, RemoveRefind,
                          RemoveDelete, Stay
<1>6. CASE CreateDel(q) \/ FindAllSet(q) \/ FindOneSet(q) \/ RemoveDel(q) \/ UpdateDel(q)
             \/ DbError(q)
  BY <1>1, <1>6 DEF CreateDel, FindAllSet, FindOneSet, RemoveDel, UpdateDel, DbError
<1> QED
  BY <1>3, <1>4, <1>5, <1>6 DEF Step

LEMMA Frame == TypeInv /\ [Next]_vars => \A p \in Procs : Unmoved(p) \/ Arrive(p) \/ Step(p)
<1> SUFFICES ASSUME TypeInv, [Next]_vars, NEW p \in Procs
             PROVE  Unmoved(p) \/ Arrive(p) \/ Step(p)
  OBVIOUS
<1>1. ASSUME NEW q \in Procs, q # p, Arrive(q) \/ Step(q) PROVE Unmoved(p)
  BY <1>1, OthersUnmoved
<1>2. ASSUME RedisDown \/ RedisUp \/ (\E k \in Keys : Expire(k)) \/ UNCHANGED vars
      PROVE  Unmoved(p)
  BY <1>2 DEF RedisDown, RedisUp, Expire, vars, Unmoved
<1> QED
  BY <1>1, <1>2 DEF Next

(* A commit is the work of one request, which goes on to its invalidation  *)
(* or, its acknowledgement lost, answers 500.                              *)
AfterWrite ==
  [s \in WriteSteps |-> CASE s = "create.insert" -> "create.keys"
                          [] s = "remove.delete" -> "remove.del"
                          [] s = "update.write" -> "update.del"]

Writes(w) ==
  /\ pc[w] \in WriteSteps
  /\ CanWrite(req[w])
  /\ row' = Written(req[w])
  /\ redis' = redis
  /\ req' = req
  /\ \/ pc'[w] = AfterWrite[pc[w]] /\ blame' = blame
     \/ /\ pc'[w] = "idle" /\ result'[w].status = 500
        /\ blame' = [blame EXCEPT ![req[w].id] = "lost ack"]

LEMMA RowAuthor == TypeInv /\ [Next]_vars => row' = row \/ \E w \in Procs : Writes(w)
<1> SUFFICES ASSUME TypeInv, [Next]_vars PROVE row' = row \/ \E w \in Procs : Writes(w)
  OBVIOUS
<1> USE DEF AfterWrite
<1>1. ASSUME NEW w \in Procs, CreateInsert(w) PROVE row' = row \/ Writes(w)
  BY <1>1 DEF CreateInsert, Writes, WriteSteps, Goto, TypeInv, TypeOK
<1>2. ASSUME NEW w \in Procs, RemoveDelete(w) PROVE row' = row \/ Writes(w)
  BY <1>2 DEF RemoveDelete, Writes, WriteSteps, Goto, TypeInv, TypeOK
<1>3. ASSUME NEW w \in Procs, UpdateWrite(w) PROVE row' = row \/ Writes(w)
  BY <1>3 DEF UpdateWrite, Writes, WriteSteps, Goto, TypeInv, TypeOK
<1>4. ASSUME NEW w \in Procs, DbError(w) PROVE row' = row \/ Writes(w)
  <2>1. pc'[w] = "idle" /\ result'[w].status = 500
    BY <1>4, ZenonT(60) DEF DbError, Finish, Answer, TypeInv, TypeOK
  <2> QED
    BY <1>4, <2>1 DEF DbError, Writes
<1>5. ASSUME NEW p \in Procs, Arrive(p) \/ CreateKeys(p) \/ CreateDel(p) \/ FindAllGet(p)
                \/ FindAllQuery(p) \/ FindAllSet(p) \/ FindOneGet(p) \/ FindOneQuery(p)
                \/ FindOneSet(p) \/ RemoveFind(p) \/ RemoveRefind(p) \/ RemoveDel(p)
                \/ UpdateDel(p)
      PROVE  row' = row
  BY <1>5 DEF Arrive, CreateKeys, CreateDel, FindAllGet, FindAllQuery, FindAllSet, FindOneGet,
              FindOneQuery, FindOneSet, RemoveFind, RemoveRefind, RemoveDel, UpdateDel, store
<1>6. ASSUME RedisDown \/ RedisUp \/ (\E k \in Keys : Expire(k)) \/ UNCHANGED vars
      PROVE  row' = row
  BY <1>6 DEF RedisDown, RedisUp, Expire, vars
<1> QED
  BY <1>1, <1>2, <1>3, <1>4, <1>5, <1>6 DEF Next, Step

(* The row a commit changes is the row of the request's todo, only.        *)
LEMMA WrittenRow ==
  ASSUME TypeInv, NEW w \in Procs, Writes(w)
  PROVE  /\ req[w].id \in Ids
         /\ row'[req[w].id] = [live |-> req[w].op # "remove", ver |-> row[req[w].id].ver + 1]
         /\ \A j \in Ids : j # req[w].id => row'[j] = row[j]
<1>1. req[w] \in Requests /\ pc[w] \in WriteSteps
  BY DEF Writes, TypeInv, TypeOK
<1>2. req[w].op # "findAll"
  BY <1>1 DEF WriteSteps, TypeInv, StepMatchesOp, OpOf
<1>3. req[w].id \in Ids /\ (req[w].op # "remove") \in BOOLEAN
  BY <1>1, <1>2, RequestFields
<1>4. row' = Commit(req[w].id, req[w].op # "remove")
  BY DEF Writes, Written
<1>5. row \in [Ids -> [live : BOOLEAN, ver : Nat]]
  BY DEF TypeInv, TypeOK
<1>6. /\ Commit(req[w].id, req[w].op # "remove")[req[w].id]
          = [live |-> req[w].op # "remove", ver |-> row[req[w].id].ver + 1]
      /\ \A j \in Ids : j # req[w].id => Commit(req[w].id, req[w].op # "remove")[j] = row[j]
  BY <1>3, <1>5, CommitType
<1> QED
  BY <1>3, <1>4, <1>6

(* An insert under way has a todo id no row and no other insert has.       *)
Inserting(p) == pc[p] = "create.insert"
FreshIds ==
  \A p \in Procs : Inserting(p) =>
    /\ row[req[p].id].ver = 0
    /\ \A o \in Procs : Inserting(o) /\ req[o].id = req[p].id => o = p

(* Only an arrival brings a request to its insert.                         *)
LEMMA InsertingStep ==
  ASSUME TypeInv, NEW p \in Procs, Step(p)
  PROVE  ~Inserting(p)'
<1>1. ASSUME NEW status, NEW todos, Finish(p, status, todos) PROVE ~Inserting(p)'
  BY <1>1 DEF Finish, Inserting, TypeInv, TypeOK
<1>2. ASSUME NEW step, step # "create.insert", Goto(p, step) PROVE ~Inserting(p)'
  BY <1>2 DEF Goto, Inserting, TypeInv, TypeOK
<1>3. CASE CreateInsert(p) \/ FindAllQuery(p) \/ FindOneQuery(p) \/ UpdateWrite(p)
  BY <1>1, <1>2, <1>3 DEF CreateInsert, FindAllQuery, FindOneQuery, UpdateWrite
<1>4. CASE CreateKeys(p) \/ FindAllGet(p) \/ FindOneGet(p) \/ RemoveFind(p) \/ RemoveRefind(p)
             \/ RemoveDelete(p)
  BY <1>1, <1>2, <1>4 DEF CreateKeys, FindAllGet, FindOneGet, RemoveFind, RemoveRefind,
                          RemoveDelete
<1>5. CASE CreateDel(p) \/ FindAllSet(p) \/ FindOneSet(p) \/ RemoveDel(p) \/ UpdateDel(p)
             \/ DbError(p)
  BY <1>1, <1>5 DEF CreateDel, FindAllSet, FindOneSet, RemoveDel, UpdateDel, DbError
<1> QED
  BY <1>3, <1>4, <1>5 DEF Step

LEMMA FreshIdsStep ==
  ASSUME TypeInv, LiveIsVersioned, FreshIds, [Next]_vars
  PROVE  FreshIds'
<1> SUFFICES ASSUME NEW p \in Procs, Inserting(p)'
             PROVE  /\ row'[req'[p].id].ver = 0
                    /\ \A o \in Procs : Inserting(o)' /\ req'[o].id = req'[p].id => o = p
  BY DEF FreshIds
<1>1. \A o \in Procs : Inserting(o)' => Arrive(o) \/ (Unmoved(o) /\ Inserting(o))
  <2> SUFFICES ASSUME NEW o \in Procs, Inserting(o)'
               PROVE  Arrive(o) \/ (Unmoved(o) /\ Inserting(o))
    OBVIOUS
  <2>1. Unmoved(o) \/ Arrive(o) \/ Step(o)
    BY Frame
  <2>2. ~Step(o)
    BY InsertingStep
  <2>3. Unmoved(o) => Inserting(o)
    BY DEF Unmoved, Inserting
  <2> QED
    BY <2>1, <2>2, <2>3
<1>2. \A o \in Procs : Arrive(o) =>
        /\ Inserting(o)' => Unused(req'[o].id)
        /\ row' = row
        /\ \A q \in Procs : q # o => req'[q] = req[q] /\ pc'[q] = pc[q]
  <2> SUFFICES ASSUME NEW o \in Procs, Arrive(o)
               PROVE  /\ Inserting(o)' => Unused(req'[o].id)
                      /\ row' = row
                      /\ \A q \in Procs : q # o => req'[q] = req[q] /\ pc'[q] = pc[q]
    OBVIOUS
  <2>1. PICK r \in Requests : /\ r.op = "create" => Unused(r.id)
                              /\ req' = [req EXCEPT ![o] = r]
                              /\ Goto(o, FirstStep[r.op])
    BY DEF Arrive
  <2>2. req'[o] = r /\ pc'[o] = FirstStep[r.op]
    BY <2>1 DEF Goto, TypeInv, TypeOK
  <2>3. FirstStep[r.op] = "create.insert" => r.op = "create"
    BY RequestFields DEF FirstStep
  <2>4. row' = row
    BY DEF Arrive, store
  <2> QED
    BY <2>1, <2>2, <2>3, <2>4 DEF Inserting, Goto, TypeInv, TypeOK
<1>3. CASE Arrive(p)
  <2>1. row'[req'[p].id].ver = 0
    BY <1>2, <1>3 DEF Unused
  <2>2. \A o \in Procs : Inserting(o)' /\ req'[o].id = req'[p].id => o = p
    BY <1>2, <1>3 DEF Unused, Inserting
  <2> QED
    BY <2>1, <2>2
<1>4. CASE Unmoved(p) /\ Inserting(p)
  <2>1. row[req[p].id].ver = 0 /\ req[p].id \in Ids
    BY <1>4, RequestFields DEF FreshIds, Inserting, TypeInv, TypeOK, StepMatchesOp, OpOf
  <2>2. ASSUME NEW w \in Procs, Writes(w), req[w].id = req[p].id PROVE FALSE
    <3>1. CASE pc[w] = "create.insert"
      <4>1. w = p
        BY <1>4, <2>2, <3>1 DEF FreshIds, Inserting
      <4>2. pc'[p] # "create.insert"
        BY <2>2, <4>1, <3>1 DEF Writes, AfterWrite, WriteSteps
      <4> QED
        BY <1>4, <4>2 DEF Unmoved, Inserting
    <3>2. CASE pc[w] \in {"remove.delete", "update.write"}
      <4>1. row[req[w].id].live
        BY <2>2, <3>2 DEF Writes, CanWrite, TypeInv, StepMatchesOp, OpOf
      <4> QED
        BY <2>1, <2>2, <4>1 DEF LiveIsVersioned
    <3> QED
      BY <2>2, <3>1, <3>2 DEF Writes, WriteSteps
  <2>3. row'[req'[p].id].ver = 0
    <3>1. ASSUME NEW w \in Procs, Writes(w) PROVE row'[req[p].id] = row[req[p].id]
      BY <2>1, <2>2, <3>1, WrittenRow
    <3> QED
      BY <1>4, <2>1, <3>1, RowAuthor DEF Unmoved
  <2>4. \A o \in Procs : Inserting(o)' /\ req'[o].id = req'[p].id => o = p
    <3> SUFFICES ASSUME NEW o \in Procs, Inserting(o)', req'[o].id = req'[p].id, o # p PROVE FALSE
      OBVIOUS
    <3>1. CASE Arrive(o)
      <4>1. Unused(req'[o].id)
        BY <1>2, <3>1
      <4> QED
        BY <1>4, <4>1 DEF Unused, Unmoved, Inserting
    <3>2. CASE Unmoved(o) /\ Inserting(o)
      BY <1>4, <3>2 DEF Unmoved, FreshIds
    <3> QED
      BY <1>1, <3>1, <3>2
  <2> QED
    BY <2>3, <2>4
<1> QED
  BY <1>1, <1>3, <1>4

-----------------------------------------------------------------------------
(* The entry of a todo, and what findOne is about to put in it, is that    *)
(* todo at one version.                                                    *)
EntryShape ==
  /\ \A i \in Ids : redis[TodoKey(i)].hit => \E v \in Nat : redis[TodoKey(i)].todos = {<<i, v>>}
  /\ \A p \in Procs : pc[p] = "findOne.set" => \E v \in Nat : seen[p] = {<<req[p].id, v>>}

LEMMA FindOneSetOrigin ==
  ASSUME TypeInv, NEW p \in Procs, Step(p), pc'[p] = "findOne.set"
  PROVE  pc[p] = "findOne.query" /\ seen'[p] = Current(req[p].id) /\ req' = req
<1>1. ASSUME NEW status, NEW todos, Finish(p, status, todos) PROVE FALSE
  BY <1>1 DEF Finish, TypeInv, TypeOK
<1>2. ASSUME NEW step, step # "findOne.set", Goto(p, step) PROVE FALSE
  BY <1>2 DEF Goto, TypeInv, TypeOK
<1>3. ASSUME CreateInsert(p) \/ FindAllQuery(p) \/ UpdateWrite(p) PROVE FALSE
  BY <1>1, <1>2, <1>3 DEF CreateInsert, FindAllQuery, UpdateWrite
<1>4. ASSUME CreateKeys(p) \/ FindAllGet(p) \/ FindOneGet(p) \/ RemoveFind(p) \/ RemoveRefind(p)
                \/ RemoveDelete(p)
      PROVE  FALSE
  BY <1>1, <1>2, <1>4 DEF CreateKeys, FindAllGet, FindOneGet, RemoveFind, RemoveRefind,
                          RemoveDelete
<1>5. ASSUME CreateDel(p) \/ FindAllSet(p) \/ FindOneSet(p) \/ RemoveDel(p) \/ UpdateDel(p)
                \/ DbError(p)
      PROVE  FALSE
  BY <1>1, <1>5 DEF CreateDel, FindAllSet, FindOneSet, RemoveDel, UpdateDel, DbError
<1>6. FindOneQuery(p)
  BY <1>3, <1>4, <1>5 DEF Step
<1> QED
  BY <1>1, <1>6 DEF FindOneQuery, Hold, TypeInv, TypeOK

LEMMA EntryShapeStep ==
  ASSUME TypeInv, EntryShape, [Next]_vars
  PROVE  EntryShape'
<1>1. ASSUME NEW i \in Ids, redis'[TodoKey(i)].hit
      PROVE  \E v \in Nat : redis'[TodoKey(i)].todos = {<<i, v>>}
  <2>1. TodoKey(i) \in Keys
    BY KeyFacts
  <2>2. CASE redis'[TodoKey(i)] = redis[TodoKey(i)]
    BY <1>1, <2>2 DEF EntryShape
  <2>3. CASE redis'[TodoKey(i)] = Absent
    BY <1>1, <2>3 DEF Absent
  <2>4. ASSUME NEW p \in Procs, Fills(p, TodoKey(i)), redis'[TodoKey(i)].todos = seen[p]
        PROVE  \E v \in Nat : redis'[TodoKey(i)].todos = {<<i, v>>}
    <3>1. FindOneSet(p) /\ TodoKey(i) = TodoKey(req[p].id)
      <4>1. ASSUME FindAllSet(p) PROVE TodoKey(i) # ListKey(req[p].user, req[p].query)
        <5>1. req[p].user \in Users /\ req[p].query \in Queries
          BY <4>1, RequestFields DEF FindAllSet, TypeInv, TypeOK, StepMatchesOp, OpOf
        <5> QED BY <5>1, KeyFacts
      <4> QED
        BY <2>4, <4>1 DEF Fills
    <3>3. pc[p] = "findOne.set"
      BY <3>1 DEF FindOneSet
    <3>2. req[p].id = i
      BY <3>1, <3>3, KeyFacts, RequestFields DEF TypeInv, TypeOK, StepMatchesOp, OpOf
    <3> QED
      BY <2>4, <3>2, <3>3 DEF EntryShape
  <2> QED
    BY <2>1, <2>2, <2>3, <2>4, CacheStep DEF CacheUnchangedOrFill
<1>2. ASSUME NEW p \in Procs, pc'[p] = "findOne.set"
      PROVE  \E v \in Nat : seen'[p] = {<<req'[p].id, v>>}
  <2>1. CASE Unmoved(p)
    BY <1>2, <2>1 DEF Unmoved, EntryShape
  <2>2. CASE Arrive(p)
    <3>1. PICK r \in Requests : Goto(p, FirstStep[r.op])
      BY <2>2 DEF Arrive
    <3>2. FirstStep[r.op] # "findOne.set"
      BY RequestFields DEF FirstStep
    <3> QED
      BY <1>2, <3>1, <3>2 DEF Goto, TypeInv, TypeOK
  <2>3. CASE Step(p)
    <3>1. pc[p] = "findOne.query" /\ seen'[p] = Current(req[p].id) /\ req' = req
      BY <1>2, <2>3, FindOneSetOrigin
    <3>2. req[p].id \in Ids
      BY <3>1, RequestFields DEF TypeInv, TypeOK, StepMatchesOp, OpOf
    <3>3. row[req[p].id].ver \in Nat
      BY <3>2 DEF TypeInv, TypeOK
    <3> QED
      BY <3>1, <3>3 DEF Current
  <2> QED
    BY <2>1, <2>2, <2>3, Frame
<1> QED
  BY <1>1, <1>2 DEF EntryShape

(* A cached todo has been committed.                                       *)
LEMMA CachedIsVersioned ==
  ASSUME TypeInv, CommittedOnly, EntryShape, NEW i \in Ids, redis[TodoKey(i)].hit
  PROVE  row[i].ver > 0
<1>1. PICK v \in Nat : redis[TodoKey(i)].todos = {<<i, v>>}
  BY DEF EntryShape
<1>2. Held(<<i, v>>)
  BY <1>1, KeyFacts DEF CommittedOnly
<1>3. v \in 1 .. row[i].ver /\ row[i].ver \in Nat
  BY <1>2 DEF Held, TypeInv, TypeOK
<1> QED
  BY <1>3

(* A request about to invalidate waits or deletes the entry.               *)
LEMMA DelStep ==
  ASSUME TypeInv, [Next]_vars, NEW q \in Procs, pc[q] \in {"remove.del", "update.del"}
  PROVE  Unmoved(q) \/ (DelTodo(req[q].id) /\ row' = row)
<1>1. CASE Unmoved(q)
  BY <1>1
<1>2. CASE Arrive(q)
  BY <1>2 DEF Arrive
<1>3. CASE Step(q)
  BY <1>3 DEF Step, CreateInsert, CreateKeys, CreateDel, FindAllGet, FindAllQuery, FindAllSet,
              FindOneGet, FindOneQuery, FindOneSet, RemoveFind, RemoveRefind, RemoveDelete,
              RemoveDel, UpdateWrite, UpdateDel, DbError, DbSteps
<1> QED
  BY <1>1, <1>2, <1>3, Frame

(* Blame is only taken back when the entry is dropped or filled afresh.    *)
LEMMA BlameStep ==
  ASSUME TypeInv, [Next]_vars, NEW i \in Ids, row' = row,
         redis'[TodoKey(i)].hit, ~Fresh(i, redis'[TodoKey(i)].todos), blame[i] # "none"
  PROVE  blame'[i] # "none"
<1>k. TodoKey(i) \in Keys
  BY KeyFacts
<1>1. ASSUME NEW p \in Procs, FindOneSet(p) PROVE blame'[i] # "none"
  <2>1. req[p].id \in Ids
    BY <1>1, RequestFields DEF FindOneSet, TypeInv, TypeOK, StepMatchesOp, OpOf
  <2>2. CASE redisUp /\ req[p].id = i
    <3>1. redis'[TodoKey(i)].todos = seen[p]
      BY <1>1, <1>k, <2>2 DEF FindOneSet, CacheSet, TypeInv, TypeOK
    <3>2. blame' = [blame EXCEPT ![i] = "stale fill"]
      BY <1>1, <2>2, <3>1 DEF FindOneSet
    <3> QED
      BY <3>2 DEF TypeInv, TypeOK
  <2>3. CASE ~(redisUp /\ req[p].id = i)
    BY <1>1, <2>1, <2>3 DEF FindOneSet, TypeInv, TypeOK
  <2> QED
    BY <2>2, <2>3
<1>2. ASSUME NEW p \in Procs, RemoveDel(p) \/ UpdateDel(p) PROVE blame'[i] # "none"
  <2>1. DelTodo(req[p].id) /\ req[p].id \in Ids
    BY <1>2, RequestFields DEF RemoveDel, UpdateDel, TypeInv, TypeOK, StepMatchesOp, OpOf
  <2>2. CASE redisUp /\ req[p].id = i
    BY <1>k, <2>1, <2>2 DEF DelTodo, CacheDel, Absent
  <2>3. CASE ~(redisUp /\ req[p].id = i)
    BY <2>1, <2>3 DEF DelTodo, TypeInv, TypeOK
  <2> QED
    BY <2>2, <2>3
<1>3. ASSUME NEW p \in Procs, DbError(p) PROVE blame'[i] # "none"
  BY <1>3 DEF DbError, TypeInv, TypeOK
<1>4. ASSUME NEW k \in Keys, Expire(k) PROVE blame'[i] # "none"
  <2>1. CASE k = TodoKey(i)
    BY <1>4, <2>1 DEF Expire, Absent, TypeInv, TypeOK
  <2>2. CASE k # TodoKey(i)
    BY <1>4, <2>2 DEF Expire
  <2> QED
    BY <2>1, <2>2
<1>5. ASSUME NEW p \in Procs, Arrive(p) \/ CreateInsert(p) \/ CreateKeys(p) \/ CreateDel(p)
                \/ FindAllGet(p) \/ FindAllQuery(p) \/ FindAllSet(p) \/ FindOneGet(p)
                \/ FindOneQuery(p) \/ RemoveFind(p) \/ RemoveRefind(p) \/ RemoveDelete(p)
                \/ UpdateWrite(p)
      PROVE  blame' = blame
  BY <1>5 DEF Arrive, CreateInsert, CreateKeys, CreateDel, FindAllGet, FindAllQuery, FindAllSet,
              FindOneGet, FindOneQuery, RemoveFind, RemoveRefind, RemoveDelete, UpdateWrite, store
<1>6. ASSUME RedisDown \/ RedisUp \/ UNCHANGED vars PROVE blame' = blame
  BY <1>6 DEF RedisDown, RedisUp, vars
<1> QED
  BY <1>1, <1>2, <1>3, <1>4, <1>5, <1>6 DEF Next, Step

LEMMA StaleHasCauseStep ==
  ASSUME TypeInv, LiveIsVersioned, CommittedOnly, FreshIds, EntryShape, StaleHasCause,
         [Next]_vars
  PROVE  StaleHasCause'
<1> SUFFICES ASSUME NEW i \in Ids, redis'[TodoKey(i)].hit,
                    ~(row'[i].live /\ redis'[TodoKey(i)].todos = {<<i, row'[i].ver>>})
             PROVE  Invalidating(i)' \/ blame'[i] # "none"
  BY DEF StaleHasCause, Fresh, Current
<1>k. TodoKey(i) \in Keys
  BY KeyFacts
<1>1. ASSUME NEW w \in Procs, Writes(w), req[w].id = i
      PROVE  Invalidating(i)' \/ blame'[i] # "none"
  <2>1. CASE blame' = [blame EXCEPT ![req[w].id] = "lost ack"]
    BY <1>1, <2>1 DEF TypeInv, TypeOK
  <2>2. CASE pc'[w] = AfterWrite[pc[w]]
    <3>1. redis[TodoKey(i)].hit
      BY <1>1 DEF Writes
    <3>2. row[i].ver > 0
      BY <3>1, CachedIsVersioned
    <3>3. pc[w] # "create.insert"
      BY <1>1, <3>2 DEF FreshIds, Inserting, TypeInv, TypeOK
    <3>4. pc'[w] \in {"remove.del", "update.del"} /\ req'[w].id = i
      BY <1>1, <2>2, <3>3 DEF Writes, AfterWrite, WriteSteps
    <3> QED
      BY <3>4 DEF Invalidating
  <2> QED
    BY <1>1, <2>1, <2>2 DEF Writes
<1>2. CASE redis'[TodoKey(i)] = redis[TodoKey(i)] /\ row'[i] = row[i]
  <2>1. Invalidating(i) \/ blame[i] # "none"
    BY <1>2 DEF StaleHasCause, Fresh, Current
  <2>2. ASSUME NEW q \in Procs, pc[q] \in {"remove.del", "update.del"}, req[q].id = i
        PROVE  Invalidating(i)' \/ blame'[i] # "none"
    <3>1. CASE Unmoved(q)
      BY <2>2, <3>1 DEF Unmoved, Invalidating
    <3>2. CASE DelTodo(i)
      <4>1. ~redisUp
        BY <1>k, <3>2 DEF DelTodo, CacheDel, Absent
      <4> QED
        BY <3>2, <4>1 DEF DelTodo, TypeInv, TypeOK
    <3> QED
      BY <2>2, <3>1, <3>2, DelStep
  <2>3. ASSUME blame[i] # "none" PROVE blame'[i] # "none"
    <3>1. CASE row' = row
      <4>1. ~Fresh(i, redis'[TodoKey(i)].todos)
        BY <3>1 DEF Fresh, Current
      <4> QED
        BY <2>3, <3>1, <4>1, BlameStep
    <3>2. ASSUME NEW w \in Procs, Writes(w) PROVE blame'[i] # "none"
      <4>1. CASE blame' = blame
        BY <2>3, <4>1
      <4>2. CASE blame' = [blame EXCEPT ![req[w].id] = "lost ack"]
        BY <2>3, <4>2 DEF TypeInv, TypeOK
      <4> QED
        BY <3>2, <4>1, <4>2 DEF Writes
    <3> QED
      BY <3>1, <3>2, RowAuthor
  <2> QED
    BY <2>1, <2>2, <2>3 DEF Invalidating
<1>3. ASSUME NEW p \in Procs, Fills(p, TodoKey(i)), redis'[TodoKey(i)] # redis[TodoKey(i)],
             redis'[TodoKey(i)].todos = seen[p]
      PROVE  blame'[i] # "none"
  <2>1. FindOneSet(p) /\ TodoKey(i) = TodoKey(req[p].id)
    BY <1>3, KeyFacts, RequestFields DEF Fills, FindAllSet, TypeInv, TypeOK, StepMatchesOp, OpOf
  <2>2. req[p].id = i
    BY <2>1, KeyFacts, RequestFields DEF FindOneSet, TypeInv, TypeOK, StepMatchesOp, OpOf
  <2>3. redisUp
    BY <1>3, <2>1 DEF FindOneSet, CacheSet
  <2>4. row' = row
    BY <2>1 DEF FindOneSet
  <2>5. ~Fresh(i, seen[p])
    BY <1>3, <2>4 DEF Fresh, Current
  <2>6. blame' = [blame EXCEPT ![i] = "stale fill"]
    BY <2>1, <2>2, <2>3, <2>5 DEF FindOneSet
  <2> QED
    BY <2>6 DEF TypeInv, TypeOK
<1>4. CASE redis'[TodoKey(i)] = Absent
  BY <1>4 DEF Absent
<1>5. ASSUME NEW w \in Procs, Writes(w), req[w].id # i
      PROVE  redis'[TodoKey(i)] = redis[TodoKey(i)] /\ row'[i] = row[i]
  <2>1. redis'[TodoKey(i)] = redis[TodoKey(i)]
    BY <1>5 DEF Writes
  <2>2. row'[i] = row[i]
    BY <1>5, WrittenRow
  <2> QED
    BY <2>1, <2>2
<1>6. ASSUME NEW w \in Procs, Writes(w) PROVE Invalidating(i)' \/ blame'[i] # "none"
  <2>1. CASE req[w].id = i
    BY <1>1, <1>6, <2>1
  <2>2. CASE req[w].id # i
    <3>1. redis'[TodoKey(i)] = redis[TodoKey(i)] /\ row'[i] = row[i]
      BY <1>5, <1>6, <2>2
    <3> QED
      BY <1>2, <3>1
  <2> QED
    BY <2>1, <2>2
<1>7. CASE row' = row
  <2>1. \/ redis'[TodoKey(i)] = redis[TodoKey(i)]
        \/ redis'[TodoKey(i)] = Absent
        \/ \E p \in Procs : Fills(p, TodoKey(i)) /\ redis'[TodoKey(i)].todos = seen[p]
    BY <1>k, CacheStep DEF CacheUnchangedOrFill
  <2>2. row'[i] = row[i]
    BY <1>7
  <2> QED
    BY <1>2, <1>3, <1>4, <2>1, <2>2
<1> QED
  BY <1>6, <1>7, RowAuthor

SafeInv ==
  TypeInv /\ LiveIsVersioned /\ CommittedOnly /\ FreshIds /\ EntryShape /\ StaleHasCause

LEMMA InitSafe == Init => SafeInv
<1> SUFFICES ASSUME Init PROVE SafeInv
  OBVIOUS
<1>1. TypeInv /\ LiveIsVersioned /\ CommittedOnly
  BY InitType, InitCommitted
<1>2. FreshIds
  BY DEF Init, FreshIds, Inserting
<1>3. \A i \in Ids : ~redis[TodoKey(i)].hit
  BY KeyFacts DEF Init, Absent
<1>4. EntryShape /\ StaleHasCause
  BY <1>3 DEF Init, EntryShape, StaleHasCause
<1> QED
  BY <1>1, <1>2, <1>4 DEF SafeInv

LEMMA SafeStep == SafeInv /\ [Next]_vars => SafeInv'
<1> SUFFICES ASSUME SafeInv, [Next]_vars PROVE SafeInv'
  OBVIOUS
<1> USE DEF SafeInv
<1>1. TypeInv'
  BY TypeStep
<1>2. LiveIsVersioned'
  <2>1. RowUnchangedOrCommit
    BY RowStep
  <2> QED
    BY <2>1, LiveIsVersionedStep
<1>3. CommittedOnly'
  BY CommittedOnlyStep
<1>4. FreshIds'
  BY FreshIdsStep
<1>5. EntryShape'
  BY EntryShapeStep
<1>6. StaleHasCause'
  BY StaleHasCauseStep
<1> QED
  BY <1>1, <1>2, <1>3, <1>4, <1>5, <1>6

LEMMA SafeInvHolds == Spec => []SafeInv
  BY InitSafe, SafeStep, PTL DEF Spec

(* A cached todo that is not the current row awaits its DEL, or has one of *)
(* three causes: a fill a mutation overtook, a DEL lost with Redis, or a   *)
(* commit whose acknowledgement was lost.                                  *)
THEOREM StaleHasCauseHolds == Spec => []StaleHasCause
<1>1. SafeInv => StaleHasCause
  BY DEF SafeInv
<1> QED
  BY <1>1, SafeInvHolds, PTL

-----------------------------------------------------------------------------
(* OneRemover.  A removed todo is dead for good: its id is never inserted  *)
(* again, and a dead row refuses update and remove.                        *)
RemovedIsDead ==
  \A i \in Ids : \A p \in Procs : HasRemoved(p, i) => row[i].ver > 0 /\ ~row[i].live

RemoveInv == SafeInv /\ RemovedIsDead /\ OneRemover

(* The commit of a remove, the only step that makes a remover.             *)
Removes(p, i) ==
  pc[p] = "remove.delete" /\ row[i].live /\ Writes(p) /\ req[p].id = i /\ req[p].op = "remove"

LEMMA RemoverOrigin ==
  ASSUME TypeInv, [Next]_vars, NEW p \in Procs, NEW i \in Ids, HasRemoved(p, i)'
  PROVE  HasRemoved(p, i) \/ (Removes(p, i) /\ \A o \in Procs : o # p => Unmoved(o))
<1>1. CASE Unmoved(p)
  BY <1>1 DEF Unmoved, HasRemoved
<1>2. CASE Arrive(p)
  <2>1. PICK r \in Requests : Goto(p, FirstStep[r.op])
    BY <1>2 DEF Arrive
  <2>2. FirstStep[r.op] # "remove.del"
    BY RequestFields DEF FirstStep
  <2>3. pc'[p] # "remove.del" /\ result'[p].status = 0
    BY <1>2, <2>1, <2>2 DEF Arrive, Goto, Pending, Answer, TypeInv, TypeOK
  <2> QED
    BY <2>3 DEF HasRemoved
<1>3. CASE Step(p)
  <2>1. req' = req
    BY <1>3 DEF Step, CreateInsert, CreateKeys, CreateDel, FindAllGet, FindAllQuery, FindAllSet,
                FindOneGet, FindOneQuery, FindOneSet, RemoveFind, RemoveRefind, RemoveDelete,
                RemoveDel, UpdateWrite, UpdateDel, DbError
  <2>2. req[p].op = "remove" /\ req[p].id = i
    BY <2>1 DEF HasRemoved
  <2>3. ASSUME NEW status, status # 204, NEW todos, Finish(p, status, todos) PROVE FALSE
    BY <2>3 DEF Finish, Answer, HasRemoved, TypeInv, TypeOK
  <2>4. RemoveFind(p) \/ RemoveRefind(p) \/ RemoveDelete(p) \/ RemoveDel(p) \/ DbError(p)
    BY <1>3, <2>2 DEF Step, CreateInsert, CreateKeys, CreateDel, FindAllGet, FindAllQuery,
                      FindAllSet, FindOneGet, FindOneQuery, FindOneSet, UpdateWrite, UpdateDel,
                      TypeInv, StepMatchesOp, OpOf
  <2>5. CASE RemoveFind(p) \/ RemoveRefind(p)
    <3>1. result' = result /\ pc'[p] # "remove.del"
      BY <2>3, <2>5 DEF RemoveFind, RemoveRefind, Goto, Stay, TypeInv, TypeOK
    <3> QED
      BY <2>2, <3>1 DEF HasRemoved
  <2>6. CASE RemoveDelete(p)
    <3>1. Goto(p, "remove.del") /\ Stay(p) /\ CanWrite(req[p]) /\ row' = Written(req[p])
      BY <2>3, <2>6 DEF RemoveDelete
    <3>2. Writes(p)
      BY <2>6, <3>1 DEF RemoveDelete, Writes, WriteSteps, AfterWrite, Goto, TypeInv, TypeOK
    <3>3. row[i].live
      BY <2>2, <3>1 DEF CanWrite
    <3>4. \A o \in Procs : o # p => Unmoved(o)
      BY <2>1, <3>1 DEF Goto, Stay, Unmoved, TypeInv, TypeOK
    <3> QED
      BY <2>2, <2>6, <3>2, <3>3, <3>4 DEF RemoveDelete, Removes
  <2>7. CASE RemoveDel(p)
    BY <2>2, <2>7 DEF RemoveDel, HasRemoved
  <2>8. CASE DbError(p)
    <3>1. Finish(p, 500, {})
      BY <2>8 DEF DbError
    <3> QED
      BY <2>3, <3>1
  <2> QED
    BY <2>4, <2>5, <2>6, <2>7, <2>8
<1> QED
  BY <1>1, <1>2, <1>3, Frame

LEMMA RemoveStep == RemoveInv /\ [Next]_vars => RemoveInv'
<1> SUFFICES ASSUME RemoveInv, [Next]_vars PROVE RemoveInv'
  OBVIOUS
<1> USE DEF RemoveInv
<1>0. TypeInv /\ FreshIds /\ SafeInv'
  BY SafeStep DEF SafeInv
<1>1. ASSUME NEW i \in Ids, row[i].ver > 0, ~row[i].live PROVE row'[i] = row[i]
  <2>1. ASSUME NEW w \in Procs, Writes(w), req[w].id = i PROVE FALSE
    <3>1. pc[w] # "create.insert"
      BY <1>0, <1>1, <2>1 DEF FreshIds, Inserting
    <3>2. req[w].op # "create"
      BY <1>0, <2>1, <3>1 DEF Writes, WriteSteps, TypeInv, StepMatchesOp, OpOf
    <3> QED
      BY <1>1, <2>1, <3>2 DEF Writes, CanWrite
  <2>2. ASSUME NEW w \in Procs, Writes(w), req[w].id # i PROVE row'[i] = row[i]
    BY <1>0, <2>2, WrittenRow
  <2> QED
    BY <1>0, <2>1, <2>2, RowAuthor
<1>2. ASSUME NEW i \in Ids, NEW p \in Procs, HasRemoved(p, i)'
      PROVE  row'[i].ver > 0 /\ ~row'[i].live
  <2>1. CASE HasRemoved(p, i)
    BY <1>1, <2>1 DEF RemovedIsDead
  <2>2. CASE Removes(p, i)
    <3>1. row'[i] = [live |-> FALSE, ver |-> row[i].ver + 1] /\ row[i].ver \in Nat
      BY <1>0, <2>2, WrittenRow DEF Removes, TypeInv, TypeOK
    <3> QED
      BY <3>1
  <2> QED
    BY <1>0, <1>2, <2>1, <2>2, RemoverOrigin
<1>3. ASSUME NEW i \in Ids, NEW p \in Procs, NEW o \in Procs, HasRemoved(p, i)', HasRemoved(o, i)'
      PROVE  o = p
  <2> SUFFICES ASSUME o # p PROVE FALSE
    OBVIOUS
  <2>1. HasRemoved(p, i) \/ (Removes(p, i) /\ Unmoved(o))
    BY <1>0, <1>3, RemoverOrigin
  <2>2. HasRemoved(o, i) \/ (Removes(o, i) /\ Unmoved(p))
    BY <1>0, <1>3, RemoverOrigin
  <2>3. Unmoved(o) => HasRemoved(o, i)
    BY <1>3 DEF Unmoved, HasRemoved
  <2>4. Unmoved(p) => HasRemoved(p, i)
    BY <1>3 DEF Unmoved, HasRemoved
  <2>5. \A q \in Procs : HasRemoved(q, i) => ~row[i].live
    BY DEF RemovedIsDead
  <2> QED
    BY <2>1, <2>2, <2>3, <2>4, <2>5 DEF Removes, OneRemover
<1>4. RemovedIsDead' /\ OneRemover'
  BY <1>2, <1>3 DEF RemovedIsDead, OneRemover
<1> QED
  BY <1>0, <1>4

(* Of all the removals of a todo, at most one is past its commit or was    *)
(* answered 204, and the row is dead from then on.                         *)
THEOREM OneRemoverHolds == Spec => []OneRemover
<1>1. Init => RemoveInv
  <2>1. Init => RemovedIsDead /\ OneRemover
    BY DEF Init, RemovedIsDead, OneRemover, HasRemoved, Pending, Answer
  <2> QED
    BY <2>1, InitSafe DEF RemoveInv
<1>2. RemoveInv => OneRemover
  BY DEF RemoveInv
<1> QED
  BY <1>1, <1>2, RemoveStep, PTL DEF Spec

-----------------------------------------------------------------------------
(* The refinement.  The promise of TodoStore asks more of a page than that *)
(* its todos were committed: PageShape.  NothingHeld makes the answer of a *)
(* removal empty before it is sent.                                        *)

(* A list page, cached or about to be, shows todos of its user only, each  *)
(* at one version; a request holds todos only between its database call    *)
(* and its answer.                                                         *)
PageOf(u, todos) ==
  /\ \A t \in todos : Owner[t[1]] = u
  /\ \A s, t \in todos : s[1] = t[1] => s = t

PageShape ==
  /\ \A u \in Users, q \in Queries : PageOf(u, redis[ListKey(u, q)].todos)
  /\ \A p \in Procs : pc[p] = "findAll.set" => PageOf(req[p].user, seen[p])

Holding == {"create.keys", "create.del", "findAll.set", "findOne.set", "update.del"}
NothingHeld == \A p \in Procs : pc[p] \notin Holding => seen[p] = {}

(* Each user and query has a list page of its own.                         *)
LEMMA ListKeyFacts ==
  \A u, v \in Users, q, r \in Queries : ListKey(u, q) = ListKey(v, r) => u = v /\ q = r
  BY DEF ListKey

(* The page a query reads.                                                 *)
Page(u) == UNION {Current(i) : i \in LiveOf(u)}

LEMMA QueriedPage ==
  ASSUME NEW u
  PROVE  PageOf(u, Page(u))
<1>1. \A t \in Page(u) : t[1] \in Ids /\ t = <<t[1], row[t[1]].ver>> /\ Owner[t[1]] = u
  BY DEF Page, Current, LiveOf
<1> QED
  BY <1>1 DEF PageOf

LEMMA FindAllSetOrigin ==
  ASSUME TypeInv, NEW p \in Procs, Step(p), pc'[p] = "findAll.set"
  PROVE  seen'[p] = Page(req[p].user) /\ req' = req
<1>1. ASSUME NEW status, NEW todos, Finish(p, status, todos) PROVE FALSE
  BY <1>1 DEF Finish, TypeInv, TypeOK
<1>2. ASSUME NEW step, step # "findAll.set", Goto(p, step) PROVE FALSE
  BY <1>2 DEF Goto, TypeInv, TypeOK
<1>3. ASSUME CreateInsert(p) \/ FindOneQuery(p) \/ UpdateWrite(p) PROVE FALSE
  BY <1>1, <1>2, <1>3 DEF CreateInsert, FindOneQuery, UpdateWrite
<1>4. ASSUME CreateKeys(p) \/ FindAllGet(p) \/ FindOneGet(p) \/ RemoveFind(p) \/ RemoveRefind(p)
                \/ RemoveDelete(p)
      PROVE  FALSE
  BY <1>1, <1>2, <1>4 DEF CreateKeys, FindAllGet, FindOneGet, RemoveFind, RemoveRefind,
                          RemoveDelete
<1>5. ASSUME CreateDel(p) \/ FindAllSet(p) \/ FindOneSet(p) \/ RemoveDel(p) \/ UpdateDel(p)
                \/ DbError(p)
      PROVE  FALSE
  BY <1>1, <1>5 DEF CreateDel, FindAllSet, FindOneSet, RemoveDel, UpdateDel, DbError
<1>6. FindAllQuery(p)
  BY <1>3, <1>4, <1>5 DEF Step
<1> QED
  BY <1>6 DEF FindAllQuery, Hold, Page, TypeInv, TypeOK

LEMMA PageShapeStep ==
  ASSUME TypeInv, PageShape, [Next]_vars
  PROVE  PageShape'
<1>1. ASSUME NEW u \in Users, NEW q \in Queries
      PROVE  PageOf(u, redis'[ListKey(u, q)].todos)
  <2>1. ListKey(u, q) \in Keys
    BY KeyFacts
  <2>2. CASE redis'[ListKey(u, q)] = redis[ListKey(u, q)]
    BY <2>2 DEF PageShape
  <2>3. CASE redis'[ListKey(u, q)] = Absent
    BY <2>3 DEF Absent, PageOf
  <2>4. ASSUME NEW p \in Procs, Fills(p, ListKey(u, q)), redis'[ListKey(u, q)].todos = seen[p]
        PROVE  PageOf(u, redis'[ListKey(u, q)].todos)
    <3>1. ASSUME FindOneSet(p) PROVE ListKey(u, q) # TodoKey(req[p].id)
      <4>1. req[p].id \in Ids
        BY <3>1, RequestFields DEF FindOneSet, TypeInv, TypeOK, StepMatchesOp, OpOf
      <4> QED
        BY <4>1, KeyFacts
    <3>2. FindAllSet(p) /\ ListKey(u, q) = ListKey(req[p].user, req[p].query)
      BY <2>4, <3>1 DEF Fills
    <3>3. req[p].user \in Users /\ req[p].query \in Queries
      BY <3>2, RequestFields DEF FindAllSet, TypeInv, TypeOK, StepMatchesOp, OpOf
    <3>4. req[p].user = u /\ pc[p] = "findAll.set"
      BY <3>2, <3>3, ListKeyFacts DEF FindAllSet
    <3> QED
      BY <2>4, <3>4 DEF PageShape
  <2> QED
    BY <2>1, <2>2, <2>3, <2>4, CacheStep DEF CacheUnchangedOrFill
<1>2. ASSUME NEW p \in Procs, pc'[p] = "findAll.set"
      PROVE  PageOf(req'[p].user, seen'[p])
  <2>1. CASE Unmoved(p)
    BY <1>2, <2>1 DEF Unmoved, PageShape
  <2>2. CASE Arrive(p)
    <3>1. PICK r \in Requests : Goto(p, FirstStep[r.op])
      BY <2>2 DEF Arrive
    <3>2. FirstStep[r.op] # "findAll.set"
      BY RequestFields DEF FirstStep
    <3> QED
      BY <1>2, <3>1, <3>2 DEF Goto, TypeInv, TypeOK
  <2>3. CASE Step(p)
    BY <1>2, <2>3, FindAllSetOrigin, QueriedPage
  <2> QED
    BY <2>1, <2>2, <2>3, Frame
<1>3. \A u \in Users, q \in Queries : PageOf(u, redis[ListKey(u, q)].todos)'
  BY <1>1 DEF PageOf
<1>4. \A p \in Procs : pc'[p] = "findAll.set" => PageOf(req[p].user, seen[p])'
  BY <1>2 DEF PageOf
<1> QED
  BY <1>3, <1>4 DEF PageShape

LEMMA NothingHeldStep ==
  ASSUME TypeInv, NothingHeld, [Next]_vars
  PROVE  NothingHeld'
<1> SUFFICES ASSUME NEW p \in Procs, pc'[p] \notin Holding PROVE seen'[p] = {}
  BY DEF NothingHeld, Holding
<1>1. ASSUME NEW status, NEW todos, Finish(p, status, todos) PROVE seen'[p] = {}
  BY <1>1 DEF Finish, TypeInv, TypeOK
<1>2. ASSUME pc[p] \notin Holding, seen' = seen PROVE seen'[p] = {}
  BY <1>2 DEF NothingHeld
<1>3. ASSUME NEW step \in Holding, Goto(p, step) PROVE FALSE
  BY <1>3 DEF Goto, TypeInv, TypeOK
<1>4. CASE Unmoved(p)
  BY <1>4 DEF Unmoved, NothingHeld
<1>5. CASE Arrive(p)
  BY <1>2, <1>5 DEF Arrive, Holding
<1>6. CASE Step(p)
  <2>1. CASE CreateInsert(p) \/ CreateKeys(p) \/ FindAllQuery(p) \/ FindOneQuery(p)
               \/ UpdateWrite(p)
    BY <1>1, <1>3, <2>1
    DEF CreateInsert, CreateKeys, FindAllQuery, FindOneQuery, UpdateWrite, Holding
  <2>2. CASE FindAllGet(p) \/ FindOneGet(p) \/ RemoveFind(p) \/ RemoveRefind(p) \/ RemoveDelete(p)
    <3>1. pc[p] \notin Holding
      BY <2>2 DEF FindAllGet, FindOneGet, RemoveFind, RemoveRefind, RemoveDelete, Holding
    <3> QED
      BY <1>1, <1>2, <2>2, <3>1
      DEF FindAllGet, FindOneGet, RemoveFind, RemoveRefind, RemoveDelete, Stay
  <2>3. CASE CreateDel(p) \/ FindAllSet(p) \/ FindOneSet(p) \/ RemoveDel(p) \/ UpdateDel(p)
               \/ DbError(p)
    BY <1>1, <2>3 DEF CreateDel, FindAllSet, FindOneSet, RemoveDel, UpdateDel, DbError
  <2> QED
    BY <1>6, <2>1, <2>2, <2>3 DEF Step
<1> QED
  BY <1>4, <1>5, <1>6, Frame

StoreInv == SafeInv /\ PageShape /\ NothingHeld

LEMMA StoreInvInit == Init => StoreInv
<1> SUFFICES ASSUME Init PROVE StoreInv
  OBVIOUS
<1>1. PageShape
  BY KeyFacts DEF Init, PageShape, PageOf, Absent
<1>2. NothingHeld
  BY DEF Init, NothingHeld
<1> QED
  BY <1>1, <1>2, InitSafe DEF StoreInv

LEMMA StoreInvStep == StoreInv /\ [Next]_vars => StoreInv'
  BY SafeStep, PageShapeStep, NothingHeldStep DEF StoreInv, SafeInv

(* What the refinement mapping shows of a step that moves one request.     *)
Alone(p) == req' = req /\ \A q \in Procs : q # p => Unmoved(q)

LEMMA OthersView ==
  ASSUME NEW q \in Procs, Unmoved(q)
  PROVE  Phase(q)' = Phase(q) /\ Decision(q)' = Decision(q)
<1>1. Phase(q)' = Phase(q)
  BY DEF Unmoved, Phase
<1> QED
  BY <1>1 DEF Unmoved, Decision

(* A decision, ...                                                         *)
LEMMA StoreDecide ==
  ASSUME NEW p \in Procs, Alone(p), Phase(p) = "open", Phase(p)' \in {"decided", "idle"}
  PROVE  Store!Decide(p) /\ \A answer : Decision(p)' = answer => Store!DecideAs(p, answer)
<1>1. \A q \in Procs : q # p => Phase(q)' = Phase(q) /\ Decision(q)' = Decision(q)
  BY OthersView DEF Alone
<1>2. Store!Decide(p)
  BY <1>1 DEF Alone, Store!Decide
<1>3. ASSUME NEW answer, Decision(p)' = answer PROVE Store!DecideAs(p, answer)
  BY <1>1, <1>3 DEF Store!DecideAs
<1> QED
  BY <1>2, <1>3

(* ... the sending of an answer, ...                                       *)
LEMMA StoreReturn ==
  ASSUME NEW p \in Procs, Alone(p), Phase(p) = "decided", Phase(p)' = "idle",
         Decision(p)' = Decision(p), row' = row
  PROVE  Store!Return(p)
<1>1. \A q \in Procs : Decision(q)' = Decision(q) /\ (q # p => Phase(q)' = Phase(q))
  BY OthersView DEF Alone
<1> QED
  BY <1>1 DEF Alone, Store!Return

(* ... and nothing.                                                        *)
LEMMA StoreStutter ==
  ASSUME row' = row, req' = req,
         \A p \in Procs : Phase(p)' = Phase(p) /\ Decision(p)' = Decision(p)
  PROVE  UNCHANGED Store!vars
  BY DEF Store!vars
(* No request is open in the first state.                                  *)
LEMMA StoreInit == Init => Store!Init
<1> SUFFICES ASSUME Init PROVE Store!Init
  OBVIOUS
<1>1. req \in [Procs -> Store!Requests]
  BY InitType DEF TypeInv, TypeOK, Requests, Store!Requests, Store!ReadOneOps, Store!WriteOps
<1>2. \A p \in Procs : Phase(p) = "idle" /\ Decision(p) = Store!Pending
  BY DEF Init, Phase, Decision, Pending, Answer, Store!Pending
<1> QED
  BY <1>1, <1>2 DEF Init, Store!Init

(* The todos a request finds, in the terms of the abstract specification.  *)
LEMMA HeldTodo ==
  ASSUME TypeInv, NEW t \in Todos, Held(t)
  PROVE  t \in Store!HeldTodos(t[1])
<1>1. t = <<t[1], t[2]>> /\ t[1] \in Ids /\ t[2] \in Nat
  BY DEF Todos
<1>2. row[t[1]].ver \in Nat /\ row[t[1]].live \in BOOLEAN
  BY <1>1 DEF TypeInv, TypeOK
<1>3. t[2] \in Store!HeldVersions(t[1])
  BY <1>1, <1>2 DEF Held, Store!HeldVersions
<1> QED
  BY <1>1, <1>3 DEF Store!HeldTodos

LEMMA HeldPage ==
  ASSUME TypeInv, NEW u \in Users, NEW todos \in SUBSET Todos, \A t \in todos : Held(t),
         PageOf(u, todos)
  PROVE  /\ todos \in SUBSET UNION {Store!HeldTodos(i) : i \in Store!OwnedBy(u)}
         /\ Store!IsPage(u, todos)
<1>1. ASSUME NEW t \in todos PROVE \E i \in Store!OwnedBy(u) : t \in Store!HeldTodos(i)
  <2>1. t[1] \in Ids /\ Owner[t[1]] = u
    BY DEF Todos, PageOf
  <2>2. t[1] \in Store!OwnedBy(u)
    BY <2>1 DEF Store!OwnedBy
  <2> QED
    BY <2>2, HeldTodo
<1> QED
  BY <1>1 DEF PageOf, Store!IsPage

LEMMA CurrentHeld ==
  ASSUME TypeInv, LiveIsVersioned, NEW i \in Ids, row[i].live
  PROVE  Current(i) \in SUBSET Todos /\ \A t \in Current(i) : Held(t)
<1>1. row[i].ver \in Nat /\ row[i].ver > 0
  BY DEF TypeInv, TypeOK, LiveIsVersioned
<1>2. \A t \in Current(i) : t = <<i, row[i].ver>>
  BY DEF Current
<1> QED
  BY <1>1, <1>2 DEF Held, Todos

(* What the mapping shows of the pieces actions are made of.               *)
LEMMA FinishView ==
  ASSUME TypeInv, NEW p \in Procs, NEW status, NEW todos, Finish(p, status, todos)
  PROVE  Phase(p)' = "idle" /\ Decision(p)' = Answer(status, todos)
<1>1. pc'[p] = "idle" /\ result'[p] = Answer(status, todos)
  BY DEF Finish, TypeInv, TypeOK
<1>2. Phase(p)' = "idle"
  BY <1>1 DEF Phase
<1> QED
  BY <1>1, <1>2 DEF Decision

DecidedSteps ==
  {"create.keys", "create.del", "findAll.set", "findOne.set", "remove.del", "update.del"}

LEMMA GotoView ==
  ASSUME TypeInv, NEW p \in Procs, NEW step, Goto(p, step), req' = req
  PROVE  /\ step \in DecidedSteps =>
              Phase(p)' = "decided" /\ Decision(p)' = Answer(SuccessStatus(req[p]), seen'[p])
         /\ step # "idle" /\ step \notin DecidedSteps =>
              Phase(p)' = "open" /\ Decision(p)' = result'[p]
<1>1. pc'[p] = step
  BY DEF Goto, TypeInv, TypeOK
<1>2. step \in DecidedSteps => Phase(p)' = "decided"
  BY <1>1 DEF Phase, DecidedSteps
<1>3. step # "idle" /\ step \notin DecidedSteps => Phase(p)' = "open"
  BY <1>1 DEF Phase, DecidedSteps
<1> QED
  BY <1>2, <1>3 DEF Decision, SuccessStatus

LEMMA PhaseOf ==
  ASSUME NEW p \in Procs
  PROVE  /\ pc[p] \in DecidedSteps =>
              Phase(p) = "decided" /\ Decision(p) = Answer(SuccessStatus(req[p]), seen[p])
         /\ pc[p] # "idle" /\ pc[p] \notin DecidedSteps =>
              Phase(p) = "open" /\ Decision(p) = result[p]
  BY DEF Phase, Decision, DecidedSteps

LEMMA StepAlone ==
  ASSUME TypeInv, NEW p \in Procs, Step(p)
  PROVE  Alone(p)
<1>1. req' = req
  BY DEF Step, CreateInsert, CreateKeys, CreateDel, FindAllGet, FindAllQuery, FindAllSet,
         FindOneGet, FindOneQuery, FindOneSet, RemoveFind, RemoveRefind, RemoveDelete,
         RemoveDel, UpdateWrite, UpdateDel, DbError
<1> QED
  BY <1>1, OthersUnmoved DEF Alone

(* A write the database accepts is one the promise allows: an insert finds *)
(* no live row, its id being new.                                          *)
LEMMA AcceptedWrite ==
  ASSUME SafeInv, NEW p \in Procs, pc[p] \in WriteSteps, CanWrite(req[p])
  PROVE  /\ req[p].op \in Store!WriteOps
         /\ Store!CanWrite(req[p])
         /\ Written(req[p]) = Store!Written(req[p])
<1>1. /\ req[p].op \in {"create", "remove", "update"}
      /\ req[p].op = "create" => pc[p] = "create.insert"
  BY DEF SafeInv, TypeInv, StepMatchesOp, OpOf, WriteSteps
<1>2. req[p].id \in Ids
  BY <1>1, RequestFields DEF SafeInv, TypeInv, TypeOK
<1>3. req[p].op = "create" => ~row[req[p].id].live
  BY <1>1, <1>2 DEF SafeInv, FreshIds, Inserting, LiveIsVersioned
<1>4. Store!CanWrite(req[p])
  BY <1>3 DEF CanWrite, Store!CanWrite
<1>5. Written(req[p]) = Store!Written(req[p])
  BY DEF Written, Commit, Store!Written, Store!Commit
<1> QED
  BY <1>1, <1>4, <1>5 DEF Store!WriteOps

(* The answer to a write is decided by its commit.                         *)
LEMMA WriteImpl ==
  ASSUME SafeInv, NEW p \in Procs, Step(p), pc[p] \in WriteSteps,
         CanWrite(req[p]), row' = Written(req[p]), Phase(p)' = "decided",
         Decision(p)' = Answer(SuccessStatus(req[p]),
                               IF req[p].op = "remove" THEN {}
                                 ELSE {<<req[p].id, row[req[p].id].ver + 1>>})
  PROVE  Store!Write(p)
<1>1. Alone(p) /\ Phase(p) = "open"
  BY StepAlone, PhaseOf DEF SafeInv, WriteSteps, DecidedSteps
<1>2. Store!Decide(p) /\ Store!DecideAs(p, Decision(p)')
  BY <1>1, StoreDecide
<1>3. req[p].op \in {"create", "remove", "update"}
  BY DEF SafeInv, TypeInv, StepMatchesOp, OpOf, WriteSteps
<1>4. Decision(p)' = Store!SuccessOf(req[p])
  BY <1>3 DEF Store!SuccessOf, SuccessStatus, Answer, Store!Answer
<1> QED
  BY <1>2, <1>4, AcceptedWrite DEF Store!Write

(* A step the clients see nothing of.                                      *)
LEMMA UnseenMove ==
  ASSUME NEW p \in Procs, Alone(p), row' = row, Phase(p)' = Phase(p), Decision(p)' = Decision(p)
  PROVE  UNCHANGED Store!vars
<1>1. \A q \in Procs : Phase(q)' = Phase(q) /\ Decision(q)' = Decision(q)
  BY OthersView DEF Alone
<1> QED
  BY <1>1, StoreStutter DEF Alone

(* A client's call opens a request.                                        *)
LEMMA ArriveImpl ==
  ASSUME StoreInv, NEW p \in Procs, Arrive(p)
  PROVE  Store!Open(p)
<1> USE DEF StoreInv, SafeInv
<1>1. PICK r \in Requests : /\ req' = [req EXCEPT ![p] = r]
                            /\ Goto(p, FirstStep[r.op])
  BY DEF Arrive
<1>2. FirstStep[r.op] \in Steps \ (DecidedSteps \cup {"idle"})
  BY RequestFields DEF FirstStep, Steps, DbSteps, CacheSteps, DecidedSteps
<1>3. pc'[p] = FirstStep[r.op] /\ result'[p] = Pending
  BY <1>1 DEF Arrive, Goto, TypeInv, TypeOK
<1>4. Phase(p)' = "open"
  BY <1>2, <1>3 DEF Phase, DecidedSteps
<1>5. Decision(p)' = Pending
  BY <1>3, <1>4 DEF Decision
<1>6. \A q \in Procs : q # p => Phase(q)' = Phase(q) /\ Decision(q)' = Decision(q)
  BY OthersUnmoved, OthersView
<1>7. Phase(p) = "idle" /\ row' = row
  BY DEF Arrive, Phase, store
<1>8. r \in Store!Requests
  BY DEF Requests, Store!Requests, Store!ReadOneOps, Store!WriteOps
<1>9. Pending = Store!Pending
  BY DEF Pending, Answer, Store!Pending
<1> QED
  BY <1>1, <1>4, <1>5, <1>6, <1>7, <1>8, <1>9 DEF Store!Open

(* A request not yet decided that reads one todo, ...                      *)
LEMMA ReadOneImpl ==
  ASSUME StoreInv, NEW p \in Procs, Step(p), Phase(p) = "open", Phase(p)' \in {"decided", "idle"},
         req[p].op = "findOne", row' = row,
         \/ \E t \in Todos : Held(t) /\ t[1] = req[p].id /\ Decision(p)' = Answer(200, {t})
         \/ ~row[req[p].id].live /\ Decision(p)' = Answer(404, {})
  PROVE  Store!ReadOne(p)
<1> USE DEF StoreInv, SafeInv
<1>1. Store!Decide(p) /\ Store!DecideAs(p, Decision(p)')
  BY StepAlone, StoreDecide
<1>2. ASSUME NEW t \in Todos, Held(t), t[1] = req[p].id, Decision(p)' = Answer(200, {t})
      PROVE  \E s \in Store!HeldTodos(req[p].id) : Store!DecideAs(p, Store!Answer(200, {s}))
  BY <1>1, <1>2, HeldTodo DEF Answer, Store!Answer
<1>3. ASSUME Decision(p)' = Answer(404, {}) PROVE Store!DecideAs(p, Store!Answer(404, {}))
  BY <1>1, <1>3 DEF Answer, Store!Answer
<1> QED
  BY <1>1, <1>2, <1>3 DEF Store!ReadOne, Store!ReadOneOps

(* ... or a list.                                                          *)
LEMMA ReadPageImpl ==
  ASSUME StoreInv, NEW p \in Procs, Step(p), Phase(p) = "open", Phase(p)' \in {"decided", "idle"},
         req[p].op = "findAll", row' = row, NEW todos \in SUBSET Todos,
         \A t \in todos : Held(t), PageOf(req[p].user, todos), Decision(p)' = Answer(200, todos)
  PROVE  Store!ReadPage(p)
<1> USE DEF StoreInv, SafeInv
<1>1. Store!Decide(p) /\ Store!DecideAs(p, Decision(p)')
  BY StepAlone, StoreDecide
<1>2. req[p].user \in Users
  BY RequestFields DEF TypeInv, TypeOK
<1>3. /\ todos \in SUBSET UNION {Store!HeldTodos(i) : i \in Store!OwnedBy(req[p].user)}
      /\ Store!IsPage(req[p].user, todos)
  BY <1>2, HeldPage
<1>4. Store!DecideAs(p, Store!Answer(200, todos))
  BY <1>1 DEF Answer, Store!Answer
<1> QED
  BY <1>1, <1>3, <1>4 DEF Store!ReadPage

(* A write the database refuses, ...                                       *)
LEMMA RefuseImpl ==
  ASSUME StoreInv, NEW p \in Procs, Step(p), Phase(p) = "open", Phase(p)' \in {"decided", "idle"},
         req[p].op \in {"create", "remove", "update"}, row' = row,
         \/ /\ req[p].op = "create" /\ Owner[req[p].id] \notin Registered
            /\ Decision(p)' = Answer(409, {})
         \/ /\ req[p].op # "create" /\ ~row[req[p].id].live
            /\ Decision(p)' = Answer(404, {})
  PROVE  Store!Refuse(p)
<1>1. Store!Decide(p) /\ Store!DecideAs(p, Decision(p)')
  BY StepAlone, StoreDecide DEF StoreInv, SafeInv
<1>2. \A status : Answer(status, {}) = Store!Answer(status, {})
  BY DEF Answer, Store!Answer
<1> QED
  BY <1>1, <1>2 DEF Store!Refuse, Store!WriteOps

(* ... an answer that is sent as it was decided, ...                       *)
LEMMA ReturnImpl ==
  ASSUME StoreInv, NEW p \in Procs, Step(p), pc[p] \in DecidedSteps, row' = row,
         Finish(p, SuccessStatus(req[p]), seen[p])
  PROVE  Store!Return(p)
<1>1. Alone(p)
  BY StepAlone DEF StoreInv, SafeInv
<1>2. Phase(p) = "decided" /\ Decision(p) = Answer(SuccessStatus(req[p]), seen[p])
  BY PhaseOf
<1>3. Phase(p)' = "idle" /\ Decision(p)' = Answer(SuccessStatus(req[p]), seen[p])
  BY FinishView DEF StoreInv, SafeInv
<1> QED
  BY <1>1, <1>2, <1>3, StoreReturn

(* ... and a database call that throws, its write done or not.             *)
LEMMA FailImpl ==
  ASSUME StoreInv, NEW p \in Procs, DbError(p)
  PROVE  Store!Fail(p)
<1> USE DEF StoreInv, SafeInv
<1>1. Step(p) /\ Finish(p, 500, {}) /\ pc[p] \in DbSteps
  BY DEF Step, DbError
<1>2. Phase(p) = "open"
  BY <1>1, PhaseOf DEF DbSteps, DecidedSteps
<1>3. Phase(p)' = "idle" /\ Decision(p)' = Answer(500, {})
  BY <1>1, FinishView
<1>4. Store!Decide(p) /\ Store!DecideAs(p, Store!Answer(500, {}))
  BY <1>1, <1>2, <1>3, StepAlone, StoreDecide DEF Answer, Store!Answer
<1>5. CASE row' = row
  BY <1>4, <1>5 DEF Store!Fail
<1>6. CASE pc[p] \in WriteSteps /\ CanWrite(req[p]) /\ row' = Written(req[p])
  BY <1>4, <1>6, AcceptedWrite DEF Store!Fail
<1> QED
  BY <1>5, <1>6 DEF DbError

(* findAll: the page is decided by the cache or by the query.              *)
LEMMA FindAllImpl ==
  ASSUME StoreInv, NEW p \in Procs, FindAllGet(p) \/ FindAllQuery(p) \/ FindAllSet(p)
  PROVE  Store!ReadPage(p) \/ Store!Return(p) \/ UNCHANGED Store!vars
<1> USE DEF StoreInv, SafeInv
<1>1. Step(p) /\ Alone(p)
  BY StepAlone DEF Step
<1>2. req[p].op = "findAll" /\ req[p].user \in Users /\ req[p].query \in Queries
  BY RequestFields DEF FindAllGet, FindAllQuery, FindAllSet, TypeInv, TypeOK, StepMatchesOp, OpOf
<1>3. CASE FindAllGet(p)
  <2> DEFINE key == ListKey(req[p].user, req[p].query)
  <2>1. Phase(p) = "open" /\ row' = row /\ Decision(p) = result[p]
    BY <1>3, PhaseOf DEF FindAllGet, DecidedSteps, store
  <2>2. key \in Keys /\ CacheGet(key).todos \in {redis[key].todos, {}}
    BY <1>2, KeyFacts DEF CacheGet, Absent
  <2>3. CASE Finish(p, 200, CacheGet(key).todos)
    <3>1. Phase(p)' = "idle" /\ Decision(p)' = Answer(200, CacheGet(key).todos)
      BY <2>3, FinishView
    <3>2. CacheGet(key).todos \in SUBSET Todos /\ \A t \in CacheGet(key).todos : Held(t)
      BY <2>2 DEF CommittedOnly, TypeInv, TypeOK, Entry
    <3>3. PageOf(req[p].user, CacheGet(key).todos)
      BY <1>2, <2>2 DEF PageShape, PageOf
    <3> QED
      BY <1>1, <1>2, <2>1, <3>1, <3>2, <3>3, ReadPageImpl
  <2>4. CASE Goto(p, "findAll.query") /\ Stay(p)
    <3>1. Phase(p)' = "open" /\ Decision(p)' = result'[p] /\ result' = result
      BY <1>1, <2>4, GotoView DEF Alone, Stay, DecidedSteps
    <3> QED
      BY <1>1, <2>1, <3>1, UnseenMove
  <2> QED
    BY <1>3, <2>3, <2>4 DEF FindAllGet
<1>4. CASE FindAllQuery(p)
  <2> DEFINE todos == Page(req[p].user)
  <2>1. Phase(p) = "open" /\ row' = row
    BY <1>4, PhaseOf DEF FindAllQuery, DecidedSteps, store
  <2>2. Goto(p, "findAll.set") /\ seen'[p] = todos
    BY <1>4 DEF FindAllQuery, Hold, Page, TypeInv, TypeOK
  <2>3. Phase(p)' = "decided" /\ Decision(p)' = Answer(200, todos)
    BY <1>1, <1>2, <2>2, GotoView DEF Alone, DecidedSteps, SuccessStatus
  <2>4. todos \in SUBSET Todos /\ \A t \in todos : Held(t)
    BY CurrentHeld DEF Page, LiveOf
  <2> QED
    BY <1>1, <1>2, <2>1, <2>3, <2>4, QueriedPage, ReadPageImpl
<1>5. CASE FindAllSet(p)
  <2>1. SuccessStatus(req[p]) = 200
    BY <1>2 DEF SuccessStatus
  <2> QED
    BY <1>1, <1>5, <2>1, ReturnImpl DEF FindAllSet, DecidedSteps
<1> QED
  BY <1>3, <1>4, <1>5

(* findOne: the same of one todo, or its absence.                          *)
LEMMA FindOneImpl ==
  ASSUME StoreInv, NEW p \in Procs, FindOneGet(p) \/ FindOneQuery(p) \/ FindOneSet(p)
  PROVE  Store!ReadOne(p) \/ Store!Return(p) \/ UNCHANGED Store!vars
<1> USE DEF StoreInv, SafeInv
<1>1. Step(p) /\ Alone(p)
  BY StepAlone DEF Step
<1>2. req[p].op = "findOne" /\ req[p].id \in Ids
  BY RequestFields DEF FindOneGet, FindOneQuery, FindOneSet, TypeInv, TypeOK, StepMatchesOp, OpOf
<1>3. CASE FindOneGet(p)
  <2> DEFINE key == TodoKey(req[p].id)
  <2>1. Phase(p) = "open" /\ row' = row /\ Decision(p) = result[p]
    BY <1>3, PhaseOf DEF FindOneGet, DecidedSteps, store
  <2>2. CASE CacheGet(key).hit /\ Finish(p, 200, CacheGet(key).todos)
    <3>1. Phase(p)' = "idle" /\ Decision(p)' = Answer(200, CacheGet(key).todos)
      BY <2>2, FinishView
    <3>2. CacheGet(key) = redis[key] /\ key \in Keys
      BY <1>2, <2>2, KeyFacts DEF CacheGet, Absent
    <3>3. PICK v \in Nat : redis[key].todos = {<<req[p].id, v>>}
      BY <1>2, <2>2, <3>2 DEF EntryShape
    <3>4. <<req[p].id, v>> \in Todos /\ Held(<<req[p].id, v>>)
      BY <1>2, <3>2, <3>3 DEF CommittedOnly, Todos
    <3> QED
      BY <1>1, <1>2, <2>1, <3>1, <3>2, <3>3, <3>4, ReadOneImpl
  <2>3. CASE Goto(p, "findOne.query") /\ Stay(p)
    <3>1. Phase(p)' = "open" /\ Decision(p)' = result'[p] /\ result' = result
      BY <1>1, <2>3, GotoView DEF Alone, Stay, DecidedSteps
    <3> QED
      BY <1>1, <2>1, <3>1, UnseenMove
  <2> QED
    BY <1>3, <2>2, <2>3 DEF FindOneGet
<1>4. CASE FindOneQuery(p)
  <2>1. Phase(p) = "open" /\ row' = row
    BY <1>4, PhaseOf DEF FindOneQuery, DecidedSteps, store
  <2>2. CASE row[req[p].id].live /\ Hold(p, Current(req[p].id)) /\ Goto(p, "findOne.set")
    <3>1. seen'[p] = {<<req[p].id, row[req[p].id].ver>>}
      BY <2>2 DEF Hold, Current, TypeInv, TypeOK
    <3>2. Phase(p)' = "decided" /\ Decision(p)' = Answer(200, {<<req[p].id, row[req[p].id].ver>>})
      BY <1>1, <1>2, <2>2, <3>1, GotoView DEF Alone, DecidedSteps, SuccessStatus
    <3>3. <<req[p].id, row[req[p].id].ver>> \in Todos /\ Held(<<req[p].id, row[req[p].id].ver>>)
      BY <1>2, <2>2, CurrentHeld DEF Current
    <3> QED
      BY <1>1, <1>2, <2>1, <3>2, <3>3, ReadOneImpl
  <2>3. CASE ~row[req[p].id].live /\ Finish(p, 404, {})
    <3>1. Phase(p)' = "idle" /\ Decision(p)' = Answer(404, {})
      BY <2>3, FinishView
    <3> QED
      BY <1>1, <1>2, <2>1, <2>3, <3>1, ReadOneImpl
  <2> QED
    BY <1>4, <2>2, <2>3 DEF FindOneQuery
<1>5. CASE FindOneSet(p)
  <2>1. SuccessStatus(req[p]) = 200
    BY <1>2 DEF SuccessStatus
  <2> QED
    BY <1>1, <1>5, <2>1, ReturnImpl DEF FindOneSet, DecidedSteps
<1> QED
  BY <1>3, <1>4, <1>5

(* create: decided by the insert; the invalidation of the lists is unseen. *)
LEMMA CreateImpl ==
  ASSUME StoreInv, NEW p \in Procs, CreateInsert(p) \/ CreateKeys(p) \/ CreateDel(p)
  PROVE  Store!Write(p) \/ Store!Refuse(p) \/ Store!Return(p) \/ UNCHANGED Store!vars
<1> USE DEF StoreInv, SafeInv
<1>1. Step(p) /\ Alone(p)
  BY StepAlone DEF Step
<1>2. req[p].op = "create" /\ SuccessStatus(req[p]) = 201
  BY DEF CreateInsert, CreateKeys, CreateDel, TypeInv, TypeOK, StepMatchesOp, OpOf, SuccessStatus
<1>3. CASE CreateInsert(p)
  <2>1. Phase(p) = "open" /\ pc[p] \in WriteSteps
    BY <1>3, PhaseOf DEF CreateInsert, DecidedSteps, WriteSteps
  <2>2. CASE /\ CanWrite(req[p]) /\ row' = Written(req[p])
             /\ Hold(p, {<<req[p].id, row[req[p].id].ver + 1>>}) /\ Goto(p, "create.keys")
    <3>1. seen'[p] = {<<req[p].id, row[req[p].id].ver + 1>>}
      BY <2>2 DEF Hold, TypeInv, TypeOK
    <3>2. Phase(p)' = "decided" /\ Decision(p)' = Answer(SuccessStatus(req[p]), seen'[p])
      BY <1>1, <2>2, GotoView DEF Alone, DecidedSteps
    <3> QED
      BY <1>1, <1>2, <2>1, <2>2, <3>1, <3>2, WriteImpl
  <2>3. CASE ~CanWrite(req[p]) /\ Finish(p, 409, {}) /\ row' = row
    <3>1. Phase(p)' = "idle" /\ Decision(p)' = Answer(409, {})
      BY <2>3, FinishView
    <3>2. Owner[req[p].id] \notin Registered
      BY <1>2, <2>3 DEF CanWrite
    <3> QED
      BY <1>1, <1>2, <2>1, <2>3, <3>1, <3>2, RefuseImpl
  <2> QED
    BY <1>3, <2>2, <2>3 DEF CreateInsert
<1>4. CASE CreateKeys(p)
  <2>1. pc[p] \in DecidedSteps /\ row' = row
    BY <1>4 DEF CreateKeys, DecidedSteps, store
  <2>2. CASE Goto(p, "create.del") /\ UNCHANGED <<seen, result>>
    <3>1. Phase(p)' = Phase(p) /\ Decision(p)' = Decision(p)
      BY <1>1, <2>1, <2>2, PhaseOf, GotoView DEF Alone, DecidedSteps
    <3> QED
      BY <1>1, <2>1, <3>1, UnseenMove
  <2>3. CASE Finish(p, 201, seen[p])
    BY <1>1, <1>2, <2>1, <2>3, ReturnImpl
  <2> QED
    BY <1>4, <2>2, <2>3 DEF CreateKeys
<1>5. CASE CreateDel(p)
  BY <1>1, <1>2, <1>5, ReturnImpl DEF CreateDel, DecidedSteps
<1> QED
  BY <1>3, <1>4, <1>5

(* remove: refused by any of its reads, decided by its delete.             *)
LEMMA RemoveImpl ==
  ASSUME StoreInv, NEW p \in Procs,
         RemoveFind(p) \/ RemoveRefind(p) \/ RemoveDelete(p) \/ RemoveDel(p)
  PROVE  Store!Write(p) \/ Store!Refuse(p) \/ Store!Return(p) \/ UNCHANGED Store!vars
<1> USE DEF StoreInv, SafeInv
<1>1. Step(p) /\ Alone(p)
  BY StepAlone DEF Step
<1>2. req[p].op = "remove" /\ SuccessStatus(req[p]) = 204
  BY DEF RemoveFind, RemoveRefind, RemoveDelete, RemoveDel, TypeInv, TypeOK, StepMatchesOp, OpOf,
         SuccessStatus
<1>3. seen[p] = {}
  BY DEF RemoveFind, RemoveRefind, RemoveDelete, RemoveDel, NothingHeld, Holding
<1>4. ASSUME NEW step, step \notin DecidedSteps, step # "idle", Goto(p, step), Stay(p), row' = row,
             pc[p] \in DbSteps
      PROVE  UNCHANGED Store!vars
  <2>1. Phase(p) = "open" /\ Decision(p) = result[p]
    BY <1>4, PhaseOf DEF DbSteps, DecidedSteps
  <2>2. Phase(p)' = "open" /\ Decision(p)' = result'[p] /\ result' = result
    BY <1>1, <1>4, GotoView DEF Alone, Stay
  <2> QED
    BY <1>1, <1>4, <2>1, <2>2, UnseenMove
<1>5. ASSUME ~row[req[p].id].live, Finish(p, 404, {}), row' = row, pc[p] \in DbSteps
      PROVE  Store!Refuse(p)
  <2>1. Phase(p) = "open"
    BY <1>5, PhaseOf DEF DbSteps, DecidedSteps
  <2>2. Phase(p)' = "idle" /\ Decision(p)' = Answer(404, {})
    BY <1>5, FinishView
  <2> QED
    BY <1>1, <1>2, <1>5, <2>1, <2>2, RefuseImpl
<1>6. CASE RemoveFind(p) \/ RemoveRefind(p)
  BY <1>4, <1>5, <1>6 DEF RemoveFind, RemoveRefind, DbSteps, DecidedSteps, store
<1>7. CASE RemoveDelete(p)
  <2>1. Phase(p) = "open" /\ pc[p] \in WriteSteps /\ pc[p] \in DbSteps
    BY <1>7, PhaseOf DEF RemoveDelete, DecidedSteps, WriteSteps, DbSteps
  <2>2. CASE CanWrite(req[p]) /\ row' = Written(req[p]) /\ Goto(p, "remove.del") /\ Stay(p)
    <3>1. Phase(p)' = "decided" /\ Decision(p)' = Answer(SuccessStatus(req[p]), {})
      BY <1>1, <1>3, <2>2, GotoView DEF Alone, DecidedSteps, Stay
    <3> QED
      BY <1>1, <1>2, <2>1, <2>2, <3>1, WriteImpl
  <2>3. CASE ~CanWrite(req[p]) /\ Finish(p, 404, {}) /\ row' = row
    BY <1>2, <1>5, <2>1, <2>3 DEF CanWrite
  <2> QED
    BY <1>7, <2>2, <2>3 DEF RemoveDelete
<1>8. CASE RemoveDel(p)
  BY <1>1, <1>2, <1>3, <1>8, ReturnImpl DEF RemoveDel, DecidedSteps
<1> QED
  BY <1>6, <1>7, <1>8

(* update                                                                  *)
LEMMA UpdateImpl ==
  ASSUME StoreInv, NEW p \in Procs, UpdateWrite(p) \/ UpdateDel(p)
  PROVE  Store!Write(p) \/ Store!Refuse(p) \/ Store!Return(p)
<1> USE DEF StoreInv, SafeInv
<1>1. Step(p) /\ Alone(p)
  BY StepAlone DEF Step
<1>2. req[p].op = "update" /\ SuccessStatus(req[p]) = 200
  BY DEF UpdateWrite, UpdateDel, TypeInv, TypeOK, StepMatchesOp, OpOf, SuccessStatus
<1>3. CASE UpdateWrite(p)
  <2>1. Phase(p) = "open" /\ pc[p] \in WriteSteps
    BY <1>3, PhaseOf DEF UpdateWrite, DecidedSteps, WriteSteps
  <2>2. CASE /\ CanWrite(req[p]) /\ row' = Written(req[p])
             /\ Hold(p, {<<req[p].id, row[req[p].id].ver + 1>>}) /\ Goto(p, "update.del")
    <3>1. seen'[p] = {<<req[p].id, row[req[p].id].ver + 1>>}
      BY <2>2 DEF Hold, TypeInv, TypeOK
    <3>2. Phase(p)' = "decided" /\ Decision(p)' = Answer(SuccessStatus(req[p]), seen'[p])
      BY <1>1, <2>2, GotoView DEF Alone, DecidedSteps
    <3> QED
      BY <1>1, <1>2, <2>1, <2>2, <3>1, <3>2, WriteImpl
  <2>3. CASE ~CanWrite(req[p]) /\ Finish(p, 404, {}) /\ row' = row
    <3>1. Phase(p)' = "idle" /\ Decision(p)' = Answer(404, {})
      BY <2>3, FinishView
    <3>2. ~row[req[p].id].live
      BY <1>2, <2>3 DEF CanWrite
    <3> QED
      BY <1>1, <1>2, <2>1, <2>3, <3>1, <3>2, RefuseImpl
  <2> QED
    BY <1>3, <2>2, <2>3 DEF UpdateWrite
<1>4. CASE UpdateDel(p)
  BY <1>1, <1>2, <1>4, ReturnImpl DEF UpdateDel, DecidedSteps
<1> QED
  BY <1>3, <1>4

(* Every step of the feature is a step of the promise, or shows nothing.   *)
LEMMA StepImplements == StoreInv /\ [Next]_vars => Store!Next \/ UNCHANGED Store!vars
<1> SUFFICES ASSUME StoreInv, [Next]_vars PROVE Store!Next \/ UNCHANGED Store!vars
  OBVIOUS
<1>1. ASSUME NEW p \in Procs, Arrive(p) PROVE Store!Next
  BY <1>1, ArriveImpl DEF Store!Next
<1>2. ASSUME NEW p \in Procs, Step(p) PROVE Store!Next \/ UNCHANGED Store!vars
  <2>1. \/ Store!ReadPage(p) \/ Store!ReadOne(p) \/ Store!Write(p) \/ Store!Refuse(p)
        \/ Store!Return(p) \/ Store!Fail(p) \/ UNCHANGED Store!vars
    BY <1>2, FindAllImpl, FindOneImpl, CreateImpl, RemoveImpl, UpdateImpl, FailImpl DEF Step
  <2> QED
    BY <2>1 DEF Store!Next
<1>3. ASSUME RedisDown \/ RedisUp \/ (\E k \in Keys : Expire(k)) \/ UNCHANGED vars
      PROVE  UNCHANGED Store!vars
  <2>1. row' = row /\ req' = req /\ pc' = pc /\ seen' = seen /\ result' = result
    BY <1>3 DEF RedisDown, RedisUp, Expire, vars
  <2>2. \A q \in Procs : Phase(q)' = Phase(q) /\ Decision(q)' = Decision(q)
    BY <2>1 DEF Phase, Decision
  <2> QED
    BY <2>1, <2>2, StoreStutter
<1> QED
  BY <1>1, <1>2, <1>3 DEF Next

(* Seen through the mapping, the feature with its cache, its interleaved   *)
(* requests, Redis outages and database failures does what TodoStore       *)
(* promises: atomic writes, reads of versions once held, no false 404.     *)
THEOREM ImplementsStoreHolds == Spec => ImplementsStore
<1>1. Spec => []StoreInv
  BY StoreInvInit, StoreInvStep, PTL DEF Spec
<1> QED
  BY <1>1, StoreInit, StepImplements, PTL DEF Spec, ImplementsStore, Store!Spec

-----------------------------------------------------------------------------
(* What the key prefix does to create's invalidation.  On the server every *)
(* name starts with the prefix, and the pattern of KEYS does not.          *)
PrefixedKeys == KeyPrefix \in Seq(STRING) \ {<<>>} /\ KeyPrefix[1] # "todos"

LEMMA PrefixHidesLists ==
  ASSUME PrefixedKeys, NEW u
  PROVE  KeysReply(UserPattern(u)) = {}
<1>1. ASSUME NEW k \in Keys, IsPrefix(UserPattern(u), Name(k)) PROVE FALSE
  <2> DEFINE S == STRING \cup {"todo", "todos"} \cup Ids \cup Users \cup Queries
  <2>1. KeyPrefix \in Seq(S)
    BY SeqMonotonic DEF PrefixedKeys
  <2>0. k \in Seq(S)
    <3>1. ASSUME NEW i \in Ids PROVE TodoKey(i) \in Seq(S)
      <4>1. "todo" \in S /\ i \in S
        OBVIOUS
      <4> QED
        BY <4>1 DEF TodoKey
    <3>2. ASSUME NEW v \in Users, NEW q \in Queries PROVE ListKey(v, q) \in Seq(S)
      <4>1. "todos" \in S /\ v \in S /\ q \in S
        OBVIOUS
      <4> QED
        BY <4>1 DEF ListKey
    <3> QED
      BY <3>1, <3>2 DEF Keys
  <2> HIDE DEF S
  <2>2. Len(KeyPrefix) \in Nat \ {0}
    BY DEF PrefixedKeys
  <2>3. Name(k) \in Seq(S) /\ Name(k)[1] = KeyPrefix[1] /\ Len(Name(k)) >= 1
    BY <2>0, <2>1, <2>2, ConcatProperties DEF Name
  <2>4. Len(UserPattern(u)) = 2 /\ SubSeq(UserPattern(u), 1, 2)[1] = "todos"
    BY DEF UserPattern
  <2>5. Len(Name(k)) >= 2 /\ SubSeq(Name(k), 1, 2)[1] = "todos"
    BY <1>1, <2>4 DEF IsPrefix
  <2>6. SubSeq(Name(k), 1, 2)[1] = Name(k)[1]
    BY <2>3, <2>5
  <2> QED
    BY <2>3, <2>5, <2>6 DEF PrefixedKeys
<1> QED
  BY <1>1 DEF KeysReply, Names

NoListDel == \A p \in Procs : pc[p] # "create.del"

LEMMA NoListDelStep ==
  ASSUME PrefixedKeys, TypeInv, NoListDel, [Next]_vars
  PROVE  NoListDel'
<1> SUFFICES ASSUME NEW p \in Procs, pc'[p] = "create.del" PROVE FALSE
  BY DEF NoListDel
<1>1. ASSUME NEW status, NEW todos, Finish(p, status, todos) PROVE FALSE
  BY <1>1 DEF Finish, TypeInv, TypeOK
<1>2. ASSUME NEW step, step # "create.del", Goto(p, step) PROVE FALSE
  BY <1>2 DEF Goto, TypeInv, TypeOK
<1>3. CASE Unmoved(p)
  BY <1>3 DEF Unmoved, NoListDel
<1>4. CASE Arrive(p)
  <2>1. PICK r \in Requests : Goto(p, FirstStep[r.op])
    BY <1>4 DEF Arrive
  <2>2. FirstStep[r.op] # "create.del"
    BY RequestFields DEF FirstStep
  <2> QED
    BY <1>2, <2>1, <2>2
<1>5. CASE Step(p)
  <2>1. CASE CreateKeys(p)
    BY <1>1, <2>1, PrefixHidesLists DEF CreateKeys
  <2>2. CASE CreateInsert(p) \/ FindAllQuery(p) \/ FindOneQuery(p) \/ UpdateWrite(p)
    BY <1>1, <1>2, <2>2 DEF CreateInsert, FindAllQuery, FindOneQuery, UpdateWrite
  <2>3. CASE FindAllGet(p) \/ FindOneGet(p) \/ RemoveFind(p) \/ RemoveRefind(p) \/ RemoveDelete(p)
    BY <1>1, <1>2, <2>3 DEF FindAllGet, FindOneGet, RemoveFind, RemoveRefind, RemoveDelete
  <2>4. CASE CreateDel(p) \/ FindAllSet(p) \/ FindOneSet(p) \/ RemoveDel(p) \/ UpdateDel(p)
               \/ DbError(p)
    BY <1>1, <2>4 DEF CreateDel, FindAllSet, FindOneSet, RemoveDel, UpdateDel, DbError
  <2> QED
    BY <1>5, <2>1, <2>2, <2>3, <2>4 DEF Step
<1> QED
  BY <1>3, <1>4, <1>5, Frame

(* A list page leaves the cache by its time to live and in no other way.   *)
ListsOnlyExpire ==
  [][\A u \in Users, q \in Queries :
       redis[ListKey(u, q)].hit /\ ~redis'[ListKey(u, q)].hit => Expire(ListKey(u, q))]_vars

LEMMA ListLeaves ==
  ASSUME TypeInv, NoListDel, [Next]_vars, NEW u \in Users, NEW q \in Queries,
         redis[ListKey(u, q)].hit, ~redis'[ListKey(u, q)].hit
  PROVE  Expire(ListKey(u, q))
<1>k. ListKey(u, q) \in Keys /\ \A i \in Ids : TodoKey(i) # ListKey(u, q)
  BY KeyFacts
<1>1. ASSUME NEW p \in Procs, NEW key, NEW ttl, CacheSet(key, seen[p], ttl) PROVE FALSE
  BY <1>k, <1>1 DEF CacheSet, TypeInv, TypeOK
<1>2. ASSUME NEW p \in Procs, RemoveDel(p) \/ UpdateDel(p) PROVE FALSE
  <2>1. DelTodo(req[p].id) /\ req[p].id \in Ids
    BY <1>2, RequestFields DEF RemoveDel, UpdateDel, TypeInv, TypeOK, StepMatchesOp, OpOf
  <2> QED
    BY <1>k, <2>1 DEF DelTodo, CacheDel
<1>3. ASSUME NEW p \in Procs, FindAllSet(p) \/ FindOneSet(p) PROVE FALSE
  BY <1>1, <1>3 DEF FindAllSet, FindOneSet
<1>4. ASSUME NEW p \in Procs, CreateDel(p) PROVE FALSE
  BY <1>4 DEF CreateDel, NoListDel
<1>5. ASSUME NEW k \in Keys, Expire(k) PROVE k = ListKey(u, q)
  BY <1>k, <1>5 DEF Expire, TypeInv, TypeOK
<1>6. ASSUME NEW p \in Procs, Arrive(p) \/ CreateInsert(p) \/ CreateKeys(p) \/ FindAllGet(p)
                \/ FindAllQuery(p) \/ FindOneGet(p) \/ FindOneQuery(p) \/ RemoveFind(p)
                \/ RemoveRefind(p) \/ RemoveDelete(p) \/ UpdateWrite(p) \/ DbError(p)
      PROVE  FALSE
  <2>1. redis' = redis
    BY <1>6 DEF Arrive, CreateInsert, CreateKeys, FindAllGet, FindAllQuery, FindOneGet,
                FindOneQuery, RemoveFind, RemoveRefind, RemoveDelete, UpdateWrite, DbError, store
  <2> QED
    BY <2>1
<1>7. ASSUME RedisDown \/ RedisUp \/ UNCHANGED vars PROVE FALSE
  BY <1>7 DEF RedisDown, RedisUp, vars
<1> QED
  BY <1>2, <1>3, <1>4, <1>5, <1>6, <1>7 DEF Next, Step

(* With a key prefix that is not "todos" (the module uses "cache:") no     *)
(* create drops a list page, whatever the requests and outages: pages of   *)
(* the user stay in the cache until they expire.                           *)
THEOREM PrefixedListsOnlyExpire ==
  ASSUME PrefixedKeys
  PROVE  Spec => ListsOnlyExpire
<1> DEFINE Inv == TypeInv /\ NoListDel
<1>1. Init => Inv
  BY InitType DEF Init, NoListDel
<1>2. Inv /\ [Next]_vars => Inv'
  BY TypeStep, NoListDelStep
<1>3. Inv /\ [Next]_vars =>
        [\A u \in Users, q \in Queries :
           redis[ListKey(u, q)].hit /\ ~redis'[ListKey(u, q)].hit => Expire(ListKey(u, q))]_vars
  BY ListLeaves
<1> QED
  BY <1>1, <1>2, <1>3, PTL DEF Spec, ListsOnlyExpire
=============================================================================
