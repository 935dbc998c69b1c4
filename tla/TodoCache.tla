----------------------------- MODULE TodoCache -----------------------------
(***************************************************************************)
(* The todos feature: TodosService over TodosRepository (PostgreSQL        *)
(* through Prisma) and CacheStorage (Redis through ioredis).  A request    *)
(* slot runs one service method; the method is cut at every await, so      *)
(* other requests run between any two of its database and Redis calls.     *)
(*                                                                         *)
(* A todo's content is abstracted to its version, the number of commits on *)
(* its row; a list page to the set of todos it shows.  The keyPrefix of    *)
(* the ioredis client is kept, because KEYS and DEL treat it differently.  *)
(***************************************************************************)
EXTENDS Naturals, Sequences, SequencesExt

CONSTANTS
  Ids, Users, Queries, Procs,
  Owner,          \* the user each todo belongs to
  Registered,     \* the users that have a row in the database
  KeyPrefix,      \* the keyPrefix option of the cache client
  Ops,            \* the operations clients call
  MaxMutations,   \* bound on the create, remove and update requests
  MaxOutages,     \* bound on the losses of the Redis connection
  DbMayFail       \* whether a database call may throw for no fault of the request

ASSUME OwnerAssumption == Owner \in [Ids -> Users] /\ Ids # {}
ASSUME OpsAssumption == Ops \subseteq {"create", "findAll", "findOne", "remove", "update"}
ASSUME BoundsAssumption ==
  MaxMutations \in Nat /\ MaxOutages \in Nat /\ DbMayFail \in BOOLEAN

VARIABLES
  row,        \* Ids -> [live, ver], the todo table
  redis,      \* Keys -> Entry, the cache, by the key the service uses
  redisUp,    \* the connection of the cache client is ready
  pc,         \* Procs -> the await the request is about to make
  req,        \* Procs -> the request
  seen,       \* Procs -> the todos the method holds in its local variable
  found,      \* Procs -> the key names KEYS returned
  result,     \* Procs -> the answer, Pending while the request is in flight
  blame,      \* Ids -> why the cached todo may be stale (history variable)
  mutations, outages   \* counters of the bounds

store == <<row, redis, redisUp, blame>>
counters == <<mutations, outages>>
vars == <<row, redis, redisUp, pc, req, seen, found, result, blame, mutations, outages>>

-----------------------------------------------------------------------------
(* Keys of TodosCacheKeys; on the server each is prefixed by the client.   *)

TodoKey(i) == <<"todo", i>>
ListKey(u, q) == <<"todos", u, q>>

UserPattern(u) == <<"todos", u>>

Keys == {TodoKey(i) : i \in Ids} \cup {ListKey(u, q) : u \in Users, q \in Queries}

Name(k) == KeyPrefix \o k
Names == {Name(k) : k \in Keys}

Todos == Ids \X Nat
Entry == [hit : BOOLEAN, todos : SUBSET Todos, expires : BOOLEAN]
Absent == [hit |-> FALSE, todos |-> {}, expires |-> FALSE]

(* GET; a failed call is caught and read as a miss.                        *)
CacheGet(k) == IF redisUp THEN redis[k] ELSE Absent

(* Mutant: the EX option dropped.                                          *)
CacheSetForever(k, todos, ttl) ==
  redis' = IF redisUp
             THEN [redis EXCEPT ![k] = [hit |-> TRUE, todos |-> todos, expires |-> FALSE]]
             ELSE redis

(* SET with EX ttl; a failed call is caught and dropped.                   *)
CacheSet(k, todos, ttl) ==
  redis' = IF redisUp
             THEN [redis EXCEPT ![k] = [hit |-> TRUE, todos |-> todos, expires |-> ttl > 0]]
             ELSE redis

(* Mutant: enableOfflineQueue left on, DEL waits for the connection.        *)
CacheDelQueued(args) ==
  redisUp /\ redis' = [k \in Keys |-> IF k \in args THEN Absent ELSE redis[k]]

(* DEL of the given arguments, each prefixed by the client.                *)
CacheDel(args) ==
  redis' = IF redisUp
             THEN [k \in Keys |-> IF k \in args THEN Absent ELSE redis[k]]
             ELSE redis

(* KEYS compares the bare pattern with the names on the server and returns *)
(* those names: ioredis adds keyPrefix to keys, not to patterns or replies. *)
KeysReply(pattern) ==
  IF redisUp THEN {n \in Names : IsPrefix(pattern, n) /\ \E k \in Keys : redis[k].hit /\ Name(k) = n}
             ELSE {}

-----------------------------------------------------------------------------
(* The table.                                                              *)

Current(i) == {<<i, row[i].ver>>}
(* Mutant: the where clause without the user.                               *)
LiveOfAnyone(u) == {i \in Ids : row[i].live}

LiveOf(u) == {i \in Ids : row[i].live /\ Owner[i] = u}
(* Mutant: a commit that restores an older version.                         *)
CommitBack(i, live) == [row EXCEPT ![i] = [live |-> live, ver |-> @.ver - 1]]

Commit(i, live) == [row EXCEPT ![i] = [live |-> live, ver |-> @.ver + 1]]

(* Mutant: deleteMany and updateMany, which accept a missing row.           *)
CanWriteAny(r) == r.op = "create" => Owner[r.id] \in Registered

(* What the database decides about a write before doing it.                *)
CanWrite(r) ==
  IF r.op = "create" THEN Owner[r.id] \in Registered ELSE row[r.id].live
Written(r) == Commit(r.id, r.op # "remove")

Requests ==
  [op : {"create", "findOne", "remove", "update"}, id : Ids] \cup
  [op : {"findAll"}, user : Users, query : Queries]

Mutating(r) == r.op \in {"create", "remove", "update"}

FirstStep ==
  [create |-> "create.insert", findAll |-> "findAll.get", findOne |-> "findOne.get",
   remove |-> "remove.find", update |-> "update.write"]

DbSteps == {"create.insert", "findAll.query", "findOne.query",
            "remove.find", "remove.refind", "remove.delete", "update.write"}
WriteSteps == {"create.insert", "remove.delete", "update.write"}
CacheSteps == {"create.keys", "create.del", "findAll.get", "findAll.set",
               "findOne.get", "findOne.set", "remove.del", "update.del"}
Steps == {"idle"} \cup DbSteps \cup CacheSteps

Statuses == {0, 200, 201, 204, 404, 409, 500}
Answer(status, todos) == [status |-> status, todos |-> todos]
Pending == Answer(0, {})

(* prisma.todo.create makes a new uuid: no row and no other insert has it. *)
Unused(i) ==
  /\ row[i].ver = 0
  /\ \A p \in Procs : ~(pc[p] = "create.insert" /\ req[p].id = i)

-----------------------------------------------------------------------------
Goto(p, step) == pc' = [pc EXCEPT ![p] = step]
Stay(p) == UNCHANGED <<seen, found, result>>

(* The method returns or throws: locals die, the answer is sent.           *)
Finish(p, status, todos) ==
  /\ pc' = [pc EXCEPT ![p] = "idle"]
  /\ seen' = [seen EXCEPT ![p] = {}]
  /\ found' = [found EXCEPT ![p] = {}]
  /\ result' = [result EXCEPT ![p] = Answer(status, todos)]

Hold(p, todos) == seen' = [seen EXCEPT ![p] = todos] /\ UNCHANGED <<found, result>>

Init ==
  /\ row \in [Ids -> {[live |-> FALSE, ver |-> 0], [live |-> TRUE, ver |-> 1]}]
  /\ \A i \in Ids : row[i].live => Owner[i] \in Registered
  /\ redis = [k \in Keys |-> Absent]
  /\ redisUp \in BOOLEAN
  /\ pc = [p \in Procs |-> "idle"]
  /\ req = [p \in Procs |-> CHOOSE r \in Requests : TRUE]
  /\ seen = [p \in Procs |-> {}]
  /\ found = [p \in Procs |-> {}]
  /\ result = [p \in Procs |-> Pending]
  /\ blame = [i \in Ids |-> "none"]
  /\ mutations = 0
  /\ outages = 0

(* A client calls the API; the controller enters the service method.       *)
Arrive(p) ==
  /\ pc[p] = "idle"
  /\ \E r \in Requests :
       /\ r.op \in Ops
       /\ r.op = "create" => Unused(r.id)
       /\ Mutating(r) => mutations < MaxMutations
       /\ mutations' = IF Mutating(r) THEN mutations + 1 ELSE mutations
       /\ req' = [req EXCEPT ![p] = r]
       /\ Goto(p, FirstStep[r.op])
  /\ result' = [result EXCEPT ![p] = Pending]
  /\ UNCHANGED <<store, seen, found, outages>>

-----------------------------------------------------------------------------
(* TodosService.create                                                     *)

CreateInsert(p) ==
  /\ pc[p] = "create.insert"
  /\ LET i == req[p].id IN
       \/ /\ CanWrite(req[p])
          /\ row' = Written(req[p])
          /\ Hold(p, {<<i, row[i].ver + 1>>})
          /\ Goto(p, "create.keys")
       \/ /\ ~CanWrite(req[p])          \* P2003, the user has no row
          /\ Finish(p, 409, {})
          /\ UNCHANGED row
  /\ UNCHANGED <<redis, redisUp, req, blame, counters>>

(* delByPattern returns after KEYS when there is nothing to delete.        *)
CreateKeys(p) ==
  /\ pc[p] = "create.keys"
  /\ LET names == KeysReply(UserPattern(Owner[req[p].id])) IN
       \/ /\ names # {}
          /\ found' = [found EXCEPT ![p] = names]
          /\ Goto(p, "create.del")
          /\ UNCHANGED <<seen, result>>
       \/ /\ names = {}
          /\ Finish(p, 201, seen[p])
  /\ UNCHANGED <<store, req, counters>>

CreateDel(p) ==
  /\ pc[p] = "create.del"
  /\ CacheDel(found[p])
  /\ Finish(p, 201, seen[p])
  /\ UNCHANGED <<row, redisUp, req, blame, counters>>

(* TodosService.findAll                                                    *)

FindAllGet(p) ==
  /\ pc[p] = "findAll.get"
  /\ LET cached == CacheGet(ListKey(req[p].user, req[p].query)) IN
       \/ /\ cached.hit
          /\ Finish(p, 200, cached.todos)
       \/ /\ ~cached.hit
          /\ Goto(p, "findAll.query")
          /\ Stay(p)
  /\ UNCHANGED <<store, req, counters>>

FindAllQuery(p) ==
  /\ pc[p] = "findAll.query"
  /\ Hold(p, UNION {Current(i) : i \in LiveOf(req[p].user)})
  /\ Goto(p, "findAll.set")
  /\ UNCHANGED <<store, req, counters>>

FindAllSet(p) ==
  /\ pc[p] = "findAll.set"
  /\ CacheSet(ListKey(req[p].user, req[p].query), seen[p], 30)
  /\ Finish(p, 200, seen[p])
  /\ UNCHANGED <<row, redisUp, req, blame, counters>>

(* TodosService.findOne                                                    *)

FindOneGet(p) ==
  /\ pc[p] = "findOne.get"
  /\ LET cached == CacheGet(TodoKey(req[p].id)) IN
       \/ /\ cached.hit
          /\ Finish(p, 200, cached.todos)
       \/ /\ ~cached.hit
          /\ Goto(p, "findOne.query")
          /\ Stay(p)
  /\ UNCHANGED <<store, req, counters>>

FindOneQuery(p) ==
  /\ pc[p] = "findOne.query"
  /\ LET i == req[p].id IN
       \/ /\ row[i].live
          /\ Hold(p, Current(i))
          /\ Goto(p, "findOne.set")
       \/ /\ ~row[i].live               \* TodoNotFoundError
          /\ Finish(p, 404, {})
  /\ UNCHANGED <<store, req, counters>>

Fresh(i, todos) == row[i].live /\ todos = Current(i)

FindOneSet(p) ==
  /\ pc[p] = "findOne.set"
  /\ LET i == req[p].id IN
       /\ CacheSet(TodoKey(i), seen[p], 60)
       /\ blame' = IF redisUp
                     THEN [blame EXCEPT ![i] = IF Fresh(i, seen[p]) THEN "none" ELSE "stale fill"]
                     ELSE blame
  /\ Finish(p, 200, seen[p])
  /\ UNCHANGED <<row, redisUp, req, counters>>

(* TodosService.remove: the service looks the todo up, the repository      *)
(* looks it up again without using the answer, then deletes it.            *)

RemoveFind(p) ==
  /\ pc[p] = "remove.find"
  /\ \/ /\ row[req[p].id].live
        /\ Goto(p, "remove.refind")
        /\ Stay(p)
     \/ /\ ~row[req[p].id].live         \* TodoNotFoundError
        /\ Finish(p, 404, {})
  /\ UNCHANGED <<store, req, counters>>

RemoveRefind(p) ==
  /\ pc[p] = "remove.refind"
  /\ Goto(p, "remove.delete")
  /\ Stay(p)
  /\ UNCHANGED <<store, req, counters>>

RemoveDelete(p) ==
  /\ pc[p] = "remove.delete"
  /\ \/ /\ CanWrite(req[p])
        /\ row' = Written(req[p])
        /\ Goto(p, "remove.del")
        /\ Stay(p)
     \/ /\ ~CanWrite(req[p])            \* P2025, removed meanwhile
        /\ Finish(p, 404, {})
        /\ UNCHANGED row
  /\ UNCHANGED <<redis, redisUp, req, blame, counters>>

(* Mutant: the DEL forgotten.                                               *)
DelForgotten(i) == UNCHANGED <<redis, blame>>

(* cacheStorage.del(TodosCacheKeys.todo(id)), shared by remove and update.  *)
DelTodo(i) ==
  /\ CacheDel({TodoKey(i)})
  /\ blame' = [blame EXCEPT ![i] = IF redisUp THEN "none" ELSE "lost del"]

RemoveDel(p) ==
  /\ pc[p] = "remove.del"
  /\ DelTodo(req[p].id)
  /\ Finish(p, 204, {})
  /\ UNCHANGED <<row, redisUp, req, counters>>

(* Mutant: the update caches the new todo first and commits it after.       *)
UpdateWriteThrough(p) ==
  /\ pc[p] = "update.write"
  /\ LET i == req[p].id
         next == {<<i, row[i].ver + 1>>} IN
       \/ /\ redis[TodoKey(i)].todos # next
          /\ CanWrite(req[p])
          /\ CacheSet(TodoKey(i), next, 60)
          /\ UNCHANGED <<row, pc, seen, found, result>>
       \/ /\ row' = Written(req[p])
          /\ Hold(p, next)
          /\ Goto(p, "update.del")
          /\ UNCHANGED redis
  /\ UNCHANGED <<redisUp, req, blame, counters>>

(* TodosService.update                                                     *)

UpdateWrite(p) ==
  /\ pc[p] = "update.write"
  /\ LET i == req[p].id IN
       \/ /\ CanWrite(req[p])
          /\ row' = Written(req[p])
          /\ Hold(p, {<<i, row[i].ver + 1>>})
          /\ Goto(p, "update.del")
       \/ /\ ~CanWrite(req[p])          \* P2025
          /\ Finish(p, 404, {})
          /\ UNCHANGED row
  /\ UNCHANGED <<redis, redisUp, req, blame, counters>>

UpdateDel(p) ==
  /\ pc[p] = "update.del"
  /\ DelTodo(req[p].id)
  /\ Finish(p, 200, seen[p])
  /\ UNCHANGED <<row, redisUp, req, counters>>

-----------------------------------------------------------------------------
(* A database call throws: nothing after it in the method runs.  A write   *)
(* may have committed before its acknowledgement was lost.                 *)
DbError(p) ==
  /\ DbMayFail
  /\ pc[p] \in DbSteps
  /\ \/ UNCHANGED <<row, blame>>
     \/ /\ pc[p] \in WriteSteps
        /\ CanWrite(req[p])
        /\ row' = Written(req[p])
        /\ blame' = [blame EXCEPT ![req[p].id] = "lost ack"]
  /\ Finish(p, 500, {})
  /\ UNCHANGED <<redis, redisUp, req, counters>>

(* Redis drops an entry whose time to live has passed (or, restarted       *)
(* empty, all of them: an outage with every entry expiring in it).         *)
Expire(k) ==
  /\ redis[k].hit
  /\ redis[k].expires
  /\ redis' = [redis EXCEPT ![k] = Absent]
  /\ blame' = [i \in Ids |-> IF k = TodoKey(i) THEN "none" ELSE blame[i]]
  /\ UNCHANGED <<row, redisUp, pc, req, seen, found, result, counters>>

RedisDown ==
  /\ redisUp
  /\ outages < MaxOutages
  /\ redisUp' = FALSE
  /\ outages' = outages + 1
  /\ UNCHANGED <<row, redis, pc, req, seen, found, result, blame, mutations>>

RedisUp ==
  /\ ~redisUp
  /\ redisUp' = TRUE
  /\ UNCHANGED <<row, redis, pc, req, seen, found, result, blame, counters>>

Step(p) ==
  \/ CreateInsert(p) \/ CreateKeys(p) \/ CreateDel(p)
  \/ FindAllGet(p) \/ FindAllQuery(p) \/ FindAllSet(p)
  \/ FindOneGet(p) \/ FindOneQuery(p) \/ FindOneSet(p)
  \/ RemoveFind(p) \/ RemoveRefind(p) \/ RemoveDelete(p) \/ RemoveDel(p)
  \/ UpdateWrite(p) \/ UpdateDel(p)
  \/ DbError(p)

Next ==
  \/ \E p \in Procs : Arrive(p) \/ Step(p)
  \/ \E k \in Keys : Expire(k)
  \/ RedisDown \/ RedisUp

Spec == Init /\ [][Next]_vars

(* The client has a connectTimeout and no commandTimeout: a call on a      *)
(* connection that stalls while open may stay unsettled for ever.  Without *)
(* a connection it is rejected at once, the offline queue being off.  The  *)
(* database is assumed to settle its calls.                                *)
Settles(p) == pc[p] \in DbSteps \/ ~redisUp

(* The event loop runs the continuation of every settled call, and Redis   *)
(* drops every entry whose time has passed.  Clients, outages and answers  *)
(* of a connected Redis are not fair.                                      *)
Fairness ==
  /\ \A p \in Procs : WF_vars(Settles(p) /\ Step(p))
  /\ \A k \in Keys : WF_vars(Expire(k))
FairSpec == Spec /\ Fairness

-----------------------------------------------------------------------------
BlameValues == {"none", "stale fill", "lost del", "lost ack"}

TypeOK ==
  /\ row \in [Ids -> [live : BOOLEAN, ver : Nat]]
  /\ redis \in [Keys -> Entry]
  /\ redisUp \in BOOLEAN
  /\ pc \in [Procs -> Steps]
  /\ req \in [Procs -> Requests]
  /\ seen \in [Procs -> SUBSET Todos]
  /\ found \in [Procs -> SUBSET Names]
  /\ result \in [Procs -> [status : Statuses, todos : SUBSET Todos]]
  /\ blame \in [Ids -> BlameValues]
  /\ mutations \in Nat /\ outages \in Nat

(* Versions the row of a todo has had while it was live.                   *)
Held(t) ==
  /\ t[2] \in 1 .. row[t[1]].ver
  /\ t[2] = row[t[1]].ver => row[t[1]].live

(* Nothing is cached, held or answered that the database did not once      *)
(* hold: no uncommitted version, and no tombstone shown as a todo.         *)
CommittedOnly ==
  /\ \A k \in Keys : \A t \in redis[k].todos : Held(t)
  /\ \A p \in Procs : \A t \in seen[p] \cup result[p].todos : Held(t)

(* A mutation of todo i has committed and its DEL has not run yet.         *)
Invalidating(i) ==
  \E p \in Procs : pc[p] \in {"remove.del", "update.del"} /\ req[p].id = i

(* findOne's cache is coherent but for four causes: a cached todo that is  *)
(* not the current row has its DEL still to come, or was filled by a read  *)
(* that a mutation overtook, or had its DEL lost with Redis, or had its    *)
(* mutation answered with an error after it committed.                     *)
StaleHasCause ==
  \A i \in Ids :
    redis[TodoKey(i)].hit /\ ~Fresh(i, redis[TodoKey(i)].todos)
      => Invalidating(i) \/ blame[i] # "none"

(* Removals of one todo exclude each other: of all the DELETEs of a todo,  *)
(* at most one is past its commit or has been answered 204, and the row    *)
(* stays dead from then on.                                                *)
HasRemoved(p, i) ==
  /\ req[p].op = "remove" /\ req[p].id = i
  /\ pc[p] = "remove.del" \/ result[p].status = 204
OneRemover ==
  \A i \in Ids : \A p, o \in Procs :
    HasRemoved(p, i) => ~row[i].live /\ (HasRemoved(o, i) => o = p)

(* Losing Redis, or the database's acknowledgements, leaves no request     *)
(* behind: a request slot comes back to idle again and again, unless one   *)
(* cache call of its request hangs on a connection that stays open.        *)
HangsOnlyAtRedis ==
  \A p \in Procs :
    \/ []<>(pc[p] = "idle")
    \/ <>[](pc[p] \in CacheSteps /\ redisUp)

(* Staleness is bounded by the time to live: once the mutations have       *)
(* stopped, the cache and the table agree for good.                        *)
CacheAgrees ==
  /\ \A i \in Ids : redis[TodoKey(i)].hit => Fresh(i, redis[TodoKey(i)].todos)
  /\ \A u \in Users, q \in Queries :
       redis[ListKey(u, q)].hit =>
         redis[ListKey(u, q)].todos = UNION {Current(i) : i \in LiveOf(u)}
EventuallyConsistent == <>[]CacheAgrees

Creates(p) ==
  pc[p] # "idle" /\ pc'[p] = "idle" /\ req[p].op = "create" /\ result'[p].status = 201
NoListOf(u) == \A q \in Queries : ~redis[ListKey(u, q)].hit

(* REVIEW.md: cache invalidated on every mutation.  A create that answers  *)
(* 201 leaves no list page of its user in the cache.                       *)
CreateClearsLists ==
  [][\A p \in Procs : Creates(p) => NoListOf(Owner[req[p].id])']_vars

-----------------------------------------------------------------------------
(* The abstract specification, under this refinement mapping.              *)

Phase(p) ==
  CASE pc[p] = "idle" -> "idle"
    [] pc[p] \in {"create.keys", "create.del", "findAll.set", "findOne.set",
                  "remove.del", "update.del"} -> "decided"
    [] OTHER -> "open"

SuccessStatus(r) ==
  CASE r.op = "create" -> 201 [] r.op = "remove" -> 204 [] OTHER -> 200

Decision(p) ==
  IF Phase(p) = "decided" THEN Answer(SuccessStatus(req[p]), seen[p]) ELSE result[p]

Store == INSTANCE TodoStore WITH
  phase <- [p \in Procs |-> Phase(p)],
  result <- [p \in Procs |-> Decision(p)]

ImplementsStore == Store!Spec
=============================================================================
