----------------------------- MODULE TodoStore -----------------------------
(***************************************************************************)
(* What the todos API promises its clients, with no cache in sight.  A     *)
(* request is opened, takes effect at one instant (its decision) and is    *)
(* answered.  Mutations are atomic commits on the row.  Reads may be old,  *)
(* but only ever show versions the database once held, and a 404 is only   *)
(* decided while the row is absent.  TodoCache implements this module.     *)
(***************************************************************************)
EXTENDS Naturals

CONSTANTS
  Ids,          \* todo identifiers
  Users,        \* user identifiers taken from the access token
  Queries,      \* distinct list queries
  Procs,        \* request slots of one server process
  Owner,        \* the user a todo belongs to
  Registered    \* the users that have a row in the database

VARIABLES
  row,          \* Ids -> [live, ver]: the table; ver counts commits on the row
  req,          \* Procs -> the request being served, or the last one served
  phase,        \* Procs -> "idle", "open" or "decided"
  result        \* Procs -> [status, todos]: the answer, Pending until decided

vars == <<row, req, phase, result>>

ReadOneOps == {"findOne"}
WriteOps == {"create", "remove", "update"}
Requests ==
  [op : ReadOneOps \cup WriteOps, id : Ids] \cup
  [op : {"findAll"}, user : Users, query : Queries]

Pending == [status |-> 0, todos |-> {}]
Answer(status, todos) == [status |-> status, todos |-> todos]

(* Versions row i has had while it was live.                               *)
HeldVersions(i) == {v \in 1 .. row[i].ver : row[i].live \/ v < row[i].ver}
HeldTodos(i) == {<<i, v>> : v \in HeldVersions(i)}
OwnedBy(u) == {i \in Ids : Owner[i] = u}

(* A page lists todos of the user, each at one version it once had.        *)
IsPage(u, todos) ==
  /\ todos \subseteq UNION {HeldTodos(i) : i \in OwnedBy(u)}
  /\ \A s, t \in todos : s[1] = t[1] => s = t

Commit(i, live) == [row EXCEPT ![i] = [live |-> live, ver |-> @.ver + 1]]
CanWrite(r) ==
  IF r.op = "create" THEN Owner[r.id] \in Registered /\ ~row[r.id].live
                     ELSE row[r.id].live
Written(r) == Commit(r.id, r.op # "remove")

SuccessOf(r) ==
  CASE r.op = "create" -> Answer(201, {<<r.id, row[r.id].ver + 1>>})
    [] r.op = "update" -> Answer(200, {<<r.id, row[r.id].ver + 1>>})
    [] r.op = "remove" -> Answer(204, {})

-----------------------------------------------------------------------------
Init ==
  /\ row \in [Ids -> {[live |-> FALSE, ver |-> 0], [live |-> TRUE, ver |-> 1]}]
  /\ req \in [Procs -> Requests]
  /\ phase = [p \in Procs |-> "idle"]
  /\ result = [p \in Procs |-> Pending]

Open(p) ==
  /\ phase[p] = "idle"
  /\ \E r \in Requests : req' = [req EXCEPT ![p] = r]
  /\ phase' = [phase EXCEPT ![p] = "open"]
  /\ result' = [result EXCEPT ![p] = Pending]
  /\ UNCHANGED row

(* The decision may be sent at once or after more work.                    *)
Decide(p) ==
  /\ phase[p] = "open"
  /\ \E next \in {"decided", "idle"} : phase' = [phase EXCEPT ![p] = next]
  /\ UNCHANGED req

DecideAs(p, answer) == result' = [result EXCEPT ![p] = answer]

ReadOne(p) ==
  /\ req[p].op \in ReadOneOps
  /\ Decide(p)
  /\ \/ \E t \in HeldTodos(req[p].id) : DecideAs(p, Answer(200, {t}))
     \/ ~row[req[p].id].live /\ DecideAs(p, Answer(404, {}))
  /\ UNCHANGED row

ReadPage(p) ==
  /\ req[p].op = "findAll"
  /\ Decide(p)
  /\ \E todos \in SUBSET UNION {HeldTodos(i) : i \in OwnedBy(req[p].user)} :
       IsPage(req[p].user, todos) /\ DecideAs(p, Answer(200, todos))
  /\ UNCHANGED row

Write(p) ==
  /\ req[p].op \in WriteOps
  /\ CanWrite(req[p])
  /\ Decide(p)
  /\ DecideAs(p, SuccessOf(req[p]))
  /\ row' = Written(req[p])

Refuse(p) ==
  /\ req[p].op \in WriteOps
  /\ Decide(p)
  /\ \/ /\ req[p].op = "create" /\ Owner[req[p].id] \notin Registered
        /\ DecideAs(p, Answer(409, {}))
     \/ /\ req[p].op # "create" /\ ~row[req[p].id].live
        /\ DecideAs(p, Answer(404, {}))
  /\ UNCHANGED row

(* A failed database call answers 500 and tells nothing of the commit.     *)
Fail(p) ==
  /\ Decide(p)
  /\ DecideAs(p, Answer(500, {}))
  /\ \/ UNCHANGED row
     \/ req[p].op \in WriteOps /\ CanWrite(req[p]) /\ row' = Written(req[p])

Return(p) ==
  /\ phase[p] = "decided"
  /\ phase' = [phase EXCEPT ![p] = "idle"]
  /\ UNCHANGED <<row, req, result>>

Next ==
  \E p \in Procs :
    Open(p) \/ ReadOne(p) \/ ReadPage(p) \/ Write(p) \/ Refuse(p) \/ Fail(p) \/ Return(p)

Spec == Init /\ [][Next]_vars
=============================================================================
