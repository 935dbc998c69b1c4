------------------------------- MODULE Deploy -------------------------------
(***************************************************************************)
(* Releases and rollbacks of one ECS service: cd.yml, one run of it per    *)
(* version tag and any number of runs at once, and rollback.yml.           *)
(*                                                                         *)
(* A version is its number; its image holds the migrations of every        *)
(* version up to it.  Any call of a job may fail, and a wait may run out   *)
(* of time; a failed job can be run again, from its first step.            *)
(***************************************************************************)
EXTENDS Naturals, Sequences, FiniteSets

CONSTANTS
  Versions,       \* the versions tagged after the one that is deployed, 0
  Keep,           \* KEEP
  MaxReruns,      \* bound on the failed jobs that are run again
  MaxRollbacks    \* bound on the runs of rollback.yml

ASSUME DeployAssumption ==
  /\ Versions \subseteq Nat \ {0} /\ Keep \in Nat \ {0}
  /\ MaxReruns \in Nat /\ MaxRollbacks \in Nat

VARIABLES
  at,            \* Versions -> <<job, step>> the release is at
  migration,     \* Versions -> the migration definition its job registered
  runs,          \* Versions -> the migration tasks it started, in order
  revision,      \* Versions -> the task revision its job registered
  listed,        \* Versions -> the definitions its clean-up has yet to remove
  images,        \* the version of each revision of the task family, in order
  migrations,    \* number of revisions of the migration task family
  active,        \* the definitions in status ACTIVE
  schema,        \* the last version whose migrations are applied
  service,       \* the revision the ECS service is set to
  serving,       \* the revisions with running tasks
  reruns, rollbacks   \* counters of the bounds

jobs == <<at, migration, runs, revision, listed>>
registry == <<images, migrations, active>>
ecs == <<service, serving>>
vars == <<jobs, registry, schema, ecs, reruns, rollbacks>>

Task(n) == <<"task", n>>
Migration(n) == <<"migration", n>>
Revisions == 1 .. Len(images)

Jobs == {"publish", "migrations", "deploy", "cleanup"}

FirstStep(job) == CASE job = "publish" -> "push"
                    [] job \in {"migrations", "deploy"} -> "register"
                    [] job = "cleanup" -> "list tasks"

Ended == {"failed", "done"}
Steps == {"push", "register", "run", "verify", "update", "wait",
          "list tasks", "tasks", "list migrations", "migrations"} \cup Ended

Init ==
  /\ at = [v \in Versions |-> <<"publish", "push">>]
  /\ migration = [v \in Versions |-> 0]
  /\ runs = [v \in Versions |-> <<>>]
  /\ revision = [v \in Versions |-> 0]
  /\ listed = [v \in Versions |-> {}]
  /\ images = <<0>>
  /\ migrations = 0
  /\ active = {Task(1)}
  /\ schema = 0
  /\ service = 1
  /\ serving = {1}
  /\ reruns = 0 /\ rollbacks = 0

Go(v, job, from, to) ==
  /\ at[v] = <<job, from>>
  /\ at' = [at EXCEPT ![v] = <<job, to>>]

NextJob(v, job, from, next) ==
  /\ at[v] = <<job, from>>
  /\ at' = [at EXCEPT ![v] = <<next, FirstStep(next)>>]

-----------------------------------------------------------------------------
\* The release of v.

\* The image is pushed under the tag; the tests and the build come before.
Publish(v) ==
  /\ NextJob(v, "publish", "push", "migrations")
  /\ UNCHANGED <<migration, runs, revision, listed, registry, schema, ecs, reruns, rollbacks>>

RegisterMigration(v) ==
  /\ Go(v, "migrations", "register", "run")
  /\ migrations' = migrations + 1
  /\ migration' = [migration EXCEPT ![v] = migrations']
  /\ active' = active \cup {Migration(migrations')}
  /\ UNCHANGED <<runs, revision, listed, images, schema, ecs, reruns, rollbacks>>

\* run-task needs a definition that is ACTIVE; otherwise only Fail is possible.
RunMigration(v) ==
  /\ Migration(migration[v]) \in active
  /\ Go(v, "migrations", "run", "verify")
  /\ runs' = [runs EXCEPT ![v] = Append(@, "running")]
  /\ UNCHANGED <<migration, revision, listed, registry, schema, ecs, reruns, rollbacks>>

\* Mutant: the step ends when the task has stopped, whatever its exit code.
VerifyStopped(v) ==
  /\ NextJob(v, "migrations", "verify", "deploy")
  /\ runs[v][Len(runs[v])] # "running"
  /\ UNCHANGED <<migration, runs, revision, listed, registry, schema, ecs, reruns, rollbacks>>

\* The job waits for the task it started to stop and looks at its exit code.
VerifyMigration(v) ==
  /\ NextJob(v, "migrations", "verify", "deploy")
  /\ runs[v][Len(runs[v])] = "ok"
  /\ UNCHANGED <<migration, runs, revision, listed, registry, schema, ecs, reruns, rollbacks>>

\* Mutant: the revision is read from the definition the job described.
RegisterDescribed(v) ==
  /\ Go(v, "deploy", "register", "update")
  /\ images' = Append(images, v)
  /\ revision' = [revision EXCEPT ![v] = Len(images)]
  /\ active' = active \cup {Task(Len(images'))}
  /\ UNCHANGED <<migration, runs, listed, migrations, schema, ecs, reruns, rollbacks>>

Register(v) ==
  /\ Go(v, "deploy", "register", "update")
  /\ images' = Append(images, v)
  /\ revision' = [revision EXCEPT ![v] = Len(images')]
  /\ active' = active \cup {Task(Len(images'))}
  /\ UNCHANGED <<migration, runs, listed, migrations, schema, ecs, reruns, rollbacks>>

\* update-service refuses a revision that is not ACTIVE.
Update(v) ==
  /\ Task(revision[v]) \in active
  /\ Go(v, "deploy", "update", "wait")
  /\ service' = revision[v]
  /\ UNCHANGED <<migration, runs, revision, listed, registry, schema, serving, reruns, rollbacks>>

\* The service is stable, whichever revision it is set to by now.
WaitStable(v) ==
  /\ serving = {service}
  /\ NextJob(v, "deploy", "wait", "cleanup")
  /\ UNCHANGED <<migration, runs, revision, listed, registry, schema, ecs, reruns, rollbacks>>

\* Mutant: -ge for -gt.
OutdatedEarly == {d \in active : /\ d[1] = "task"
                                 /\ Cardinality({e \in active : e[1] = "task" /\ e[2] > d[2]}) + 1 >= Keep}

\* The active revisions that have Keep newer active ones.
Outdated == {d \in active : /\ d[1] = "task"
                            /\ Cardinality({e \in active : e[1] = "task" /\ e[2] > d[2]}) >= Keep}

ListTasks(v) ==
  /\ Go(v, "cleanup", "list tasks", "tasks")
  /\ listed' = [listed EXCEPT ![v] = Outdated]
  /\ UNCHANGED <<migration, runs, revision, registry, schema, ecs, reruns, rollbacks>>

ListMigrations(v) ==
  /\ Go(v, "cleanup", "list migrations", "migrations")
  /\ listed' = [listed EXCEPT ![v] = {d \in active : d[1] = "migration"}]
  /\ UNCHANGED <<migration, runs, revision, registry, schema, ecs, reruns, rollbacks>>

\* Both loops, newest first.
Deregister(v) ==
  /\ at[v] \in {<<"cleanup", "tasks">>, <<"cleanup", "migrations">>}
  /\ \E d \in listed[v] :
       /\ \A e \in listed[v] : e[2] <= d[2]
       /\ listed' = [listed EXCEPT ![v] = @ \ {d}]
       /\ active' = active \ {d}
  /\ UNCHANGED <<at, migration, runs, revision, images, migrations, schema, ecs, reruns, rollbacks>>

EndLoop(v) ==
  /\ listed[v] = {}
  /\ \/ Go(v, "cleanup", "tasks", "list migrations")
     \/ Go(v, "cleanup", "migrations", "done")
  /\ UNCHANGED <<migration, runs, revision, listed, registry, schema, ecs, reruns, rollbacks>>

\* Any step may fail; the jobs after it do not start.
Fail(v) ==
  /\ at[v][2] \notin Ended
  /\ at' = [at EXCEPT ![v] = <<@[1], "failed">>]
  /\ listed' = [listed EXCEPT ![v] = {}]
  /\ UNCHANGED <<migration, runs, revision, registry, schema, ecs, reruns, rollbacks>>

\* The failed job is run again; a migration task it has started runs on.
Rerun(v) ==
  /\ at[v][2] = "failed" /\ reruns < MaxReruns
  /\ reruns' = reruns + 1
  /\ at' = [at EXCEPT ![v] = <<@[1], FirstStep(@[1])>>]
  /\ UNCHANGED <<migration, runs, revision, listed, registry, schema, ecs, rollbacks>>

-----------------------------------------------------------------------------
\* rollback.yml, and what AWS and the migration tasks do.

Rollback(n) ==
  /\ Task(n) \in active /\ rollbacks < MaxRollbacks
  /\ rollbacks' = rollbacks + 1
  /\ service' = n
  /\ UNCHANGED <<jobs, registry, schema, serving, reruns>>

\* prisma migrate deploy, one migration after the other under its lock.
Migrate(v) ==
  /\ \E i \in 1 .. Len(runs[v]) : runs[v][i] = "running"
  /\ \E u \in Versions :
       /\ schema < u /\ u <= v
       /\ \A w \in Versions : w <= schema \/ u <= w
       /\ schema' = u
  /\ UNCHANGED <<jobs, registry, ecs, reruns, rollbacks>>

MigrationEnds(v, i) ==
  /\ i \in 1 .. Len(runs[v]) /\ runs[v][i] = "running"
  /\ \E exit \in (IF v <= schema THEN {"ok", "failed"} ELSE {"failed"}) :
       runs' = [runs EXCEPT ![v][i] = exit]
  /\ UNCHANGED <<at, migration, revision, listed, registry, schema, ecs, reruns, rollbacks>>

TaskStarts ==
  /\ serving' = serving \cup {service}
  /\ UNCHANGED <<jobs, registry, schema, service, reruns, rollbacks>>

\* A rolling deployment stops the tasks of the others once its own run.
TaskStops(n) ==
  /\ service \in serving /\ n \in serving \ {service}
  /\ serving' = serving \ {n}
  /\ UNCHANGED <<jobs, registry, schema, service, reruns, rollbacks>>

Release(v) ==
  \/ Publish(v) \/ RegisterMigration(v) \/ RunMigration(v) \/ VerifyMigration(v)
  \/ Register(v) \/ Update(v) \/ WaitStable(v)
  \/ ListTasks(v) \/ ListMigrations(v) \/ Deregister(v) \/ EndLoop(v)
  \/ Fail(v) \/ Rerun(v)

Next ==
  \/ \E v \in Versions : Release(v)
  \/ \E v \in Versions : Migrate(v)
  \/ \E v \in Versions : \E i \in 1 .. Len(runs[v]) : MigrationEnds(v, i)
  \/ \E n \in Revisions : Rollback(n)
  \/ TaskStarts
  \/ \E n \in Revisions : TaskStops(n)

Spec == Init /\ [][Next]_vars

-----------------------------------------------------------------------------
\* Types; a revision a job goes on with carries the image of its version.
DeployTypeOK ==
  /\ at \in [Versions -> Jobs \X Steps]
  /\ migration \in [Versions -> 0 .. migrations]
  /\ runs \in [Versions -> Seq({"running", "ok", "failed"})]
  /\ revision \in [Versions -> 0 .. Len(images)]
  /\ listed \in [Versions -> SUBSET ({"task", "migration"} \X Nat)]
  /\ images \in Seq({0} \cup Versions) /\ migrations \in Nat
  /\ active \subseteq ({"task"} \X Revisions) \cup ({"migration"} \X (1 .. migrations))
  /\ schema \in {0} \cup Versions
  /\ service \in Revisions /\ serving \subseteq Revisions
  /\ reruns \in 0 .. MaxReruns /\ rollbacks \in 0 .. MaxRollbacks
  /\ \A v \in Versions : revision[v] # 0 => images[revision[v]] = v

\* No task runs code that is ahead of the schema, whatever overlaps, fails,
\* is run again or rolled back (docs/release-management.md: migrations run
\* before the service is updated).
MigratedBeforeServed == \A n \in serving : images[n] <= schema

\* The last Keep revisions stay ACTIVE, whichever clean-ups overlap with new
\* registrations (docs/release-management.md: the system keeps the last three).
LastRevisionsKept ==
  \A n \in Revisions : n + Keep > Len(images) => Task(n) \in active
=============================================================================
