---------------------------- MODULE DeployProofs ----------------------------
(***************************************************************************)
(* What the release workflow guarantees for any number of releases at      *)
(* once, of re-runs and of rollbacks, and any number of revisions kept.    *)
(***************************************************************************)
EXTENDS Deploy, FiniteSetTheorems, TLAPS

USE DeployAssumption

LEMMA StepFacts == \A j \in Jobs : FirstStep(j) \in Steps
BY DEF FirstStep, Steps, Jobs

(* The steps of a release that only move it on.                            *)
Moves(v) ==
  Publish(v) \/ VerifyMigration(v) \/ WaitStable(v) \/ EndLoop(v)

LEMMA MoveFacts ==
  ASSUME DeployTypeOK, NEW v \in Versions, Moves(v)
  PROVE  /\ \E s \in Jobs \X Steps : at' = [at EXCEPT ![v] = s]
         /\ UNCHANGED <<migration, runs, revision, listed, registry, schema, ecs, reruns, rollbacks>>
BY StepFacts DEF Moves, Publish, VerifyMigration, WaitStable, EndLoop, Go, NextJob, Steps, Jobs, Ended

LEMMA RegisterTypes ==
  ASSUME DeployTypeOK, NEW v \in Versions, Register(v)
  PROVE  DeployTypeOK'
<1>1. /\ images' \in Seq({0} \cup Versions) /\ Len(images') = Len(images) + 1
      /\ \A n \in Revisions : images'[n] = images[n]
      /\ images'[Len(images) + 1] = v
  BY DEF Register, DeployTypeOK, Revisions
<1>2. revision' = [revision EXCEPT ![v] = Len(images) + 1]
  BY <1>1 DEF Register
<1>3. revision' \in [Versions -> 0 .. Len(images')]
  BY <1>1, <1>2 DEF DeployTypeOK
<1>4. \A w \in Versions : revision'[w] # 0 => images'[revision'[w]] = w
  <2>1. \A w \in Versions : revision[w] # 0 => revision[w] \in Revisions
    <3>1. Len(images) \in Nat /\ \A w \in Versions : revision[w] \in 0 .. Len(images)
      BY DEF DeployTypeOK
    <3> QED BY <3>1 DEF Revisions
  <2>2. \A w \in Versions \ {v} : revision'[w] = revision[w]
    BY <1>2 DEF DeployTypeOK
  <2>3. revision'[v] = Len(images) + 1
    BY <1>2 DEF DeployTypeOK
  <2> QED BY <1>1, <2>1, <2>2, <2>3 DEF DeployTypeOK
<1>5. active' \subseteq ({"task"} \X (1 .. Len(images'))) \cup ({"migration"} \X (1 .. migrations))
  BY <1>1 DEF Register, DeployTypeOK, Task, Revisions
<1>6. at' \in [Versions -> Jobs \X Steps]
  BY DEF Register, DeployTypeOK, Go, Jobs, Steps
<1>7. service' \in 1 .. Len(images') /\ serving' \subseteq 1 .. Len(images')
  BY <1>1 DEF Register, DeployTypeOK, ecs, Revisions
<1> QED BY <1>1, <1>3, <1>4, <1>5, <1>6, <1>7 DEF Register, DeployTypeOK, Revisions

LEMMA MigrationTypes ==
  ASSUME DeployTypeOK, NEW v \in Versions, RegisterMigration(v)
  PROVE  DeployTypeOK'
<1>1. migrations' = migrations + 1 /\ migrations' \in Nat /\ migrations \in Nat
  BY DEF RegisterMigration, DeployTypeOK
<1>2. migration' \in [Versions -> 0 .. migrations']
  BY <1>1 DEF RegisterMigration, DeployTypeOK
<1>3. active' \subseteq ({"task"} \X Revisions) \cup ({"migration"} \X (1 .. migrations'))
  BY <1>1 DEF RegisterMigration, DeployTypeOK, Migration
<1>4. at' \in [Versions -> Jobs \X Steps]
  BY DEF RegisterMigration, DeployTypeOK, Go, Jobs, Steps
<1> QED BY <1>1, <1>2, <1>3, <1>4 DEF RegisterMigration, DeployTypeOK, ecs, Revisions

LEMMA RunsTypes ==
  ASSUME DeployTypeOK, NEW v \in Versions,
         RunMigration(v) \/ \E i \in 1 .. Len(runs[v]) : MigrationEnds(v, i)
  PROVE  runs' \in [Versions -> Seq({"running", "ok", "failed"})]
<1>1. runs[v] \in Seq({"running", "ok", "failed"})
  BY DEF DeployTypeOK
<1>2. CASE RunMigration(v)
  BY <1>1, <1>2 DEF RunMigration, DeployTypeOK
<1>3. ASSUME NEW i \in 1 .. Len(runs[v]), MigrationEnds(v, i)
      PROVE  runs' \in [Versions -> Seq({"running", "ok", "failed"})]
  <2>1. PICK exit \in {"ok", "failed"} : runs' = [runs EXCEPT ![v][i] = exit]
    BY <1>3 DEF MigrationEnds
  <2>2. [runs[v] EXCEPT ![i] = exit] \in Seq({"running", "ok", "failed"})
    BY <1>1, <1>3
  <2> QED BY <2>1, <2>2 DEF DeployTypeOK
<1> QED BY <1>2, <1>3

(* Every variable keeps its type, and a job's revision carries the image   *)
(* of its version.                                                         *)
LEMMA TypeStep ==
  ASSUME DeployTypeOK, [Next]_vars PROVE DeployTypeOK'
<1>1. ASSUME NEW v \in Versions, Moves(v) PROVE DeployTypeOK'
  <2>1. at' \in [Versions -> Jobs \X Steps]
    <3>1. at \in [Versions -> Jobs \X Steps]
      BY DEF DeployTypeOK
    <3>2. PICK s \in Jobs \X Steps : at' = [at EXCEPT ![v] = s]
      BY <1>1, MoveFacts
    <3> QED BY <3>1, <3>2
  <2>2. UNCHANGED <<migration, runs, revision, listed, registry, schema, ecs, reruns, rollbacks>>
    BY <1>1, MoveFacts
  <2> QED BY <2>1, <2>2 DEF DeployTypeOK, registry, ecs, Revisions
<1>2. ASSUME NEW v \in Versions, Fail(v) PROVE DeployTypeOK'
  <2>1. at' \in [Versions -> Jobs \X Steps] /\ listed' \in [Versions -> SUBSET ({"task", "migration"} \X Nat)]
    BY <1>2 DEF Fail, DeployTypeOK, Steps, Ended
  <2> QED BY <1>2, <2>1 DEF Fail, DeployTypeOK, registry, ecs, Revisions
<1>3. ASSUME NEW v \in Versions, Rerun(v) PROVE DeployTypeOK'
  <2>1. at' \in [Versions -> Jobs \X Steps]
    BY <1>3, StepFacts DEF Rerun, DeployTypeOK
  <2>2. reruns' \in 0 .. MaxReruns
    BY <1>3 DEF Rerun, DeployTypeOK
  <2> QED BY <1>3, <2>1, <2>2 DEF Rerun, DeployTypeOK, registry, ecs, Revisions
<1>4. ASSUME NEW v \in Versions, RunMigration(v) PROVE DeployTypeOK'
  <2>1. at' \in [Versions -> Jobs \X Steps]
    BY <1>4 DEF RunMigration, DeployTypeOK, Go, Jobs, Steps
  <2> QED BY <1>4, <2>1, RunsTypes DEF RunMigration, DeployTypeOK, registry, ecs, Revisions
<1>5. ASSUME NEW v \in Versions, Update(v) PROVE DeployTypeOK'
  <2>1. at' \in [Versions -> Jobs \X Steps]
    BY <1>5 DEF Update, DeployTypeOK, Go, Jobs, Steps
  <2>2. service' \in Revisions
    BY <1>5 DEF Update, DeployTypeOK, Task
  <2> QED BY <1>5, <2>1, <2>2 DEF Update, DeployTypeOK, registry, Revisions
<1>6. ASSUME NEW v \in Versions, ListTasks(v) \/ ListMigrations(v) PROVE DeployTypeOK'
  <2>1. at' \in [Versions -> Jobs \X Steps]
    <3>1. PICK to \in {"tasks", "migrations"} : at' = [at EXCEPT ![v] = <<"cleanup", to>>]
      BY <1>6 DEF ListTasks, ListMigrations, Go
    <3>2. <<"cleanup", to>> \in Jobs \X Steps
      BY DEF Jobs, Steps
    <3> QED BY <3>1, <3>2 DEF DeployTypeOK
  <2>2. active \subseteq {"task", "migration"} \X Nat
    BY DEF DeployTypeOK, Revisions
  <2>3. listed' \in [Versions -> SUBSET ({"task", "migration"} \X Nat)]
    <3>1. PICK S \in SUBSET active : listed' = [listed EXCEPT ![v] = S]
      BY <1>6 DEF ListTasks, ListMigrations, Outdated
    <3> QED BY <2>2, <3>1 DEF DeployTypeOK
  <2> QED BY <1>6, <2>1, <2>3 DEF ListTasks, ListMigrations, DeployTypeOK, registry, ecs, Revisions
<1>7. ASSUME NEW v \in Versions, Deregister(v) PROVE DeployTypeOK'
  <2>1. PICK d \in listed[v] : listed' = [listed EXCEPT ![v] = listed[v] \ {d}] /\ active' = active \ {d}
    BY <1>7 DEF Deregister
  <2>2. listed' \in [Versions -> SUBSET ({"task", "migration"} \X Nat)] /\ active' \subseteq active
    BY <2>1 DEF DeployTypeOK
  <2>3. UNCHANGED <<at, migration, runs, revision, images, migrations, schema, service, serving, reruns, rollbacks>>
    BY <1>7 DEF Deregister, ecs
  <2> QED BY <2>2, <2>3 DEF DeployTypeOK, Revisions
<1>8. ASSUME NEW v \in Versions, NEW i \in 1 .. Len(runs[v]), MigrationEnds(v, i) PROVE DeployTypeOK'
  BY <1>8, RunsTypes DEF MigrationEnds, DeployTypeOK, registry, ecs, Revisions
<1>9. ASSUME NEW v \in Versions, Migrate(v) PROVE DeployTypeOK'
  BY <1>9 DEF Migrate, DeployTypeOK, jobs, registry, ecs, Revisions
<1>10. ASSUME NEW n \in Revisions, Rollback(n) PROVE DeployTypeOK'
  BY <1>10 DEF Rollback, DeployTypeOK, jobs, registry, Revisions
<1>11. ASSUME NEW n \in Revisions, TaskStops(n) PROVE DeployTypeOK'
  BY <1>11 DEF TaskStops, DeployTypeOK, jobs, registry, Revisions
<1>12. CASE TaskStarts
  BY <1>12 DEF TaskStarts, DeployTypeOK, jobs, registry, Revisions
<1>13. CASE UNCHANGED vars
  BY <1>13 DEF vars, DeployTypeOK, jobs, registry, ecs, Revisions
<1> QED BY <1>1, <1>2, <1>3, <1>4, <1>5, <1>6, <1>7, <1>8, <1>9, <1>10, <1>11, <1>12, <1>13,
           RegisterTypes, MigrationTypes DEF Next, Release, Moves

LEMMA InitTypes == Init => DeployTypeOK
<1> SUFFICES ASSUME Init PROVE DeployTypeOK
  OBVIOUS
<1>1. images \in Seq({0} \cup Versions) /\ Len(images) = 1
  BY DEF Init
<1>2. at \in [Versions -> Jobs \X Steps]
  BY DEF Init, Jobs, Steps
<1> QED BY <1>1, <1>2 DEF Init, DeployTypeOK, Revisions, Task

(* Every variable keeps its type, and a job's revision carries the image   *)
(* of its version, for any number of releases, re-runs and rollbacks.      *)
THEOREM TypeCorrect == Spec => []DeployTypeOK
BY InitTypes, TypeStep, PTL DEF Spec

-----------------------------------------------------------------------------
(* A release past its migrations job has its migrations applied, and so    *)
(* has every registered revision.                                          *)
PastMigrations(v) == at[v][1] \in {"deploy", "cleanup"}

Migrated ==
  /\ \A v \in Versions : PastMigrations(v) => v <= schema
  /\ \A v \in Versions : \A i \in 1 .. Len(runs[v]) : runs[v][i] = "ok" => v <= schema
  /\ \A v \in Versions : at[v] = <<"migrations", "verify">> => runs[v] # <<>>
  /\ \A n \in Revisions : images[n] <= schema

LEMMA VerifyMigrates ==
  ASSUME DeployTypeOK, Migrated, NEW v \in Versions, VerifyMigration(v)
  PROVE  v <= schema
<1>1. at[v] = <<"migrations", "verify">> /\ runs[v][Len(runs[v])] = "ok"
  BY DEF VerifyMigration, NextJob
<1>2. runs[v] # <<>> /\ runs[v] \in Seq({"running", "ok", "failed"})
  BY <1>1 DEF DeployTypeOK, Migrated
<1>3. Len(runs[v]) \in 1 .. Len(runs[v])
  BY <1>2
<1> QED BY <1>1, <1>3 DEF Migrated

(* A step that leaves the tasks, the registry and the schema alone keeps   *)
(* Migrated if it brings no release past its migrations unmigrated.        *)
LEMMA MoveMigrated ==
  ASSUME DeployTypeOK, Migrated, NEW v \in Versions, NEW s \in Jobs \X Steps,
         at' = [at EXCEPT ![v] = s], UNCHANGED <<runs, images, schema>>,
         s[1] \in {"deploy", "cleanup"} => v <= schema,
         s # <<"migrations", "verify">>
  PROVE  Migrated'
BY DEF DeployTypeOK, Migrated, PastMigrations, Revisions

LEMMA MigratedStep ==
  ASSUME DeployTypeOK, Migrated, [Next]_vars PROVE Migrated'
<1>1. ASSUME NEW v \in Versions, VerifyMigration(v) PROVE Migrated'
  <2>1. at' = [at EXCEPT ![v] = <<"deploy", "register">>]
    BY <1>1 DEF VerifyMigration, NextJob, FirstStep
  <2>2. <<"deploy", "register">> \in Jobs \X Steps
    BY DEF Jobs, Steps
  <2> QED BY <1>1, <2>1, <2>2, VerifyMigrates, MoveMigrated DEF VerifyMigration, registry
<1>2. ASSUME NEW v \in Versions, Publish(v) \/ RegisterMigration(v) PROVE Migrated'
  <2>1. PICK to \in {"register", "run"} : at' = [at EXCEPT ![v] = <<"migrations", to>>]
    BY <1>2 DEF Publish, RegisterMigration, NextJob, Go, FirstStep
  <2>2. <<"migrations", to>> \in Jobs \X Steps
    BY DEF Jobs, Steps
  <2> QED BY <1>2, <2>1, <2>2, MoveMigrated DEF Publish, RegisterMigration, registry
<1>3. ASSUME NEW v \in Versions, Update(v) \/ WaitStable(v) \/ ListTasks(v)
                                  \/ ListMigrations(v) \/ EndLoop(v) \/ Fail(v) \/ Rerun(v)
      PROVE  Migrated'
  <2>1. PICK s \in Jobs \X Steps :
           /\ at' = [at EXCEPT ![v] = s]
           /\ s[1] \in {"deploy", "cleanup"} => PastMigrations(v)
           /\ s # <<"migrations", "verify">>
    <3>1. CASE Update(v)
      <4>1. at[v][1] = "deploy" /\ at' = [at EXCEPT ![v] = <<"deploy", "wait">>]
        BY <3>1 DEF Update, Go
      <4> QED BY <4>1 DEF PastMigrations, Jobs, Steps
    <3>2. CASE WaitStable(v)
      <4>1. at[v] = <<"deploy", "wait">> /\ at' = [at EXCEPT ![v] = <<"cleanup", FirstStep("cleanup")>>]
        BY <3>2 DEF WaitStable, NextJob
      <4>2. FirstStep("cleanup") = "list tasks"
        BY DEF FirstStep
      <4>3. /\ <<"cleanup", "list tasks">> \in Jobs \X Steps
            /\ <<"cleanup", "list tasks">>[1] # "migrations"
        BY DEF Jobs, Steps
      <4>4. PastMigrations(v)
        BY <4>1 DEF PastMigrations
      <4>5. <<"cleanup", "list tasks">> # <<"migrations", "verify">>
        BY <4>3
      <4> QED BY <4>1, <4>2, <4>3, <4>4, <4>5
    <3>3. CASE ListTasks(v) \/ ListMigrations(v) \/ EndLoop(v)
      <4>1. PICK from \in Steps, to \in {"tasks", "migrations", "list migrations", "done"} :
              at[v] = <<"cleanup", from>> /\ at' = [at EXCEPT ![v] = <<"cleanup", to>>]
        BY <3>3 DEF ListTasks, ListMigrations, EndLoop, Go, Steps
      <4>2. <<"cleanup", to>> \in Jobs \X Steps /\ <<"cleanup", to>>[1] # "migrations"
        BY DEF Jobs, Steps, Ended
      <4>3. <<"cleanup", from>>[1] = "cleanup"
        OBVIOUS
      <4>4. PastMigrations(v)
        BY <4>1, <4>3 DEF PastMigrations
      <4>5. <<"cleanup", to>> # <<"migrations", "verify">>
        BY <4>2
      <4> QED BY <4>1, <4>2, <4>4, <4>5
    <3>4. CASE Fail(v)
      <4>1. at[v] \in Jobs \X Steps /\ at' = [at EXCEPT ![v] = <<at[v][1], "failed">>]
        BY <3>4 DEF Fail, DeployTypeOK
      <4>2. <<at[v][1], "failed">> \in Jobs \X Steps /\ <<at[v][1], "failed">>[2] # "verify"
        BY <4>1 DEF Steps, Ended
      <4> QED BY <4>1, <4>2 DEF PastMigrations
    <3>5. CASE Rerun(v)
      <4>1. at[v] \in Jobs \X Steps /\ at' = [at EXCEPT ![v] = <<at[v][1], FirstStep(at[v][1])>>]
        BY <3>5 DEF Rerun, DeployTypeOK
      <4>2. FirstStep(at[v][1]) \in Steps /\ FirstStep(at[v][1]) # "verify"
        BY <4>1 DEF FirstStep, Jobs, Steps
      <4> QED BY <4>1, <4>2 DEF PastMigrations
    <3> QED BY <1>3, <3>1, <3>2, <3>3, <3>4, <3>5
  <2>2. UNCHANGED <<runs, images, schema>>
    BY <1>3 DEF Update, WaitStable, ListTasks, ListMigrations, EndLoop, Fail, Rerun, registry
  <2> QED BY <2>1, <2>2, MoveMigrated DEF Migrated
<1>4. ASSUME NEW v \in Versions, RunMigration(v) PROVE Migrated'
  <2>1. at' = [at EXCEPT ![v] = <<"migrations", "verify">>] /\ UNCHANGED <<images, schema>>
    BY <1>4 DEF RunMigration, Go, registry
  <2>2. runs' = [runs EXCEPT ![v] = Append(runs[v], "running")] /\ runs[v] \in Seq({"running", "ok", "failed"})
    BY <1>4 DEF RunMigration, DeployTypeOK
  <2>3. /\ runs'[v] # <<>>
        /\ \A i \in 1 .. Len(runs'[v]) : runs'[v][i] = "ok" => v <= schema
    <3>1. runs'[v] = Append(runs[v], "running")
      BY <2>2 DEF DeployTypeOK
    <3>2. /\ Len(runs'[v]) = Len(runs[v]) + 1 /\ runs'[v][Len(runs[v]) + 1] = "running"
          /\ \A i \in 1 .. Len(runs[v]) : runs'[v][i] = runs[v][i]
      BY <2>2, <3>1
    <3>3. \A i \in 1 .. Len(runs'[v]) : i \in 1 .. Len(runs[v]) \/ i = Len(runs[v]) + 1
      BY <2>2, <3>2
    <3>4. runs'[v] # <<>>
      BY <2>2, <3>1
    <3> QED BY <3>2, <3>3, <3>4 DEF Migrated
  <2> QED BY <2>1, <2>2, <2>3 DEF DeployTypeOK, Migrated, PastMigrations, Revisions
<1>5. ASSUME NEW v \in Versions, Register(v) PROVE Migrated'
  <2>1. at[v] = <<"deploy", "register">> /\ at' = [at EXCEPT ![v] = <<"deploy", "update">>]
    BY <1>5 DEF Register, Go
  <2>2. v <= schema
    BY <2>1 DEF Migrated, PastMigrations
  <2>3. \A n \in Revisions' : images'[n] <= schema
    BY <1>5, <2>2 DEF Register, Migrated, DeployTypeOK, Revisions
  <2> QED BY <1>5, <2>1, <2>2, <2>3 DEF Register, DeployTypeOK, Migrated, PastMigrations
<1>6. ASSUME NEW v \in Versions, NEW i \in 1 .. Len(runs[v]), MigrationEnds(v, i) PROVE Migrated'
  <2>1. PICK exit \in {"ok", "failed"} :
          runs' = [runs EXCEPT ![v][i] = exit] /\ (exit = "ok" => v <= schema)
    BY <1>6 DEF MigrationEnds, DeployTypeOK
  <2>2. UNCHANGED <<at, images, schema>>
    BY <1>6 DEF MigrationEnds, registry
  <2>3. runs[v] \in Seq({"running", "ok", "failed"}) /\ runs'[v] = [runs[v] EXCEPT ![i] = exit]
        /\ \A w \in Versions \ {v} : runs'[w] = runs[w]
    BY <2>1 DEF DeployTypeOK
  <2>4. runs[v] # <<>> /\ runs'[v] # <<>> /\ Len(runs'[v]) = Len(runs[v])
    BY <1>6, <2>3
  <2>5. \A j \in 1 .. Len(runs'[v]) : runs'[v][j] = "ok" => v <= schema
    BY <2>1, <2>3, <2>4 DEF Migrated
  <2>6. /\ \A w \in Versions : \A j \in 1 .. Len(runs'[w]) : runs'[w][j] = "ok" => w <= schema
        /\ \A w \in Versions : at[w] = <<"migrations", "verify">> => runs'[w] # <<>>
    BY <2>3, <2>4, <2>5 DEF Migrated
  <2> QED BY <2>2, <2>6 DEF Migrated, PastMigrations, Revisions
<1>7. ASSUME NEW v \in Versions, Migrate(v) PROVE Migrated'
  <2>1. schema' \in Nat /\ schema \in Nat /\ schema <= schema' /\ UNCHANGED <<at, runs, images>>
    <3>1. PICK u \in Versions : schema < u /\ schema' = u
      BY <1>7 DEF Migrate
    <3>2. schema \in Nat /\ u \in Nat
      BY DEF DeployTypeOK
    <3>3. UNCHANGED <<at, runs, images>>
      BY <1>7 DEF Migrate, jobs, registry
    <3> QED BY <3>1, <3>2, <3>3
  <2>2. \A n \in Revisions : images[n] \in Nat
    <3>1. \A n \in Revisions : images[n] \in {0} \cup Versions
      BY DEF DeployTypeOK, Revisions
    <3>2. {0} \cup Versions \subseteq Nat
      OBVIOUS
    <3> QED BY <3>1, <3>2
  <2>3. \A w \in Versions : w <= schema => w <= schema'
    BY <2>1
  <2>4. \A n \in Revisions' : images'[n] <= schema'
    BY <2>1, <2>2 DEF Migrated, Revisions
  <2>5. \A w \in Versions : PastMigrations(w)' => w <= schema'
    BY <2>1, <2>3 DEF Migrated, PastMigrations
  <2>6. \A w \in Versions : \A i \in 1 .. Len(runs'[w]) : runs'[w][i] = "ok" => w <= schema'
    BY <2>1, <2>3 DEF Migrated
  <2>7. \A w \in Versions : at'[w] = <<"migrations", "verify">> => runs'[w] # <<>>
    BY <2>1 DEF Migrated
  <2> QED BY <2>4, <2>5, <2>6, <2>7 DEF Migrated
<1>8. CASE UNCHANGED <<at, runs, images, schema>>
  BY <1>8 DEF Migrated, PastMigrations, Revisions
<1>9. ASSUME NEW v \in Versions, Deregister(v) PROVE Migrated'
  BY <1>8, <1>9 DEF Deregister
<1>10. ASSUME TaskStarts \/ (\E n \in Revisions : Rollback(n) \/ TaskStops(n)) \/ UNCHANGED vars PROVE Migrated'
  BY <1>8, <1>10 DEF TaskStarts, Rollback, TaskStops, vars, jobs, registry
<1> QED BY <1>1, <1>2, <1>3, <1>4, <1>5, <1>6, <1>7, <1>9, <1>10 DEF Next, Release

(* No task runs code that is ahead of the schema, for any number of        *)
(* releases at once and whatever fails, is run again or rolled back.       *)
THEOREM MigratedBeforeServedHolds == Spec => []MigratedBeforeServed
<1>1. Init => DeployTypeOK /\ Migrated
  <2> SUFFICES ASSUME Init PROVE Migrated
    BY InitTypes
  <2>1. Revisions = {1} /\ images[1] = 0 /\ schema = 0
    BY DEF Init, Revisions
  <2> QED BY <2>1 DEF Init, Migrated, PastMigrations
<1>2. DeployTypeOK /\ Migrated /\ [Next]_vars => (DeployTypeOK /\ Migrated)'
  BY TypeStep, MigratedStep
<1>3. DeployTypeOK /\ Migrated => MigratedBeforeServed
  BY DEF DeployTypeOK, Migrated, MigratedBeforeServed
<1> QED BY <1>1, <1>2, <1>3, PTL DEF Spec

-----------------------------------------------------------------------------
(* What is about to be deregistered is older than the last Keep revisions. *)
Kept == \A v \in Versions : \A d \in listed[v] : d[1] = "task" => d[2] + Keep <= Len(images)

(* The definitions newer than a revision are at most the numbers above it. *)
LEMMA OutdatedIsOld ==
  ASSUME DeployTypeOK, NEW d \in Outdated
  PROVE  d[1] = "task" /\ d[2] \in Revisions /\ d[2] + Keep <= Len(images)
<1> DEFINE Newer == {e \in active : e[1] = "task" /\ e[2] > d[2]}
           Above == (d[2] + 1) .. Len(images)
           f == [e \in Newer |-> e[2]]
<1>1. \A e \in active : e[1] = "task" => e[2] \in Revisions /\ e = <<"task", e[2]>>
  BY DEF DeployTypeOK
<1>2. d[1] = "task" /\ d[2] \in Revisions /\ Cardinality(Newer) >= Keep
  BY <1>1 DEF Outdated
<1>3. Len(images) \in Nat /\ d[2] \in 1 .. Len(images)
  BY <1>2 DEF DeployTypeOK, Revisions
<1>4. f \in Injection(Newer, Above)
  <2>1. \A e \in Newer : e[2] \in Above
    BY <1>1, <1>3 DEF Revisions
  <2>2. \A e, g \in Newer : e[2] = g[2] => e = g
    BY <1>1
  <2>3. \A e, g \in Newer : f[e] = f[g] => e = g
    BY <2>2
  <2>4. f \in [Newer -> Above]
    BY <2>1
  <2> HIDE DEF f, Newer, Above
  <2> QED BY <2>3, <2>4 DEF Injection, IsInjective
<1>5. IsFiniteSet(Above) /\ Cardinality(Above) <= Len(images) - d[2]
  <2>1. d[2] + 1 \in Int /\ Len(images) \in Int
    BY <1>3
  <2>2. d[2] + 1 > Len(images) \/ Len(images) - (d[2] + 1) + 1 = Len(images) - d[2]
    BY <1>3
  <2>3. IsFiniteSet(Above) /\ Cardinality(Above) = IF d[2] + 1 > Len(images) THEN 0 ELSE Len(images) - (d[2] + 1) + 1
    BY <2>1, FS_Interval
  <2>4. Len(images) - d[2] >= 0
    BY <1>3
  <2> HIDE DEF Above
  <2> QED BY <1>3, <2>2, <2>3, <2>4
<1>6. IsFiniteSet(Newer) /\ Cardinality(Newer) <= Cardinality(Above)
  BY <1>4, <1>5, FS_Injection
<1>7. Cardinality(Newer) \in Nat /\ Cardinality(Above) \in Nat
  BY <1>5, <1>6, FS_CardinalityType
<1> QED BY <1>2, <1>3, <1>5, <1>6, <1>7

LEMMA KeptStep ==
  ASSUME DeployTypeOK, Kept, LastRevisionsKept, [Next]_vars
  PROVE  Kept' /\ LastRevisionsKept'
<1>1. ASSUME NEW v \in Versions, ListTasks(v) PROVE Kept' /\ LastRevisionsKept'
  BY <1>1, OutdatedIsOld DEF ListTasks, Kept, LastRevisionsKept, DeployTypeOK, registry, Revisions
<1>2. ASSUME NEW v \in Versions, ListMigrations(v) PROVE Kept' /\ LastRevisionsKept'
  BY <1>2 DEF ListMigrations, Kept, LastRevisionsKept, DeployTypeOK, registry, Revisions
<1>3. ASSUME NEW v \in Versions, Deregister(v) PROVE Kept' /\ LastRevisionsKept'
  <2>1. PICK d \in listed[v] : listed' = [listed EXCEPT ![v] = listed[v] \ {d}] /\ active' = active \ {d}
    BY <1>3 DEF Deregister
  <2>2. images' = images
    BY <1>3 DEF Deregister
  <2>3. Kept'
    BY <2>1, <2>2 DEF Kept, DeployTypeOK
  <2>4. ASSUME NEW n \in Revisions, n + Keep > Len(images) PROVE Task(n) # d
    BY <2>4 DEF Kept, Task, Revisions, DeployTypeOK
  <2> QED BY <2>1, <2>2, <2>3, <2>4 DEF LastRevisionsKept, Revisions
<1>4. ASSUME NEW v \in Versions, Register(v) PROVE Kept' /\ LastRevisionsKept'
  <2>1. Len(images') = Len(images) + 1 /\ Len(images) \in Nat /\ listed' = listed
    BY <1>4 DEF Register, DeployTypeOK
  <2>2. \A w \in Versions : \A d \in listed[w] : d[2] \in Nat
    BY DEF DeployTypeOK
  <2>3. Kept'
    BY <2>1, <2>2 DEF Kept
  <2>4. active' = active \cup {Task(Len(images) + 1)}
    BY <1>4, <2>1 DEF Register
  <2>5. \A n \in 1 .. Len(images) : n + Keep > Len(images) + 1 => n + Keep > Len(images)
    BY <2>1
  <2> QED BY <2>1, <2>3, <2>4, <2>5 DEF LastRevisionsKept, Revisions
<1>5. ASSUME NEW v \in Versions, RegisterMigration(v) PROVE Kept' /\ LastRevisionsKept'
  BY <1>5 DEF RegisterMigration, Kept, LastRevisionsKept, Revisions
<1>6. ASSUME NEW v \in Versions, Fail(v) PROVE Kept' /\ LastRevisionsKept'
  BY <1>6 DEF Fail, Kept, LastRevisionsKept, DeployTypeOK, registry, Revisions
<1>7. CASE UNCHANGED <<listed, images, active>>
  BY <1>7 DEF Kept, LastRevisionsKept, Revisions
<1>8. ASSUME NEW v \in Versions,
             Moves(v) \/ RunMigration(v) \/ Update(v) \/ Rerun(v) \/ Migrate(v)
               \/ \E i \in 1 .. Len(runs[v]) : MigrationEnds(v, i)
      PROVE  UNCHANGED <<listed, images, active>>
  BY <1>8 DEF Moves, Publish, VerifyMigration, WaitStable, EndLoop, RunMigration, Update, Rerun,
              Migrate, MigrationEnds, jobs, registry
<1>9. ASSUME TaskStarts \/ (\E n \in Revisions : Rollback(n) \/ TaskStops(n)) \/ UNCHANGED vars
      PROVE  UNCHANGED <<listed, images, active>>
  BY <1>9 DEF TaskStarts, Rollback, TaskStops, vars, jobs, registry
<1> QED BY <1>1, <1>2, <1>3, <1>4, <1>5, <1>6, <1>7, <1>8, <1>9 DEF Next, Release, Moves

(* The last Keep revisions stay ACTIVE, for any number of clean-ups and    *)
(* releases at once and any number of revisions kept.                      *)
THEOREM LastRevisionsKeptHolds == Spec => []LastRevisionsKept
<1>1. Init => DeployTypeOK /\ Kept /\ LastRevisionsKept
  <2> SUFFICES ASSUME Init PROVE Kept /\ LastRevisionsKept
    BY InitTypes
  <2>1. Revisions = {1}
    BY DEF Init, Revisions
  <2> QED BY <2>1 DEF Init, Kept, LastRevisionsKept
<1>2. DeployTypeOK /\ Kept /\ LastRevisionsKept /\ [Next]_vars
        => (DeployTypeOK /\ Kept /\ LastRevisionsKept)'
  BY TypeStep, KeptStep
<1> QED BY <1>1, <1>2, PTL DEF Spec
=============================================================================
