------------------------------ MODULE Startup ------------------------------
(***************************************************************************)
(* The start of a process, from bootstrap to the open port: configuration, *)
(* then PrismaService.onModuleInit, which ends the process if the database *)
(* does not answer and DATABASE_FAIL_FAST is on; the orchestrator, which   *)
(* starts it again; and wait-for-db, which runs before migrations and      *)
(* gives up after some tries.                                              *)
(***************************************************************************)
EXTENDS Configuration

CONSTANTS
  Environments,   \* what the operators may set the variables to
  Retries         \* 20

ASSUME StartupAssumption ==
  /\ Environments \subseteq [Variables -> Texts] /\ Environments # {}
  /\ Retries \in Nat

VARIABLES
  env,        \* the variables the next start will find
  config,     \* Fields -> what the running process has read
  proc,       \* "exited", "bootstrap", "onModuleInit" or "listening"
  dbUp,       \* the database answers
  answered,   \* it has answered since this process started (history)
  wait,       \* wait-for-db: "none", "looking", "sleeping", "ready" or "failed"
  retries     \* the tries it has left

start == <<env, config, proc, answered>>
waiting == <<wait, retries>>
vars == <<start, dbUp, waiting>>

Init ==
  /\ env \in Environments
  /\ config = [f \in Fields |-> "default"]
  /\ proc = "exited"
  /\ dbUp \in BOOLEAN
  /\ answered = FALSE
  /\ wait = "none"
  /\ retries = Retries

-----------------------------------------------------------------------------
(* The process.                                                            *)

(* restart: always.                                                        *)
Restart ==
  /\ proc = "exited"
  /\ proc' = "bootstrap"
  /\ answered' = FALSE
  /\ UNCHANGED <<env, config, dbUp, waiting>>

(* A factory that throws fails NestFactory.create, which ends the process. *)
LoadConfig ==
  /\ proc = "bootstrap"
  /\ IF ValidConfig(env)
     THEN /\ config' = [f \in Fields |-> Read(f, env[f])]
          /\ proc' = "onModuleInit"
     ELSE proc' = "exited" /\ UNCHANGED config
  /\ UNCHANGED <<env, answered, dbUp, waiting>>

(* $connect does not talk to the database with this adapter, SELECT 1 does. *)
DatabaseAnswers == dbUp /\ HostKnown(env)

Connected ==
  /\ proc = "onModuleInit"
  /\ DatabaseAnswers
  /\ proc' = "listening"
  /\ answered' = TRUE
  /\ UNCHANGED <<env, config, dbUp, waiting>>

(* Mutant: the failure is logged and the process goes on.                  *)
PrismaFailedLogged ==
  /\ proc = "onModuleInit"
  /\ ~DatabaseAnswers
  /\ proc' = "listening"
  /\ UNCHANGED <<env, config, answered, dbUp, waiting>>

PrismaFailed ==
  /\ proc = "onModuleInit"
  /\ ~DatabaseAnswers
  /\ proc' = IF FailFast(config["DATABASE_FAIL_FAST"]) THEN "exited" ELSE "listening"
  /\ UNCHANGED <<env, config, answered, dbUp, waiting>>

(* A crash, or the end of a deployment; the database going away is none.   *)
Ends ==
  /\ proc = "listening"
  /\ proc' = "exited"
  /\ UNCHANGED <<env, config, answered, dbUp, waiting>>

-----------------------------------------------------------------------------
(* wait-for-db.                                                            *)

Wait ==
  /\ wait \in {"none", "ready", "failed"}
  /\ wait' = "looking" /\ retries' = Retries
  /\ UNCHANGED <<start, dbUp>>

(* Mutant: the failed try is not counted.                                  *)
LookUncounted ==
  /\ wait = "looking"
  /\ retries > 0
  /\ wait' = IF dbUp THEN "ready" ELSE "sleeping"
  /\ UNCHANGED <<start, dbUp, retries>>

(* Mutant: the loop does not look at the tries left.                       *)
LookForEver ==
  /\ wait = "looking"
  /\ wait' = IF dbUp THEN "ready" ELSE "sleeping"
  /\ retries' = IF dbUp THEN retries ELSE retries - 1
  /\ UNCHANGED <<start, dbUp>>

Look ==
  /\ wait = "looking"
  /\ retries > 0
  /\ IF dbUp THEN wait' = "ready" /\ UNCHANGED retries
             ELSE wait' = "sleeping" /\ retries' = retries - 1
  /\ UNCHANGED <<start, dbUp>>

(* It sleeps after the last try as well, and does not look again.          *)
Slept ==
  /\ wait = "sleeping"
  /\ wait' = "looking"
  /\ UNCHANGED <<start, dbUp, retries>>

NotReachable ==
  /\ wait = "looking"
  /\ retries = 0
  /\ wait' = "failed"
  /\ UNCHANGED <<start, dbUp, retries>>

-----------------------------------------------------------------------------
DatabaseFlips == dbUp' = ~dbUp /\ UNCHANGED <<start, waiting>>

EnvironmentChanges ==
  /\ env' \in Environments
  /\ proc = "exited"
  /\ UNCHANGED <<config, proc, answered, dbUp, waiting>>

Next ==
  \/ Restart \/ LoadConfig \/ Connected \/ PrismaFailed \/ Ends
  \/ Wait \/ Look \/ Slept \/ NotReachable
  \/ DatabaseFlips \/ EnvironmentChanges

Spec == Init /\ [][Next]_vars

(* The orchestrator restarts, the steps of a start return, and the timer   *)
(* of the wait fires.                                                      *)
FairSpec ==
  /\ Spec
  /\ WF_vars(Restart) /\ WF_vars(LoadConfig) /\ WF_vars(Connected \/ PrismaFailed)
  /\ WF_vars(Look) /\ WF_vars(Slept) /\ WF_vars(NotReachable)

-----------------------------------------------------------------------------
StartupTypeOK ==
  /\ env \in Environments
  /\ config \in [Fields -> Values]
  /\ proc \in {"exited", "bootstrap", "onModuleInit", "listening"}
  /\ dbUp \in BOOLEAN /\ answered \in BOOLEAN
  /\ wait \in {"none", "looking", "sleeping", "ready", "failed"}
  /\ retries \in 0 .. Retries

(* The port is open only with a configuration in which every value is of   *)
(* the declared kind and nothing required is missing, and, unless fail-    *)
(* fast is off, only after the database has answered this very process:    *)
(* whatever was set, and whichever starts failed before.                   *)
SoundStart ==
  proc = "listening" =>
    /\ \A f \in Fields : \/ config[f] \in ValuesOf(Kind(f))
                         \/ config[f] = "default" /\ f \notin Required
    /\ FailFast(config["DATABASE_FAIL_FAST"]) => answered

CanStart ==
  /\ ValidConfig(env)
  /\ DatabaseAnswers \/ ~FailFast(Read("DATABASE_FAIL_FAST", env["DATABASE_FAIL_FAST"]))

(* If the variables are right and the database stays up in the end, or may *)
(* be away, the process opens its port again and again, whatever it met at *)
(* the starts before; and the wait ends, one way or the other.             *)
StartsInTheEnd ==
  /\ <>[]CanStart => []<>(proc = "listening")
  /\ wait = "looking" ~> wait \in {"ready", "failed"}
=============================================================================
