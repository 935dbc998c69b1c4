--------------------------- MODULE StartupProofs ---------------------------
(***************************************************************************)
(* What holds of every start, for every set of environments and every      *)
(* number of tries: the type of the state, and SoundStart.                 *)
(***************************************************************************)
EXTENDS Startup, TLAPS

Kinds == {"switch", "number", "list", "levels", "member", "text"}

(* A text that is there is refused or becomes a value of the field's kind. *)
LEMMA TransformSound ==
  ASSUME NEW kind \in Kinds, NEW text
  PROVE  Transform(kind, text) \in ValuesOf(kind) \cup {"invalid"}
<1>1. CASE kind = "switch"  BY <1>1 DEF Transform, ValuesOf
<1>2. CASE kind = "number"  BY <1>2 DEF Transform, ValuesOf
<1>3. CASE kind = "list"    BY <1>3 DEF Transform, ValuesOf
<1>4. CASE kind = "levels"  BY <1>4 DEF Transform, ValuesOf
<1>5. CASE kind = "member"  BY <1>5 DEF Transform, ValuesOf
<1>6. CASE kind = "text"    BY <1>6 DEF Transform, ValuesOf
<1> QED  BY <1>1, <1>2, <1>3, <1>4, <1>5, <1>6 DEF Kinds

(* Every field is declared with one of the kinds.                          *)
LEMMA LoadKinds ==
  ASSUME NEW i \in DOMAIN Load, NEW f \in DOMAIN Load[i]
  PROVE  Load[i][f] \in Kinds
<1>1. DOMAIN Load = 1 .. 10  BY DEF Load
<1>2. i \in {1, 2, 3, 4, 5, 6, 7, 8, 9, 10}  BY <1>1
<1>3. CASE i = 1
  <2>1. Load[i] = AppConfig  BY <1>3 DEF Load
  <2> QED  BY <2>1 DEF AppConfig, Kinds
<1>4. CASE i = 2
  <2>1. Load[i] = ApiConfig  BY <1>4 DEF Load
  <2> QED  BY <2>1 DEF ApiConfig, Kinds
<1>5. CASE i = 3
  <2>1. Load[i] = ThrottlerConfig  BY <1>5 DEF Load
  <2> QED  BY <2>1 DEF ThrottlerConfig, Kinds
<1>6. CASE i = 4
  <2>1. Load[i] = RedisConfig  BY <1>6 DEF Load
  <2> QED  BY <2>1 DEF RedisConfig, Kinds
<1>7. CASE i = 5
  <2>1. Load[i] = DatabaseConfig  BY <1>7 DEF Load
  <2> QED  BY <2>1 DEF DatabaseConfig, Kinds
<1>8. CASE i = 6
  <2>1. Load[i] = EnvironmentConfig  BY <1>8 DEF Load
  <2> QED  BY <2>1 DEF EnvironmentConfig, Kinds
<1>9. CASE i = 7
  <2>1. Load[i] = SwaggerConfig  BY <1>9 DEF Load
  <2> QED  BY <2>1 DEF SwaggerConfig, Kinds
<1>10. CASE i = 8
  <2>1. Load[i] = MetricsConfig  BY <1>10 DEF Load
  <2> QED  BY <2>1 DEF MetricsConfig, Kinds
<1>11. CASE i = 9
  <2>1. Load[i] = SentryConfig  BY <1>11 DEF Load
  <2> QED  BY <2>1 DEF SentryConfig, Kinds
<1>12. CASE i = 10
  <2>1. Load[i] = LogConfig  BY <1>12 DEF Load
  <2> QED  BY <2>1 DEF LogConfig, Kinds
<1> QED  BY <1>2, <1>3, <1>4, <1>5, <1>6, <1>7, <1>8, <1>9, <1>10, <1>11, <1>12

LEMMA KindKnown ==
  ASSUME NEW f \in Fields
  PROVE  Kind(f) \in Kinds
<1>1. PICK i \in DOMAIN Load : f \in DOMAIN Load[i]  BY DEF Fields
<1> DEFINE j == CHOOSE k \in DOMAIN Load : f \in DOMAIN Load[k]
<1>2. j \in DOMAIN Load /\ f \in DOMAIN Load[j]  BY <1>1
<1>3. Kind(f) = Load[j][f]  BY DEF Kind
<1> HIDE DEF j
<1> QED  BY <1>2, <1>3, LoadKinds

(* What validateConfig lets through.                                       *)
Sound(f, value) ==
  \/ value \in ValuesOf(Kind(f))
  \/ value = "default" /\ f \notin Required

LEMMA ReadSound ==
  ASSUME NEW f \in Fields, NEW text
  PROVE  /\ Read(f, text) \in {"missing", "invalid"} \/ Sound(f, Read(f, text))
         /\ Read(f, text) \in Values
<1>1. Transform(Kind(f), text) \in ValuesOf(Kind(f)) \cup {"invalid"}
  BY KindKnown, TransformSound
<1>2. ValuesOf(Kind(f)) \subseteq Values
  BY KindKnown DEF Kinds, ValuesOf, Values
<1>3. CASE text # "absent"
  <2>1. Read(f, text) = Transform(Kind(f), text)  BY <1>3 DEF Read
  <2>2. "invalid" \in Values  BY DEF Values
  <2> QED  BY <1>1, <1>2, <2>1, <2>2 DEF Sound
<1>4. CASE text = "absent" /\ f \in Required
  <2>1. Read(f, text) = "missing"  BY <1>4 DEF Read
  <2> QED  BY <2>1 DEF Values
<1>5. CASE text = "absent" /\ f \notin Required
  <2>1. Read(f, text) = "default"  BY <1>5 DEF Read
  <2> QED  BY <1>5, <2>1 DEF Sound, Values
<1> QED  BY <1>3, <1>4, <1>5

-----------------------------------------------------------------------------
(* Type correctness; retries never passes below 0, because Look asks for   *)
(* a try that is left.                                                     *)
THEOREM TypeCorrect == Spec => []StartupTypeOK
<1>1. Init => StartupTypeOK
  <2> SUFFICES ASSUME Init PROVE StartupTypeOK  OBVIOUS
  <2>1. [f \in Fields |-> "default"] \in [Fields -> Values]  BY DEF Values
  <2>2. Retries \in 0 .. Retries  BY StartupAssumption
  <2> QED  BY <2>1, <2>2 DEF Init, StartupTypeOK
<1>2. StartupTypeOK /\ [Next]_vars => StartupTypeOK'
  <2> SUFFICES ASSUME StartupTypeOK, [Next]_vars PROVE StartupTypeOK'  OBVIOUS
  <2> USE DEF StartupTypeOK
  <2>1. CASE Restart  BY <2>1 DEF Restart, waiting
  <2>2. CASE LoadConfig
    <3>1. [f \in Fields |-> Read(f, env[f])] \in [Fields -> Values]  BY ReadSound
    <3>2. config' \in [Fields -> Values]  BY <2>2, <3>1 DEF LoadConfig
    <3> QED  BY <2>2, <3>2 DEF LoadConfig, waiting
  <2>3. CASE Connected  BY <2>3 DEF Connected, waiting
  <2>4. CASE PrismaFailed  BY <2>4 DEF PrismaFailed, waiting
  <2>5. CASE Ends  BY <2>5 DEF Ends, waiting
  <2>6. CASE Wait
    <3>1. Retries \in 0 .. Retries  BY StartupAssumption
    <3> QED  BY <2>6, <3>1 DEF Wait, start
  <2>7. CASE Look
    <3>1. retries' \in 0 .. Retries  BY <2>7, StartupAssumption DEF Look
    <3> QED  BY <2>7, <3>1 DEF Look, start
  <2>8. CASE Slept  BY <2>8 DEF Slept, start
  <2>9. CASE NotReachable  BY <2>9 DEF NotReachable, start
  <2>10. CASE DatabaseFlips  BY <2>10 DEF DatabaseFlips, start, waiting
  <2>11. CASE EnvironmentChanges  BY <2>11 DEF EnvironmentChanges, waiting
  <2>12. CASE UNCHANGED vars  BY <2>12 DEF vars, start, waiting
  <2> QED
    BY <2>1, <2>2, <2>3, <2>4, <2>5, <2>6, <2>7, <2>8, <2>9, <2>10, <2>11, <2>12 DEF Next
<1> QED  BY <1>1, <1>2, PTL DEF Spec

-----------------------------------------------------------------------------
(* SoundStart speaks of the open port; a start that has read its           *)
(* configuration and still waits for the database must have read a sound   *)
(* one already.                                                            *)
ConfigSound ==
  proc \in {"onModuleInit", "listening"} => \A f \in Fields : Sound(f, config[f])

AnsweredOrOff ==
  proc = "listening" /\ FailFast(config["DATABASE_FAIL_FAST"]) => answered

StartInv == ConfigSound /\ AnsweredOrOff

LEMMA LoadedSound ==
  ASSUME StartupTypeOK, LoadConfig
  PROVE  StartInv'
<1>1. CASE ValidConfig(env)
  <2>1. /\ config' = [f \in Fields |-> Read(f, env[f])]
        /\ proc' = "onModuleInit"
    BY <1>1 DEF LoadConfig
  <2>2. ASSUME NEW f \in Fields
        PROVE  Sound(f, config'[f])
    <3>1. Read(f, env[f]) \notin {"missing", "invalid"}  BY <1>1 DEF ValidConfig
    <3>2. Sound(f, Read(f, env[f]))  BY <3>1, ReadSound
    <3>3. config'[f] = Read(f, env[f])  BY <2>1
    <3> QED  BY <3>2, <3>3
  <2> QED  BY <2>1, <2>2 DEF StartInv, ConfigSound, AnsweredOrOff
<1>2. CASE ~ValidConfig(env)
  <2>1. proc' = "exited"  BY <1>2 DEF LoadConfig
  <2> QED  BY <2>1 DEF StartInv, ConfigSound, AnsweredOrOff
<1> QED  BY <1>1, <1>2

(* The open port means a sound configuration and, unless fail-fast is off, *)
(* a database that has answered this process: validateConfig throws,       *)
(* onModuleInit exits, and nothing in between opens the port.              *)
THEOREM SoundStartHolds == Spec => []SoundStart
<1>1. Init => StartInv
  BY DEF Init, StartInv, ConfigSound, AnsweredOrOff
<1>2. StartupTypeOK /\ StartInv /\ [Next]_vars => StartInv'
  <2> SUFFICES ASSUME StartupTypeOK, StartInv, [Next]_vars PROVE StartInv'  OBVIOUS
  <2> USE DEF StartInv, ConfigSound, AnsweredOrOff
  <2>1. CASE Restart  BY <2>1 DEF Restart
  <2>2. CASE LoadConfig  BY <2>2, LoadedSound
  <2>3. CASE Connected  BY <2>3 DEF Connected
  <2>4. CASE PrismaFailed
    <3>1. \/ proc' = "exited"
          \/ ~FailFast(config["DATABASE_FAIL_FAST"])
      BY <2>4 DEF PrismaFailed
    <3>2. proc = "onModuleInit" /\ config' = config  BY <2>4 DEF PrismaFailed
    <3> QED  BY <3>1, <3>2
  <2>5. CASE Ends  BY <2>5 DEF Ends
  <2>6. CASE Wait \/ Look \/ Slept \/ NotReachable
    <3>1. UNCHANGED <<config, proc, answered>>
      BY <2>6 DEF Wait, Look, Slept, NotReachable, start
    <3> QED  BY <3>1
  <2>7. CASE DatabaseFlips
    <3>1. UNCHANGED <<config, proc, answered>>  BY <2>7 DEF DatabaseFlips, start
    <3> QED  BY <3>1
  <2>8. CASE EnvironmentChanges  BY <2>8 DEF EnvironmentChanges
  <2>9. CASE UNCHANGED vars  BY <2>9 DEF vars, start
  <2> QED  BY <2>1, <2>2, <2>3, <2>4, <2>5, <2>6, <2>7, <2>8, <2>9 DEF Next
<1>3. StartInv => SoundStart
  BY DEF StartInv, ConfigSound, AnsweredOrOff, Sound, SoundStart
<1> QED  BY <1>1, <1>2, <1>3, TypeCorrect, PTL DEF Spec
=============================================================================
