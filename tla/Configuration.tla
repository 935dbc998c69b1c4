--------------------------- MODULE Configuration ---------------------------
(***************************************************************************)
(* The configuration classes of src/config and validateConfig: which       *)
(* variables they declare, what each makes of the text of its variable,    *)
(* and when a process refuses to start.  No state.                         *)
(*                                                                         *)
(* A text is one of the few the code tells apart; a value that has been    *)
(* read is what is left of it.                                             *)
(***************************************************************************)
EXTENDS Naturals, Sequences

AppConfig ==
  [APP_DESCRIPTION |-> "text", APP_HOST |-> "text", APP_NAME |-> "text",
   APP_PORT |-> "number", APP_VERSION |-> "text"]
ApiConfig ==
  [API_ALLOWED_NON_BROWSER_ORIGINS |-> "switch", API_ALLOWED_ORIGINS |-> "list",
   API_PREFIX |-> "text"]
ThrottlerConfig == [THROTTLE_LIMIT |-> "number", THROTTLE_TTL |-> "number"]
RedisConfig == [REDIS_ENABLED |-> "switch", REDIS_HOST |-> "text", REDIS_PORT |-> "number"]
DatabaseConfig ==
  [DATABASE_FAIL_FAST |-> "switch", DATABASE_LOG_LEVELS |-> "levels", DATABASE_NAME |-> "text",
   DATABASE_PASSWORD |-> "text", DATABASE_PORT |-> "number", DATABASE_USER |-> "text"]
EnvironmentConfig == [NODE_ENV |-> "member"]
SwaggerConfig ==
  [SWAGGER_ENABLED |-> "switch", SWAGGER_ENDPOINT |-> "text",
   SWAGGER_PASSWORD |-> "text", SWAGGER_USERNAME |-> "text"]
MetricsConfig == [HEALTH_CHECK_TRIGGER_MS |-> "number"]
SentryConfig ==
  [SENTRY_DSN |-> "text", SENTRY_ENABLED |-> "switch", SENTRY_IGNORED_ERRORS |-> "list"]
LogConfig == [LOG_EXCLUDE_ENDPOINTS |-> "list", LOG_LEVEL |-> "member", LOG_PRETTY |-> "switch"]

(* ConfigModule loads the factories in this order.                         *)
Load ==
  <<AppConfig, ApiConfig, ThrottlerConfig, RedisConfig, DatabaseConfig,
    EnvironmentConfig, SwaggerConfig, MetricsConfig, SentryConfig, LogConfig>>

Fields == UNION {DOMAIN Load[i] : i \in DOMAIN Load}
Kind(field) == LET i == CHOOSE j \in DOMAIN Load : field \in DOMAIN Load[j]
               IN  Load[i][field]

(* Fields without an initializer; Sentry's also when it is disabled.       *)
Required ==
  {"DATABASE_NAME", "DATABASE_PASSWORD", "DATABASE_PORT", "DATABASE_USER", "SENTRY_DSN"}

-----------------------------------------------------------------------------
(* "member": a member of the enumeration of the field; "strings" and       *)
(* "levels": JSON lists of strings, of log levels; "numbers": a JSON list  *)
(* of something else; "word": any other text.                              *)
Texts ==
  {"absent", "blank", "true", "digits", "word", "member", "strings", "levels", "numbers"}

(* What the declaration of a kind promises its readers.                    *)
ValuesOf(kind) ==
  CASE kind = "switch" -> {"on", "off"}
    [] kind = "number" -> {"zero", "number"}
    [] kind = "list" -> {"list"}
    [] kind = "levels" -> {"list"}
    [] kind = "member" -> {"member"}
    [] kind = "text" -> {"text"}

(* The @Transform of the field, and the validator on what it returns.      *)
(* Number("") is 0, any other text that is no number is NaN; JSON.parse    *)
(* throws or returns something that is no array.                           *)
Transform(kind, text) ==
  CASE kind = "switch" -> IF text = "true" THEN "on" ELSE "off"
    [] kind = "number" -> IF text = "digits" THEN "number"
                          ELSE IF text = "blank" THEN "zero" ELSE "invalid"
    [] kind = "list" -> IF text \in {"strings", "levels"} THEN "list" ELSE "invalid"
    [] kind = "levels" -> IF text = "levels" THEN "list" ELSE "invalid"
    [] kind = "member" -> IF text = "member" THEN "member" ELSE "invalid"
    [] kind = "text" -> "text"

(* plainToInstance visits the variables that are there: the others keep    *)
(* the initializer, and what has none is undefined, which no validator     *)
(* accepts.                                                                *)
Read(field, text) ==
  IF text # "absent" THEN Transform(Kind(field), text)
  ELSE IF field \in Required THEN "missing" ELSE "default"

Values == {"default", "missing", "invalid", "on", "off", "zero", "number", "list", "member", "text"}

(* validateConfig throws for none of the classes.                          *)
ValidConfig(env) == \A f \in Fields : Read(f, env[f]) \notin {"missing", "invalid"}

FailFast(value) == value \in {"default", "on"}

(* getDatabaseUrl puts DATABASE_HOST into the url unread: without it the   *)
(* host is "undefined".                                                    *)
Variables == Fields \cup {"DATABASE_HOST"}
HostKnown(env) == env["DATABASE_HOST"] = "word"
=============================================================================
