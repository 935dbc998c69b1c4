----------------------------- MODULE MCStartup -----------------------------
(* Instances of Startup for TLC.                                           *)
EXTENDS Startup

(* .env.common, with a host.                                               *)
CommonText(kind) ==
  CASE kind = "switch" -> "true"
    [] kind = "number" -> "digits"
    [] kind = "list" -> "strings"
    [] kind = "levels" -> "levels"
    [] kind = "member" -> "member"
    [] kind = "text" -> "word"

Common == [v \in Variables |-> IF v \in Fields THEN CommonText(Kind(v)) ELSE "word"]

(* One variable of each kind, and those the start depends on.              *)
SomeEnvironments ==
  {Common}
    \cup {[Common EXCEPT ![v] = t] :
            v \in {"THROTTLE_LIMIT", "DATABASE_LOG_LEVELS", "LOG_EXCLUDE_ENDPOINTS", "NODE_ENV"},
            t \in {"absent", "blank", "strings"}}
    \cup {[Common EXCEPT !["SENTRY_DSN"] = t] : t \in {"absent", "blank"}}
    \cup {[Common EXCEPT !["DATABASE_FAIL_FAST"] = t, !["DATABASE_HOST"] = h] :
            t \in {"absent", "word"}, h \in {"absent", "word"}}
=============================================================================
