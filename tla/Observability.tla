--------------------------- MODULE Observability ---------------------------
(***************************************************************************)
(* What RequestPipeline leaves for whoever looks into a failure: the trace *)
(* id that traceIdMiddleware puts into AsyncLocalStorage, the lines of     *)
(* LoggerService, and the errors that SentryInterceptor and                *)
(* GlobalExceptionFilter both hand to Sentry.  Every action is one of      *)
(* RequestPipeline with what it logs and reports.                          *)
(*                                                                         *)
(* Of a line its level and trace id are kept; of a report who captured     *)
(* the error, the ids in its tag and its extra data, and whether its scope *)
(* names the user.                                                         *)
(***************************************************************************)
EXTENDS RequestPipeline, Sequences

CONSTANTS
  ClientIds,            \* what clients send as x-trace-id; two may send the same
  LogExcludeEndpoints,  \* the routes of LOG_EXCLUDE_ENDPOINTS
  SentryIgnoredErrors   \* texts; an error whose name includes one is not sent

NoId == ""

(* What the name of an error includes.  BaseError sets no name of its own. *)
NamedLike == [Error |-> {"BaseError", "PrismaError", "Error"},
              Prisma |-> {"PrismaError"},
              Exception |-> {"HttpException"}]

ASSUME ObservabilityAssumption ==
  /\ NoId \notin ClientIds \cup Reqs
  /\ SentryIgnoredErrors \subseteq DOMAIN NamedLike

VARIABLES
  sentryEnabled,  \* SENTRY_ENABLED: Sentry is initialised
  traceId,        \* Reqs -> the X-Trace-Id header of the response
  store,          \* Reqs -> the id in the AsyncLocalStorage of its calls
  tag,            \* Reqs -> the traceId tag of its Sentry scope
  named,          \* requests whose Sentry scope has a user
  lines,          \* Reqs -> what was logged while it ran
  captured,       \* requests whose error object Sentry has seen
  reports         \* Reqs -> what was sent to Sentry about it

context == <<traceId, store, tag>>
sentry == <<named, captured, reports>>
allVars == <<vars, sentryEnabled, context, lines, sentry>>

ObservedInit ==
  /\ Init
  /\ sentryEnabled \in BOOLEAN
  /\ traceId = [r \in Reqs |-> NoId]
  /\ store = [r \in Reqs |-> NoId]
  /\ tag = [r \in Reqs |-> NoId]
  /\ named = {}
  /\ lines = [r \in Reqs |-> << >>]
  /\ captured = {}
  /\ reports = [r \in Reqs |-> << >>]

-----------------------------------------------------------------------------
(* randomUUID: no two requests get the same id.                            *)
RandomUUID(r) == r

(* Mutant: the id in a static field of RequestContext.                     *)
RunInField(r, id) == store' = [q \in Reqs |-> id]

(* RequestContext.run: what the request calls from here on has its own map. *)
Run(r, id) == store' = [store EXCEPT ![r] = id]

GetTraceId(r) == store[r]

(* LoggerService puts the id of the running context into every line.       *)
Line(level, id) == [level |-> level, traceId |-> id]
Writes(r, level) == lines' = [lines EXCEPT ![r] = Append(@, Line(level, GetTraceId(r)))]

BeforeSend(e) == \A text \in SentryIgnoredErrors : e.kind \notin NamedLike[text]

Report(r, by, extra) == [by |-> by, tag |-> tag[r], extra |-> extra, user |-> r \in named']

Send(r, e, by, extra) ==
  reports' = IF BeforeSend(e) THEN [reports EXCEPT ![r] = Append(@, Report(r, by, extra))]
                              ELSE reports

(* Sentry.captureException: nothing without a client; an error object is   *)
(* marked when it is first seen, and not looked at again.                  *)
CaptureException(r, e, by, extra) ==
  IF ~sentryEnabled \/ r \in captured
  THEN UNCHANGED <<captured, reports>>
  ELSE captured' = captured \cup {r} /\ Send(r, e, by, extra)

-----------------------------------------------------------------------------
(* Mutant: loggingMiddleware returns without next() for an excluded url.   *)
ReceiveHeld(r) ==
  /\ \E i \in Inputs : input' = [input EXCEPT ![r] = i]
  /\ Move(r, "none", IF input'[r].route \in LogExcludeEndpoints THEN "held" ELSE "body")
  /\ traceId' = [traceId EXCEPT ![r] = RandomUUID(r)] /\ Run(r, RandomUUID(r))
  /\ UNCHANGED <<thrown, statusCode, metrics, dbUp, metered, tag, lines, sentryEnabled, sentry>>

(* traceIdMiddleware, sentryContextMiddleware and loggingMiddleware, which *)
(* compares the url as it was sent: /health/deps and /health with a query  *)
(* are not /health.                                                        *)
ReceiveTraced(r) ==
  /\ Receive(r)
  /\ \E id \in {RandomUUID(r)} \cup ClientIds :
       traceId' = [traceId EXCEPT ![r] = id] /\ Run(r, id)
  /\ tag' = IF sentryEnabled THEN [tag EXCEPT ![r] = store'[r]] ELSE tag
  /\ \/ /\ input'[r].route \notin LogExcludeEndpoints
        /\ lines' = [lines EXCEPT ![r] = Append(@, Line("info", store'[r]))]
     \/ /\ input'[r].route \in LogExcludeEndpoints \cup {"health"}
        /\ UNCHANGED lines
  /\ UNCHANGED <<sentryEnabled, sentry>>

(* Body parser and guards write nothing.                                   *)
BeforeHandling(r) ==
  /\ ParseBody(r) \/ Throttle(r) \/ Refuse(r) \/ Intercept(r)
  /\ UNCHANGED <<sentryEnabled, context, lines, sentry>>

(* A cache call that fails in the handler, and a ping that fails, are      *)
(* logged as warnings.                                                     *)
Warns(r) ==
  \/ UNCHANGED lines
  \/ input[r].route \in Guarded \cup {"health"} /\ Writes(r, "warn")

ReturnTraced(r) ==
  /\ Return(r)
  /\ Warns(r)
  /\ UNCHANGED <<sentryEnabled, context, sentry>>

(* SentryInterceptor is the outermost: it sees the errors of the pipes, of *)
(* the handler and of the other interceptors.                              *)
ThrowReported(r) ==
  /\ Throw(r)
  /\ Warns(r)
  /\ UNCHANGED named
  /\ CaptureException(r, thrown'[r], "interceptor", GetTraceId(r))
  /\ UNCHANGED <<sentryEnabled, context>>

CatchHealthUnreported(r) ==
  /\ CatchHealth(r)
  /\ UNCHANGED <<sentryEnabled, context, lines, sentry>>

(* AuthGuard has put a user id into the request.                           *)
SignedIn(r) == r \in metered /\ input[r].route \in Guarded

SetUser(r) == named' = IF sentryEnabled /\ SignedIn(r) THEN named \cup {r} ELSE named

(* Mutant: the filter captures the error it has made of the exception.     *)
CatchMapped(r) ==
  /\ Catch(r)
  /\ SetUser(r)
  /\ IF sentryEnabled THEN Send(r, thrown[r], "filter", NoId) ELSE UNCHANGED reports
  /\ Writes(r, "error")
  /\ UNCHANGED <<sentryEnabled, context, captured>>

(* The filter names the user, captures the exception, with the traceId     *)
(* property of the request, which nothing sets, and then logs it.          *)
CatchReported(r) ==
  /\ Catch(r)
  /\ SetUser(r)
  /\ CaptureException(r, thrown[r], "filter", NoId)
  /\ Writes(r, "error")
  /\ UNCHANGED <<sentryEnabled, context>>

DatabaseFlipsUnseen ==
  /\ DatabaseFlips
  /\ UNCHANGED <<sentryEnabled, context, lines, sentry>>

ObservedStep(r) ==
  \/ BeforeHandling(r) \/ ReturnTraced(r) \/ ThrowReported(r)
  \/ CatchHealthUnreported(r) \/ CatchReported(r)

ObservedNext ==
  DatabaseFlipsUnseen \/ \E r \in Reqs : ReceiveTraced(r) \/ ObservedStep(r)

ObservedSpec == ObservedInit /\ [][ObservedNext]_allVars

(* The event loop runs, and a handler returns or throws.                   *)
ObservedFairSpec == ObservedSpec /\ \A r \in Reqs : WF_allVars(ObservedStep(r))

-----------------------------------------------------------------------------
Ids == ClientIds \cup Reqs \cup {NoId}
ReportType ==
  [by : {"interceptor", "filter"}, tag : Ids, extra : Ids, user : BOOLEAN]

ObservabilityTypeOK ==
  /\ TypeOK
  /\ sentryEnabled \in BOOLEAN
  /\ traceId \in [Reqs -> Ids]
  /\ store \in [Reqs -> Ids]
  /\ tag \in [Reqs -> Ids]
  /\ named \subseteq Reqs
  /\ lines \in [Reqs -> Seq([level : {"info", "warn", "error"}, traceId : Ids])]
  /\ captured \subseteq Reqs
  /\ reports \in [Reqs -> Seq(ReportType)]

(* logging-observability.md: all logs of a request contain the same        *)
(* traceId.  It is the one its client was told, whichever requests run     *)
(* between its turns, and no report to Sentry has another one.             *)
TracedEverywhere ==
  \A r \in Reqs :
    /\ \A i \in DOMAIN lines[r] : lines[r][i].traceId = traceId[r]
    /\ \A i \in DOMAIN reports[r] :
         /\ reports[r][i].tag = traceId[r]
         /\ reports[r][i].extra \in {traceId[r], NoId}

WentWell(r) == stage[r] = "answered" /\ thrown[r] = NoError
Failed(r) == stage[r] = "answered" /\ statusCode[r] >= 400

(* The filter logs errors and reports them to monitoring systems, and the  *)
(* interceptor has reported some of them before: every error answer is one *)
(* line of level error and, if it is to be sent at all, one report.  A     *)
(* request that went well leaves neither.                                  *)
FailuresOnRecord ==
  \A r \in Reqs :
    /\ Failed(r) =>
         /\ \E i \in DOMAIN lines[r] :
              \A j \in DOMAIN lines[r] : lines[r][j].level = "error" <=> j = i
         /\ Len(reports[r]) = IF sentryEnabled /\ BeforeSend(thrown[r]) THEN 1 ELSE 0
    /\ WentWell(r) =>
         /\ \A i \in DOMAIN lines[r] : lines[r][i].level # "error"
         /\ reports[r] = << >>
=============================================================================
