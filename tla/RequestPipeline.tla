-------------------------- MODULE RequestPipeline --------------------------
(***************************************************************************)
(* What happens to one HTTP request around its handler: the body parser,   *)
(* the throttler guard, AuthGuard, the interceptors of appSetup with       *)
(* HttpMetrics innermost, the handler with its pipes, and                  *)
(* GlobalExceptionFilter, with the Prometheus metrics they share.          *)
(* Requests interleave at the awaits.                                      *)
(*                                                                         *)
(* An error keeps its class, the status it carries (0: none) and the code  *)
(* of a Prisma error; a body is left out.                                  *)
(***************************************************************************)
EXTENDS Integers, FiniteSets

CONSTANT Reqs     \* the requests a process receives

VARIABLES
  stage,          \* Reqs -> how far the request is
  input,          \* Reqs -> [route, header]
  thrown,         \* Reqs -> what was thrown for it, NoError if nothing
  statusCode,     \* Reqs -> res.statusCode
  inFlight,       \* the gauge http_requests_in_flight
  requestsTotal,  \* Statuses -> http_requests_total
  errorsTotal,    \* Statuses -> http_errors_total
  dbUp,           \* what a database ping would say
  metered         \* requests that reached HttpMetricsInterceptor (history)

metrics == <<inFlight, requestsTotal, errorsTotal>>
vars == <<stage, input, thrown, statusCode, metrics, dbUp, metered>>

Routes == {"todo", "create", "remove", "logs", "version", "health", "noRoute", "noRouteUnderHealth"}
Guarded == {"todo", "create", "remove"}
NoRoute == {"noRoute", "noRouteUnderHealth"}
UnderHealth == {"health", "noRouteUnderHealth"}

(* "none": absent, or of another scheme.                                   *)
Headers == {"none", "bearer", "bearerWithoutToken"}

(* A public route does not read the Authorization header.                  *)
Inputs ==
  [route : Guarded, header : Headers]
    \cup [route : Routes \ Guarded, header : {"none"}]

(* @HttpCode, or the default of the method.                                *)
HttpCode(route) == IF route = "create" THEN 201 ELSE IF route = "logs" THEN 204 ELSE 200

Kinds == {"none", "BaseError", "HttpException", "PrismaError", "Error"}
PrismaCodes == {"P1001", "P2000", "P2003", "P2007", "P2025"}
Error(kind, status, code) == [kind |-> kind, status |-> status, code |-> code]
Domain(status) == Error("BaseError", status, "none")
Http(status) == Error("HttpException", status, "none")
Prisma(code) == Error("PrismaError", 0, code)
Unknown == Error("Error", 0, "none")
NoError == Error("none", 0, "none")

(* What the pipes and the handler of a route throw.  No pipe checks the id *)
(* of a todo: the database refuses one that is not a UUID (P2007).         *)
HandlerErrors ==
  {Domain(404), Domain(422), Http(503), Unknown}
    \cup {Prisma(c) : c \in PrismaCodes}

Throws(route, e) ==
  \/ route \in Guarded /\ e \in {Unknown, Prisma("P1001")}
  \/ route \in {"todo", "remove"} /\ e \in {Domain(404), Prisma("P2007"), Prisma("P2025")}
  \/ route \in {"todo", "create", "logs"} /\ e = Domain(422)
  \/ route = "create" /\ e \in {Prisma("P2000"), Prisma("P2003")}
  \/ route = "health" /\ e = Http(503)

MapPrismaError(code) ==
  IF code \in {"P2000", "P2006", "P2007", "P2011"} THEN 400
  ELSE IF code \in {"P2002", "P2003"} THEN 409
  ELSE IF code = "P2025" THEN 404
  ELSE 0

(* Mutant: no InternalServerError for what carries no status.              *)
FilterStatusCarried(e) == e.status

(* The status of the error the filter makes of an exception.               *)
FilterStatus(e) ==
  IF e.kind \in {"BaseError", "HttpException"} THEN e.status
  ELSE IF e.kind = "PrismaError" /\ MapPrismaError(e.code) # 0 THEN MapPrismaError(e.code)
  ELSE 500

Statuses == {200, 201, 204, 400, 401, 404, 409, 422, 429, 500, 503}
Add(counter, status) == [counter EXCEPT ![status] = @ + 1]

-----------------------------------------------------------------------------
Init ==
  /\ stage = [r \in Reqs |-> "none"]
  /\ input = [r \in Reqs |-> [route |-> "version", header |-> "none"]]
  /\ thrown = [r \in Reqs |-> NoError]
  /\ statusCode = [r \in Reqs |-> 200]
  /\ inFlight = 0
  /\ requestsTotal = [s \in Statuses |-> 0]
  /\ errorsTotal = [s \in Statuses |-> 0]
  /\ dbUp \in BOOLEAN
  /\ metered = {}

Move(r, from, to) == stage[r] = from /\ stage' = [stage EXCEPT ![r] = to]
Raise(r, e) == thrown' = [thrown EXCEPT ![r] = e]

(* The middlewares of appSetup, in one turn.                               *)
Receive(r) ==
  /\ Move(r, "none", "body")
  /\ \E i \in Inputs : input' = [input EXCEPT ![r] = i]
  /\ UNCHANGED <<thrown, statusCode, metrics, dbUp, metered>>

(* The body parser, which Nest registers behind those middlewares, reads   *)
(* the body before the router looks at the url.  Nest makes a 400 of a     *)
(* body that is not JSON and passes on any other error, of one that is too *)
(* large for instance.                                                     *)
ParseBody(r) ==
  /\ \/ /\ input[r].route \notin NoRoute
        /\ Move(r, "body", "throttler")
        /\ UNCHANGED thrown
     \/ /\ input[r].route \in NoRoute
        /\ Move(r, "body", "failed")
        /\ Raise(r, Http(404))
     \/ /\ Move(r, "body", "failed")
        /\ \E e \in {Http(400), Unknown} : Raise(r, e)
  /\ UNCHANGED <<input, statusCode, metrics, dbUp, metered>>

(* The ThrottlerGuard of AppModule, for every route.                       *)
Throttle(r) ==
  /\ \/ Move(r, "throttler", "auth") /\ UNCHANGED thrown
     \/ Move(r, "throttler", "failed") /\ Raise(r, Http(429))
  /\ UNCHANGED <<input, statusCode, metrics, dbUp, metered>>

(* AuthGuard of a guarded route.  "Bearer" alone has no token to decode,   *)
(* and Buffer.from throws a TypeError.                                     *)
Refuse(r) ==
  /\ Move(r, "auth", "failed")
  /\ input[r].route \in Guarded
  /\ \/ input[r].header = "none" /\ Raise(r, Domain(401))
     \/ input[r].header = "bearerWithoutToken" /\ Raise(r, Unknown)
  /\ UNCHANGED <<input, statusCode, metrics, dbUp, metered>>

(* The guards pass, Nest sets the status, the interceptors are entered.    *)
Intercept(r) ==
  /\ Move(r, "auth", "handler")
  /\ input[r].route \in Guarded => input[r].header = "bearer"
  /\ statusCode' = [statusCode EXCEPT ![r] = HttpCode(input[r].route)]
  /\ inFlight' = inFlight + 1
  /\ metered' = metered \cup {r}
  /\ UNCHANGED <<input, thrown, requestsTotal, errorsTotal, dbUp>>

(* UnifiedResponseInterceptor: an empty body is answered 204.              *)
StatusOf(r) == IF input[r].route \in {"remove", "logs"} THEN 204 ELSE statusCode[r]

(* Mutant: the request recorded before its response is unified.            *)
ReturnMeteredFirst(r) ==
  /\ Move(r, "handler", "answered")
  /\ input[r].route = "health" => dbUp
  /\ statusCode' = [statusCode EXCEPT ![r] = StatusOf(r)]
  /\ requestsTotal' = Add(requestsTotal, statusCode[r])
  /\ inFlight' = inFlight - 1
  /\ UNCHANGED <<input, thrown, errorsTotal, dbUp, metered>>

(* The handler returns.  The value passes UnifiedResponseInterceptor before *)
(* finalize, nearest to the handler, runs on completion.                    *)
Return(r) ==
  /\ Move(r, "handler", "answered")
  /\ input[r].route = "health" => dbUp
  /\ statusCode' = [statusCode EXCEPT ![r] = StatusOf(r)]
  /\ requestsTotal' = Add(requestsTotal, statusCode'[r])
  /\ inFlight' = inFlight - 1
  /\ UNCHANGED <<input, thrown, errorsTotal, dbUp, metered>>

MetricStatus(e) == IF e.status # 0 THEN e.status ELSE 500

(* Mutant: a failed request is never taken off the gauge.                  *)
ThrowUncounted(r) ==
  /\ Move(r, "handler", "failed")
  /\ input[r].route = "health" => ~dbUp
  /\ \E e \in HandlerErrors : Throws(input[r].route, e) /\ Raise(r, e)
  /\ UNCHANGED <<input, statusCode, metrics, dbUp, metered>>

(* recordMetrics runs in catchError with the status of the error, and in   *)
(* finalize with the status Nest had set before the handler ran.           *)
Throw(r) ==
  /\ Move(r, "handler", "failed")
  /\ input[r].route = "health" => ~dbUp
  /\ \E e \in HandlerErrors :
       /\ Throws(input[r].route, e)
       /\ Raise(r, e)
       /\ requestsTotal' = Add(Add(requestsTotal, MetricStatus(e)), statusCode[r])
  /\ inFlight' = inFlight - 2
  /\ UNCHANGED <<input, statusCode, errorsTotal, dbUp, metered>>

(* The url of the request starts with the health endpoint.                 *)
SkipsFilter(r) == input[r].route \in UnderHealth /\ thrown[r].kind = "HttpException"

CatchHealth(r) ==
  /\ Move(r, "failed", "answered")
  /\ SkipsFilter(r)
  /\ statusCode' = [statusCode EXCEPT ![r] = 200]
  /\ UNCHANGED <<input, thrown, metrics, dbUp, metered>>

(* Mutant: the error counter of the status the error carries.              *)
CatchCountsCarried(r) ==
  /\ Move(r, "failed", "answered")
  /\ ~SkipsFilter(r)
  /\ statusCode' = [statusCode EXCEPT ![r] = FilterStatus(thrown[r])]
  /\ errorsTotal' = Add(errorsTotal, MetricStatus(thrown[r]))
  /\ UNCHANGED <<input, thrown, inFlight, requestsTotal, dbUp, metered>>

Catch(r) ==
  /\ Move(r, "failed", "answered")
  /\ ~SkipsFilter(r)
  /\ statusCode' = [statusCode EXCEPT ![r] = FilterStatus(thrown[r])]
  /\ errorsTotal' = Add(errorsTotal, FilterStatus(thrown[r]))
  /\ UNCHANGED <<input, thrown, inFlight, requestsTotal, dbUp, metered>>

DatabaseFlips ==
  /\ dbUp' = ~dbUp
  /\ UNCHANGED <<stage, input, thrown, statusCode, metrics, metered>>

Step(r) ==
  \/ ParseBody(r) \/ Throttle(r) \/ Refuse(r) \/ Intercept(r) \/ Return(r) \/ Throw(r)
  \/ CatchHealth(r) \/ Catch(r)

Next == DatabaseFlips \/ \E r \in Reqs : Receive(r) \/ Step(r)

Spec == Init /\ [][Next]_vars

-----------------------------------------------------------------------------
TypeOK ==
  /\ stage \in [Reqs -> {"none", "body", "throttler", "auth", "handler", "failed", "answered"}]
  /\ input \in [Reqs -> Inputs]
  /\ thrown \in [Reqs -> [kind : Kinds, status : Nat, code : PrismaCodes \cup {"none"}]]
  /\ statusCode \in [Reqs -> Statuses]
  /\ inFlight \in Int
  /\ requestsTotal \in [Statuses -> Nat]
  /\ errorsTotal \in [Statuses -> Nat]
  /\ dbUp \in BOOLEAN
  /\ metered \subseteq Reqs

Handling == {r \in Reqs : stage[r] = "handler"}
Answered(s) == {r \in Reqs : stage[r] = "answered" /\ statusCode[r] = s}
Returned(s) == {r \in metered : r \in Answered(s) /\ thrown[r] = NoError}

(* http_errors_total is the number of answers of each error status, for a  *)
(* refusal by a guard and a url without a route as for a failed handler.   *)
ErrorsMatchAnswers ==
  \A s \in Statuses : errorsTotal[s] = IF s >= 400 THEN Cardinality(Answered(s)) ELSE 0

(* Every request a handler answers is in http_requests_total under the     *)
(* status of its answer, the 204 of an empty body included.                *)
SuccessesMetered ==
  \A s \in Statuses : requestsTotal[s] >= Cardinality(Returned(s))

(* The gauge never shows more requests than handlers are running.          *)
GaugeNeverOvercounts == inFlight <= Cardinality(Handling)

(* Every request that is received is answered, whichever error it meets.   *)
EveryRequestAnswered == \A r \in Reqs : stage[r] # "none" ~> stage[r] = "answered"
=============================================================================
