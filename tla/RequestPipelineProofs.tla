----------------------- MODULE RequestPipelineProofs -----------------------
(***************************************************************************)
(* Theorems about RequestPipeline, for any set of requests.                *)
(***************************************************************************)
EXTENDS RequestPipeline, FiniteSetTheorems, TLAPS

ErrorType == [kind : Kinds, status : Nat, code : PrismaCodes \cup {"none"}]

(* What the filter is given: it answers an error status for it.            *)
Failure(e) ==
  /\ e \in ErrorType
  /\ e.kind # "none"
  /\ FilterStatus(e) \in Statuses /\ FilterStatus(e) >= 400
  /\ MetricStatus(e) \in Statuses

Shape ==
  \A r \in Reqs :
    /\ stage[r] # "answered" => statusCode[r] \in {200, 201, 204}
    /\ stage[r] = "failed" => Failure(thrown[r])

ShapeInv == TypeOK /\ Shape

LEMMA DomainFails ==
  ASSUME NEW s \in {401, 404, 422} PROVE Failure(Domain(s))
BY DEF Failure, Domain, Error, ErrorType, Kinds, FilterStatus, MetricStatus, Statuses

LEMMA HttpFails ==
  ASSUME NEW s \in {400, 404, 429, 503} PROVE Failure(Http(s))
BY DEF Failure, Http, Error, ErrorType, Kinds, FilterStatus, MetricStatus, Statuses

LEMMA PrismaFails ==
  ASSUME NEW c \in PrismaCodes PROVE Failure(Prisma(c))
<1>1. /\ Prisma(c) \in ErrorType
      /\ Prisma(c).kind = "PrismaError" /\ Prisma(c).status = 0 /\ Prisma(c).code = c
  BY DEF Prisma, Error, ErrorType, Kinds
<1>2. MapPrismaError(c) \in {0, 400, 404, 409}
  BY DEF MapPrismaError
<1>3. FilterStatus(Prisma(c)) \in {400, 404, 409, 500}
  BY <1>1, <1>2 DEF FilterStatus
<1>4. MetricStatus(Prisma(c)) = 500
  BY <1>1 DEF MetricStatus
<1> QED BY <1>1, <1>3, <1>4 DEF Failure, Statuses

LEMMA UnknownFails == Failure(Unknown)
BY DEF Failure, Unknown, Error, ErrorType, Kinds, FilterStatus, MetricStatus, Statuses

(* Whatever a handler throws, the filter has an answer for.                *)
LEMMA HandlerFails ==
  ASSUME NEW e \in HandlerErrors PROVE Failure(e)
<1>1. CASE e \in {Domain(404), Domain(422), Http(503), Unknown}
  BY <1>1, DomainFails, HttpFails, UnknownFails
<1>2. CASE e \in {Prisma(c) : c \in PrismaCodes}
  BY <1>2, PrismaFails
<1> QED BY <1>1, <1>2 DEF HandlerErrors

LEMMA StatusTypes ==
  ASSUME NEW route
  PROVE  HttpCode(route) \in {200, 201, 204}
BY DEF HttpCode

LEMMA AddTypes ==
  ASSUME NEW counter \in [Statuses -> Nat], NEW s \in Statuses
  PROVE  /\ Add(counter, s) \in [Statuses -> Nat]
         /\ Add(counter, s)[s] = counter[s] + 1
         /\ \A t \in Statuses : t # s => Add(counter, s)[t] = counter[t]
BY DEF Add

-----------------------------------------------------------------------------
LEMMA ShapeInit == Init => ShapeInv
<1> SUFFICES ASSUME Init PROVE ShapeInv
  OBVIOUS
<1>1. NoError \in ErrorType
  BY DEF NoError, Error, ErrorType, Kinds
<1>2. [route |-> "version", header |-> "none"] \in Inputs
  BY DEF Inputs, Routes, Headers
<1> QED BY <1>1, <1>2 DEF Init, ShapeInv, TypeOK, Shape, Statuses, ErrorType

(* A request that moves to "failed" or to "answered" as it should keeps    *)
(* the shape.                                                              *)
LEMMA ShapeStep ==
  ASSUME ShapeInv, [Next]_vars PROVE ShapeInv'
<1> USE DEF ShapeInv, TypeOK, Shape
<1> DEFINE Quiet == UNCHANGED <<statusCode, metrics, dbUp, metered>>
<1>1. ASSUME NEW r \in Reqs, Receive(r) PROVE ShapeInv'
  <2>1. PICK i \in Inputs : input' = [input EXCEPT ![r] = i]
    BY <1>1 DEF Receive
  <2> QED BY <1>1, <2>1 DEF Receive, Move, metrics
<1>0. ASSUME NEW r \in Reqs, ParseBody(r) PROVE ShapeInv'
  <2>1. Quiet /\ UNCHANGED input
    BY <1>0 DEF ParseBody
  <2>2. CASE Move(r, "body", "throttler") /\ UNCHANGED thrown
    BY <2>1, <2>2 DEF Move, metrics
  <2>3. ASSUME NEW e, Failure(e), Move(r, "body", "failed"), Raise(r, e) PROVE ShapeInv'
    BY <2>1, <2>3 DEF Move, Raise, metrics, Failure, ErrorType
  <2>4. Failure(Http(404)) /\ Failure(Http(400)) /\ Failure(Unknown)
    BY HttpFails, UnknownFails
  <2>5. ASSUME Move(r, "body", "failed"), \E e \in {Http(400), Unknown} : Raise(r, e) PROVE ShapeInv'
    <3>1. PICK e \in {Http(400), Unknown} : Raise(r, e)
      BY <2>5
    <3> QED BY <2>3, <2>4, <2>5, <3>1
  <2> HIDE DEF ShapeInv
  <2> QED BY <1>0, <2>2, <2>3, <2>4, <2>5 DEF ParseBody
<1>2. ASSUME NEW r \in Reqs, Throttle(r) PROVE ShapeInv'
  <2>1. Failure(Http(429))
    BY HttpFails
  <2>2. CASE Move(r, "throttler", "auth") /\ UNCHANGED thrown
    BY <1>2, <2>2 DEF Throttle, Move, metrics
  <2>3. CASE Move(r, "throttler", "failed") /\ Raise(r, Http(429))
    BY <1>2, <2>1, <2>3 DEF Throttle, Move, Raise, metrics, Failure, ErrorType
  <2> QED BY <1>2, <2>2, <2>3 DEF Throttle
<1>3. ASSUME NEW r \in Reqs, Refuse(r) PROVE ShapeInv'
  <2>1. Failure(Domain(401)) /\ Failure(Unknown)
    BY DomainFails, UnknownFails
  <2> QED BY <1>3, <2>1 DEF Refuse, Move, Raise, metrics, Failure, ErrorType
<1>4. ASSUME NEW r \in Reqs, Intercept(r) PROVE ShapeInv'
  <2>1. HttpCode(input[r].route) \in {200, 201, 204}
    BY StatusTypes
  <2>2. {200, 201, 204} \subseteq Statuses
    BY DEF Statuses
  <2> QED BY <1>4, <2>1, <2>2 DEF Intercept, Move
<1>5. ASSUME NEW r \in Reqs, Return(r) PROVE ShapeInv'
  <2>1. StatusOf(r) \in {200, 201, 204} /\ {200, 201, 204} \subseteq Statuses
    BY <1>5 DEF Return, Move, StatusOf, Statuses
  <2>2. statusCode' = [statusCode EXCEPT ![r] = StatusOf(r)] /\ statusCode'[r] \in Statuses
    BY <1>5, <2>1 DEF Return
  <2>3. requestsTotal' \in [Statuses -> Nat]
    BY <1>5, <2>2, AddTypes DEF Return
  <2> QED BY <1>5, <2>1, <2>2, <2>3 DEF Return, Move
<1>6. ASSUME NEW r \in Reqs, Throw(r) PROVE ShapeInv'
  <2>1. PICK e \in HandlerErrors :
          Raise(r, e) /\ requestsTotal' = Add(Add(requestsTotal, MetricStatus(e)), statusCode[r])
    BY <1>6 DEF Throw
  <2>2. Failure(e)
    BY <2>1, HandlerFails
  <2>3. Add(requestsTotal, MetricStatus(e)) \in [Statuses -> Nat]
    BY <2>2, AddTypes DEF Failure
  <2>4. requestsTotal' \in [Statuses -> Nat]
    <3> DEFINE once == Add(requestsTotal, MetricStatus(e))
    <3>1. once \in [Statuses -> Nat] /\ statusCode[r] \in Statuses
      BY <2>3
    <3>2. requestsTotal' = Add(once, statusCode[r])
      BY <2>1
    <3> HIDE DEF once
    <3> QED BY <3>1, <3>2, AddTypes
  <2> QED BY <1>6, <2>1, <2>2, <2>4 DEF Throw, Move, Raise, Failure, ErrorType
<1>7. ASSUME NEW r \in Reqs, CatchHealth(r) PROVE ShapeInv'
  BY <1>7 DEF CatchHealth, Move, metrics, Statuses
<1>8. ASSUME NEW r \in Reqs, Catch(r) PROVE ShapeInv'
  <2>1. FilterStatus(thrown[r]) \in Statuses
    BY <1>8 DEF Catch, Move, Failure
  <2>2. errorsTotal' \in [Statuses -> Nat]
    BY <1>8, <2>1, AddTypes DEF Catch
  <2> QED BY <1>8, <2>1, <2>2 DEF Catch, Move
<1>9. CASE DatabaseFlips
  BY <1>9 DEF DatabaseFlips, metrics
<1>10. CASE UNCHANGED vars
  BY <1>10 DEF vars, metrics
<1> QED BY <1>1, <1>2, <1>3, <1>4, <1>5, <1>6, <1>7, <1>8, <1>9, <1>10, <1>0 DEF Next, Step

(* Every variable keeps its type: no request is answered, and nothing is   *)
(* counted, under a status outside the eleven the API documents.           *)
THEOREM TypeCorrect == Spec => []TypeOK
<1>1. ShapeInv => TypeOK
  BY DEF ShapeInv
<1> QED BY <1>1, ShapeInit, ShapeStep, PTL DEF Spec

-----------------------------------------------------------------------------
(* Steps before the handler leave the metrics and the answers alone.       *)
LEMMA BeforeHandler ==
  ASSUME TypeOK, NEW r \in Reqs, Receive(r) \/ ParseBody(r) \/ Throttle(r) \/ Refuse(r)
  PROVE  /\ stage[r] \in {"none", "body", "throttler", "auth"}
         /\ \E to \in {"body", "throttler", "auth", "failed"} : stage' = [stage EXCEPT ![r] = to]
         /\ \A q \in Reqs : q # r => thrown'[q] = thrown[q]
         /\ UNCHANGED <<statusCode, metrics, metered>>
<1>1. CASE Receive(r)
  BY <1>1 DEF Receive, Move, Raise, TypeOK
<1>2. CASE Throttle(r)
  BY <1>2 DEF Throttle, Move, Raise, TypeOK
<1>3. CASE Refuse(r)
  BY <1>3 DEF Refuse, Move, Raise, TypeOK
<1>4. CASE ParseBody(r)
  BY <1>4 DEF ParseBody, Move, Raise, TypeOK
<1> QED BY <1>1, <1>2, <1>3, <1>4

(* A request is answered once, and belongs to one status.                  *)
LEMMA AnswerAdds ==
  ASSUME TypeOK, NEW r \in Reqs, Move(r, "handler", "answered") \/ Move(r, "failed", "answered"),
         NEW t \in Statuses, statusCode' = [statusCode EXCEPT ![r] = t]
  PROVE  /\ r \notin Answered(t)
         /\ Answered(t)' = Answered(t) \cup {r}
         /\ \A s \in Statuses : s # t => Answered(s)' = Answered(s)
BY DEF TypeOK, Move, Answered

LEMMA AnswersStay ==
  ASSUME TypeOK, NEW r \in Reqs, stage[r] # "answered",
         NEW to \in {"body", "throttler", "auth", "handler", "failed"},
         stage' = [stage EXCEPT ![r] = to],
         \A q \in Reqs : q # r => statusCode'[q] = statusCode[q],
         NEW s \in Statuses
  PROVE  Answered(s)' = Answered(s)
BY DEF TypeOK, Answered

-----------------------------------------------------------------------------
(* The error counter.                                                      *)
ErrorCount ==
  \A s \in Statuses :
    /\ IsFiniteSet(Answered(s))
    /\ errorsTotal[s] = IF s >= 400 THEN Cardinality(Answered(s)) ELSE 0

LEMMA ErrorCountStep ==
  ASSUME ShapeInv, ErrorCount, [Next]_vars PROVE ErrorCount'
<1> USE DEF ErrorCount
<1>0. TypeOK /\ Shape
  BY DEF ShapeInv
<1>1. ASSUME NEW r \in Reqs, Receive(r) \/ ParseBody(r) \/ Throttle(r) \/ Refuse(r)
      PROVE  ErrorCount'
  <2>1. \A s \in Statuses : Answered(s)' = Answered(s)
    BY <1>0, <1>1, BeforeHandler, AnswersStay DEF TypeOK
  <2>2. errorsTotal' = errorsTotal
    BY <1>0, <1>1, BeforeHandler DEF metrics
  <2> QED BY <2>1, <2>2
<1>2. ASSUME NEW r \in Reqs, Intercept(r) \/ Throw(r) PROVE ErrorCount'
  <2>1. /\ stage[r] # "answered" /\ errorsTotal' = errorsTotal
        /\ \E to \in {"handler", "failed"} : stage' = [stage EXCEPT ![r] = to]
        /\ \A q \in Reqs : q # r => statusCode'[q] = statusCode[q]
    BY <1>0, <1>2 DEF Intercept, Throw, Move, TypeOK
  <2>2. \A s \in Statuses : Answered(s)' = Answered(s)
    BY <1>0, <2>1, AnswersStay
  <2> QED BY <2>1, <2>2
<1>3. ASSUME NEW r \in Reqs,
             Move(r, "handler", "answered") \/ Move(r, "failed", "answered"),
             \E t \in {200, 201, 204} : statusCode' = [statusCode EXCEPT ![r] = t],
             errorsTotal' = errorsTotal
      PROVE  ErrorCount'
  <2>0. PICK t \in {200, 201, 204} : statusCode' = [statusCode EXCEPT ![r] = t]
    BY <1>3
  <2>1. t \in Statuses /\ ~(t >= 400)
    BY <2>0 DEF Statuses
  <2>2. /\ Answered(t)' = Answered(t) \cup {r}
        /\ \A s \in Statuses : s # t => Answered(s)' = Answered(s)
    BY <1>0, <1>3, <2>0, <2>1, AnswerAdds
  <2>3. IsFiniteSet(Answered(t)')
    BY <2>1, <2>2, FS_AddElement
  <2> QED BY <1>3, <2>1, <2>2, <2>3
<1>4. ASSUME NEW r \in Reqs, Return(r) PROVE ErrorCount'
  <2>1. StatusOf(r) \in {200, 201, 204}
    BY <1>0, <1>4 DEF Return, Move, StatusOf, Shape
  <2>2. /\ Move(r, "handler", "answered")
        /\ \E t \in {200, 201, 204} : statusCode' = [statusCode EXCEPT ![r] = t]
        /\ errorsTotal' = errorsTotal
    BY <1>4, <2>1 DEF Return
  <2> HIDE DEF ErrorCount
  <2> QED BY <1>3, <2>2
<1>5. ASSUME NEW r \in Reqs, CatchHealth(r) PROVE ErrorCount'
  <2>1. /\ Move(r, "failed", "answered")
        /\ statusCode' = [statusCode EXCEPT ![r] = 200]
        /\ errorsTotal' = errorsTotal
    BY <1>5 DEF CatchHealth, metrics
  <2> QED BY <1>3, <2>1
<1>6. ASSUME NEW r \in Reqs, Catch(r) PROVE ErrorCount'
  <2>1. PICK t \in Statuses : t = FilterStatus(thrown[r]) /\ t >= 400
    BY <1>0, <1>6 DEF Catch, Move, Shape, Failure
  <2>2. errorsTotal' = Add(errorsTotal, t) /\ statusCode' = [statusCode EXCEPT ![r] = t]
        /\ Move(r, "failed", "answered")
    BY <1>6, <2>1 DEF Catch
  <2>3. /\ r \notin Answered(t)
        /\ Answered(t)' = Answered(t) \cup {r}
        /\ \A s \in Statuses : s # t => Answered(s)' = Answered(s)
    BY <1>0, <2>1, <2>2, AnswerAdds
  <2>4. IsFiniteSet(Answered(t)') /\ Cardinality(Answered(t)') = Cardinality(Answered(t)) + 1
    BY <2>1, <2>3, FS_AddElement
  <2>5. errorsTotal'[t] = errorsTotal[t] + 1
        /\ \A s \in Statuses : s # t => errorsTotal'[s] = errorsTotal[s]
    BY <1>0, <2>1, <2>2, AddTypes DEF TypeOK
  <2> QED BY <2>1, <2>3, <2>4, <2>5
<1>7. ASSUME UNCHANGED <<stage, statusCode, errorsTotal>> PROVE ErrorCount'
  BY <1>7 DEF Answered
<1>8. CASE DatabaseFlips \/ UNCHANGED vars
  BY <1>7, <1>8 DEF DatabaseFlips, vars, metrics
<1> QED BY <1>1, <1>2, <1>4, <1>5, <1>6, <1>8 DEF Next, Step

(* http_errors_total counts every error answer once, under its status,     *)
(* for any requests and any interleaving: guards, handlers, the filter and *)
(* its early return for the health endpoint included.                      *)
THEOREM ErrorsMatchAnswersHolds == Spec => []ErrorsMatchAnswers
<1>1. Init => ErrorCount
  <2> SUFFICES ASSUME Init PROVE ErrorCount
    OBVIOUS
  <2>1. \A s \in Statuses : Answered(s) = {} /\ errorsTotal[s] = 0
    BY DEF Init, Answered
  <2> QED BY <2>1, FS_EmptySet DEF ErrorCount
<1>2. ShapeInv /\ ErrorCount /\ [Next]_vars => ErrorCount'
  BY ErrorCountStep
<1>3. ErrorCount => ErrorsMatchAnswers
  BY DEF ErrorCount, ErrorsMatchAnswers
<1> QED BY <1>1, <1>2, <1>3, ShapeInit, ShapeStep, PTL DEF Spec

-----------------------------------------------------------------------------
(* The gauge and the counter of requests.                                  *)
GaugeBound ==
  /\ IsFiniteSet(Handling)
  /\ inFlight <= Cardinality(Handling)

LEMMA GaugeBoundStep ==
  ASSUME ShapeInv, GaugeBound, [Next]_vars PROVE GaugeBound'
<1> USE DEF GaugeBound
<1>0. TypeOK /\ inFlight \in Int /\ Cardinality(Handling) \in Nat
  BY FS_CardinalityType DEF ShapeInv, TypeOK
<1>1. ASSUME NEW r \in Reqs, Receive(r) \/ ParseBody(r) \/ Throttle(r) \/ Refuse(r)
      PROVE  GaugeBound'
  <2>1. Handling' = Handling
    BY <1>0, <1>1, BeforeHandler DEF Handling, TypeOK
  <2>2. inFlight' = inFlight
    BY <1>0, <1>1, BeforeHandler DEF metrics
  <2> QED BY <2>1, <2>2
<1>2. ASSUME NEW r \in Reqs, Intercept(r) PROVE GaugeBound'
  <2>1. Handling' = Handling \cup {r} /\ r \notin Handling /\ inFlight' = inFlight + 1
    BY <1>0, <1>2 DEF Intercept, Move, Handling, TypeOK
  <2>2. IsFiniteSet(Handling') /\ Cardinality(Handling') = Cardinality(Handling) + 1
    BY <2>1, FS_AddElement
  <2> QED BY <1>0, <2>1, <2>2
<1>3. ASSUME NEW r \in Reqs, Return(r) \/ Throw(r) PROVE GaugeBound'
  <2>1. Handling' = Handling \ {r} /\ r \in Handling
    BY <1>0, <1>3 DEF Return, Throw, Move, Handling, TypeOK
  <2>2. inFlight' = inFlight - 1 \/ inFlight' = inFlight - 2
    BY <1>3 DEF Return, Throw
  <2>3. IsFiniteSet(Handling') /\ Cardinality(Handling') = Cardinality(Handling) - 1
    BY <2>1, FS_RemoveElement
  <2> QED BY <1>0, <2>2, <2>3
<1>4. ASSUME NEW r \in Reqs, CatchHealth(r) \/ Catch(r) PROVE GaugeBound'
  <2>1. Handling' = Handling /\ inFlight' = inFlight
    BY <1>0, <1>4 DEF CatchHealth, Catch, Move, Handling, TypeOK, metrics
  <2> QED BY <2>1
<1>5. CASE DatabaseFlips \/ UNCHANGED vars
  BY <1>5 DEF DatabaseFlips, vars, metrics, Handling
<1> QED BY <1>1, <1>2, <1>3, <1>4, <1>5 DEF Next, Step

(* The gauge of requests in flight shows no request that no handler runs,  *)
(* whichever requests fail.                                                *)
THEOREM GaugeNeverOvercountsHolds == Spec => []GaugeNeverOvercounts
<1>1. Init => GaugeBound
  <2> SUFFICES ASSUME Init PROVE GaugeBound
    OBVIOUS
  <2>1. Handling = {} /\ inFlight = 0
    BY DEF Init, Handling
  <2> QED BY <2>1, FS_EmptySet DEF GaugeBound
<1>2. ShapeInv /\ GaugeBound /\ [Next]_vars => GaugeBound'
  BY GaugeBoundStep
<1>3. GaugeBound => GaugeNeverOvercounts
  BY DEF GaugeBound, GaugeNeverOvercounts
<1> QED BY <1>1, <1>2, <1>3, ShapeInit, ShapeStep, PTL DEF Spec

-----------------------------------------------------------------------------
(* Every request that was answered well is counted.                        *)
MeteredCount ==
  \A s \in Statuses :
    /\ IsFiniteSet(Returned(s))
    /\ requestsTotal[s] >= Cardinality(Returned(s))

(* One request moves, and is not among the returned before or after.       *)
LEMMA ReturnedStay ==
  ASSUME TypeOK, NEW r \in Reqs, NEW s \in Statuses,
         \A q \in Reqs \ {r} :
           /\ stage'[q] = stage[q] /\ statusCode'[q] = statusCode[q]
           /\ thrown'[q] = thrown[q]
           /\ q \in metered' <=> q \in metered,
         metered' \subseteq Reqs,
         stage[r] # "answered",
         stage'[r] # "answered" \/ thrown'[r] # NoError
  PROVE  Returned(s)' = Returned(s)
BY DEF TypeOK, Returned, Answered

(* A counter never falls.                                                  *)
LEMMA AddGrows ==
  ASSUME NEW counter \in [Statuses -> Nat], NEW s \in Statuses, NEW t \in Statuses
  PROVE  Add(counter, s)[t] >= counter[t]
<1>1. counter[t] \in Nat
  OBVIOUS
<1>2. CASE s = t
  BY <1>1, <1>2, AddTypes
<1>3. CASE s # t
  BY <1>1, <1>3, AddTypes
<1> QED BY <1>2, <1>3

LEMMA MeteredCountStep ==
  ASSUME ShapeInv, MeteredCount, [Next]_vars PROVE MeteredCount'
<1>0. TypeOK /\ Shape
  BY DEF ShapeInv
<1>1. ASSUME \A s \in Statuses :
               Returned(s)' = Returned(s) /\ requestsTotal'[s] >= requestsTotal[s],
             requestsTotal' \in [Statuses -> Nat]
      PROVE  MeteredCount'
  <2> SUFFICES ASSUME NEW s \in Statuses
               PROVE  IsFiniteSet(Returned(s)') /\ requestsTotal'[s] >= Cardinality(Returned(s)')
    BY DEF MeteredCount
  <2>1. IsFiniteSet(Returned(s)) /\ requestsTotal[s] >= Cardinality(Returned(s))
    BY DEF MeteredCount
  <2>2. Returned(s)' = Returned(s) /\ requestsTotal'[s] >= requestsTotal[s]
    BY <1>1
  <2>3. Cardinality(Returned(s)) \in Nat
    BY <2>1, FS_CardinalityType
  <2>4. requestsTotal[s] \in Nat /\ requestsTotal'[s] \in Nat
    BY <1>0, <1>1 DEF TypeOK
  <2> QED BY <2>1, <2>2, <2>3, <2>4
<1>2. TypeOK'
  BY ShapeStep DEF ShapeInv
<1>3. ASSUME NEW r \in Reqs, Receive(r) \/ ParseBody(r) \/ Throttle(r) \/ Refuse(r)
      PROVE  MeteredCount'
  <2>1. PICK to \in {"body", "throttler", "auth", "failed"} : stage' = [stage EXCEPT ![r] = to]
    BY <1>0, <1>3, BeforeHandler
  <2>2. stage[r] # "answered" /\ \A q \in Reqs : q # r => thrown'[q] = thrown[q]
    BY <1>0, <1>3, BeforeHandler
  <2>3. UNCHANGED <<statusCode, metered, requestsTotal>>
    BY <1>0, <1>3, BeforeHandler DEF metrics
  <2>4. stage'[r] # "answered" /\ \A q \in Reqs \ {r} : stage'[q] = stage[q]
    BY <1>0, <2>1 DEF TypeOK
  <2>5. metered' \subseteq Reqs
    BY <1>0, <2>3 DEF TypeOK
  <2>6. \A s \in Statuses : Returned(s)' = Returned(s)
    BY <1>0, <2>2, <2>3, <2>4, <2>5, ReturnedStay
  <2> QED BY <1>0, <1>1, <1>2, <2>3, <2>6 DEF TypeOK
<1>4. ASSUME NEW r \in Reqs, Intercept(r) PROVE MeteredCount'
  <2>1. /\ stage[r] # "answered" /\ stage'[r] # "answered"
        /\ \A q \in Reqs \ {r} :
             /\ stage'[q] = stage[q] /\ statusCode'[q] = statusCode[q]
             /\ thrown'[q] = thrown[q]
             /\ q \in metered' <=> q \in metered
        /\ requestsTotal' = requestsTotal
    BY <1>0, <1>4 DEF Intercept, Move, TypeOK
  <2>2. metered' \subseteq Reqs
    BY <1>2 DEF TypeOK
  <2>3. \A s \in Statuses : Returned(s)' = Returned(s)
    BY <1>0, <2>1, <2>2, ReturnedStay
  <2> QED BY <1>0, <1>1, <2>1, <2>3 DEF TypeOK
<1>5. ASSUME NEW r \in Reqs, Throw(r) PROVE MeteredCount'
  <2>1. PICK e \in HandlerErrors :
          Raise(r, e) /\ requestsTotal' = Add(Add(requestsTotal, MetricStatus(e)), statusCode[r])
    BY <1>5 DEF Throw
  <2>2. MetricStatus(e) \in Statuses /\ statusCode[r] \in Statuses
    BY <1>0, <2>1, HandlerFails DEF Failure, TypeOK
  <2>3. PICK once \in [Statuses -> Nat] : once = Add(requestsTotal, MetricStatus(e))
    BY <1>0, <2>2, AddTypes DEF TypeOK
  <2>4. \A s \in Statuses : once[s] >= requestsTotal[s]
    BY <1>0, <2>2, <2>3, AddGrows DEF TypeOK
  <2>5. \A s \in Statuses : requestsTotal'[s] >= once[s]
    BY <2>1, <2>2, <2>3, AddGrows
  <2>6. \A s \in Statuses : requestsTotal'[s] >= requestsTotal[s]
    BY <1>0, <1>2, <2>3, <2>4, <2>5 DEF TypeOK
  <2>7. /\ stage[r] # "answered" /\ stage'[r] # "answered"
        /\ \A q \in Reqs \ {r} :
             /\ stage'[q] = stage[q] /\ statusCode'[q] = statusCode[q]
             /\ thrown'[q] = thrown[q]
             /\ q \in metered' <=> q \in metered
    BY <1>0, <1>5, <2>1 DEF Throw, Move, Raise, TypeOK
  <2>8. metered' \subseteq Reqs
    BY <1>2 DEF TypeOK
  <2>9. \A s \in Statuses : Returned(s)' = Returned(s)
    BY <1>0, <2>7, <2>8, ReturnedStay
  <2> QED BY <1>1, <1>2, <2>6, <2>9 DEF TypeOK
<1>6. ASSUME NEW r \in Reqs, CatchHealth(r) \/ Catch(r) PROVE MeteredCount'
  <2>1. stage[r] = "failed" /\ UNCHANGED <<thrown, metered, requestsTotal>>
    BY <1>6 DEF CatchHealth, Catch, Move, metrics
  <2>2. thrown'[r] # NoError
    BY <1>0, <2>1 DEF Shape, Failure, NoError, Error
  <2>3. \A q \in Reqs \ {r} : stage'[q] = stage[q] /\ statusCode'[q] = statusCode[q]
    BY <1>0, <1>6 DEF CatchHealth, Catch, Move, TypeOK
  <2>4. metered' \subseteq Reqs
    BY <1>2 DEF TypeOK
  <2>5. \A s \in Statuses : Returned(s)' = Returned(s)
    BY <1>0, <2>1, <2>2, <2>3, <2>4, ReturnedStay
  <2> QED BY <1>0, <1>1, <2>1, <2>5 DEF TypeOK
<1>7. ASSUME NEW r \in Reqs, Return(r) PROVE MeteredCount'
  <2>0. StatusOf(r) \in Statuses
    BY <1>0 DEF StatusOf, Statuses, TypeOK
  <2>1. PICK t \in Statuses : t = StatusOf(r) /\ statusCode' = [statusCode EXCEPT ![r] = t]
    BY <1>7, <2>0 DEF Return
  <2>2. statusCode'[r] = t
    BY <1>0, <2>1 DEF TypeOK
  <2>3. requestsTotal' = Add(requestsTotal, t)
    BY <1>7, <2>2 DEF Return
  <2>4. /\ requestsTotal'[t] = requestsTotal[t] + 1
        /\ \A s \in Statuses : s # t => requestsTotal'[s] = requestsTotal[s]
    BY <1>0, <2>3, AddTypes DEF TypeOK
  <2>5. Move(r, "handler", "answered") /\ UNCHANGED <<thrown, metered>>
    BY <1>7 DEF Return
  <2>6. \A s \in Statuses : s # t => Answered(s)' = Answered(s)
    BY <1>0, <2>1, <2>5, AnswerAdds
  <2>7. Answered(t)' = Answered(t) \cup {r}
    BY <1>0, <2>1, <2>5, AnswerAdds
  <2>8. \A s \in Statuses : s # t => Returned(s)' = Returned(s)
    BY <2>5, <2>6 DEF Returned
  <2>9. Returned(t)' = Returned(t) \/ Returned(t)' = Returned(t) \cup {r}
    BY <2>5, <2>7 DEF Returned
  <2> SUFFICES ASSUME NEW s \in Statuses
               PROVE  IsFiniteSet(Returned(s)') /\ requestsTotal'[s] >= Cardinality(Returned(s)')
    BY DEF MeteredCount
  <2>10. IsFiniteSet(Returned(s)) /\ requestsTotal[s] >= Cardinality(Returned(s))
    BY DEF MeteredCount
  <2>11. Cardinality(Returned(s)) \in Nat /\ requestsTotal[s] \in Nat
    BY <1>0, <2>10, FS_CardinalityType DEF TypeOK
  <2>12. CASE s # t
    BY <2>4, <2>8, <2>10, <2>12
  <2>13. CASE s = t /\ Returned(t)' = Returned(t)
    BY <2>4, <2>10, <2>11, <2>13
  <2>14. CASE s = t /\ Returned(t)' = Returned(t) \cup {r}
    <3>1. /\ IsFiniteSet(Returned(s) \cup {r})
          /\ \/ Cardinality(Returned(s) \cup {r}) = Cardinality(Returned(s))
             \/ Cardinality(Returned(s) \cup {r}) = Cardinality(Returned(s)) + 1
      BY <2>10, FS_AddElement
    <3> QED BY <2>4, <2>10, <2>11, <2>14, <3>1
  <2> QED BY <2>9, <2>12, <2>13, <2>14
<1>8. CASE DatabaseFlips \/ UNCHANGED vars
  <2>1. UNCHANGED <<stage, thrown, statusCode, metered, requestsTotal>>
    BY <1>8 DEF DatabaseFlips, vars, metrics
  <2>2. \A s \in Statuses : Returned(s)' = Returned(s)
    BY <2>1 DEF Returned, Answered
  <2> QED BY <1>0, <1>1, <2>1, <2>2 DEF TypeOK
<1> QED BY <1>3, <1>4, <1>5, <1>6, <1>7, <1>8 DEF Next, Step

(* Every request that a handler answered well is in http_requests_total    *)
(* under the status its client got: the 204 of UnifiedResponseInterceptor  *)
(* is set before finalize reads the status, for any interleaving.          *)
THEOREM SuccessesMeteredHolds == Spec => []SuccessesMetered
<1>1. Init => MeteredCount
  <2> SUFFICES ASSUME Init PROVE MeteredCount
    OBVIOUS
  <2>1. \A s \in Statuses : Returned(s) = {} /\ requestsTotal[s] = 0
    BY DEF Init, Returned
  <2> QED BY <2>1, FS_EmptySet DEF MeteredCount
<1>2. ShapeInv /\ MeteredCount /\ [Next]_vars => MeteredCount'
  BY MeteredCountStep
<1>3. MeteredCount => SuccessesMetered
  BY DEF MeteredCount, SuccessesMetered
<1> QED BY <1>1, <1>2, <1>3, ShapeInit, ShapeStep, PTL DEF Spec
=============================================================================
