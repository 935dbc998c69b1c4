------------------------ MODULE ObservabilityProofs ------------------------
(***************************************************************************)
(* Theorems about Observability, for any requests, any ids clients send    *)
(* and any configuration.                                                  *)
(***************************************************************************)
EXTENDS Observability, RequestPipelineProofs, SequenceTheorems

LineType == [level : {"info", "warn", "error"}, traceId : Ids]

-----------------------------------------------------------------------------
(* Every step is a step of RequestPipeline, or none.                       *)
LEMMA StepImplements ==
  ASSUME [ObservedNext]_allVars PROVE [Next]_vars
<1>1. ASSUME NEW r \in Reqs, ReceiveTraced(r) \/ ObservedStep(r) PROVE Next
  BY <1>1 DEF ReceiveTraced, ObservedStep, BeforeHandling, ReturnTraced, ThrowReported,
              CatchHealthUnreported, CatchReported, Next, Step
<1>2. CASE DatabaseFlipsUnseen
  BY <1>2 DEF DatabaseFlipsUnseen, Next
<1>3. CASE UNCHANGED allVars
  BY <1>3 DEF allVars
<1> QED BY <1>1, <1>2, <1>3 DEF ObservedNext

(* Logging and reporting change nothing a request does: Observability      *)
(* implements RequestPipeline, and what holds of the pipeline holds here.  *)
THEOREM ImplementsPipeline == ObservedSpec => Spec
<1>1. ObservedInit => Init
  BY DEF ObservedInit
<1> QED BY <1>1, StepImplements, PTL DEF ObservedSpec, Spec

(* The counters of the pipeline, for the composed specification.           *)
THEOREM ObservedCountersHold ==
  ObservedSpec => [](ErrorsMatchAnswers /\ SuccessesMetered /\ GaugeNeverOvercounts)
BY ImplementsPipeline, ErrorsMatchAnswersHolds, SuccessesMeteredHolds,
   GaugeNeverOvercountsHolds, PTL

-----------------------------------------------------------------------------
(* What a request leaves behind is typed.                                  *)
Traces ==
  /\ sentryEnabled \in BOOLEAN
  /\ traceId \in [Reqs -> Ids]
  /\ store \in [Reqs -> Ids]
  /\ tag \in [Reqs -> Ids]
  /\ named \subseteq Reqs
  /\ lines \in [Reqs -> Seq(LineType)]
  /\ captured \subseteq Reqs
  /\ reports \in [Reqs -> Seq(ReportType)]

LEMMA WritesTypes ==
  ASSUME Traces, NEW r \in Reqs, NEW level \in {"info", "warn", "error"}, Writes(r, level)
  PROVE  lines' \in [Reqs -> Seq(LineType)]
<1>1. Line(level, store[r]) \in LineType
  BY DEF Line, LineType, Traces
<1>2. Append(lines[r], Line(level, store[r])) \in Seq(LineType)
  BY <1>1 DEF Traces
<1> QED BY <1>2 DEF Writes, GetTraceId, Traces

LEMMA WarnsTypes ==
  ASSUME Traces, NEW r \in Reqs, Warns(r) PROVE lines' \in [Reqs -> Seq(LineType)]
BY WritesTypes DEF Warns, Traces

LEMMA CaptureTypes ==
  ASSUME Traces, NEW r \in Reqs, NEW e, NEW by \in {"interceptor", "filter"},
         NEW extra \in Ids, CaptureException(r, e, by, extra)
  PROVE  captured' \subseteq Reqs /\ reports' \in [Reqs -> Seq(ReportType)]
<1>1. Report(r, by, extra) \in ReportType
  BY DEF Report, ReportType, Traces
<1>2. Append(reports[r], Report(r, by, extra)) \in Seq(ReportType)
  BY <1>1 DEF Traces
<1>3. CASE UNCHANGED <<captured, reports>>
  BY <1>3 DEF Traces
<1>4. CASE captured' = captured \cup {r} /\ Send(r, e, by, extra)
  <2>1. CASE UNCHANGED reports
    BY <1>4, <2>1 DEF Traces
  <2>2. CASE reports' = [reports EXCEPT ![r] = Append(@, Report(r, by, extra))]
    BY <1>2, <1>4, <2>2 DEF Traces
  <2> QED BY <1>4, <2>1, <2>2 DEF Send
<1> QED BY <1>3, <1>4 DEF CaptureException

LEMMA TracesStep ==
  ASSUME Traces, [ObservedNext]_allVars PROVE Traces'
<1>1. ASSUME NEW r \in Reqs, ReceiveTraced(r) PROVE Traces'
  <2>1. PICK id \in {RandomUUID(r)} \cup ClientIds :
          traceId' = [traceId EXCEPT ![r] = id] /\ Run(r, id)
    BY <1>1 DEF ReceiveTraced
  <2>2. id \in Ids
    BY DEF RandomUUID, Ids
  <2>3. traceId' \in [Reqs -> Ids] /\ store' \in [Reqs -> Ids]
    BY <2>1, <2>2 DEF Traces, Run
  <2>4. tag' \in [Reqs -> Ids]
    BY <1>1, <2>3 DEF ReceiveTraced, Traces
  <2>5. Line("info", store'[r]) \in LineType
    BY <2>3 DEF Line, LineType
  <2>6. Append(lines[r], Line("info", store'[r])) \in Seq(LineType)
    BY <2>5 DEF Traces
  <2>7. lines' \in [Reqs -> Seq(LineType)]
    BY <1>1, <2>6 DEF ReceiveTraced, Traces
  <2> QED BY <1>1, <2>3, <2>4, <2>7 DEF ReceiveTraced, Traces, sentry
<1>2. ASSUME NEW r \in Reqs, BeforeHandling(r) \/ CatchHealthUnreported(r) PROVE Traces'
  BY <1>2 DEF BeforeHandling, CatchHealthUnreported, Traces, context, sentry
<1>3. ASSUME NEW r \in Reqs, ReturnTraced(r) PROVE Traces'
  BY <1>3, WarnsTypes DEF ReturnTraced, Traces, context, sentry
<1>4. ASSUME NEW r \in Reqs, ThrowReported(r) PROVE Traces'
  <2>1. store[r] \in Ids /\ GetTraceId(r) = store[r]
    BY DEF Traces, GetTraceId
  <2>2. captured' \subseteq Reqs /\ reports' \in [Reqs -> Seq(ReportType)]
    BY <1>4, <2>1, CaptureTypes DEF ThrowReported
  <2> QED BY <1>4, <2>2, WarnsTypes DEF ThrowReported, Traces, context
<1>5. ASSUME NEW r \in Reqs, CatchReported(r) PROVE Traces'
  <2>1. captured' \subseteq Reqs /\ reports' \in [Reqs -> Seq(ReportType)]
    BY <1>5, CaptureTypes DEF CatchReported, Ids
  <2> QED BY <1>5, <2>1, WritesTypes DEF CatchReported, SetUser, Traces, context
<1>6. CASE DatabaseFlipsUnseen \/ UNCHANGED allVars
  BY <1>6 DEF DatabaseFlipsUnseen, allVars, Traces, context, sentry
<1> QED BY <1>1, <1>2, <1>3, <1>4, <1>5, <1>6 DEF ObservedNext, ObservedStep

LEMMA TracesInit == ObservedInit => Traces
<1> SUFFICES ASSUME ObservedInit PROVE Traces
  OBVIOUS
<1>1. NoId \in Ids
  BY DEF Ids
<1> QED BY <1>1 DEF ObservedInit, Traces

(* Every variable of the composed specification keeps its type.            *)
THEOREM ObservabilityTypeCorrect == ObservedSpec => []ObservabilityTypeOK
<1>1. TypeOK /\ Traces => ObservabilityTypeOK
  BY DEF Traces, ObservabilityTypeOK, LineType
<1>2. ObservedSpec => []Traces
  BY TracesInit, TracesStep, PTL DEF ObservedSpec
<1> QED BY <1>1, <1>2, ImplementsPipeline, TypeCorrect, PTL

-----------------------------------------------------------------------------
(* The ids.  From its first turn on a request runs in the context of the   *)
(* id its client was told.                                                 *)
LinesBear(r, id) == \A i \in DOMAIN lines[r] : lines[r][i].traceId = id
ReportsBear(r, id) ==
  \A i \in DOMAIN reports[r] :
    reports[r][i].tag = id /\ reports[r][i].extra \in {id, NoId}

Followed(r) ==
  /\ stage[r] = "none" => lines[r] = << >> /\ reports[r] = << >>
  /\ stage[r] # "none" =>
       /\ store[r] = traceId[r]
       /\ sentryEnabled => tag[r] = traceId[r]
       /\ LinesBear(r, traceId[r])
       /\ ReportsBear(r, traceId[r])

FollowedInv == \A r \in Reqs : Followed(r)

(* A step of one request leaves what belongs to another alone.             *)
Own(q) == <<stage[q], traceId[q], store[q], tag[q], lines[q], reports[q], sentryEnabled>>

LEMMA OthersKeep ==
  ASSUME TypeOK, Traces, NEW r \in Reqs, ReceiveTraced(r) \/ ObservedStep(r),
         NEW q \in Reqs, q # r
  PROVE  UNCHANGED Own(q) /\ thrown'[q] = thrown[q] /\ statusCode'[q] = statusCode[q]
                          /\ (q \in captured' <=> q \in captured)
<1> USE DEF Own, TypeOK, Traces, Move, Raise, context, sentry
<1>1. CASE ReceiveTraced(r)
  BY <1>1 DEF ReceiveTraced, Receive, Run
<1>2. CASE BeforeHandling(r)
  BY <1>2 DEF BeforeHandling, ParseBody, Throttle, Refuse, Intercept
<1>3. CASE ReturnTraced(r)
  BY <1>3 DEF ReturnTraced, Return, Warns, Writes
<1>4. CASE ThrowReported(r)
  <2>1. lines'[q] = lines[q]
    BY <1>4 DEF ThrowReported, Warns, Writes
  <2>2. reports'[q] = reports[q] /\ (q \in captured' <=> q \in captured)
    BY <1>4 DEF ThrowReported, CaptureException, Send
  <2> QED BY <1>4, <2>1, <2>2 DEF ThrowReported, Throw
<1>5. CASE CatchHealthUnreported(r)
  BY <1>5 DEF CatchHealthUnreported, CatchHealth
<1>6. CASE CatchReported(r)
  <2>1. lines'[q] = lines[q]
    BY <1>6 DEF CatchReported, Writes
  <2>2. reports'[q] = reports[q] /\ (q \in captured' <=> q \in captured)
    BY <1>6 DEF CatchReported, CaptureException, Send
  <2> QED BY <1>6, <2>1, <2>2 DEF CatchReported, Catch
<1> QED BY <1>1, <1>2, <1>3, <1>4, <1>5, <1>6 DEF ObservedStep

LEMMA WritesBear ==
  ASSUME Traces, NEW r \in Reqs, NEW level \in {"info", "warn", "error"},
         Writes(r, level) \/ UNCHANGED lines, LinesBear(r, store[r])
  PROVE  \A i \in DOMAIN lines'[r] : lines'[r][i].traceId = store[r]
<1>1. CASE UNCHANGED lines
  BY <1>1 DEF LinesBear
<1>2. CASE Writes(r, level)
  <2>1. lines'[r] = Append(lines[r], Line(level, store[r]))
    BY <1>2 DEF Writes, GetTraceId, Traces
  <2>2. lines[r] \in Seq(LineType)
    BY DEF Traces
  <2>3. Line(level, store[r]).traceId = store[r]
    BY DEF Line
  <2> QED BY <2>1, <2>2, <2>3 DEF LinesBear
<1> QED BY <1>1, <1>2

LEMMA CaptureBears ==
  ASSUME Traces, NEW r \in Reqs, NEW e, NEW by, NEW extra \in {store[r], NoId},
         CaptureException(r, e, by, extra),
         sentryEnabled => tag[r] = store[r], ReportsBear(r, store[r])
  PROVE  \A i \in DOMAIN reports'[r] :
           reports'[r][i].tag = store[r] /\ reports'[r][i].extra \in {store[r], NoId}
<1>1. CASE UNCHANGED reports
  BY <1>1 DEF ReportsBear
<1>2. CASE sentryEnabled /\ reports' = [reports EXCEPT ![r] = Append(@, Report(r, by, extra))]
  <2>1. reports'[r] = Append(reports[r], Report(r, by, extra))
    BY <1>2 DEF Traces
  <2>2. reports[r] \in Seq(ReportType)
    BY DEF Traces
  <2>3. Report(r, by, extra).tag = store[r] /\ Report(r, by, extra).extra = extra
    BY <1>2 DEF Report
  <2> QED BY <2>1, <2>2, <2>3 DEF ReportsBear
<1> QED BY <1>1, <1>2 DEF CaptureException, Send

LEMMA FollowedStep ==
  ASSUME TypeOK, Traces, FollowedInv, [ObservedNext]_allVars PROVE FollowedInv'
<1>1. ASSUME NEW r \in Reqs, ReceiveTraced(r) \/ ObservedStep(r), Followed(r)'
      PROVE  FollowedInv'
  <2>1. ASSUME NEW q \in Reqs, q # r PROVE Followed(q)'
    BY <1>1, <2>1, OthersKeep DEF FollowedInv, Followed, LinesBear, ReportsBear, Own
  <2> QED BY <1>1, <2>1 DEF FollowedInv
<1>2. ASSUME NEW r \in Reqs, ReceiveTraced(r) PROVE Followed(r)'
  <2>1. PICK id \in {RandomUUID(r)} \cup ClientIds :
          traceId' = [traceId EXCEPT ![r] = id] /\ Run(r, id)
    BY <1>2 DEF ReceiveTraced
  <2>2. traceId'[r] = id /\ store'[r] = id /\ (sentryEnabled' => tag'[r] = id)
    BY <1>2, <2>1 DEF ReceiveTraced, Run, Traces
  <2>3. stage[r] = "none" /\ stage'[r] = "body" /\ UNCHANGED reports
    BY <1>2 DEF ReceiveTraced, Receive, Move, TypeOK, sentry
  <2>4. lines[r] = << >> /\ reports[r] = << >>
    BY <2>3 DEF FollowedInv, Followed
  <2>5. lines'[r] = << >> \/ lines'[r] = << Line("info", id) >>
    BY <1>2, <2>2, <2>4 DEF ReceiveTraced, Traces
  <2>6. \A i \in DOMAIN lines'[r] : lines'[r][i].traceId = id
    BY <2>5 DEF Line
  <2> QED BY <2>2, <2>3, <2>4, <2>6 DEF Followed, LinesBear, ReportsBear
<1>3. ASSUME NEW r \in Reqs, stage[r] # "none", stage'[r] # "none",
             UNCHANGED <<sentryEnabled, context>>,
             \A i \in DOMAIN lines'[r] : lines'[r][i].traceId = store[r],
             \A i \in DOMAIN reports'[r] :
               reports'[r][i].tag = store[r] /\ reports'[r][i].extra \in {store[r], NoId}
      PROVE  Followed(r)'
  BY <1>3 DEF FollowedInv, Followed, LinesBear, ReportsBear, context
<1>4. ASSUME NEW r \in Reqs, stage[r] # "none"
      PROVE  /\ LinesBear(r, store[r]) /\ ReportsBear(r, store[r])
             /\ sentryEnabled => tag[r] = store[r]
  BY <1>4 DEF FollowedInv, Followed
<1>5. ASSUME NEW r \in Reqs, BeforeHandling(r) \/ CatchHealthUnreported(r) PROVE Followed(r)'
  <2>1. stage[r] # "none" /\ stage'[r] # "none"
    BY <1>5 DEF BeforeHandling, CatchHealthUnreported, ParseBody, Throttle, Refuse,
                Intercept, CatchHealth, Move, TypeOK
  <2>2. UNCHANGED <<sentryEnabled, context, lines, reports>>
    BY <1>5 DEF BeforeHandling, CatchHealthUnreported, sentry
  <2> QED BY <1>3, <1>4, <2>1, <2>2 DEF LinesBear, ReportsBear
<1>6. ASSUME NEW r \in Reqs, ReturnTraced(r) PROVE Followed(r)'
  <2>1. stage[r] # "none" /\ stage'[r] # "none"
    BY <1>6 DEF ReturnTraced, Return, Move, TypeOK
  <2>2. \A i \in DOMAIN lines'[r] : lines'[r][i].traceId = store[r]
    BY <1>4, <1>6, <2>1, WritesBear DEF ReturnTraced, Warns
  <2>3. UNCHANGED <<sentryEnabled, context>> /\ UNCHANGED reports
    BY <1>6 DEF ReturnTraced, sentry
  <2> QED BY <1>3, <1>4, <2>1, <2>2, <2>3 DEF ReportsBear
<1>7. ASSUME NEW r \in Reqs, ThrowReported(r) PROVE Followed(r)'
  <2>1. stage[r] # "none" /\ stage'[r] # "none"
    BY <1>7 DEF ThrowReported, Throw, Move, TypeOK
  <2>2. \A i \in DOMAIN lines'[r] : lines'[r][i].traceId = store[r]
    BY <1>4, <1>7, <2>1, WritesBear DEF ThrowReported, Warns
  <2>3. CaptureException(r, thrown'[r], "interceptor", store[r])
    BY <1>7 DEF ThrowReported, GetTraceId
  <2>4. \A i \in DOMAIN reports'[r] :
           reports'[r][i].tag = store[r] /\ reports'[r][i].extra \in {store[r], NoId}
    BY <1>4, <2>1, <2>3, CaptureBears
  <2> QED BY <1>3, <1>7, <2>1, <2>2, <2>4 DEF ThrowReported
<1>8. ASSUME NEW r \in Reqs, CatchReported(r) PROVE Followed(r)'
  <2>1. stage[r] # "none" /\ stage'[r] # "none"
    BY <1>8 DEF CatchReported, Catch, Move, TypeOK
  <2>2. \A i \in DOMAIN lines'[r] : lines'[r][i].traceId = store[r]
    BY <1>4, <1>8, <2>1, WritesBear DEF CatchReported
  <2>3. CaptureException(r, thrown[r], "filter", NoId)
    BY <1>8 DEF CatchReported
  <2>4. \A i \in DOMAIN reports'[r] :
           reports'[r][i].tag = store[r] /\ reports'[r][i].extra \in {store[r], NoId}
    BY <1>4, <2>1, <2>3, CaptureBears
  <2> QED BY <1>3, <1>8, <2>1, <2>2, <2>4 DEF CatchReported
<1>9. CASE DatabaseFlipsUnseen \/ UNCHANGED allVars
  BY <1>9 DEF DatabaseFlipsUnseen, DatabaseFlips, allVars, vars, context, sentry,
              FollowedInv, Followed, LinesBear, ReportsBear
<1> QED BY <1>1, <1>2, <1>5, <1>6, <1>7, <1>8, <1>9 DEF ObservedNext, ObservedStep

(* Whatever other requests do between the turns of a request, its lines    *)
(* carry the id its client was told, and no report names another.          *)
THEOREM TracedEverywhereHolds == ObservedSpec => []TracedEverywhere
<1>1. ObservedInit => FollowedInv
  BY DEF ObservedInit, Init, FollowedInv, Followed
<1>2. FollowedInv => TracedEverywhere
  <2> SUFFICES ASSUME FollowedInv, NEW r \in Reqs
               PROVE  LinesBear(r, traceId[r]) /\ ReportsBear(r, traceId[r])
    BY DEF TracedEverywhere, LinesBear, ReportsBear
  <2> QED BY DEF FollowedInv, Followed, LinesBear, ReportsBear
<1>3. ObservedSpec => [](TypeOK /\ Traces)
  BY ImplementsPipeline, TypeCorrect, TracesInit, TracesStep, PTL DEF ObservedSpec
<1> QED BY <1>1, <1>2, <1>3, FollowedStep, PTL DEF ObservedSpec

-----------------------------------------------------------------------------
(* What is on record of a request at each of its stages.                   *)
NoErrorLine(s) == \A i \in DOMAIN s : s[i].level # "error"
OneErrorLine(s) ==
  \E i \in DOMAIN s : \A j \in DOMAIN s : s[j].level = "error" <=> j = i

Due(r) == IF sentryEnabled /\ BeforeSend(thrown[r]) THEN 1 ELSE 0

OnRecord(r) ==
  /\ stage[r] \in {"none", "body", "throttler", "auth", "handler"} =>
       thrown[r] = NoError /\ r \notin captured
  /\ stage[r] # "answered" => NoErrorLine(lines[r])
  /\ stage[r] # "answered" /\ r \notin captured => reports[r] = << >>
  /\ stage[r] = "failed" /\ r \in captured => sentryEnabled /\ Len(reports[r]) = Due(r)
  /\ Failed(r) => OneErrorLine(lines[r]) /\ Len(reports[r]) = Due(r)
  /\ WentWell(r) => NoErrorLine(lines[r]) /\ reports[r] = << >>

RecordInv == \A r \in Reqs : OnRecord(r)

LEMMA AppendQuiet ==
  ASSUME NEW s \in Seq(LineType), NEW l \in LineType, l.level # "error", NoErrorLine(s)
  PROVE  NoErrorLine(Append(s, l))
BY DEF NoErrorLine

LEMMA AppendLoud ==
  ASSUME NEW s \in Seq(LineType), NEW l \in LineType, l.level = "error", NoErrorLine(s)
  PROVE  OneErrorLine(Append(s, l))
<1>1. /\ DOMAIN Append(s, l) = 1 .. Len(s) + 1 /\ Append(s, l)[Len(s) + 1] = l
      /\ \A i \in 1 .. Len(s) : Append(s, l)[i] = s[i]
      /\ DOMAIN s = 1 .. Len(s) /\ Len(s) \in Nat
  OBVIOUS
<1>2. \A j \in 1 .. Len(s) + 1 : Append(s, l)[j].level = "error" <=> j = Len(s) + 1
  BY <1>1 DEF NoErrorLine
<1>3. Len(s) + 1 \in DOMAIN Append(s, l)
  BY <1>1
<1> QED BY <1>1, <1>2, <1>3 DEF OneErrorLine

LEMMA WarnsQuietly ==
  ASSUME Traces, NEW r \in Reqs, Warns(r), NoErrorLine(lines[r])
  PROVE  NoErrorLine(lines'[r])
<1>1. CASE UNCHANGED lines
  BY <1>1
<1>2. CASE Writes(r, "warn")
  <2>1. Line("warn", store[r]) \in LineType /\ Line("warn", store[r]).level # "error"
    BY DEF Line, LineType, Traces
  <2>2. lines'[r] = Append(lines[r], Line("warn", store[r]))
    BY <1>2 DEF Writes, GetTraceId, Traces
  <2>3. lines[r] \in Seq(LineType)
    BY DEF Traces
  <2> QED BY <2>1, <2>2, <2>3, AppendQuiet
<1> QED BY <1>1, <1>2 DEF Warns

(* The first capture of an error sends what is due, a second one nothing.  *)
LEMMA CaptureSends ==
  ASSUME Traces, NEW r \in Reqs, NEW e, NEW by, NEW extra, CaptureException(r, e, by, extra),
         r \notin captured => reports[r] = << >>,
         r \in captured =>
           sentryEnabled /\ Len(reports[r]) = IF BeforeSend(e) THEN 1 ELSE 0
  PROVE  /\ Len(reports'[r]) = IF sentryEnabled /\ BeforeSend(e) THEN 1 ELSE 0
         /\ r \in captured' <=> sentryEnabled
         /\ r \notin captured' => reports'[r] = << >>
<1>1. CASE ~sentryEnabled
  <2>1. r \notin captured /\ UNCHANGED <<captured, reports>>
    BY <1>1 DEF CaptureException
  <2> QED BY <1>1, <2>1
<1>2. CASE sentryEnabled /\ r \in captured
  <2>1. UNCHANGED <<captured, reports>>
    BY <1>2 DEF CaptureException
  <2> QED BY <1>2, <2>1
<1>3. CASE sentryEnabled /\ r \notin captured
  <2>1. captured' = captured \cup {r} /\ Send(r, e, by, extra) /\ reports[r] = << >>
    BY <1>3 DEF CaptureException
  <2>2. CASE BeforeSend(e)
    <3>1. reports'[r] = Append(<< >>, Report(r, by, extra))
      BY <2>1, <2>2 DEF Send, Traces
    <3>2. Len(reports'[r]) = 1
      BY <3>1
    <3> QED BY <1>3, <2>1, <2>2, <3>2
  <2>3. CASE ~BeforeSend(e)
    BY <1>3, <2>1, <2>3 DEF Send
  <2> QED BY <2>2, <2>3
<1> QED BY <1>1, <1>2, <1>3

LEMMA RecordStep ==
  ASSUME ShapeInv, Traces, RecordInv, [ObservedNext]_allVars PROVE RecordInv'
<1>0. TypeOK /\ Shape
  BY DEF ShapeInv
<1>1. ASSUME NEW r \in Reqs, ReceiveTraced(r) \/ ObservedStep(r), OnRecord(r)'
      PROVE  RecordInv'
  <2>1. ASSUME NEW q \in Reqs, q # r PROVE OnRecord(q)'
    <3>1. UNCHANGED Own(q) /\ thrown'[q] = thrown[q] /\ statusCode'[q] = statusCode[q]
          /\ (q \in captured' <=> q \in captured)
      BY <1>0, <1>1, <2>1, OthersKeep
    <3>2. Due(q)' = Due(q)
      BY <3>1 DEF Due, BeforeSend, Own
    <3>3. OnRecord(q)
      BY DEF RecordInv
    <3> QED BY <3>1, <3>2, <3>3 DEF OnRecord, Failed, WentWell, NoErrorLine, OneErrorLine, Own
  <2> QED BY <1>1, <2>1 DEF RecordInv
<1>2. ASSUME NEW r \in Reqs, ReceiveTraced(r) PROVE OnRecord(r)'
  <2>1. /\ stage[r] = "none" /\ stage'[r] = "body"
        /\ UNCHANGED <<thrown, captured, reports>>
    BY <1>0, <1>2 DEF ReceiveTraced, Receive, Move, TypeOK, sentry
  <2>2. OnRecord(r)
    BY DEF RecordInv
  <2>3. NoErrorLine(lines'[r])
    <3>1. CASE UNCHANGED lines
      BY <2>1, <2>2, <3>1 DEF OnRecord
    <3>2. CASE lines' = [lines EXCEPT ![r] = Append(@, Line("info", store'[r]))]
      <4>1. store'[r] \in Ids
        BY <1>2, TracesStep DEF ObservedNext, Traces
      <4>2. Line("info", store'[r]) \in LineType /\ Line("info", store'[r]).level # "error"
        BY <4>1 DEF Line, LineType
      <4>3. lines'[r] = Append(lines[r], Line("info", store'[r])) /\ lines[r] \in Seq(LineType)
        BY <3>2 DEF Traces
      <4>4. NoErrorLine(lines[r])
        BY <2>1, <2>2 DEF OnRecord
      <4> QED BY <4>2, <4>3, <4>4, AppendQuiet
    <3> QED BY <1>2, <3>1, <3>2 DEF ReceiveTraced
  <2> QED BY <2>1, <2>2, <2>3 DEF OnRecord, Failed, WentWell
<1>3. ASSUME NEW r \in Reqs, BeforeHandling(r) PROVE OnRecord(r)'
  <2>1. OnRecord(r) /\ UNCHANGED <<lines, captured, reports, sentryEnabled>>
    BY <1>3 DEF BeforeHandling, RecordInv, sentry
  <2>2. stage[r] \in {"body", "throttler", "auth"} /\ stage'[r] # "none" /\ stage'[r] # "answered"
    BY <1>0, <1>3 DEF BeforeHandling, ParseBody, Throttle, Refuse, Intercept, Move, TypeOK
  <2>3. stage'[r] = "failed" \/ thrown'[r] = thrown[r]
    BY <1>0, <1>3 DEF BeforeHandling, ParseBody, Throttle, Refuse, Intercept, Move, TypeOK
  <2>4. r \notin captured
    BY <2>1, <2>2 DEF OnRecord
  <2> QED BY <2>1, <2>2, <2>3, <2>4 DEF OnRecord, Failed, WentWell
<1>4. ASSUME NEW r \in Reqs, ReturnTraced(r) PROVE OnRecord(r)'
  <2>1. OnRecord(r) /\ UNCHANGED <<thrown, captured, reports, sentryEnabled>>
    BY <1>4 DEF ReturnTraced, Return, RecordInv, sentry
  <2>2. stage[r] = "handler" /\ stage'[r] = "answered"
    BY <1>0, <1>4 DEF ReturnTraced, Return, Move, TypeOK
  <2>3. NoErrorLine(lines'[r]) /\ reports'[r] = << >>
    BY <1>4, <2>1, <2>2, WarnsQuietly DEF ReturnTraced, OnRecord
  <2>4. StatusOf(r) \in {200, 201, 204}
    BY <1>0, <2>2 DEF StatusOf, Shape
  <2>5. ~(statusCode'[r] >= 400)
    BY <1>0, <1>4, <2>4 DEF ReturnTraced, Return, TypeOK
  <2> QED BY <2>2, <2>3, <2>5 DEF OnRecord, Failed, WentWell
<1>5. ASSUME NEW r \in Reqs, ThrowReported(r) PROVE OnRecord(r)'
  <2>1. OnRecord(r) /\ UNCHANGED sentryEnabled
    BY <1>5 DEF ThrowReported, RecordInv
  <2>2. stage[r] = "handler" /\ stage'[r] = "failed"
    BY <1>0, <1>5 DEF ThrowReported, Throw, Move, TypeOK
  <2>3. NoErrorLine(lines'[r]) /\ r \notin captured /\ reports[r] = << >>
    BY <1>5, <2>1, <2>2, WarnsQuietly DEF ThrowReported, OnRecord
  <2>4. PICK e : thrown'[r] = e /\ CaptureException(r, e, "interceptor", GetTraceId(r))
    BY <1>5 DEF ThrowReported
  <2>5. /\ Len(reports'[r]) = IF sentryEnabled /\ BeforeSend(e) THEN 1 ELSE 0
        /\ r \in captured' <=> sentryEnabled
        /\ r \notin captured' => reports'[r] = << >>
    BY <2>3, <2>4, CaptureSends
  <2>6. Len(reports'[r]) = Due(r)'
    BY <2>1, <2>4, <2>5 DEF Due, BeforeSend
  <2> QED BY <2>1, <2>2, <2>3, <2>5, <2>6 DEF OnRecord, Failed, WentWell
<1>6. ASSUME NEW r \in Reqs, CatchHealthUnreported(r) PROVE OnRecord(r)'
  <2>1. stage[r] = "failed" /\ stage'[r] = "answered" /\ UNCHANGED thrown
    BY <1>0, <1>6 DEF CatchHealthUnreported, CatchHealth, Move, TypeOK
  <2>2. ~(statusCode'[r] >= 400)
    BY <1>0, <1>6 DEF CatchHealthUnreported, CatchHealth, TypeOK
  <2>3. thrown'[r] # NoError
    BY <1>0, <2>1 DEF Shape, Failure, NoError, Error
  <2> QED BY <2>1, <2>2, <2>3 DEF OnRecord, Failed, WentWell
<1>7. ASSUME NEW r \in Reqs, CatchReported(r) PROVE OnRecord(r)'
  <2>1. stage[r] = "failed" /\ stage'[r] = "answered" /\ UNCHANGED <<thrown, sentryEnabled>>
    BY <1>0, <1>7 DEF CatchReported, Catch, Move, TypeOK
  <2>2. OnRecord(r) /\ thrown'[r] # NoError
    BY <1>0, <2>1 DEF RecordInv, Shape, Failure, NoError, Error
  <2>3. OneErrorLine(lines'[r])
    <3>1. lines'[r] = Append(lines[r], Line("error", store[r]))
      BY <1>7 DEF CatchReported, Writes, GetTraceId, Traces
    <3>2. Line("error", store[r]) \in LineType /\ Line("error", store[r]).level = "error"
      BY DEF Line, LineType, Traces
    <3>3. lines[r] \in Seq(LineType) /\ NoErrorLine(lines[r])
      BY <2>1, <2>2 DEF Traces, OnRecord
    <3> QED BY <3>1, <3>2, <3>3, AppendLoud
  <2>4. CaptureException(r, thrown[r], "filter", NoId)
    BY <1>7 DEF CatchReported
  <2>5. Len(reports'[r]) = Due(r)
    <3>1. r \in captured => sentryEnabled /\ Len(reports[r]) = IF BeforeSend(thrown[r]) THEN 1 ELSE 0
      BY <2>1, <2>2 DEF OnRecord, Due
    <3>2. r \notin captured => reports[r] = << >>
      BY <2>1, <2>2 DEF OnRecord
    <3> QED BY <2>4, <3>1, <3>2, CaptureSends DEF Due
  <2>6. Due(r)' = Due(r)
    BY <2>1 DEF Due, BeforeSend
  <2> QED BY <2>1, <2>2, <2>3, <2>5, <2>6 DEF OnRecord, Failed, WentWell
<1>8. CASE DatabaseFlipsUnseen \/ UNCHANGED allVars
  BY <1>8 DEF DatabaseFlipsUnseen, DatabaseFlips, allVars, vars, sentry, RecordInv, OnRecord,
              Failed, WentWell, NoErrorLine, OneErrorLine, Due, BeforeSend
<1> QED BY <1>1, <1>2, <1>3, <1>4, <1>5, <1>6, <1>7, <1>8 DEF ObservedNext, ObservedStep

(* Every error answer, of a guard, of the body parser, of the router or of *)
(* a handler, is one error line and at most one report; a request that     *)
(* went well is neither.                                                   *)
THEOREM FailuresOnRecordHolds == ObservedSpec => []FailuresOnRecord
<1>1. ObservedInit => RecordInv
  BY DEF ObservedInit, Init, RecordInv, OnRecord, NoErrorLine, Failed, WentWell
<1>2. RecordInv => FailuresOnRecord
  BY DEF RecordInv, OnRecord, FailuresOnRecord, Due, NoErrorLine, OneErrorLine
<1>3. Spec => []ShapeInv
  BY ShapeInit, ShapeStep, PTL DEF Spec
<1>4. ObservedSpec => [](ShapeInv /\ Traces)
  BY <1>3, ImplementsPipeline, TracesInit, TracesStep, PTL DEF ObservedSpec
<1> QED BY <1>1, <1>2, <1>4, RecordStep, PTL DEF ObservedSpec
=============================================================================
