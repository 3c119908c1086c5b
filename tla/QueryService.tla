----------------------------- MODULE QueryService -----------------------------
(***************************************************************************)
(* Business queries from the moment a handler calls QueryService to the    *)
(* HTTP status it answers with: the plan made from the clock, one          *)
(* goroutine per segment under an errgroup, the tree of contexts that      *)
(* carries client cancellation, the query timeout and the group's own      *)
(* cancellation, the repositories' answers, and the merge.                 *)
(*                                                                         *)
(* RetailSummary and RenovationFunnel are the same code over other         *)
(* columns; one model stands for both, with the columns taken from         *)
(* `metric'.  Requests share the clock, the stores and the metrics.        *)
(*                                                                         *)
(* The stores are filled from outside the program.  An export job follows  *)
(* the clock: with the job caught up to `etlDay', history holds the days   *)
(* before that day's cutoff and HistoryLead more, and the realtime store   *)
(* the days from that cutoff on and RealtimeKeep before it.  Both zero is  *)
(* the layout the DDL comments ask for: no day in two stores.              *)
(***************************************************************************)
EXTENDS Planning, Errors, FiniteSets

CONSTANTS
  Requests,        \* the concurrent calls
  Queries,         \* what a call may ask for
  Repositories,    \* the sources that have a repository
  DriverErrors,    \* what a driver may fail with of its own
  Counts,          \* per metric, the totals a store may return for a segment
  HistoryLead, RealtimeKeep,
  FirstDay, LastDay,   \* bound of the clock
  MaxEtlLag,       \* bound: days the export job may be behind the clock
  MaxMidnights     \* bound: midnights a call may live through

Columns == [retail     |-> {"orders"},
            renovation |-> {"leads", "invited", "measured",
                            "signed", "started", "completed"}]

Metrics == DOMAIN Columns

ASSUME ServiceAssumption ==
  /\ Queries \subseteq [source : Sources \cup {"auto", "memory"},
                        range : DateRanges, metric : Metrics]
  /\ {Historical, "starrocks"} \subseteq Repositories
  /\ Repositories \subseteq Sources
  /\ DriverErrors \subseteq {"driver", "canceled", "deadline"}
  /\ Counts \in [Metrics -> UNION {SUBSET [Columns[m] -> Int64] : m \in Metrics}]
  /\ \A m \in Metrics : Counts[m] \subseteq [Columns[m] -> Int64]
  /\ HistoryLead \in Nat /\ RealtimeKeep \in Nat
  /\ FirstDay \in Int /\ LastDay \in Int /\ FirstDay <= LastDay
  /\ MaxEtlLag \in Nat /\ MaxMidnights \in Nat

VARIABLES
  today,       \* the business day the clock shows
  etlDay,      \* the day the export job has caught up to
  query,       \* what each call asks for
  phase,       \* "new", "running" or "answered"
  plannedOn,   \* the day on which the call was planned
  segs,        \* the plan
  rctx,        \* the request's context: "live" or the error it ended with
  gctx,        \* the errgroup's context, a child of rctx
  gerr,        \* the errgroup's first error
  worker,      \* the goroutine of each segment
  out,         \* what the repository returned to each goroutine
  answer,      \* what the handler wrote
  queryTotal,  \* the counter data_query_total
  causes       \* history: what went wrong outside the service, per call

vars == << today, etlDay, query, phase, plannedOn, segs, rctx, gctx, gerr,
           worker, out, answer, queryTotal, causes >>

Contexts == {"live"} \cup ContextErrors

Zero(metric) == [c \in Columns[metric] |-> 0]

\* A goroutine's result before the repository returned, and the zero value
\* the code returns next to an error.
NoData(metric) == [err |-> "nil", days |-> {}, totals |-> Zero(metric)]

Failure(metric, e) == [NoData(metric) EXCEPT !.err = e]

\* What a handler writes next to an error: no data.
ErrorAnswer(metric, e) ==
  [status |-> HttpStatus(e), err |-> e, rows |-> {}, totals |-> Zero(metric)]

NoAnswer(metric) ==
  [status |-> 0, err |-> "nil", rows |-> {}, totals |-> Zero(metric)]

-----------------------------------------------------------------------------

Init ==
  /\ today = FirstDay
  /\ etlDay = FirstDay
  /\ query \in [Requests -> Queries]
  /\ phase = [r \in Requests |-> "new"]
  /\ plannedOn = [r \in Requests |-> FirstDay]
  /\ segs = [r \in Requests |-> << >>]
  /\ rctx = [r \in Requests |-> "live"]
  /\ gctx = [r \in Requests |-> "live"]
  /\ gerr = [r \in Requests |-> "nil"]
  /\ worker = [r \in Requests |-> [i \in Slots |-> "off"]]
  /\ out = [r \in Requests |-> [i \in Slots |-> NoData(query[r].metric)]]
  /\ answer = [r \in Requests |-> NoAnswer(query[r].metric)]
  /\ queryTotal = [s \in Sources |-> [m \in Metrics |-> [st \in Statuses |-> 0]]]
  /\ causes = [r \in Requests |-> {}]

-----------------------------------------------------------------------------
(* The call enters the service. *)

\* Plan refuses the source before anything is started.
PlanRejected(r) ==
  /\ phase[r] = "new"
  /\ Plan(query[r].source, query[r].range, today) = << >>
  /\ phase' = [phase EXCEPT ![r] = "answered"]
  /\ answer' = [answer EXCEPT ![r] = ErrorAnswer(query[r].metric, "invalid")]
  /\ causes' = [causes EXCEPT ![r] = @ \cup {"invalid"}]
  /\ UNCHANGED << today, etlDay, query, plannedOn, segs, rctx, gctx, gerr,
                  worker, out, queryTotal >>

\* The clock is read once, by Plan; a group context is derived from the
\* request's (ended at once if that one has ended) and the goroutines start.
Start(r) ==
  LET plan == Plan(query[r].source, query[r].range, today) IN
  /\ phase[r] = "new"
  /\ plan # << >>
  /\ phase' = [phase EXCEPT ![r] = "running"]
  /\ plannedOn' = [plannedOn EXCEPT ![r] = today]
  /\ segs' = [segs EXCEPT ![r] = plan]
  /\ gctx' = [gctx EXCEPT ![r] = rctx[r]]
  /\ worker' = [worker EXCEPT ![r] =
                  [i \in Slots |-> IF i <= Len(plan) THEN "started" ELSE "off"]]
  /\ UNCHANGED << today, etlDay, query, rctx, gerr, out, answer, queryTotal,
                  causes >>

-----------------------------------------------------------------------------
(* One goroutine: look the repository up, query it, report. *)

Workers(r) == 1 .. Len(segs[r])

Source(r, i) == segs[r][i].source

\* Days whose rows, as far as there are any, a store holds.
Holds(source, d) ==
  IF source = "starrocks" THEN d >= Cutoff(etlDay) - RealtimeKeep
                          ELSE d < Cutoff(etlDay) + HistoryLead

DaysRead(r, i) == {d \in DaysOf(segs[r][i].range) : Holds(Source(r, i), d)}

Returns(r, i, result) ==
  /\ worker' = [worker EXCEPT ![r][i] = "returned"]
  /\ out' = [out EXCEPT ![r][i] = result]
  /\ UNCHANGED << today, etlDay, query, phase, plannedOn, segs, rctx, gctx,
                  gerr, answer, queryTotal >>

MissingRepository(r, i) ==
  /\ i \in Workers(r) /\ worker[r][i] = "started"
  /\ Source(r, i) \notin Repositories
  /\ Returns(r, i, Failure(query[r].metric, "invalid"))
  /\ causes' = [causes EXCEPT ![r] = @ \cup {"invalid"}]

\* The store's snapshot.  A sum over no row is 0 (COALESCE in the statement).
RepositoryAnswers(r, i) ==
  LET metric == query[r].metric
      days == DaysRead(r, i) IN
  /\ i \in Workers(r) /\ worker[r][i] = "started"
  /\ Source(r, i) \in Repositories
  /\ \E totals \in IF days = {} THEN {Zero(metric)} ELSE Counts[metric] :
       Returns(r, i, [err |-> "nil", days |-> days, totals |-> totals])
  /\ UNCHANGED causes

\* The driver fails of its own, the context being live or not.
RepositoryFails(r, i) ==
  /\ i \in Workers(r) /\ worker[r][i] = "started"
  /\ Source(r, i) \in Repositories
  /\ \E e \in DriverErrors :
       /\ Returns(r, i, Failure(query[r].metric, WrapErr(e)))
       /\ causes' = [causes EXCEPT ![r] = @ \cup {WrapErr(e)}]

\* The context the repository is called with is the group's.
\* Fault: the request's own context.
RequestContext(r) == rctx[r]

RepoContext(r) == gctx[r]

\* The repository sees that its context has ended.
RepositoryInterrupted(r, i) ==
  /\ i \in Workers(r) /\ worker[r][i] = "started"
  /\ Source(r, i) \in Repositories
  /\ RepoContext(r) # "live"
  /\ Returns(r, i, Failure(query[r].metric, WrapErr(RepoContext(r))))
  /\ UNCHANGED causes

\* ObserveQuery counts the segment under its own outcome.
\* Fault: a segment that fails after another one returns before it is counted.
ObserveUnlessFailed(r, i) ==
  IF gerr[r] # "nil" THEN UNCHANGED queryTotal
  ELSE queryTotal' = [queryTotal EXCEPT
         ![Source(r, i)][query[r].metric][QueryStatus(out[r][i].err)] = @ + 1]

Observe(r, i) ==
  queryTotal' = [queryTotal EXCEPT
    ![Source(r, i)][query[r].metric][QueryStatus(out[r][i].err)] = @ + 1]

\* The group's error after a goroutine returned e: errOnce keeps the first.
FirstError(r, e) == IF e # "nil" /\ gerr[r] = "nil" THEN e ELSE gerr[r]

\* The group's context after a goroutine returned e: the first error ends it.
CancelOnError(r, e) ==
  IF e # "nil" /\ gerr[r] = "nil" /\ gctx[r] = "live" THEN "canceled" ELSE gctx[r]

\* The goroutine observes its result and returns into errgroup; a success has
\* filled parts[i], which is out[r][i] from here on.
Report(r, i) ==
  LET e == out[r][i].err IN
  /\ i \in Workers(r) /\ worker[r][i] = "returned"
  /\ worker' = [worker EXCEPT ![r][i] = "done"]
  /\ Observe(r, i)
  /\ gerr' = [gerr EXCEPT ![r] = FirstError(r, e)]
  /\ gctx' = [gctx EXCEPT ![r] = CancelOnError(r, e)]
  /\ UNCHANGED << today, etlDay, query, phase, plannedOn, segs, rctx, out,
                  answer, causes >>

-----------------------------------------------------------------------------
(* group.Wait has returned; the answer is made from the group's outcome. *)

\* Fault: the first error is enough to go on.
WaitForError(r) ==
  /\ phase[r] = "running"
  /\ gerr[r] # "nil" \/ \A i \in Workers(r) : worker[r][i] = "done"

WaitReturns(r) ==
  /\ phase[r] = "running"
  /\ \A i \in Workers(r) : worker[r][i] = "done"

\* The running sum of a column over the first n parts; a plan has two at most.
Subtotal(r, c, n) ==
  CASE n = 0 -> 0
    [] n = 1 -> out[r][1].totals[c]
    [] n = 2 -> out[r][1].totals[c] + out[r][2].totals[c]

\* Some addition of the merge, part after part, leaves int64.
MergeOverflows(r) ==
  \E c \in Columns[query[r].metric] : \E i \in Workers(r) :
    AddOverflows(Subtotal(r, c, i - 1), out[r][i].totals[c])

MergedAnswer(r) ==
  [status |-> HttpStatus("nil"),
   err    |-> "nil",
   rows   |-> UNION {{i} \X out[r][i].days : i \in Workers(r)},
   totals |-> [c \in Columns[query[r].metric] |-> Subtotal(r, c, Len(segs[r]))]]

\* Wait ends the group context whatever the outcome.
Writes(r, response) ==
  /\ WaitReturns(r)
  /\ phase' = [phase EXCEPT ![r] = "answered"]
  /\ answer' = [answer EXCEPT ![r] = response]
  /\ gctx' = [gctx EXCEPT ![r] = IF @ = "live" THEN "canceled" ELSE @]
  /\ UNCHANGED << today, etlDay, query, plannedOn, segs, rctx, gerr, worker,
                  out, queryTotal, causes >>

\* Fault: the error of the last segment that failed, in the plan's order.
AnswerLastSegmentsError(r) ==
  \E i \in Workers(r) :
    /\ out[r][i].err # "nil"
    /\ \A j \in Workers(r) : j > i => out[r][j].err = "nil"
    /\ Writes(r, ErrorAnswer(query[r].metric, out[r][i].err))

AnswerError(r) ==
  /\ gerr[r] # "nil"
  /\ Writes(r, ErrorAnswer(query[r].metric, gerr[r]))

AnswerOverflow(r) ==
  /\ gerr[r] = "nil" /\ MergeOverflows(r)
  /\ Writes(r, ErrorAnswer(query[r].metric, "overflow"))

\* Fault: the group's error is not looked at.
AnswerMergedAnyway(r) == ~ MergeOverflows(r) /\ Writes(r, MergedAnswer(r))

AnswerMerged(r) ==
  /\ gerr[r] = "nil" /\ ~ MergeOverflows(r)
  /\ Writes(r, MergedAnswer(r))

-----------------------------------------------------------------------------
(* What happens around a call. *)

\* What the end of the request's context does to the group's.
Inherited(r, e) ==
  IF phase[r] = "running" /\ gctx[r] = "live" THEN e ELSE gctx[r]

\* The request context ends, and its child with it: a context that has ended
\* keeps the error it ended with.
ContextEnds(r, e) ==
  /\ phase[r] # "answered"
  /\ rctx[r] = "live"
  /\ rctx' = [rctx EXCEPT ![r] = e]
  /\ gctx' = [gctx EXCEPT ![r] = Inherited(r, e)]
  /\ causes' = [causes EXCEPT ![r] = @ \cup {e}]
  /\ UNCHANGED << today, etlDay, query, phase, plannedOn, segs, gerr, worker,
                  out, answer, queryTotal >>

\* The client closes the connection.
ClientCancels(r) == ContextEnds(r, "canceled")

\* QUERY_TIMEOUT is over: withTimeout's context ends.
Deadline(r) == ContextEnds(r, "deadline")

OnlyTheCalendarMoves ==
  UNCHANGED << query, phase, plannedOn, segs, rctx, gctx, gerr, worker, out,
               answer, queryTotal, causes >>

\* Midnight in the business time zone.
Midnight ==
  /\ today < LastDay
  /\ today - etlDay < MaxEtlLag
  /\ \A r \in Requests : phase[r] = "running" => today - plannedOn[r] < MaxMidnights
  /\ today' = today + 1
  /\ UNCHANGED etlDay
  /\ OnlyTheCalendarMoves

\* The export job moves one day from the realtime store to history.
ExportDay ==
  /\ etlDay < today
  /\ etlDay' = etlDay + 1
  /\ UNCHANGED today
  /\ OnlyTheCalendarMoves

-----------------------------------------------------------------------------

Step(r) ==
  \/ PlanRejected(r) \/ Start(r)
  \/ AnswerError(r) \/ AnswerOverflow(r) \/ AnswerMerged(r)
  \/ ClientCancels(r) \/ Deadline(r)
  \/ \E i \in Slots : \/ MissingRepository(r, i)
                      \/ RepositoryAnswers(r, i)
                      \/ RepositoryFails(r, i)
                      \/ RepositoryInterrupted(r, i)
                      \/ Report(r, i)

Next == (\E r \in Requests : Step(r)) \/ Midnight \/ ExportDay

Spec == Init /\ [][Next]_vars

\* The scheduler runs the service's own goroutines, and a repository whose
\* context has ended returns (the memory repository looks at it every day of
\* the range, database/sql gives up the query).  No store has to answer.
ServiceFairness ==
  \A r \in Requests :
    /\ WF_vars(PlanRejected(r)) /\ WF_vars(Start(r))
    /\ WF_vars(AnswerError(r)) /\ WF_vars(AnswerOverflow(r))
    /\ WF_vars(AnswerMerged(r))
    /\ \A i \in Slots : /\ WF_vars(MissingRepository(r, i))
                        /\ WF_vars(RepositoryInterrupted(r, i))
                        /\ WF_vars(Report(r, i))

FairSpec == Spec /\ ServiceFairness

-----------------------------------------------------------------------------
(* Properties. *)

Results(metric) ==
  [err : {"nil"} \cup ErrorKinds, days : SUBSET Int, totals : [Columns[metric] -> Int64]]

Answers(metric) ==
  [status : {0, 200, 400, 500, 503, 504}, err : {"nil"} \cup ErrorKinds,
   rows : SUBSET (Slots \X Int), totals : [Columns[metric] -> Int]]

\* Every variable keeps the shape the code gives it.
TypeOK ==
  /\ today \in Int /\ etlDay \in Int
  /\ query \in [Requests -> Queries]
  /\ phase \in [Requests -> {"new", "running", "answered"}]
  /\ plannedOn \in [Requests -> Int]
  /\ segs \in [Requests -> Plans]
  /\ rctx \in [Requests -> Contexts]
  /\ gctx \in [Requests -> Contexts]
  /\ gerr \in [Requests -> {"nil"} \cup ErrorKinds]
  /\ worker \in [Requests -> [Slots -> {"off", "started", "returned", "done"}]]
  /\ DOMAIN out = Requests
  /\ \A r \in Requests : /\ DOMAIN out[r] = Slots
                         /\ \A i \in Slots : out[r][i] \in Results(query[r].metric)
  /\ DOMAIN answer = Requests
  /\ \A r \in Requests : answer[r] \in Answers(query[r].metric)
  /\ queryTotal \in [Sources -> [Metrics -> [Statuses -> Nat]]]
  /\ causes \in [Requests -> SUBSET ErrorKinds]

Answered(r, status) == phase[r] = "answered" /\ answer[r].status = status

\* A call is answered with data only when every segment of its plan delivered,
\* and with no data at all otherwise (query_service.go: "any segment fails,
\* the whole query fails").
AllOrNothing ==
  \A r \in Requests : phase[r] = "answered" =>
    IF answer[r].status = 200
      THEN /\ segs[r] # << >>
           /\ \A i \in Workers(r) : worker[r][i] = "done" /\ out[r][i].err = "nil"
      ELSE answer[r].rows = {} /\ answer[r].totals = Zero(query[r].metric)

\* A merged answer to source=auto counts every day of the range exactly once,
\* in the store the day belonged to when the call was planned, although the
\* clock and the export job moved while the segments were being read.
EveryDayOnce ==
  \A r \in Requests : Answered(r, 200) /\ query[r].source = "auto" =>
    \A d \in DaysOf(query[r].range) : \E i \in Workers(r) :
      /\ <<i, d>> \in answer[r].rows
      /\ Source(r, i) = SourceOfDay(d, plannedOn[r])
      /\ \A j \in Slots : <<j, d>> \in answer[r].rows => j = i

\* The error a call is answered with happened to that call: a segment that was
\* only interrupted because its sibling failed never decides the answer.  The
\* merge itself is the one cause inside the service.
ErrorsHaveCauses ==
  \A r \in Requests : phase[r] = "answered" /\ answer[r].err # "nil" =>
    \/ answer[r].err \in causes[r]
    \/ answer[r].err = "overflow" /\ \A i \in Workers(r) : out[r][i].err = "nil"

\* When the handler has answered, no goroutine of the call is left and its
\* group context has ended: nothing keeps a pooled connection for it.
NothingOutlivesTheAnswer ==
  \A r \in Requests : phase[r] = "answered" =>
    /\ \A i \in Slots : worker[r][i] \in {"off", "done"}
    /\ segs[r] # << >> => gctx[r] # "live"

\* The merge reports ErrOverflow exactly when a column's true total is no
\* int64; every other merged total is the true one.
MergeExact ==
  \A r \in Requests : phase[r] = "answered" /\ gerr[r] = "nil" /\ segs[r] # << >> =>
    LET total(c) == Subtotal(r, c, Len(segs[r]))
        columns == Columns[query[r].metric] IN
    IF answer[r].err = "overflow"
      THEN \E c \in columns : total(c) \notin Int64
      ELSE \A c \in columns : total(c) \in Int64 /\ answer[r].totals[c] = total(c)

\* data_query_total counts every finished segment once, under its own outcome:
\* the segments a sibling's failure interrupted too.
MetricsMatchSegments ==
  \A s \in Sources, m \in Metrics, st \in Statuses :
    queryTotal[s][m][st] =
      Cardinality({w \in Requests \X Slots :
        /\ worker[w[1]][w[2]] = "done"
        /\ Source(w[1], w[2]) = s /\ query[w[1]].metric = m
        /\ QueryStatus(out[w[1]][w[2]].err) = st})

\* The first error of a group and the first end of a context are final, and so
\* is an answer: a late result, a second failure or the timer changes nothing.
FirstOutcomeWins ==
  [][\A r \in Requests :
       /\ gerr[r] # "nil" => gerr'[r] = gerr[r]
       /\ rctx[r] # "live" => rctx'[r] = rctx[r]
       /\ phase[r] # "new" /\ gctx[r] # "live" => gctx'[r] = gctx[r]
       /\ phase[r] = "answered" => /\ answer'[r] = answer[r]
                                   /\ phase'[r] = "answered"
                                   /\ out'[r] = out[r]]_vars

\* A failed segment ends its call although no timer is running: the sibling is
\* interrupted instead of waited for.
FailFast == \A r \in Requests : gerr[r] # "nil" ~> phase[r] = "answered"

\* The design's table of status codes: 504 means that the request's context
\* timed out.
TimeoutStatusMeansRequestTimeout ==
  \A r \in Requests : Answered(r, 504) => rctx[r] = "deadline"

-----------------------------------------------------------------------------
(* Why these properties hold: an inductive invariant, call by call.  It does *)
(* not depend on the layout of the stores.                                   *)

\* The plan in force is the one made on the day the call was planned, and a
\* goroutine exists for each of its segments.
PlanInv(r) ==
  /\ phase[r] = "new" => segs[r] = << >> /\ gerr[r] = "nil"
  /\ phase[r] = "running" => segs[r] # << >>
  /\ segs[r] # << >> => segs[r] = Plan(query[r].source, query[r].range, plannedOn[r])
  /\ \A i \in Slots : worker[r][i] = "off" <=> i \notin Workers(r)

\* Errors and contexts: until a segment has failed, the group context ends only
\* with the request's; the first failure therefore has a cause of its own, and
\* only segments that report after it may carry a sibling's cancellation.
GroupInv(r) ==
  /\ rctx[r] # "live" => rctx[r] \in causes[r]
  /\ gerr[r] # "nil" => gerr[r] \in causes[r] /\ gctx[r] # "live"
  /\ gerr[r] = "nil" /\ gctx[r] # "live" /\ phase[r] = "running" => gctx[r] = rctx[r]
  /\ \A i \in Slots :
       out[r][i].err # "nil" =>
         /\ worker[r][i] = "done" => gerr[r] # "nil"
         /\ worker[r][i] = "returned" => out[r][i].err \in causes[r] \/ gerr[r] # "nil"

\* The answer is a function of what the goroutines left behind, and they are
\* gone: nothing the answer was made from can still change.
AnswerInv(r) ==
  phase[r] = "answered" =>
    /\ \A i \in Workers(r) : worker[r][i] = "done"
    /\ segs[r] = << >> => /\ answer[r] = ErrorAnswer(query[r].metric, "invalid")
                          /\ "invalid" \in causes[r] /\ gerr[r] = "nil"
    /\ segs[r] # << >> =>
         /\ gctx[r] # "live"
         /\ answer[r] = CASE gerr[r] # "nil" -> ErrorAnswer(query[r].metric, gerr[r])
                          [] gerr[r] = "nil" /\ MergeOverflows(r) ->
                               ErrorAnswer(query[r].metric, "overflow")
                          [] gerr[r] = "nil" /\ ~ MergeOverflows(r) -> MergedAnswer(r)

CallInv == \A r \in Requests : PlanInv(r) /\ GroupInv(r) /\ AnswerInv(r)

\* Every store keeps a day long enough for the calls planned before it moves,
\* and has it soon enough for the calls planned after.
Retention == MaxEtlLag <= HistoryLead /\ MaxMidnights <= RealtimeKeep

\* The clock, the export job and the running calls stay close together, and a
\* segment of source=auto that was answered has read all of its days.
ReadInv ==
  /\ etlDay <= today /\ today - etlDay <= MaxEtlLag
  /\ \A r \in Requests :
       /\ phase[r] = "running" => /\ plannedOn[r] <= today
                                  /\ today - plannedOn[r] <= MaxMidnights
       /\ query[r].source = "auto" =>
            \A i \in Workers(r) :
              worker[r][i] \in {"returned", "done"} /\ out[r][i].err = "nil" =>
                out[r][i].days = DaysOf(segs[r][i].range)

-----------------------------------------------------------------------------
(* The promise to the caller, and how the service keeps it. *)

\* Days of the range that the answer counts exactly once.
DaysOnce(r) ==
  {d \in DaysOf(query[r].range) :
     \E i \in Slots : /\ <<i, d>> \in answer[r].rows
                      /\ \A j \in Slots : <<j, d>> \in answer[r].rows => j = i}

Promise == INSTANCE QueryPromise WITH
  state <- [r \in Requests |-> IF phase[r] = "answered" THEN "answered" ELSE "pending"],
  reply <- [r \in Requests |-> [err |-> answer[r].err, days |-> DaysOnce(r)]]

\* The service keeps the promise: every step of the detailed model is a step of
\* the promise or is invisible to the caller.
KeepsThePromise == Promise!PromiseSpec

===============================================================================
