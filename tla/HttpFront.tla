------------------------------- MODULE HttpFront -------------------------------
(***************************************************************************)
(* A request's way through the handlers around the query service:          *)
(* HTTPMiddleware (metrics), withRecovery, withRequestID, withAccessLog,   *)
(* withTimeout, withAPIKey, captureRoute and the routes, down and up       *)
(* again, also when the handler panics; and the readiness probe, which     *)
(* pings one repository after the other under a budget of its own.         *)
(*                                                                         *)
(* Requests share the gauge and the counters.  The answers of the business *)
(* handlers are those of QueryService.  Time is counted in ticks, and only *)
(* the probe spends any.                                                   *)
(***************************************************************************)
EXTENDS Integers, Sequences, FiniteSets, Errors, Inputs

CONSTANTS
  Requests,
  Delays,     \* the ticks a repository may need to answer a ping
  Budget      \* ReadyTimeout, in ticks

ASSUME FrontAssumption ==
  /\ IsFiniteSet(Requests)
  /\ Delays \subseteq Nat
  /\ Budget \in Nat \ {0}

\* A repository that only ever returns an error: slower than any budget.
Down == Budget + 1

\* uniqueRepositories, in its order.
Stores == << "hive", "trino", "starrocks" >>

\* The path a client can ask for: those of the routes, and any other.
Business == {"retail", "renovation"}
Public == {"live", "ready", "metrics"}
Targets == Business \cup Public \cup {"unknown"}

VARIABLES
  target,    \* what each request asks for
  get,       \* its method is one the routes take, GET or HEAD
  key,       \* its X-API-Key is the configured one
  delay,     \* each repository: the ticks a ping takes, or Down
  at,        \* where the request is
  sent,      \* the status on the wire, 0 before
  seen,      \* the status statusWriter kept for the access log
  recorded,  \* the status statusRecorder kept for the metrics
  meta,      \* withRequestID set the header and the context value
  idSent,    \* the envelope of an error carries the request id
  logged,    \* the statuses of the request's access log lines
  pinged,    \* the repositories that answered the probe
  spent,     \* the ticks of the probe's budget that are gone
  gauge,     \* data_http_in_flight_requests
  total      \* data_http_requests_total, by route label and status (not by method)

vars == << target, get, key, delay, at, sent, seen, recorded, meta, idSent, logged,
           pinged, spent, gauge, total >>

Codes == {200, 400, 401, 404, 405, 500, 503, 504}

Init ==
  /\ target \in [Requests -> Targets]
  /\ get \in [Requests -> BOOLEAN] /\ key \in [Requests -> BOOLEAN]
  /\ delay \in [{Stores[i] : i \in DOMAIN Stores} -> Delays \cup {Down}]
  /\ at = [r \in Requests |-> "outside"]
  /\ sent = [r \in Requests |-> 0]
  /\ seen = [r \in Requests |-> 200]
  /\ recorded = [r \in Requests |-> 200]
  /\ meta = [r \in Requests |-> FALSE]
  /\ idSent = [r \in Requests |-> FALSE]
  /\ logged = [r \in Requests |-> << >>]
  /\ pinged = [r \in Requests |-> << >>]
  /\ spent = [r \in Requests |-> 0]
  /\ gauge = 0
  /\ total = [t \in Targets |-> [c \in Codes |-> 0]]

World == << target, get, key, delay >>
Metrics == << gauge, total >>
Probe == << pinged, spent >>
Written == << sent, seen, recorded, idSent >>

Move(r, from, to) == at[r] = from /\ at' = [at EXCEPT ![r] = to]

\* The request id an error envelope carries, if there is one by now.
\* Fault: it is taken from the context of the outer request only.
IdFromContext(r) == meta[r] /\ at[r] # "recovering"

IdKnown(r) == meta[r]

\* A handler below both recorders writes its status.
Write(r, code) ==
  /\ sent' = [sent EXCEPT ![r] = code]
  /\ seen' = [seen EXCEPT ![r] = code]
  /\ recorded' = [recorded EXCEPT ![r] = code]
  /\ idSent' = [idSent EXCEPT ![r] = code # 200 /\ IdKnown(r)]

-----------------------------------------------------------------------------
(* On the way in *)

\* The mux has a handler for the path and the method.
Routed(r) == target[r] # "unknown" /\ get[r]

\* The gauge goes up; the id is generated, into header and context.
Enter(r) ==
  /\ Move(r, "outside", "checking")
  /\ gauge' = gauge + 1
  /\ meta' = [meta EXCEPT ![r] = TRUE]
  /\ UNCHANGED << World, Written, logged, Probe, total >>

\* withAPIKey goes by the path.
\* Fault: it is around the routes only, so that the mux answers first.
RoutesMayPass(r) == target[r] \in Public \/ ~ Routed(r) \/ key[r]

MayPass(r) == target[r] \in Public \/ key[r]

Unauthorized(r) ==
  /\ ~ MayPass(r)
  /\ Move(r, "checking", "logging")
  /\ Write(r, 401)
  /\ UNCHANGED << World, meta, logged, Probe, Metrics >>

\* The mux finds no pattern for the path, or none for the method.
NoRoute(r) ==
  /\ MayPass(r) /\ ~ Routed(r)
  /\ Move(r, "checking", "logging")
  /\ Write(r, IF target[r] = "unknown" THEN 404 ELSE 405)
  /\ UNCHANGED << World, meta, logged, Probe, Metrics >>

\* live, and the metrics handler.
Static(r) ==
  /\ MayPass(r) /\ Routed(r) /\ target[r] \in {"live", "metrics"}
  /\ Move(r, "checking", "logging")
  /\ Write(r, 200)
  /\ UNCHANGED << World, meta, logged, Probe, Metrics >>

\* parseQuery refuses.
RefuseQuery(r) ==
  /\ MayPass(r) /\ Routed(r) /\ target[r] \in Business
  /\ AcceptedQueries # Queries
  /\ Move(r, "checking", "logging")
  /\ Write(r, 400)
  /\ UNCHANGED << World, meta, logged, Probe, Metrics >>

\* The service is called; a panic of a segment's goroutine is out of reach of
\* withRecovery, which is on another stack.
CallService(r) ==
  /\ MayPass(r) /\ Routed(r) /\ target[r] \in Business
  /\ \E panics \in {Panics(q) : q \in AcceptedQueries} :
       Move(r, "checking", IF panics THEN "lost" ELSE "querying")
  /\ UNCHANGED << World, Written, meta, logged, Probe, Metrics >>

BeginProbe(r) ==
  /\ MayPass(r) /\ Routed(r) /\ target[r] = "ready"
  /\ Move(r, "checking", "probing")
  /\ UNCHANGED << World, Written, meta, logged, Probe, Metrics >>

-----------------------------------------------------------------------------
(* Handlers *)

\* The service answers.
BusinessAnswer(r) ==
  /\ Move(r, "querying", "logging")
  /\ \E e \in {"nil"} \cup ErrorKinds : Write(r, HttpStatus(e))
  /\ UNCHANGED << World, meta, logged, Probe, Metrics >>

\* A panic of the service or of a ping, before anything was written, unwinds
\* through captureRoute and withAccessLog, which do nothing then.
Panic(r) ==
  /\ \E from \in {"querying", "probing"} : Move(r, from, "recovering")
  /\ UNCHANGED << World, Written, meta, logged, Probe, Metrics >>

NextStore(r) == Stores[Len(pinged[r]) + 1]

\* The ticks the probe may still wait.
\* Fault: every ping has the whole budget.
BudgetPerPing(r) == Budget

Remaining(r) == Budget - spent[r]

\* At the very end of the budget the answer and the timer race.
InTime(r, s) == delay[s] # Down /\ delay[s] <= Remaining(r)
TooLate(r, s) == delay[s] >= Remaining(r)

\* readiness.Ping: the next repository answers in time.
PingAnswered(r) ==
  /\ at[r] = "probing"
  /\ Len(pinged[r]) < Len(Stores)
  /\ InTime(r, NextStore(r))
  /\ pinged' = [pinged EXCEPT ![r] = Append(@, NextStore(r))]
  /\ spent' = [spent EXCEPT ![r] = @ + delay[NextStore(r)]]
  /\ UNCHANGED << World, at, Written, meta, logged, Metrics >>

\* The next repository fails, or the budget is over first.
\* Fault: a failed repository is skipped.
SkipFailed(r) ==
  /\ Len(pinged[r]) < Len(Stores)
  /\ TooLate(r, NextStore(r))
  /\ pinged' = [pinged EXCEPT ![r] = Append(@, NextStore(r))]
  /\ at[r] = "probing"
  /\ UNCHANGED << World, at, Written, meta, logged, spent, Metrics >>

PingFailed(r) ==
  /\ Len(pinged[r]) < Len(Stores)
  /\ TooLate(r, NextStore(r))
  /\ Move(r, "probing", "logging")
  /\ Write(r, 503)
  /\ UNCHANGED << World, meta, logged, Probe, Metrics >>

Ready(r) ==
  /\ Len(pinged[r]) = Len(Stores)
  /\ Move(r, "probing", "logging")
  /\ Write(r, 200)
  /\ UNCHANGED << World, meta, logged, Probe, Metrics >>

-----------------------------------------------------------------------------
(* On the way out *)

\* withAccessLog, on a normal return only.
Log(r) ==
  /\ Move(r, "logging", "counting")
  /\ logged' = [logged EXCEPT ![r] = Append(@, seen[r])]
  /\ UNCHANGED << World, Written, meta, Probe, Metrics >>

\* withRecovery writes above the access log's recorder and below the metrics'.
Recover(r) ==
  /\ Move(r, "recovering", "counting")
  /\ sent' = [sent EXCEPT ![r] = 500]
  /\ recorded' = [recorded EXCEPT ![r] = 500]
  /\ idSent' = [idSent EXCEPT ![r] = IdKnown(r)]
  /\ UNCHANGED << World, seen, meta, logged, Probe, Metrics >>

\* routeLabel falls back to the path: the mux's pattern is set on a copy of the
\* request that withRequestID made.
Count(r) ==
  /\ Move(r, "counting", "leaving")
  /\ total' = [total EXCEPT ![target[r]][recorded[r]] = @ + 1]
  /\ UNCHANGED << World, Written, meta, logged, Probe, gauge >>

\* The deferred Dec.
Leave(r) ==
  /\ Move(r, "leaving", "gone")
  /\ gauge' = gauge - 1
  /\ UNCHANGED << World, Written, meta, logged, Probe, total >>

-----------------------------------------------------------------------------

Step(r) ==
  \/ Enter(r) \/ Unauthorized(r) \/ NoRoute(r) \/ Static(r)
  \/ RefuseQuery(r) \/ CallService(r) \/ BeginProbe(r)
  \/ BusinessAnswer(r) \/ Panic(r)
  \/ PingAnswered(r) \/ PingFailed(r) \/ Ready(r)
  \/ Log(r) \/ Recover(r) \/ Count(r) \/ Leave(r)

Next == \E r \in Requests : Step(r)

Spec == Init /\ [][Next]_vars

-----------------------------------------------------------------------------
(* Properties. *)

Places == {"outside", "checking", "querying", "lost", "probing", "recovering",
           "logging", "counting", "leaving", "gone"}

\* Every variable keeps the shape the code gives it.
TypeOK ==
  /\ target \in [Requests -> Targets]
  /\ get \in [Requests -> BOOLEAN] /\ key \in [Requests -> BOOLEAN]
  /\ \A s \in DOMAIN delay : delay[s] \in Delays \cup {Down}
  /\ at \in [Requests -> Places]
  /\ sent \in [Requests -> Codes \cup {0}]
  /\ seen \in [Requests -> Codes] /\ recorded \in [Requests -> Codes]
  /\ meta \in [Requests -> BOOLEAN] /\ idSent \in [Requests -> BOOLEAN]
  /\ \A r \in Requests : logged[r] \in Seq(Codes) /\ Len(logged[r]) <= 1
  /\ \A r \in Requests : \E n \in 0 .. Len(Stores) : pinged[r] = SubSeq(Stores, 1, n)
  /\ spent \in [Requests -> 0 .. Budget]
  /\ gauge \in 0 .. Cardinality(Requests)
  /\ total \in [Targets -> [Codes -> Nat]]

\* What KeepsRequestPromise below says step by step, as states: HttpFrontProofs has the
\* theorems.
Inside == Requests \ {r \in Requests : at[r] \in {"outside", "gone"}}

\* The in-flight gauge is the number of requests inside, whatever panics.
GaugeCountsInside == gauge = Cardinality(Inside)

\* data_http_requests_total counts every finished request once, under the
\* status its client received, a recovered panic's 500 included.
CountsMatchAnswers ==
  \A t \in Targets, c \in Codes :
    total[t][c] = Cardinality({r \in Requests :
      at[r] \in {"leaving", "gone"} /\ target[r] = t /\ sent[r] = c})

\* The access log tells the status the client received; only a request whose
\* handler panicked has no line.
LogMatchesAnswer ==
  \A r \in Requests : at[r] \in {"counting", "leaving", "gone"} =>
    \/ logged[r] = << sent[r] >>
    \/ logged[r] = << >> /\ sent[r] = 500

\* The probe answers 200 only if every repository answered, all within the one
\* budget.
ReadyMeansAnswered ==
  \A r \in Requests : target[r] = "ready" /\ sent[r] = 200 =>
    /\ \A s \in DOMAIN delay : delay[s] \in Delays
    /\ delay["hive"] + delay["trino"] + delay["starrocks"] <= Budget

\* No query that the handlers accept makes a statement builder panic: what the
\* domain's patterns let pass, the builder's own check lets pass, so that no client
\* can end the process.
AcceptedQueriesNeverPanic == \A r \in Requests : at[r] # "lost"

\* Every error a handler or the recovery writes carries the request id of the
\* response header (the design: with request_id; the mux writes its own 404 and 405).
ErrorsCarryRequestId ==
  \A r \in Requests : sent[r] \in Codes \ {200, 404, 405} => idSent[r]

\* The design: ready pings the adapters in parallel, so a probe succeeds when
\* each of them answers within the budget.
ParallelProbe ==
  \A r \in Requests : target[r] = "ready" /\ sent[r] = 503 =>
    \E s \in DOMAIN delay : delay[s] >= Budget

-----------------------------------------------------------------------------
(* What the layer promises. *)

Stage(place) ==
  IF place = "outside" THEN "new"
  ELSE IF place \in {"checking", "querying", "probing", "recovering"} THEN "open"
  ELSE IF place = "logging" THEN "answered"
  ELSE IF place = "counting" THEN "told"
  ELSE IF place = "leaving" THEN "counted"
  ELSE place

Promise == INSTANCE RequestPromise WITH
  stage <- [r \in Requests |-> Stage(at[r])], answer <- sent, line <- logged,
  inFlight <- gauge, counts <- total

\* The chain of handlers keeps the promise: whatever panics and however requests
\* interleave, each gets one answer that fits it, which is told and counted as given.
KeepsRequestPromise == Promise!Spec

===============================================================================
