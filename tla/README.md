# A verification project for the home-improvement query API

The repository is a read-only HTTP service in Go. It answers two questions about
an organisation and a range of days (retail orders, renovation funnel) from three
stores: Hive or Trino keep closed days, StarRocks keeps the recent ones. With
`source=auto` the service splits the range at a realtime cutoff, asks two stores
concurrently and adds their answers up.

This directory holds TLA+ models of the service, the TLC configurations that
check them on small instances, and TLAPS proofs of their main properties for all
instances. `PROJECT.json` is the index: components, runs, mutants, the source
lines of every definition, findings, hazards, theorems.

    tlc -workers 2 -config MCQueryService.cfg MCQueryService.tla
    tlapm QueryServiceProofs.tla

## 1. Inventory

| Component | State | Operations | Where it is hard |
| --- | --- | --- | --- |
| `internal/app` QueryService | none of its own; per call: the plan, `parts`, an errgroup with a context | `Plan`, `RetailSummary`, `RenovationFunnel`, `safeAddInt64` | segments run concurrently; first error cancels the sibling; the clock is read once; 64-bit sums |
| `internal/domain` | none | `NewDateRange`, `ParseSource`, `ValidateOrgID` | natural days are instants in `APP_TIMEZONE`; clock changes |
| `internal/adapter/sqlrepo` | a `*sql.DB` | statement per query, `wrapErr`, `Ping` | errors are reclassified on their way |
| `internal/adapter/memory` | none | `eachDay` loop, context check per day | loop over days of 23, 24, 25 hours |
| `internal/httpapi` | the API key's digest | recovery, request id, access log, timeout, API key, routes, handlers, readiness | context of a request; mapping of errors; panics |
| `internal/observability` | counters, histograms, in-flight gauge | `ObserveQuery`, `HTTPMiddleware` | shared by all requests |
| `internal/bootstrap` | the opened databases (`closers`), `sync.Once` | `buildWith`, `realRepositories`, `pingRepositories`, `Close`, readiness `Ping` | startup may fail anywhere; concurrent pings; closing exactly once |
| `cmd/server` | the server, the listener, `serveErr` | `run` | signal, Serve error and shutdown timeout race |
| `internal/database` | pools inside `database/sql` | `OpenHive`, `OpenTrino`, `OpenStarRocks`, `ConfigurePool`, `loadTLS` | connections contended for by queries and probes; files read after they were looked for |
| `internal/config` | none | `Load` | some sixty checks in order, whose results other packages check again with guards of their own |
| `scripts/`, `visualizations/`, `data/` | none | a chart generator | unrelated to the service |

How they interact: `main` calls `run`, which loads the configuration, has
`bootstrap` open, ping and wire everything, listens and serves. Every request
passes the middleware and reaches a handler, which parses the query into a
domain value and calls `QueryService`. That starts one goroutine per segment,
each of which calls a repository under the group's context; metrics are updated
by every goroutine. The request's context (client gone, `QUERY_TIMEOUT`) is the
parent of the group's. When `run` ends it closes the databases under whatever
handlers are left.

What makes each part correct:

* QueryService: all segments or no data; every requested day exactly once; the
  error of an answer is its root cause; nothing outlives the answer; exact sums
  or `ErrOverflow`; each segment is counted once in the metrics; every call ends.
* Dates: planning on instants is planning on days; a loop over a range visits
  each of its days once; `MAX_QUERY_DAYS` is the limit, no more and no less.
* Bootstrap and lifecycle: every opened database is closed once, newest first,
  wherever startup fails; nobody is served before the startup pings succeeded;
  databases are closed after the handlers, unless shutdown timed out or Serve
  failed; a clean exit has lost no request; signal and startup always end.
* Configuration: what `Load` accepts is never refused by a constructor later on; an
  error names a setting that is at fault; TLS is as configured or not at all.
* Pools: no connection is lost and no limit exceeded; waiting for a connection is
  not a failure of the store; hanging history leaves the realtime store alone.

The `hazards` list of `PROJECT.json` names each hard spot with its line and the
properties that watch it.

## 2. Modules

| Module | Models | Used by |
| --- | --- | --- |
| `Errors` | error sentinels, `wrapErr`, `queryStatus`, `mapDomainError` | `QueryService`, `QueryPromise`, `HttpFront`, `Pools` |
| `Inputs` | parameters: `ParseSource`, `ValidateOrgID`, `parseQuery`, and the quoting of Hive literals | `HttpFront`, `HttpFrontProofs` |
| `Planning` | `Plan` on days, `safeAddInt64`, the reference definitions `SourceOfDay` and `CoversOnce` | `QueryService`, `Calendar` |
| `QueryService` | a call from `QueryService` to the HTTP status, with its environment | `MCQueryService`, `QueryServiceProofs` |
| `QueryPromise` | what a call promises its caller, without goroutines | `QueryService` (refinement) |
| `Calendar` | `NewDateRange`, `Plan` and `eachDay` on instants | `MCCalendar`, `CalendarProofs` |
| `Lifecycle` | `buildWith`, `run`, `Application.Close` | `MCLifecycle`, `LifecycleProofs` |
| `ProcessPromise` | what the process promises whoever starts it and its clients | `Lifecycle` (refinement) |
| `HttpFront` | the middleware around the service, panics, the readiness probe | `MCHttpFront`, `HttpFrontProofs` |
| `RequestPromise` | what the HTTP layer promises of a request, without its handlers | `HttpFront` (refinement) |
| `Pools` | the connection pools under queries and probes | `MCPools`, `PoolsProofs` |
| `Settings` | `config.Load` as the ordered list of its checks | `Startup` |
| `Startup` | from the environment to a wired service: `Load`, `loadTLS`, `ConfigurePool`, the constructors | `MCStartup`, `StartupProofs` |
| `PlanningProofs`, `QueryServiceProofs`, `CalendarProofs`, `LifecycleProofs`, `HttpFrontProofs`, `PoolsProofs`, `StartupProofs` | theorems | |

### QueryService

One call `r` has a `phase`, a plan `segs[r]`, and per segment a goroutine
`worker[r][i]` that is `started`, has a result (`returned`, in `out[r][i]`), and
has reported into the errgroup (`done`). Looking up the repository and its
answer are one step, reporting is another: the order in which segments answer
and the order in which they reach `errOnce` are independent, as they are in the
code between `repo.RetailSummary` returning and the closure returning. `gerr` and
`gctx` are the group's first error and context, `rctx` the request's context.
`Deadline` is `withTimeout`; `ClientCancels` is net/http cancelling the request.

A result carries the *days* whose rows a store summed (the data the properties
tell apart) and the column totals. Retail has one checked column, renovation six;
the amount is a decimal without bound and is left out.

The stores are outside the code: `Midnight` and `ExportDay` move the clock and
the job that moves closed days from StarRocks to history, and `Holds` says which
days a store has. `HistoryLead` and `RealtimeKeep` are how long a day is in both
stores around its export. The property `EveryDayOnce` needs that overlap; the
proof shows exactly how much (`Retention`).

`causes` is a history variable: what really went wrong outside, per call.

### QueryPromise

Pending, then one reply: all requested days each counted once (`source=auto`),
what the store has (a named source), or an error with a cause and no data.
`KeepsThePromise` maps a `QueryService` state to it: the phase, the error, and
`DaysOnce`, the days the answer counts exactly once.

### Calendar

Hours instead of nanoseconds, zones with one transition, and Go's published
algorithm for `time.Date` (guess, look again across the transition). A call goes
`new`, `parsed`, `reading`, `done`; `cursor` is the variable of `eachDay`. The
segments are read one after the other: they share nothing in this model.
`SegmentsFollowCutoff` relates it to `Planning!Plan` on days, which justifies that
`QueryService` speaks of days.

### Lifecycle

`stage` is where `main` is; pings, Serve, handlers and the two timers are
processes of their own. `closers` grows as databases are opened. Two loops close them, in
stages of their own: `closeAll` in `realRepositories` ("undoing"), after which `buildWith` returns, and
`Application.Close` ("closing"), called by the `cleanup` closure or at the end of `run`. Neither
takes anything out of `closers`; `left` is what the running loop has still to close, so that a path
through both would close databases twice (the mutant `CleanUpToo` does). No path calls
`Application.Close` twice, so its `sync.Once` has nothing to hold back. `errs` is what `run` joins, and
the history variable `failed` is what has failed, a ping, Serve or a Close, whether `main` has
heard of it or not. `http.Server` is external: a
server that was shut down refuses to serve, Shutdown waits until no handler is
active or its context ends. The moment between the kernel's accept and net/http
registering a connection is inside net/http and is not modelled.

`ProcessPromise` is the process without databases, goroutines and timers: starting,
serving, stopping, closing, exited. Nobody is served before every store was
checked, and nobody if one failed; after a stop nobody is taken; the exit status is a success if and only if
nothing has failed, so that a clean exit was asked for and has answered everybody it took; a client meets a
closed database only in a process that goes on to report a failure. `KeepsProcessPromise` maps the
stages of `main` to these, `Checked` to the pings, `clean` to the absence of failures in `failed`, and
`status` to the errors in `errs`: an error that is dropped on its way to `main` is a step the promise does
not allow.

### HttpFront

`at` is the place of a request in the chain of handlers; on the way out each
layer has a step of its own. A status is written through two recorders,
`statusWriter` for the access log and `statusRecorder` for the metrics; `seen` and
`recorded` are what they kept and `sent` is what the client got. A panic skips the
access log and is answered by `withRecovery`, between the two recorders and with
the outer request, whose context has no request id. `target`, `get`, `key` and `delay` are
inputs: what is asked, and how, whether the key fits, how long each repository takes.

What a business handler answers is any result of `QueryService`; what it refuses,
and whether a statement builder would panic on what it accepts, is computed in
`Inputs` from texts of every mixture of characters. Such a panic happens in a
goroutine of a segment, out of reach of `withRecovery`, and ends the process: the
place `lost`. `withAPIKey` and the route labels of the metrics go by the path, the mux by path and
method (`get`), so a wrong method passes without a key where the path is public, and gets 405.
A client that leaves during a probe is in `Pools`.

`RequestPromise` is the layer without handlers, recorders, panics and probes: a request is
open, gets one answer that fits what it asks for and who asks (nothing but 401 without
the key, 404 and 405 only from the mux), is told in the access log and counted as answered, and gone. A request that
breaks down gets a 500 and no line. `Stage` maps the places of the chain to the stages of a
request: what `checking`, `querying`, `probing` and `recovering` do is all inside "open". The promise
takes `sent`, `logged`, the gauge and the counters as they are, so that no recorder may
deviate from what the client got.

### Pools

A client is a business query, which asks the pools of its plan's stores at once, or
a probe, which asks one after the other. Each use of a pool is `waiting`, `holding` a
connection or `done`; `inUse` is what `database/sql` counts against `MaxOpenConns`.
`database/sql` is external and modelled from how the code uses it: `QueryRowContext`
and `PingContext` wait for a connection until their context ends, `Row.Scan` and the
end of a ping give it back on every path. Which waiter a released connection goes to is
left open. The first error, the timer or a leaving client ends the context of
all uses of a request. `trouble` is a history variable: what came from outside.

### Settings and Startup

`Checks` is `Load` read as a list: one entry per early return, in order, with the settings
its error names; the first that fails is the answer of `Load`. Texts are members of a
small set with what they parse to. `Startup` adds time: the disk may change between
the `os.Stat` of `loadTLSFiles` and the `os.ReadFile` of `loadTLS`, and whoever runs the
service corrects what an error names and starts it again. The later guards
(`validateIdentifiers`, `buildWith`, `NewQueryService`, `httpapi.New`) are written down a second time, as
in the code, and lead to the stage `broken`, which must be unreachable. Opener
errors that do not come from a file (registering a TLS name, parsing a
connection string) are a case of `BuildFails` in `Lifecycle`.

## 3. Runs

| Run | Bounds | Shows |
| --- | --- | --- |
| `query_core` | one call, any source, ranges in days 7-11 around the cutoff (day 9, then 10), two midnights, int64 of three bits, every driver error | safety, refinement of the promise |
| `query_shared` | two calls, crossing ranges, a missing repository | shared metrics; `FailFast` without a timer |
| `calendar` | eleven zones, days 7-12 with the transition on day 10, 121 clock readings, limit of 4 days | dates across clock changes; every pass of a loop leaves one day less |
| `lifecycle` | two connections, both modes | startup, shutdown, closing by either loop; safety, liveness, refinement of the promise: no failure is lost on the way to the exit status |
| `http_front` | two requests (symmetric), every path and kind of method, any parameters, pings of 0 or 1 tick or failing, a budget of 2 | every step keeps `RequestPromise`, so gauge, counters and access log agree with what clients receive; so do request ids and the probe; no accepted parameter ends the process |
| `pools` | two queries, one for the realtime store and one that needs the historical, a probe, two stores of one connection each | nothing is lost, busy is not unavailable, whoever waits waits for somebody who can go on, every request is answered, history cannot block realtime |
| `startup` | both modes with any two settings unusable, blank or at a limit; any TLS settings of one store; two changes of the disk | what is accepted can be served, limits and TLS are real, a corrected error is gone, repairs converge |
| `strict_layout`, `probe_parallel`, `timeout_status`, `calendar_limit`, `calendar_west_gap` | smaller versions of the above | findings, see section 5 |

Why the bounds are enough. A plan has at most two segments, so one call shows every
interleaving of its goroutines; calls share only the clock, the stores and the
metrics, and two calls show the sharing. Ranges lie before, at, across and after
the cutoff with one day to spare. Three-bit integers with totals at both ends
overflow in both directions and in the first and last column. Two connections
are one that finishes and one that hangs. Requests of `HttpFront` meet only in the
gauge and the counters. Three pings of one tick exceed a budget of two, while
each alone is well within it. With pools of one connection two clients always
contend, and three can wait in a circle of two pools if anything could. Two
deviating settings show every pair of checks in both orders; two changes of the
disk lose a file and bring it back. A text of an organisation is its length, at
each side of the limits, and the set of kinds of its characters, which is all
that both validators look at. A call may live through one midnight
(`MaxMidnights`) and the export job be one day late (`MaxEtlLag`): the proofs remove
these bounds.

Each property has a mutant in `PROJECT.json`: a plausible error in one modelled
definition (written just above the definition as a *Fault*) that TLC then
refutes the property for.

Fairness. `ServiceFairness`: the Go scheduler runs the service's goroutines, and a
repository whose context has ended returns (the memory repository looks at it
every day; `database/sql` abandons the query). No store ever has to answer.
In `Pools`: the same, and a waiter gets a connection if
connections keep being released (strong fairness of `Acquire`: `database/sql` hands a
released connection to one of the waiters, so none is passed over for ever);
`EveryRequestAnswered` assumes in addition that the timers fire, and
`HistoryCannotBlockRealtime`, which does without timers, that the realtime store answers:
both are premises of the property, not of the model. In `Startup`: `main` runs on, and
errors are acted on. In `Lifecycle`: main's own steps, the two
timers, pings whose context has ended, and Serve returning after Shutdown; no
signal, handler or ping has to come or finish. In `Calendar`: the one goroutine
of the call. Deadlock is not checked where the system ends: calls are
answered, the process exits.

## 4. Proofs

`PlanningProofs`, for every range, window, day and integer width:

* `PlanCoversOnce`: the plan of `source=auto` covers each requested day exactly once,
  in the right store, and nothing else (by the four cases of `Plan`).
* `SafeAddGuards`: the guards of `safeAddInt64` hold exactly when the sum does not fit.

`QueryServiceProofs`, for every number of calls, every query, store content, driver
error and clock, from `PlanningAssumption` and `ServiceAssumption`:

* `TypeCorrect`, then `CallsConsistent`: `CallInv` is inductive relative to `TypeOK`.
  `AllOrNothing` and `ErrorsHaveCauses` are not inductive: an error becomes the
  answer several steps after it was caused. `GroupInv` is what is missing: as long
  as no segment has reported an error, the group's context ends only with the
  request's, so the first error to be reported has a cause of its own. `AnswerInv`
  says that an answer is a function of what the goroutines left and that nothing
  it was made from can still change.
* From `CallInv`: `NoPartialData`, `RootCauseReported`, `StructuredConcurrency`,
  `MergeIsExact`, and the action property `OutcomesAreFinal`.
* `EveryDayCountedOnce`: with `ReadInv` (the clock, the export job and running calls stay
  close) and `PlanCoversOnce`, `Retention => Spec => []EveryDayOnce`: a day must stay in
  the realtime store for as many midnights as a call may live through, and be in
  history as early as the export job may be late. The run `strict_layout` shows
  that without retention it is false.
* `ServiceKeepsPromise`: under `Retention`, every step maps to a step of `QueryPromise` or to a
  stutter.
* `SegmentsAreCounted`: `MetricsInv` adds to `MetricsMatchSegments` that the goroutines that
  finished under each label are finitely many. It needs no bound on the number of
  calls: each step ends at most one goroutine.
* `TimeoutStatusUpToDrivers`: where no driver returns a deadline error of its own
  (`DriversKeepNoTime`), 504 does mean the request's own timeout. The run
  `timeout_status` shows that without this hypothesis it does not.

`CalendarProofs`, for every range, window, clock and set of zones:

* `DateFinds`: `time.Date` finds any wall clock the zone shows, on whichever side of the
  transition it first guesses. `CalendarTypes` needs nothing else.
* Under `ZonesKeepMidnights` (no change of the clock skips a midnight or repeats a whole
  day): `CallsReadEachDayOnce`, `AdaptersReadTheSameDays`,
  `InstantsPlanAsDays` and `LegalRangesAccepted`. `RangeInv` says that whatever was parsed lies
  on midnights, `LoopInv` that `cursor` is the midnight of the next day to read and
  that the days before it have been read, each once. The hypothesis excludes zones
  that skip a midnight, such as those of `calendar_west_gap`; TLC evaluates
  it for the zones of the run `calendar` (`ZonesAreSafe` in `MCCalendar`).
* Without it: `SkippedMidnight` says what the midnight becomes when the clock skips it, 01:00 of
  its day or, west of Greenwich, 23:00 of the day before. `CutoffAfterSkippedMidnight`: on such a
  day in the east the cutoff of a window of several days is at 01:00, and a range that ends
  on the first day of the window is planned for the historical store. So
  `InstantsPlanAsDays` needs its hypothesis on both sides of Greenwich.
* `LoopsAdvanceDayByDay`, under the same hypothesis: every step of a reading call
  leaves exactly one day less to read in its segment, or leaves a segment that has none
  left. It is the safety half of `LoopsEnd`, for ranges of any length.
* `LimitHolds` and `LimitMissedByOne`: the limit on days holds where clocks are not
  put forward, and is missed by one day at most elsewhere.

`LifecycleProofs`, for any number of connections:

* `StagesConsistent`: `LInv` ties the stage of `main` to pings, Serve and handlers. The
  point of it is that a handler that is still active when the databases are about
  to be closed has been given up by Shutdown or by a failed Serve (`HandlersInv`);
  `DatabasesOutliveHandlers` follows. `ReportInv` says which failures `main` may not have heard of
  yet: that of a ping it waits for, and that of Serve until `serveErr` is read; so none is left when
  the process exits (`FailuresAreReported`).
* `LedgerKeeps`: at any time the first `k` of `n` opened databases are open and the others
  have been closed in reverse order, and a closing loop has `k` left. `EveryDatabaseClosed` and
  `PingsHaveDatabases` follow.
* `ProcessKeepsPromise`: from `LInv`, every step maps to a step of `ProcessPromise` or a stutter.

`PoolsProofs`, for any clients, stores, plans and limits, from `PoolsAssumption`:

* `PoolsConsistent`: `PInv` says who may wait or hold (`UsesInv`: a running request, a probe
  for one store at a time and not after an error), that each pool's count is
  the number of its holders (`AccountsInv`), and that every error has a cause
  (`TroubleInv`). `PoolsTypes`, `NoConnectionLost` and `WaitingIsNoFailure` follow.
* `NobodyWaitsForNobody`: a request that cannot end or go on by itself has a use that waits or
  holds, and a full pool is held by other running requests. Missing from `PInv` is that a
  probe has always asked a prefix of its stores (`AskedInv`: the last one asked is its
  frontier); a full pool has a holder because limits are positive. It is the safety half of `EveryRequestAnswered`:
  there is never a circle of requests that wait for each other, whatever the plans.

`HttpFrontProofs`, for any finite number of requests, any delays and any budget:

* `AcceptedAreSafe`: what `ValidateOrgID` lets pass, the statement builder's own check lets
  pass; so `CallService` never leads to `lost` (`NoRequestIsLost`).
* `FrontInv` has three parts. `WrittenInv` says what each place in the chain implies
  about the status on the wire, the two recorders and the access log; `ProbeInv`
  that the spent budget is the time of the repositories that have answered;
  `MetricsInv` is the gauge and the counters, as cardinalities. From it: `FrontTypes`,
  `GaugeIsExact`, `CountersAreExact`, `LogIsTrue`, `ReadyIsTrue`, `ErrorsAreTraceable`.
* `FrontKeepsPromise`: with `PassedInv` (who is past the key check may be there), every step maps to
  a step of `RequestPromise` or a stutter.
* `FailedProbesWereSlow`: a probe answers 503 only if the pings together take the budget.
  Hence `QuickStoresProbeAsDesigned`: if no answer takes a third of the budget, the serial
  probe fails only where the parallel one of the design would.

`StartupProofs`, for any environment and disk, changing any number of times:

* `AcceptedSettings`: if some check of `Load` fails there is a first one that does, and it names
  a setting; so when `Load` refuses nothing, every check passed. One lemma
  for each group of checks then says what that means for the values.
* `StartupInv`: from `opening` on the configuration is servable, and every opened database is
  `AsConfigured`. `AcceptedStarts`, `OpenedPoolsAreBounded` and `TLSIsNeverDropped` follow.
* `ErrorsAreCorrectable`: what `Repair` makes of the environment and the disk passes every check that
  names only corrected settings (one lemma for each group of checks). Where a check may
  fail for a setting it does not name, `TRINO_QUERY_TIMEOUT` with an unusable
  `QUERY_TIMEOUT` as its default, an earlier check names that one (`FailsFirst`). It uses `StartupAssumption`:
  there is a file, and no file is called "". It is the safety half of `RepairsConverge`.

Only model-checked: the liveness properties `FailFast`, `LoopsEnd`, `SignalEnds`, `StartupEnds`,
`EveryRequestAnswered`, `HistoryCannotBlockRealtime` and `RepairsConverge`, which are out of the
prover's reach; of three of them the safety half is proved, as said above. Every safety invariant and action property of a passing run is
stated by a theorem. Some theorems state what no run lists: the inductive
invariants (`CallInv`, `ReadInv`, `FrontInv` and the others), since the runs check what
they are for; and `GaugeIsExact`, `CountersAreExact` and `LogIsTrue`, which say of states what
`KeepsRequestPromise`, checked and proved, says of steps.

## 5. Findings

* `strict_layout`: README section 11 wants no day in two stores. A call planned before an
  export and reading after it then misses the exported day, in a 200 answer.
* `probe_parallel`: the design has `/health/ready` ping the adapters in parallel. The
  code pings one after the other under one budget, so three adapters that each
  answer within it may fail the probe together.
* `timeout_status`: a driver's own deadline error becomes 504, which the design reserves for
  the request's context.
* `calendar_limit`: across a 23-hour day a range may be one day longer than `MAX_QUERY_DAYS`.
* `calendar_west_gap`: in a zone west of Greenwich whose clock skips midnight, `NewDateRange` makes
  that day an instant of the day before. A range that ends on it is a day short from then
  on: the loop over days reads what the range shows, and a day is missed without an error.

East of Greenwich a skipped midnight does less: `beginningOfDay` of that day is 01:00 and so is the
cutoff, and midnight of the cutoff day lies before it. A range that ends on the first day of the
realtime window is then asked of the historical store. `query_service.go:84` and the design
(line 136) put that day into the window. No run shows this; `CutoffAfterSkippedMidnight` proves it.

Theorems of section 4 say how far these go: `EveryDayCountedOnce` for `strict_layout`,
`QuickStoresProbeAsDesigned`, `TimeoutStatusUpToDrivers`, `LimitHolds` and `LimitMissedByOne`, and
`CallsReadEachDayOnce` and `SkippedMidnight` for `calendar_west_gap`.

Zones whose clock skips midnight are therefore not among the zones of the run
`calendar`. The default Asia/Shanghai has no clock change today.

## 6. Not modelled

The text of SQL statements and connection strings, the counter that keeps names of
registered TLS settings apart, `Config.LogValue` and all other logging, durations and
histograms, the demonstration numbers of the memory repository, and the chart
script: text and output, without state the properties could tell apart. Server
names of TLS, passwords and the settings nobody checks (`APP_ENV`, `HIVE_AUTH`) are
left out of `Settings`. Hosts, users, catalogs and databases are read untrimmed, so a
blank one satisfies `Load`; the model has that, and the startup pings that refuse
such a host are in `Lifecycle`.

TLS files are modelled by their paths and by whether they can be used. `TLSAsConfigured` says
that a database is opened with the roots and the certificate it was configured with or not at all; a
file that is replaced by other usable content between `Load` and `loadTLS` is not seen, by the
model or by the code.

The method of a request is one the routes take or another; `data_http_requests_total` is
counted by route and status, not by method. The redirects with which the mux cleans a path are left out.

A panic after the status was written would make the access log and the client disagree
with what `withRecovery` tries to write. No handler can have one: after `WriteHeader` they
only encode structures of strings and numbers and log. `HttpFront` has none either.

A readiness probe that waits for a connection until its own budget is over answers
503 although the stores are well. The model has that behaviour; no document of the
repository says it should not happen, so `BusyIsNotUnavailable` speaks of business queries.

## 7. Plan

Done, in this order: `Errors`, `Planning`, `QueryService` with its promise and proofs,
`Calendar`, `Lifecycle`, `HttpFront`; then `Pools`, `Settings`, `Startup`, `Inputs`, `ProcessPromise`,
`LifecycleProofs` and `PoolsProofs`; then `CalendarProofs`, `HttpFrontProofs`, `StartupProofs` and the rest of
`QueryServiceProofs`; then `RequestPromise` and the safety halves of the liveness properties.

What is left: `Calendar` with zones of two transitions, and `DateFinds` for them.
