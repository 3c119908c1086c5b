------------------------------- MODULE Lifecycle -------------------------------
(***************************************************************************)
(* The process from start to exit: buildWith opens the three databases,    *)
(* pings them concurrently and wires the service; run listens, serves and  *)
(* waits for a signal or for Serve to fail; then it shuts the server down  *)
(* and closes the databases.  Handlers run concurrently with all of that   *)
(* from the first connection on.                                           *)
(*                                                                         *)
(* In memory mode nothing is opened and nothing is pinged.  After          *)
(* config.Load the steps of wiring cannot fail; buildWith takes any Config *)
(* and handles their failure, so they may fail here.                       *)
(***************************************************************************)
EXTENDS Integers, Sequences, SequencesExt

CONSTANTS Conns      \* the clients' connections

\* In the order realRepositories opens them.
Databases == << "hive", "trino", "starrocks" >>

Names == ToSet(Databases)

VARIABLES
  mode,      \* DATA_MODE
  stage,     \* where main is
  closers,   \* the databases opened so far, oldest first
  left,      \* how many of them the loop that runs has still to close
  pool,      \* each database: "none", "open" or "closed"
  closed,    \* history: the calls of Close so far, in order
  ping,      \* the goroutine of each startup ping
  pctx,      \* the context of the pings
  signalled, \* SIGINT or SIGTERM arrived
  serve,     \* the goroutine of server.Serve, or what it sent to serveErr
  grace,     \* the context of Shutdown: "off", "live" or "over"
  conn,      \* the handler of each connection
  met,       \* history: the handlers that met a closed database
  errs,      \* the errors run joins, main's exit status
  failed     \* history: what has failed, whether or not main has heard of it

vars == << mode, stage, closers, left, pool, closed, ping, pctx, signalled, serve,
           grace, conn, met, errs, failed >>

\* The loops that close databases: closeAll of realRepositories and
\* Application.Close.
Closing == {"undoing", "closing"}

Stages == {"opening", "pinging", "wiring", "listening", "serving", "shutdown",
           "draining", "exited"} \cup Closing

Failures == {"build", "ping", "listen", "shutdown", "serve", "close"}

Init ==
  /\ mode \in {"memory", "real"}
  /\ stage = "opening"
  /\ closers = << >>
  /\ left = 0
  /\ pool = [d \in Names |-> "none"]
  /\ closed = << >>
  /\ ping = [d \in Names |-> "off"]
  /\ pctx = "live"
  /\ signalled = FALSE
  /\ serve = "off"
  /\ grace = "off"
  /\ conn = [c \in Conns |-> "none"]
  /\ met = {}
  /\ errs = {}
  /\ failed = {}

Course == << mode, stage, closers, left >>
Main == << Course, errs, failed >>
Outcome == << errs, failed >>
Pools == << pool, closed >>
Pings == << ping, pctx >>
Server == << signalled, serve, grace, conn, met >>

\* Main goes on to the stage s; a loop begins with everything that was opened.
GoTo(s) ==
  /\ stage' = s
  /\ left' = IF s \in Closing THEN Len(closers) ELSE left
  /\ UNCHANGED << mode, closers >>

\* A stage failed: its error is kept, and main goes on to s.
Fail(s, e) ==
  /\ failed' = failed \cup {e}
  /\ errs' = errs \cup {e}
  /\ GoTo(s)

-----------------------------------------------------------------------------
(* buildWith *)

OpenMemory ==
  /\ stage = "opening" /\ mode = "memory"
  /\ GoTo("wiring")
  /\ UNCHANGED << Outcome, Pools, Pings, Server >>

OpenNext ==
  LET d == Databases[Len(closers) + 1] IN
  /\ stage = "opening" /\ mode = "real"
  /\ Len(closers) < Len(Databases)
  /\ closers' = Append(closers, d)
  /\ pool' = [pool EXCEPT ![d] = "open"]
  /\ UNCHANGED << mode, stage, left, Outcome, closed, Pings, Server >>

\* An opener, or a statement builder after the last opener, fails.
BuildFails ==
  /\ stage = "opening" /\ mode = "real"
  /\ Fail("undoing", "build")
  /\ UNCHANGED << Pools, Pings, Server >>

\* One goroutine per repository under one timeout.
StartPings ==
  /\ stage = "opening" /\ mode = "real"
  /\ Len(closers) = Len(Databases)
  /\ ping' = [d \in Names |-> "running"]
  /\ GoTo("pinging")
  /\ UNCHANGED << Outcome, pctx, Pools, Server >>

\* A ping answers, or returns an error: its own, or its context's.  The first
\* error ends the group's context.
PingReturns(d) ==
  /\ ping[d] = "running"
  /\ \E result \in {"ok", "failed"} :
       /\ ping' = [ping EXCEPT ![d] = result]
       /\ pctx' = IF result = "failed" THEN "ended" ELSE pctx
       /\ failed' = IF result = "failed" THEN failed \cup {"ping"} ELSE failed
  /\ UNCHANGED << Course, errs, Pools, Server >>

\* A ping looks at its context.
\* Fault: the pings run under a context of their own.
PingDetached(d) == FALSE /\ UNCHANGED vars

PingInterrupted(d) ==
  /\ ping[d] = "running" /\ pctx = "ended"
  /\ ping' = [ping EXCEPT ![d] = "failed"]
  /\ failed' = failed \cup {"ping"}
  /\ UNCHANGED << pctx, Course, errs, Pools, Server >>

\* startupTimeout is over.
StartupTimeout ==
  /\ stage = "pinging" /\ pctx = "live"
  /\ pctx' = "ended"
  /\ UNCHANGED << ping, Main, Pools, Server >>

\* group.Wait of pingRepositories.
\* Fault: the first failure is enough.
OnePingFailed == \/ \E d \in Names : ping[d] = "failed"
                 \/ \A d \in Names : ping[d] # "running"

AllPingsReturned == \A d \in Names : ping[d] # "running"

PingsFail ==
  /\ stage = "pinging" /\ AllPingsReturned
  /\ \E d \in Names : ping[d] = "failed"
  /\ Fail("closing", "ping")
  /\ UNCHANGED << Pools, Pings, Server >>

PingsSucceed ==
  /\ stage = "pinging" /\ AllPingsReturned
  /\ \A d \in Names : ping[d] = "ok"
  /\ GoTo("wiring")
  /\ UNCHANGED << Outcome, Pools, Pings, Server >>

\* NewQueryService and httpapi.New.
WiringFails ==
  /\ stage = "wiring"
  /\ Fail("closing", "build")
  /\ UNCHANGED << Pools, Pings, Server >>

Wire ==
  /\ stage = "wiring"
  /\ GoTo("listening")
  /\ UNCHANGED << Outcome, Pools, Pings, Server >>

-----------------------------------------------------------------------------
(* run *)

ListenFails ==
  /\ stage = "listening"
  /\ Fail("closing", "listen")
  /\ UNCHANGED << Pools, Pings, Server >>

\* The listener is open and Serve's goroutine exists, though it need not have
\* run yet.
Listen ==
  /\ stage = "listening"
  /\ GoTo("serving")
  /\ serve' = "started"
  /\ UNCHANGED << Outcome, signalled, grace, conn, met, Pools, Pings >>

\* signal.NotifyContext is in place before anything else in main.
Signal ==
  /\ ~ signalled /\ stage # "exited"
  /\ signalled' = TRUE
  /\ UNCHANGED << serve, grace, conn, met, Main, Pools, Pings >>

\* Serve begins; a server that has been shut down refuses to.
ServeBegins ==
  /\ serve = "started"
  /\ serve' = IF grace = "off" THEN "running" ELSE "nil"
  /\ UNCHANGED << signalled, grace, conn, met, Main, Pools, Pings >>

\* Accept fails for good; or Shutdown closed the listener: ErrServerClosed,
\* which run turns into nil.
ServeFails ==
  /\ serve = "running" /\ grace = "off"
  /\ serve' = "err"
  /\ failed' = failed \cup {"serve"}
  /\ UNCHANGED << signalled, grace, conn, met, Course, errs, Pools, Pings >>

ServeClosed ==
  /\ serve = "running" /\ grace # "off"
  /\ serve' = "nil"
  /\ UNCHANGED << signalled, grace, conn, met, Main, Pools, Pings >>

\* The two cases of run's select; both may be ready.
\* Fault: the databases are closed without Shutdown.
SelectSignalAndClose ==
  /\ stage = "serving" /\ signalled
  /\ GoTo("closing")
  /\ UNCHANGED << Outcome, Pools, Pings, Server >>

SelectSignal ==
  /\ stage = "serving" /\ signalled
  /\ GoTo("shutdown")
  /\ grace' = "live"
  /\ UNCHANGED << Outcome, signalled, serve, conn, met, Pools, Pings >>

SelectServeError ==
  /\ stage = "serving" /\ serve = "err"
  /\ Fail("closing", "serve")
  /\ UNCHANGED << Pools, Pings, Server >>

Idle == \A c \in Conns : conn[c] # "active"

\* Shutdown polls until no connection is active.
Quiesced ==
  /\ stage = "shutdown" /\ Idle
  /\ GoTo("draining")
  /\ UNCHANGED << Outcome, Pools, Pings, Server >>

\* SHUTDOWN_TIMEOUT is over.
\* Fault: Shutdown has no deadline.
NoDeadline == FALSE /\ UNCHANGED vars

GraceOver ==
  /\ stage = "shutdown" /\ grace = "live"
  /\ grace' = "over"
  /\ UNCHANGED << signalled, serve, conn, met, Main, Pools, Pings >>

GiveUp ==
  /\ stage = "shutdown" /\ grace = "over"
  /\ Fail("draining", "shutdown")
  /\ UNCHANGED << Pools, Pings, Server >>

\* <-serveErr
\* Fault: what Serve returned is received and dropped.
DrainUnread ==
  /\ stage = "draining" /\ serve \in {"nil", "err"}
  /\ GoTo("closing")
  /\ UNCHANGED << Outcome, Pools, Pings, Server >>

Drain ==
  /\ stage = "draining" /\ serve \in {"nil", "err"}
  /\ errs' = IF serve = "err" THEN errs \cup {"serve"} ELSE errs
  /\ GoTo("closing")
  /\ UNCHANGED << failed, Pools, Pings, Server >>

\* One pass of a closing loop: the newest database that is left, and on after an
\* error.
CloseIn(loop) ==
  LET d == closers[left] IN
  /\ stage = loop /\ left > 0
  /\ left' = left - 1
  /\ pool' = [pool EXCEPT ![d] = "closed"]
  /\ closed' = Append(closed, d)
  /\ \E e \in {{}, {"close"}} : errs' = errs \cup e /\ failed' = failed \cup e
  /\ UNCHANGED << mode, stage, closers, Pings, Server >>

\* closeAll, which forgets nothing: whoever is handed the same closers closes
\* them again.
CloseAllNext == CloseIn("undoing")

\* buildWith returns the error of repositories before there is an Application.
\* Fault: it cleans up first, as everywhere else.
CleanUpToo ==
  /\ stage = "undoing" /\ left = 0
  /\ GoTo("closing")
  /\ UNCHANGED << Outcome, Pools, Pings, Server >>

ReturnBuildError ==
  /\ stage = "undoing" /\ left = 0
  /\ GoTo("exited")
  /\ UNCHANGED << Outcome, Pools, Pings, Server >>

\* Application.Close, from buildWith's cleanup or from run.  Every path has one
\* call of it, so its sync.Once never holds one back.
\* Fault: the closers are used up from the front.
CloseOldest ==
  /\ stage = "closing" /\ left > 0
  /\ left' = left - 1
  /\ closers' = Tail(closers)
  /\ pool' = [pool EXCEPT ![Head(closers)] = "closed"]
  /\ closed' = Append(closed, Head(closers))
  /\ UNCHANGED << mode, stage, Outcome, Pings, Server >>

CloseNext == CloseIn("closing")

\* run returns and main with it; the handlers that are left die with them.
Exit ==
  /\ stage = "closing" /\ left = 0
  /\ GoTo("exited")
  /\ UNCHANGED << Outcome, Pools, Pings, Server >>

-----------------------------------------------------------------------------
(* Handlers *)

\* Serve accepts a connection and starts its handler.
Accept(c) ==
  /\ serve = "running" /\ grace = "off" /\ stage # "exited"
  /\ conn[c] = "none"
  /\ conn' = [conn EXCEPT ![c] = "active"]
  /\ UNCHANGED << signalled, serve, grace, met, Main, Pools, Pings >>

\* A handler's query reaches database/sql, which refuses it on a closed pool.
Query(c, d) ==
  /\ conn[c] = "active" /\ stage # "exited"
  /\ pool[d] = "closed" /\ c \notin met
  /\ met' = met \cup {c}
  /\ UNCHANGED << signalled, serve, grace, conn, Main, Pools, Pings >>

Respond(c) ==
  /\ conn[c] = "active" /\ stage # "exited"
  /\ conn' = [conn EXCEPT ![c] = "answered"]
  /\ UNCHANGED << signalled, serve, grace, met, Main, Pools, Pings >>

-----------------------------------------------------------------------------

MainSteps ==
  \/ OpenMemory \/ OpenNext \/ BuildFails \/ StartPings
  \/ PingsFail \/ PingsSucceed \/ WiringFails \/ Wire
  \/ ListenFails \/ Listen
  \/ SelectSignal \/ SelectServeError \/ Quiesced \/ GiveUp \/ Drain
  \/ CloseAllNext \/ ReturnBuildError \/ CloseNext \/ Exit

Next ==
  \/ MainSteps
  \/ StartupTimeout \/ (\E d \in Names : PingReturns(d) \/ PingInterrupted(d))
  \/ Signal \/ ServeBegins \/ ServeFails \/ ServeClosed \/ GraceOver
  \/ \E c \in Conns : Accept(c) \/ Respond(c) \/ \E d \in Names : Query(c, d)

Spec == Init /\ [][Next]_vars

\* The process's own goroutines are scheduled, its two timers fire, a ping whose
\* context ended returns.  No signal has to come, no handler has to finish.
Fairness ==
  /\ WF_vars(MainSteps)
  /\ WF_vars(StartupTimeout) /\ WF_vars(GraceOver)
  /\ \A d \in Names : WF_vars(PingInterrupted(d))
  /\ WF_vars(ServeBegins) /\ WF_vars(ServeClosed)

FairSpec == Spec /\ Fairness

-----------------------------------------------------------------------------
(* Properties. *)

\* Every variable keeps the shape the code gives it.
TypeOK ==
  /\ mode \in {"memory", "real"}
  /\ stage \in Stages
  /\ closers \in {SubSeq(Databases, 1, n) : n \in 0 .. Len(Databases)}
  /\ left \in 0 .. Len(closers)
  /\ pool \in [Names -> {"none", "open", "closed"}]
  /\ closed \in Seq(Names)
  /\ ping \in [Names -> {"off", "running", "ok", "failed"}]
  /\ pctx \in {"live", "ended"}
  /\ signalled \in BOOLEAN
  /\ serve \in {"off", "started", "running", "nil", "err"}
  /\ grace \in {"off", "live", "over"}
  /\ conn \in [Conns -> {"none", "active", "answered"}]
  /\ met \subseteq Conns
  /\ errs \subseteq Failures /\ failed \subseteq Failures

\* When the process exits, every database it opened has been closed, once, the
\* newest first: wherever startup stopped and whatever Close returned
\* (Application.Close: "in the reverse order of their creation").
ClosedInReverse ==
  /\ stage = "exited" => \A d \in Names : pool[d] # "open"
  /\ \E n \in 0 .. Len(Databases) : \E k \in 0 .. n :
       closed = SubSeq(Reverse(SubSeq(Databases, 1, n)), 1, k)

\* No startup ping runs on a database that is not open.
PingsUseOpenDatabases == \A d \in Names : ping[d] = "running" => pool[d] = "open"

\* A handler meets a closed database only after SHUTDOWN_TIMEOUT or after Serve
\* itself failed (the design: wait for requests in flight within the timeout,
\* then close the connections).
ClosesAfterHandlers == met # {} => grace = "over" \/ "serve" \in errs

\* Once signalled, the process exits although no handler ever finishes.
SignalEnds == signalled ~> stage = "exited"

\* Startup ends although no database ever answers a ping.
StartupEnds == <>(stage \notin {"opening", "pinging", "wiring", "listening"})

\* Where the process is for somebody who sees no databases.
Life ==
  CASE stage \in {"opening", "pinging", "wiring", "listening"} -> "starting"
    [] stage = "serving" -> "serving"
    [] stage = "shutdown" -> "stopping"
    [] stage \in {"draining"} \cup Closing -> "closing"
    [] stage = "exited" -> "exited"

Checked == mode = "memory" \/ \A d \in Names : ping[d] = "ok"

\* What the parent of the process sees of it.
Status == CASE stage # "exited" -> "none"
            [] stage = "exited" /\ errs = {} -> "success"
            [] stage = "exited" /\ errs # {} -> "failure"

Promise == INSTANCE ProcessPromise WITH
  life <- Life, checked <- Checked, asked <- signalled, clean <- (failed = {}),
  status <- Status, harmed <- met

\* The process keeps the promise: the steps of startup, shutdown and closing, in
\* any order with signals, Serve and handlers, are the steps it allows, and the
\* exit status tells of every failure, of one that Serve, a Close or Shutdown met
\* while main was elsewhere too.
KeepsProcessPromise == Promise!Spec

===============================================================================
