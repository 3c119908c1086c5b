--------------------------------- MODULE Pools ---------------------------------
(***************************************************************************)
(* The connection pools that segments of business queries and pings of the *)
(* readiness probe compete for.  Each store has a sql.DB of its own with   *)
(* MaxOpenConns connections (ConfigurePool); a query or a ping that finds  *)
(* them all in use waits in database/sql until one is released or its      *)
(* context ends.                                                           *)
(*                                                                         *)
(* A call reads the stores of its plan concurrently under one context that *)
(* the first error, QUERY_TIMEOUT or the client's leaving ends; a probe    *)
(* pings one store after the other under ReadyTimeout.  What the segments  *)
(* read and how errors are reported is QueryService's subject: here a      *)
(* segment returns and reports in one step.                                *)
(*                                                                         *)
(* database/sql is external: which of several waiters gets a released      *)
(* connection is open, and idle connections are not told from unopened     *)
(* ones.                                                                   *)
(***************************************************************************)
EXTENDS Integers, Sequences, FiniteSets, Errors

CONSTANTS
  Calls, Probes,   \* the clients: business queries and readiness probes
  Order,           \* the stores, in the order readiness.Ping goes through them
  Needs,           \* per call, the sets of stores its plan may read
  MaxOpen          \* MaxOpenConns of each store's pool

Stores == {Order[i] : i \in DOMAIN Order}
Clients == Calls \cup Probes

ASSUME PoolsAssumption ==
  /\ Calls \cap Probes = {}
  /\ Order \in Seq(Stores)
  /\ \A i, j \in DOMAIN Order : Order[i] = Order[j] => i = j
  /\ Needs \in [Calls -> SUBSET ((SUBSET Stores) \ {{}})]
  /\ MaxOpen \in [Stores -> Nat \ {0}]

VARIABLES
  phase,   \* each client: "new", "running" or "answered"
  need,    \* the stores its request uses
  use,     \* each use of a store: "off", "waiting", "holding" or "done"
  ctx,     \* the context of the uses: "live" or the error it ended with
  err,     \* the first error of the request
  status,  \* the status it was answered with
  inUse,   \* the connections in use of each pool
  trouble  \* history: what happened to the request from outside

vars == << phase, need, use, ctx, err, status, inUse, trouble >>

Init ==
  /\ phase = [c \in Clients |-> "new"]
  /\ need = [c \in Clients |-> {}]
  /\ use = [c \in Clients |-> [s \in Stores |-> "off"]]
  /\ ctx = [c \in Clients |-> "live"]
  /\ err = [c \in Clients |-> "nil"]
  /\ status = [c \in Clients |-> 0]
  /\ inUse = [s \in Stores |-> 0]
  /\ trouble = [c \in Clients |-> {}]

-----------------------------------------------------------------------------
(* Requests begin. *)

\* A request for the stores n begins by asking the pools of the stores first.
Begin(c, n, first) ==
  /\ phase[c] = "new"
  /\ phase' = [phase EXCEPT ![c] = "running"]
  /\ need' = [need EXCEPT ![c] = n]
  /\ use' = [use EXCEPT ![c] = [s \in Stores |-> IF s \in first THEN "waiting" ELSE "off"]]
  /\ UNCHANGED << ctx, err, status, inUse, trouble >>

\* The goroutines of a plan's segments.
BeginCall(c) == c \in Calls /\ \E n \in Needs[c] : Begin(c, n, n)

\* readiness.Ping.
BeginProbe(c) == c \in Probes /\ Begin(c, Stores, {Order[1]})

-----------------------------------------------------------------------------
(* One use of a pool. *)

\* The pool a store's queries take connections from.
\* Fault: one pool for all of them.
SharedPool(s) == Order[1]

PoolOf(s) == s

Full(s) == inUse[PoolOf(s)] >= MaxOpen[PoolOf(s)]

\* database/sql hands a connection over: an idle one, a new one, or one that
\* somebody released.
Acquire(c, s) ==
  /\ use[c][s] = "waiting" /\ ctx[c] = "live"
  /\ ~ Full(s)
  /\ use' = [use EXCEPT ![c][s] = "holding"]
  /\ inUse' = [inUse EXCEPT ![PoolOf(s)] = @ + 1]
  /\ UNCHANGED << phase, need, ctx, err, status, trouble >>

\* The connections in use when a use of s by c ends: Scan and PingContext give
\* theirs back whatever they return.
\* Fault: one is given back although none was obtained.
GivenBackAlways(c, s) == [inUse EXCEPT ![PoolOf(s)] = @ - 1]

\* Fault: only if they succeed.
GivenBackOnSuccess(c, s) ==
  IF use[c][s] = "holding" /\ ctx[c] = "live"
    THEN [inUse EXCEPT ![PoolOf(s)] = @ - 1] ELSE inUse

GivenBack(c, s) ==
  IF use[c][s] = "holding" THEN [inUse EXCEPT ![PoolOf(s)] = @ - 1] ELSE inUse

\* The use ends with e; the first error of the request ends its context.
Ends(c, s, e) ==
  /\ use' = [use EXCEPT ![c][s] = "done"]
  /\ inUse' = GivenBack(c, s)
  /\ err' = [err EXCEPT ![c] = IF @ = "nil" THEN e ELSE @]
  /\ ctx' = [ctx EXCEPT ![c] = IF e # "nil" /\ @ = "live" THEN "canceled" ELSE @]
  /\ UNCHANGED << phase, need, status >>

\* The store answers the query or the ping.
Answers(c, s) ==
  /\ use[c][s] = "holding"
  /\ Ends(c, s, "nil")
  /\ UNCHANGED trouble

\* The driver fails, on the connection or while opening one.
Fails(c, s) ==
  /\ use[c][s] = "holding" \/ (use[c][s] = "waiting" /\ ~ Full(s))
  /\ Ends(c, s, WrapErr("driver"))
  /\ trouble' = [trouble EXCEPT ![c] = @ \cup {"unavailable"}]

\* A use whose context has ended gives up, holding a connection or waiting for
\* one.
\* Fault: a row that is awaited is awaited for ever.
InterruptedWaiting(c, s) ==
  /\ use[c][s] = "waiting"
  /\ ctx[c] # "live"
  /\ Ends(c, s, WrapErr(ctx[c]))
  /\ UNCHANGED trouble

\* Fault: no connection in time is taken for a driver's error.
InterruptedAsDriver(c, s) ==
  /\ use[c][s] \in {"waiting", "holding"}
  /\ ctx[c] # "live"
  /\ Ends(c, s, WrapErr(IF use[c][s] = "waiting" THEN "driver" ELSE ctx[c]))
  /\ UNCHANGED trouble

Interrupted(c, s) ==
  /\ use[c][s] \in {"waiting", "holding"}
  /\ ctx[c] # "live"
  /\ Ends(c, s, WrapErr(ctx[c]))
  /\ UNCHANGED trouble

-----------------------------------------------------------------------------
(* Requests end. *)

\* The probe's ping succeeded: on to the next store.
NextPing(c) ==
  /\ c \in Probes /\ phase[c] = "running" /\ err[c] = "nil"
  /\ \E i \in 1 .. Len(Order) - 1 :
       /\ use[c][Order[i]] = "done" /\ use[c][Order[i + 1]] = "off"
       /\ use' = [use EXCEPT ![c][Order[i + 1]] = "waiting"]
  /\ UNCHANGED << phase, need, ctx, err, status, inUse, trouble >>

\* The handler answers; its context ends with it.
Write(c, code) ==
  /\ phase' = [phase EXCEPT ![c] = "answered"]
  /\ status' = [status EXCEPT ![c] = code]
  /\ ctx' = [ctx EXCEPT ![c] = "canceled"]
  /\ UNCHANGED << need, use, err, inUse, trouble >>

\* group.Wait returned.
AnswerCall(c) ==
  /\ c \in Calls /\ phase[c] = "running"
  /\ \A s \in need[c] : use[c][s] = "done"
  /\ Write(c, HttpStatus(err[c]))

\* readyCheck: any error of Ping is 503.
AnswerProbe(c) ==
  /\ c \in Probes /\ phase[c] = "running"
  /\ \/ err[c] # "nil" /\ Write(c, 503)
     \/ err[c] = "nil" /\ (\A s \in Stores : use[c][s] = "done") /\ Write(c, 200)

\* The request's context ends, by its timer or because the client left.
ContextEnds(c, e) ==
  /\ phase[c] = "running" /\ ctx[c] = "live"
  /\ ctx' = [ctx EXCEPT ![c] = e]
  /\ trouble' = [trouble EXCEPT ![c] = @ \cup {e}]
  /\ UNCHANGED << phase, need, use, err, status, inUse >>

\* QUERY_TIMEOUT or ReadyTimeout.
Timeout(c) == ContextEnds(c, "deadline")

Leaves(c) == ContextEnds(c, "canceled")

-----------------------------------------------------------------------------

Next ==
  \E c \in Clients :
    \/ BeginCall(c) \/ BeginProbe(c) \/ NextPing(c)
    \/ AnswerCall(c) \/ AnswerProbe(c)
    \/ Timeout(c) \/ Leaves(c)
    \/ \E s \in Stores : Acquire(c, s) \/ Answers(c, s) \/ Fails(c, s) \/ Interrupted(c, s)

Spec == Init /\ [][Next]_vars

\* The service's goroutines run, database/sql gives up a use whose context has
\* ended, and a waiter is handed a connection sooner or later if connections
\* keep being released.  No store has to answer, no client to come or leave.
Fairness ==
  \A c \in Clients :
    /\ WF_vars(NextPing(c)) /\ WF_vars(AnswerCall(c)) /\ WF_vars(AnswerProbe(c))
    /\ \A s \in Stores : WF_vars(Interrupted(c, s)) /\ SF_vars(Acquire(c, s))

FairSpec == Spec /\ Fairness

-----------------------------------------------------------------------------
(* Properties. *)

\* Every variable keeps the shape the code gives it.
TypeOK ==
  /\ phase \in [Clients -> {"new", "running", "answered"}]
  /\ need \in [Clients -> SUBSET Stores]
  /\ use \in [Clients -> [Stores -> {"off", "waiting", "holding", "done"}]]
  /\ ctx \in [Clients -> {"live"} \cup ContextErrors]
  /\ err \in [Clients -> {"nil", "unavailable"} \cup ContextErrors]
  /\ status \in [Clients -> {0, 200, 500, 503, 504}]
  /\ inUse \in [Stores -> Nat]
  /\ trouble \in [Clients -> SUBSET ({"unavailable"} \cup ContextErrors)]

Holders(s) == {c \in Clients : use[c][s] = "holding"}

\* Each pool's connections are held by that many running requests and by nobody
\* else, and there are MaxOpenConns at most: no outcome of a query loses one.
ConnectionsAccounted ==
  \A s \in Stores : /\ inUse[s] = Cardinality(Holders(s))
                    /\ inUse[s] <= MaxOpen[s]
                    /\ \A c \in Holders(s) : phase[c] = "running"

\* A business query is answered 503 only if a store failed it, and 504 only if
\* its own time was over: that it had to wait for a connection is never taken
\* for an unavailable store.
BusyIsNotUnavailable ==
  \A c \in Calls :
    /\ status[c] = 503 => "unavailable" \in trouble[c]
    /\ status[c] = 504 => "deadline" \in trouble[c]

\* What a running request may still do itself, its timer and its client apart.
MayEnd(c) ==
  IF c \in Calls THEN \A s \in need[c] : use[c][s] = "done"
  ELSE err[c] # "nil" \/ \A s \in Stores : use[c][s] = "done"

MayPingNext(c) ==
  /\ c \in Probes
  /\ \E i \in 1 .. Len(Order) - 1 : use[c][Order[i]] = "done" /\ use[c][Order[i + 1]] = "off"

\* Nobody waits for nobody: a request that cannot go on by itself waits for a store
\* or for a pool, and a pool that makes it wait has lent a connection to another
\* request that is still running, whose use of it ends whatever else that one waits
\* for (group.Wait, readiness.Ping and Scan's rows.Close leave no use behind).
WaitersWaitForHolders ==
  \A c \in Clients : phase[c] = "running" =>
    /\ MayEnd(c) \/ MayPingNext(c) \/ \E s \in Stores : use[c][s] \in {"waiting", "holding"}
    /\ \A s \in Stores : use[c][s] = "waiting" /\ Full(s) =>
         \E d \in Clients \ {c} : phase[d] = "running" /\ use[d][s] = "holding"

\* QUERY_TIMEOUT and ReadyTimeout fire.
TimersFire == \A c \in Clients : WF_vars(Timeout(c))

\* With the timers every request is answered, although stores hang and hold all
\* connections.
EveryRequestAnswered ==
  TimersFire => <>[](\A c \in Clients : phase[c] # "running")

\* The realtime store answers what it is asked.
RealtimeAnswers == \A c \in Clients : WF_vars(Answers(c, "starrocks"))

\* Queries of the realtime store go on without any timer while historical
\* queries hang (ConfigurePool: batch queries of history must not drag the
\* realtime chain down).
HistoryCannotBlockRealtime ==
  RealtimeAnswers =>
    <>[](\A c \in Calls : phase[c] = "running" => need[c] # {"starrocks"})

===============================================================================
