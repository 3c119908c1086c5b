---------------------------- MODULE LifecycleProofs ----------------------------
(***************************************************************************)
(* Proofs about Lifecycle, for any number of connections.                  *)
(***************************************************************************)
EXTENDS Lifecycle, SequenceTheorems, TLAPS

Startup == {"opening", "pinging", "wiring", "listening"}

\* What a stage says of the pings, of Serve and of the handlers.
StageInv ==
  /\ stage \in Stages
  /\ ping \in [Names -> {"off", "running", "ok", "failed"}]
  /\ conn \in [Conns -> {"none", "active", "answered"}]
  /\ stage = "opening" => \A d \in Names : ping[d] = "off"
  /\ \A d \in Names : ping[d] = "running" => stage = "pinging"
  /\ stage \in {"wiring", "listening"} => Checked
  /\ serve \in {"started", "running"} /\ grace = "off" => stage = "serving"
  /\ \A d \in Names : pool[d] = "closed" => stage \in Closing \cup {"exited"}

\* A handler that is left when main goes on to close the databases has been given
\* up: by Shutdown, or because Serve failed.
HandlersInv ==
  /\ stage \in Startup \cup {"undoing"} => grace = "off" /\ \A c \in Conns : conn[c] = "none"
  /\ \A c \in Conns : conn[c] = "active" /\ stage \in {"draining", "closing"} =>
       failed # {} /\ (grace = "over" \/ "serve" \in errs)
  /\ met # {} => /\ stage \in {"closing", "exited"}
                 /\ grace = "over" \/ "serve" \in errs

\* What main has not heard of yet is the failure of a ping it waits for, or that of
\* Serve before serveErr is read.
Unheard(f) ==
  \/ f = "serve" /\ serve = "err" /\ stage \in {"serving", "shutdown", "draining"}
  \/ f = "ping" /\ stage = "pinging" /\ \E d \in Names : ping[d] = "failed"

ReportInv ==
  /\ errs \subseteq failed /\ (serve = "err" => "serve" \in failed)
  /\ \A f \in failed \ errs : Unheard(f)
  /\ stage \in Startup => errs = {}

LInv == StageInv /\ HandlersInv /\ ReportInv

-----------------------------------------------------------------------------

LEMMA SomeDatabase == "hive" \in Names
BY DEF Names, Databases, ToSet

LEMMA StageInit == Init => LInv
BY DEF Init, LInv, StageInv, HandlersInv, ReportInv, Startup, Stages, Closing

LEMMA StageStep ==
  ASSUME LInv, [Next]_vars
  PROVE  (StageInv /\ HandlersInv)'
<1> DEFINE Inv == StageInv /\ HandlersInv
<1> USE DEF LInv, StageInv, HandlersInv, Startup, Stages, Closing, Checked, Main, Course,
            Outcome, Pools, Pings, Server
<1>1. CASE UNCHANGED vars
  BY <1>1 DEF vars
<1>2. CASE OpenMemory
  BY <1>2 DEF OpenMemory, GoTo
<1>3. CASE OpenNext
  BY <1>3 DEF OpenNext
<1>4. CASE BuildFails
  BY <1>4 DEF BuildFails, Fail, GoTo
<1>5. CASE StartPings
  BY <1>5 DEF StartPings, GoTo
<1>6. ASSUME NEW d \in Names, PingReturns(d)
      PROVE  Inv'
  BY <1>6 DEF PingReturns
<1>7. ASSUME NEW d \in Names, PingInterrupted(d)
      PROVE  Inv'
  BY <1>7 DEF PingInterrupted
<1>8. CASE StartupTimeout
  BY <1>8 DEF StartupTimeout
<1>9. CASE PingsFail
  BY <1>9 DEF PingsFail, AllPingsReturned, Fail, GoTo
<1>10. CASE PingsSucceed
  BY <1>10 DEF PingsSucceed, AllPingsReturned, GoTo
<1>11. CASE WiringFails \/ Wire
  BY <1>11 DEF WiringFails, Wire, Fail, GoTo
<1>12. CASE ListenFails \/ Listen
  BY <1>12 DEF ListenFails, Listen, Fail, GoTo
<1>13. CASE Signal
  BY <1>13 DEF Signal
<1>14. CASE ServeBegins \/ ServeFails \/ ServeClosed
  BY <1>14 DEF ServeBegins, ServeFails, ServeClosed
<1>15. CASE SelectSignal
  BY <1>15 DEF SelectSignal, GoTo
<1>25. CASE SelectServeError
  <2>1. "serve" \in errs' /\ "serve" \in failed' /\ stage' = "closing"
    BY <1>25 DEF SelectServeError, Fail, GoTo
  <2> QED BY <1>25, <2>1 DEF SelectServeError, Fail, GoTo
<1>16. CASE Quiesced
  BY <1>16 DEF Quiesced, Idle, GoTo
<1>17. CASE GraceOver
  BY <1>17 DEF GraceOver
<1>18. CASE GiveUp
  <2>1. failed' # {} /\ errs \subseteq errs'
    BY <1>18 DEF GiveUp, Fail
  <2> QED BY <1>18, <2>1 DEF GiveUp, Fail, GoTo
<1>19. CASE Drain
  BY <1>19 DEF Drain, GoTo
<1>20. CASE CloseAllNext \/ CloseNext
  BY <1>20 DEF CloseAllNext, CloseNext, CloseIn
<1>21. CASE ReturnBuildError \/ Exit
  BY <1>21 DEF ReturnBuildError, Exit, GoTo
<1>22. ASSUME NEW c \in Conns, Accept(c)
       PROVE  Inv'
  BY <1>22 DEF Accept
<1>23. ASSUME NEW c \in Conns, Respond(c)
       PROVE  Inv'
  BY <1>23 DEF Respond
<1>24. ASSUME NEW c \in Conns, NEW d \in Names, Query(c, d)
       PROVE  Inv'
  BY <1>24 DEF Query
<1> QED
  BY <1>1, <1>2, <1>3, <1>4, <1>5, <1>6, <1>7, <1>8, <1>9, <1>10, <1>11, <1>12, <1>13,
     <1>14, <1>15, <1>16, <1>17, <1>18, <1>19, <1>20, <1>21, <1>22, <1>23, <1>24, <1>25
  DEF Next, MainSteps

LEMMA ReportStep ==
  ASSUME LInv, [Next]_vars
  PROVE  ReportInv'
<1> USE DEF LInv, ReportInv, Unheard, Startup, Main, Course, Outcome, Pools, Pings, Server
<1>1. CASE UNCHANGED vars
  BY <1>1 DEF vars
<1>2. CASE OpenMemory \/ OpenNext \/ StartPings \/ Wire \/ Listen
  BY <1>2 DEF OpenMemory, OpenNext, StartPings, Wire, Listen, GoTo
<1>3. CASE BuildFails \/ WiringFails \/ ListenFails
  BY <1>3 DEF BuildFails, WiringFails, ListenFails, Fail, GoTo
<1>4. ASSUME NEW d \in Names, PingReturns(d) \/ PingInterrupted(d)
      PROVE  ReportInv'
  <2>1. stage = "pinging" /\ ping \in [Names -> {"off", "running", "ok", "failed"}]
        /\ ping[d] = "running" /\ UNCHANGED << stage, serve, errs >>
    BY <1>4 DEF PingReturns, PingInterrupted, StageInv
  <2>2. CASE ping' = [ping EXCEPT ![d] = "failed"] /\ failed' = failed \cup {"ping"}
    <3>1. ping'[d] = "failed"
      BY <2>1, <2>2
    <3> QED BY <2>1, <2>2, <3>1
  <2>3. CASE ping' = [ping EXCEPT ![d] = "ok"] /\ failed' = failed
    BY <2>1, <2>3
  <2> QED BY <1>4, <2>2, <2>3 DEF PingReturns, PingInterrupted
<1>5. CASE PingsFail
  <2>1. /\ stage = "pinging" /\ stage' = "closing" /\ serve' = serve
        /\ errs' = errs \cup {"ping"} /\ failed' = failed \cup {"ping"}
    BY <1>5 DEF PingsFail, Fail, GoTo
  <2>2. \A f \in failed \ errs : f = "ping"
    BY <2>1
  <2> QED BY <2>1, <2>2
<1>6. CASE PingsSucceed
  <2>1. /\ stage = "pinging" /\ (\A d \in Names : ping[d] = "ok")
        /\ UNCHANGED << serve, errs, failed >>
    BY <1>6 DEF PingsSucceed
  <2>2. failed \subseteq errs
    BY <2>1
  <2> QED BY <2>1, <2>2
<1>7. CASE ServeFails
  <2>1. /\ stage = "serving" /\ stage' = "serving" /\ serve = "running" /\ serve' = "err"
        /\ failed' = failed \cup {"serve"} /\ errs' = errs
    BY <1>7 DEF ServeFails, StageInv
  <2>2. failed = errs
    BY <2>1
  <2> QED BY <2>1, <2>2
<1>8. CASE StartupTimeout \/ Signal \/ ServeBegins \/ ServeClosed \/ GraceOver
  BY <1>8 DEF StartupTimeout, Signal, ServeBegins, ServeClosed, GraceOver
<1>9. CASE SelectSignal \/ Quiesced
  BY <1>9 DEF SelectSignal, Quiesced, GoTo
<1>10. CASE SelectServeError
  <2>1. /\ stage = "serving" /\ stage' = "closing"
        /\ errs' = errs \cup {"serve"} /\ failed' = failed \cup {"serve"}
    BY <1>10 DEF SelectServeError, Fail, GoTo
  <2>2. \A f \in failed \ errs : f = "serve"
    BY <2>1
  <2>3. errs' = failed'
    BY <2>1, <2>2
  <2> QED BY <2>1, <2>3
<1>11. CASE GiveUp
  BY <1>11 DEF GiveUp, Fail, GoTo
<1>12. CASE Drain
  <2>1. /\ stage = "draining" /\ stage' = "closing" /\ failed' = failed
        /\ errs' = IF serve = "err" THEN errs \cup {"serve"} ELSE errs
    BY <1>12 DEF Drain, GoTo
  <2>2. \A f \in failed \ errs : f = "serve" /\ serve = "err"
    BY <2>1
  <2>3. failed' \subseteq errs'
    BY <2>1, <2>2
  <2>4. CASE serve = "err"
    BY <1>12, <2>1, <2>2, <2>3, <2>4 DEF Drain, Fail
  <2>5. CASE serve # "err"
    BY <1>12, <2>1, <2>2, <2>3, <2>5 DEF Drain
  <2> QED BY <2>4, <2>5
<1>13. CASE CloseAllNext \/ CloseNext
  <2>1. stage \in {"undoing", "closing"} /\ stage' = stage
    BY <1>13 DEF CloseAllNext, CloseNext, CloseIn
  <2>2. errs = failed
    BY <2>1
  <2>3. errs' = failed' /\ serve' = serve /\ failed \subseteq failed'
    BY <1>13, <2>2 DEF CloseAllNext, CloseNext, CloseIn
  <2> QED BY <2>1, <2>3
<1>14. CASE ReturnBuildError \/ Exit
  BY <1>14 DEF ReturnBuildError, Exit, GoTo
<1>15. ASSUME NEW c \in Conns, Accept(c) \/ Respond(c) \/ \E d \in Names : Query(c, d)
       PROVE  ReportInv'
  BY <1>15 DEF Accept, Respond, Query
<1> QED
  BY <1>1, <1>2, <1>3, <1>4, <1>5, <1>6, <1>7, <1>8, <1>9, <1>10, <1>11, <1>12, <1>13,
     <1>14, <1>15
  DEF Next, MainSteps

\* Stages, pings, Serve and handlers stay in step, and main knows of every failure
\* but those it is about to hear of.
THEOREM StagesConsistent == Spec => []LInv
<1>1. LInv /\ [Next]_vars => LInv'
  BY StageStep, ReportStep DEF LInv
<1> QED BY <1>1, StageInit, PTL DEF Spec

\* No handler meets a closed database before SHUTDOWN_TIMEOUT or a failure of
\* Serve: Application.Close comes after the handlers.
THEOREM DatabasesOutliveHandlers == Spec => []ClosesAfterHandlers
<1>1. LInv => ClosesAfterHandlers
  BY DEF LInv, HandlersInv, ClosesAfterHandlers
<1> QED BY <1>1, StagesConsistent, PTL

\* When the process exits, run has joined everything that failed: a ping, Shutdown,
\* Serve, any Close.
THEOREM FailuresAreReported == Spec => [](stage = "exited" => errs = failed)
<1>1. LInv => (stage = "exited" => errs = failed)
  BY DEF LInv, ReportInv, Unheard
<1> QED BY <1>1, StagesConsistent, PTL

-----------------------------------------------------------------------------
(* The databases that have been opened and closed.                           *)

\* The first n databases, and the first m of these that are closed.
Opened(n) == SubSeq(Databases, 1, n)
ClosedOf(n, m) == SubSeq(Reverse(Opened(n)), 1, m)

LEMMA DatabaseFacts ==
  /\ Databases \in Seq(Names) /\ Len(Databases) = 3
  /\ \A d \in Names : \E i \in 1 .. 3 : d = Databases[i]
  /\ \A i \in 1 .. 3 : Databases[i] \in Names
  /\ \A i, j \in 1 .. 3 : Databases[i] = Databases[j] => i = j
<1>1. Len(Databases) = 3 /\ DOMAIN Databases = 1 .. 3
  BY DEF Databases
<1>2. \A d \in Names : \E i \in 1 .. 3 : d = Databases[i]
  BY <1>1 DEF Names, ToSet
<1>3. \A i \in 1 .. 3 : Databases[i] \in Names
  BY <1>1 DEF Names, ToSet
<1>4. \A i, j \in 1 .. 3 : Databases[i] = Databases[j] => i = j
  BY DEF Databases
<1>5. Databases \in Seq(Names)
  <2>1. Databases \in Seq({"hive", "trino", "starrocks"})
    BY DEF Databases
  <2> QED BY <1>1, <1>3, <2>1, ElementOfSeq, IsASeq
<1> QED BY <1>1, <1>2, <1>3, <1>4, <1>5

LEMMA OpenedFacts ==
  ASSUME NEW n \in 0 .. 3
  PROVE  /\ Opened(n) \in Seq(Names) /\ Len(Opened(n)) = n
         /\ \A i \in 1 .. n : Opened(n)[i] = Databases[i]
BY DatabaseFacts, SubSeqProperties DEF Opened

\* A sequence is what its elements are.
LEMMA AppendNames ==
  ASSUME NEW s \in Seq(Names), NEW e \in Names, NEW n \in Nat, Len(s) = n
  PROVE  /\ Append(s, e) \in Seq(Names) /\ Len(Append(s, e)) = n + 1
         /\ \A i \in 1 .. n : Append(s, e)[i] = s[i]
         /\ Append(s, e)[n + 1] = e
BY AppendProperties

LEMMA OpenedGrows ==
  ASSUME NEW n \in 0 .. 2
  PROVE  Append(Opened(n), Databases[n + 1]) = Opened(n + 1)
<1> DEFINE s == Opened(n)  t == Opened(n + 1)  e == Databases[n + 1]
<1>1. n \in 0 .. 3 /\ n + 1 \in 0 .. 3 /\ n + 1 \in 1 .. 3 /\ n \in Nat
  OBVIOUS
<1>2. /\ s \in Seq(Names) /\ Len(s) = n /\ \A i \in 1 .. n : s[i] = Databases[i]
      /\ t \in Seq(Names) /\ Len(t) = n + 1 /\ \A i \in 1 .. n + 1 : t[i] = Databases[i]
      /\ e \in Names
  BY <1>1, OpenedFacts, DatabaseFacts
<1>3. e = t[n + 1] /\ \A i \in 1 .. n : s[i] = t[i]
  BY <1>1, <1>2
<1> HIDE DEF s, t, e
<1>4. /\ Append(s, e) \in Seq(Names) /\ Len(Append(s, e)) = n + 1
      /\ \A i \in 1 .. n : Append(s, e)[i] = s[i]
      /\ Append(s, e)[n + 1] = e
  BY <1>1, <1>2, AppendNames
<1>5. \A i \in 1 .. n + 1 : Append(s, e)[i] = t[i]
  BY <1>1, <1>3, <1>4
<1>6. Append(s, e) = t
  BY <1>2, <1>4, <1>5, SeqEqual
<1> QED BY <1>6 DEF s, t, e

LEMMA ClosedFacts ==
  ASSUME NEW n \in 0 .. 3, NEW m \in 0 .. n
  PROVE  /\ ClosedOf(n, m) \in Seq(Names) /\ Len(ClosedOf(n, m)) = m
         /\ \A i \in 1 .. m : ClosedOf(n, m)[i] = Databases[n - i + 1]
<1> DEFINE s == Opened(n)  rev == Reverse(s)
<1>1. s \in Seq(Names) /\ Len(s) = n /\ \A i \in 1 .. n : s[i] = Databases[i]
  BY OpenedFacts
<1>2. \A i \in 1 .. n : (n - i) + 1 \in 1 .. n /\ n - i + 1 \in 1 .. 3
  OBVIOUS
<1>3. rev = [i \in 1 .. n |-> s[(n - i) + 1]]
  BY <1>1 DEF Reverse
<1> HIDE DEF s, rev
<1>4. \A i \in 1 .. n : rev[i] = Databases[n - i + 1]
  BY <1>1, <1>2, <1>3
<1>5. \A i \in 1 .. m : rev[i] = Databases[n - i + 1] /\ rev[i] \in Names
  BY <1>2, <1>4, DatabaseFacts
<1>6. ClosedOf(n, m) = SubSeq(rev, 1, m)
  BY DEF ClosedOf, rev, s
<1> QED BY <1>5, <1>6, SubSeqProperties

LEMMA ClosedGrows ==
  ASSUME NEW n \in 0 .. 3, NEW m \in 0 .. n - 1
  PROVE  Append(ClosedOf(n, m), Databases[n - m]) = ClosedOf(n, m + 1)
<1> DEFINE s == ClosedOf(n, m)  t == ClosedOf(n, m + 1)  e == Databases[n - m]
<1>1. m \in 0 .. n /\ m + 1 \in 0 .. n /\ n - m \in 1 .. 3 /\ m \in Nat
      /\ n - (m + 1) + 1 = n - m
  OBVIOUS
<1>2. /\ s \in Seq(Names) /\ Len(s) = m /\ \A i \in 1 .. m : s[i] = Databases[n - i + 1]
      /\ t \in Seq(Names) /\ Len(t) = m + 1
      /\ \A i \in 1 .. m + 1 : t[i] = Databases[n - i + 1]
      /\ e \in Names
  BY <1>1, ClosedFacts, DatabaseFacts
<1>3. e = t[m + 1] /\ \A i \in 1 .. m : s[i] = t[i]
  <2>1. m + 1 \in 1 .. m + 1 /\ \A i \in 1 .. m : i \in 1 .. m + 1
    BY <1>1
  <2>2. t[m + 1] = Databases[n - (m + 1) + 1]
    BY <1>2, <2>1
  <2>3. e = t[m + 1]
    BY <1>1, <2>2
  <2> QED BY <1>2, <2>1, <2>3
<1> HIDE DEF s, t, e
<1>4. /\ Append(s, e) \in Seq(Names) /\ Len(Append(s, e)) = m + 1
      /\ \A i \in 1 .. m : Append(s, e)[i] = s[i]
      /\ Append(s, e)[m + 1] = e
  BY <1>1, <1>2, AppendNames
<1>5. \A i \in 1 .. m + 1 : Append(s, e)[i] = t[i]
  BY <1>1, <1>3, <1>4
<1>6. Append(s, e) = t
  BY <1>2, <1>4, <1>5, SeqEqual
<1> QED BY <1>6 DEF s, t, e

\* n databases have been opened and the first k of them have not been closed: those
\* the loop that runs has still to close.
Ledger(n, k) ==
  /\ closers = Opened(n) /\ left \in 0 .. n
  /\ closed = ClosedOf(n, n - k)
  /\ pool \in [Names -> {"none", "open", "closed"}]
  /\ \A i \in 1 .. 3 :
       pool[Databases[i]] = IF i <= k THEN "open" ELSE IF i <= n THEN "closed" ELSE "none"
  /\ stage \notin Closing \cup {"exited"} => k = n
  /\ stage \in Closing => k = left
  /\ stage = "pinging" => k = 3
  /\ stage = "exited" => k = 0

LedgerInv == \E n \in 0 .. 3 : \E k \in 0 .. n : Ledger(n, k)

LEMMA LedgerInit == Init => LedgerInv
<1> SUFFICES ASSUME Init PROVE LedgerInv
  OBVIOUS
<1>1. Opened(0) = << >> /\ ClosedOf(0, 0) = << >>
  BY SubSeqEmpty DEF Opened, ClosedOf
<1>2. 0 \in 0 .. 3 /\ 0 \in 0 .. 0 /\ 0 - 0 = 0
  OBVIOUS
<1>3. \A i \in 1 .. 3 : pool[Databases[i]] = "none" /\ ~ (i <= 0)
  BY DatabaseFacts DEF Init
<1>4. Ledger(0, 0)
  BY <1>1, <1>2, <1>3 DEF Init, Ledger, Closing
<1> QED BY <1>2, <1>4 DEF LedgerInv

\* Steps that open and close nothing.
LEMMA LedgerKept ==
  ASSUME NEW n \in 0 .. 3, NEW k \in 0 .. n, Ledger(n, k),
         UNCHANGED << closers, pool, closed >>,
         left' \in 0 .. n,
         stage' \notin Closing \cup {"exited"} => k = n,
         stage' \in Closing => k = left',
         stage' = "pinging" => k = 3,
         stage' = "exited" => k = 0
  PROVE  LedgerInv'
<1>1. Ledger(n, k)'
  BY DEF Ledger
<1> QED BY <1>1 DEF LedgerInv

LEMMA LedgerStep ==
  ASSUME LInv, LedgerInv, [Next]_vars
  PROVE  LedgerInv'
<1> PICK n \in 0 .. 3 : \E k \in 0 .. n : Ledger(n, k)
  BY DEF LedgerInv
<1> PICK k \in 0 .. n : Ledger(n, k)
  OBVIOUS
<1> USE DEF Main, Course, Outcome, Pools, Pings, Server
<1>a. /\ stage \notin Closing \cup {"exited"} => k = n
      /\ stage \in Closing => k = left
      /\ stage = "pinging" => k = 3
      /\ stage = "exited" => k = 0
      /\ closers = Opened(n) /\ closed = ClosedOf(n, n - k)
      /\ left \in 0 .. n /\ Len(closers) = n
      /\ \A i \in 1 .. n : closers[i] = Databases[i]
  <2>1. closers = Opened(n)
    BY DEF Ledger
  <2>2. Len(closers) = n /\ \A i \in 1 .. n : closers[i] = Databases[i]
    BY <2>1, OpenedFacts
  <2> QED BY <2>1, <2>2 DEF Ledger
<1>1. CASE UNCHANGED << stage, closers, left, pool, closed >>
  BY <1>1, <1>a, LedgerKept
<1>2. CASE OpenNext
  <2>1. /\ stage = "opening" /\ stage' = "opening" /\ n = k /\ n \in 0 .. 2 /\ left' = left
        /\ closers' = Append(closers, Databases[n + 1]) /\ closed' = closed
        /\ pool' = [pool EXCEPT ![Databases[n + 1]] = "open"]
    BY <1>2, <1>a, DatabaseFacts DEF OpenNext, Closing
  <2>2. closers' = Opened(n + 1)
    BY <1>a, <2>1, OpenedGrows
  <2>3. /\ n + 1 \in 0 .. 3 /\ n + 1 \in 0 .. n + 1 /\ n + 1 \in 1 .. 3
        /\ n - k = 0 /\ (n + 1) - (n + 1) = 0 /\ left' \in 0 .. n + 1
    BY <1>a, <2>1
  <2>4. closed' = ClosedOf(n + 1, (n + 1) - (n + 1))
    <3>1. closed = ClosedOf(n, 0)
      BY <1>a, <2>3
    <3>2. ClosedOf(n, 0) = << >> /\ ClosedOf(n + 1, 0) = << >>
      BY SubSeqEmpty DEF ClosedOf
    <3> QED BY <2>1, <2>3, <3>1, <3>2
  <2>5. /\ pool' \in [Names -> {"none", "open", "closed"}]
        /\ \A i \in 1 .. 3 : pool'[Databases[i]] = IF i = n + 1 THEN "open" ELSE pool[Databases[i]]
    BY <2>1, <2>3, DatabaseFacts DEF Ledger
  <2>6. \A i \in 1 .. 3 :
          pool'[Databases[i]] = IF i <= n + 1 THEN "open" ELSE IF i <= n + 1 THEN "closed" ELSE "none"
    BY <2>1, <2>5 DEF Ledger
  <2>7. Ledger(n + 1, n + 1)'
    BY <2>1, <2>2, <2>3, <2>4, <2>5, <2>6 DEF Ledger, Closing
  <2> QED BY <2>3, <2>7 DEF LedgerInv
<1>3. ASSUME NEW loop \in Closing, CloseIn(loop)
      PROVE  LedgerInv'
  <2>1. stage \in Closing /\ k = left /\ k \in 1 .. n /\ k \in 1 .. 3
    BY <1>3, <1>a DEF CloseIn
  <2>2. closers[left] = Databases[k]
    BY <1>a, <2>1
  <2>3. /\ stage' = stage /\ closers' = closers /\ left' = k - 1
        /\ pool' = [pool EXCEPT ![Databases[k]] = "closed"]
        /\ closed' = Append(closed, Databases[k])
    BY <1>3, <2>1, <2>2 DEF CloseIn
  <2>4. closed' = ClosedOf(n, n - (k - 1))
    <3>1. n - k \in 0 .. n - 1 /\ n - (n - k) = k /\ (n - k) + 1 = n - (k - 1)
      BY <2>1
    <3>2. Append(ClosedOf(n, n - k), Databases[n - (n - k)]) = ClosedOf(n, (n - k) + 1)
      BY <3>1, ClosedGrows
    <3> QED BY <1>a, <2>3, <3>1, <3>2
  <2>5. /\ pool' \in [Names -> {"none", "open", "closed"}]
        /\ \A i \in 1 .. 3 : pool'[Databases[i]] = IF i = k THEN "closed" ELSE pool[Databases[i]]
    BY <2>1, <2>3, DatabaseFacts DEF Ledger
  <2>6. \A i \in 1 .. 3 :
          pool'[Databases[i]] = IF i <= k - 1 THEN "open" ELSE IF i <= n THEN "closed" ELSE "none"
    BY <2>1, <2>5 DEF Ledger
  <2>7. k - 1 \in 0 .. n /\ stage # "exited" /\ stage # "pinging"
    BY <2>1 DEF Closing
  <2>8. Ledger(n, k - 1)'
    BY <1>a, <2>1, <2>3, <2>4, <2>5, <2>6, <2>7 DEF Ledger
  <2> QED BY <2>7, <2>8 DEF LedgerInv
<1>9. CASE CloseAllNext \/ CloseNext
  BY <1>3, <1>9 DEF CloseAllNext, CloseNext, Closing
<1>4. CASE StartPings
  <2>1. stage = "opening" /\ stage' = "pinging" /\ n = 3 /\ left' = left
        /\ UNCHANGED << closers, pool, closed >>
    BY <1>4, <1>a, DatabaseFacts DEF StartPings, GoTo, Closing
  <2>2. k = n
    BY <1>a, <2>1 DEF Closing
  <2> QED BY <1>a, <2>1, <2>2, LedgerKept DEF Closing
<1>5. CASE ReturnBuildError \/ Exit
  <2>1. stage' = "exited" /\ left' = left /\ UNCHANGED << closers, pool, closed >>
    BY <1>5 DEF ReturnBuildError, Exit, GoTo, Closing
  <2>2. k = 0
    BY <1>5, <1>a DEF ReturnBuildError, Exit, Closing
  <2> QED BY <1>a, <2>1, <2>2, LedgerKept DEF Closing
<1>6. ASSUME NEW s, GoTo(s), UNCHANGED << pool, closed >>,
             stage \notin Closing \cup {"exited"}, s \notin {"pinging", "exited"}
      PROVE  LedgerInv'
  <2>1. k = n /\ stage' = s /\ closers' = closers
        /\ left' = IF s \in Closing THEN Len(closers) ELSE left
    BY <1>6, <1>a DEF GoTo
  <2>2. left' \in 0 .. n /\ (s \in Closing => k = left')
    BY <1>a, <2>1
  <2> QED BY <1>6, <2>1, <2>2, LedgerKept
<1>7. CASE \/ OpenMemory \/ BuildFails \/ PingsFail \/ PingsSucceed \/ WiringFails \/ Wire
           \/ ListenFails \/ Listen \/ SelectSignal \/ SelectServeError \/ Quiesced
           \/ GiveUp \/ Drain
  <2>1. stage \notin Closing \cup {"exited"} /\ UNCHANGED << pool, closed >>
    BY <1>7 DEF OpenMemory, BuildFails, PingsFail, PingsSucceed, WiringFails,
       Wire, ListenFails, Listen, SelectSignal, SelectServeError, Quiesced, GiveUp, Drain, Closing
  <2>2. \/ GoTo("wiring") \/ GoTo("undoing") \/ GoTo("closing") \/ GoTo("listening")
        \/ GoTo("serving") \/ GoTo("shutdown") \/ GoTo("draining")
    BY <1>7 DEF OpenMemory, BuildFails, PingsFail, PingsSucceed, WiringFails,
       Wire, ListenFails, Listen, SelectSignal, SelectServeError, Quiesced, GiveUp, Drain, Fail
  <2> QED BY <1>6, <2>1, <2>2
<1>8. CASE \/ UNCHANGED vars \/ StartupTimeout \/ Signal \/ ServeBegins \/ ServeFails
           \/ ServeClosed \/ GraceOver
           \/ \E d \in Names : PingReturns(d) \/ PingInterrupted(d)
           \/ \E c \in Conns : Accept(c) \/ Respond(c) \/ \E d \in Names : Query(c, d)
  BY <1>1, <1>8 DEF vars, StartupTimeout, Signal, ServeBegins, ServeFails, ServeClosed,
     GraceOver, PingReturns, PingInterrupted, Accept, Respond, Query
<1> QED BY <1>2, <1>4, <1>5, <1>7, <1>8, <1>9 DEF Next, MainSteps

\* What is open is what has been opened and not yet closed, newest last.
THEOREM LedgerKeeps == Spec => []LedgerInv
<1>1. LInv /\ LedgerInv /\ [Next]_vars => LedgerInv'
  BY LedgerStep
<1> QED BY <1>1, LedgerInit, StagesConsistent, PTL DEF Spec

\* Wherever startup stopped and whatever Close returned, the process exits with
\* every database closed that it opened, once, the newest first.
THEOREM EveryDatabaseClosed == Spec => []ClosedInReverse
<1>1. LedgerInv => ClosedInReverse
  <2> SUFFICES ASSUME LedgerInv PROVE ClosedInReverse
    OBVIOUS
  <2> PICK n \in 0 .. 3 : \E k \in 0 .. n : Ledger(n, k)
    BY DEF LedgerInv
  <2> PICK k \in 0 .. n : Ledger(n, k)
    OBVIOUS
  <2>1. ASSUME stage = "exited", NEW d \in Names PROVE pool[d] # "open"
    <3> PICK i \in 1 .. 3 : d = Databases[i]
      BY DatabaseFacts
    <3> QED BY <2>1 DEF Ledger
  <2>2. n \in 0 .. Len(Databases) /\ n - k \in 0 .. n
    BY DatabaseFacts
  <2>3. closed = SubSeq(Reverse(SubSeq(Databases, 1, n)), 1, n - k)
    BY DEF Ledger, ClosedOf, Opened
  <2> QED BY <2>1, <2>2, <2>3 DEF ClosedInReverse
<1> QED BY <1>1, LedgerKeeps, PTL

\* The pings of startup never outlive the databases they run on.
THEOREM PingsHaveDatabases == Spec => []PingsUseOpenDatabases
<1>1. LInv /\ LedgerInv => PingsUseOpenDatabases
  <2> SUFFICES ASSUME LInv, LedgerInv, NEW d \in Names, ping[d] = "running"
               PROVE  pool[d] = "open"
    BY DEF PingsUseOpenDatabases
  <2>1. stage = "pinging"
    BY DEF LInv, StageInv
  <2> PICK n \in 0 .. 3 : \E k \in 0 .. n : Ledger(n, k)
    BY DEF LedgerInv
  <2> PICK k \in 0 .. n : Ledger(n, k)
    OBVIOUS
  <2> PICK i \in 1 .. 3 : d = Databases[i]
    BY DatabaseFacts
  <2> QED BY <2>1 DEF Ledger
<1> QED BY <1>1, LedgerKeeps, StagesConsistent, PTL

\* The variables the invariants above do not speak of.
Types ==
  /\ mode \in {"memory", "real"}
  /\ pctx \in {"live", "ended"}
  /\ signalled \in BOOLEAN
  /\ serve \in {"off", "started", "running", "nil", "err"}
  /\ grace \in {"off", "live", "over"}
  /\ met \subseteq Conns
  /\ errs \subseteq Failures /\ failed \subseteq Failures

LEMMA TypesStep ==
  ASSUME Types, [Next]_vars
  PROVE  Types'
<1> USE DEF Types, Failures, Main, Course, Outcome, Pools, Pings, Server
<1>1. CASE UNCHANGED vars \/ OpenMemory \/ OpenNext \/ StartPings \/ PingsSucceed \/ Wire
           \/ Quiesced \/ ReturnBuildError \/ Exit
  BY <1>1 DEF vars, OpenMemory, OpenNext, StartPings, PingsSucceed, Wire, Quiesced,
              ReturnBuildError, Exit, GoTo
<1>2. CASE BuildFails \/ PingsFail \/ WiringFails \/ ListenFails \/ SelectServeError \/ GiveUp
  BY <1>2 DEF BuildFails, PingsFail, WiringFails, ListenFails, SelectServeError,
              GiveUp, Fail, GoTo
<1>3. CASE Listen \/ SelectSignal \/ Drain
  BY <1>3 DEF Listen, SelectSignal, Drain, GoTo
<1>4. CASE CloseAllNext \/ CloseNext
  BY <1>4 DEF CloseAllNext, CloseNext, CloseIn
<1>5. CASE StartupTimeout \/ Signal \/ ServeBegins \/ ServeFails \/ ServeClosed \/ GraceOver
  BY <1>5 DEF StartupTimeout, Signal, ServeBegins, ServeFails, ServeClosed, GraceOver
<1>6. ASSUME NEW d \in Names, PingReturns(d) \/ PingInterrupted(d)
      PROVE  Types'
  BY <1>6 DEF PingReturns, PingInterrupted
<1>7. ASSUME NEW c \in Conns, Accept(c) \/ Respond(c) \/ \E d \in Names : Query(c, d)
      PROVE  Types'
  BY <1>7 DEF Accept, Respond, Query
<1> QED BY <1>1, <1>2, <1>3, <1>4, <1>5, <1>6, <1>7 DEF Next, MainSteps

\* Every variable keeps the shape the code gives it.
THEOREM LifecycleTypes == Spec => []TypeOK
<1>1. Init => Types
  BY DEF Init, Types, Failures
<1>2. Types /\ [Next]_vars => Types'
  BY TypesStep
<1>3. Types /\ LInv /\ LedgerInv => TypeOK
  <2> SUFFICES ASSUME Types, LInv, LedgerInv PROVE TypeOK
    OBVIOUS
  <2> PICK n \in 0 .. 3 : \E k \in 0 .. n : Ledger(n, k)
    BY DEF LedgerInv
  <2> PICK k \in 0 .. n : Ledger(n, k)
    OBVIOUS
  <2>1. n \in 0 .. Len(Databases) /\ n - k \in 0 .. n
    BY DatabaseFacts
  <2>2. closers \in {SubSeq(Databases, 1, i) : i \in 0 .. Len(Databases)}
    BY <2>1 DEF Ledger, Opened
  <2>3. closed \in Seq(Names)
    BY <2>1, ClosedFacts DEF Ledger
  <2>4. pool \in [Names -> {"none", "open", "closed"}]
    BY DEF Ledger
  <2>5. left \in 0 .. Len(closers)
    BY OpenedFacts DEF Ledger
  <2> QED BY <2>2, <2>3, <2>4, <2>5 DEF TypeOK, Types, LInv, StageInv
<1> QED BY <1>1, <1>2, <1>3, StagesConsistent, LedgerKeeps, PTL DEF Spec

-----------------------------------------------------------------------------
(* The process keeps the promise of ProcessPromise.                          *)

LEMMA PromiseInit == Init => Promise!Init
<1> SUFFICES ASSUME Init PROVE Promise!Init
  OBVIOUS
<1>1. Life = "starting" /\ Status = "none"
  BY DEF Init, Life, Status, Closing
<1>2. Checked \in BOOLEAN /\ signalled = FALSE /\ (failed = {}) = TRUE
  BY DEF Init, Checked
<1>3. conn = [c \in Conns |-> "none"] /\ met = {}
  BY DEF Init
<1> QED BY <1>1, <1>2, <1>3 DEF Promise!Init

pvars == << Life, Checked, signalled, failed = {}, Status, conn, met >>

LEMMA PromiseStep ==
  ASSUME LInv, [Next]_vars
  PROVE  [Promise!Next]_pvars
<1> USE DEF LInv, StageInv, HandlersInv, Startup, Stages, Closing, Life, Checked, Status, pvars,
            Main, Course, Outcome, Pools, Pings, Server, Promise!Go, Promise!Clients
<1> DEFINE Promised == [Promise!Next]_pvars
<1>1. CASE UNCHANGED vars
  BY <1>1 DEF vars
<1>2. CASE OpenMemory \/ OpenNext \/ StartPings
  BY <1>2, SomeDatabase DEF OpenMemory, OpenNext, StartPings, GoTo
<1>3. CASE BuildFails \/ PingsFail \/ WiringFails \/ ListenFails
  <2>1. Promise!GiveUpStarting
    BY <1>3 DEF BuildFails, PingsFail, WiringFails, ListenFails, Fail, GoTo,
                Promise!GiveUpStarting
  <2> QED BY <2>1 DEF Promise!Next
<1>4. ASSUME NEW d \in Names, PingReturns(d) \/ PingInterrupted(d)
      PROVE  Promised
  <2>1. /\ stage = "pinging" /\ ping[d] = "running"
        /\ UNCHANGED << mode, stage, errs, signalled, conn, met >>
    BY <1>4 DEF PingReturns, PingInterrupted
  <2>2. CASE ping' = [ping EXCEPT ![d] = "failed"] /\ failed' = failed \cup {"ping"}
    <3>1. ping[d] # "ok" /\ ping'[d] # "ok" /\ failed' # {}
      BY <2>1, <2>2
    <3>2. Checked' = Checked
      BY <2>1, <3>1
    <3>3. Promise!Fail
      BY <2>1, <3>1, <3>2 DEF Promise!Fail
    <3> QED BY <3>3 DEF Promise!Next
  <2>3. CASE ping' = [ping EXCEPT ![d] = "ok"] /\ failed' = failed
    <3>1. CASE Checked'
      <4>1. Promise!Check
        BY <2>1, <2>3, <3>1 DEF Promise!Check
      <4> QED BY <4>1 DEF Promise!Next
    <3>2. CASE ~ Checked'
      <4>1. ~ Checked
        BY <2>1, <2>3, <3>2
      <4> QED BY <2>1, <2>3, <3>2, <4>1
    <3> QED BY <3>1, <3>2
  <2> QED BY <1>4, <2>2, <2>3 DEF PingReturns, PingInterrupted
<1>5. CASE StartupTimeout \/ PingsSucceed \/ Wire \/ ServeBegins \/ ServeClosed \/ GraceOver
  BY <1>5 DEF StartupTimeout, PingsSucceed, Wire, ServeBegins, ServeClosed, GraceOver, GoTo
<1>17. CASE ServeFails
  <2>1. stage = "serving" /\ failed' # {}
    BY <1>17 DEF ServeFails
  <2>2. Promise!Fail
    BY <1>17, <2>1 DEF ServeFails, Promise!Fail
  <2> QED BY <2>2 DEF Promise!Next
<1>6. CASE Listen
  <2>1. stage = "listening" /\ failed = {}
    BY <1>6 DEF Listen, ReportInv, Unheard
  <2>2. Promise!Serve
    BY <1>6, <2>1 DEF Listen, GoTo, Promise!Serve
  <2> QED BY <2>2 DEF Promise!Next
<1>7. CASE Signal
  <2>1. Promise!Ask
    BY <1>7 DEF Signal, Promise!Ask
  <2> QED BY <2>1 DEF Promise!Next
<1>8. CASE SelectSignal
  <2>1. Promise!Stop
    BY <1>8 DEF SelectSignal, GoTo, Promise!Stop
  <2> QED BY <2>1 DEF Promise!Next
<1>9. CASE SelectServeError
  <2>1. Promise!Break
    BY <1>9 DEF SelectServeError, Fail, GoTo, Promise!Break
  <2> QED BY <2>1 DEF Promise!Next
<1>10. CASE Quiesced
  <2>1. Promise!Drained
    BY <1>10 DEF Quiesced, Idle, GoTo, Promise!Drained
  <2> QED BY <2>1 DEF Promise!Next
<1>11. CASE GiveUp
  <2>1. Promise!OutOfTime
    BY <1>11 DEF GiveUp, Fail, GoTo, Promise!OutOfTime
  <2> QED BY <2>1 DEF Promise!Next
<1>12. CASE Drain
  BY <1>12 DEF Drain, GoTo
<1>18. CASE CloseAllNext \/ CloseNext
  <2>1. /\ stage \in Closing /\ stage' = stage /\ failed \subseteq failed'
        /\ UNCHANGED << mode, ping, signalled, conn, met >>
    BY <1>18 DEF CloseAllNext, CloseNext, CloseIn
  <2>2. CASE failed' = {}
    <3>1. failed = {}
      BY <2>1, <2>2
    <3> QED BY <2>1, <2>2, <3>1
  <2>3. CASE failed' # {}
    <3>1. Promise!Fail
      BY <2>1, <2>3 DEF Promise!Fail
    <3> QED BY <3>1 DEF Promise!Next
  <2> QED BY <2>2, <2>3
<1>13. CASE ReturnBuildError \/ Exit
  <2>1. stage \in Closing /\ stage' = "exited" /\ UNCHANGED << mode, ping, signalled, conn, met, Outcome >>
    BY <1>13 DEF ReturnBuildError, Exit, GoTo
  <2>2. errs = failed
    BY <2>1 DEF ReportInv, Unheard
  <2>3. Promise!Exit
    BY <2>1, <2>2 DEF Promise!Exit
  <2> QED BY <2>3 DEF Promise!Next
<1>14. ASSUME NEW c \in Conns, Accept(c)
       PROVE  Promised
  <2>1. Promise!Take(c)
    BY <1>14 DEF Accept, Promise!Take
  <2> QED BY <2>1 DEF Promise!Next
<1>15. ASSUME NEW c \in Conns, Respond(c)
       PROVE  Promised
  <2>1. Promise!Answer(c)
    BY <1>15 DEF Respond, Promise!Answer
  <2> QED BY <2>1 DEF Promise!Next
<1>16. ASSUME NEW c \in Conns, NEW d \in Names, Query(c, d)
       PROVE  Promised
  <2>1. Promise!Harm(c)
    BY <1>16 DEF Query, Promise!Harm
  <2> QED BY <2>1 DEF Promise!Next
<1> QED
  BY <1>1, <1>2, <1>3, <1>4, <1>5, <1>6, <1>7, <1>8, <1>9, <1>10, <1>11, <1>12, <1>13,
     <1>14, <1>15, <1>16, <1>17, <1>18
  DEF Next, MainSteps

\* Startup, shutdown and closing, in any order with signals, Serve and handlers,
\* implement the process's promise: nobody is served unchecked, a clean exit was
\* asked for and has answered everybody, and the exit status tells of every failure.
THEOREM ProcessKeepsPromise == Spec => KeepsProcessPromise
<1>1. LInv /\ [Next]_vars => [Promise!Next]_Promise!vars
  BY PromiseStep DEF Promise!vars, pvars
<1> QED BY <1>1, PromiseInit, StagesConsistent, PTL DEF Spec, KeepsProcessPromise, Promise!Spec

===============================================================================
