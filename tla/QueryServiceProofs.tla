-------------------------- MODULE QueryServiceProofs --------------------------
(***************************************************************************)
(* Proofs about QueryService, for any number of concurrent calls and any   *)
(* layout of the stores.                                                   *)
(***************************************************************************)
EXTENDS QueryService, PlanningProofs, FiniteSetTheorems

-----------------------------------------------------------------------------
(* Types. *)

LEMMA QueryFields ==
  ASSUME TypeOK, NEW r \in Requests
  PROVE  /\ query[r].metric \in Metrics
         /\ query[r].range \in DateRanges
         /\ query[r].source \in Sources \cup {"auto", "memory"}
BY ServiceAssumption DEF TypeOK

LEMMA ErrorFacts ==
  /\ ErrorKinds = {"invalid", "unavailable", "overflow", "canceled", "deadline"}
  /\ "nil" \notin ErrorKinds /\ "live" \notin ErrorKinds
  /\ \A e \in ErrorKinds : HttpStatus(e) \in {400, 500, 503, 504}
  /\ HttpStatus("nil") = 200
  /\ \A e \in ContextErrors : WrapErr(e) = e
  /\ \A e \in DriverErrors : WrapErr(e) \in ErrorKinds
  /\ \A e \in {"nil"} \cup ErrorKinds : QueryStatus(e) \in Statuses
<1>1. ErrorKinds = {"invalid", "unavailable", "overflow", "canceled", "deadline"}
  BY DEF ErrorKinds, DomainErrors, ContextErrors
<1>2. \A e \in ErrorKinds : HttpStatus(e) \in {400, 500, 503, 504}
  BY <1>1 DEF HttpStatus
<1>3. HttpStatus("nil") = 200
  BY DEF HttpStatus
<1>4. \A e \in ContextErrors : WrapErr(e) = e
  BY DEF WrapErr, ContextErrors
<1>5. \A e \in DriverErrors : WrapErr(e) \in ErrorKinds
  BY <1>1, ServiceAssumption DEF WrapErr, ContextErrors
<1>6. \A e \in {"nil"} \cup ErrorKinds : QueryStatus(e) \in Statuses
  BY <1>1 DEF QueryStatus, Statuses
<1> QED BY <1>1, <1>2, <1>3, <1>4, <1>5, <1>6

LEMMA ValueTypes ==
  ASSUME NEW m \in Metrics
  PROVE  /\ Zero(m) \in [Columns[m] -> Int64]
         /\ Zero(m) \in [Columns[m] -> Int]
         /\ NoData(m) \in Results(m) /\ NoData(m).err = "nil"
         /\ NoAnswer(m) \in Answers(m)
         /\ \A e \in ErrorKinds : /\ Failure(m, e) \in Results(m)
                                  /\ Failure(m, e).err = e
                                  /\ ErrorAnswer(m, e) \in Answers(m)
<1>1. 0 \in Int64 /\ Int64 \subseteq Int
  BY PlanningAssumption DEF Int64
<1>2. Zero(m) \in [Columns[m] -> Int64] /\ Zero(m) \in [Columns[m] -> Int]
  BY <1>1 DEF Zero
<1>3. NoData(m) \in Results(m) /\ NoData(m).err = "nil"
  BY <1>2 DEF NoData, Results
<1>4. NoAnswer(m) \in Answers(m)
  BY <1>2 DEF NoAnswer, Answers
<1>5. ASSUME NEW e \in ErrorKinds
      PROVE  /\ Failure(m, e) \in Results(m) /\ Failure(m, e).err = e
             /\ ErrorAnswer(m, e) \in Answers(m)
  <2>1. Failure(m, e) = [err |-> e, days |-> {}, totals |-> Zero(m)]
    BY DEF Failure, NoData
  <2>2. HttpStatus(e) \in {400, 500, 503, 504}
    BY <1>5, ErrorFacts
  <2> QED BY <1>2, <1>5, <2>1, <2>2 DEF Results, ErrorAnswer, Answers
<1> QED BY <1>2, <1>3, <1>4, <1>5

\* A plan that is in force names one or two slots.
LEMMA WorkerSlots ==
  ASSUME TypeOK, NEW r \in Requests
  PROVE  /\ Len(segs[r]) \in {0, 1, 2}
         /\ Workers(r) \subseteq Slots
         /\ segs[r] # << >> => Len(segs[r]) \in {1, 2}
         /\ \A i \in Workers(r) : /\ segs[r][i] \in Segments
                                  /\ Source(r, i) \in Sources
                                  /\ DaysOf(segs[r][i].range) \in SUBSET Int
<1>1. segs[r] \in Seq(Segments) /\ Len(segs[r]) \in {0, 1, 2}
  BY DEF TypeOK, Plans, Slots
<1>2. Workers(r) \subseteq Slots
  <2>1. \A n \in {0, 1, 2} : 1 .. n \subseteq 1 .. 2
    OBVIOUS
  <2> QED BY <1>1, <2>1 DEF Workers, Slots
<1>3. segs[r] # << >> => Len(segs[r]) \in {1, 2}
  BY <1>1
<1>4. ASSUME NEW i \in Workers(r)
      PROVE  /\ segs[r][i] \in Segments /\ Source(r, i) \in Sources
             /\ DaysOf(segs[r][i].range) \in SUBSET Int
  <2>1. segs[r][i] \in Segments
    BY <1>1, <1>4 DEF Workers
  <2> QED BY <2>1 DEF Segments, Source, DaysOf
<1> QED BY <1>1, <1>2, <1>3, <1>4

LEMMA MergedType ==
  ASSUME TypeOK, NEW r \in Requests
  PROVE  MergedAnswer(r) \in Answers(query[r].metric)
<1> DEFINE m == query[r].metric
<1>1. \A i \in Slots : /\ out[r][i].days \in SUBSET Int
                       /\ out[r][i].totals \in [Columns[m] -> Int64]
  BY DEF TypeOK, Results
<1>2. Int64 \subseteq Int
  BY PlanningAssumption DEF Int64
<1>3. ASSUME NEW c \in Columns[m]
      PROVE  Subtotal(r, c, Len(segs[r])) \in Int
  <2>1. out[r][1].totals[c] \in Int /\ out[r][2].totals[c] \in Int
    <3>1. \A i \in Slots : out[r][i].totals[c] \in Int64
      BY <1>1, <1>3
    <3>2. 1 \in Slots /\ 2 \in Slots
      BY DEF Slots
    <3> QED BY <1>2, <3>1, <3>2
  <2> QED BY <2>1, WorkerSlots DEF Subtotal
<1>4. UNION {{i} \X out[r][i].days : i \in Workers(r)} \in SUBSET (Slots \X Int)
  BY <1>1, WorkerSlots
<1>5. HttpStatus("nil") = 200
  BY ErrorFacts
<1> QED BY <1>3, <1>4, <1>5 DEF MergedAnswer, Answers

LEMMA TypeInit == Init => TypeOK
<1> SUFFICES ASSUME Init PROVE TypeOK
  OBVIOUS
<1>1. ASSUME NEW r \in Requests
      PROVE  /\ query[r].metric \in Metrics
             /\ NoData(query[r].metric) \in Results(query[r].metric)
             /\ NoAnswer(query[r].metric) \in Answers(query[r].metric)
  BY <1>1, ServiceAssumption, ValueTypes DEF Init
<1>2. << >> \in Plans
  BY DEF Plans
<1>3. "live" \in Contexts
  BY DEF Contexts
<1> QED BY <1>1, <1>2, <1>3, ServiceAssumption DEF Init, TypeOK

\* A goroutine whose repository has returned.
LEMMA ReturnsType ==
  ASSUME TypeOK, NEW r \in Requests, NEW i \in Slots,
         NEW result \in Results(query[r].metric), Returns(r, i, result),
         causes' \in [Requests -> SUBSET ErrorKinds]
  PROVE  TypeOK'
<1>1. worker' \in [Requests -> [Slots -> {"off", "started", "returned", "done"}]]
  BY DEF TypeOK, Returns
<1>2. /\ DOMAIN out' = Requests
      /\ \A q \in Requests : /\ DOMAIN out'[q] = Slots
                             /\ \A j \in Slots : out'[q][j] \in Results(query[q].metric)
  BY DEF TypeOK, Returns
<1> QED BY <1>1, <1>2 DEF TypeOK, Returns

\* The handler has written a well-formed answer.
LEMMA WritesType ==
  ASSUME TypeOK, NEW r \in Requests, NEW response \in Answers(query[r].metric),
         Writes(r, response)
  PROVE  TypeOK'
<1>1. /\ DOMAIN answer' = Requests
      /\ \A q \in Requests : answer'[q] \in Answers(query[q].metric)
  BY DEF TypeOK, Writes
<1>2. gctx' \in [Requests -> Contexts]
  BY DEF TypeOK, Writes, Contexts, ContextErrors
<1> QED BY <1>1, <1>2 DEF TypeOK, Writes

LEMMA TypeStep == TypeOK /\ [Next]_vars => TypeOK'
<1> SUFFICES ASSUME TypeOK, [Next]_vars PROVE TypeOK'
  OBVIOUS
<1>1. ASSUME NEW r \in Requests, PlanRejected(r) PROVE TypeOK'
  <2>1. ErrorAnswer(query[r].metric, "invalid") \in Answers(query[r].metric)
    BY QueryFields, ErrorFacts, ValueTypes
  <2>2. /\ DOMAIN answer' = Requests
        /\ \A q \in Requests : answer'[q] \in Answers(query[q].metric)
    BY <1>1, <2>1 DEF TypeOK, PlanRejected
  <2>3. causes' \in [Requests -> SUBSET ErrorKinds]
    BY <1>1, ErrorFacts DEF TypeOK, PlanRejected
  <2> QED BY <1>1, <2>2, <2>3 DEF TypeOK, PlanRejected
<1>2. ASSUME NEW r \in Requests, Start(r) PROVE TypeOK'
  <2>1. Plan(query[r].source, query[r].range, today) \in Plans
    BY QueryFields, PlanType DEF TypeOK
  <2>2. segs' \in [Requests -> Plans]
    BY <1>2, <2>1 DEF TypeOK, Start
  <2>3. worker' \in [Requests -> [Slots -> {"off", "started", "returned", "done"}]]
    BY <1>2 DEF TypeOK, Start
  <2>4. gctx' \in [Requests -> Contexts]
    BY <1>2 DEF TypeOK, Start
  <2> QED BY <1>2, <2>2, <2>3, <2>4 DEF TypeOK, Start
<1>3. ASSUME NEW r \in Requests, NEW i \in Slots, MissingRepository(r, i) PROVE TypeOK'
  <2>1. Failure(query[r].metric, "invalid") \in Results(query[r].metric)
    BY QueryFields, ErrorFacts, ValueTypes
  <2>2. causes' \in [Requests -> SUBSET ErrorKinds]
    BY <1>3, ErrorFacts DEF TypeOK, MissingRepository
  <2> QED BY <1>3, <2>1, <2>2, ReturnsType DEF MissingRepository
<1>4. ASSUME NEW r \in Requests, NEW i \in Slots, RepositoryAnswers(r, i) PROVE TypeOK'
  <2> DEFINE m == query[r].metric
             days == DaysRead(r, i)
  <2>1. PICK totals \in IF days = {} THEN {Zero(m)} ELSE Counts[m] :
          Returns(r, i, [err |-> "nil", days |-> days, totals |-> totals])
    BY <1>4 DEF RepositoryAnswers
  <2>2. totals \in [Columns[m] -> Int64]
    BY <2>1, QueryFields, ValueTypes, ServiceAssumption
  <2>3. days \in SUBSET Int
    BY <1>4, WorkerSlots DEF DaysRead, RepositoryAnswers
  <2>4. [err |-> "nil", days |-> days, totals |-> totals] \in Results(m)
    BY <2>2, <2>3 DEF Results
  <2>5. causes' \in [Requests -> SUBSET ErrorKinds]
    BY <1>4 DEF TypeOK, RepositoryAnswers
  <2> QED BY <2>1, <2>4, <2>5, ReturnsType
<1>5. ASSUME NEW r \in Requests, NEW i \in Slots, RepositoryFails(r, i) PROVE TypeOK'
  <2>1. PICK e \in DriverErrors :
          /\ Returns(r, i, Failure(query[r].metric, WrapErr(e)))
          /\ causes' = [causes EXCEPT ![r] = @ \cup {WrapErr(e)}]
    BY <1>5 DEF RepositoryFails
  <2>2. WrapErr(e) \in ErrorKinds
    BY <2>1, ErrorFacts
  <2>3. Failure(query[r].metric, WrapErr(e)) \in Results(query[r].metric)
    BY <2>2, QueryFields, ValueTypes
  <2>4. causes' \in [Requests -> SUBSET ErrorKinds]
    BY <2>1, <2>2 DEF TypeOK
  <2> QED BY <2>1, <2>3, <2>4, ReturnsType
<1>6. ASSUME NEW r \in Requests, NEW i \in Slots, RepositoryInterrupted(r, i) PROVE TypeOK'
  <2>1. gctx[r] \in ContextErrors
    BY <1>6 DEF TypeOK, RepositoryInterrupted, RepoContext, Contexts
  <2>2. WrapErr(gctx[r]) \in ErrorKinds
    BY <2>1, ErrorFacts DEF ErrorKinds
  <2>3. Failure(query[r].metric, WrapErr(gctx[r])) \in Results(query[r].metric)
    BY <2>2, QueryFields, ValueTypes
  <2>4. causes' \in [Requests -> SUBSET ErrorKinds]
    BY <1>6 DEF TypeOK, RepositoryInterrupted, RepoContext
  <2> QED BY <1>6, <2>3, <2>4, ReturnsType DEF RepositoryInterrupted, RepoContext
<1>7. ASSUME NEW r \in Requests, NEW i \in Slots, Report(r, i) PROVE TypeOK'
  <2> DEFINE e == out[r][i].err
  <2>1. e \in {"nil"} \cup ErrorKinds
    BY DEF TypeOK, Results
  <2>2. worker' \in [Requests -> [Slots -> {"off", "started", "returned", "done"}]]
    BY <1>7 DEF TypeOK, Report
  <2>3. gerr' \in [Requests -> {"nil"} \cup ErrorKinds]
    BY <1>7, <2>1 DEF TypeOK, Report, FirstError
  <2>4. gctx' \in [Requests -> Contexts]
    BY <1>7 DEF TypeOK, Report, CancelOnError, Contexts, ContextErrors
  <2>5. Source(r, i) \in Sources /\ query[r].metric \in Metrics /\ QueryStatus(e) \in Statuses
    BY <1>7, <2>1, WorkerSlots, QueryFields, ErrorFacts DEF Report
  <2>6. queryTotal' \in [Sources -> [Metrics -> [Statuses -> Nat]]]
    BY <1>7, <2>5 DEF TypeOK, Report, Observe
  <2> QED BY <1>7, <2>2, <2>3, <2>4, <2>6 DEF TypeOK, Report
<1>8. ASSUME NEW r \in Requests, AnswerError(r) PROVE TypeOK'
  <2>1. gerr[r] \in ErrorKinds
    BY <1>8 DEF TypeOK, AnswerError
  <2>2. ErrorAnswer(query[r].metric, gerr[r]) \in Answers(query[r].metric)
    BY <2>1, QueryFields, ValueTypes
  <2> QED BY <1>8, <2>2, WritesType DEF AnswerError
<1>9. ASSUME NEW r \in Requests, AnswerOverflow(r) PROVE TypeOK'
  <2>1. ErrorAnswer(query[r].metric, "overflow") \in Answers(query[r].metric)
    BY QueryFields, ErrorFacts, ValueTypes
  <2> QED BY <1>9, <2>1, WritesType DEF AnswerOverflow
<1>10. ASSUME NEW r \in Requests, AnswerMerged(r) PROVE TypeOK'
  BY <1>10, MergedType, WritesType DEF AnswerMerged
<1>11. ASSUME NEW r \in Requests, ClientCancels(r) \/ Deadline(r) PROVE TypeOK'
  <2>1. PICK e \in ContextErrors : ContextEnds(r, e)
    BY <1>11 DEF ClientCancels, Deadline, ContextErrors
  <2>2. e \in Contexts /\ e \in ErrorKinds
    BY <2>1 DEF Contexts, ErrorKinds
  <2>3. gctx' \in [Requests -> Contexts] /\ rctx' \in [Requests -> Contexts]
    BY <2>1, <2>2 DEF TypeOK, ContextEnds, Inherited
  <2>4. causes' \in [Requests -> SUBSET ErrorKinds]
    BY <2>1, <2>2 DEF TypeOK, ContextEnds
  <2> QED BY <2>1, <2>3, <2>4 DEF TypeOK, ContextEnds
<1>12. ASSUME Midnight \/ ExportDay PROVE TypeOK'
  BY <1>12 DEF TypeOK, Midnight, ExportDay, OnlyTheCalendarMoves
<1>13. CASE UNCHANGED vars
  BY <1>13 DEF TypeOK, vars
<1> QED BY <1>1, <1>2, <1>3, <1>4, <1>5, <1>6, <1>7, <1>8, <1>9, <1>10, <1>11,
           <1>12, <1>13 DEF Next, Step

\* Type correctness of the service.
THEOREM TypeCorrect == Spec => []TypeOK
BY TypeInit, TypeStep, PTL DEF Spec

-----------------------------------------------------------------------------
(* The inductive invariant of a call. *)

\* All that belongs to one call.
CallState(q) == << query[q], phase[q], plannedOn[q], segs[q], rctx[q], gctx[q],
                   gerr[q], worker[q], out[q], answer[q], causes[q] >>

\* A step of one call leaves every other call alone.
LEMMA OtherCalls ==
  ASSUME TypeOK, NEW r \in Requests, NEW q \in Requests, q # r, Step(r)
  PROVE  UNCHANGED CallState(q)
<1> USE DEF TypeOK, CallState
<1>1. CASE PlanRejected(r) BY <1>1 DEF PlanRejected
<1>2. CASE Start(r) BY <1>2 DEF Start
<1>3. CASE \E i \in Slots : MissingRepository(r, i) BY <1>3 DEF MissingRepository, Returns
<1>4. CASE \E i \in Slots : RepositoryAnswers(r, i) BY <1>4 DEF RepositoryAnswers, Returns
<1>5. CASE \E i \in Slots : RepositoryFails(r, i) BY <1>5 DEF RepositoryFails, Returns
<1>6. CASE \E i \in Slots : RepositoryInterrupted(r, i) BY <1>6 DEF RepositoryInterrupted, Returns
<1>7. CASE \E i \in Slots : Report(r, i) BY <1>7 DEF Report
<1>8. CASE AnswerError(r) BY <1>8 DEF AnswerError, Writes
<1>9. CASE AnswerOverflow(r) BY <1>9 DEF AnswerOverflow, Writes
<1>10. CASE AnswerMerged(r) BY <1>10 DEF AnswerMerged, Writes
<1>11. CASE ClientCancels(r) BY <1>11 DEF ClientCancels, ContextEnds
<1>12. CASE Deadline(r) BY <1>12 DEF Deadline, ContextEnds
<1> QED BY <1>1, <1>2, <1>3, <1>4, <1>5, <1>6, <1>7, <1>8, <1>9, <1>10, <1>11,
           <1>12 DEF Step

OneCallInv(r) == PlanInv(r) /\ GroupInv(r) /\ AnswerInv(r)

LEMMA UndisturbedCall ==
  ASSUME NEW q, OneCallInv(q), UNCHANGED CallState(q)
  PROVE  OneCallInv(q)'
<1>1. PlanInv(q)'
  BY DEF OneCallInv, PlanInv, CallState, Workers
<1>2. GroupInv(q)'
  BY DEF OneCallInv, GroupInv, CallState
<1>3. /\ MergeOverflows(q)' <=> MergeOverflows(q)
      /\ MergedAnswer(q)' = MergedAnswer(q)
  BY DEF CallState, MergeOverflows, MergedAnswer, Subtotal, Workers
<1>4. AnswerInv(q)'
  BY <1>3 DEF OneCallInv, AnswerInv, CallState, Workers
<1> QED BY <1>1, <1>2, <1>4 DEF OneCallInv

LEMMA CallInit == Init => CallInv
<1> SUFFICES ASSUME Init, NEW r \in Requests PROVE OneCallInv(r)
  BY DEF CallInv, OneCallInv
<1>1. query[r].metric \in Metrics
  BY ServiceAssumption DEF Init
<1>2. \A i \in Slots : out[r][i].err = "nil"
  BY <1>1, ValueTypes DEF Init
<1>3. Workers(r) = {}
  BY DEF Init, Workers
<1>4. PlanInv(r)
  BY <1>3 DEF Init, PlanInv
<1>5. GroupInv(r)
  BY <1>2 DEF Init, GroupInv
<1>6. AnswerInv(r)
  BY DEF Init, AnswerInv
<1> QED BY <1>4, <1>5, <1>6 DEF OneCallInv

\* A goroutine that has not reported belongs to a running call.
LEMMA StartedIsRunning ==
  ASSUME TypeOK, NEW r \in Requests, OneCallInv(r), NEW i \in Slots,
         worker[r][i] \in {"started", "returned"}
  PROVE  /\ phase[r] = "running" /\ segs[r] # << >>
         /\ i \in Workers(r)
<1>1. i \in Workers(r)
  BY DEF OneCallInv, PlanInv
<1>2. phase[r] # "new"
  <2>1. segs[r] = << >> => Workers(r) = {}
    BY DEF Workers
  <2> QED BY <1>1, <2>1 DEF OneCallInv, PlanInv
<1>3. phase[r] # "answered"
  BY <1>1 DEF OneCallInv, AnswerInv
<1> QED BY <1>1, <1>2, <1>3 DEF TypeOK, OneCallInv, PlanInv

\* The repository returns an error that has a cause, or data.
LEMMA ReturnsKeepsCall ==
  ASSUME TypeOK, NEW r \in Requests, OneCallInv(r), NEW i \in Slots, NEW result,
         worker[r][i] = "started", Returns(r, i, result),
         causes' \in [Requests -> SUBSET ErrorKinds],
         causes[r] \subseteq causes'[r],
         result.err # "nil" => result.err \in causes'[r] \/ gerr[r] # "nil"
  PROVE  OneCallInv(r)'
<1>1. phase[r] = "running" /\ segs[r] # << >> /\ i \in Workers(r)
  BY StartedIsRunning
<1>2. /\ \A j \in Slots : j # i => out'[r][j] = out[r][j] /\ worker'[r][j] = worker[r][j]
      /\ out'[r][i] = result /\ worker'[r][i] = "returned"
      /\ query' = query /\ phase' = phase /\ plannedOn' = plannedOn /\ segs' = segs
      /\ rctx' = rctx /\ gctx' = gctx /\ gerr' = gerr
  BY DEF TypeOK, Returns
<1>3. PlanInv(r)'
  BY <1>1, <1>2 DEF OneCallInv, PlanInv, Workers
<1>4. GroupInv(r)'
  BY <1>1, <1>2 DEF OneCallInv, GroupInv
<1>5. AnswerInv(r)'
  BY <1>1, <1>2 DEF AnswerInv
<1> QED BY <1>3, <1>4, <1>5 DEF OneCallInv

\* The handler answers once all goroutines are done.
LEMMA WritesKeepsCall ==
  ASSUME TypeOK, NEW r \in Requests, OneCallInv(r), NEW response,
         Writes(r, response),
         response = CASE gerr[r] # "nil" -> ErrorAnswer(query[r].metric, gerr[r])
                      [] gerr[r] = "nil" /\ MergeOverflows(r) ->
                           ErrorAnswer(query[r].metric, "overflow")
                      [] gerr[r] = "nil" /\ ~ MergeOverflows(r) -> MergedAnswer(r)
  PROVE  OneCallInv(r)'
<1>1. /\ phase[r] = "running" /\ segs[r] # << >>
      /\ \A i \in Workers(r) : worker[r][i] = "done"
  BY DEF Writes, WaitReturns, OneCallInv, PlanInv
<1>2. /\ query' = query /\ plannedOn' = plannedOn /\ segs' = segs /\ rctx' = rctx
      /\ gerr' = gerr /\ worker' = worker /\ out' = out /\ causes' = causes
      /\ phase'[r] = "answered" /\ answer'[r] = response
      /\ gctx'[r] = IF gctx[r] = "live" THEN "canceled" ELSE gctx[r]
  BY DEF TypeOK, Writes
<1>3. /\ MergeOverflows(r)' <=> MergeOverflows(r)
      /\ MergedAnswer(r)' = MergedAnswer(r)
  <2>1. query' = query /\ segs' = segs /\ out' = out
    BY <1>2
  <2>2. MergeOverflows(r)' <=> MergeOverflows(r)
    BY <2>1 DEF MergeOverflows, Subtotal, Workers
  <2>3. MergedAnswer(r)' = MergedAnswer(r)
    BY <2>1 DEF MergedAnswer, Subtotal, Workers
  <2> QED BY <2>2, <2>3
<1>4. PlanInv(r)'
  BY <1>1, <1>2 DEF OneCallInv, PlanInv, Workers
<1>5. GroupInv(r)'
  BY <1>1, <1>2 DEF OneCallInv, GroupInv
<1>6. AnswerInv(r)'
  BY <1>1, <1>2, <1>3 DEF AnswerInv, Workers
<1> QED BY <1>4, <1>5, <1>6 DEF OneCallInv

LEMMA CallStep == TypeOK /\ CallInv /\ [Next]_vars => CallInv'
<1> SUFFICES ASSUME TypeOK, CallInv, [Next]_vars, NEW q \in Requests
             PROVE  OneCallInv(q)'
  BY DEF CallInv, OneCallInv
<1>0. OneCallInv(q) /\ TypeOK'
  BY TypeStep DEF CallInv, OneCallInv
<1>1. CASE UNCHANGED vars \/ Midnight \/ ExportDay
  <2>1. UNCHANGED CallState(q)
    BY <1>1 DEF vars, Midnight, ExportDay, OnlyTheCalendarMoves, CallState
  <2> QED BY <1>0, <2>1, UndisturbedCall
<1>2. ASSUME NEW r \in Requests, q # r, Step(r) PROVE OneCallInv(q)'
  <2>1. UNCHANGED CallState(q)
    BY <1>2, OtherCalls
  <2> QED BY <1>0, <2>1, UndisturbedCall
<1>3. ASSUME PlanRejected(q) PROVE OneCallInv(q)'
  <2>1. /\ segs[q] = << >> /\ gerr[q] = "nil" /\ segs' = segs /\ worker' = worker
        /\ query' = query /\ plannedOn' = plannedOn /\ gerr' = gerr /\ out' = out
        /\ rctx' = rctx /\ gctx' = gctx
        /\ phase'[q] = "answered" /\ causes'[q] = causes[q] \cup {"invalid"}
        /\ answer'[q] = ErrorAnswer(query[q].metric, "invalid")
    BY <1>0, <1>3 DEF TypeOK, PlanRejected, OneCallInv, PlanInv
  <2>2. Workers(q)' = {}
    BY <2>1 DEF Workers
  <2>3. PlanInv(q)'
    BY <1>0, <2>1 DEF OneCallInv, PlanInv, Workers
  <2>4. GroupInv(q)'
    BY <1>0, <2>1 DEF OneCallInv, GroupInv
  <2>5. AnswerInv(q)'
    BY <2>1, <2>2 DEF AnswerInv
  <2> QED BY <2>3, <2>4, <2>5 DEF OneCallInv
<1>4. ASSUME Start(q) PROVE OneCallInv(q)'
  <2> DEFINE plan == Plan(query[q].source, query[q].range, today)
  <2>1. /\ plan # << >> /\ segs'[q] = plan /\ plannedOn'[q] = today
        /\ phase'[q] = "running" /\ gerr[q] = "nil"
        /\ query' = query /\ gerr' = gerr /\ out' = out /\ rctx' = rctx
        /\ causes' = causes /\ gctx'[q] = rctx[q]
        /\ worker'[q] = [i \in Slots |-> IF i <= Len(plan) THEN "started" ELSE "off"]
    BY <1>0, <1>4 DEF TypeOK, Start, OneCallInv, PlanInv
  <2>2. plan \in Plans
    BY QueryFields, PlanType DEF TypeOK
  <2>3. Len(plan) \in {1, 2}
    BY <2>1, <2>2 DEF Plans, Slots
  <2>4. \A i \in Slots : i <= Len(plan) <=> i \in 1 .. Len(plan)
    BY <2>3 DEF Slots
  <2>5. PlanInv(q)'
    BY <2>1, <2>4 DEF PlanInv, Workers
  <2>6. GroupInv(q)'
    BY <1>0, <2>1 DEF OneCallInv, GroupInv
  <2>7. AnswerInv(q)'
    BY <2>1 DEF AnswerInv
  <2> QED BY <2>5, <2>6, <2>7 DEF OneCallInv
<1>5. ASSUME NEW i \in Slots, MissingRepository(q, i) PROVE OneCallInv(q)'
  <2>1. Failure(query[q].metric, "invalid").err = "invalid"
    BY QueryFields, ValueTypes, ErrorFacts
  <2>2. causes'[q] = causes[q] \cup {"invalid"}
    BY <1>5 DEF TypeOK, MissingRepository
  <2>3. causes' \in [Requests -> SUBSET ErrorKinds]
    BY <1>0 DEF TypeOK
  <2> QED BY <1>0, <1>5, <2>1, <2>2, <2>3, ReturnsKeepsCall DEF MissingRepository
<1>6. ASSUME NEW i \in Slots, RepositoryAnswers(q, i) PROVE OneCallInv(q)'
  <2>1. PICK result : Returns(q, i, result) /\ result.err = "nil"
    BY <1>6 DEF RepositoryAnswers
  <2>2. causes' = causes /\ causes' \in [Requests -> SUBSET ErrorKinds]
    BY <1>0, <1>6 DEF TypeOK, RepositoryAnswers
  <2> QED BY <1>0, <1>6, <2>1, <2>2, ReturnsKeepsCall DEF RepositoryAnswers
<1>7. ASSUME NEW i \in Slots, RepositoryFails(q, i) PROVE OneCallInv(q)'
  <2>1. PICK e \in DriverErrors :
          /\ Returns(q, i, Failure(query[q].metric, WrapErr(e)))
          /\ causes' = [causes EXCEPT ![q] = @ \cup {WrapErr(e)}]
    BY <1>7 DEF RepositoryFails
  <2>2. Failure(query[q].metric, WrapErr(e)).err = WrapErr(e)
    BY QueryFields, ValueTypes, ErrorFacts
  <2>3. causes'[q] = causes[q] \cup {WrapErr(e)}
    BY <2>1 DEF TypeOK
  <2>4. causes' \in [Requests -> SUBSET ErrorKinds]
    BY <1>0 DEF TypeOK
  <2> QED BY <1>0, <1>7, <2>1, <2>2, <2>3, <2>4, ReturnsKeepsCall DEF RepositoryFails
<1>8. ASSUME NEW i \in Slots, RepositoryInterrupted(q, i) PROVE OneCallInv(q)'
  <2>1. gctx[q] # "live" /\ gctx[q] \in ContextErrors
    BY <1>8 DEF TypeOK, RepositoryInterrupted, RepoContext, Contexts
  <2>2. WrapErr(gctx[q]) = gctx[q] /\ gctx[q] \in ErrorKinds
    BY <2>1, ErrorFacts DEF ErrorKinds
  <2>3. Failure(query[q].metric, WrapErr(gctx[q])).err = gctx[q]
    BY <2>2, QueryFields, ValueTypes
  <2>4. phase[q] = "running"
    BY <1>0, <1>8, StartedIsRunning DEF RepositoryInterrupted, RepoContext
  <2>5. gctx[q] \in causes[q] \/ gerr[q] # "nil"
    BY <1>0, <2>1, <2>4 DEF OneCallInv, GroupInv
  <2>6. causes' = causes /\ causes' \in [Requests -> SUBSET ErrorKinds]
    BY <1>0, <1>8 DEF TypeOK, RepositoryInterrupted, RepoContext
  <2> QED BY <1>0, <1>8, <2>3, <2>5, <2>6, ReturnsKeepsCall DEF RepositoryInterrupted, RepoContext
<1>9. ASSUME NEW i \in Slots, Report(q, i) PROVE OneCallInv(q)'
  <2> DEFINE e == out[q][i].err
             first == e # "nil" /\ gerr[q] = "nil"
  <2>1. phase[q] = "running" /\ segs[q] # << >> /\ i \in Workers(q)
    BY <1>0, <1>9, StartedIsRunning DEF Report
  <2>2. /\ worker[q][i] = "returned" /\ worker'[q][i] = "done"
        /\ \A j \in Slots : j # i => worker'[q][j] = worker[q][j]
        /\ query' = query /\ phase' = phase /\ plannedOn' = plannedOn /\ segs' = segs
        /\ rctx' = rctx /\ out' = out /\ causes' = causes
        /\ gerr'[q] = IF first THEN e ELSE gerr[q]
        /\ gctx'[q] = IF first /\ gctx[q] = "live" THEN "canceled" ELSE gctx[q]
    BY <1>9 DEF TypeOK, Report, FirstError, CancelOnError
  <2>3. PlanInv(q)'
    BY <1>0, <2>1, <2>2 DEF OneCallInv, PlanInv, Workers
  <2>4. GroupInv(q)'
    <3>1. first => e \in causes[q]
      BY <1>0, <2>2 DEF OneCallInv, GroupInv
    <3>2. e # "nil" => gerr'[q] # "nil"
      BY <2>2
    <3>3. gerr[q] # "nil" => gerr'[q] = gerr[q]
      BY <2>2
    <3>4. gerr'[q] # "nil" => gerr'[q] \in causes[q] /\ gctx'[q] # "live"
      BY <1>0, <2>2, <3>1 DEF OneCallInv, GroupInv
    <3>5. gerr'[q] = "nil" => gctx'[q] = gctx[q] /\ gerr[q] = "nil"
      BY <2>2, <3>2
    <3>6. \A j \in Slots :
            out[q][j].err # "nil" =>
              /\ worker'[q][j] = "done" => gerr'[q] # "nil"
              /\ worker'[q][j] = "returned" =>
                   out[q][j].err \in causes[q] \/ gerr'[q] # "nil"
      BY <1>0, <2>2, <3>2, <3>3 DEF OneCallInv, GroupInv
    <3> QED BY <1>0, <2>2, <3>4, <3>5, <3>6 DEF OneCallInv, GroupInv
  <2>5. AnswerInv(q)'
    BY <2>1, <2>2 DEF AnswerInv
  <2> QED BY <2>3, <2>4, <2>5 DEF OneCallInv
<1>10. ASSUME AnswerError(q) \/ AnswerOverflow(q) \/ AnswerMerged(q) PROVE OneCallInv(q)'
  <2>1. CASE AnswerError(q)
    BY <1>0, <2>1, WritesKeepsCall DEF AnswerError
  <2>2. CASE AnswerOverflow(q)
    BY <1>0, <2>2, WritesKeepsCall DEF AnswerOverflow
  <2>3. CASE AnswerMerged(q)
    BY <1>0, <2>3, WritesKeepsCall DEF AnswerMerged
  <2> QED BY <1>10, <2>1, <2>2, <2>3
<1>11. ASSUME ClientCancels(q) \/ Deadline(q) PROVE OneCallInv(q)'
  <2>1. PICK e \in ContextErrors : ContextEnds(q, e)
    BY <1>11 DEF ClientCancels, Deadline, ContextErrors
  <2>2. /\ phase[q] # "answered" /\ rctx[q] = "live" /\ rctx'[q] = e
        /\ gctx'[q] = IF phase[q] = "running" /\ gctx[q] = "live" THEN e ELSE gctx[q]
        /\ causes'[q] = causes[q] \cup {e}
        /\ query' = query /\ phase' = phase /\ plannedOn' = plannedOn /\ segs' = segs
        /\ gerr' = gerr /\ worker' = worker /\ out' = out
    BY <2>1 DEF TypeOK, ContextEnds, Inherited
  <2>3. e # "live"
    BY DEF ContextErrors
  <2>4. PlanInv(q)'
    BY <1>0, <2>2 DEF OneCallInv, PlanInv, Workers
  <2>5. GroupInv(q)'
    BY <1>0, <2>2, <2>3 DEF OneCallInv, GroupInv
  <2>6. AnswerInv(q)'
    BY <2>2 DEF AnswerInv
  <2> QED BY <2>4, <2>5, <2>6 DEF OneCallInv
<1>12. ASSUME Step(q) PROVE OneCallInv(q)'
  BY <1>3, <1>4, <1>5, <1>6, <1>7, <1>8, <1>9, <1>10, <1>11, <1>12 DEF Step
<1> QED BY <1>1, <1>2, <1>12 DEF Next

\* The inductive invariant holds in every reachable state.
THEOREM CallsConsistent == Spec => []CallInv
<1>1. TypeOK /\ CallInv /\ [Next]_vars => CallInv'
  BY CallStep
<1> QED BY <1>1, CallInit, TypeCorrect, PTL DEF Spec

-----------------------------------------------------------------------------
(* What follows from it: the safety properties that do not depend on the      *)
(* layout of the stores.                                                      *)

LEMMA AnswerFields ==
  ASSUME NEW m, NEW e
  PROVE  /\ ErrorAnswer(m, e).status = HttpStatus(e) /\ ErrorAnswer(m, e).err = e
         /\ ErrorAnswer(m, e).rows = {} /\ ErrorAnswer(m, e).totals = Zero(m)
BY DEF ErrorAnswer

LEMMA MergedFields ==
  ASSUME NEW r
  PROVE  /\ MergedAnswer(r).status = 200 /\ MergedAnswer(r).err = "nil"
         /\ MergedAnswer(r).rows = UNION {{i} \X out[r][i].days : i \in Workers(r)}
         /\ \A c \in Columns[query[r].metric] :
              MergedAnswer(r).totals[c] = Subtotal(r, c, Len(segs[r]))
BY ErrorFacts DEF MergedAnswer

\* The three answers there are.
LEMMA AnswerCases ==
  ASSUME TypeOK, CallInv, NEW r \in Requests, phase[r] = "answered"
  PROVE  /\ \A i \in Workers(r) : worker[r][i] = "done"
         /\ \/ /\ \E e \in causes[r] : answer[r] = ErrorAnswer(query[r].metric, e)
               /\ segs[r] = << >> \/ gerr[r] # "nil"
            \/ /\ segs[r] # << >> /\ gerr[r] = "nil"
               /\ \A i \in Workers(r) : out[r][i].err = "nil"
               /\ \/ MergeOverflows(r) /\ answer[r] = ErrorAnswer(query[r].metric, "overflow")
                  \/ ~ MergeOverflows(r) /\ answer[r] = MergedAnswer(r)
<1>1. PlanInv(r) /\ GroupInv(r) /\ AnswerInv(r)
  BY DEF CallInv
<1>2. \A i \in Workers(r) : worker[r][i] = "done"
  BY <1>1 DEF AnswerInv
<1>3. CASE segs[r] = << >>
  BY <1>1, <1>2, <1>3 DEF AnswerInv
<1>4. CASE segs[r] # << >> /\ gerr[r] # "nil"
  BY <1>1, <1>2, <1>4 DEF AnswerInv, GroupInv
<1>5. CASE segs[r] # << >> /\ gerr[r] = "nil"
  <2>1. \A i \in Workers(r) : out[r][i].err = "nil"
    BY <1>1, <1>2, <1>5, WorkerSlots DEF GroupInv
  <2> QED BY <1>1, <1>2, <1>5, <2>1 DEF AnswerInv
<1> QED BY <1>3, <1>4, <1>5

LEMMA SafetyFacts ==
  ASSUME TypeOK, CallInv
  PROVE  AllOrNothing /\ ErrorsHaveCauses /\ NothingOutlivesTheAnswer
<1>1. ASSUME NEW r \in Requests, phase[r] = "answered"
      PROVE  IF answer[r].status = 200
               THEN /\ segs[r] # << >>
                    /\ \A i \in Workers(r) : worker[r][i] = "done" /\ out[r][i].err = "nil"
               ELSE answer[r].rows = {} /\ answer[r].totals = Zero(query[r].metric)
  <2>1. \A e \in ErrorKinds : HttpStatus(e) # 200
    BY ErrorFacts
  <2>2. causes[r] \subseteq ErrorKinds /\ "overflow" \in ErrorKinds
    BY ErrorFacts DEF TypeOK
  <2> QED BY <1>1, <2>1, <2>2, AnswerCases, AnswerFields, MergedFields
<1>2. ASSUME NEW r \in Requests, phase[r] = "answered", answer[r].err # "nil"
      PROVE  \/ answer[r].err \in causes[r]
             \/ answer[r].err = "overflow" /\ \A i \in Workers(r) : out[r][i].err = "nil"
  BY <1>2, AnswerCases, AnswerFields, MergedFields
<1>3. ASSUME NEW r \in Requests, phase[r] = "answered"
      PROVE  /\ \A i \in Slots : worker[r][i] \in {"off", "done"}
             /\ segs[r] # << >> => gctx[r] # "live"
  BY <1>3 DEF CallInv, PlanInv, AnswerInv
<1> QED BY <1>1, <1>2, <1>3 DEF AllOrNothing, ErrorsHaveCauses, NothingOutlivesTheAnswer

\* A failed segment makes its whole call fail, and a failed call shows no data.
THEOREM NoPartialData == Spec => []AllOrNothing
BY SafetyFacts, TypeCorrect, CallsConsistent, PTL

\* No answer is decided by a segment that only its sibling's failure stopped.
THEOREM RootCauseReported == Spec => []ErrorsHaveCauses
BY SafetyFacts, TypeCorrect, CallsConsistent, PTL

\* An answered call has left no goroutine and no live context behind.
THEOREM StructuredConcurrency == Spec => []NothingOutlivesTheAnswer
BY SafetyFacts, TypeCorrect, CallsConsistent, PTL

LEMMA MergeFacts ==
  ASSUME TypeOK, CallInv
  PROVE  MergeExact
<1> SUFFICES ASSUME NEW r \in Requests, phase[r] = "answered", gerr[r] = "nil", segs[r] # << >>
             PROVE  IF answer[r].err = "overflow"
                      THEN \E c \in Columns[query[r].metric] :
                             Subtotal(r, c, Len(segs[r])) \notin Int64
                      ELSE \A c \in Columns[query[r].metric] :
                             /\ Subtotal(r, c, Len(segs[r])) \in Int64
                             /\ answer[r].totals[c] = Subtotal(r, c, Len(segs[r]))
  BY DEF MergeExact
<1> DEFINE m == query[r].metric
<1>1. \A i \in Slots : \A c \in Columns[m] : out[r][i].totals[c] \in Int64
  BY DEF TypeOK, Results
<1>2. 1 \in Slots /\ 2 \in Slots /\ Int64 \subseteq Int /\ 0 \in Int64
  BY PlanningAssumption DEF Slots, Int64
<1>3. ASSUME NEW c \in Columns[m]
      PROVE  (\E i \in Workers(r) : AddOverflows(Subtotal(r, c, i - 1), out[r][i].totals[c]))
               <=> Subtotal(r, c, Len(segs[r])) \notin Int64
  <2>1. out[r][1].totals[c] \in Int64 /\ out[r][2].totals[c] \in Int64
    BY <1>1, <1>2, <1>3
  <2>2. /\ Subtotal(r, c, 0) = 0
        /\ Subtotal(r, c, 1) = out[r][1].totals[c]
        /\ Subtotal(r, c, 2) = out[r][1].totals[c] + out[r][2].totals[c]
    BY DEF Subtotal
  <2>3. ~ AddOverflows(Subtotal(r, c, 1 - 1), out[r][1].totals[c])
    <3>1. ASSUME NEW x \in Int64 PROVE ~ AddOverflows(0, x)
      BY PlanningAssumption DEF AddOverflows, Int64
    <3> QED BY <2>1, <2>2, <3>1
  <2>4. AddOverflows(Subtotal(r, c, 2 - 1), out[r][2].totals[c])
          <=> Subtotal(r, c, 2) \notin Int64
    BY <2>1, <2>2, SafeAddGuards
  <2>5. CASE Len(segs[r]) = 1
    <3>1. Workers(r) = {1}
      BY <2>5 DEF Workers
    <3> QED BY <2>1, <2>2, <2>3, <2>5, <3>1
  <2>6. CASE Len(segs[r]) = 2
    <3>1. Workers(r) = {1, 2}
      BY <2>6 DEF Workers
    <3> QED BY <2>3, <2>4, <2>6, <3>1
  <2> QED BY <2>5, <2>6, WorkerSlots
<1>4. MergeOverflows(r) <=>
        \E c \in Columns[m] : Subtotal(r, c, Len(segs[r])) \notin Int64
  BY <1>3 DEF MergeOverflows
<1> QED BY <1>4, AnswerCases, AnswerFields, MergedFields

\* Merged totals are the true ones, and fit int64; ErrOverflow is reported
\* exactly when they would not.
THEOREM MergeIsExact == Spec => []MergeExact
BY MergeFacts, TypeCorrect, CallsConsistent, PTL

\* What has been decided stays decided, in one step.
LEMMA FirstOutcomeStep ==
  ASSUME TypeOK, CallInv, [Next]_vars, NEW q \in Requests
  PROVE  /\ gerr[q] # "nil" => gerr'[q] = gerr[q]
         /\ rctx[q] # "live" => rctx'[q] = rctx[q]
         /\ phase[q] # "new" /\ gctx[q] # "live" => gctx'[q] = gctx[q]
         /\ phase[q] = "answered" => /\ answer'[q] = answer[q]
                                     /\ phase'[q] = "answered"
                                     /\ out'[q] = out[q]
<1> USE DEF TypeOK
<1>1. CASE UNCHANGED vars \/ Midnight \/ ExportDay
  BY <1>1 DEF vars, Midnight, ExportDay, OnlyTheCalendarMoves
<1>2. ASSUME NEW r \in Requests, q # r, Step(r) PROVE UNCHANGED CallState(q)
  BY <1>2, OtherCalls
<1>3. CASE PlanRejected(q)
  BY <1>3 DEF PlanRejected
<1>4. CASE Start(q)
  BY <1>4 DEF Start
<1>5. ASSUME NEW i \in Slots, NEW result, Returns(q, i, result), worker[q][i] = "started"
      PROVE  /\ UNCHANGED << gerr, rctx, gctx, phase, answer >>
             /\ phase[q] = "running"
  BY <1>5, StartedIsRunning DEF Returns, CallInv, OneCallInv
<1>6. CASE \E i \in Slots : \/ MissingRepository(q, i) \/ RepositoryAnswers(q, i)
                            \/ RepositoryFails(q, i) \/ RepositoryInterrupted(q, i)
  <2>1. PICK i \in Slots : worker[q][i] = "started" /\ \E result : Returns(q, i, result)
    BY <1>6 DEF MissingRepository, RepositoryAnswers, RepositoryFails, RepositoryInterrupted, RepoContext
  <2> QED BY <1>5, <2>1
<1>7. ASSUME NEW i \in Slots, Report(q, i)
      PROVE  /\ UNCHANGED << rctx, phase, answer, out >>
             /\ gerr[q] # "nil" => gerr'[q] = gerr[q]
             /\ gctx[q] # "live" => gctx'[q] = gctx[q]
  BY <1>7 DEF Report, FirstError, CancelOnError
<1>8. CASE AnswerError(q) \/ AnswerOverflow(q) \/ AnswerMerged(q)
  <2>1. PICK response : Writes(q, response)
    BY <1>8 DEF AnswerError, AnswerOverflow, AnswerMerged
  <2> QED BY <2>1 DEF Writes, WaitReturns
<1>9. CASE ClientCancels(q) \/ Deadline(q)
  <2>1. PICK e : ContextEnds(q, e)
    BY <1>9 DEF ClientCancels, Deadline
  <2> QED BY <2>1 DEF ContextEnds, Inherited
<1>10. ASSUME Step(q)
       PROVE  \/ PlanRejected(q) \/ Start(q)
              \/ \E i \in Slots : \/ MissingRepository(q, i) \/ RepositoryAnswers(q, i)
                                 \/ RepositoryFails(q, i) \/ RepositoryInterrupted(q, i)
              \/ \E i \in Slots : Report(q, i)
              \/ AnswerError(q) \/ AnswerOverflow(q) \/ AnswerMerged(q)
              \/ ClientCancels(q) \/ Deadline(q)
  BY <1>10 DEF Step
<1> QED BY <1>1, <1>2, <1>3, <1>4, <1>6, <1>7, <1>8, <1>9, <1>10 DEF Next, CallState

\* A late result, a second failure or a timer never changes an outcome.
THEOREM OutcomesAreFinal == Spec => FirstOutcomeWins
<1> DEFINE Decided == \A r \in Requests :
       /\ gerr[r] # "nil" => gerr'[r] = gerr[r]
       /\ rctx[r] # "live" => rctx'[r] = rctx[r]
       /\ phase[r] # "new" /\ gctx[r] # "live" => gctx'[r] = gctx[r]
       /\ phase[r] = "answered" => /\ answer'[r] = answer[r]
                                   /\ phase'[r] = "answered"
                                   /\ out'[r] = out[r]
<1>1. TypeOK /\ CallInv /\ [Next]_vars => [Decided]_vars
  BY FirstOutcomeStep
<1>2. (Spec => [][Decided]_vars) => (Spec => FirstOutcomeWins)
  BY DEF FirstOutcomeWins
<1> HIDE DEF Decided
<1> QED BY <1>1, <1>2, TypeCorrect, CallsConsistent, PTL DEF Spec

-----------------------------------------------------------------------------
(* The status of a timeout.                                                  *)

\* A driver that never returns a deadline error of its own.
DriversKeepNoTime == "deadline" \notin DriverErrors

\* Then a deadline among the causes of a call is that of its own context.
DeadlineInv == \A r \in Requests : "deadline" \in causes[r] => rctx[r] = "deadline"

LEMMA DeadlineStep == DriversKeepNoTime => (TypeOK /\ DeadlineInv /\ [Next]_vars => DeadlineInv')
<1> SUFFICES ASSUME DriversKeepNoTime, TypeOK, DeadlineInv, [Next]_vars, NEW q \in Requests
             PROVE  "deadline" \in causes'[q] => rctx'[q] = "deadline"
  BY DEF DeadlineInv
<1>0. "deadline" \in causes[q] => rctx[q] = "deadline"
  BY DEF DeadlineInv
<1>1. CASE UNCHANGED << causes, rctx >>
  BY <1>0, <1>1
<1>2. ASSUME NEW r \in Requests, NEW e, e # "deadline", UNCHANGED rctx,
             causes' = [causes EXCEPT ![r] = @ \cup {e}]
      PROVE  "deadline" \in causes'[q] => rctx'[q] = "deadline"
  BY <1>0, <1>2 DEF TypeOK
<1>3. ASSUME NEW r \in Requests, NEW e \in ContextErrors, ContextEnds(r, e)
      PROVE  "deadline" \in causes'[q] => rctx'[q] = "deadline"
  BY <1>0, <1>3 DEF ContextEnds, TypeOK
<1>4. ASSUME NEW r \in Requests, NEW i \in Slots, RepositoryFails(r, i)
      PROVE  "deadline" \in causes'[q] => rctx'[q] = "deadline"
  <2>1. PICK e \in DriverErrors : causes' = [causes EXCEPT ![r] = @ \cup {WrapErr(e)}]
    BY <1>4 DEF RepositoryFails
  <2>2. WrapErr(e) # "deadline"
    BY <2>1 DEF DriversKeepNoTime, WrapErr
  <2> QED BY <1>2, <1>4, <2>1, <2>2 DEF RepositoryFails, Returns
<1>5. ASSUME NEW r \in Requests, Step(r)
      PROVE  "deadline" \in causes'[q] => rctx'[q] = "deadline"
  <2>1. CASE PlanRejected(r)
    BY <1>2, <2>1 DEF PlanRejected
  <2>2. CASE \E i \in Slots : MissingRepository(r, i)
    BY <1>2, <2>2 DEF MissingRepository, Returns
  <2>3. CASE ClientCancels(r) \/ Deadline(r)
    BY <1>3, <2>3 DEF ClientCancels, Deadline, ContextErrors
  <2>4. CASE Start(r) \/ AnswerError(r) \/ AnswerOverflow(r) \/ AnswerMerged(r)
    BY <1>1, <2>4 DEF Start, AnswerError, AnswerOverflow, AnswerMerged, Writes
  <2>5. CASE \E i \in Slots : RepositoryAnswers(r, i) \/ RepositoryInterrupted(r, i) \/ Report(r, i)
    BY <1>1, <2>5 DEF RepositoryAnswers, RepositoryInterrupted, Returns, Report
  <2> QED BY <1>4, <1>5, <2>1, <2>2, <2>3, <2>4, <2>5 DEF Step
<1>6. CASE Midnight \/ ExportDay \/ UNCHANGED vars
  BY <1>1, <1>6 DEF Midnight, ExportDay, OnlyTheCalendarMoves, vars
<1> QED BY <1>5, <1>6 DEF Next

LEMMA TimeoutFacts ==
  ASSUME TypeOK, CallInv, ErrorsHaveCauses, DeadlineInv
  PROVE  TimeoutStatusMeansRequestTimeout
<1> SUFFICES ASSUME NEW r \in Requests, Answered(r, 504) PROVE rctx[r] = "deadline"
  BY DEF TimeoutStatusMeansRequestTimeout
<1>1. answer[r].err = "deadline"
  <2>1. phase[r] = "answered" /\ answer[r].status = 504
    BY DEF Answered
  <2>2. PICK e : HttpStatus(e) = 504 /\ answer[r].err = e
    <3>1. CASE \E e : answer[r] = ErrorAnswer(query[r].metric, e)
      BY <2>1, <3>1, AnswerFields
    <3>2. answer[r] # MergedAnswer(r)
      BY <2>1, MergedFields
    <3> QED BY <2>1, <3>1, <3>2, AnswerCases
  <2>3. e = "deadline"
    BY <2>2 DEF HttpStatus
  <2> QED BY <2>2, <2>3
<1>2. "deadline" \in causes[r]
  BY <1>1 DEF Answered, ErrorsHaveCauses
<1> QED BY <1>2 DEF DeadlineInv

\* The design's table is right up to the drivers: as long as none of them returns a
\* deadline error of its own, 504 is only ever written when the request's context
\* timed out, whatever its siblings and its client did.
THEOREM TimeoutStatusUpToDrivers ==
  DriversKeepNoTime => (Spec => []TimeoutStatusMeansRequestTimeout)
<1> SUFFICES ASSUME DriversKeepNoTime PROVE Spec => []TimeoutStatusMeansRequestTimeout
  OBVIOUS
<1>1. Init => DeadlineInv
  BY DEF Init, DeadlineInv
<1>2. TypeOK /\ DeadlineInv /\ [Next]_vars => DeadlineInv'
  BY DeadlineStep
<1>3. TypeOK /\ CallInv /\ ErrorsHaveCauses /\ DeadlineInv => TimeoutStatusMeansRequestTimeout
  BY TimeoutFacts
<1> QED BY <1>1, <1>2, <1>3, TypeCorrect, CallsConsistent, RootCauseReported, PTL DEF Spec

-----------------------------------------------------------------------------
(* The metrics.                                                              *)

\* The goroutines that a cell of data_query_total has to count.
Counted(s, m, st) ==
  {w \in Requests \X Slots :
     /\ worker[w[1]][w[2]] = "done"
     /\ Source(w[1], w[2]) = s /\ query[w[1]].metric = m
     /\ QueryStatus(out[w[1]][w[2]].err) = st}

\* The cells are exact, and however many calls there are, only finitely many of
\* their goroutines have finished.
MetricsInv ==
  \A s \in Sources, m \in Metrics, st \in Statuses :
    /\ IsFiniteSet(Counted(s, m, st))
    /\ queryTotal[s][m][st] = Cardinality(Counted(s, m, st))

LEMMA MetricsInit == Init => MetricsInv
<1> SUFFICES ASSUME Init, NEW s \in Sources, NEW m \in Metrics, NEW st \in Statuses
             PROVE  /\ IsFiniteSet(Counted(s, m, st))
                    /\ queryTotal[s][m][st] = Cardinality(Counted(s, m, st))
  BY DEF MetricsInv
<1>1. \A r \in Requests, i \in Slots : worker[r][i] # "done"
  BY DEF Init
<1>2. Counted(s, m, st) = {}
  BY <1>1 DEF Counted
<1>3. queryTotal[s][m][st] = 0
  BY DEF Init
<1> QED BY <1>2, <1>3, FS_EmptySet

\* A step in which no goroutine reports, and none that has reported changes what it
\* was counted under.
LEMMA NothingCounted ==
  ASSUME MetricsInv, query' = query, queryTotal' = queryTotal,
         \A r \in Requests, i \in Slots :
           /\ worker'[r][i] = "done" <=> worker[r][i] = "done"
           /\ worker[r][i] = "done" => segs'[r] = segs[r] /\ out'[r][i] = out[r][i]
  PROVE  MetricsInv'
<1>1. ASSUME NEW s \in Sources, NEW m \in Metrics, NEW st \in Statuses
      PROVE  Counted(s, m, st)' = Counted(s, m, st)
  <2>1. ASSUME NEW r \in Requests, NEW i \in Slots
        PROVE  << r, i >> \in Counted(s, m, st)' <=> << r, i >> \in Counted(s, m, st)
    BY DEF Counted, Source
  <2>2. Counted(s, m, st) \subseteq Requests \X Slots
    BY DEF Counted
  <2>3. Counted(s, m, st)' \subseteq Requests \X Slots
    BY DEF Counted
  <2>4. ASSUME NEW w \in Requests \X Slots
        PROVE  w \in Counted(s, m, st)' <=> w \in Counted(s, m, st)
    <3>1. PICK r \in Requests, i \in Slots : w = << r, i >>
      OBVIOUS
    <3> QED BY <2>1, <3>1
  <2> QED BY <2>2, <2>3, <2>4
<1> QED BY <1>1 DEF MetricsInv

\* A report moves exactly one cell, by one, and adds one goroutine to it.
LEMMA ReportIsCounted ==
  ASSUME TypeOK, CallInv, MetricsInv, NEW r \in Requests, NEW i \in Slots, Report(r, i)
  PROVE  MetricsInv'
<1> DEFINE s0 == Source(r, i)
           m0 == query[r].metric
           st0 == QueryStatus(out[r][i].err)
<1>1. s0 \in Sources /\ m0 \in Metrics /\ st0 \in Statuses
  <2>1. i \in Workers(r)
    BY DEF Report
  <2>2. out[r][i].err \in {"nil"} \cup ErrorKinds
    BY DEF TypeOK, Results
  <2> QED BY <2>1, <2>2, WorkerSlots, QueryFields, ErrorFacts
<1>2. /\ worker[r][i] = "returned" /\ worker'[r][i] = "done"
      /\ query' = query /\ segs' = segs /\ out' = out
      /\ \A q \in Requests, j \in Slots : << q, j >> # << r, i >> => worker'[q][j] = worker[q][j]
  BY DEF Report, TypeOK
<1>3. ASSUME NEW s \in Sources, NEW m \in Metrics, NEW st \in Statuses
      PROVE  Counted(s, m, st)' = IF s = s0 /\ m = m0 /\ st = st0
                                    THEN Counted(s, m, st) \cup {<< r, i >>}
                                    ELSE Counted(s, m, st)
  <2> DEFINE now == Counted(s, m, st)
             here == s = s0 /\ m = m0 /\ st = st0
  <2>1. ASSUME NEW q \in Requests, NEW j \in Slots, << q, j >> # << r, i >>
        PROVE  << q, j >> \in Counted(s, m, st)' <=> << q, j >> \in Counted(s, m, st)
    <3>1. worker'[q][j] = worker[q][j]
      BY <1>2, <2>1
    <3> QED BY <1>2, <3>1 DEF Counted, Source
  <2>2. << r, i >> \in Counted(s, m, st)' <=> here
    BY <1>2 DEF Counted, Source
  <2>3. Counted(s, m, st) \subseteq Requests \X Slots
    BY DEF Counted
  <2>4. Counted(s, m, st)' \subseteq Requests \X Slots
    BY DEF Counted
  <2>5. << r, i >> \notin Counted(s, m, st)
    BY <1>2 DEF Counted
  <2> HIDE DEF here
  <2>6. CASE here
    <3>1. Counted(s, m, st)' = Counted(s, m, st) \cup {<< r, i >>}
      BY <2>1, <2>2, <2>3, <2>4, <2>6
    <3> QED BY <2>6, <3>1 DEF here
  <2>7. CASE ~ here
    <3>1. Counted(s, m, st)' = Counted(s, m, st)
      BY <2>1, <2>2, <2>3, <2>4, <2>5, <2>7
    <3> QED BY <2>7, <3>1 DEF here
  <2> QED BY <2>6, <2>7
<1>4. ASSUME NEW s \in Sources, NEW m \in Metrics, NEW st \in Statuses
      PROVE  queryTotal'[s][m][st] = IF s = s0 /\ m = m0 /\ st = st0
                                       THEN queryTotal[s][m][st] + 1
                                       ELSE queryTotal[s][m][st]
  <2>1. queryTotal' = [queryTotal EXCEPT ![s0][m0][st0] = @ + 1]
    BY DEF Report, Observe
  <2>2. queryTotal \in [Sources -> [Metrics -> [Statuses -> Nat]]]
    BY DEF TypeOK
  <2> HIDE DEF s0, m0, st0
  <2> QED BY <1>1, <2>1, <2>2
<1>5. ASSUME NEW s \in Sources, NEW m \in Metrics, NEW st \in Statuses
      PROVE  /\ IsFiniteSet(Counted(s, m, st)')
             /\ queryTotal'[s][m][st] = Cardinality(Counted(s, m, st)')
  <2>1. /\ IsFiniteSet(Counted(s, m, st))
        /\ queryTotal[s][m][st] = Cardinality(Counted(s, m, st))
    BY DEF MetricsInv
  <2>2. << r, i >> \notin Counted(s, m, st)
    BY <1>2 DEF Counted
  <2>3. /\ IsFiniteSet(Counted(s, m, st) \cup {<< r, i >>})
        /\ Cardinality(Counted(s, m, st) \cup {<< r, i >>}) = Cardinality(Counted(s, m, st)) + 1
    BY <2>1, <2>2, FS_AddElement
  <2> DEFINE here == s = s0 /\ m = m0 /\ st = st0
  <2>4. Counted(s, m, st)' = IF here THEN Counted(s, m, st) \cup {<< r, i >>} ELSE Counted(s, m, st)
    BY <1>3
  <2>5. queryTotal'[s][m][st] = IF here THEN queryTotal[s][m][st] + 1 ELSE queryTotal[s][m][st]
    BY <1>4
  <2> HIDE DEF here
  <2>6. CASE here
    <3>1. Counted(s, m, st)' = Counted(s, m, st) \cup {<< r, i >>}
      BY <2>4, <2>6
    <3>2. queryTotal'[s][m][st] = queryTotal[s][m][st] + 1
      BY <2>5, <2>6
    <3> QED BY <2>1, <2>3, <3>1, <3>2
  <2>7. CASE ~ here
    <3>1. Counted(s, m, st)' = Counted(s, m, st) /\ queryTotal'[s][m][st] = queryTotal[s][m][st]
      BY <2>4, <2>5, <2>7
    <3> QED BY <2>1, <3>1
  <2> QED BY <2>6, <2>7
<1> QED BY <1>5 DEF MetricsInv

LEMMA MetricsStep == TypeOK /\ CallInv /\ MetricsInv /\ [Next]_vars => MetricsInv'
<1> SUFFICES ASSUME TypeOK, CallInv, MetricsInv, [Next]_vars PROVE MetricsInv'
  OBVIOUS
<1>1. CASE UNCHANGED vars \/ Midnight \/ ExportDay
  BY <1>1, NothingCounted DEF vars, Midnight, ExportDay, OnlyTheCalendarMoves
<1>2. ASSUME NEW r \in Requests, Start(r) PROVE MetricsInv'
  <2>1. \A i \in Slots : worker[r][i] = "off"
    <3>1. PlanInv(r) /\ segs[r] = << >>
      BY <1>2 DEF CallInv, Start, PlanInv
    <3>2. Workers(r) = {}
      BY <3>1 DEF Workers
    <3> QED BY <3>1, <3>2 DEF PlanInv
  <2>2. /\ query' = query /\ queryTotal' = queryTotal /\ out' = out
        /\ \A q \in Requests : q # r => worker'[q] = worker[q] /\ segs'[q] = segs[q]
        /\ \A i \in Slots : worker'[r][i] \in {"started", "off"}
    BY <1>2 DEF Start, TypeOK
  <2> QED BY <2>1, <2>2, NothingCounted
<1>3. ASSUME NEW r \in Requests, NEW i \in Slots, NEW result,
             worker[r][i] = "started", Returns(r, i, result)
      PROVE  MetricsInv'
  <2>1. /\ query' = query /\ queryTotal' = queryTotal /\ segs' = segs
        /\ worker'[r][i] = "returned"
        /\ \A q \in Requests, j \in Slots :
             << q, j >> # << r, i >> => worker'[q][j] = worker[q][j] /\ out'[q][j] = out[q][j]
    BY <1>3 DEF Returns, TypeOK
  <2> QED BY <1>3, <2>1, NothingCounted
<1>4. ASSUME NEW r \in Requests, NEW i \in Slots,
             \/ MissingRepository(r, i) \/ RepositoryAnswers(r, i)
             \/ RepositoryFails(r, i) \/ RepositoryInterrupted(r, i)
      PROVE  MetricsInv'
  BY <1>3, <1>4 DEF MissingRepository, RepositoryAnswers, RepositoryFails, RepositoryInterrupted
<1>5. ASSUME NEW r \in Requests,
             \/ PlanRejected(r) \/ AnswerError(r) \/ AnswerOverflow(r) \/ AnswerMerged(r)
             \/ ClientCancels(r) \/ Deadline(r)
      PROVE  MetricsInv'
  BY <1>5, NothingCounted DEF PlanRejected, AnswerError, AnswerOverflow, AnswerMerged, Writes,
                              ClientCancels, Deadline, ContextEnds
<1> QED BY <1>1, <1>2, <1>4, <1>5, ReportIsCounted DEF Next, Step

\* data_query_total counts every finished segment of every call once, under its own
\* source, metric and outcome, the segments that a sibling's failure interrupted
\* included, however the goroutines of the calls interleave.
THEOREM SegmentsAreCounted == Spec => []MetricsMatchSegments
<1>1. TypeOK /\ CallInv /\ MetricsInv /\ [Next]_vars => MetricsInv'
  BY MetricsStep
<1>2. MetricsInv => MetricsMatchSegments
  BY DEF MetricsInv, MetricsMatchSegments, Counted
<1> QED BY <1>1, <1>2, MetricsInit, TypeCorrect, CallsConsistent, PTL DEF Spec

-----------------------------------------------------------------------------
(* Exactly once, when the stores keep their days long enough.                *)

\* The clock part of ReadInv for one call, and its data part.
OneReadInv(r) ==
  /\ phase[r] = "running" => /\ plannedOn[r] <= today
                             /\ today - plannedOn[r] <= MaxMidnights
  /\ query[r].source = "auto" =>
       \A i \in Workers(r) :
         worker[r][i] \in {"returned", "done"} /\ out[r][i].err = "nil" =>
           out[r][i].days = DaysOf(segs[r][i].range)

\* A running call of source=auto reads every day of a segment, however far the
\* clock and the export job have moved since the plan.
LEMMA SegmentIsHeld ==
  ASSUME Retention, TypeOK, CallInv, ReadInv, NEW r \in Requests, NEW i \in Workers(r),
         phase[r] = "running", query[r].source = "auto"
  PROVE  DaysRead(r, i) = DaysOf(segs[r][i].range)
<1>1. CoversOnce(segs[r], query[r].range, plannedOn[r])
  <2>1. segs[r] = Plan("auto", query[r].range, plannedOn[r])
    BY DEF CallInv, PlanInv
  <2>2. plannedOn[r] \in Int
    BY DEF TypeOK
  <2> QED BY <2>1, <2>2, QueryFields, PlanCoversOnce
<1>2. ASSUME NEW d \in DaysOf(segs[r][i].range)
      PROVE  Holds(Source(r, i), d)
  <2>1. segs[r] \in Seq(Segments) /\ i \in DOMAIN segs[r]
    BY DEF TypeOK, Plans, Workers
  <2>2. Source(r, i) = SourceOfDay(d, plannedOn[r])
    BY <1>1, <2>1 DEF CoversOnce, Source
  <2>3. d \in Int
    BY WorkerSlots
  <2>4. /\ plannedOn[r] \in Int /\ today \in Int /\ etlDay \in Int
        /\ plannedOn[r] <= today /\ today - plannedOn[r] <= MaxMidnights
        /\ etlDay <= today /\ today - etlDay <= MaxEtlLag
    BY DEF TypeOK, ReadInv
  <2>5. /\ MaxEtlLag \in Nat /\ MaxMidnights \in Nat /\ HistoryLead \in Nat
        /\ RealtimeKeep \in Nat /\ RealtimeDays \in Nat
        /\ MaxEtlLag <= HistoryLead /\ MaxMidnights <= RealtimeKeep
    BY ServiceAssumption, PlanningAssumption DEF Retention, ValidService
  <2>6. CASE d < Cutoff(plannedOn[r])
    <3>1. Source(r, i) # "starrocks"
      BY <2>2, <2>6, PlanningAssumption DEF SourceOfDay, ValidService
    <3>2. d < Cutoff(etlDay) + HistoryLead
      BY <2>3, <2>4, <2>5, <2>6 DEF Cutoff
    <3> QED BY <3>1, <3>2 DEF Holds
  <2>7. CASE ~ (d < Cutoff(plannedOn[r]))
    <3>1. Source(r, i) = "starrocks"
      BY <2>2, <2>7 DEF SourceOfDay
    <3>2. d >= Cutoff(etlDay) - RealtimeKeep
      BY <2>3, <2>4, <2>5, <2>7 DEF Cutoff
    <3> QED BY <3>1, <3>2 DEF Holds
  <2> QED BY <2>6, <2>7
<1> QED BY <1>2 DEF DaysRead

LEMMA ReadInit == Init => ReadInv
<1> SUFFICES ASSUME Init PROVE ReadInv
  OBVIOUS
<1>1. etlDay <= today /\ today - etlDay <= MaxEtlLag
  BY ServiceAssumption DEF Init
<1>2. \A r \in Requests : phase[r] = "new" /\ Workers(r) = {}
  BY DEF Init, Workers
<1> QED BY <1>1, <1>2 DEF ReadInv

LEMMA ReadStep == Retention /\ TypeOK /\ CallInv /\ ReadInv /\ [Next]_vars => ReadInv'
<1> SUFFICES ASSUME Retention, TypeOK, CallInv, ReadInv, [Next]_vars PROVE ReadInv'
  OBVIOUS
<1>1. /\ today \in Int /\ etlDay \in Int /\ MaxEtlLag \in Nat /\ MaxMidnights \in Nat
      /\ etlDay <= today /\ today - etlDay <= MaxEtlLag
  BY ServiceAssumption DEF TypeOK, ReadInv
<1>2. \A q \in Requests : OneReadInv(q)
  BY DEF ReadInv, OneReadInv
<1>3. CASE Midnight
  <2>1. /\ today' = today + 1 /\ etlDay' = etlDay /\ today - etlDay < MaxEtlLag
        /\ \A q \in Requests : phase[q] = "running" => today - plannedOn[q] < MaxMidnights
        /\ \A q \in Requests : plannedOn[q] \in Int
        /\ UNCHANGED << phase, plannedOn, query, segs, worker, out >>
    BY <1>3 DEF Midnight, OnlyTheCalendarMoves, TypeOK
  <2>2. etlDay' <= today' /\ today' - etlDay' <= MaxEtlLag
    BY <1>1, <2>1
  <2>3. \A q \in Requests : phase[q] = "running" => /\ plannedOn[q] <= today + 1
                                                    /\ today + 1 - plannedOn[q] <= MaxMidnights
    BY <1>1, <1>2, <2>1 DEF OneReadInv
  <2>4. ASSUME NEW q \in Requests PROVE OneReadInv(q)'
    <3>1. (phase[q] = "running" => /\ plannedOn[q] <= today
                                   /\ today - plannedOn[q] <= MaxMidnights)'
      <4>1. phase' = phase /\ plannedOn' = plannedOn /\ today' = today + 1
        BY <2>1
      <4>2. phase'[q] = "running" => /\ plannedOn'[q] <= today'
                                     /\ today' - plannedOn'[q] <= MaxMidnights
        <5>1. CASE phase[q] = "running"
          <6>1. /\ plannedOn[q] \in Int /\ today \in Int
                /\ plannedOn'[q] = plannedOn[q] /\ today' = today + 1
            BY <1>1, <2>1, <4>1
          <6>2. plannedOn[q] <= today + 1 /\ today + 1 - plannedOn[q] <= MaxMidnights
            BY <2>3, <5>1
          <6> QED BY <6>1, <6>2
        <5>2. CASE phase[q] # "running"
          BY <4>1, <5>2
        <5> QED BY <5>1, <5>2
      <4> QED BY <4>2
    <3>2. (query[q].source = "auto" =>
             \A i \in Workers(q) :
               worker[q][i] \in {"returned", "done"} /\ out[q][i].err = "nil" =>
                 out[q][i].days = DaysOf(segs[q][i].range))'
      BY <1>2, <2>1 DEF OneReadInv, Workers
    <3> QED BY <3>1, <3>2 DEF OneReadInv
  <2> QED BY <2>2, <2>4 DEF ReadInv, OneReadInv
<1>4. CASE ExportDay
  <2>1. /\ today' = today /\ etlDay' = etlDay + 1 /\ etlDay < today
        /\ UNCHANGED << phase, plannedOn, query, segs, worker, out >>
    BY <1>4 DEF ExportDay, OnlyTheCalendarMoves
  <2>2. etlDay' <= today' /\ today' - etlDay' <= MaxEtlLag
    BY <1>1, <2>1
  <2>3. \A q \in Requests : OneReadInv(q)'
    BY <1>2, <2>1 DEF OneReadInv, Workers
  <2> QED BY <2>2, <2>3 DEF ReadInv, OneReadInv
<1>5. CASE UNCHANGED vars
  BY <1>5 DEF vars, ReadInv, Workers
<1>6. ASSUME NEW r \in Requests, Step(r) PROVE ReadInv'
  <2>1. UNCHANGED << today, etlDay, query >>
    BY <1>6 DEF Step, PlanRejected, Start, AnswerError, AnswerOverflow, AnswerMerged, Writes,
                ClientCancels, Deadline, ContextEnds, MissingRepository, RepositoryAnswers,
                RepositoryFails, RepositoryInterrupted, RepoContext, Returns, Report
  <2>2. ASSUME NEW q \in Requests, q # r PROVE OneReadInv(q)'
    BY <1>2, <1>6, <2>1, <2>2, OtherCalls DEF OneReadInv, CallState, Workers
  <2>3. OneReadInv(r)'
    <3>1. CASE PlanRejected(r)
      BY <1>2, <2>1, <3>1 DEF OneReadInv, PlanRejected, Workers, TypeOK
    <3>2. CASE Start(r)
      <4>1. /\ plannedOn'[r] = today /\ today' = today
            /\ \A i \in Slots : worker'[r][i] \in {"started", "off"}
        BY <3>2 DEF TypeOK, Start
      <4>2. today - today <= MaxMidnights /\ today <= today
        BY <1>1
      <4>3. Workers(r)' \subseteq Slots
        <5> DEFINE plan == Plan(query[r].source, query[r].range, today)
        <5>1. segs'[r] = plan
          BY <3>2 DEF TypeOK, Start
        <5>2. plan \in Plans
          BY QueryFields, PlanType DEF TypeOK
        <5>3. Len(segs'[r]) \in {0, 1, 2}
          BY <5>1, <5>2 DEF Plans, Slots
        <5>4. \A n \in {0, 1, 2} : 1 .. n \subseteq 1 .. 2
          OBVIOUS
        <5> QED BY <5>3, <5>4 DEF Workers, Slots
      <4> QED BY <4>1, <4>2, <4>3 DEF OneReadInv
    <3>3. ASSUME NEW i \in Slots, NEW result, Returns(r, i, result), i \in Workers(r),
                 query[r].source = "auto" /\ result.err = "nil" =>
                   result.days = DaysOf(segs[r][i].range)
          PROVE  OneReadInv(r)'
      <4>1. /\ \A j \in Slots : j # i => out'[r][j] = out[r][j] /\ worker'[r][j] = worker[r][j]
            /\ out'[r][i] = result /\ Workers(r)' = Workers(r)
            /\ UNCHANGED << phase, plannedOn, segs >>
        BY <3>3 DEF TypeOK, Returns, Workers
      <4> QED BY <1>2, <2>1, <3>3, <4>1, WorkerSlots DEF OneReadInv
    <3>4. CASE \E i \in Slots : MissingRepository(r, i)
      <4>1. Failure(query[r].metric, "invalid").err # "nil"
        BY QueryFields, ValueTypes, ErrorFacts
      <4> QED BY <3>3, <3>4, <4>1 DEF MissingRepository
    <3>5. CASE \E i \in Slots : RepositoryAnswers(r, i)
      <4>1. PICK i \in Slots : RepositoryAnswers(r, i)
        BY <3>5
      <4>2. PICK result : Returns(r, i, result) /\ result.days = DaysRead(r, i)
        BY <4>1 DEF RepositoryAnswers
      <4>3. i \in Workers(r) /\ phase[r] = "running"
        BY <4>1, StartedIsRunning DEF RepositoryAnswers, CallInv, OneCallInv
      <4>4. query[r].source = "auto" => result.days = DaysOf(segs[r][i].range)
        BY <4>2, <4>3, SegmentIsHeld
      <4> QED BY <3>3, <4>2, <4>3, <4>4
    <3>6. CASE \E i \in Slots : RepositoryFails(r, i)
      <4>1. PICK i \in Slots, e \in DriverErrors :
              i \in Workers(r) /\ Returns(r, i, Failure(query[r].metric, WrapErr(e)))
        BY <3>6 DEF RepositoryFails
      <4>2. Failure(query[r].metric, WrapErr(e)).err # "nil"
        BY QueryFields, ValueTypes, ErrorFacts
      <4> QED BY <3>3, <4>1, <4>2
    <3>7. CASE \E i \in Slots : RepositoryInterrupted(r, i)
      <4>1. PICK i \in Slots : RepositoryInterrupted(r, i)
        BY <3>7
      <4>2. gctx[r] \in ContextErrors
        BY <4>1 DEF TypeOK, RepositoryInterrupted, RepoContext, Contexts
      <4>3. Failure(query[r].metric, WrapErr(gctx[r])).err # "nil"
        BY <4>2, QueryFields, ValueTypes, ErrorFacts DEF ErrorKinds
      <4> QED BY <3>3, <4>1, <4>3 DEF RepositoryInterrupted, RepoContext
    <3>8. CASE \E i \in Slots : Report(r, i)
      <4>1. PICK i \in Slots : Report(r, i)
        BY <3>8
      <4>2. /\ worker[r][i] = "returned"
            /\ \A j \in Slots : j # i => worker'[r][j] = worker[r][j]
            /\ UNCHANGED << phase, plannedOn, segs, out >>
        BY <4>1 DEF TypeOK, Report
      <4> QED BY <1>2, <2>1, <4>2, WorkerSlots DEF OneReadInv, Workers
    <3>9. CASE AnswerError(r) \/ AnswerOverflow(r) \/ AnswerMerged(r)
      <4>1. /\ phase'[r] = "answered"
            /\ UNCHANGED << plannedOn, segs, worker, out >>
        BY <3>9 DEF TypeOK, AnswerError, AnswerOverflow, AnswerMerged, Writes
      <4> QED BY <1>2, <2>1, <4>1 DEF OneReadInv, Workers
    <3>10. CASE ClientCancels(r) \/ Deadline(r)
      <4>1. UNCHANGED << phase, plannedOn, segs, worker, out >>
        BY <3>10 DEF ClientCancels, Deadline, ContextEnds
      <4> QED BY <1>2, <2>1, <4>1 DEF OneReadInv, Workers
    <3> QED BY <1>6, <3>1, <3>2, <3>4, <3>5, <3>6, <3>7, <3>8, <3>9, <3>10 DEF Step
  <2>4. \A q \in Requests : OneReadInv(q)'
    BY <2>2, <2>3
  <2> QED BY <1>1, <2>1, <2>4 DEF ReadInv, OneReadInv
<1> QED BY <1>3, <1>4, <1>5, <1>6 DEF Next

\* A merged answer's rows, spelled out.
LEMMA EveryDayFacts ==
  ASSUME TypeOK, CallInv, ReadInv
  PROVE  EveryDayOnce
<1> SUFFICES ASSUME NEW r \in Requests, phase[r] = "answered", answer[r].status = 200,
                    query[r].source = "auto", NEW d \in DaysOf(query[r].range)
             PROVE  \E i \in Workers(r) :
                      /\ <<i, d>> \in answer[r].rows
                      /\ Source(r, i) = SourceOfDay(d, plannedOn[r])
                      /\ \A j \in Slots : <<j, d>> \in answer[r].rows => j = i
  BY DEF EveryDayOnce, Answered
<1>1. /\ segs[r] # << >> /\ answer[r] = MergedAnswer(r)
      /\ \A i \in Workers(r) : worker[r][i] = "done" /\ out[r][i].err = "nil"
  <2>1. \A e \in ErrorKinds : HttpStatus(e) # 200
    BY ErrorFacts
  <2>2. causes[r] \subseteq ErrorKinds /\ "overflow" \in ErrorKinds
    BY ErrorFacts DEF TypeOK
  <2> QED BY <2>1, <2>2, AnswerCases, AnswerFields
<1>2. \A i \in Workers(r) : out[r][i].days = DaysOf(segs[r][i].range)
  BY <1>1 DEF ReadInv
<1>3. \A j : <<j, d>> \in answer[r].rows <=> j \in Workers(r) /\ d \in out[r][j].days
  BY <1>1, MergedFields
<1>4. CoversOnce(segs[r], query[r].range, plannedOn[r])
  <2>1. segs[r] = Plan("auto", query[r].range, plannedOn[r])
    BY <1>1 DEF CallInv, PlanInv
  <2>2. plannedOn[r] \in Int
    BY DEF TypeOK
  <2> QED BY <2>1, <2>2, QueryFields, PlanCoversOnce
<1>5. DOMAIN segs[r] = Workers(r)
  BY DEF TypeOK, Plans, Workers
<1> QED BY <1>2, <1>3, <1>4, <1>5 DEF CoversOnce, Source

\* With stores that keep their days long enough, an answer to source=auto
\* counts every day exactly once, whatever the clock and the export job do.
THEOREM EveryDayCountedOnce == Retention => (Spec => []EveryDayOnce)
<1> SUFFICES ASSUME Retention PROVE Spec => []EveryDayOnce
  OBVIOUS
<1>1. TypeOK /\ CallInv /\ ReadInv /\ [Next]_vars => ReadInv'
  BY ReadStep
<1>2. TypeOK /\ CallInv /\ ReadInv => EveryDayOnce
  BY EveryDayFacts
<1> QED BY <1>1, <1>2, ReadInit, TypeCorrect, CallsConsistent, PTL DEF Spec

-----------------------------------------------------------------------------
(* The service keeps the promise of QueryPromise.                            *)

pstate == [r \in Requests |-> IF phase[r] = "answered" THEN "answered" ELSE "pending"]
preply == [r \in Requests |-> [err |-> answer[r].err, days |-> DaysOnce(r)]]

\* A step that changes neither the phase nor the answer of a call and adds at
\* most one cause to it is a step of the promise, or invisible to the caller.
LEMMA SufferOrStutter ==
  ASSUME TypeOK, NEW r \in Requests, phase[r] # "answered", phase'[r] # "answered",
         UNCHANGED << query, answer >>,
         \A q \in Requests : q # r => phase'[q] = phase[q],
         \/ causes' = causes
         \/ \E c \in Promise!Causes : causes' = [causes EXCEPT ![r] = @ \cup {c}]
  PROVE  [Promise!Next]_<<query, pstate, causes, preply>>
<1>1. pstate' = pstate
  BY DEF pstate
<1>2. preply' = preply
  BY DEF preply, DaysOnce
<1>3. pstate[r] = "pending"
  BY DEF pstate
<1>4. CASE causes' = causes
  BY <1>1, <1>2, <1>4
<1>5. CASE \E c \in Promise!Causes : causes' = [causes EXCEPT ![r] = @ \cup {c}]
  BY <1>1, <1>2, <1>3, <1>5 DEF Promise!Next, Promise!Suffer, pstate, preply
<1> QED BY <1>4, <1>5

\* A step that answers one call and leaves the other answers alone.
LEMMA AnswersOne ==
  ASSUME TypeOK, NEW r \in Requests, phase[r] # "answered", phase'[r] = "answered",
         query' = query,
         \A q \in Requests : q # r => phase'[q] = phase[q] /\ answer'[q] = answer[q]
  PROVE  /\ pstate[r] = "pending"
         /\ pstate' = [pstate EXCEPT ![r] = "answered"]
         /\ preply' = [preply EXCEPT ![r] = [err |-> answer'[r].err, days |-> DaysOnce(r)']]
<1>1. pstate[r] = "pending" /\ pstate' = [pstate EXCEPT ![r] = "answered"]
  BY DEF pstate
<1>2. \A q \in Requests : q # r => DaysOnce(q)' = DaysOnce(q)
  BY DEF DaysOnce
<1>3. preply' = [preply EXCEPT ![r] = [err |-> answer'[r].err, days |-> DaysOnce(r)']]
  BY <1>2 DEF preply
<1> QED BY <1>1, <1>3

\* An error answer counts no day.
LEMMA ErrorCountsNothing ==
  ASSUME NEW r \in Requests, NEW m, NEW e, answer'[r] = ErrorAnswer(m, e)
  PROVE  answer'[r].err = e /\ DaysOnce(r)' = {}
<1>1. answer'[r].err = e /\ answer'[r].rows = {}
  BY AnswerFields
<1> QED BY <1>1 DEF DaysOnce

LEMMA RefinementInit == Init => Promise!Init
<1> SUFFICES ASSUME Init PROVE Promise!Init
  OBVIOUS
<1>1. \A r \in Requests : answer[r].err = "nil" /\ answer[r].rows = {}
  BY DEF Init, NoAnswer
<1>2. \A r \in Requests : DaysOnce(r) = {}
  BY <1>1 DEF DaysOnce
<1> QED BY <1>1, <1>2 DEF Init, Promise!Init, Promise!Reply

LEMMA RefinementStep ==
  ASSUME TypeOK, CallInv, EveryDayOnce', [Next]_vars
  PROVE  [Promise!Next]_<<query, pstate, causes, preply>>
<1> DEFINE Promised == [Promise!Next]_<<query, pstate, causes, preply>>
<1>1. CASE UNCHANGED vars \/ Midnight \/ ExportDay
  <2>1. UNCHANGED << query, phase, answer, causes >>
    BY <1>1 DEF vars, Midnight, ExportDay, OnlyTheCalendarMoves
  <2> QED BY <2>1 DEF pstate, preply, DaysOnce
<1>2. ASSUME NEW r \in Requests, PlanRejected(r) PROVE Promised
  <2>1. /\ phase[r] # "answered" /\ phase'[r] = "answered" /\ query' = query
        /\ answer'[r] = ErrorAnswer(query[r].metric, "invalid")
        /\ causes' = [causes EXCEPT ![r] = @ \cup {"invalid"}]
        /\ \A q \in Requests : q # r => phase'[q] = phase[q] /\ answer'[q] = answer[q]
    BY <1>2 DEF TypeOK, PlanRejected
  <2>2. query[r].source \notin Sources \cup {"auto"}
    BY <1>2, QueryFields, PlanType DEF TypeOK, PlanRejected
  <2>3. /\ pstate[r] = "pending" /\ pstate' = [pstate EXCEPT ![r] = "answered"]
        /\ preply' = [preply EXCEPT ![r] = [err |-> "invalid", days |-> {}]]
    BY <2>1, AnswersOne, ErrorCountsNothing
  <2>4. Promise!Refuse(r)
    BY <2>1, <2>2, <2>3 DEF Promise!Refuse, Promise!Finish, Promise!Reply, Promise!Sources,
                            pstate, preply, Sources
  <2> QED BY <2>4 DEF Promise!Next
<1>3. ASSUME NEW r \in Requests, Start(r) PROVE Promised
  <2>1. /\ phase[r] # "answered" /\ phase'[r] # "answered"
        /\ UNCHANGED << query, answer, causes >>
        /\ \A q \in Requests : q # r => phase'[q] = phase[q]
    BY <1>3 DEF TypeOK, Start
  <2> QED BY <2>1, SufferOrStutter
<1>4. ASSUME NEW r \in Requests, NEW i \in Slots, NEW result, Returns(r, i, result),
             worker[r][i] = "started",
             \/ causes' = causes
             \/ \E c \in Promise!Causes : causes' = [causes EXCEPT ![r] = @ \cup {c}]
      PROVE  Promised
  <2>1. phase[r] = "running"
    BY <1>4, StartedIsRunning DEF CallInv, OneCallInv
  <2>2. UNCHANGED << query, answer, phase >>
    BY <1>4 DEF Returns
  <2> QED BY <1>4, <2>1, <2>2, SufferOrStutter
<1>5. ASSUME NEW r \in Requests, NEW i \in Slots,
             MissingRepository(r, i) \/ RepositoryAnswers(r, i) \/ RepositoryInterrupted(r, i)
      PROVE  Promised
  <2>1. "invalid" \in Promise!Causes
    BY DEF Promise!Causes
  <2> QED BY <1>4, <1>5, <2>1 DEF MissingRepository, RepositoryAnswers, RepositoryInterrupted, RepoContext
<1>6. ASSUME NEW r \in Requests, NEW i \in Slots, RepositoryFails(r, i) PROVE Promised
  <2>1. \A e \in DriverErrors : WrapErr(e) \in Promise!Causes
    BY ServiceAssumption DEF WrapErr, ContextErrors, Promise!Causes
  <2> QED BY <1>4, <1>6, <2>1 DEF RepositoryFails
<1>7. ASSUME NEW r \in Requests, NEW i \in Slots, Report(r, i) PROVE Promised
  <2>1. UNCHANGED << query, phase, answer, causes >>
    BY <1>7 DEF Report
  <2> QED BY <2>1 DEF pstate, preply, DaysOnce
<1>8. ASSUME NEW r \in Requests, NEW response, Writes(r, response)
      PROVE  /\ phase[r] # "answered" /\ phase'[r] = "answered"
             /\ query' = query /\ causes' = causes /\ answer'[r] = response
             /\ pstate[r] = "pending" /\ pstate' = [pstate EXCEPT ![r] = "answered"]
             /\ preply' = [preply EXCEPT ![r] = [err |-> response.err, days |-> DaysOnce(r)']]
  <2>1. /\ phase[r] # "answered" /\ phase'[r] = "answered"
        /\ query' = query /\ causes' = causes /\ answer'[r] = response
        /\ \A q \in Requests : q # r => phase'[q] = phase[q] /\ answer'[q] = answer[q]
    BY <1>8 DEF TypeOK, Writes, WaitReturns
  <2> QED BY <2>1, AnswersOne
<1>9. ASSUME NEW r \in Requests, NEW e \in causes[r] \cup {"overflow"},
             Writes(r, ErrorAnswer(query[r].metric, e))
      PROVE  Promised
  <2>1. /\ ErrorAnswer(query[r].metric, e).err = e /\ DaysOnce(r)' = {}
    BY <1>8, <1>9, AnswerFields, ErrorCountsNothing
  <2>2. Promise!Fail(r)
    BY <1>8, <1>9, <2>1 DEF Promise!Fail, Promise!Finish, Promise!Reply, pstate, preply
  <2> QED BY <2>2 DEF Promise!Next
<1>10. ASSUME NEW r \in Requests, AnswerError(r) \/ AnswerOverflow(r) PROVE Promised
  <2>1. gerr[r] # "nil" => gerr[r] \in causes[r]
    BY DEF CallInv, GroupInv
  <2> QED BY <1>9, <1>10, <2>1 DEF AnswerError, AnswerOverflow
<1>11. ASSUME NEW r \in Requests, AnswerMerged(r) PROVE Promised
  <2>1. Writes(r, MergedAnswer(r)) /\ MergedAnswer(r).status = 200 /\ MergedAnswer(r).err = "nil"
    BY <1>11, MergedFields DEF AnswerMerged
  <2>2. DaysOnce(r)' \in SUBSET DaysOf(query[r].range)
    BY <1>8, <2>1 DEF DaysOnce
  <2>3. query[r].source = "auto" => DaysOnce(r)' = DaysOf(query[r].range)
    <3>1. /\ phase'[r] = "answered" /\ query' = query
          /\ answer'[r] = MergedAnswer(r)
      BY <1>8, <2>1
    <3>2. answer'[r].status = 200
      BY <2>1, <3>1
    <3>3. Workers(r)' = Workers(r) /\ Workers(r) \subseteq Slots
      BY <2>1, WorkerSlots DEF Writes, Workers
    <3>4. ASSUME query[r].source = "auto", NEW d \in DaysOf(query[r].range)
          PROVE  \E i \in Slots :
                   /\ <<i, d>> \in answer'[r].rows
                   /\ \A j \in Slots : <<j, d>> \in answer'[r].rows => j = i
      <4>1. \E i \in Workers(r)' :
              /\ <<i, d>> \in answer'[r].rows
              /\ \A j \in Slots : <<j, d>> \in answer'[r].rows => j = i
        <5>1. Answered(r, 200)' /\ query'[r].source = "auto" /\ d \in DaysOf(query'[r].range)
          BY <3>1, <3>2, <3>4 DEF Answered
        <5> QED BY <5>1 DEF EveryDayOnce
      <4> QED BY <3>3, <4>1
    <3>5. DaysOnce(r)' = {d \in DaysOf(query[r].range) :
                            \E i \in Slots :
                              /\ <<i, d>> \in answer'[r].rows
                              /\ \A j \in Slots : <<j, d>> \in answer'[r].rows => j = i}
      BY <3>1 DEF DaysOnce
    <3> QED BY <3>4, <3>5
  <2>4. /\ query' = query /\ causes' = causes
        /\ pstate[r] = "pending" /\ pstate' = [pstate EXCEPT ![r] = "answered"]
        /\ preply' = [preply EXCEPT ![r] = [err |-> "nil", days |-> DaysOnce(r)']]
    BY <1>8, <2>1
  <2>5. Promise!Succeed(r)
    BY <2>2, <2>3, <2>4 DEF Promise!Succeed, Promise!Finish, Promise!Reply,
                                  Promise!DaysOf, DaysOf, pstate, preply
  <2> QED BY <2>5 DEF Promise!Next
<1>12. ASSUME NEW r \in Requests, ClientCancels(r) \/ Deadline(r) PROVE Promised
  <2>1. PICK e \in ContextErrors : ContextEnds(r, e)
    BY <1>12 DEF ClientCancels, Deadline, ContextErrors
  <2>2. e \in Promise!Causes
    BY <2>1 DEF Promise!Causes, ContextErrors
  <2> QED BY <2>1, <2>2, SufferOrStutter DEF ContextEnds
<1> QED BY <1>1, <1>2, <1>3, <1>5, <1>6, <1>7, <1>10, <1>11, <1>12 DEF Next, Step

\* With stores that keep their days long enough, the service implements the
\* promise to its caller.
THEOREM ServiceKeepsPromise == Retention => (Spec => KeepsThePromise)
<1> SUFFICES ASSUME Retention PROVE Spec => KeepsThePromise
  OBVIOUS
<1>1. TypeOK /\ CallInv /\ EveryDayOnce' /\ [Next]_vars => [Promise!Next]_Promise!promiseVars
  BY RefinementStep DEF Promise!promiseVars, pstate, preply
<1>2. Spec => []EveryDayOnce
  BY EveryDayCountedOnce
<1> QED BY <1>1, <1>2, RefinementInit, TypeCorrect, CallsConsistent, PTL
        DEF Spec, KeepsThePromise, Promise!PromiseSpec

===============================================================================
