---------------------------- MODULE HttpFrontProofs ----------------------------
(***************************************************************************)
(* Proofs about HttpFront, for any number of requests, any delays of the   *)
(* repositories and any budget of the probe.                               *)
(***************************************************************************)
EXTENDS HttpFront, FiniteSetTheorems, SequenceTheorems, TLAPS

\* The parameters' part: what ValidateOrgID lets pass, hiveLiteralSafe lets pass,
\* so mustQuoteHive has no reason to panic in a query that was accepted.
THEOREM AcceptedAreSafe ==
  ASSUME NEW q \in AcceptedQueries
  PROVE  ~ Panics(q)
<1>1. ValidOrgID(q.org)
  BY DEF AcceptedQueries, Accepted
<1>2. LiteralSafe(q.org)
  BY <1>1 DEF ValidOrgID, LiteralSafe
<1>3. LiteralSafe(DateText)
  BY DEF DateText, Text, LiteralSafe
<1> QED BY <1>2, <1>3 DEF Panics

-----------------------------------------------------------------------------
(* The inductive invariant. *)

ShapesButMetrics ==
  /\ target \in [Requests -> Targets]
  /\ get \in [Requests -> BOOLEAN] /\ key \in [Requests -> BOOLEAN]
  /\ delay \in [{"hive", "trino", "starrocks"} -> Delays \cup {Down}]
  /\ at \in [Requests -> Places \ {"lost"}]
  /\ sent \in [Requests -> Codes \cup {0}]
  /\ seen \in [Requests -> Codes] /\ recorded \in [Requests -> Codes]
  /\ meta \in [Requests -> BOOLEAN] /\ idSent \in [Requests -> BOOLEAN]
  /\ logged \in [Requests -> Seq(Codes)]
  /\ pinged \in [Requests -> Seq({"hive", "trino", "starrocks"})]
  /\ spent \in [Requests -> 0 .. Budget]

MetricShapes == gauge \in Int /\ total \in [Targets -> [Codes -> Nat]]

\* Nothing is written, logged or counted before its place in the chain, and what
\* the two recorders kept is what the client got, except for the access log's after
\* a panic.
WrittenInv(r) ==
  /\ at[r] \in {"outside", "checking", "querying", "probing", "recovering"} =>
       sent[r] = 0 /\ logged[r] = << >>
  /\ at[r] = "logging" =>
       sent[r] \in Codes /\ seen[r] = sent[r] /\ recorded[r] = sent[r] /\ logged[r] = << >>
  /\ at[r] = "counting" => recorded[r] = sent[r]
  /\ at[r] \in {"counting", "leaving", "gone"} =>
       /\ sent[r] \in Codes
       /\ logged[r] = << sent[r] >> \/ (logged[r] = << >> /\ sent[r] = 500)
  /\ at[r] # "outside" => meta[r]
  /\ sent[r] \in Codes \ {200, 404, 405} => idSent[r]

AllAnswered ==
  /\ \A s \in {"hive", "trino", "starrocks"} : delay[s] \in Delays
  /\ delay["hive"] + delay["trino"] + delay["starrocks"] <= Budget

\* The budget that is gone is the time the repositories took that have answered.
ProbeInv(r) ==
  /\ at[r] \in {"outside", "checking"} => Len(pinged[r]) = 0
  /\ at[r] = "probing" => target[r] = "ready"
  /\ at[r] = "querying" => target[r] \in Business
  /\ Len(pinged[r]) <= 3
  /\ \A i \in 1 .. Len(pinged[r]) : pinged[r][i] = Stores[i] /\ delay[Stores[i]] # Down
  /\ Len(pinged[r]) = 0 => spent[r] = 0
  /\ Len(pinged[r]) = 1 => spent[r] = delay["hive"]
  /\ Len(pinged[r]) = 2 => spent[r] = delay["hive"] + delay["trino"]
  /\ Len(pinged[r]) = 3 => AllAnswered
  /\ target[r] = "ready" /\ sent[r] = 200 => Len(pinged[r]) = 3

RequestsInv == \A r \in Requests : WrittenInv(r) /\ ProbeInv(r)

Answered(t, c) ==
  {r \in Requests : at[r] \in {"leaving", "gone"} /\ target[r] = t /\ sent[r] = c}

MetricsInv == GaugeCountsInside /\ CountsMatchAnswers

FrontInv == ShapesButMetrics /\ MetricShapes /\ RequestsInv /\ MetricsInv

-----------------------------------------------------------------------------
(* Facts the steps use. *)

LEMMA StoreFacts ==
  /\ Stores[1] = "hive" /\ Stores[2] = "trino" /\ Stores[3] = "starrocks"
  /\ Len(Stores) = 3
  /\ {Stores[i] : i \in DOMAIN Stores} = {"hive", "trino", "starrocks"}
  /\ Delays \cup {Down} \subseteq Nat /\ Budget \in Nat
BY FrontAssumption DEF Stores, Down

\* The fields of every request but r, and what no step of a request changes.
OthersKeep(r) ==
  /\ UNCHANGED World
  /\ \A q \in Requests \ {r} :
       /\ at'[q] = at[q] /\ sent'[q] = sent[q] /\ seen'[q] = seen[q]
       /\ recorded'[q] = recorded[q] /\ meta'[q] = meta[q] /\ idSent'[q] = idSent[q]
       /\ logged'[q] = logged[q] /\ pinged'[q] = pinged[q] /\ spent'[q] = spent[q]

\* What a step does to the request it is about, apart from the metrics.
RequestKept(r) == ShapesButMetrics' /\ OthersKeep(r) /\ WrittenInv(r)' /\ ProbeInv(r)'

Before == /\ ShapesButMetrics /\ MetricShapes /\ RequestsInv

\* A handler that answers writes the same status to the client and both recorders.
LEMMA WriteStep ==
  ASSUME Before, NEW r \in Requests, NEW code \in Codes,
         at[r] \in {"checking", "querying", "probing"}, at' = [at EXCEPT ![r] = "logging"],
         Write(r, code), UNCHANGED << World, meta, logged, Probe >>,
         target[r] = "ready" /\ code = 200 => Len(pinged[r]) = 3
  PROVE  RequestKept(r)
<1>1. ShapesButMetrics'
  BY DEF Before, ShapesButMetrics, Write, World, Probe, Places, IdKnown
<1>2. OthersKeep(r)
  BY DEF Before, ShapesButMetrics, OthersKeep, Write, World, Probe
<1>3. WrittenInv(r) /\ ProbeInv(r) /\ meta[r]
  BY DEF Before, RequestsInv, WrittenInv
<1>4. at'[r] = "logging" /\ sent'[r] = code /\ seen'[r] = code /\ recorded'[r] = code
  BY DEF Before, ShapesButMetrics, Write
<1>5. code # 200 => idSent'[r]
  BY <1>3 DEF Before, ShapesButMetrics, Write, IdKnown
<1>6. WrittenInv(r)'
  <2>1. meta'[r] /\ logged'[r] = << >>
    BY <1>3 DEF WrittenInv
  <2> QED BY <1>4, <1>5, <2>1 DEF WrittenInv
<1>7. ProbeInv(r)'
  BY <1>3, <1>4 DEF ProbeInv, World, Probe, AllAnswered
<1> QED BY <1>1, <1>2, <1>6, <1>7 DEF RequestKept

\* A step that writes nothing.
LEMMA MoveStep ==
  ASSUME Before, NEW r \in Requests, NEW to \in Places \ {"lost"},
         at' = [at EXCEPT ![r] = to],
         UNCHANGED << World, Written, logged, Probe >>,
         \/ at[r] = "outside" /\ to = "checking" /\ meta' = [meta EXCEPT ![r] = TRUE]
         \/ at[r] = "checking" /\ to = "querying" /\ target[r] \in Business /\ meta' = meta
         \/ at[r] = "checking" /\ to = "probing" /\ target[r] = "ready" /\ meta' = meta
         \/ at[r] \in {"querying", "probing"} /\ to = "recovering" /\ meta' = meta
         \/ at[r] = "counting" /\ to = "leaving" /\ meta' = meta
         \/ at[r] = "leaving" /\ to = "gone" /\ meta' = meta
  PROVE  RequestKept(r)
<1>1. ShapesButMetrics'
  BY DEF Before, ShapesButMetrics, World, Written, Probe, Places
<1>2. OthersKeep(r)
  BY DEF Before, ShapesButMetrics, OthersKeep, World, Written, Probe
<1>3. WrittenInv(r) /\ ProbeInv(r)
  BY DEF Before, RequestsInv
<1>4. at'[r] = to /\ sent'[r] = sent[r] /\ idSent'[r] = idSent[r] /\ logged'[r] = logged[r]
      /\ recorded'[r] = recorded[r] /\ meta'[r]
  BY <1>3 DEF Before, ShapesButMetrics, Written, WrittenInv
<1>5. WrittenInv(r)'
  BY <1>3, <1>4 DEF WrittenInv
<1>6. ProbeInv(r)'
  BY <1>3, <1>4 DEF ProbeInv, World, Probe, Written, AllAnswered
<1> QED BY <1>1, <1>2, <1>5, <1>6 DEF RequestKept

LEMMA CodesWritten ==
  /\ {200, 400, 401, 404, 405, 500, 503} \subseteq Codes
  /\ \A e \in {"nil"} \cup ErrorKinds : HttpStatus(e) \in Codes
BY DEF Codes, HttpStatus

LEMMA Answers ==
  ASSUME Before, NEW r \in Requests,
         \/ Unauthorized(r) \/ NoRoute(r) \/ Static(r) \/ RefuseQuery(r)
         \/ BusinessAnswer(r) \/ PingFailed(r) \/ Ready(r)
  PROVE  RequestKept(r)
<1>1. "ready" \in Public /\ "ready" \notin Business
  BY DEF Public, Business
<1>2. ProbeInv(r) /\ Len(Stores) = 3
  BY StoreFacts DEF Before, RequestsInv
<1>3. \E code \in Codes :
        /\ at[r] \in {"checking", "querying", "probing"} /\ at' = [at EXCEPT ![r] = "logging"]
        /\ Write(r, code) /\ UNCHANGED << World, meta, logged, Probe >>
        /\ target[r] = "ready" /\ code = 200 => Len(pinged[r]) = 3
  <2>1. CASE Unauthorized(r)
    BY <2>1, CodesWritten DEF Unauthorized, Move
  <2>2. CASE NoRoute(r)
    BY <2>2, CodesWritten DEF NoRoute, Move
  <2>3. CASE Static(r)
    BY <2>3, CodesWritten DEF Static, Move
  <2>4. CASE RefuseQuery(r)
    BY <2>4, CodesWritten DEF RefuseQuery, Move
  <2>5. CASE BusinessAnswer(r)
    <3>1. target[r] # "ready"
      BY <1>1, <1>2, <2>5 DEF BusinessAnswer, Move, ProbeInv
    <3> QED BY <2>5, <3>1, CodesWritten DEF BusinessAnswer, Move
  <2>6. CASE PingFailed(r)
    BY <2>6, CodesWritten DEF PingFailed, Move
  <2>7. CASE Ready(r)
    BY <1>2, <2>7, CodesWritten DEF Ready, Move
  <2> QED BY <2>1, <2>2, <2>3, <2>4, <2>5, <2>6, <2>7
<1> QED BY <1>3, WriteStep

LEMMA Moves ==
  ASSUME Before, NEW r \in Requests,
         \/ Enter(r) \/ CallService(r) \/ BeginProbe(r) \/ Panic(r) \/ Count(r) \/ Leave(r)
  PROVE  RequestKept(r)
<1>1. {"checking", "querying", "probing", "recovering", "leaving", "gone"} \subseteq Places \ {"lost"}
  BY DEF Places
<1>2. CASE Enter(r)
  BY <1>1, <1>2, MoveStep DEF Enter, Move
<1>3. CASE CallService(r)
  <2>1. /\ Move(r, "checking", "querying") /\ target[r] \in Business
        /\ UNCHANGED << World, Written, meta, logged, Probe >>
    BY <1>3, AcceptedAreSafe DEF CallService
  <2> QED BY <1>1, <2>1, MoveStep DEF Move
<1>4. CASE BeginProbe(r)
  BY <1>1, <1>4, MoveStep DEF BeginProbe, Move
<1>5. CASE Panic(r)
  BY <1>1, <1>5, MoveStep DEF Panic, Move
<1>6. CASE Count(r)
  BY <1>1, <1>6, MoveStep DEF Count, Move
<1>7. CASE Leave(r)
  BY <1>1, <1>7, MoveStep DEF Leave, Move
<1> QED BY <1>2, <1>3, <1>4, <1>5, <1>6, <1>7

LEMMA PingStep ==
  ASSUME Before, NEW r \in Requests, PingAnswered(r)
  PROVE  RequestKept(r)
<1> DEFINE n == Len(pinged[r])
           s == Stores[n + 1]
           names == {"hive", "trino", "starrocks"}
<1>1. /\ at[r] = "probing" /\ n < 3 /\ delay[s] # Down /\ delay[s] <= Budget - spent[r]
      /\ pinged' = [pinged EXCEPT ![r] = Append(@, s)]
      /\ spent' = [spent EXCEPT ![r] = @ + delay[s]]
      /\ UNCHANGED << World, at, Written, meta, logged >>
  BY StoreFacts DEF PingAnswered, InTime, Remaining, NextStore
<1>2. pinged[r] \in Seq(names) /\ n \in Nat /\ spent[r] \in 0 .. Budget
      /\ WrittenInv(r) /\ ProbeInv(r)
  BY DEF Before, ShapesButMetrics, RequestsInv
<1>3. n \in 0 .. 2 /\ s \in names /\ s = Stores[n + 1]
  <2>1. n \in Nat /\ n < 3
    BY <1>1, <1>2
  <2>2. n = 0 \/ n = 1 \/ n = 2
    <3> HIDE DEF n
    <3> QED BY <2>1
  <2>3. s \in names
    <3> HIDE DEF n
    <3> QED BY <2>2, StoreFacts
  <2> QED BY <2>2, <2>3
<1>4. delay[s] \in Nat /\ \A x \in names : delay[x] \in Delays \cup {Down}
  BY <1>3, StoreFacts DEF Before, ShapesButMetrics
<1>5. /\ pinged'[r] \in Seq(names) /\ Len(pinged'[r]) = n + 1
      /\ \A i \in 1 .. n : pinged'[r][i] = pinged[r][i]
      /\ pinged'[r][n + 1] = s
  <2>1. pinged'[r] = Append(pinged[r], s)
    BY <1>1 DEF Before, ShapesButMetrics
  <2> QED BY <1>2, <1>3, <2>1, AppendProperties
<1>6. spent'[r] = spent[r] + delay[s] /\ spent'[r] \in 0 .. Budget
  BY <1>1, <1>2, <1>4, StoreFacts DEF Before, ShapesButMetrics
<1>7. ShapesButMetrics'
  BY <1>1, <1>5, <1>6 DEF Before, ShapesButMetrics, World, Written
<1>8. OthersKeep(r)
  BY <1>1 DEF Before, ShapesButMetrics, OthersKeep, World, Written
<1>9. at'[r] = "probing" /\ sent'[r] = 0 /\ UNCHANGED << at, sent, target, delay >>
  BY <1>1, <1>2 DEF WrittenInv, World, Written
<1>10. WrittenInv(r)'
  BY <1>1, <1>2 DEF WrittenInv, Written
<1>11. ProbeInv(r)'
  <2>1. /\ \A i \in 1 .. (n + 1) : pinged'[r][i] = Stores[i] /\ delay[Stores[i]] # Down
        /\ target[r] = "ready"
    BY <1>1, <1>2, <1>3, <1>5 DEF ProbeInv
  <2>2. CASE n = 0
    BY <1>2, <1>4, <1>5, <1>6, <1>9, <2>1, <2>2, StoreFacts DEF ProbeInv
  <2>3. CASE n = 1
    BY <1>2, <1>4, <1>5, <1>6, <1>9, <2>1, <2>3, StoreFacts DEF ProbeInv
  <2>4. CASE n = 2
    <3>1. /\ spent[r] = delay["hive"] + delay["trino"] /\ s = "starrocks"
          /\ delay["hive"] # Down /\ delay["trino"] # Down /\ delay["starrocks"] # Down
      BY <1>2, <1>3, <2>1, <2>4, StoreFacts DEF ProbeInv
    <3>2. AllAnswered
      BY <1>4, <1>6, <3>1, StoreFacts DEF AllAnswered
    <3>3. AllAnswered'
      BY <1>9, <3>2 DEF AllAnswered
    <3> QED BY <1>5, <1>9, <2>1, <2>4, <3>3 DEF ProbeInv
  <2> QED BY <1>3, <2>2, <2>3, <2>4
<1> QED BY <1>7, <1>8, <1>10, <1>11 DEF RequestKept

LEMMA WayOut ==
  ASSUME Before, NEW r \in Requests, Log(r) \/ Recover(r)
  PROVE  RequestKept(r)
<1>1. WrittenInv(r) /\ ProbeInv(r) /\ 500 \in Codes /\ "counting" \in Places \ {"lost"}
  BY DEF Before, RequestsInv, Codes, Places
<1>2. CASE Log(r)
  <2>1. /\ at[r] = "logging" /\ at' = [at EXCEPT ![r] = "counting"]
        /\ logged' = [logged EXCEPT ![r] = Append(@, seen[r])]
        /\ UNCHANGED << World, Written, meta, Probe >>
    BY <1>2 DEF Log, Move
  <2>2. /\ logged'[r] = Append(<< >>, seen[r]) /\ at'[r] = "counting"
        /\ seen[r] = sent[r] /\ seen[r] \in Codes /\ meta[r]
    BY <1>1, <2>1 DEF Before, ShapesButMetrics, WrittenInv
  <2>3. logged'[r] = << sent[r] >> /\ logged'[r] \in Seq(Codes)
    <3>1. Append(<< >>, seen[r]) = << seen[r] >>
      OBVIOUS
    <3> QED BY <2>2, <3>1
  <2>4. ShapesButMetrics'
    BY <1>1, <2>1, <2>3 DEF Before, ShapesButMetrics, World, Written, Probe
  <2>5. OthersKeep(r)
    BY <2>1 DEF Before, ShapesButMetrics, OthersKeep, World, Written, Probe
  <2>6. WrittenInv(r)'
    BY <1>1, <2>1, <2>2, <2>3 DEF WrittenInv, Written
  <2>7. ProbeInv(r)'
    BY <1>1, <2>1, <2>2 DEF ProbeInv, World, Written, Probe, AllAnswered
  <2> QED BY <2>4, <2>5, <2>6, <2>7 DEF RequestKept
<1>3. CASE Recover(r)
  <2>1. /\ at[r] = "recovering" /\ at' = [at EXCEPT ![r] = "counting"]
        /\ sent' = [sent EXCEPT ![r] = 500] /\ recorded' = [recorded EXCEPT ![r] = 500]
        /\ idSent' = [idSent EXCEPT ![r] = meta[r]]
        /\ UNCHANGED << World, seen, meta, logged, Probe >>
    BY <1>3 DEF Recover, Move, IdKnown
  <2>2. /\ at'[r] = "counting" /\ sent'[r] = 500 /\ recorded'[r] = 500
        /\ logged'[r] = << >> /\ meta'[r] /\ idSent'[r]
    BY <1>1, <2>1 DEF Before, ShapesButMetrics, WrittenInv
  <2>3. ShapesButMetrics'
    BY <1>1, <2>1 DEF Before, ShapesButMetrics, World, Probe
  <2>4. OthersKeep(r)
    BY <2>1 DEF Before, ShapesButMetrics, OthersKeep, World, Probe
  <2>5. WrittenInv(r)'
    BY <1>1, <2>2 DEF WrittenInv
  <2>6. ProbeInv(r)'
    BY <1>1, <2>1, <2>2 DEF ProbeInv, World, Probe, AllAnswered
  <2> QED BY <2>3, <2>4, <2>5, <2>6 DEF RequestKept
<1> QED BY <1>2, <1>3

LEMMA StepKeepsRequest ==
  ASSUME Before, NEW r \in Requests, Step(r)
  PROVE  RequestKept(r)
BY Answers, Moves, PingStep, WayOut DEF Step

\* Of the other requests nothing changes, so neither does what holds of them.
LEMMA StepKeepsRequests ==
  ASSUME Before, NEW r \in Requests, Step(r)
  PROVE  ShapesButMetrics' /\ RequestsInv'
<1>1. ShapesButMetrics' /\ OthersKeep(r) /\ WrittenInv(r)' /\ ProbeInv(r)'
  BY StepKeepsRequest DEF RequestKept
<1>2. ASSUME NEW q \in Requests \ {r}
      PROVE  WrittenInv(q)' /\ ProbeInv(q)'
  <2>1. WrittenInv(q) /\ ProbeInv(q)
    BY DEF Before, RequestsInv
  <2>2. WrittenInv(q)'
    BY <1>1, <2>1 DEF WrittenInv, OthersKeep
  <2>3. ProbeInv(q)'
    BY <1>1, <2>1 DEF ProbeInv, OthersKeep, World, AllAnswered
  <2> QED BY <2>2, <2>3
<1> QED BY <1>1, <1>2 DEF RequestsInv

-----------------------------------------------------------------------------
(* Gauge and counters. *)

\* Where a request is between the gauge's Inc and the counter's Inc.
Uncounted == {"checking", "querying", "lost", "probing", "recovering", "logging", "counting"}

LEMMA SetsAreFinite ==
  /\ IsFiniteSet(Inside) /\ Cardinality(Inside) \in 0 .. Cardinality(Requests)
  /\ \A t, c : IsFiniteSet(Answered(t, c)) /\ Cardinality(Answered(t, c)) \in Nat
<1>1. ASSUME NEW T \in SUBSET Requests
      PROVE  IsFiniteSet(T) /\ Cardinality(T) \in 0 .. Cardinality(Requests)
  <2>1. IsFiniteSet(T) /\ Cardinality(T) <= Cardinality(Requests)
    BY FrontAssumption, FS_Subset
  <2>2. Cardinality(T) \in Nat /\ Cardinality(Requests) \in Nat
    BY <2>1, FrontAssumption, FS_CardinalityType
  <2> QED BY <2>1, <2>2
<1>2. Inside \in SUBSET Requests
  BY DEF Inside
<1>3. \A t, c : Answered(t, c) \in SUBSET Requests
  BY DEF Answered
<1>4. Cardinality(Requests) \in Nat
  BY FrontAssumption, FS_CardinalityType
<1> QED BY <1>1, <1>2, <1>3, <1>4

\* A step between the two ends of the middleware leaves the metrics alone.
LEMMA InnerStep ==
  ASSUME Before, NEW r \in Requests, OthersKeep(r), UNCHANGED Metrics,
         at[r] \in Uncounted, at'[r] \in Uncounted, MetricsInv
  PROVE  MetricsInv'
<1>1. Inside' = Inside
  BY DEF Inside, OthersKeep, Uncounted
<1>2. \A t, c : Answered(t, c)' = Answered(t, c)
  BY DEF Answered, OthersKeep, World, Uncounted
<1> QED BY <1>1, <1>2 DEF MetricsInv, GaugeCountsInside, CountsMatchAnswers, Answered, Metrics

LEMMA StepKeepsMetrics ==
  ASSUME Before, MetricsInv, NEW r \in Requests, Step(r)
  PROVE  MetricShapes' /\ MetricsInv'
<1>1. /\ OthersKeep(r) /\ target[r] \in Targets /\ gauge \in Int
      /\ at \in [Requests -> Places \ {"lost"}] /\ total \in [Targets -> [Codes -> Nat]]
  BY StepKeepsRequest DEF RequestKept, Before, ShapesButMetrics, MetricShapes
<1>2. CASE Enter(r)
  <2>1. at[r] = "outside" /\ at'[r] = "checking" /\ gauge' = gauge + 1 /\ total' = total
    BY <1>1, <1>2 DEF Enter, Move
  <2>2. Inside' = Inside \cup {r} /\ r \notin Inside
    BY <1>1, <2>1 DEF Inside, OthersKeep
  <2>3. Cardinality(Inside \cup {r}) = Cardinality(Inside) + 1
    BY <2>2, SetsAreFinite, FS_AddElement
  <2>4. \A t, c : Answered(t, c)' = Answered(t, c)
    BY <1>1, <2>1 DEF Answered, OthersKeep, World
  <2>5. GaugeCountsInside'
    BY <1>1, <2>1, <2>2, <2>3 DEF MetricsInv, GaugeCountsInside
  <2>6. CountsMatchAnswers'
    BY <2>1, <2>4 DEF MetricsInv, CountsMatchAnswers, Answered
  <2> QED BY <1>1, <2>1, <2>5, <2>6 DEF MetricShapes, MetricsInv
<1>3. CASE Leave(r)
  <2>1. at[r] = "leaving" /\ at'[r] = "gone" /\ gauge' = gauge - 1
        /\ UNCHANGED << total, target, sent >>
    BY <1>1, <1>3 DEF Leave, Move, World, Written
  <2>2. Inside' = Inside \ {r} /\ r \in Inside
    BY <1>1, <2>1 DEF Inside, OthersKeep
  <2>3. Cardinality(Inside \ {r}) = Cardinality(Inside) - 1
    BY <2>2, SetsAreFinite, FS_RemoveElement
  <2>4. \A t, c : Answered(t, c)' = Answered(t, c)
    BY <1>1, <2>1 DEF Answered, OthersKeep
  <2>5. GaugeCountsInside'
    BY <1>1, <2>1, <2>2, <2>3 DEF MetricsInv, GaugeCountsInside
  <2>6. CountsMatchAnswers'
    BY <2>1, <2>4 DEF MetricsInv, CountsMatchAnswers, Answered
  <2> QED BY <1>1, <2>1, <2>5, <2>6 DEF MetricShapes, MetricsInv
<1>4. CASE Count(r)
  <2> DEFINE t0 == target[r]
             c0 == sent[r]
  <2>1. /\ at[r] = "counting" /\ at'[r] = "leaving" /\ UNCHANGED << gauge, target, sent >>
        /\ total' = [total EXCEPT ![t0][recorded[r]] = @ + 1]
    BY <1>1, <1>4 DEF Count, Move, World, Written
  <2>2. recorded[r] = c0 /\ c0 \in Codes
    BY <2>1 DEF Before, RequestsInv, WrittenInv
  <2>3. Inside' = Inside
    BY <1>1, <2>1 DEF Inside, OthersKeep
  <2>4. ASSUME NEW t \in Targets, NEW c \in Codes
        PROVE  total'[t][c] = Cardinality(Answered(t, c)')
    <3>1. total[t][c] = Cardinality(Answered(t, c)) /\ total[t][c] \in Nat
      BY <1>1 DEF MetricsInv, CountsMatchAnswers, Answered
    <3>2. CASE t = t0 /\ c = c0
      <4>1. Answered(t, c)' = Answered(t, c) \cup {r} /\ r \notin Answered(t, c)
        BY <1>1, <2>1, <3>2 DEF Answered, OthersKeep
      <4>2. Cardinality(Answered(t, c) \cup {r}) = Cardinality(Answered(t, c)) + 1
        BY <4>1, SetsAreFinite, FS_AddElement
      <4>3. total'[t][c] = total[t][c] + 1
        BY <1>1, <2>1, <2>2, <3>2
      <4> QED BY <3>1, <4>1, <4>2, <4>3
    <3>3. CASE ~ (t = t0 /\ c = c0)
      <4>1. Answered(t, c)' = Answered(t, c)
        BY <1>1, <2>1, <3>3 DEF Answered, OthersKeep
      <4>2. total'[t][c] = total[t][c]
        BY <1>1, <2>1, <2>2, <3>3
      <4> QED BY <3>1, <4>1, <4>2
    <3> QED BY <3>2, <3>3
  <2>5. total' \in [Targets -> [Codes -> Nat]]
    BY <1>1, <2>1, <2>2
  <2>6. CountsMatchAnswers'
    BY <2>4 DEF CountsMatchAnswers, Answered
  <2> QED BY <1>1, <2>1, <2>3, <2>5, <2>6 DEF MetricShapes, MetricsInv, GaugeCountsInside
<1>5. CASE ~ (Enter(r) \/ Leave(r) \/ Count(r))
  <2>1. UNCHANGED Metrics
    BY <1>5 DEF Step, Unauthorized, NoRoute, Static, RefuseQuery, CallService, BeginProbe,
                BusinessAnswer, Panic, PingAnswered, PingFailed, Ready, Log, Recover
  <2>2. at[r] \in Uncounted /\ at'[r] \in Uncounted
    BY <1>1, <1>5 DEF Step, Move, Uncounted, Unauthorized, NoRoute, Static, RefuseQuery, CallService,
                      BeginProbe, BusinessAnswer, Panic, PingAnswered, PingFailed, Ready, Log, Recover
  <2>3. MetricsInv'
    BY <1>1, <2>1, <2>2, InnerStep
  <2> QED BY <2>1, <2>3 DEF MetricShapes, Metrics, Before
<1> QED BY <1>2, <1>3, <1>4, <1>5

-----------------------------------------------------------------------------
(* The theorems. *)

LEMMA InitInv == Init => FrontInv
<1> SUFFICES ASSUME Init PROVE FrontInv
  OBVIOUS
<1>1. ShapesButMetrics /\ MetricShapes
  BY StoreFacts, FrontAssumption DEF Init, ShapesButMetrics, MetricShapes, Places, Codes
<1>2. RequestsInv
  BY DEF Init, RequestsInv, WrittenInv, ProbeInv, Codes
<1>3. Inside = {} /\ \A t, c : Answered(t, c) = {}
  BY DEF Init, Inside, Answered
<1>4. MetricsInv
  <2>1. \A t \in Targets, c \in Codes : total[t][c] = 0
    BY DEF Init
  <2> QED BY <1>3, <2>1, FS_EmptySet DEF Init, MetricsInv, GaugeCountsInside, CountsMatchAnswers, Answered
<1> QED BY <1>1, <1>2, <1>4 DEF FrontInv

LEMMA NextKeepsInv == FrontInv /\ [Next]_vars => FrontInv'
<1>1. FrontInv /\ Next => FrontInv'
  BY StepKeepsRequests, StepKeepsMetrics DEF FrontInv, Before, Next
<1>2. FrontInv /\ UNCHANGED vars => FrontInv'
  <2> SUFFICES ASSUME FrontInv, UNCHANGED vars PROVE FrontInv'
    OBVIOUS
  <2>1. ShapesButMetrics' /\ MetricShapes'
    BY DEF FrontInv, vars, ShapesButMetrics, MetricShapes
  <2>2. RequestsInv'
    BY DEF FrontInv, vars, RequestsInv, WrittenInv, ProbeInv, AllAnswered
  <2>3. MetricsInv'
    BY DEF FrontInv, vars, MetricsInv, GaugeCountsInside, CountsMatchAnswers, Inside
  <2> QED BY <2>1, <2>2, <2>3 DEF FrontInv
<1> QED BY <1>1, <1>2

\* The chain of handlers keeps FrontInv: places, recorders, probes and metrics agree.
LEMMA FrontConsistent == Spec => []FrontInv
BY InitInv, NextKeepsInv, PTL DEF Spec

LEMMA PingedIsPrefix ==
  ASSUME FrontInv, NEW r \in Requests
  PROVE  \E n \in 0 .. Len(Stores) : pinged[r] = SubSeq(Stores, 1, n)
<1> DEFINE n == Len(pinged[r])
           names == {"hive", "trino", "starrocks"}
<1>1. /\ pinged[r] \in Seq(names) /\ n \in Nat /\ n <= 3
      /\ \A i \in 1 .. n : pinged[r][i] = Stores[i]
  BY DEF FrontInv, ShapesButMetrics, RequestsInv, ProbeInv
<1>2. n \in 0 .. Len(Stores) /\ n \in Int /\ 1 \in Int
  <2> HIDE DEF n
  <2> QED BY <1>1, StoreFacts
<1>3. \A i \in 1 .. n : Stores[i] \in names
  BY <1>1, StoreFacts
<1>4. /\ SubSeq(Stores, 1, n) \in Seq(names) /\ Len(SubSeq(Stores, 1, n)) = n
      /\ \A i \in 1 .. n : SubSeq(Stores, 1, n)[i] = Stores[i]
  <2>1. /\ SubSeq(Stores, 1, n) \in Seq(names)
        /\ Len(SubSeq(Stores, 1, n)) = IF 1 <= n THEN n - 1 + 1 ELSE 0
        /\ \A i \in 1 .. n - 1 + 1 : SubSeq(Stores, 1, n)[i] = Stores[1 + i - 1]
    BY <1>2, <1>3, SubSeqProperties
  <2>2. n - 1 + 1 = n /\ \A i \in 1 .. n : 1 + i - 1 = i
    BY <1>1
  <2> HIDE DEF n
  <2> QED BY <1>1, <2>1, <2>2
<1>5. pinged[r] = SubSeq(Stores, 1, n)
  BY <1>1, <1>4, SeqEqual
<1> QED BY <1>2, <1>5

LEMMA TypesFollow == FrontInv => TypeOK
<1> SUFFICES ASSUME FrontInv PROVE TypeOK
  OBVIOUS
<1>1. \A r \in Requests : logged[r] \in Seq(Codes) /\ Len(logged[r]) <= 1
  <2> TAKE r \in Requests
  <2>1. logged[r] \in Seq(Codes) /\ at[r] \in Places \ {"lost"} /\ WrittenInv(r)
    BY DEF FrontInv, ShapesButMetrics, RequestsInv
  <2>2. logged[r] = << >> \/ logged[r] = << sent[r] >>
    BY <2>1 DEF WrittenInv, Places
  <2>3. CASE logged[r] = << >>
    BY <2>1, <2>3
  <2>4. CASE logged[r] = << sent[r] >>
    BY <2>1, <2>4
  <2> QED BY <2>2, <2>3, <2>4
<1>2. gauge \in 0 .. Cardinality(Requests)
  BY SetsAreFinite DEF FrontInv, MetricsInv, GaugeCountsInside
<1>3. DOMAIN delay = {"hive", "trino", "starrocks"}
  BY DEF FrontInv, ShapesButMetrics
<1> QED BY <1>1, <1>2, <1>3, PingedIsPrefix DEF FrontInv, ShapesButMetrics, MetricShapes, TypeOK

LEMMA AnswersFollow ==
  ASSUME FrontInv
  PROVE  LogMatchesAnswer /\ ReadyMeansAnswered /\ AcceptedQueriesNeverPanic /\ ErrorsCarryRequestId
<1>1. LogMatchesAnswer
  BY DEF FrontInv, RequestsInv, WrittenInv, LogMatchesAnswer
<1>2. ReadyMeansAnswered
  <2>1. DOMAIN delay = {"hive", "trino", "starrocks"}
    BY DEF FrontInv, ShapesButMetrics
  <2>2. ASSUME NEW r \in Requests, target[r] = "ready", sent[r] = 200 PROVE AllAnswered
    BY <2>2 DEF FrontInv, RequestsInv, ProbeInv
  <2> QED BY <2>1, <2>2 DEF ReadyMeansAnswered, AllAnswered
<1>3. AcceptedQueriesNeverPanic
  BY DEF FrontInv, ShapesButMetrics, AcceptedQueriesNeverPanic
<1>4. ErrorsCarryRequestId
  BY DEF FrontInv, RequestsInv, WrittenInv, ErrorsCarryRequestId
<1> QED BY <1>1, <1>2, <1>3, <1>4

\* Types; a request has at most one line in the access log, and the gauge is never
\* negative.
THEOREM FrontTypes == Spec => []TypeOK
BY FrontConsistent, TypesFollow, PTL

\* However requests interleave and whichever of them panic, the in-flight gauge is
\* the number of requests inside.
THEOREM GaugeIsExact == Spec => []GaugeCountsInside
<1>1. FrontInv => GaugeCountsInside
  BY DEF FrontInv, MetricsInv
<1> QED BY <1>1, FrontConsistent, PTL

\* Every finished request is counted once, under the status its client received.
THEOREM CountersAreExact == Spec => []CountsMatchAnswers
<1>1. FrontInv => CountsMatchAnswers
  BY DEF FrontInv, MetricsInv
<1> QED BY <1>1, FrontConsistent, PTL

\* The access log tells the status the client received; only a panic has no line.
THEOREM LogIsTrue == Spec => []LogMatchesAnswer
<1>1. FrontInv => LogMatchesAnswer
  BY AnswersFollow
<1> QED BY <1>1, FrontConsistent, PTL

\* A ready answer means that all repositories answered within the one budget,
\* whatever their delays.
THEOREM ReadyIsTrue == Spec => []ReadyMeansAnswered
<1>1. FrontInv => ReadyMeansAnswered
  BY AnswersFollow
<1> QED BY <1>1, FrontConsistent, PTL

\* No accepted query panics in a goroutine of a segment, so no client ends the
\* process.
THEOREM NoRequestIsLost == Spec => []AcceptedQueriesNeverPanic
<1>1. FrontInv => AcceptedQueriesNeverPanic
  BY AnswersFollow
<1> QED BY <1>1, FrontConsistent, PTL

\* Errors carry the request id, those that withRecovery writes with the outer
\* request included.
THEOREM ErrorsAreTraceable == Spec => []ErrorsCarryRequestId
<1>1. FrontInv => ErrorsCarryRequestId
  BY AnswersFollow
<1> QED BY <1>1, FrontConsistent, PTL

-----------------------------------------------------------------------------
(* How far the serial probe is from the parallel one of the design. *)

SlowTogether == delay["hive"] + delay["trino"] + delay["starrocks"] >= Budget

\* A probe that has failed had repositories that are slow together.
LateInv == \A r \in Requests : target[r] = "ready" /\ sent[r] = 503 => SlowTogether

LEMMA DelaysAreTicks ==
  ASSUME Before
  PROVE  /\ delay["hive"] \in Nat /\ delay["trino"] \in Nat /\ delay["starrocks"] \in Nat
         /\ \A s \in {"hive", "trino", "starrocks"} : delay[s] \in Delays \cup {Down}
BY StoreFacts DEF Before, ShapesButMetrics

\* The repositories that have answered used up what the next one misses.
LEMMA FailedProbeIsSlow ==
  ASSUME Before, NEW r \in Requests, PingFailed(r)
  PROVE  SlowTogether
<1> DEFINE n == Len(pinged[r])
           s == Stores[n + 1]
<1>1. n < 3 /\ delay[s] >= Budget - spent[r]
  BY StoreFacts DEF PingFailed, TooLate, Remaining, NextStore
<1>2. n \in Nat /\ ProbeInv(r) /\ spent[r] \in Nat
  BY StoreFacts DEF Before, ShapesButMetrics, RequestsInv
<1>3. n = 0 \/ n = 1 \/ n = 2
  <2> HIDE DEF n
  <2> QED BY <1>1, <1>2
<1>4. CASE n = 0
  <2>1. spent[r] = 0 /\ s = "hive"
    BY <1>2, <1>4, StoreFacts DEF ProbeInv
  <2> QED BY <1>1, <2>1, DelaysAreTicks, StoreFacts DEF SlowTogether
<1>5. CASE n = 1
  <2>1. spent[r] = delay["hive"] /\ s = "trino"
    BY <1>2, <1>5, StoreFacts DEF ProbeInv
  <2> QED BY <1>1, <2>1, DelaysAreTicks, StoreFacts DEF SlowTogether
<1>6. CASE n = 2
  <2>1. spent[r] = delay["hive"] + delay["trino"] /\ s = "starrocks"
    BY <1>2, <1>6, StoreFacts DEF ProbeInv
  <2> QED BY <1>1, <2>1, DelaysAreTicks, StoreFacts DEF SlowTogether
<1> QED BY <1>3, <1>4, <1>5, <1>6

\* Only a failed ping writes 503 for a probe.
LEMMA Only503FromPings ==
  ASSUME Before, NEW r \in Requests, Step(r), target[r] = "ready", sent'[r] = 503
  PROVE  sent[r] = 503 \/ PingFailed(r)
<1>1. sent \in [Requests -> Codes \cup {0}] /\ ProbeInv(r)
  BY DEF Before, ShapesButMetrics, RequestsInv
<1>2. "ready" \in Public /\ "ready" \notin Business
  BY DEF Public, Business
<1>3. ~ Unauthorized(r) /\ ~ RefuseQuery(r)
  BY <1>2 DEF Unauthorized, RefuseQuery, MayPass
<1>4. ~ BusinessAnswer(r)
  BY <1>1, <1>2 DEF BusinessAnswer, Move, ProbeInv
<1>5. ~ NoRoute(r) /\ ~ Static(r) /\ ~ Ready(r) /\ ~ Recover(r)
  BY <1>1 DEF NoRoute, Static, Ready, Recover, Write
<1>6. Enter(r) \/ CallService(r) \/ BeginProbe(r) \/ Panic(r) \/ PingAnswered(r)
        \/ Log(r) \/ Count(r) \/ Leave(r) => sent' = sent
  BY DEF Enter, CallService, BeginProbe, Panic, PingAnswered, Log, Count, Leave, Written
<1> QED BY <1>3, <1>4, <1>5, <1>6 DEF Step

LEMMA LateKept == FrontInv /\ LateInv /\ [Next]_vars => LateInv'
<1> SUFFICES ASSUME FrontInv, LateInv, [Next]_vars PROVE LateInv'
  OBVIOUS
<1>1. Before
  BY DEF Before, FrontInv
<1>2. CASE Next
  <2>1. PICK r \in Requests : Step(r)
    BY <1>2 DEF Next
  <2>2. OthersKeep(r)
    BY <1>1, <2>1, StepKeepsRequest DEF RequestKept
  <2>3. ASSUME NEW q \in Requests, target'[q] = "ready", sent'[q] = 503
        PROVE  SlowTogether
    <3>1. target[q] = "ready"
      BY <2>2, <2>3 DEF OthersKeep, World
    <3>2. CASE q = r
      BY <1>1, <2>1, <2>3, <3>1, <3>2, Only503FromPings, FailedProbeIsSlow DEF LateInv
    <3>3. CASE q # r
      BY <2>2, <2>3, <3>1, <3>3 DEF OthersKeep, LateInv
    <3> QED BY <3>2, <3>3
  <2> QED BY <2>2, <2>3 DEF LateInv, SlowTogether, OthersKeep, World
<1>3. CASE UNCHANGED vars
  BY <1>3 DEF LateInv, SlowTogether, vars
<1> QED BY <1>2, <1>3

\* A probe fails only if the pings together take the whole budget: this is how much
\* readiness.Ping, which pings in turn, may be stricter than a parallel probe.
THEOREM FailedProbesWereSlow == Spec => []LateInv
<1>1. Init => LateInv
  BY DEF Init, LateInv
<1> QED BY <1>1, FrontConsistent, LateKept, PTL DEF Spec

\* Where a third of the budget is more than any answer takes, the probe fails as
\* the design says: only if a repository alone is too slow.
THEOREM QuickStoresProbeAsDesigned ==
  ASSUME \A d \in Delays : 3 * d < Budget
  PROVE  Spec => []ParallelProbe
<1>1. FrontInv /\ LateInv => ParallelProbe
  <2> SUFFICES ASSUME FrontInv, LateInv,
                      NEW r \in Requests, target[r] = "ready", sent[r] = 503
               PROVE  \E s \in DOMAIN delay : delay[s] >= Budget
    BY DEF ParallelProbe
  <2>1. Before
    BY DEF Before, FrontInv
  <2>2. DOMAIN delay = {"hive", "trino", "starrocks"}
    BY <2>1 DEF Before, ShapesButMetrics
  <2>3. SlowTogether
    BY DEF LateInv
  <2>4. PICK s \in {"hive", "trino", "starrocks"} : 3 * delay[s] >= Budget
    BY <2>1, <2>3, DelaysAreTicks, StoreFacts DEF SlowTogether
  <2>5. delay[s] = Down
    BY <2>1, <2>4, DelaysAreTicks, StoreFacts
  <2> QED BY <2>2, <2>5, StoreFacts DEF Down
<1> QED BY <1>1, FrontConsistent, FailedProbesWereSlow, PTL

-----------------------------------------------------------------------------
(* The promise. *)

\* Only those whom withAPIKey lets pass reach code that may break down.
PassedInv ==
  \A r \in Requests : at[r] \in {"querying", "probing", "recovering"} =>
    get[r] /\ (target[r] = "ready" \/ (target[r] \in Business /\ key[r]))

LEMMA PassedKept == FrontInv /\ PassedInv /\ [Next]_vars => PassedInv'
<1> SUFFICES ASSUME FrontInv, PassedInv, [Next]_vars PROVE PassedInv'
  OBVIOUS
<1>1. Before /\ "ready" \notin Business /\ \A t \in Business : t \notin Public
  BY DEF Before, FrontInv, Business, Public
<1>2. CASE Next
  <2>1. PICK r \in Requests : Step(r)
    BY <1>2 DEF Next
  <2>2. OthersKeep(r) /\ at \in [Requests -> Places \ {"lost"}]
    BY <1>1, <2>1, StepKeepsRequest DEF RequestKept, Before, ShapesButMetrics
  <2>3. at'[r] \in {"querying", "probing", "recovering"} =>
          get[r] /\ (target[r] = "ready" \/ (target[r] \in Business /\ key[r]))
    <3>1. CASE CallService(r)
      BY <1>1, <3>1 DEF CallService, MayPass, Routed
    <3>2. CASE BeginProbe(r)
      BY <3>2 DEF BeginProbe, Routed
    <3>3. CASE Panic(r) \/ PingAnswered(r)
      BY <3>3 DEF Panic, PingAnswered, Move, PassedInv
    <3>4. CASE ~ (CallService(r) \/ BeginProbe(r) \/ Panic(r) \/ PingAnswered(r))
      <4>1. at'[r] \in {"checking", "logging", "counting", "leaving", "gone"}
        BY <2>1, <2>2, <3>4 DEF Step, Move, Enter, Unauthorized, NoRoute, Static, RefuseQuery,
                                BusinessAnswer, PingFailed, Ready, Log, Recover, Count, Leave
      <4> QED BY <4>1
    <3> QED BY <3>1, <3>2, <3>3, <3>4
  <2> QED BY <2>2, <2>3 DEF PassedInv, OthersKeep, World
<1>3. CASE UNCHANGED vars
  BY <1>3 DEF PassedInv, vars
<1> QED BY <1>2, <1>3

Stages == [r \in Requests |-> Stage(at[r])]

\* A step of the code moves the request's stage, or leaves it.
LEMMA StageMoves ==
  ASSUME Before, NEW r \in Requests, NEW to \in Places, at' = [at EXCEPT ![r] = to]
  PROVE  /\ Stages[r] = Stage(at[r])
         /\ Stages' = [Stages EXCEPT ![r] = Stage(to)]
         /\ Stage(to) = Stage(at[r]) => Stages' = Stages
<1>1. \A q \in Requests : at'[q] = IF q = r THEN to ELSE at[q]
  BY DEF Before, ShapesButMetrics
<1>2. \A q \in Requests : Stages'[q] = IF q = r THEN Stage(to) ELSE Stages[q]
  BY <1>1 DEF Stages, Stage
<1>3. Stages = [q \in Requests |-> Stages[q]] /\ Stages' = [q \in Requests |-> Stages'[q]]
  BY DEF Stages
<1> QED BY <1>2, <1>3 DEF Stages

LEMMA StagesOfPlaces ==
  /\ Stage("outside") = "new" /\ Stage("checking") = "open" /\ Stage("querying") = "open"
  /\ Stage("probing") = "open" /\ Stage("recovering") = "open" /\ Stage("logging") = "answered"
  /\ Stage("counting") = "told" /\ Stage("leaving") = "counted" /\ Stage("gone") = "gone"
  /\ {"outside", "checking", "querying", "probing", "recovering", "logging", "counting",
      "leaving", "gone"} \subseteq Places
BY DEF Stage, Places

\* Every handler's answer fits the request.
LEMMA AnswersFit ==
  ASSUME Before, PassedInv, NEW r \in Requests,
         \/ Unauthorized(r) \/ NoRoute(r) \/ Static(r) \/ RefuseQuery(r)
         \/ BusinessAnswer(r) \/ PingFailed(r) \/ Ready(r)
  PROVE  \E status \in Promise!Fitting(r) : Write(r, status)
<1> USE DEF Promise!Fitting
<1>1. /\ "ready" \in Public /\ "unknown" \notin Public \cup Business
      /\ target[r] \in Public \cup Business \cup {"unknown"}
      /\ \A t \in Business : t \notin Public /\ t # "ready"
  BY DEF Public, Business, Targets, Before, ShapesButMetrics
<1>2. CASE Unauthorized(r)
  BY <1>2 DEF Unauthorized, MayPass
<1>3. CASE NoRoute(r)
  BY <1>1, <1>3 DEF NoRoute, MayPass, Routed
<1>4. CASE Static(r)
  BY <1>4 DEF Static, Routed, Public
<1>5. CASE RefuseQuery(r)
  BY <1>1, <1>5 DEF RefuseQuery, MayPass, Routed
<1>6. CASE BusinessAnswer(r)
  <2>1. target[r] \in Business /\ key[r] /\ get[r]
    BY <1>1, <1>6 DEF BusinessAnswer, Move, PassedInv, Before, RequestsInv, ProbeInv
  <2>2. \A e \in {"nil"} \cup ErrorKinds : HttpStatus(e) \in {200, 400, 500, 503, 504}
    BY DEF HttpStatus
  <2> QED BY <1>1, <1>6, <2>1, <2>2 DEF BusinessAnswer
<1>7. CASE PingFailed(r) \/ Ready(r)
  <2>1. target[r] = "ready" /\ get[r]
    BY <1>7 DEF PingFailed, Ready, Move, Before, RequestsInv, ProbeInv, PassedInv
  <2> QED BY <1>1, <1>7, <2>1 DEF PingFailed, Ready
<1> QED BY <1>2, <1>3, <1>4, <1>5, <1>6, <1>7

LEMMA StepKeepsPromise ==
  ASSUME Before, PassedInv, NEW r \in Requests, Step(r)
  PROVE  Promise!Next \/ UNCHANGED Promise!vars
<1> USE DEF Promise!vars, Promise!Move
<1>1. at[r] \in Places /\ WrittenInv(r) /\ sent \in [Requests -> Codes \cup {0}]
      /\ logged[r] \in Seq(Codes)
  BY DEF Before, ShapesButMetrics, RequestsInv
<1>2. CASE Enter(r)
  <2>1. Promise!Admit(r)
    BY <1>2, StageMoves, StagesOfPlaces DEF Enter, Move, Promise!Admit, World, Written, Stages
  <2> QED BY <2>1 DEF Promise!Next
<1>3. CASE \/ Unauthorized(r) \/ NoRoute(r) \/ Static(r) \/ RefuseQuery(r)
           \/ BusinessAnswer(r) \/ PingFailed(r) \/ Ready(r)
  <2>1. /\ at[r] \in {"checking", "querying", "probing"} /\ at' = [at EXCEPT ![r] = "logging"]
        /\ UNCHANGED << World, logged, Metrics >>
    BY <1>3 DEF Unauthorized, NoRoute, Static, RefuseQuery, BusinessAnswer, PingFailed, Ready, Move
  <2>2. \E status \in Promise!Fitting(r) : sent' = [sent EXCEPT ![r] = status]
    BY <1>3, AnswersFit DEF Write
  <2>3. Stages[r] = "open" /\ Stages' = [Stages EXCEPT ![r] = "answered"]
    <3>1. Stage(at[r]) = "open" /\ Stage("logging") = "answered" /\ "logging" \in Places
      BY <2>1, StagesOfPlaces
    <3>2. Stages[r] = Stage(at[r]) /\ Stages' = [Stages EXCEPT ![r] = Stage("logging")]
      BY <2>1, <3>1, StageMoves
    <3> QED BY <3>1, <3>2
  <2>4. Promise!Answer(r)
    BY <2>1, <2>2, <2>3 DEF Promise!Answer, World, Metrics, Stages
  <2> QED BY <2>4 DEF Promise!Next
<1>4. CASE CallService(r) \/ BeginProbe(r) \/ Panic(r)
  <2>1. PICK to \in {"querying", "probing", "recovering"} :
          /\ at[r] \in {"checking", "querying", "probing"} /\ at' = [at EXCEPT ![r] = to]
          /\ UNCHANGED << World, Written, logged, Metrics >>
    BY <1>4, AcceptedAreSafe DEF CallService, BeginProbe, Panic, Move
  <2>2. Stages' = Stages
    <3>1. Stage(at[r]) = "open" /\ Stage(to) = "open" /\ to \in Places
      BY <2>1, StagesOfPlaces
    <3> QED BY <2>1, <3>1, StageMoves
  <2> QED BY <2>1, <2>2 DEF World, Written, Metrics, Stages
<1>5. CASE PingAnswered(r)
  BY <1>5 DEF PingAnswered, World, Written, Metrics, Stages
<1>6. CASE Log(r)
  <2>1. /\ at[r] = "logging" /\ at' = [at EXCEPT ![r] = "counting"]
        /\ logged' = [logged EXCEPT ![r] = Append(logged[r], seen[r])]
        /\ UNCHANGED << World, Written, Metrics >>
    BY <1>6 DEF Log, Move
  <2>2. Append(logged[r], seen[r]) = << sent[r] >>
    <3>1. logged[r] = << >> /\ seen[r] = sent[r]
      BY <1>1, <2>1 DEF WrittenInv
    <3>2. Append(<< >>, sent[r]) = << sent[r] >>
      OBVIOUS
    <3> QED BY <3>1, <3>2
  <2>3. Stages[r] = "answered" /\ Stages' = [Stages EXCEPT ![r] = "told"]
    <3>1. Stage(at[r]) = "answered" /\ Stage("counting") = "told" /\ "counting" \in Places
      BY <2>1, StagesOfPlaces
    <3>2. Stages[r] = Stage(at[r]) /\ Stages' = [Stages EXCEPT ![r] = Stage("counting")]
      BY <2>1, <3>1, StageMoves
    <3> QED BY <3>1, <3>2
  <2>4. Promise!Tell(r)
    BY <2>1, <2>2, <2>3 DEF Promise!Tell, World, Written, Metrics, Stages
  <2> QED BY <2>4 DEF Promise!Next
<1>7. CASE Recover(r)
  <2>1. /\ at[r] = "recovering" /\ at' = [at EXCEPT ![r] = "counting"]
        /\ sent' = [sent EXCEPT ![r] = 500] /\ UNCHANGED << World, logged, Metrics >>
    BY <1>7 DEF Recover, Move
  <2>2. Stages[r] = "open" /\ Stages' = [Stages EXCEPT ![r] = "told"]
    <3>1. Stage(at[r]) = "open" /\ Stage("counting") = "told" /\ "counting" \in Places
      BY <2>1, StagesOfPlaces
    <3>2. Stages[r] = Stage(at[r]) /\ Stages' = [Stages EXCEPT ![r] = Stage("counting")]
      BY <2>1, <3>1, StageMoves
    <3> QED BY <3>1, <3>2
  <2>3. get[r] /\ (target[r] = "ready" \/ (target[r] \in Business /\ key[r]))
    BY <2>1 DEF PassedInv
  <2>4. Promise!BreakDown(r)
    BY <2>1, <2>2, <2>3 DEF Promise!BreakDown, World, Metrics, Stages
  <2> QED BY <2>4 DEF Promise!Next
<1>8. CASE Count(r)
  <2>1. /\ at[r] = "counting" /\ at' = [at EXCEPT ![r] = "leaving"]
        /\ total' = [total EXCEPT ![target[r]][recorded[r]] = @ + 1]
        /\ UNCHANGED << World, Written, logged, gauge >>
    BY <1>8 DEF Count, Move
  <2>2. recorded[r] = sent[r]
    BY <1>1, <2>1 DEF WrittenInv
  <2>3. Stages[r] = "told" /\ Stages' = [Stages EXCEPT ![r] = "counted"]
    <3>1. Stage(at[r]) = "told" /\ Stage("leaving") = "counted" /\ "leaving" \in Places
      BY <2>1, StagesOfPlaces
    <3>2. Stages[r] = Stage(at[r]) /\ Stages' = [Stages EXCEPT ![r] = Stage("leaving")]
      BY <2>1, <3>1, StageMoves
    <3> QED BY <3>1, <3>2
  <2>4. Promise!Count(r)
    BY <2>1, <2>2, <2>3 DEF Promise!Count, World, Written, Stages
  <2> QED BY <2>4 DEF Promise!Next
<1>9. CASE Leave(r)
  <2>1. Promise!Release(r)
    BY <1>9, StageMoves, StagesOfPlaces DEF Leave, Move, Promise!Release, World, Written, Stages
  <2> QED BY <2>1 DEF Promise!Next
<1> QED BY <1>2, <1>3, <1>4, <1>5, <1>6, <1>7, <1>8, <1>9 DEF Step

\* Recorders, panics, recovery and the serial probe, of requests in any order,
\* implement the layer's promise: one fitting answer, told and counted as given.
THEOREM FrontKeepsPromise == Spec => KeepsRequestPromise
<1>1. Init => Promise!Init
  <2> SUFFICES ASSUME Init PROVE Promise!Init
    OBVIOUS
  <2>1. Stages = [r \in Requests |-> "new"]
    BY StagesOfPlaces DEF Init, Stages
  <2> QED BY <2>1 DEF Init, Promise!Init, Stages
<1>2. Init => PassedInv
  BY DEF Init, PassedInv
<1>3. FrontInv /\ PassedInv /\ [Next]_vars => [Promise!Next]_(Promise!vars)
  <2> SUFFICES ASSUME FrontInv, PassedInv, [Next]_vars
               PROVE  Promise!Next \/ UNCHANGED Promise!vars
    OBVIOUS
  <2>1. CASE Next
    BY <2>1, StepKeepsPromise DEF FrontInv, Before, Next
  <2>2. CASE UNCHANGED vars
    BY <2>2 DEF vars, Promise!vars
  <2> QED BY <2>1, <2>2
<1> QED BY <1>1, <1>2, <1>3, PassedKept, FrontConsistent, PTL DEF Spec, KeepsRequestPromise, Promise!Spec

===============================================================================
