----------------------------- MODULE QueryPromise -----------------------------
(***************************************************************************)
(* What a business query promises its caller, without goroutines, contexts *)
(* or segments: one answer per call; data that counts every requested day  *)
(* once when the caller left the choice of the store to the service; else  *)
(* no data and an error whose cause really happened to this call.          *)
(***************************************************************************)
EXTENDS Planning, Errors

CONSTANTS Requests, Queries

VARIABLES
  query,    \* what each call asks for
  state,    \* "pending" or "answered"
  causes,   \* what went wrong so far, per call
  reply     \* [err, days]: the error, the days the data counts exactly once

promiseVars == << query, state, causes, reply >>

\* What can go wrong outside the service: the caller leaves, the time is over,
\* a store fails, a store or a source does not exist.
Causes == {"canceled", "deadline", "unavailable", "invalid"}

Reply(e, days) == [err |-> e, days |-> days]

Init ==
  /\ query \in [Requests -> Queries]
  /\ state = [r \in Requests |-> "pending"]
  /\ causes = [r \in Requests |-> {}]
  /\ reply = [r \in Requests |-> Reply("nil", {})]

\* Something goes wrong while the call is pending.
Suffer(r) ==
  /\ state[r] = "pending"
  /\ \E c \in Causes : causes' = [causes EXCEPT ![r] = @ \cup {c}]
  /\ UNCHANGED << query, state, reply >>

Finish(r, result) ==
  /\ state[r] = "pending"
  /\ state' = [state EXCEPT ![r] = "answered"]
  /\ reply' = [reply EXCEPT ![r] = result]

\* All of the range, or, from a store the caller chose, what that store has.
Succeed(r) ==
  /\ \E days \in SUBSET DaysOf(query[r].range) :
       /\ query[r].source = "auto" => days = DaysOf(query[r].range)
       /\ Finish(r, Reply("nil", days))
  /\ UNCHANGED << query, causes >>

\* An error that has its cause, or a total that is no 64-bit integer.
Fail(r) ==
  /\ \E e \in causes[r] \cup {"overflow"} : Finish(r, Reply(e, {}))
  /\ UNCHANGED << query, causes >>

\* The source is not one that can be asked for.
Refuse(r) ==
  /\ query[r].source \notin Sources \cup {"auto"}
  /\ Finish(r, Reply("invalid", {}))
  /\ causes' = [causes EXCEPT ![r] = @ \cup {"invalid"}]
  /\ UNCHANGED query

Next == \E r \in Requests : Suffer(r) \/ Succeed(r) \/ Fail(r) \/ Refuse(r)

PromiseSpec == Init /\ [][Next]_promiseVars

===============================================================================
