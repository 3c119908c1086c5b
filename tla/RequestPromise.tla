----------------------------- MODULE RequestPromise -----------------------------
(***************************************************************************)
(* What the HTTP layer promises of a request, without handlers, recorders, *)
(* panics or probes: one answer, of those that fit what was asked and who  *)
(* asks, is given once and never changed; the access log has one line with *)
(* that answer, or none if the request broke down; the answer is counted   *)
(* once; and the request is in flight until then.                          *)
(***************************************************************************)
EXTENDS Integers

CONSTANTS Requests, Business, Public

VARIABLES
  target,    \* what each request asks for
  get,       \* whether it asks in a way the paths know
  key,       \* whether it has the key
  stage,     \* "new", "open", "answered", "told", "counted" or "gone"
  answer,    \* the status it got, 0 before
  line,      \* the statuses of its lines in the access log
  inFlight,  \* how many requests are open or being finished
  counts     \* the finished ones by what they asked for and what they got

vars == << target, get, key, stage, answer, line, inFlight, counts >>

\* The answers that fit: nothing but 401 without the key, unless the path is public.
Fitting(r) ==
  IF target[r] \notin Public /\ ~ key[r] THEN {401}
  ELSE IF target[r] \notin Public \cup Business THEN {404}
  ELSE IF ~ get[r] THEN {405}
  ELSE IF target[r] = "ready" THEN {200, 503}
  ELSE IF target[r] \in Public THEN {200}
  ELSE {200, 400, 500, 503, 504}

Init ==
  /\ get \in [Requests -> BOOLEAN] /\ key \in [Requests -> BOOLEAN]
  /\ stage = [r \in Requests |-> "new"]
  /\ answer = [r \in Requests |-> 0]
  /\ line = [r \in Requests |-> << >>]
  /\ inFlight = 0
  /\ \A t \in DOMAIN counts : \A c \in DOMAIN counts[t] : counts[t][c] = 0

Move(r, from, to) ==
  /\ stage[r] = from
  /\ stage' = [stage EXCEPT ![r] = to]
  /\ UNCHANGED << target, get, key >>

Admit(r) ==
  /\ Move(r, "new", "open")
  /\ inFlight' = inFlight + 1
  /\ UNCHANGED << answer, line, counts >>

Answer(r) ==
  /\ Move(r, "open", "answered")
  /\ \E status \in Fitting(r) : answer' = [answer EXCEPT ![r] = status]
  /\ UNCHANGED << line, inFlight, counts >>

Tell(r) ==
  /\ Move(r, "answered", "told")
  /\ line' = [line EXCEPT ![r] = << answer[r] >>]
  /\ UNCHANGED << answer, inFlight, counts >>

\* A request of whoever may ask for it breaks down in code that can fail.
BreakDown(r) ==
  /\ Move(r, "open", "told")
  /\ get[r] /\ (target[r] = "ready" \/ (target[r] \in Business /\ key[r]))
  /\ answer' = [answer EXCEPT ![r] = 500]
  /\ UNCHANGED << line, inFlight, counts >>

Count(r) ==
  /\ Move(r, "told", "counted")
  /\ counts' = [counts EXCEPT ![target[r]][answer[r]] = @ + 1]
  /\ UNCHANGED << answer, line, inFlight >>

Release(r) ==
  /\ Move(r, "counted", "gone")
  /\ inFlight' = inFlight - 1
  /\ UNCHANGED << answer, line, counts >>

Next ==
  \E r \in Requests :
    Admit(r) \/ Answer(r) \/ Tell(r) \/ BreakDown(r) \/ Count(r) \/ Release(r)

Spec == Init /\ [][Next]_vars

===============================================================================
