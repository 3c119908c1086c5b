----------------------------- MODULE ProcessPromise -----------------------------
(***************************************************************************)
(* What the process promises to whoever starts it and to its clients,      *)
(* without databases, goroutines or timers: nobody is served before the    *)
(* stores have been checked and while nothing has failed; once it stops,   *)
(* nobody is taken any more; it reports success if and only if nothing has *)
(* failed, so only if it was asked to stop and has answered everybody it   *)
(* took; and a client meets a closed database only in a process that goes  *)
(* on to report a failure.                                                 *)
(***************************************************************************)

CONSTANT Conns

VARIABLES
  life,     \* "starting", "serving", "stopping", "closing" or "exited"
  checked,  \* every store has been checked, or there is none
  asked,    \* a signal arrived
  clean,    \* nothing has failed
  status,   \* the exit status: "none" as yet, "success" or "failure"
  conn,     \* each connection: "none", "active" or "answered"
  harmed    \* the clients that met a closed database

vars == << life, checked, asked, clean, status, conn, harmed >>

Init ==
  /\ life = "starting"
  /\ checked \in BOOLEAN
  /\ asked = FALSE
  /\ clean = TRUE
  /\ status = "none"
  /\ conn = [c \in Conns |-> "none"]
  /\ harmed = {}

Clients == << conn, harmed >>

\* The process goes on, all right or because of a failure.
Go(from, to, ok) ==
  /\ life = from /\ life' = to
  /\ clean' = (clean /\ ok)
  /\ UNCHANGED << checked, asked, status, Clients >>

Check ==
  /\ life = "starting"
  /\ checked' = TRUE
  /\ UNCHANGED << life, asked, clean, status, Clients >>

Ask ==
  /\ life # "exited"
  /\ asked' = TRUE
  /\ UNCHANGED << life, checked, clean, status, Clients >>

Serve == checked /\ clean /\ Go("starting", "serving", TRUE)

GiveUpStarting == Go("starting", "closing", FALSE)

Stop == asked /\ Go("serving", "stopping", TRUE)

Break == Go("serving", "closing", FALSE)

Drained == (\A c \in Conns : conn[c] # "active") /\ Go("stopping", "closing", TRUE)

OutOfTime == Go("stopping", "closing", FALSE)

\* A store that is checked, the server that serves or a store that is closed fails
\* beside the process's own course, which may hear of it later.
Fail ==
  /\ life \in {"starting", "serving", "closing"}
  /\ clean' = FALSE
  /\ UNCHANGED << life, checked, asked, status, Clients >>

\* No failure is lost on the way to the exit status, and none is made up.
Exit ==
  /\ life = "closing" /\ life' = "exited"
  /\ status' = IF clean THEN "success" ELSE "failure"
  /\ UNCHANGED << checked, asked, clean, Clients >>

Take(c) ==
  /\ life = "serving" /\ conn[c] = "none"
  /\ conn' = [conn EXCEPT ![c] = "active"]
  /\ UNCHANGED << life, checked, asked, clean, status, harmed >>

Answer(c) ==
  /\ life # "exited" /\ conn[c] = "active"
  /\ conn' = [conn EXCEPT ![c] = "answered"]
  /\ UNCHANGED << life, checked, asked, clean, status, harmed >>

Harm(c) ==
  /\ life = "closing" /\ ~ clean /\ conn[c] = "active"
  /\ harmed' = harmed \cup {c}
  /\ UNCHANGED << life, checked, asked, clean, status, conn >>

Next ==
  \/ Check \/ Ask \/ Serve \/ GiveUpStarting \/ Stop \/ Break
  \/ Drained \/ OutOfTime \/ Fail \/ Exit
  \/ \E c \in Conns : Take(c) \/ Answer(c) \/ Harm(c)

Spec == Init /\ [][Next]_vars

===============================================================================
