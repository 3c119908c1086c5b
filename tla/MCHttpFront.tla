------------------------------ MODULE MCHttpFront ------------------------------
(***************************************************************************)
(* HttpFront with two requests: one may be a probe while the other counts. *)
(* With a budget of two ticks each store alone answers in time or is down, *)
(* and three slow stores together use it up.                               *)
(***************************************************************************)
EXTENDS HttpFront, TLC

\* Requests differ in nothing but their names, in the specification as in the
\* properties, which are all safety.
Symmetry == Permutations(Requests)
===============================================================================
