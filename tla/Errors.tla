-------------------------------- MODULE Errors --------------------------------
(***************************************************************************)
(* The error values that travel from a repository to the HTTP response and *)
(* the three places that classify them.  An error is named by the sentinel *)
(* errors.Is finds in its chain; "nil" is the absence of an error.  The    *)
(* wrapping the code adds with fmt.Errorf("...: %w", err) keeps the        *)
(* sentinel, so it is not represented.                                     *)
(***************************************************************************)

\* domain/errors.go
DomainErrors == {"invalid", "unavailable", "overflow"}

\* context.Canceled and context.DeadlineExceeded
ContextErrors == {"canceled", "deadline"}

ErrorKinds == DomainErrors \cup ContextErrors

\* Fault: the driver's error is passed on as it is.
RawErr(e) == e

\* sqlrepo wrapErr: a context error goes through as it is, whoever produced
\* it; every other error of the driver becomes ErrDependencyUnavailable.
WrapErr(e) == IF e \in ContextErrors \cup {"nil"} THEN e ELSE "unavailable"

\* The "status" label of data_query_total.
Statuses == {"success", "timeout", "cancelled", "error"}

QueryStatus(e) ==
  CASE e = "nil"      -> "success"
    [] e = "deadline" -> "timeout"
    [] e = "canceled" -> "cancelled"
    [] OTHER          -> "error"

\* The HTTP status of the answer that reports the error e; a request without
\* an error is answered by writeJSON with 200.
HttpStatus(e) ==
  CASE e = "nil"         -> 200
    [] e = "invalid"     -> 400
    [] e = "unavailable" -> 503
    [] e = "deadline"    -> 504
    [] OTHER             -> 500

===============================================================================
