------------------------------ MODULE PoolsProofs ------------------------------
(***************************************************************************)
(* Proofs about Pools, for any number of clients, stores and connections.  *)
(***************************************************************************)
EXTENDS Pools, FiniteSetTheorems, TLAPS

Active(c, s) == use[c][s] \in {"waiting", "holding"}

Shapes ==
  /\ phase \in [Clients -> {"new", "running", "answered"}]
  /\ need \in [Clients -> SUBSET Stores]
  /\ use \in [Clients -> [Stores -> {"off", "waiting", "holding", "done"}]]
  /\ ctx \in [Clients -> {"live"} \cup ContextErrors]
  /\ err \in [Clients -> {"nil", "unavailable"} \cup ContextErrors]
  /\ status \in [Clients -> {0, 200, 500, 503, 504}]
  /\ inUse \in [Stores -> Int]
  /\ trouble \in [Clients -> SUBSET ({"unavailable"} \cup ContextErrors)]

\* Only a running request waits for a connection or holds one: a call for a store
\* of its plan, a probe for one store at a time, and no longer after an error.
UsesInv ==
  /\ \A c \in Clients : phase[c] = "new" => err[c] = "nil"
  /\ \A c \in Clients, s \in Stores : Active(c, s) => phase[c] = "running"
  /\ \A c \in Calls, s \in Stores : Active(c, s) => s \in need[c]
  /\ \A c \in Probes, s \in Stores : Active(c, s) => err[c] = "nil"
  /\ \A c \in Probes : \A i, j \in DOMAIN Order :
       i < j /\ use[c][Order[j]] # "off" => use[c][Order[i]] = "done"

AccountsInv ==
  \A s \in Stores : /\ IsFiniteSet(Holders(s))
                    /\ inUse[s] = Cardinality(Holders(s))
                    /\ inUse[s] <= MaxOpen[s]

\* Every error that says something of the outside has happened outside.
TroubleInv ==
  /\ \A c \in Clients : /\ ctx[c] = "deadline" => "deadline" \in trouble[c]
                        /\ err[c] \in {"deadline", "unavailable"} => err[c] \in trouble[c]
  /\ BusyIsNotUnavailable

PInv == Shapes /\ UsesInv /\ AccountsInv /\ TroubleInv

-----------------------------------------------------------------------------

LEMMA ErrorFacts ==
  /\ ContextErrors = {"canceled", "deadline"}
  /\ WrapErr("driver") = "unavailable"
  /\ \A e \in ContextErrors : WrapErr(e) = e
  /\ HttpStatus("nil") = 200 /\ HttpStatus("unavailable") = 503
  /\ HttpStatus("deadline") = 504 /\ HttpStatus("canceled") = 500
BY DEF ContextErrors, WrapErr, HttpStatus

LEMMA ClientFacts ==
  /\ Calls \subseteq Clients /\ Probes \subseteq Clients
  /\ \A c \in Clients : c \in Calls \/ c \in Probes
  /\ \A s \in Stores : MaxOpen[s] \in Nat /\ MaxOpen[s] >= 1
  /\ \A s \in Stores : \E i \in DOMAIN Order : s = Order[i]
  /\ \A i \in DOMAIN Order : Order[i] \in Stores
  /\ \A i, j \in DOMAIN Order : Order[i] = Order[j] => i = j
  /\ DOMAIN Order = 1 .. Len(Order) /\ Len(Order) \in Nat
BY PoolsAssumption DEF Clients, Stores

\* What a step changes of the clients it is not about.
LEMMA AccountsKept ==
  ASSUME AccountsInv, inUse' = inUse,
         \A c \in Clients, s \in Stores : use'[c][s] = "holding" <=> use[c][s] = "holding"
  PROVE  AccountsInv'
<1>1. \A s \in Stores : Holders(s)' = Holders(s)
  BY DEF Holders
<1> QED BY <1>1 DEF AccountsInv

LEMMA InitInv == Init => PInv
<1> SUFFICES ASSUME Init PROVE PInv
  OBVIOUS
<1>1. \A s \in Stores : Holders(s) = {}
  BY DEF Init, Holders
<1>2. AccountsInv
  <2>1. IsFiniteSet({}) /\ Cardinality({}) = 0
    BY FS_EmptySet
  <2>2. \A s \in Stores : inUse[s] = 0 /\ 0 <= MaxOpen[s]
    BY ClientFacts DEF Init
  <2> QED BY <1>1, <2>1, <2>2 DEF AccountsInv
<1>3. Shapes /\ UsesInv /\ TroubleInv
  BY ClientFacts DEF Init, Shapes, UsesInv, TroubleInv, Active, BusyIsNotUnavailable
<1> QED BY <1>2, <1>3 DEF PInv

LEMMA BeginStep ==
  ASSUME PInv, NEW c \in Clients, BeginCall(c) \/ BeginProbe(c)
  PROVE  PInv'
<1>1. PICK n, first :
        /\ n \in SUBSET Stores
        /\ Begin(c, n, first)
        /\ c \in Calls => first = n
        /\ c \in Probes => first = {Order[1]}
  BY PoolsAssumption DEF BeginCall, BeginProbe
<1>2. /\ n \in SUBSET Stores
      /\ phase[c] = "new" /\ phase' = [phase EXCEPT ![c] = "running"]
      /\ need' = [need EXCEPT ![c] = n]
      /\ use' = [use EXCEPT ![c] = [s \in Stores |-> IF s \in first THEN "waiting" ELSE "off"]]
      /\ UNCHANGED << ctx, err, status, inUse, trouble >>
  BY <1>1 DEF Begin
<1>3. Shapes'
  BY <1>2 DEF PInv, Shapes
<1>4. /\ \A s \in Stores : use'[c][s] = IF s \in first THEN "waiting" ELSE "off"
      /\ \A d \in Clients : d # c => use'[d] = use[d] /\ phase'[d] = phase[d] /\ need'[d] = need[d]
      /\ phase'[c] = "running" /\ need'[c] = n
  BY <1>2 DEF PInv, Shapes
<1>5. \A s \in Stores : ~ Active(c, s)
  BY <1>2 DEF PInv, UsesInv
<1>6. UsesInv'
  <2>1. \A i, j \in DOMAIN Order : i < j /\ c \in Probes => use'[c][Order[j]] = "off"
    <3>1. \A i, j \in DOMAIN Order : i < j => j # 1 /\ 1 \in DOMAIN Order
      BY ClientFacts
    <3> QED BY <1>1, <1>4, <3>1, ClientFacts
  <2>2. \A d \in Clients : phase'[d] = "new" => err'[d] = "nil"
    BY <1>2, <1>4 DEF PInv, UsesInv
  <2>3. \A d \in Clients, s \in Stores : Active(d, s)' => phase'[d] = "running"
    BY <1>4 DEF PInv, UsesInv, Active
  <2>4. \A d \in Calls, s \in Stores : Active(d, s)' => s \in need'[d]
    BY <1>1, <1>4, ClientFacts DEF PInv, UsesInv, Active
  <2>5. \A d \in Probes, s \in Stores : Active(d, s)' => err'[d] = "nil"
    BY <1>2, <1>4, ClientFacts DEF PInv, UsesInv, Active
  <2>6. \A d \in Probes : \A i, j \in DOMAIN Order :
          i < j /\ use'[d][Order[j]] # "off" => use'[d][Order[i]] = "done"
    BY <1>4, <2>1, ClientFacts DEF PInv, UsesInv
  <2> QED BY <2>2, <2>3, <2>4, <2>5, <2>6 DEF UsesInv
<1>7. AccountsInv'
  <2>1. \A d \in Clients, s \in Stores : use'[d][s] = "holding" <=> use[d][s] = "holding"
    BY <1>4, <1>5 DEF Active
  <2> QED BY <1>2, <2>1, AccountsKept DEF PInv
<1>8. TroubleInv'
  BY <1>2 DEF PInv, TroubleInv, BusyIsNotUnavailable
<1> QED BY <1>3, <1>6, <1>7, <1>8 DEF PInv

LEMMA AcquireStep ==
  ASSUME PInv, NEW c \in Clients, NEW s \in Stores, Acquire(c, s)
  PROVE  PInv'
<1>1. /\ use[c][s] = "waiting" /\ inUse[s] < MaxOpen[s]
      /\ use' = [use EXCEPT ![c][s] = "holding"]
      /\ inUse' = [inUse EXCEPT ![s] = @ + 1]
      /\ UNCHANGED << phase, need, ctx, err, status, trouble >>
  BY ClientFacts DEF Acquire, Full, PoolOf, PInv, Shapes
<1>2. /\ Shapes' /\ use'[c][s] = "holding"
      /\ \A d \in Clients, t \in Stores : d # c \/ t # s => use'[d][t] = use[d][t]
  BY <1>1 DEF PInv, Shapes
<1>3. UsesInv'
  BY <1>1, <1>2, ClientFacts DEF PInv, UsesInv, Active
<1>4. AccountsInv'
  <2>1. Holders(s)' = Holders(s) \cup {c} /\ c \notin Holders(s)
    BY <1>1, <1>2 DEF Holders
  <2>2. \A t \in Stores : t # s => Holders(t)' = Holders(t)
    BY <1>2 DEF Holders
  <2>3. IsFiniteSet(Holders(s)') /\ Cardinality(Holders(s)') = Cardinality(Holders(s)) + 1
    BY <2>1, FS_AddElement DEF PInv, AccountsInv
  <2>4. inUse'[s] = inUse[s] + 1 /\ \A t \in Stores : t # s => inUse'[t] = inUse[t]
    BY <1>1 DEF PInv, Shapes
  <2>5. inUse[s] + 1 <= MaxOpen[s]
    BY <1>1, ClientFacts DEF PInv, Shapes
  <2> QED BY <2>2, <2>3, <2>4, <2>5 DEF PInv, AccountsInv
<1>5. TroubleInv'
  BY <1>1 DEF PInv, TroubleInv, BusyIsNotUnavailable
<1> QED BY <1>2, <1>3, <1>4, <1>5 DEF PInv

\* The use of s by c ends with e, for which there is a cause.
LEMMA EndsStep ==
  ASSUME PInv, NEW c \in Clients, NEW s \in Stores, NEW e, Active(c, s), Ends(c, s, e),
         e \in {"nil", "unavailable"} \cup ContextErrors,
         trouble' \in [Clients -> SUBSET ({"unavailable"} \cup ContextErrors)],
         \A d \in Clients : trouble[d] \subseteq trouble'[d],
         e \in {"unavailable", "deadline"} => e \in trouble'[c]
  PROVE  PInv'
<1>1. /\ use' = [use EXCEPT ![c][s] = "done"]
      /\ inUse' = GivenBack(c, s)
      /\ err' = [err EXCEPT ![c] = IF @ = "nil" THEN e ELSE @]
      /\ ctx' = [ctx EXCEPT ![c] = IF e # "nil" /\ @ = "live" THEN "canceled" ELSE @]
      /\ UNCHANGED << phase, need, status >>
  BY DEF Ends
<1>2. /\ GivenBack(c, s) \in [Stores -> Int]
      /\ use[c][s] = "holding" => /\ GivenBack(c, s)[s] = inUse[s] - 1
                                  /\ \A t \in Stores : t # s => GivenBack(c, s)[t] = inUse[t]
      /\ use[c][s] # "holding" => GivenBack(c, s) = inUse
  BY DEF GivenBack, PoolOf, PInv, Shapes
<1>3. Shapes'
  BY <1>1, <1>2, ErrorFacts DEF PInv, Shapes
<1>4. /\ use'[c][s] = "done"
      /\ \A d \in Clients, t \in Stores : d # c \/ t # s => use'[d][t] = use[d][t]
      /\ \A d \in Clients : d # c => err'[d] = err[d]
      /\ phase[c] = "running"
  BY <1>1 DEF PInv, Shapes, UsesInv
<1>5. UsesInv'
  <2>1. ASSUME c \in Probes, NEW t \in Stores, t # s PROVE ~ Active(c, t)
    <3> PICK i \in DOMAIN Order : s = Order[i]
      BY ClientFacts
    <3> PICK j \in DOMAIN Order : t = Order[j]
      BY ClientFacts
    <3>1. i < j \/ j < i
      BY <2>1, ClientFacts
    <3> QED BY <2>1, <3>1 DEF PInv, UsesInv, Active
  <2>2. \A d \in Clients, t \in Stores : Active(d, t)' => Active(d, t) /\ (d # c \/ t # s)
    BY <1>4 DEF Active
  <2>3. \A d \in Probes, t \in Stores : Active(d, t)' => d # c
    BY <2>1, <2>2, ClientFacts
  <2>4. \A d \in Probes : \A i, j \in DOMAIN Order :
          i < j /\ use'[d][Order[j]] # "off" => use'[d][Order[i]] = "done"
    BY <1>4, ClientFacts DEF PInv, UsesInv, Active
  <2> QED BY <1>1, <1>4, <2>2, <2>3, <2>4, ClientFacts DEF PInv, UsesInv
<1>6. AccountsInv'
  <2>1. \A t \in Stores : t # s => Holders(t)' = Holders(t)
    BY <1>4 DEF Holders
  <2>2. CASE use[c][s] = "holding"
    <3>1. Holders(s)' = Holders(s) \ {c} /\ c \in Holders(s)
      BY <1>4, <2>2 DEF Holders
    <3>2. IsFiniteSet(Holders(s)') /\ Cardinality(Holders(s)') = Cardinality(Holders(s)) - 1
      BY <3>1, FS_RemoveElement DEF PInv, AccountsInv
    <3>3. inUse'[s] = inUse[s] - 1 /\ \A t \in Stores : t # s => inUse'[t] = inUse[t]
      BY <1>1, <1>2, <2>2
    <3>4. inUse[s] - 1 <= MaxOpen[s]
      BY ClientFacts DEF PInv, AccountsInv, Shapes
    <3> QED BY <2>1, <3>2, <3>3, <3>4 DEF PInv, AccountsInv
  <2>3. CASE use[c][s] # "holding"
    <3>1. \A d \in Clients, t \in Stores : use'[d][t] = "holding" <=> use[d][t] = "holding"
      BY <1>4, <2>3
    <3> QED BY <1>1, <1>2, <2>3, <3>1, AccountsKept DEF PInv
  <2> QED BY <2>2, <2>3
<1>7. TroubleInv'
  <2>1. \A d \in Clients : /\ ctx'[d] = "deadline" => ctx[d] = "deadline"
                           /\ err'[d] # err[d] => d = c /\ err'[d] = e
    BY <1>1 DEF PInv, Shapes
  <2> QED BY <1>1, <2>1, ClientFacts DEF PInv, TroubleInv, BusyIsNotUnavailable
<1> QED BY <1>3, <1>5, <1>6, <1>7 DEF PInv

LEMMA UseStep ==
  ASSUME PInv, NEW c \in Clients, NEW s \in Stores,
         Answers(c, s) \/ Fails(c, s) \/ Interrupted(c, s)
  PROVE  PInv'
<1>1. trouble \in [Clients -> SUBSET ({"unavailable"} \cup ContextErrors)]
  BY DEF PInv, Shapes
<1>2. CASE Answers(c, s)
  BY <1>1, <1>2, EndsStep DEF Answers, Active
<1>3. CASE Fails(c, s)
  <2>1. /\ Active(c, s) /\ Ends(c, s, "unavailable")
        /\ trouble' = [trouble EXCEPT ![c] = @ \cup {"unavailable"}]
    BY <1>3, ErrorFacts DEF Fails, Active
  <2> QED BY <1>1, <2>1, EndsStep
<1>4. CASE Interrupted(c, s)
  <2>1. /\ Active(c, s) /\ ctx[c] \in ContextErrors /\ trouble' = trouble
        /\ Ends(c, s, ctx[c])
    BY <1>4, ErrorFacts DEF Interrupted, Active, PInv, Shapes
  <2>2. ctx[c] \in {"unavailable", "deadline"} => ctx[c] \in trouble'[c]
    BY <2>1, ErrorFacts DEF PInv, TroubleInv
  <2> QED BY <1>1, <2>1, <2>2, EndsStep
<1> QED BY <1>2, <1>3, <1>4

LEMMA NextPingStep ==
  ASSUME PInv, NEW c \in Clients, NextPing(c)
  PROVE  PInv'
<1>1. PICK i \in 1 .. Len(Order) - 1 :
        /\ use[c][Order[i]] = "done" /\ use[c][Order[i + 1]] = "off"
        /\ use' = [use EXCEPT ![c][Order[i + 1]] = "waiting"]
  BY DEF NextPing
<1>2. /\ c \in Probes /\ c \notin Calls /\ phase[c] = "running" /\ err[c] = "nil"
      /\ UNCHANGED << phase, need, ctx, err, status, inUse, trouble >>
  BY PoolsAssumption DEF NextPing
<1>3. i \in DOMAIN Order /\ i + 1 \in DOMAIN Order /\ Order[i + 1] \in Stores /\ Order[i] \in Stores
  BY ClientFacts
<1>4. Shapes'
  BY <1>1, <1>2, <1>3 DEF PInv, Shapes
<1>5. /\ use'[c][Order[i + 1]] = "waiting"
      /\ \A d \in Clients, t \in Stores : d # c \/ t # Order[i + 1] => use'[d][t] = use[d][t]
  BY <1>1, <1>3 DEF PInv, Shapes
<1>6. UsesInv'
  <2>1. ASSUME NEW d \in Probes, NEW k \in DOMAIN Order, NEW j \in DOMAIN Order,
               k < j, use'[d][Order[j]] # "off"
        PROVE  use'[d][Order[k]] = "done"
    <3>1. Order[k] \in Stores /\ Order[j] \in Stores /\ d \in Clients
      BY ClientFacts
    <3>2. CASE d # c
      BY <1>5, <2>1, <3>1, <3>2 DEF PInv, UsesInv
    <3>3. CASE d = c /\ j = i + 1
      <4>1. k = i \/ k < i
        BY <2>1, <3>3, ClientFacts
      <4>2. use[c][Order[k]] = "done"
        BY <1>1, <1>2, <1>3, <4>1 DEF PInv, UsesInv
      <4>3. Order[k] # Order[i + 1]
        BY <1>3, <2>1, <3>3, ClientFacts
      <4> QED BY <1>5, <3>1, <3>3, <4>2, <4>3
    <3>4. CASE d = c /\ j # i + 1
      <4>1. use[c][Order[j]] # "off"
        BY <1>3, <1>5, <2>1, <3>1, <3>4, ClientFacts
      <4>2. use[c][Order[k]] = "done"
        BY <1>2, <2>1, <4>1 DEF PInv, UsesInv
      <4>3. Order[k] # Order[i + 1]
        BY <1>1, <4>2
      <4> QED BY <1>5, <3>1, <3>4, <4>2, <4>3
    <3> QED BY <3>2, <3>3, <3>4
  <2>2. \A d \in Clients, t \in Stores :
          Active(d, t)' => Active(d, t) \/ (d = c /\ t = Order[i + 1])
    BY <1>5 DEF Active
  <2> QED BY <1>2, <2>1, <2>2, ClientFacts DEF PInv, UsesInv
<1>7. AccountsInv'
  <2>1. \A d \in Clients, t \in Stores : use'[d][t] = "holding" <=> use[d][t] = "holding"
    BY <1>1, <1>5
  <2> QED BY <1>2, <2>1, AccountsKept DEF PInv
<1>8. TroubleInv'
  BY <1>2 DEF PInv, TroubleInv, BusyIsNotUnavailable
<1> QED BY <1>4, <1>6, <1>7, <1>8 DEF PInv

LEMMA AnswerStep ==
  ASSUME PInv, NEW c \in Clients, AnswerCall(c) \/ AnswerProbe(c)
  PROVE  PInv'
<1>1. \A s \in Stores : ~ Active(c, s)
  <2>1. CASE AnswerCall(c)
    BY <2>1 DEF AnswerCall, Active, PInv, UsesInv
  <2>2. CASE AnswerProbe(c)
    BY <2>2 DEF AnswerProbe, Active, PInv, UsesInv
  <2> QED BY <2>1, <2>2
<1>2. PICK code \in {200, 500, 503, 504} :
        /\ Write(c, code)
        /\ c \in Calls => (code = 503 => err[c] = "unavailable") /\ (code = 504 => err[c] = "deadline")
  <2>1. CASE AnswerCall(c)
    <3>1. err[c] \in {"nil", "unavailable", "canceled", "deadline"}
      BY ErrorFacts DEF PInv, Shapes
    <3> QED BY <2>1, <3>1, ErrorFacts DEF AnswerCall
  <2>2. CASE AnswerProbe(c)
    BY <2>2, PoolsAssumption DEF AnswerProbe
  <2> QED BY <2>1, <2>2
<1>3. /\ phase' = [phase EXCEPT ![c] = "answered"]
      /\ status' = [status EXCEPT ![c] = code]
      /\ ctx' = [ctx EXCEPT ![c] = "canceled"]
      /\ UNCHANGED << need, use, err, inUse, trouble >>
  BY <1>2 DEF Write
<1>4. Shapes'
  BY <1>3, ErrorFacts DEF PInv, Shapes
<1>5. UsesInv'
  BY <1>1, <1>3 DEF PInv, Shapes, UsesInv, Active
<1>6. AccountsInv'
  BY <1>3, AccountsKept DEF PInv
<1>7. TroubleInv'
  <2>1. \A d \in Clients : /\ ctx'[d] = "deadline" => ctx[d] = "deadline"
                           /\ d # c => status'[d] = status[d]
                           /\ d = c => status'[d] = code
    BY <1>3 DEF PInv, Shapes
  <2> QED BY <1>2, <1>3, <2>1, ClientFacts DEF PInv, TroubleInv, BusyIsNotUnavailable
<1> QED BY <1>4, <1>5, <1>6, <1>7 DEF PInv

LEMMA ContextStep ==
  ASSUME PInv, NEW c \in Clients, Timeout(c) \/ Leaves(c)
  PROVE  PInv'
<1>1. PICK e \in ContextErrors : ContextEnds(c, e)
  BY ErrorFacts DEF Timeout, Leaves
<1>2. /\ ctx' = [ctx EXCEPT ![c] = e]
      /\ trouble' = [trouble EXCEPT ![c] = @ \cup {e}]
      /\ UNCHANGED << phase, need, use, err, status, inUse >>
  BY <1>1 DEF ContextEnds
<1>3. Shapes'
  BY <1>2 DEF PInv, Shapes
<1>4. UsesInv'
  BY <1>2 DEF PInv, UsesInv, Active
<1>5. AccountsInv'
  BY <1>2, AccountsKept DEF PInv
<1>6. TroubleInv'
  <2>1. /\ \A d \in Clients : trouble[d] \subseteq trouble'[d]
        /\ \A d \in Clients : ctx'[d] = "deadline" => ctx[d] = "deadline" \/ "deadline" \in trouble'[d]
    BY <1>2 DEF PInv, Shapes
  <2> QED BY <1>2, <2>1, ClientFacts DEF PInv, TroubleInv, BusyIsNotUnavailable
<1> QED BY <1>3, <1>4, <1>5, <1>6 DEF PInv

\* The pools' accounts and the requests' uses, errors and answers stay in step.
THEOREM PoolsConsistent == Spec => []PInv
<1>1. PInv /\ [Next]_vars => PInv'
  <2> SUFFICES ASSUME PInv, [Next]_vars PROVE PInv'
    OBVIOUS
  <2>1. CASE UNCHANGED vars
    <3>1. UNCHANGED << phase, need, use, ctx, err, status, inUse, trouble >>
      BY <2>1 DEF vars
    <3>2. AccountsInv'
      BY <3>1, AccountsKept DEF PInv
    <3>3. Shapes' /\ UsesInv' /\ TroubleInv'
      BY <3>1 DEF PInv, Shapes, UsesInv, TroubleInv, Active, BusyIsNotUnavailable
    <3> QED BY <3>2, <3>3 DEF PInv
  <2>2. CASE Next
    BY <2>2, BeginStep, AcquireStep, UseStep, NextPingStep, AnswerStep, ContextStep DEF Next
  <2> QED BY <2>1, <2>2
<1> QED BY <1>1, InitInv, PTL DEF Spec

\* Every variable keeps its shape; no pool counts below zero.
THEOREM PoolsTypes == Spec => []TypeOK
<1>1. PInv => TypeOK
  <2> SUFFICES ASSUME PInv PROVE TypeOK
    OBVIOUS
  <2>1. \A s \in Stores : inUse[s] \in Nat
    BY FS_CardinalityType DEF PInv, AccountsInv
  <2> QED BY <2>1 DEF PInv, Shapes, TypeOK
<1> QED BY <1>1, PoolsConsistent, PTL

\* No outcome of a query or a ping loses a connection, and no pool exceeds its
\* limit.
THEOREM NoConnectionLost == Spec => []ConnectionsAccounted
<1>1. PInv => ConnectionsAccounted
  <2> SUFFICES ASSUME PInv PROVE ConnectionsAccounted
    OBVIOUS
  <2>1. \A s \in Stores : \A c \in Holders(s) : phase[c] = "running"
    BY DEF PInv, UsesInv, Active, Holders
  <2> QED BY <2>1 DEF PInv, AccountsInv, ConnectionsAccounted
<1> QED BY <1>1, PoolsConsistent, PTL

\* Waiting for a connection is never reported as an unavailable store.
THEOREM WaitingIsNoFailure == Spec => []BusyIsNotUnavailable
<1>1. PInv => BusyIsNotUnavailable
  BY DEF PInv, TroubleInv
<1> QED BY <1>1, PoolsConsistent, PTL

-----------------------------------------------------------------------------
(* Nobody is stuck. *)

\* A probe has answers from the stores before the i-th and has not asked those after.
Frontier(c, i) ==
  /\ use[c][Order[i]] # "off"
  /\ \A j \in DOMAIN Order : /\ j < i => use[c][Order[j]] = "done"
                             /\ j > i => use[c][Order[j]] = "off"

\* A running call has asked every pool of its plan, a probe those up to its frontier.
AskedInv ==
  /\ \A c \in Calls : phase[c] = "running" => \A s \in need[c] : use[c][s] # "off"
  /\ \A c \in Probes : phase[c] = "running" =>
       DOMAIN Order = {} \/ \E i \in DOMAIN Order : Frontier(c, i)

\* Uses that only go from active to done leave what was asked.
LEMMA AskedKept ==
  ASSUME PInv, AskedInv, UNCHANGED need,
         \A c \in Clients : phase'[c] = "running" => phase[c] = "running",
         \A c \in Clients, s \in Stores :
           use'[c][s] = use[c][s] \/ (Active(c, s) /\ use'[c][s] \in {"holding", "done"})
  PROVE  AskedInv'
<1>1. ASSUME NEW c \in Calls, phase'[c] = "running", NEW s \in need'[c]
      PROVE  use'[c][s] # "off"
  <2>1. c \in Clients /\ s \in Stores /\ s \in need[c]
    BY <1>1, ClientFacts DEF PInv, Shapes
  <2> QED BY <1>1, <2>1 DEF AskedInv
<1>2. ASSUME NEW c \in Probes, phase'[c] = "running", DOMAIN Order # {}
      PROVE  \E i \in DOMAIN Order : Frontier(c, i)'
  <2>1. c \in Clients /\ \A j \in DOMAIN Order : Order[j] \in Stores
    BY ClientFacts
  <2>2. PICK i \in DOMAIN Order : Frontier(c, i)
    BY <1>2, <2>1 DEF AskedInv
  <2>3. use'[c][Order[i]] # "off"
    BY <2>1, <2>2 DEF Frontier
  <2>4. ASSUME NEW j \in DOMAIN Order
        PROVE  (j < i => use'[c][Order[j]] = "done") /\ (j > i => use'[c][Order[j]] = "off")
    BY <2>1, <2>2, <2>4 DEF Frontier, Active
  <2> QED BY <2>3, <2>4 DEF Frontier
<1> QED BY <1>1, <1>2 DEF AskedInv

LEMMA BeginAsks ==
  ASSUME PInv, AskedInv, NEW c \in Clients, BeginCall(c) \/ BeginProbe(c)
  PROVE  AskedInv'
<1>1. PICK n, first :
        /\ n \in SUBSET Stores
        /\ Begin(c, n, first)
        /\ c \in Calls => first = n
        /\ c \in Probes => first = {Order[1]}
  BY PoolsAssumption DEF BeginCall, BeginProbe
<1>2. /\ \A s \in Stores : use'[c][s] = IF s \in first THEN "waiting" ELSE "off"
      /\ \A d \in Clients : d # c => use'[d] = use[d] /\ phase'[d] = phase[d] /\ need'[d] = need[d]
      /\ need'[c] = n
  BY <1>1 DEF Begin, PInv, Shapes
<1>3. \A d \in Calls : phase'[d] = "running" => \A s \in need'[d] : use'[d][s] # "off"
  BY <1>1, <1>2, ClientFacts DEF AskedInv
<1>4. ASSUME NEW d \in Probes, phase'[d] = "running", DOMAIN Order # {}
      PROVE  \E i \in DOMAIN Order : Frontier(d, i)'
  <2>1. CASE d # c
    <3>1. PICK i \in DOMAIN Order : Frontier(d, i)
      BY <1>2, <1>4, <2>1, ClientFacts DEF AskedInv
    <3> QED BY <1>2, <2>1, <3>1, ClientFacts DEF Frontier
  <2>2. CASE d = c
    <3>1. 1 \in DOMAIN Order /\ \A j \in DOMAIN Order : ~ (j < 1) /\ (j > 1 => Order[j] # Order[1])
      BY <1>4, ClientFacts
    <3>2. \A j \in DOMAIN Order : use'[c][Order[j]] = IF Order[j] = Order[1] THEN "waiting" ELSE "off"
      BY <1>1, <1>2, <1>4, <2>2, ClientFacts
    <3>3. Frontier(c, 1)'
      BY <3>1, <3>2 DEF Frontier
    <3> QED BY <2>2, <3>1, <3>3
  <2> QED BY <2>1, <2>2
<1> QED BY <1>3, <1>4 DEF AskedInv

LEMMA NextPingAsks ==
  ASSUME PInv, AskedInv, NEW c \in Clients, NextPing(c)
  PROVE  AskedInv'
<1>1. PICK k \in 1 .. Len(Order) - 1 :
        /\ use[c][Order[k]] = "done" /\ use[c][Order[k + 1]] = "off"
        /\ use' = [use EXCEPT ![c][Order[k + 1]] = "waiting"]
  BY DEF NextPing
<1>2. c \in Probes /\ c \notin Calls /\ phase[c] = "running" /\ UNCHANGED << phase, need >>
  BY PoolsAssumption DEF NextPing
<1>3. k \in DOMAIN Order /\ k + 1 \in DOMAIN Order /\ k < k + 1 /\ Order[k + 1] \in Stores
  BY ClientFacts
<1>4. /\ use'[c][Order[k + 1]] = "waiting"
      /\ \A d \in Clients, t \in Stores : d # c \/ t # Order[k + 1] => use'[d][t] = use[d][t]
  BY <1>1, <1>3 DEF PInv, Shapes
<1>5. \A d \in Calls : phase'[d] = "running" => \A s \in need'[d] : use'[d][s] # "off"
  <2>1. \A d \in Calls : d \in Clients /\ d # c /\ need'[d] \subseteq Stores
    BY <1>2, ClientFacts DEF PInv, Shapes
  <2>2. \A d \in Calls : \A s \in need'[d] : use'[d][s] = use[d][s]
    BY <1>4, <2>1
  <2> QED BY <1>2, <2>2 DEF AskedInv
<1>6. ASSUME NEW d \in Probes, phase'[d] = "running"
      PROVE  \E i \in DOMAIN Order : Frontier(d, i)'
  <2>1. PICK i \in DOMAIN Order : Frontier(d, i)
    BY <1>2, <1>3, <1>6 DEF AskedInv
  <2>2. CASE d # c
    BY <1>4, <2>1, <2>2, ClientFacts DEF Frontier
  <2>3. CASE d = c
    <3>1. i = k
      BY <1>1, <1>3, <2>1, <2>3, ClientFacts DEF Frontier
    <3>2. ASSUME NEW j \in DOMAIN Order, j # k + 1
          PROVE  use'[c][Order[j]] = use[c][Order[j]]
      BY <1>3, <1>4, <3>2, ClientFacts
    <3>3. ASSUME NEW j \in DOMAIN Order
          PROVE  /\ j < k + 1 => use'[c][Order[j]] = "done"
                 /\ j > k + 1 => use'[c][Order[j]] = "off"
      <4>1. j < k + 1 => j = k \/ j < k
        BY ClientFacts
      <4>2. j > k + 1 => j > k /\ j # k + 1
        BY ClientFacts
      <4> QED BY <1>1, <1>3, <2>1, <2>3, <3>1, <3>2, <4>1, <4>2 DEF Frontier
    <3>4. Frontier(c, k + 1)'
      BY <1>4, <3>3 DEF Frontier
    <3> QED BY <1>3, <2>3, <3>4
  <2> QED BY <2>2, <2>3
<1> QED BY <1>5, <1>6 DEF AskedInv

LEMMA AskedStep == PInv /\ AskedInv /\ [Next]_vars => AskedInv'
<1> SUFFICES ASSUME PInv, AskedInv, [Next]_vars PROVE AskedInv'
  OBVIOUS
<1>1. CASE \E c \in Clients : BeginCall(c) \/ BeginProbe(c)
  BY <1>1, BeginAsks
<1>2. CASE \E c \in Clients : NextPing(c)
  BY <1>2, NextPingAsks
<1>3. CASE \E c \in Clients, s \in Stores :
             Acquire(c, s) \/ Answers(c, s) \/ Fails(c, s) \/ Interrupted(c, s)
  <2>1. PICK c \in Clients, s \in Stores :
          Acquire(c, s) \/ Answers(c, s) \/ Fails(c, s) \/ Interrupted(c, s)
    BY <1>3
  <2>2. PICK to \in {"holding", "done"} :
          /\ Active(c, s) /\ use' = [use EXCEPT ![c][s] = to] /\ UNCHANGED << phase, need >>
    BY <2>1 DEF Acquire, Answers, Fails, Interrupted, Ends, Active
  <2>3. \A d \in Clients, t \in Stores :
          use'[d][t] = use[d][t] \/ (Active(d, t) /\ use'[d][t] \in {"holding", "done"})
    BY <2>2 DEF PInv, Shapes
  <2> QED BY <2>2, <2>3, AskedKept
<1>4. CASE \E c \in Clients : AnswerCall(c) \/ AnswerProbe(c) \/ Timeout(c) \/ Leaves(c)
  <2>1. PICK c \in Clients : AnswerCall(c) \/ AnswerProbe(c) \/ Timeout(c) \/ Leaves(c)
    BY <1>4
  <2>2. /\ UNCHANGED << need, use >>
        /\ phase' = phase \/ phase' = [phase EXCEPT ![c] = "answered"]
    BY <2>1 DEF AnswerCall, AnswerProbe, Write, Timeout, Leaves, ContextEnds
  <2>3. \A d \in Clients : phase'[d] = "running" => phase[d] = "running"
    BY <2>2 DEF PInv, Shapes
  <2> QED BY <2>2, <2>3, AskedKept
<1>5. CASE UNCHANGED vars
  BY <1>5, AskedKept DEF vars
<1> QED BY <1>1, <1>2, <1>3, <1>4, <1>5 DEF Next

\* A request that is not at its end has something to do or to wait for.
LEMMA SomethingToDo ==
  ASSUME PInv, AskedInv, NEW c \in Clients, phase[c] = "running"
  PROVE  MayEnd(c) \/ MayPingNext(c) \/ \E s \in Stores : Active(c, s)
<1>1. CASE c \in Calls
  <2>1. \A s \in need[c] : s \in Stores /\ use[c][s] \in {"waiting", "holding", "done"}
    BY <1>1 DEF PInv, Shapes, AskedInv
  <2> QED BY <1>1, <2>1 DEF MayEnd, Active
<1>2. CASE c \in Probes /\ DOMAIN Order = {}
  <2>1. Stores = {} /\ c \notin Calls
    BY <1>2, PoolsAssumption, ClientFacts
  <2> QED BY <2>1 DEF MayEnd
<1>3. CASE c \in Probes /\ DOMAIN Order # {}
  <2>1. PICK i \in DOMAIN Order : Frontier(c, i)
    BY <1>3 DEF AskedInv
  <2>2. Order[i] \in Stores /\ use[c][Order[i]] \in {"waiting", "holding", "done"}
    BY <2>1, ClientFacts DEF Frontier, PInv, Shapes
  <2>3. CASE Active(c, Order[i])
    BY <2>2, <2>3
  <2>4. CASE use[c][Order[i]] = "done" /\ i < Len(Order)
    <3>1. i \in 1 .. Len(Order) - 1 /\ i + 1 \in DOMAIN Order /\ i + 1 > i
      BY <2>4, ClientFacts
    <3>2. use[c][Order[i + 1]] = "off"
      BY <2>1, <3>1 DEF Frontier
    <3> QED BY <1>3, <2>4, <3>1, <3>2 DEF MayPingNext
  <2>5. CASE use[c][Order[i]] = "done" /\ i = Len(Order)
    <3>1. \A j \in DOMAIN Order : use[c][Order[j]] = "done"
      <4>1. \A j \in DOMAIN Order : j < i \/ j = i
        BY <2>5, ClientFacts
      <4> QED BY <2>1, <2>5, <4>1 DEF Frontier
    <3>2. \A s \in Stores : use[c][s] = "done"
      BY <3>1, ClientFacts
    <3> QED BY <1>3, <3>2, PoolsAssumption DEF MayEnd
  <2> QED BY <2>2, <2>3, <2>4, <2>5, ClientFacts DEF Active
<1> QED BY <1>1, <1>2, <1>3, ClientFacts

\* No deadlock among the pools, for any number of clients, stores and connections:
\* whoever is kept waiting is kept waiting by a use of another running request.
THEOREM NobodyWaitsForNobody == Spec => []WaitersWaitForHolders
<1>1. PInv /\ AskedInv => WaitersWaitForHolders
  <2> SUFFICES ASSUME PInv, AskedInv, NEW c \in Clients, phase[c] = "running"
               PROVE  /\ MayEnd(c) \/ MayPingNext(c) \/ \E s \in Stores : Active(c, s)
                      /\ \A s \in Stores : use[c][s] = "waiting" /\ Full(s) =>
                           \E d \in Clients \ {c} : phase[d] = "running" /\ use[d][s] = "holding"
    BY DEF WaitersWaitForHolders, Active
  <2>1. ASSUME NEW s \in Stores, use[c][s] = "waiting", Full(s)
        PROVE  \E d \in Clients \ {c} : phase[d] = "running" /\ use[d][s] = "holding"
    <3>1. inUse[s] >= MaxOpen[s] /\ MaxOpen[s] >= 1 /\ MaxOpen[s] \in Nat /\ inUse[s] \in Int
      BY <2>1, ClientFacts DEF Full, PoolOf, PInv, Shapes
    <3>2. Holders(s) # {}
      BY <3>1, FS_EmptySet DEF PInv, AccountsInv
    <3>3. PICK d \in Holders(s) : TRUE
      BY <3>2
    <3> QED BY <2>1, <3>3 DEF Holders, PInv, UsesInv, Active
  <2> QED BY <2>1, SomethingToDo
<1>2. Init => AskedInv
  BY ClientFacts DEF Init, AskedInv
<1> QED BY <1>1, <1>2, AskedStep, PoolsConsistent, PTL DEF Spec

===============================================================================
