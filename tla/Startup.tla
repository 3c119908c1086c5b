-------------------------------- MODULE Startup --------------------------------
(***************************************************************************)
(* From the environment to a wired service: Load checks the settings and   *)
(* looks for the TLS files, the openers of real mode read the files and    *)
(* limit the pools, and buildWith hands the rest to constructors that have *)
(* guards of their own.  The files are on a disk that somebody may change  *)
(* between being looked for and being read; somebody also reads the error  *)
(* of a process that refused to start, corrects the settings it names and  *)
(* starts it again.                                                        *)
(*                                                                         *)
(* Startup pings, listening and the closing of what was opened are         *)
(* Lifecycle's subject.                                                    *)
(***************************************************************************)
EXTENDS Settings

CONSTANTS
  Environments,     \* the environments a first start may find
  Paths,            \* the files TLS settings may name
  MaxDiskChanges    \* bound: how often the disk changes

ASSUME StartupAssumption == Paths # {} /\ "" \notin Paths

Contents == {"absent", "bad", "good"}

VARIABLES
  env,      \* the environment
  disk,     \* what lies at each path
  changes,  \* how often the disk has changed
  stage,    \* "loading", "opening", "wiring", "built", "refused" or "broken"
  cfg,      \* the configuration, << >> before Load accepts
  opened,   \* the databases opened so far, and with what
  named     \* the settings the error of a refused start names

vars == << env, disk, changes, stage, cfg, opened, named >>

Init ==
  /\ env \in Environments
  /\ disk = [p \in Paths |-> "good"]
  /\ changes = 0
  /\ stage = "loading"
  /\ cfg = << >>
  /\ opened = << >>
  /\ named = {}

World == << env, disk, changes >>

\* realRepositories closes what it opened before the error.
Refuse(ks) == stage' = "refused" /\ named' = ks /\ opened' = << >>

-----------------------------------------------------------------------------

Load ==
  /\ stage = "loading"
  /\ LET bad == Refusal(env, disk) IN
     IF bad # {} THEN Refuse(bad) /\ UNCHANGED cfg
     ELSE /\ cfg' = Config(env)
          /\ stage' = IF cfg'.mode = "real" THEN "opening" ELSE "wiring"
          /\ UNCHANGED << opened, named >>
  /\ UNCHANGED World

-----------------------------------------------------------------------------
(* The openers. *)

Usable(path) == disk[path] = "good"

\* loadTLS reads the files again, and their contents have to be right: the TLS
\* client it makes, or none.
Readable(files) ==
  /\ files[1] # "" => Usable(files[1])
  /\ files[2] # "" \/ files[3] # "" => /\ files[2] # "" /\ files[3] # ""
                                       /\ Usable(files[2]) /\ Usable(files[3])

\* Fault: without a CA file it can read, it leaves the system's roots.
LoadTLSAnyway(files) ==
  {[roots |-> IF files[1] # "" /\ Usable(files[1]) THEN files[1] ELSE "",
    cert |-> << files[2], files[3] >>]}

LoadTLS(files) ==
  IF Readable(files) THEN {[roots |-> files[1], cert |-> << files[2], files[3] >>]} ELSE {}

\* Without TLS the files are not read.
TLSOf(c) == IF c.tls THEN LoadTLS(c.files) ELSE {}

\* database/sql: no connection limit below one, no idle connection below one,
\* never more idle than open ones.
OpenLimit(n) == IF n >= 1 THEN n ELSE 0

IdleLimit(n, open) == IF n < 1 THEN 0 ELSE IF open > 0 /\ n > open THEN open ELSE n

\* ConfigurePool
Pool(c) == [open |-> OpenLimit(c.maxOpen), idle |-> IdleLimit(c.maxIdle, OpenLimit(c.maxOpen))]

\* OpenHive, OpenTrino, OpenStarRocks in turn.
OpenNext ==
  /\ stage = "opening" /\ Len(opened) < 3
  /\ LET s == StoreNames[Len(opened) + 1]
         c == cfg.stores[s] IN
     IF c.tls /\ TLSOf(c) = {}
       THEN Refuse({<< s, FileKeys[i] >> : i \in {j \in 1 .. 3 : c.files[j] # ""}})
       ELSE /\ opened' = Append(opened, [store |-> s, tls |-> TLSOf(c), pool |-> Pool(c)])
            /\ UNCHANGED << stage, named >>
  /\ UNCHANGED << World, cfg >>

\* The pattern of sqlrepo's own.
\* Fault: a stricter one.
PlainIdentifiers == {"analytics"}

TableIdentifiers == Identifiers

\* NewHiveBuilder and NewBoundBuilder.
BuildStatements ==
  /\ stage = "opening" /\ Len(opened) = 3
  /\ stage' = IF \A i \in 1 .. 3 : cfg.tables[i] \in TableIdentifiers THEN "wiring" ELSE "broken"
  /\ UNCHANGED << World, cfg, opened, named >>

\* NewQueryService and httpapi.New, and buildWith's own look at the source.
Wirable ==
  /\ cfg.historical \in {"hive", "trino"}
  /\ cfg.window >= 1
  /\ cfg.timezone \in Zones
  /\ cfg.apiKey # ""

Wire ==
  /\ stage = "wiring"
  /\ stage' = IF Wirable THEN "built" ELSE "broken"
  /\ UNCHANGED << World, cfg, opened, named >>

-----------------------------------------------------------------------------
(* The world. *)

\* Somebody replaces or removes a file.
DiskChanges(p) ==
  /\ changes < MaxDiskChanges /\ stage \notin {"built", "broken"}
  /\ \E k \in DOMAIN env : env[k] = p
  /\ \E content \in Contents \ {disk[p]} : disk' = [disk EXCEPT ![p] = content]
  /\ changes' = changes + 1
  /\ UNCHANGED << env, stage, cfg, opened, named >>

\* What an operator sets a setting to that the error named: a file must be there,
\* so must what real mode requires, and all others have a default.
Corrected(k) ==
  IF k[2] \in ToSet(FileKeys) THEN {IF Get(env, k) \in Paths THEN env[k] ELSE The(Paths)}
  ELSE IF k = Key("API_KEY") \/ k \in UNION {Required[s] : s \in StoreSet} THEN {"x"}
  ELSE {}

\* The settings that were named are corrected, the files they name restored, and
\* the process is started again.
Repair ==
  /\ stage = "refused"
  /\ env' = [k \in (DOMAIN env \ named) \cup {n \in named : Corrected(n) # {}} |->
               IF k \in named THEN The(Corrected(k)) ELSE env[k]]
  /\ disk' = [p \in Paths |-> IF \E k \in named : Get(env', k) = p THEN "good" ELSE disk[p]]
  /\ stage' = "loading"
  /\ cfg' = << >> /\ named' = {}
  /\ UNCHANGED << changes, opened >>

-----------------------------------------------------------------------------

Process == Load \/ OpenNext \/ BuildStatements \/ Wire

Next == Process \/ Repair \/ \E p \in Paths : DiskChanges(p)

Spec == Init /\ [][Next]_vars

\* main runs on, and the operator reads errors.
FairSpec == Spec /\ WF_vars(Process) /\ WF_vars(Repair)

-----------------------------------------------------------------------------
(* Properties. *)

\* What Load accepted never fails in the constructors that look at it again, with
\* patterns and guards of their own, and the limits those do not look at are real.
AcceptedIsServable ==
  /\ stage # "broken"
  /\ stage = "built" => cfg.maxDays >= 1 /\ cfg.timeout > 0

\* Every opened database has a limited pool (ConfigurePool: batch queries of
\* history must not use up the sessions): no accepted setting means "unlimited" to
\* database/sql.
PoolsAreBounded ==
  \A i \in DOMAIN opened : opened[i].pool.open >= 1 /\ opened[i].pool.idle <= opened[i].pool.open

\* A store with TLS enabled is opened with the roots and the client certificate it
\* was configured with or not at all, although files that Load saw may be gone.
TLSAsConfigured ==
  \A i \in DOMAIN opened :
    LET c == cfg.stores[opened[i].store] IN
    c.tls => opened[i].tls = {[roots |-> c.files[1], cert |-> << c.files[2], c.files[3] >>]}

\* An error is gone when what it names has been corrected: the next start is accepted,
\* or its error is about a setting that has not been corrected yet.
ErrorsGoWhenCorrected ==
  [][Repair => \/ Refusal(env', disk') = {}
               \/ ~ (Refusal(env', disk') \subseteq named)]_vars

\* Whoever corrects what the errors name gets the service started: no error names
\* a setting that is not at fault.
RepairsConverge == <>(stage = "built")

===============================================================================
