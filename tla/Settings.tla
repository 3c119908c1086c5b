-------------------------------- MODULE Settings --------------------------------
(***************************************************************************)
(* config.Load: an environment becomes a configuration or is refused with  *)
(* an error that names the first setting it cannot use.                    *)
(*                                                                         *)
(* A setting is a pair of the store it belongs to and its name, <<"hive",  *)
(* "PORT">> for HIVE_PORT; the process's own have the store "".  An        *)
(* environment is a function on the settings that are set.  Values are     *)
(* texts of a few kinds; what a text parses to is a set of one value, or   *)
(* the empty set if it does not parse.  Durations are in seconds.          *)
(***************************************************************************)
EXTENDS Integers, Sequences, SequencesExt

StoreNames == << "hive", "trino", "starrocks" >>
StoreSet == {"hive", "trino", "starrocks"}

\* strconv.Atoi and time.ParseDuration on the texts an environment may hold.
Number == [x \in {"-1", "0", "1", "65536"} |->
  CASE x = "-1" -> -1 [] x = "0" -> 0 [] x = "1" -> 1 [] x = "65536" -> 65536]
Seconds == [x \in {"-1s", "0s", "5s"} |-> CASE x = "-1s" -> -1 [] x = "0s" -> 0 [] x = "5s" -> 5]
Truth == [x \in {"true", "false"} |-> x = "true"]

\* identifierPattern; time.LoadLocation.
Identifiers == {"analytics", "orders_daily"}
Zones == {"Asia/Shanghai", "UTC"}

-----------------------------------------------------------------------------
(* Reading one setting. *)

Get(env, k) == IF k \in DOMAIN env THEN env[k] ELSE ""

\* strings.TrimSpace
Trim(v) == IF v = " " THEN "" ELSE v

StringDefault(env, k, default) ==
  LET v == Trim(Get(env, k)) IN IF v = "" THEN default ELSE v

Parse(env, k, meaning, default) ==
  LET v == Trim(Get(env, k)) IN
  IF v = "" THEN {default} ELSE {meaning[x] : x \in {v} \cap DOMAIN meaning}

IntDefault(env, k, default) == Parse(env, k, Number, default)
BoolDefault(env, k, default) == Parse(env, k, Truth, default)

\* A duration that parses must be positive.
DurationDefault(env, k, default) == {d \in Parse(env, k, Seconds, default) : d > 0}

The(S) == CHOOSE x \in S : TRUE

-----------------------------------------------------------------------------
(* The checks of Load, in their order.  A check names the settings its error *)
(* speaks of.                                                              *)

Check(named, ok) == << [named |-> named, ok |-> ok] >>

Parses(k, values) == Check({k}, values # {})

AtLeast(n, k, values) == Check({k}, \E v \in values : v >= n)

Key(name) == << "", name >>

QueryTimeout(env) == DurationDefault(env, Key("QUERY_TIMEOUT"), 10)

TableKeys == << Key("TABLE_PREFIX"), Key("TABLE_RETAIL"), Key("TABLE_RENOVATION") >>

\* Each table setting has a legal default of its own.
Table(env, i) == StringDefault(env, TableKeys[i], "analytics")

MaxQueryDays(env) == IntDefault(env, Key("MAX_QUERY_DAYS"), 366)
WindowDays(env) == IntDefault(env, Key("REALTIME_WINDOW_DAYS"), 3)
Historical(env) == StringDefault(env, Key("HISTORICAL_SOURCE"), "hive")
DataMode(env) == StringDefault(env, Key("DATA_MODE"), "memory")
Timezone(env) == StringDefault(env, Key("APP_TIMEZONE"), "Asia/Shanghai")

ProcessChecks(env) ==
     Check({Key("API_KEY")}, Trim(Get(env, Key("API_KEY"))) # "")
  \o Check({Key("APP_TIMEZONE")}, Timezone(env) \in Zones)
  \o Parses(Key("QUERY_TIMEOUT"), QueryTimeout(env))
  \o Parses(Key("SHUTDOWN_TIMEOUT"), DurationDefault(env, Key("SHUTDOWN_TIMEOUT"), 15))
  \o AtLeast(1, Key("MAX_QUERY_DAYS"), MaxQueryDays(env))
  \o AtLeast(1, Key("REALTIME_WINDOW_DAYS"), WindowDays(env))
  \o Check({Key("HISTORICAL_SOURCE")}, Historical(env) \in {"hive", "trino"})
  \o Check({Key("DATA_MODE")}, DataMode(env) \in {"memory", "real"})
  \o [i \in 1 .. 3 |-> [named |-> {TableKeys[i]}, ok |-> Table(env, i) \in Identifiers]]

\* All three default ports are legal.
PortChecks(env, s) ==
  Check({<< s, "PORT" >>}, IntDefault(env, << s, "PORT" >>, 8080) \cap 1 .. 65535 # {})

FileKeys == << "TLS_CA_FILE", "TLS_CERT_FILE", "TLS_KEY_FILE" >>

File(env, s, i) == Get(env, << s, FileKeys[i] >>)

Enabled(env, s) == BoolDefault(env, << s, "TLS_ENABLED" >>, FALSE)

\* os.Stat: whatever lies at the path.
Exists(disk, path) == path \in DOMAIN disk /\ disk[path] # "absent"

\* Files are looked for although TLS is disabled.
\* Fault: the loop over the files reports the first one's setting.
TLSChecksOfCA(env, disk, s) ==
  Parses(<< s, "TLS_ENABLED" >>, Enabled(env, s))
  \o IF Enabled(env, s) = {FALSE} /\ \A i \in 1 .. 3 : File(env, s, i) = "" THEN << >>
     ELSE [i \in 1 .. 3 |-> [named |-> {<< s, FileKeys[1] >>},
                             ok |-> File(env, s, i) # "" => Exists(disk, File(env, s, i))]]

TLSChecks(env, disk, s) ==
  Parses(<< s, "TLS_ENABLED" >>, Enabled(env, s))
  \o IF Enabled(env, s) = {FALSE} /\ \A i \in 1 .. 3 : File(env, s, i) = "" THEN << >>
     ELSE Check({<< s, FileKeys[2] >>, << s, FileKeys[3] >>},
                (File(env, s, 2) = "") = (File(env, s, 3) = ""))
          \o [i \in 1 .. 3 |-> [named |-> {<< s, FileKeys[i] >>},
                                ok |-> File(env, s, i) # "" => Exists(disk, File(env, s, i))]]

MaxOpenConns(env, s) == IntDefault(env, << s, "MAX_OPEN_CONNS" >>, 10)
MaxIdleConns(env, s) == IntDefault(env, << s, "MAX_IDLE_CONNS" >>, 5)

\* The limits are checked after all four have been parsed.
\* Fault: no limit is checked.
PoolParses(env, s) ==
     Parses(<< s, "MAX_OPEN_CONNS" >>, MaxOpenConns(env, s))
  \o Parses(<< s, "MAX_IDLE_CONNS" >>, MaxIdleConns(env, s))
  \o Parses(<< s, "CONN_MAX_LIFETIME" >>, DurationDefault(env, << s, "CONN_MAX_LIFETIME" >>, 1800))
  \o Parses(<< s, "CONN_MAX_IDLE_TIME" >>, DurationDefault(env, << s, "CONN_MAX_IDLE_TIME" >>, 300))

PoolChecks(env, s) ==
     PoolParses(env, s)
  \o AtLeast(1, << s, "MAX_OPEN_CONNS" >>, MaxOpenConns(env, s))
  \o AtLeast(0, << s, "MAX_IDLE_CONNS" >>, MaxIdleConns(env, s))

TimeoutChecks(env, s) ==
  CASE s = "hive" -> << >>
    [] s = "trino" ->
         Parses(<< s, "QUERY_TIMEOUT" >>,
                UNION {DurationDefault(env, << s, "QUERY_TIMEOUT" >>, d) : d \in QueryTimeout(env)})
    [] s = "starrocks" ->
         Parses(<< s, "DIAL_TIMEOUT" >>, DurationDefault(env, << s, "DIAL_TIMEOUT" >>, 10))
         \o Parses(<< s, "READ_TIMEOUT" >>, DurationDefault(env, << s, "READ_TIMEOUT" >>, 10))
         \o Parses(<< s, "WRITE_TIMEOUT" >>, DurationDefault(env, << s, "WRITE_TIMEOUT" >>, 10))

StoreChecks(env, disk, s) ==
  PortChecks(env, s) \o TLSChecks(env, disk, s) \o PoolChecks(env, s) \o TimeoutChecks(env, s)

\* What real mode cannot do without; blanks are not trimmed here.
Required == [s \in StoreSet |->
  CASE s = "hive" -> {<< s, "HOST" >>, << s, "DATABASE" >>}
    [] s = "trino" -> {<< s, "HOST" >>, << s, "USER" >>, << s, "CATALOG" >>, << s, "SCHEMA" >>}
    [] s = "starrocks" -> {<< s, "HOST" >>, << s, "USERNAME" >>, << s, "DATABASE" >>}]

RequiredChecks(env) ==
  [i \in 1 .. 3 |-> [named |-> Required[StoreNames[i]],
                     ok |-> DataMode(env) = "real" =>
                              \A k \in Required[StoreNames[i]] : Get(env, k) # ""]]

Checks(env, disk) ==
  ProcessChecks(env)
  \o StoreChecks(env, disk, "hive") \o StoreChecks(env, disk, "trino")
  \o StoreChecks(env, disk, "starrocks")
  \o RequiredChecks(env)

\* Load returns at the first check that fails.
FirstFailed(checks) ==
  LET failed == {i \in DOMAIN checks : ~ checks[i].ok}
  IN  IF failed = {} THEN {} ELSE checks[Min(failed)].named

\* The settings that the error of Load names, none if the environment is accepted.
\* (A union over one list: TLC computes a bound value once.)
Refusal(env, disk) == UNION {FirstFailed(checks) : checks \in {Checks(env, disk)}}

\* The part of an accepted environment that later stages look at.
StoreConfig(env, s) ==
  [tls |-> The(Enabled(env, s)),
   files |-> [i \in 1 .. 3 |-> File(env, s, i)],
   maxOpen |-> The(MaxOpenConns(env, s)),
   maxIdle |-> The(MaxIdleConns(env, s))]

Config(env) ==
  [mode |-> DataMode(env),
   apiKey |-> Trim(Get(env, Key("API_KEY"))),
   timezone |-> Timezone(env),
   timeout |-> The(QueryTimeout(env)),
   maxDays |-> The(MaxQueryDays(env)),
   window |-> The(WindowDays(env)),
   historical |-> Historical(env),
   tables |-> [i \in 1 .. 3 |-> Table(env, i)],
   stores |-> [s \in StoreSet |-> StoreConfig(env, s)]]
===============================================================================
