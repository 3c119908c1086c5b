----------------------------- MODULE StartupProofs -----------------------------
(***************************************************************************)
(* What is proved of Startup for all environments and all files: what Load *)
(* accepts can be served, with limited pools and the TLS it asks for.      *)
(*                                                                         *)
(* The argument: Load refuses as soon as one check fails, and each check   *)
(* names a setting, so an accepted environment passes every check; the     *)
(* checks then say what the configuration made from it must satisfy, and   *)
(* no later step changes that configuration.                               *)
(***************************************************************************)
EXTENDS Startup, SequenceTheorems, WellFoundedInduction, TLAPS

-----------------------------------------------------------------------------
(* Lists of checks. *)

\* The settings that checks name, of a store or of the process.
SettingNames ==
  {"API_KEY", "APP_TIMEZONE", "QUERY_TIMEOUT", "SHUTDOWN_TIMEOUT", "MAX_QUERY_DAYS",
   "REALTIME_WINDOW_DAYS", "HISTORICAL_SOURCE", "DATA_MODE", "TABLE_PREFIX", "TABLE_RETAIL",
   "TABLE_RENOVATION", "PORT", "TLS_ENABLED", "TLS_CA_FILE", "TLS_CERT_FILE", "TLS_KEY_FILE",
   "MAX_OPEN_CONNS", "MAX_IDLE_CONNS", "CONN_MAX_LIFETIME", "CONN_MAX_IDLE_TIME",
   "DIAL_TIMEOUT", "READ_TIMEOUT", "WRITE_TIMEOUT", "HOST", "USER", "USERNAME", "CATALOG",
   "SCHEMA", "DATABASE"}

Setting == (StoreSet \cup {""}) \X SettingNames

\* A check that can be reported names a setting.
Named == {ks \in SUBSET Setting : ks # {}}

Checked == [named : Named, ok : BOOLEAN]

\* No check of a list fails.
Pass(checks) == \A i \in DOMAIN checks : checks[i].ok

\* A set of numbers that is not empty has a smallest one: Load does report a
\* first error when there is one.
LEMMA FirstExists ==
  ASSUME NEW S \in SUBSET Nat, S # {}
  PROVE  Min(S) \in S /\ \A n \in S : Min(S) <= n
<1>1. PICK m \in S : \A n \in S : << n, m >> \notin OpToRel(<, Nat)
  BY WFMin, NatLessThanWellFounded, Zenon
<1>2. \A n \in S : m <= n
  <2>1. \A n \in S : ~ (n < m)
    BY <1>1, Zenon DEF OpToRel
  <2> QED BY <2>1
<1>3. \E x \in S : \A y \in S : x =< y
  BY <1>2
<1> QED BY <1>3 DEF Min

LEMMA Single ==
  ASSUME NEW ks \in Named, NEW ok \in BOOLEAN
  PROVE  /\ Check(ks, ok) \in Seq(Checked)
         /\ Pass(Check(ks, ok)) => ok
<1>1. [named |-> ks, ok |-> ok] \in Checked
  BY DEF Checked
<1>2. /\ DOMAIN Check(ks, ok) = {1}
      /\ Check(ks, ok)[1] = [named |-> ks, ok |-> ok]
      /\ Check(ks, ok) \in Seq(Checked)
  BY <1>1 DEF Check
<1> QED BY <1>2 DEF Pass

LEMMA Both ==
  ASSUME NEW s \in Seq(Checked), NEW t \in Seq(Checked)
  PROVE  /\ s \o t \in Seq(Checked)
         /\ Pass(s \o t) => Pass(s) /\ Pass(t)
<1>1. /\ s \o t \in Seq(Checked)
      /\ Len(s \o t) = Len(s) + Len(t)
      /\ \A i \in 1 .. Len(s) + Len(t) : (s \o t)[i] = IF i <= Len(s) THEN s[i] ELSE t[i - Len(s)]
  BY ConcatProperties
<1>2. /\ Len(s) \in Nat /\ DOMAIN s = 1 .. Len(s)
      /\ Len(t) \in Nat /\ DOMAIN t = 1 .. Len(t)
      /\ DOMAIN (s \o t) = 1 .. Len(s) + Len(t)
  BY <1>1, LenProperties
<1>3. ASSUME Pass(s \o t) PROVE Pass(s)
  <2>1. ASSUME NEW i \in DOMAIN s PROVE s[i].ok
    <3>1. i \in DOMAIN (s \o t) /\ (s \o t)[i] = s[i]
      BY <1>1, <1>2
    <3> QED BY <3>1, <1>3 DEF Pass
  <2> QED BY <2>1 DEF Pass
<1>4. ASSUME Pass(s \o t) PROVE Pass(t)
  <2>1. ASSUME NEW i \in DOMAIN t PROVE t[i].ok
    <3>1. /\ i + Len(s) \in DOMAIN (s \o t)
          /\ (s \o t)[i + Len(s)] = t[i]
      BY <1>1, <1>2
    <3> QED BY <3>1, <1>4 DEF Pass
  <2> QED BY <2>1 DEF Pass
<1> QED BY <1>1, <1>3, <1>4

\* An accepted environment passes every check of a list of the kind Load's is.
LEMMA NoneFailed ==
  ASSUME NEW e, NEW d, Checks(e, d) \in Seq(Checked), Refusal(e, d) = {}
  PROVE  Pass(Checks(e, d))
<1> DEFINE checks == Checks(e, d)
           failed == {i \in DOMAIN checks : ~ checks[i].ok}
<1>1. SUFFICES ASSUME failed # {} PROVE FALSE
  BY <1>1 DEF Pass
<1>2. failed \in SUBSET Nat
  BY LenProperties
<1>3. Min(failed) \in DOMAIN checks
  BY <1>1, <1>2, FirstExists
<1>4. checks[Min(failed)] \in Checked
  BY <1>3, ElementOfSeq, LenProperties
<1>5. Refusal(e, d) = checks[Min(failed)].named
  <2>1. FirstFailed(checks) = checks[Min(failed)].named
    BY <1>1 DEF FirstFailed
  <2>2. Refusal(e, d) = FirstFailed(checks)
    BY DEF Refusal
  <2> QED BY <2>1, <2>2
<1> QED BY <1>4, <1>5 DEF Checked, Named

-----------------------------------------------------------------------------
(* What settings parse to. *)

LEMMA KeysAreSettings ==
  /\ \A name \in SettingNames : {Key(name)} \in Named
  /\ \A s \in StoreSet, name \in SettingNames : {<< s, name >>} \in Named
<1>1. ASSUME NEW a \in StoreSet \cup {""}, NEW b \in SettingNames PROVE {<< a, b >>} \in Named
  <2>1. << a, b >> \in Setting
    BY DEF Setting
  <2> QED BY <2>1 DEF Named
<1> QED BY <1>1 DEF Key

\* A text parses to one value or to none, so the one that is chosen is the one
\* that was checked.
LEMMA ParsesOnce ==
  ASSUME NEW e, NEW k, NEW meaning, NEW default
  PROVE  \E x : Parse(e, k, meaning, default) \in {{}, {x}}
<1>1. CASE Trim(Get(e, k)) = ""
  BY <1>1 DEF Parse
<1>2. CASE Trim(Get(e, k)) # "" /\ Trim(Get(e, k)) \in DOMAIN meaning
  <2>1. Parse(e, k, meaning, default) = {meaning[Trim(Get(e, k))]}
    BY <1>2 DEF Parse
  <2> QED BY <2>1
<1>3. CASE Trim(Get(e, k)) # "" /\ Trim(Get(e, k)) \notin DOMAIN meaning
  <2>1. Parse(e, k, meaning, default) = {}
    BY <1>3 DEF Parse
  <2> QED BY <2>1
<1> QED BY <1>1, <1>2, <1>3

LEMMA IntsAreInts ==
  ASSUME NEW e, NEW k, NEW default \in Int
  PROVE  IntDefault(e, k, default) \subseteq Int
<1>1. \A x \in DOMAIN Number : Number[x] \in Int
  BY DEF Number
<1> QED BY <1>1 DEF IntDefault, Parse

\* A number that passed its limit is the one the configuration holds.
LEMMA CheckedInt ==
  ASSUME NEW e, NEW k, NEW default \in Int, NEW n \in Int,
         \E v \in IntDefault(e, k, default) : v >= n
  PROVE  The(IntDefault(e, k, default)) \in Int /\ The(IntDefault(e, k, default)) >= n
<1>1. PICK x : IntDefault(e, k, default) \in {{}, {x}}
  BY ParsesOnce DEF IntDefault
<1>2. IntDefault(e, k, default) = {x} /\ x >= n
  BY <1>1
<1>3. x \in Int
  BY <1>2, IntsAreInts
<1> QED BY <1>2, <1>3 DEF The

LEMMA ParsedDuration ==
  ASSUME NEW e, NEW k, NEW default, DurationDefault(e, k, default) # {}
  PROVE  The(DurationDefault(e, k, default)) > 0
BY DEF The, DurationDefault

-----------------------------------------------------------------------------
(* The lists Load goes through. *)

LEMMA OneOfStore ==
  ASSUME NEW s \in StoreSet, NEW name \in SettingNames, NEW values, NEW ok \in BOOLEAN
  PROVE  /\ Parses(<< s, name >>, values) \in Seq(Checked)
         /\ Check({<< s, name >>}, ok) \in Seq(Checked)
         /\ Pass(Check({<< s, name >>}, ok)) => ok
<1>1. (values # {}) \in BOOLEAN
  OBVIOUS
<1> QED BY <1>1, KeysAreSettings, Single DEF Parses

LEMMA LimitOfStore ==
  ASSUME NEW s \in StoreSet, NEW name \in SettingNames, NEW n, NEW values
  PROVE  /\ AtLeast(n, << s, name >>, values) \in Seq(Checked)
         /\ Pass(AtLeast(n, << s, name >>, values)) => \E v \in values : v >= n
<1>1. (\E v \in values : v >= n) \in BOOLEAN
  OBVIOUS
<1> QED BY <1>1, OneOfStore DEF AtLeast

LEMMA OneOfProcess ==
  ASSUME NEW name \in SettingNames, NEW ok \in BOOLEAN
  PROVE  /\ Check({Key(name)}, ok) \in Seq(Checked)
         /\ Pass(Check({Key(name)}, ok)) => ok
BY KeysAreSettings, Single

LEMMA Three ==
  ASSUME NEW f, f = [i \in 1 .. 3 |-> f[i]], \A i \in 1 .. 3 : f[i] \in Checked
  PROVE  f \in Seq(Checked)
<1>1. f \in [1 .. 3 -> Checked]
  OBVIOUS
<1> QED BY <1>1, SeqDef

LEMMA EmptyList == << >> \in Seq(Checked)
BY EmptySeq

LEMMA PortList ==
  ASSUME NEW e, NEW s \in StoreSet
  PROVE  PortChecks(e, s) \in Seq(Checked)
<1>1. "PORT" \in SettingNames
  BY DEF SettingNames
<1> DEFINE legal == IntDefault(e, << s, "PORT" >>, 8080) \cap 1 .. 65535 # {}
<1>2. legal \in BOOLEAN
  OBVIOUS
<1>3. PortChecks(e, s) = Check({<< s, "PORT" >>}, legal)
  BY DEF PortChecks
<1> HIDE DEF legal
<1> QED BY <1>1, <1>2, <1>3, OneOfStore

LEMMA TLSList ==
  ASSUME NEW e, NEW d, NEW s \in StoreSet
  PROVE  TLSChecks(e, d, s) \in Seq(Checked)
<1>1. "TLS_ENABLED" \in SettingNames /\ \A i \in 1 .. 3 : FileKeys[i] \in SettingNames
  BY DEF SettingNames, FileKeys
<1> DEFINE parse == Parses(<< s, "TLS_ENABLED" >>, Enabled(e, s))
           both == (File(e, s, 2) = "") = (File(e, s, 3) = "")
           pair == Check({<< s, FileKeys[2] >>, << s, FileKeys[3] >>}, both)
           exists(i) == File(e, s, i) # "" => Exists(d, File(e, s, i))
           files == [i \in 1 .. 3 |-> [named |-> {<< s, FileKeys[i] >>}, ok |-> exists(i)]]
<1>2. parse \in Seq(Checked)
  BY <1>1, OneOfStore
<1>3. pair \in Seq(Checked)
  <2>1. {<< s, FileKeys[2] >>, << s, FileKeys[3] >>} \in Named
    <3>1. FileKeys[2] \in SettingNames /\ FileKeys[3] \in SettingNames
      BY <1>1
    <3>2. << s, FileKeys[2] >> \in Setting /\ << s, FileKeys[3] >> \in Setting
      BY <3>1 DEF Setting
    <3> HIDE DEF pair
    <3> QED BY <3>2 DEF Named
  <2>2. both \in BOOLEAN
    OBVIOUS
  <2> QED BY <2>1, <2>2, Single
<1>4. files \in Seq(Checked)
  <2>1. \A i \in 1 .. 3 : exists(i) \in BOOLEAN
    OBVIOUS
  <2>2. \A i \in 1 .. 3 : {<< s, FileKeys[i] >>} \in Named
    BY <1>1, KeysAreSettings
  <2>3. \A i \in 1 .. 3 : files[i] \in Checked
    BY <2>1, <2>2 DEF Checked
  <2> HIDE DEF exists
  <2>4. files = [i \in 1 .. 3 |-> files[i]]
    OBVIOUS
  <2> QED BY <2>3, <2>4, Three
<1> HIDE DEF parse, pair, files
<1>5. /\ parse \o << >> \in Seq(Checked)
      /\ parse \o (pair \o files) \in Seq(Checked)
  BY <1>2, <1>3, <1>4, Both, EmptyList
<1>6. TLSChecks(e, d, s) \in {parse \o << >>, parse \o (pair \o files)}
  BY DEF TLSChecks, parse, pair, files
<1> QED BY <1>5, <1>6

\* The pool settings of a store that are checked: at least one connection, and not
\* less than no idle one.
PoolsLimited(e, s) ==
  /\ \E v \in MaxOpenConns(e, s) : v >= 1
  /\ \E v \in MaxIdleConns(e, s) : v >= 0

LEMMA PoolList ==
  ASSUME NEW e, NEW s \in StoreSet
  PROVE  /\ PoolChecks(e, s) \in Seq(Checked)
         /\ Pass(PoolChecks(e, s)) => PoolsLimited(e, s)
<1>1. /\ "MAX_OPEN_CONNS" \in SettingNames /\ "MAX_IDLE_CONNS" \in SettingNames
      /\ "CONN_MAX_LIFETIME" \in SettingNames /\ "CONN_MAX_IDLE_TIME" \in SettingNames
  BY DEF SettingNames
<1> DEFINE lifetime == DurationDefault(e, << s, "CONN_MAX_LIFETIME" >>, 1800)
           idleTime == DurationDefault(e, << s, "CONN_MAX_IDLE_TIME" >>, 300)
           p1 == Parses(<< s, "MAX_OPEN_CONNS" >>, MaxOpenConns(e, s))
           p2 == Parses(<< s, "MAX_IDLE_CONNS" >>, MaxIdleConns(e, s))
           p3 == Parses(<< s, "CONN_MAX_LIFETIME" >>, lifetime)
           p4 == Parses(<< s, "CONN_MAX_IDLE_TIME" >>, idleTime)
           open == AtLeast(1, << s, "MAX_OPEN_CONNS" >>, MaxOpenConns(e, s))
           idle == AtLeast(0, << s, "MAX_IDLE_CONNS" >>, MaxIdleConns(e, s))
<1>2. p1 \in Seq(Checked) /\ p2 \in Seq(Checked) /\ p3 \in Seq(Checked) /\ p4 \in Seq(Checked)
  <2> HIDE DEF lifetime, idleTime
  <2>1. p1 \in Seq(Checked)
    BY <1>1, OneOfStore
  <2>2. p2 \in Seq(Checked)
    BY <1>1, OneOfStore
  <2>3. p3 \in Seq(Checked)
    BY <1>1, OneOfStore
  <2>4. p4 \in Seq(Checked)
    BY <1>1, OneOfStore
  <2> QED BY <2>1, <2>2, <2>3, <2>4
<1>3. /\ open \in Seq(Checked) /\ idle \in Seq(Checked)
      /\ Pass(open) /\ Pass(idle) => PoolsLimited(e, s)
  BY <1>1, LimitOfStore DEF PoolsLimited
<1>4. PoolChecks(e, s) = ((((p1 \o p2) \o p3) \o p4) \o open) \o idle
  BY DEF PoolChecks, PoolParses
<1> HIDE DEF p1, p2, p3, p4, open, idle
<1>5. ((p1 \o p2) \o p3) \o p4 \in Seq(Checked)
  <2>1. p1 \o p2 \in Seq(Checked)
    BY <1>2, Both
  <2>2. (p1 \o p2) \o p3 \in Seq(Checked)
    BY <1>2, <2>1, Both
  <2> QED BY <1>2, <2>2, Both
<1> DEFINE parses == ((p1 \o p2) \o p3) \o p4
<1>6. parses \in Seq(Checked)
  BY <1>5
<1>7. PoolChecks(e, s) = (parses \o open) \o idle
  BY <1>4
<1> HIDE DEF parses
<1>8. /\ parses \o open \in Seq(Checked)
      /\ Pass(parses \o open) => Pass(open)
  BY <1>3, <1>6, Both
<1>9. /\ (parses \o open) \o idle \in Seq(Checked)
      /\ Pass((parses \o open) \o idle) => Pass(open) /\ Pass(idle)
  BY <1>3, <1>8, Both
<1> QED BY <1>3, <1>7, <1>9

LEMMA TimeoutList ==
  ASSUME NEW e, NEW s \in StoreSet
  PROVE  TimeoutChecks(e, s) \in Seq(Checked)
<1>1. /\ "QUERY_TIMEOUT" \in SettingNames /\ "DIAL_TIMEOUT" \in SettingNames
      /\ "READ_TIMEOUT" \in SettingNames /\ "WRITE_TIMEOUT" \in SettingNames
  BY DEF SettingNames
<1> DEFINE query == UNION {DurationDefault(e, << s, "QUERY_TIMEOUT" >>, d) : d \in QueryTimeout(e)}
           t0 == Parses(<< s, "QUERY_TIMEOUT" >>, query)
           t1 == Parses(<< s, "DIAL_TIMEOUT" >>, DurationDefault(e, << s, "DIAL_TIMEOUT" >>, 10))
           t2 == Parses(<< s, "READ_TIMEOUT" >>, DurationDefault(e, << s, "READ_TIMEOUT" >>, 10))
           t3 == Parses(<< s, "WRITE_TIMEOUT" >>, DurationDefault(e, << s, "WRITE_TIMEOUT" >>, 10))
<1>2. t0 \in Seq(Checked) /\ t1 \in Seq(Checked) /\ t2 \in Seq(Checked) /\ t3 \in Seq(Checked)
  <2> HIDE DEF query
  <2> QED BY <1>1, OneOfStore
<1>3. CASE s = "hive"
  BY <1>3, EmptyList DEF TimeoutChecks
<1>4. CASE s = "trino"
  <2>1. TimeoutChecks(e, s) = t0
    BY <1>4 DEF TimeoutChecks
  <2> QED BY <1>2, <2>1
<1>5. CASE s = "starrocks"
  <2>1. TimeoutChecks(e, s) = (t1 \o t2) \o t3
    BY <1>5 DEF TimeoutChecks
  <2> HIDE DEF t1, t2, t3
  <2>2. t1 \o t2 \in Seq(Checked)
    BY <1>2, Both
  <2> QED BY <1>2, <2>1, <2>2, Both
<1> QED BY <1>3, <1>4, <1>5 DEF StoreSet

LEMMA StoreList ==
  ASSUME NEW e, NEW d, NEW s \in StoreSet
  PROVE  /\ StoreChecks(e, d, s) \in Seq(Checked)
         /\ Pass(StoreChecks(e, d, s)) => PoolsLimited(e, s)
<1> DEFINE first == PortChecks(e, s) \o TLSChecks(e, d, s)
<1>1. first \in Seq(Checked)
  BY PortList, TLSList, Both
<1>2. StoreChecks(e, d, s) = (first \o PoolChecks(e, s)) \o TimeoutChecks(e, s)
  BY DEF StoreChecks
<1> HIDE DEF first
<1>3. /\ first \o PoolChecks(e, s) \in Seq(Checked)
      /\ Pass(first \o PoolChecks(e, s)) => PoolsLimited(e, s)
  BY <1>1, PoolList, Both
<1> QED BY <1>2, <1>3, TimeoutList, Both

\* What the process's own checks leave of its settings.
ProcessSettled(e) ==
  /\ Trim(Get(e, Key("API_KEY"))) # ""
  /\ Timezone(e) \in Zones
  /\ QueryTimeout(e) # {}
  /\ \E v \in MaxQueryDays(e) : v >= 1
  /\ \E v \in WindowDays(e) : v >= 1
  /\ Historical(e) \in {"hive", "trino"}
  /\ DataMode(e) \in {"memory", "real"}
  /\ \A i \in 1 .. 3 : Table(e, i) \in Identifiers

LEMMA TableList ==
  ASSUME NEW e
  PROVE  LET tables == [i \in 1 .. 3 |-> [named |-> {TableKeys[i]},
                                          ok |-> Table(e, i) \in Identifiers]]
         IN  /\ tables \in Seq(Checked)
             /\ Pass(tables) => \A i \in 1 .. 3 : Table(e, i) \in Identifiers
<1> DEFINE tables == [i \in 1 .. 3 |-> [named |-> {TableKeys[i]},
                                        ok |-> Table(e, i) \in Identifiers]]
<1>1. \A i \in 1 .. 3 : {TableKeys[i]} \in Named
  <2>1. /\ {Key("TABLE_PREFIX")} \in Named /\ {Key("TABLE_RETAIL")} \in Named
        /\ {Key("TABLE_RENOVATION")} \in Named
    BY KeysAreSettings DEF SettingNames
  <2> QED BY <2>1 DEF TableKeys
<1>2. \A i \in 1 .. 3 : (Table(e, i) \in Identifiers) \in BOOLEAN
  OBVIOUS
<1>3. \A i \in 1 .. 3 : tables[i] \in Checked
  BY <1>1, <1>2 DEF Checked
<1>4. tables \in Seq(Checked)
  <2>1. tables = [i \in 1 .. 3 |-> tables[i]]
    OBVIOUS
  <2> QED BY <1>3, <2>1, Three
<1>5. Pass(tables) => \A i \in 1 .. 3 : Table(e, i) \in Identifiers
  BY DEF Pass
<1> QED BY <1>4, <1>5

LEMMA ProcessList ==
  ASSUME NEW e
  PROVE  /\ ProcessChecks(e) \in Seq(Checked)
         /\ Pass(ProcessChecks(e)) => ProcessSettled(e)
<1> DEFINE shutdown == DurationDefault(e, Key("SHUTDOWN_TIMEOUT"), 15)
           ok1 == Trim(Get(e, Key("API_KEY"))) # ""
           ok2 == Timezone(e) \in Zones
           ok3 == QueryTimeout(e) # {}
           ok4 == shutdown # {}
           ok5 == \E v \in MaxQueryDays(e) : v >= 1
           ok6 == \E v \in WindowDays(e) : v >= 1
           ok7 == Historical(e) \in {"hive", "trino"}
           ok8 == DataMode(e) \in {"memory", "real"}
           c1 == Check({Key("API_KEY")}, ok1)
           c2 == Check({Key("APP_TIMEZONE")}, ok2)
           c3 == Check({Key("QUERY_TIMEOUT")}, ok3)
           c4 == Check({Key("SHUTDOWN_TIMEOUT")}, ok4)
           c5 == Check({Key("MAX_QUERY_DAYS")}, ok5)
           c6 == Check({Key("REALTIME_WINDOW_DAYS")}, ok6)
           c7 == Check({Key("HISTORICAL_SOURCE")}, ok7)
           c8 == Check({Key("DATA_MODE")}, ok8)
           tables == [i \in 1 .. 3 |-> [named |-> {TableKeys[i]},
                                        ok |-> Table(e, i) \in Identifiers]]
<1>1. /\ "API_KEY" \in SettingNames /\ "APP_TIMEZONE" \in SettingNames
      /\ "QUERY_TIMEOUT" \in SettingNames /\ "SHUTDOWN_TIMEOUT" \in SettingNames
      /\ "MAX_QUERY_DAYS" \in SettingNames /\ "REALTIME_WINDOW_DAYS" \in SettingNames
      /\ "HISTORICAL_SOURCE" \in SettingNames /\ "DATA_MODE" \in SettingNames
  BY DEF SettingNames
<1>2. /\ ok1 \in BOOLEAN /\ ok2 \in BOOLEAN /\ ok3 \in BOOLEAN /\ ok4 \in BOOLEAN
      /\ ok5 \in BOOLEAN /\ ok6 \in BOOLEAN /\ ok7 \in BOOLEAN /\ ok8 \in BOOLEAN
  OBVIOUS
<1>3. /\ tables \in Seq(Checked)
      /\ Pass(tables) => \A i \in 1 .. 3 : Table(e, i) \in Identifiers
  BY TableList
<1>4. ProcessChecks(e) = (((((((c1 \o c2) \o c3) \o c4) \o c5) \o c6) \o c7) \o c8) \o tables
  BY DEF ProcessChecks, Parses, AtLeast
<1>5. ok1 /\ ok2 /\ ok3 /\ ok5 /\ ok6 /\ ok7 /\ ok8
      /\ (\A i \in 1 .. 3 : Table(e, i) \in Identifiers) => ProcessSettled(e)
  BY DEF ProcessSettled
<1> HIDE DEF ok1, ok2, ok3, ok4, ok5, ok6, ok7, ok8, tables
<1>6. /\ c1 \in Seq(Checked) /\ (Pass(c1) => ok1)
      /\ c2 \in Seq(Checked) /\ (Pass(c2) => ok2)
      /\ c3 \in Seq(Checked) /\ (Pass(c3) => ok3)
      /\ c4 \in Seq(Checked)
  BY <1>1, <1>2, OneOfProcess
<1>7. /\ c5 \in Seq(Checked) /\ (Pass(c5) => ok5)
      /\ c6 \in Seq(Checked) /\ (Pass(c6) => ok6)
      /\ c7 \in Seq(Checked) /\ (Pass(c7) => ok7)
      /\ c8 \in Seq(Checked) /\ (Pass(c8) => ok8)
  BY <1>1, <1>2, OneOfProcess
<1> DEFINE d2 == c1 \o c2
           d3 == d2 \o c3
           d4 == d3 \o c4
           d5 == d4 \o c5
           d6 == d5 \o c6
           d7 == d6 \o c7
           d8 == d7 \o c8
<1>8. ProcessChecks(e) = d8 \o tables
  BY <1>4
<1> HIDE DEF c1, c2, c3, c4, c5, c6, c7, c8
<1>12. d2 \in Seq(Checked) /\ (Pass(d2) => ok1 /\ ok2)
  BY <1>6, Both
<1> HIDE DEF d2
<1>13. d3 \in Seq(Checked) /\ (Pass(d3) => ok1 /\ ok2 /\ ok3)
  BY <1>6, <1>12, Both
<1> HIDE DEF d3
<1>14. d4 \in Seq(Checked) /\ (Pass(d4) => ok1 /\ ok2 /\ ok3)
  BY <1>6, <1>13, Both
<1> HIDE DEF d4
<1>15. d5 \in Seq(Checked) /\ (Pass(d5) => ok1 /\ ok2 /\ ok3 /\ ok5)
  BY <1>7, <1>14, Both
<1> HIDE DEF d5
<1>16. d6 \in Seq(Checked) /\ (Pass(d6) => ok1 /\ ok2 /\ ok3 /\ ok5 /\ ok6)
  BY <1>7, <1>15, Both
<1> HIDE DEF d6
<1>17. d7 \in Seq(Checked) /\ (Pass(d7) => ok1 /\ ok2 /\ ok3 /\ ok5 /\ ok6 /\ ok7)
  BY <1>7, <1>16, Both
<1> HIDE DEF d7
<1>18. d8 \in Seq(Checked) /\ (Pass(d8) => ok1 /\ ok2 /\ ok3 /\ ok5 /\ ok6 /\ ok7 /\ ok8)
  BY <1>7, <1>17, Both
<1> HIDE DEF d8
<1> QED BY <1>3, <1>5, <1>8, <1>18, Both

LEMMA RequiredList ==
  ASSUME NEW e
  PROVE  RequiredChecks(e) \in Seq(Checked)
<1> DEFINE there(i) == DataMode(e) = "real" => \A k \in Required[StoreNames[i]] : Get(e, k) # ""
<1>1. \A i \in 1 .. 3 : StoreNames[i] \in StoreSet
  BY DEF StoreNames, StoreSet
<1>2. \A s \in StoreSet : Required[s] \in Named
  <2>1. \A s \in StoreSet, name \in SettingNames : << s, name >> \in Setting
    BY DEF Setting
  <2>2. << "hive", "HOST" >> \in Setting /\ << "hive", "DATABASE" >> \in Setting
    BY <2>1 DEF StoreSet, SettingNames
  <2>3. Required["hive"] \in Named
    BY <2>2 DEF Required, StoreSet, Named
  <2>4. /\ << "trino", "HOST" >> \in Setting /\ << "trino", "USER" >> \in Setting
        /\ << "trino", "CATALOG" >> \in Setting /\ << "trino", "SCHEMA" >> \in Setting
    BY <2>1 DEF StoreSet, SettingNames
  <2>5. Required["trino"] \in Named
    BY <2>4 DEF Required, StoreSet, Named
  <2>6. /\ << "starrocks", "HOST" >> \in Setting /\ << "starrocks", "USERNAME" >> \in Setting
        /\ << "starrocks", "DATABASE" >> \in Setting
    BY <2>1 DEF StoreSet, SettingNames
  <2>7. Required["starrocks"] \in Named
    BY <2>6 DEF Required, StoreSet, Named
  <2> QED BY <2>3, <2>5, <2>7 DEF StoreSet
<1>3. \A i \in 1 .. 3 : there(i) \in BOOLEAN
  OBVIOUS
<1>4. RequiredChecks(e) = [i \in 1 .. 3 |-> [named |-> Required[StoreNames[i]], ok |-> there(i)]]
  BY DEF RequiredChecks
<1> HIDE DEF there
<1>5. \A i \in 1 .. 3 : RequiredChecks(e)[i] \in Checked
  BY <1>1, <1>2, <1>3, <1>4 DEF Checked
<1>6. RequiredChecks(e) = [i \in 1 .. 3 |-> RequiredChecks(e)[i]]
  BY <1>4
<1> QED BY <1>5, <1>6, Three

LEMMA AllLists ==
  ASSUME NEW e, NEW d
  PROVE  /\ Checks(e, d) \in Seq(Checked)
         /\ Pass(Checks(e, d)) => ProcessSettled(e) /\ \A s \in StoreSet : PoolsLimited(e, s)
<1> DEFINE a == ProcessChecks(e)
           b == a \o StoreChecks(e, d, "hive")
           c == b \o StoreChecks(e, d, "trino")
           f == c \o StoreChecks(e, d, "starrocks")
<1>1. "hive" \in StoreSet /\ "trino" \in StoreSet /\ "starrocks" \in StoreSet
  BY DEF StoreSet
<1>2. Checks(e, d) = f \o RequiredChecks(e)
  BY DEF Checks
<1>3. a \in Seq(Checked) /\ (Pass(a) => ProcessSettled(e))
  BY ProcessList
<1> HIDE DEF a
<1>4. b \in Seq(Checked) /\ (Pass(b) => ProcessSettled(e) /\ PoolsLimited(e, "hive"))
  BY <1>1, <1>3, StoreList, Both
<1> HIDE DEF b
<1>5. /\ c \in Seq(Checked)
      /\ Pass(c) => ProcessSettled(e) /\ PoolsLimited(e, "hive") /\ PoolsLimited(e, "trino")
  BY <1>1, <1>4, StoreList, Both
<1> HIDE DEF c
<1>6. /\ f \in Seq(Checked)
      /\ Pass(f) => /\ ProcessSettled(e) /\ PoolsLimited(e, "hive")
                    /\ PoolsLimited(e, "trino") /\ PoolsLimited(e, "starrocks")
  BY <1>1, <1>5, StoreList, Both
<1> HIDE DEF f
<1>7. /\ f \o RequiredChecks(e) \in Seq(Checked)
      /\ Pass(f \o RequiredChecks(e)) => Pass(f)
  BY <1>6, RequiredList, Both
<1> QED BY <1>2, <1>6, <1>7 DEF StoreSet

-----------------------------------------------------------------------------
(* What Load accepts. *)

\* A configuration the rest of the start can work with.
Servable(c) ==
  /\ c.mode \in {"memory", "real"}
  /\ c.apiKey # ""
  /\ c.timezone \in Zones
  /\ c.timeout > 0
  /\ c.maxDays >= 1
  /\ c.window >= 1
  /\ c.historical \in {"hive", "trino"}
  /\ \A i \in 1 .. 3 : c.tables[i] \in Identifiers
  /\ \A s \in StoreSet : /\ c.stores[s].maxOpen \in Int /\ c.stores[s].maxOpen >= 1
                         /\ c.stores[s].maxIdle \in Int /\ c.stores[s].maxIdle >= 0

\* Whatever the environment and the disk hold, the configuration Load returns
\* without an error has every number, name and choice in the range that the
\* constructors, the pools and the planner rely on.
THEOREM AcceptedSettings ==
  ASSUME NEW e, NEW d, Refusal(e, d) = {}
  PROVE  Servable(Config(e))
<1>1. ProcessSettled(e) /\ \A s \in StoreSet : PoolsLimited(e, s)
  BY AllLists, NoneFailed
<1>2. The(QueryTimeout(e)) > 0
  BY <1>1, ParsedDuration DEF ProcessSettled, QueryTimeout
<1>3. The(MaxQueryDays(e)) >= 1
  <2>1. \E v \in MaxQueryDays(e) : v >= 1
    BY <1>1 DEF ProcessSettled
  <2> QED BY <2>1, CheckedInt DEF MaxQueryDays
<1>4. The(WindowDays(e)) >= 1
  <2>1. \E v \in WindowDays(e) : v >= 1
    BY <1>1 DEF ProcessSettled
  <2> QED BY <2>1, CheckedInt DEF WindowDays
<1>5. ASSUME NEW s \in StoreSet
      PROVE  /\ The(MaxOpenConns(e, s)) \in Int /\ The(MaxOpenConns(e, s)) >= 1
             /\ The(MaxIdleConns(e, s)) \in Int /\ The(MaxIdleConns(e, s)) >= 0
  <2>1. (\E v \in MaxOpenConns(e, s) : v >= 1) /\ (\E v \in MaxIdleConns(e, s) : v >= 0)
    BY <1>1 DEF PoolsLimited
  <2>2. The(MaxOpenConns(e, s)) \in Int /\ The(MaxOpenConns(e, s)) >= 1
    BY <2>1, CheckedInt DEF MaxOpenConns
  <2>3. The(MaxIdleConns(e, s)) \in Int /\ The(MaxIdleConns(e, s)) >= 0
    BY <2>1, CheckedInt DEF MaxIdleConns
  <2> QED BY <2>2, <2>3
<1>6. \A s \in StoreSet :
        /\ Config(e).stores[s].maxOpen = The(MaxOpenConns(e, s))
        /\ Config(e).stores[s].maxIdle = The(MaxIdleConns(e, s))
  BY DEF Config, StoreConfig
<1>7. /\ Config(e).mode = DataMode(e) /\ Config(e).apiKey = Trim(Get(e, Key("API_KEY")))
      /\ Config(e).timezone = Timezone(e) /\ Config(e).timeout = The(QueryTimeout(e))
      /\ Config(e).maxDays = The(MaxQueryDays(e)) /\ Config(e).window = The(WindowDays(e))
      /\ Config(e).historical = Historical(e)
      /\ \A i \in 1 .. 3 : Config(e).tables[i] = Table(e, i)
  BY DEF Config
<1> QED BY <1>1, <1>2, <1>3, <1>4, <1>5, <1>6, <1>7 DEF Servable, ProcessSettled

-----------------------------------------------------------------------------
(* The start. *)

\* How a store is opened if it is opened: with the TLS client its settings ask
\* for, whatever the disk held in the meantime, and a limited pool.
AsConfigured(c, s) ==
  [store |-> s,
   tls |-> IF c.stores[s].tls
             THEN {[roots |-> c.stores[s].files[1],
                    cert |-> << c.stores[s].files[2], c.stores[s].files[3] >>]}
             ELSE {},
   pool |-> Pool(c.stores[s])]

\* Everything after Load works with a configuration Load accepted, and what is open
\* was opened as that configuration says; a start that has not loaded one, or has
\* been refused, holds nothing open.
StartupInv ==
  /\ stage \in {"loading", "opening", "wiring", "built", "refused"}
  /\ stage \in {"loading", "refused"} => opened = << >>
  /\ stage \in {"opening", "wiring", "built"} => Servable(cfg)
  /\ opened \in Seq({AsConfigured(cfg, s) : s \in StoreSet})

LEMMA StartupInit == Init => StartupInv
BY EmptySeq DEF Init, StartupInv

LEMMA StartupStep == StartupInv /\ [Next]_vars => StartupInv'
<1> SUFFICES ASSUME StartupInv, [Next]_vars
             PROVE  StartupInv'
  OBVIOUS
<1> USE DEF StartupInv
<1>1. CASE Load
  <2>1. CASE Refusal(env, disk) # {}
    BY <1>1, <2>1, EmptySeq DEF Load, Refuse
  <2>2. CASE Refusal(env, disk) = {}
    <3>1. cfg' = Config(env) /\ stage' \in {"opening", "wiring"} /\ opened' = << >>
      BY <1>1, <2>2 DEF Load
    <3>2. Servable(cfg')
      BY <2>2, <3>1, AcceptedSettings
    <3> QED BY <3>1, <3>2, EmptySeq
  <2> QED BY <2>1, <2>2
<1>2. CASE OpenNext
  <2> DEFINE s == StoreNames[Len(opened) + 1]
             c == cfg.stores[s]
             stores == {AsConfigured(cfg, x) : x \in StoreSet}
  <2>1. Len(opened) \in Nat /\ stage = "opening" /\ Len(opened) < 3 /\ cfg' = cfg
    BY <1>2, LenProperties DEF OpenNext
  <2>2. s \in StoreSet
    <3>1. Len(opened) + 1 \in 1 .. 3
      BY <2>1
    <3> QED BY <3>1 DEF StoreNames, StoreSet
  <2>3. CASE c.tls /\ TLSOf(c) = {}
    BY <1>2, <2>3, EmptySeq DEF OpenNext, Refuse
  <2>4. CASE ~ (c.tls /\ TLSOf(c) = {})
    <3>1. /\ opened' = Append(opened, [store |-> s, tls |-> TLSOf(c), pool |-> Pool(c)])
          /\ stage' = stage
      BY <1>2, <2>4 DEF OpenNext
    <3>2. TLSOf(c) = IF c.tls THEN {[roots |-> c.files[1], cert |-> << c.files[2], c.files[3] >>]}
                              ELSE {}
      BY <2>4 DEF TLSOf, LoadTLS
    <3>3. [store |-> s, tls |-> TLSOf(c), pool |-> Pool(c)] = AsConfigured(cfg, s)
      BY <3>2 DEF AsConfigured
    <3> HIDE DEF s, c
    <3>4. opened' \in Seq(stores)
      BY <2>2, <3>1, <3>3, AppendProperties
    <3> QED BY <2>1, <3>1, <3>4
  <2> QED BY <2>3, <2>4
<1>3. CASE BuildStatements
  <2>1. \A i \in 1 .. 3 : cfg.tables[i] \in TableIdentifiers
    BY <1>3 DEF BuildStatements, Servable, TableIdentifiers
  <2> QED BY <1>3, <2>1 DEF BuildStatements
<1>4. CASE Wire
  <2>1. Wirable
    BY <1>4 DEF Wire, Wirable, Servable
  <2> QED BY <1>4, <2>1 DEF Wire
<1>5. CASE Repair
  BY <1>5, EmptySeq DEF Repair
<1>6. ASSUME NEW p \in Paths, DiskChanges(p)
      PROVE  StartupInv'
  BY <1>6 DEF DiskChanges
<1>7. CASE UNCHANGED vars
  BY <1>7 DEF vars
<1> QED BY <1>1, <1>2, <1>3, <1>4, <1>5, <1>6, <1>7 DEF Next, Process

LEMMA StartupInvariant == Spec => []StartupInv
BY StartupInit, StartupStep, PTL DEF Spec

\* What Load accepted never fails in NewHiveBuilder, NewBoundBuilder,
\* NewQueryService, httpapi.New or buildWith, which look at it again, and the limits
\* those do not look at are real.
THEOREM AcceptedStarts == Spec => []AcceptedIsServable
<1>1. StartupInv => AcceptedIsServable
  BY DEF StartupInv, AcceptedIsServable, Servable
<1> QED BY <1>1, StartupInvariant, PTL

\* Every database the openers return has a pool with a limit, whatever was
\* configured: database/sql never reads an accepted setting as "unlimited".
THEOREM OpenedPoolsAreBounded == Spec => []PoolsAreBounded
<1>1. StartupInv => PoolsAreBounded
  <2> SUFFICES ASSUME StartupInv, NEW i \in DOMAIN opened
               PROVE  opened[i].pool.open >= 1 /\ opened[i].pool.idle <= opened[i].pool.open
    BY DEF PoolsAreBounded
  <2>1. PICK s \in StoreSet : opened[i] = AsConfigured(cfg, s)
    BY ElementOfSeq, LenProperties DEF StartupInv
  <2>2. Servable(cfg)
    <3>1. opened # << >>
      OBVIOUS
    <3> QED BY <3>1 DEF StartupInv
  <2>3. /\ cfg.stores[s].maxOpen \in Int /\ cfg.stores[s].maxOpen >= 1
        /\ cfg.stores[s].maxIdle \in Int /\ cfg.stores[s].maxIdle >= 0
    BY <2>2 DEF Servable
  <2>4. opened[i].pool = Pool(cfg.stores[s])
    BY <2>1 DEF AsConfigured
  <2> QED BY <2>3, <2>4 DEF Pool, OpenLimit, IdleLimit
<1> QED BY <1>1, StartupInvariant, PTL

\* A store with TLS enabled is opened with the roots and the certificate it was
\* configured with, or the start is refused, although the files that Load saw may
\* have changed before the opener reads them, any number of times.
THEOREM TLSIsNeverDropped == Spec => []TLSAsConfigured
<1>1. StartupInv => TLSAsConfigured
  <2> SUFFICES ASSUME StartupInv, NEW i \in DOMAIN opened
               PROVE  LET c == cfg.stores[opened[i].store] IN
                      c.tls => opened[i].tls = {[roots |-> c.files[1],
                                                 cert |-> << c.files[2], c.files[3] >>]}
    BY DEF TLSAsConfigured
  <2>1. PICK s \in StoreSet : opened[i] = AsConfigured(cfg, s)
    BY ElementOfSeq, LenProperties DEF StartupInv
  <2> QED BY <2>1 DEF AsConfigured
<1> QED BY <1>1, StartupInvariant, PTL

-----------------------------------------------------------------------------
(* What a repair does to the checks. *)

\* The settings ks are set as an operator sets them that an error names.
Repaired(e, d, ks) ==
  \A k \in ks :
    IF k[2] \in ToSet(FileKeys) THEN Get(e, k) # "" /\ Exists(d, Get(e, k))
    ELSE IF k = Key("API_KEY") \/ k \in UNION {Required[s] : s \in StoreSet}
           THEN Get(e, k) = "x"
           ELSE Get(e, k) = ""

LEMMA FileKeySet == ToSet(FileKeys) = {"TLS_CA_FILE", "TLS_CERT_FILE", "TLS_KEY_FILE"}
<1>1. DOMAIN FileKeys = {1, 2, 3}
  BY DEF FileKeys
<1>2. FileKeys[1] = "TLS_CA_FILE" /\ FileKeys[2] = "TLS_CERT_FILE" /\ FileKeys[3] = "TLS_KEY_FILE"
  BY DEF FileKeys
<1> QED BY <1>1, <1>2 DEF ToSet

LEMMA RequiredSet ==
  UNION {Required[s] : s \in StoreSet} =
    StoreSet \X {"HOST"} \cup {<< "hive", "DATABASE" >>, << "trino", "USER" >>,
      << "trino", "CATALOG" >>, << "trino", "SCHEMA" >>, << "starrocks", "USERNAME" >>,
      << "starrocks", "DATABASE" >>}
<1>1. /\ Required["hive"] = {<< "hive", "HOST" >>, << "hive", "DATABASE" >>}
      /\ Required["trino"] = {<< "trino", "HOST" >>, << "trino", "USER" >>,
                              << "trino", "CATALOG" >>, << "trino", "SCHEMA" >>}
      /\ Required["starrocks"] = {<< "starrocks", "HOST" >>, << "starrocks", "USERNAME" >>,
                                  << "starrocks", "DATABASE" >>}
  BY DEF Required, StoreSet
<1>2. UNION {Required[s] : s \in StoreSet}
        = Required["hive"] \cup Required["trino"] \cup Required["starrocks"]
  BY DEF StoreSet
<1> QED BY <1>1, <1>2 DEF StoreSet

\* Names of settings that have a default.
Defaulted ==
  {"APP_TIMEZONE", "QUERY_TIMEOUT", "SHUTDOWN_TIMEOUT", "MAX_QUERY_DAYS",
   "REALTIME_WINDOW_DAYS", "HISTORICAL_SOURCE", "DATA_MODE", "TABLE_PREFIX", "TABLE_RETAIL",
   "TABLE_RENOVATION", "PORT", "TLS_ENABLED", "MAX_OPEN_CONNS", "MAX_IDLE_CONNS",
   "CONN_MAX_LIFETIME", "CONN_MAX_IDLE_TIME", "DIAL_TIMEOUT", "READ_TIMEOUT", "WRITE_TIMEOUT"}

Owners == StoreSet \cup {""}

\* The setting has its default.  (By name: the provers confuse the empty string with
\* numbers.)
Blank(e, k) == Trim(Get(e, k)) = ""

LEMMA RepairedDefault ==
  ASSUME NEW e, NEW d, NEW ks, Repaired(e, d, ks),
         NEW s \in Owners, NEW name \in Defaulted, << s, name >> \in ks
  PROVE  Blank(e, << s, name >>)
<1>1. << s, name >> # Key("API_KEY") /\ << s, name >> \notin UNION {Required[x] : x \in StoreSet}
  BY RequiredSet DEF Key, Defaulted, StoreSet
<1>2. << s, name >>[2] \notin ToSet(FileKeys)
  BY FileKeySet DEF Defaulted
<1>3. Get(e, << s, name >>) = ""
  BY <1>1, <1>2 DEF Repaired
<1> QED BY <1>3 DEF Trim, Blank

LEMMA BlankText ==
  ASSUME NEW e, NEW k, NEW default, Blank(e, k)
  PROVE  StringDefault(e, k, default) = default
BY DEF StringDefault, Blank

LEMMA BlankTruth ==
  ASSUME NEW e, NEW k, NEW default \in BOOLEAN, Blank(e, k)
  PROVE  BoolDefault(e, k, default) # {}
BY DEF BoolDefault, Parse, Blank

LEMMA BlankNumber ==
  ASSUME NEW e, NEW k, NEW n \in Int, Blank(e, k)
  PROVE  IntDefault(e, k, n) = {n}
BY DEF IntDefault, Parse, Blank

LEMMA BlankDuration ==
  ASSUME NEW e, NEW k, NEW n \in Int, n > 0, Blank(e, k)
  PROVE  DurationDefault(e, k, n) = {n}
<1>1. Parse(e, k, Seconds, n) = {n}
  BY DEF Parse, Blank
<1> QED BY <1>1 DEF DurationDefault

LEMMA RepairedNumber ==
  ASSUME NEW e, NEW d, NEW ks, Repaired(e, d, ks),
         NEW s \in Owners, NEW name \in Defaulted, << s, name >> \in ks,
         NEW n \in Int, n > 0
  PROVE  IntDefault(e, << s, name >>, n) = {n} /\ DurationDefault(e, << s, name >>, n) = {n}
<1>1. Blank(e, << s, name >>)
  BY RepairedDefault
<1> QED BY <1>1, BlankNumber, BlankDuration

LEMMA DurationsAreInts ==
  ASSUME NEW e, NEW k, NEW n \in Int
  PROVE  DurationDefault(e, k, n) \subseteq Int
<1>1. \A x \in DOMAIN Seconds : Seconds[x] \in Int
  BY DEF Seconds
<1> QED BY <1>1 DEF DurationDefault, Parse

LEMMA AllOwn == StoreSet \subseteq Owners /\ \A name : \E s \in Owners : Key(name) = << s, name >>
BY DEF Owners, Key

\* Checks that no longer fail for those settings alone.
Fixed(ks) == {c \in Checked : c.named \subseteq ks => c.ok}

LEMMA FixedOne ==
  ASSUME NEW ks, NEW ns \in Named, NEW ok \in BOOLEAN, ns \subseteq ks => ok
  PROVE  Check(ns, ok) \in Seq(Fixed(ks))
<1>1. [named |-> ns, ok |-> ok] \in Fixed(ks)
  BY DEF Fixed, Checked
<1> QED BY <1>1 DEF Check

LEMMA FixedBoth ==
  ASSUME NEW ks, NEW s \in Seq(Fixed(ks)), NEW t \in Seq(Fixed(ks))
  PROVE  s \o t \in Seq(Fixed(ks))
BY ConcatProperties

LEMMA FixedThree ==
  ASSUME NEW ks, NEW f, f = [i \in 1 .. 3 |-> f[i]], \A i \in 1 .. 3 : f[i] \in Fixed(ks)
  PROVE  f \in Seq(Fixed(ks))
<1>1. f \in [1 .. 3 -> Fixed(ks)]
  OBVIOUS
<1> QED BY <1>1, SeqDef

LEMMA FixedOfStore ==
  ASSUME NEW ks, NEW s \in StoreSet, NEW name \in SettingNames, NEW ok \in BOOLEAN,
         << s, name >> \in ks => ok
  PROVE  Check({<< s, name >>}, ok) \in Seq(Fixed(ks))
BY KeysAreSettings, FixedOne

LEMMA FixedOfProcess ==
  ASSUME NEW ks, NEW name \in SettingNames, NEW ok \in BOOLEAN, Key(name) \in ks => ok
  PROVE  Check({Key(name)}, ok) \in Seq(Fixed(ks))
BY KeysAreSettings, FixedOne

LEMMA ProcessFixed ==
  ASSUME NEW e, NEW d, NEW ks, Repaired(e, d, ks)
  PROVE  ProcessChecks(e) \in Seq(Fixed(ks))
<1> DEFINE ok1 == Trim(Get(e, Key("API_KEY"))) # ""
           ok2 == Timezone(e) \in Zones
           ok3 == QueryTimeout(e) # {}
           ok4 == DurationDefault(e, Key("SHUTDOWN_TIMEOUT"), 15) # {}
           ok5 == \E v \in MaxQueryDays(e) : v >= 1
           ok6 == \E v \in WindowDays(e) : v >= 1
           ok7 == Historical(e) \in {"hive", "trino"}
           ok8 == DataMode(e) \in {"memory", "real"}
           c1 == Check({Key("API_KEY")}, ok1)
           c2 == Check({Key("APP_TIMEZONE")}, ok2)
           c3 == Check({Key("QUERY_TIMEOUT")}, ok3)
           c4 == Check({Key("SHUTDOWN_TIMEOUT")}, ok4)
           c5 == Check({Key("MAX_QUERY_DAYS")}, ok5)
           c6 == Check({Key("REALTIME_WINDOW_DAYS")}, ok6)
           c7 == Check({Key("HISTORICAL_SOURCE")}, ok7)
           c8 == Check({Key("DATA_MODE")}, ok8)
           tables == [i \in 1 .. 3 |-> [named |-> {TableKeys[i]},
                                        ok |-> Table(e, i) \in Identifiers]]
<1>1. /\ "API_KEY" \in SettingNames /\ "APP_TIMEZONE" \in SettingNames
      /\ "QUERY_TIMEOUT" \in SettingNames /\ "SHUTDOWN_TIMEOUT" \in SettingNames
      /\ "MAX_QUERY_DAYS" \in SettingNames /\ "REALTIME_WINDOW_DAYS" \in SettingNames
      /\ "HISTORICAL_SOURCE" \in SettingNames /\ "DATA_MODE" \in SettingNames
  BY DEF SettingNames
<1>2. /\ ok1 \in BOOLEAN /\ ok2 \in BOOLEAN /\ ok3 \in BOOLEAN /\ ok4 \in BOOLEAN
      /\ ok5 \in BOOLEAN /\ ok6 \in BOOLEAN /\ ok7 \in BOOLEAN /\ ok8 \in BOOLEAN
  OBVIOUS
<1>3. ASSUME NEW name \in Defaulted, Key(name) \in ks PROVE Blank(e, Key(name))
  BY <1>3, RepairedDefault, AllOwn
<1>4. /\ "APP_TIMEZONE" \in Defaulted /\ "QUERY_TIMEOUT" \in Defaulted
      /\ "SHUTDOWN_TIMEOUT" \in Defaulted /\ "MAX_QUERY_DAYS" \in Defaulted
      /\ "REALTIME_WINDOW_DAYS" \in Defaulted /\ "HISTORICAL_SOURCE" \in Defaulted
      /\ "DATA_MODE" \in Defaulted
  BY DEF Defaulted
<1>5. Key("API_KEY") \in ks => ok1
  <2> SUFFICES ASSUME Key("API_KEY") \in ks PROVE ok1
    OBVIOUS
  <2>1. Key("API_KEY")[2] \notin ToSet(FileKeys)
    BY FileKeySet DEF Key
  <2>2. Get(e, Key("API_KEY")) = "x"
    BY <2>1 DEF Repaired
  <2> QED BY <2>2 DEF Trim
<1>6. /\ Key("APP_TIMEZONE") \in ks => ok2
      /\ Key("HISTORICAL_SOURCE") \in ks => ok7
      /\ Key("DATA_MODE") \in ks => ok8
  BY <1>3, <1>4, BlankText DEF Timezone, Historical, DataMode, Zones
<1>7. /\ Key("QUERY_TIMEOUT") \in ks => ok3
      /\ Key("SHUTDOWN_TIMEOUT") \in ks => ok4
  <2>1. Key("QUERY_TIMEOUT") \in ks => DurationDefault(e, Key("QUERY_TIMEOUT"), 10) = {10}
    BY <1>4, RepairedNumber, AllOwn
  <2>2. Key("SHUTDOWN_TIMEOUT") \in ks => DurationDefault(e, Key("SHUTDOWN_TIMEOUT"), 15) = {15}
    BY <1>4, RepairedNumber, AllOwn
  <2> QED BY <2>1, <2>2 DEF QueryTimeout
<1>8. /\ Key("MAX_QUERY_DAYS") \in ks => ok5
      /\ Key("REALTIME_WINDOW_DAYS") \in ks => ok6
  <2>1. Key("MAX_QUERY_DAYS") \in ks => IntDefault(e, Key("MAX_QUERY_DAYS"), 366) = {366}
    BY <1>4, RepairedNumber, AllOwn
  <2>2. Key("REALTIME_WINDOW_DAYS") \in ks => IntDefault(e, Key("REALTIME_WINDOW_DAYS"), 3) = {3}
    BY <1>4, RepairedNumber, AllOwn
  <2> QED BY <2>1, <2>2 DEF MaxQueryDays, WindowDays
<1>9. tables \in Seq(Fixed(ks))
  <2>1. ASSUME NEW i \in 1 .. 3 PROVE tables[i] \in Fixed(ks)
    <3>1. PICK name \in {"TABLE_PREFIX", "TABLE_RETAIL", "TABLE_RENOVATION"} :
            TableKeys[i] = Key(name)
      BY DEF TableKeys
    <3>2. name \in SettingNames /\ name \in Defaulted
      BY DEF SettingNames, Defaulted
    <3>3. Key(name) \in ks => Table(e, i) \in Identifiers
      <4>1. Key(name) \in ks => StringDefault(e, TableKeys[i], "analytics") = "analytics"
        BY <1>3, <3>1, <3>2, BlankText
      <4> QED BY <4>1 DEF Table, Identifiers
    <3>4. {TableKeys[i]} \in Named /\ (Table(e, i) \in Identifiers) \in BOOLEAN
      BY <3>1, <3>2, KeysAreSettings
    <3> QED BY <3>1, <3>3, <3>4 DEF Fixed, Checked
  <2>2. tables = [i \in 1 .. 3 |-> tables[i]]
    OBVIOUS
  <2> HIDE DEF tables
  <2> QED BY <2>1, <2>2, FixedThree
<1>10. ProcessChecks(e) = (((((((c1 \o c2) \o c3) \o c4) \o c5) \o c6) \o c7) \o c8) \o tables
  BY DEF ProcessChecks, Parses, AtLeast
<1> HIDE DEF ok1, ok2, ok3, ok4, ok5, ok6, ok7, ok8, tables
<1>11. /\ c1 \in Seq(Fixed(ks)) /\ c2 \in Seq(Fixed(ks)) /\ c3 \in Seq(Fixed(ks))
       /\ c4 \in Seq(Fixed(ks)) /\ c5 \in Seq(Fixed(ks)) /\ c6 \in Seq(Fixed(ks))
       /\ c7 \in Seq(Fixed(ks)) /\ c8 \in Seq(Fixed(ks))
  BY <1>1, <1>2, <1>5, <1>6, <1>7, <1>8, FixedOfProcess
<1> HIDE DEF c1, c2, c3, c4, c5, c6, c7, c8
<1>12. ((c1 \o c2) \o c3) \o c4 \in Seq(Fixed(ks))
  <2>1. c1 \o c2 \in Seq(Fixed(ks))
    BY <1>11, FixedBoth
  <2>2. (c1 \o c2) \o c3 \in Seq(Fixed(ks))
    BY <1>11, <2>1, FixedBoth
  <2> QED BY <1>11, <2>2, FixedBoth
<1> DEFINE half == ((c1 \o c2) \o c3) \o c4
<1>13. half \in Seq(Fixed(ks)) /\ ProcessChecks(e) = ((((half \o c5) \o c6) \o c7) \o c8) \o tables
  BY <1>10, <1>12
<1> HIDE DEF half
<1>14. (half \o c5) \o c6 \in Seq(Fixed(ks))
  <2>1. half \o c5 \in Seq(Fixed(ks))
    BY <1>11, <1>13, FixedBoth
  <2> QED BY <1>11, <2>1, FixedBoth
<1>15. (((half \o c5) \o c6) \o c7) \o c8 \in Seq(Fixed(ks))
  <2>1. ((half \o c5) \o c6) \o c7 \in Seq(Fixed(ks))
    BY <1>11, <1>14, FixedBoth
  <2> QED BY <1>11, <2>1, FixedBoth
<1> QED BY <1>9, <1>13, <1>15, FixedBoth

LEMMA TLSFixed ==
  ASSUME NEW e, NEW d, NEW ks, Repaired(e, d, ks), NEW s \in StoreSet
  PROVE  TLSChecks(e, d, s) \in Seq(Fixed(ks))
<1>1. /\ "TLS_ENABLED" \in SettingNames /\ "TLS_ENABLED" \in Defaulted
      /\ \A i \in 1 .. 3 : FileKeys[i] \in SettingNames /\ FileKeys[i] \in ToSet(FileKeys)
  BY FileKeySet DEF SettingNames, FileKeys, Defaulted
<1> DEFINE parse == Parses(<< s, "TLS_ENABLED" >>, Enabled(e, s))
           both == (File(e, s, 2) = "") = (File(e, s, 3) = "")
           pair == Check({<< s, FileKeys[2] >>, << s, FileKeys[3] >>}, both)
           exists(i) == File(e, s, i) # "" => Exists(d, File(e, s, i))
           files == [i \in 1 .. 3 |-> [named |-> {<< s, FileKeys[i] >>}, ok |-> exists(i)]]
<1>2. parse \in Seq(Fixed(ks))
  <2>1. << s, "TLS_ENABLED" >> \in ks => Enabled(e, s) # {}
    <3> SUFFICES ASSUME << s, "TLS_ENABLED" >> \in ks PROVE Enabled(e, s) # {}
      OBVIOUS
    <3>1. Blank(e, << s, "TLS_ENABLED" >>)
      BY <1>1, RepairedDefault, AllOwn
    <3> QED BY <3>1, BlankTruth DEF Enabled
  <2>2. (Enabled(e, s) # {}) \in BOOLEAN
    OBVIOUS
  <2> QED BY <1>1, <2>1, <2>2, FixedOfStore DEF Parses
<1>3. ASSUME NEW i \in 1 .. 3, << s, FileKeys[i] >> \in ks
      PROVE  File(e, s, i) # "" /\ exists(i)
  <2>1. << s, FileKeys[i] >>[2] \in ToSet(FileKeys)
    BY <1>1
  <2> QED BY <1>3, <2>1 DEF Repaired, File
<1>4. pair \in Seq(Fixed(ks))
  <2>1. << s, FileKeys[2] >> \in Setting /\ << s, FileKeys[3] >> \in Setting
    <3>1. FileKeys[2] \in SettingNames /\ FileKeys[3] \in SettingNames
      BY <1>1
    <3> HIDE DEF pair
    <3> QED BY <3>1 DEF Setting
  <2>2. {<< s, FileKeys[2] >>, << s, FileKeys[3] >>} \in Named
    BY <2>1 DEF Named
  <2>3. {<< s, FileKeys[2] >>, << s, FileKeys[3] >>} \subseteq ks => both
    <3> SUFFICES ASSUME << s, FileKeys[2] >> \in ks, << s, FileKeys[3] >> \in ks PROVE both
      OBVIOUS
    <3>1. File(e, s, 2) # "" /\ File(e, s, 3) # ""
      <4> DEFINE given(i) == File(e, s, i) # ""
      <4>1. \A i \in 1 .. 3 : << s, FileKeys[i] >> \in ks => given(i)
        BY <1>3
      <4> HIDE DEF given, both, pair, files, parse, exists
      <4>2. given(2) /\ given(3)
        BY <4>1
      <4> QED BY <4>2 DEF given
    <3> QED BY <3>1
  <2>4. both \in BOOLEAN
    OBVIOUS
  <2> HIDE DEF both
  <2> QED BY <2>2, <2>3, <2>4, FixedOne
<1>5. files \in Seq(Fixed(ks))
  <2>1. \A i \in 1 .. 3 : exists(i) \in BOOLEAN /\ {<< s, FileKeys[i] >>} \in Named
    BY <1>1, KeysAreSettings
  <2>2. \A i \in 1 .. 3 : << s, FileKeys[i] >> \in ks => exists(i)
    BY <1>3
  <2> HIDE DEF exists
  <2>3. \A i \in 1 .. 3 : files[i] \in Fixed(ks)
    BY <2>1, <2>2 DEF Fixed, Checked
  <2>4. files = [i \in 1 .. 3 |-> files[i]]
    OBVIOUS
  <2> HIDE DEF files
  <2> QED BY <2>3, <2>4, FixedThree
<1>6. TLSChecks(e, d, s) \in {parse \o << >>, parse \o (pair \o files)}
  BY DEF TLSChecks
<1> HIDE DEF parse, pair, files
<1>7. << >> \in Seq(Fixed(ks)) /\ pair \o files \in Seq(Fixed(ks))
  BY <1>4, <1>5, FixedBoth, EmptySeq
<1> QED BY <1>2, <1>6, <1>7, FixedBoth

\* Ports have a default within their range.
LEMMA PortFixed ==
  ASSUME NEW e, NEW d, NEW ks, Repaired(e, d, ks), NEW s \in StoreSet
  PROVE  PortChecks(e, s) \in Seq(Fixed(ks))
<1>1. PICK range : /\ PortChecks(e, s) =
                          Check({<< s, "PORT" >>}, IntDefault(e, << s, "PORT" >>, 8080) \cap range # {})
                   /\ 8080 \in range
  <2> DEFINE all == 1 .. 65535
  <2>1. PortChecks(e, s) = Check({<< s, "PORT" >>}, IntDefault(e, << s, "PORT" >>, 8080) \cap all # {})
    BY DEF PortChecks
  <2>2. 8080 \in all
    OBVIOUS
  <2> HIDE DEF all
  <2> QED BY <2>1, <2>2
<1> DEFINE ok == IntDefault(e, << s, "PORT" >>, 8080) \cap range # {}
<1>2. "PORT" \in SettingNames /\ "PORT" \in Defaulted
  BY DEF SettingNames, Defaulted
<1>3. << s, "PORT" >> \in ks => IntDefault(e, << s, "PORT" >>, 8080) = {8080}
  BY <1>2, RepairedNumber, AllOwn
<1>4. ok \in BOOLEAN /\ (<< s, "PORT" >> \in ks => ok)
  BY <1>1, <1>3
<1>5. PortChecks(e, s) = Check({<< s, "PORT" >>}, ok)
  BY <1>1
<1> HIDE DEF ok
<1> QED BY <1>2, <1>4, <1>5, FixedOfStore

LEMMA PoolFixed ==
  ASSUME NEW e, NEW d, NEW ks, Repaired(e, d, ks), NEW s \in StoreSet
  PROVE  PoolChecks(e, s) \in Seq(Fixed(ks))
<1> DEFINE ok1 == MaxOpenConns(e, s) # {}
           ok2 == MaxIdleConns(e, s) # {}
           ok3 == DurationDefault(e, << s, "CONN_MAX_LIFETIME" >>, 1800) # {}
           ok4 == DurationDefault(e, << s, "CONN_MAX_IDLE_TIME" >>, 300) # {}
           ok5 == \E v \in MaxOpenConns(e, s) : v >= 1
           ok6 == \E v \in MaxIdleConns(e, s) : v >= 0
           c1 == Check({<< s, "MAX_OPEN_CONNS" >>}, ok1)
           c2 == Check({<< s, "MAX_IDLE_CONNS" >>}, ok2)
           c3 == Check({<< s, "CONN_MAX_LIFETIME" >>}, ok3)
           c4 == Check({<< s, "CONN_MAX_IDLE_TIME" >>}, ok4)
           c5 == Check({<< s, "MAX_OPEN_CONNS" >>}, ok5)
           c6 == Check({<< s, "MAX_IDLE_CONNS" >>}, ok6)
<1>1. \A name \in {"MAX_OPEN_CONNS", "MAX_IDLE_CONNS", "CONN_MAX_LIFETIME",
                   "CONN_MAX_IDLE_TIME"} : name \in SettingNames /\ name \in Defaulted
  BY DEF SettingNames, Defaulted
<1>2. /\ ok1 \in BOOLEAN /\ ok2 \in BOOLEAN /\ ok3 \in BOOLEAN
      /\ ok4 \in BOOLEAN /\ ok5 \in BOOLEAN /\ ok6 \in BOOLEAN
  OBVIOUS
<1>3. << s, "MAX_OPEN_CONNS" >> \in ks => ok1 /\ ok5
  <2>1. << s, "MAX_OPEN_CONNS" >> \in ks => MaxOpenConns(e, s) = {10}
    BY <1>1, RepairedNumber, AllOwn DEF MaxOpenConns
  <2> QED BY <2>1
<1>4. << s, "MAX_IDLE_CONNS" >> \in ks => ok2 /\ ok6
  <2>1. << s, "MAX_IDLE_CONNS" >> \in ks => MaxIdleConns(e, s) = {5}
    BY <1>1, RepairedNumber, AllOwn DEF MaxIdleConns
  <2> QED BY <2>1
<1>5. << s, "CONN_MAX_LIFETIME" >> \in ks => ok3
  <2>1. << s, "CONN_MAX_LIFETIME" >> \in ks =>
          DurationDefault(e, << s, "CONN_MAX_LIFETIME" >>, 1800) = {1800}
    BY <1>1, RepairedNumber, AllOwn
  <2> QED BY <2>1
<1>6. << s, "CONN_MAX_IDLE_TIME" >> \in ks => ok4
  <2>1. << s, "CONN_MAX_IDLE_TIME" >> \in ks =>
          DurationDefault(e, << s, "CONN_MAX_IDLE_TIME" >>, 300) = {300}
    BY <1>1, RepairedNumber, AllOwn
  <2> QED BY <2>1
<1>7. PoolChecks(e, s) = ((((c1 \o c2) \o c3) \o c4) \o c5) \o c6
  BY DEF PoolChecks, PoolParses, Parses, AtLeast
<1> HIDE DEF ok1, ok2, ok3, ok4, ok5, ok6
<1>8. /\ c1 \in Seq(Fixed(ks)) /\ c2 \in Seq(Fixed(ks))
      /\ c3 \in Seq(Fixed(ks)) /\ c4 \in Seq(Fixed(ks)) /\ c5 \in Seq(Fixed(ks))
      /\ c6 \in Seq(Fixed(ks))
  BY <1>1, <1>2, <1>3, <1>4, <1>5, <1>6, FixedOfStore
<1> HIDE DEF c1, c2, c3, c4, c5, c6
<1>9. (c1 \o c2) \o c3 \in Seq(Fixed(ks))
  <2>1. c1 \o c2 \in Seq(Fixed(ks))
    BY <1>8, FixedBoth
  <2> QED BY <1>8, <2>1, FixedBoth
<1>10. (((c1 \o c2) \o c3) \o c4) \o c5 \in Seq(Fixed(ks))
  <2>1. ((c1 \o c2) \o c3) \o c4 \in Seq(Fixed(ks))
    BY <1>8, <1>9, FixedBoth
  <2> QED BY <1>8, <2>1, FixedBoth
<1> QED BY <1>7, <1>8, <1>10, FixedBoth

\* TRINO_QUERY_TIMEOUT's default is QUERY_TIMEOUT.
LEMMA TimeoutFixed ==
  ASSUME NEW e, NEW d, NEW ks, Repaired(e, d, ks), NEW s \in StoreSet, QueryTimeout(e) # {}
  PROVE  TimeoutChecks(e, s) \in Seq(Fixed(ks))
<1> DEFINE ok0 == UNION {DurationDefault(e, << s, "QUERY_TIMEOUT" >>, t) : t \in QueryTimeout(e)} # {}
           ok1 == DurationDefault(e, << s, "DIAL_TIMEOUT" >>, 10) # {}
           ok2 == DurationDefault(e, << s, "READ_TIMEOUT" >>, 10) # {}
           ok3 == DurationDefault(e, << s, "WRITE_TIMEOUT" >>, 10) # {}
           c0 == Check({<< s, "QUERY_TIMEOUT" >>}, ok0)
           c1 == Check({<< s, "DIAL_TIMEOUT" >>}, ok1)
           c2 == Check({<< s, "READ_TIMEOUT" >>}, ok2)
           c3 == Check({<< s, "WRITE_TIMEOUT" >>}, ok3)
<1>1. \A name \in {"QUERY_TIMEOUT", "DIAL_TIMEOUT", "READ_TIMEOUT", "WRITE_TIMEOUT"} :
        name \in SettingNames /\ name \in Defaulted
  BY DEF SettingNames, Defaulted
<1>2. ok0 \in BOOLEAN /\ ok1 \in BOOLEAN /\ ok2 \in BOOLEAN /\ ok3 \in BOOLEAN
  OBVIOUS
<1>3. << s, "QUERY_TIMEOUT" >> \in ks => ok0
  <2> SUFFICES ASSUME << s, "QUERY_TIMEOUT" >> \in ks PROVE ok0
    OBVIOUS
  <2>1. PICK t \in QueryTimeout(e) : TRUE
    OBVIOUS
  <2>2. t \in Int /\ t > 0
    BY DurationsAreInts DEF QueryTimeout, DurationDefault
  <2>3. Blank(e, << s, "QUERY_TIMEOUT" >>)
    BY <1>1, RepairedDefault, AllOwn
  <2>4. DurationDefault(e, << s, "QUERY_TIMEOUT" >>, t) = {t}
    <3> HIDE DEF ok0, ok1, ok2, ok3
    <3> QED BY <2>2, <2>3, BlankDuration
  <2> QED BY <2>4
<1>4. /\ << s, "DIAL_TIMEOUT" >> \in ks => ok1
      /\ << s, "READ_TIMEOUT" >> \in ks => ok2
      /\ << s, "WRITE_TIMEOUT" >> \in ks => ok3
  <2>1. \A name \in {"DIAL_TIMEOUT", "READ_TIMEOUT", "WRITE_TIMEOUT"} :
          << s, name >> \in ks => DurationDefault(e, << s, name >>, 10) = {10}
    BY <1>1, RepairedNumber, AllOwn
  <2> QED BY <2>1
<1>5. TimeoutChecks(e, s) \in {<< >>, c0, (c1 \o c2) \o c3}
  BY DEF TimeoutChecks, Parses, StoreSet
<1> HIDE DEF ok0, ok1, ok2, ok3
<1>6. /\ c0 \in Seq(Fixed(ks)) /\ c1 \in Seq(Fixed(ks)) /\ c2 \in Seq(Fixed(ks))
      /\ c3 \in Seq(Fixed(ks)) /\ << >> \in Seq(Fixed(ks))
  BY <1>1, <1>2, <1>3, <1>4, FixedOfStore, EmptySeq
<1> HIDE DEF c0, c1, c2, c3
<1>7. (c1 \o c2) \o c3 \in Seq(Fixed(ks))
  <2>1. c1 \o c2 \in Seq(Fixed(ks))
    BY <1>6, FixedBoth
  <2> QED BY <1>6, <2>1, FixedBoth
<1> QED BY <1>5, <1>6, <1>7

LEMMA RequiredFixed ==
  ASSUME NEW e, NEW d, NEW ks, Repaired(e, d, ks)
  PROVE  RequiredChecks(e) \in Seq(Fixed(ks))
<1>1. ASSUME NEW i \in 1 .. 3 PROVE RequiredChecks(e)[i] \in Fixed(ks)
  <2> DEFINE s == StoreNames[i]
             ok == DataMode(e) = "real" => \A k \in Required[s] : Get(e, k) # ""
  <2>1. s \in StoreSet
    BY DEF StoreNames, StoreSet
  <2>2. RequiredChecks(e)[i] = [named |-> Required[s], ok |-> ok] /\ ok \in BOOLEAN
    BY DEF RequiredChecks
  <2>3. RequiredChecks(e)[i] \in Checked
    <3>1. RequiredChecks(e) \in Seq(Checked)
      BY RequiredList
    <3>2. i \in DOMAIN RequiredChecks(e)
      BY DEF RequiredChecks
    <3> HIDE DEF s, ok
    <3> QED BY <3>1, <3>2, ElementOfSeq, LenProperties
  <2>4. ASSUME Required[s] \subseteq ks, NEW k \in Required[s] PROVE Get(e, k) = "x"
    <3>1. k \in ks /\ k \in UNION {Required[x] : x \in StoreSet}
      BY <2>1, <2>4
    <3>2. k[2] \notin ToSet(FileKeys)
      BY <3>1, RequiredSet, FileKeySet
    <3> QED BY <3>1, <3>2 DEF Repaired
  <2>5. Required[s] \subseteq ks => ok
    BY <2>4
  <2> HIDE DEF ok, s
  <2> QED BY <2>2, <2>3, <2>5 DEF Fixed
<1>2. RequiredChecks(e) = [i \in 1 .. 3 |-> RequiredChecks(e)[i]]
  BY DEF RequiredChecks
<1> QED BY <1>1, <1>2, FixedThree

LEMMA StoreFixed ==
  ASSUME NEW e, NEW d, NEW ks, Repaired(e, d, ks), NEW s \in StoreSet, QueryTimeout(e) # {}
  PROVE  StoreChecks(e, d, s) \in Seq(Fixed(ks))
<1>1. PortChecks(e, s) \o TLSChecks(e, d, s) \in Seq(Fixed(ks))
  BY PortFixed, TLSFixed, FixedBoth
<1>2. (PortChecks(e, s) \o TLSChecks(e, d, s)) \o PoolChecks(e, s) \in Seq(Fixed(ks))
  BY <1>1, PoolFixed, FixedBoth
<1> QED BY <1>2, TimeoutFixed, FixedBoth DEF StoreChecks

\* A list that begins with the elements of another one still does when it is extended.
Begins(u, s) == Len(s) <= Len(u) /\ \A i \in 1 .. Len(s) : u[i] = s[i]

LEMMA StillBegins ==
  ASSUME NEW u \in Seq(Checked), NEW t \in Seq(Checked), NEW s \in Seq(Checked), Begins(u, s)
  PROVE  Begins(u \o t, s)
<1>1. Len(u) \in Nat /\ Len(t) \in Nat /\ Len(s) \in Nat
  BY LenProperties
<1>2. /\ Len(u \o t) = Len(u) + Len(t)
      /\ \A i \in 1 .. Len(u) + Len(t) : (u \o t)[i] = IF i <= Len(u) THEN u[i] ELSE t[i - Len(u)]
  BY ConcatProperties
<1> QED BY <1>1, <1>2 DEF Begins

\* A list that begins with checks of which one fails reports one of those.
LEMMA FailsFirst ==
  ASSUME NEW s \in Seq(Checked), NEW u \in Seq(Checked), ~ Pass(s), Begins(u, s),
         NEW failed, failed = {i \in DOMAIN u : ~ u[i].ok}
  PROVE  failed # {} /\ Min(failed) \in DOMAIN s /\ u[Min(failed)] = s[Min(failed)]
<1>1. /\ Len(s) \in Nat /\ DOMAIN s = 1 .. Len(s)
      /\ Len(u) \in Nat /\ DOMAIN u = 1 .. Len(u)
  BY LenProperties
<1>2. Len(s) <= Len(u) /\ \A i \in 1 .. Len(s) : u[i] = s[i]
  BY DEF Begins
<1>3. PICK j \in DOMAIN s : ~ s[j].ok
  BY DEF Pass
<1>4. j \in 1 .. Len(s) /\ j \in DOMAIN u /\ u[j] = s[j]
  BY <1>1, <1>2
<1>5. j \in failed /\ failed \in SUBSET Nat /\ \A m \in failed : m \in 1 .. Len(u)
  BY <1>1, <1>3, <1>4
<1>6. Min(failed) \in 1 .. Len(u) /\ Min(failed) <= j
  BY <1>5, FirstExists
<1>7. \A m \in 1 .. Len(u), n \in 1 .. Len(s) : m <= n => m \in 1 .. Len(s)
  BY <1>1
<1>8. Min(failed) \in 1 .. Len(s)
  BY <1>4, <1>6, <1>7
<1> QED BY <1>1, <1>2, <1>5, <1>8

\* What is corrected is not reported by the next start.
LEMMA NotReportedAgain ==
  ASSUME NEW e, NEW d, NEW ks, Repaired(e, d, ks), Refusal(e, d) \subseteq ks
  PROVE  Refusal(e, d) = {}
<1> DEFINE own == ProcessChecks(e)
           hive == StoreChecks(e, d, "hive")
           trino == StoreChecks(e, d, "trino")
           starrocks == StoreChecks(e, d, "starrocks")
           checks == Checks(e, d)
           failed == {i \in DOMAIN checks : ~ checks[i].ok}
<1>1. /\ "hive" \in StoreSet /\ "trino" \in StoreSet /\ "starrocks" \in StoreSet
  BY DEF StoreSet
<1>2. checks = (((own \o hive) \o trino) \o starrocks) \o RequiredChecks(e)
  BY DEF Checks
<1>3. Refusal(e, d) = IF failed = {} THEN {} ELSE checks[Min(failed)].named
  BY DEF Refusal, FirstFailed
<1>4. checks \in Seq(Checked) /\ own \in Seq(Checked) /\ own \in Seq(Fixed(ks))
  BY AllLists, ProcessList, ProcessFixed
<1>5. CASE failed # {} /\ QueryTimeout(e) # {}
  <2>1. /\ hive \in Seq(Fixed(ks)) /\ trino \in Seq(Fixed(ks)) /\ starrocks \in Seq(Fixed(ks))
        /\ RequiredChecks(e) \in Seq(Fixed(ks))
    BY <1>1, <1>5, StoreFixed, RequiredFixed
  <2> HIDE DEF own, hive, trino, starrocks, checks
  <2>2. own \o hive \in Seq(Fixed(ks))
    BY <1>4, <2>1, FixedBoth
  <2>3. (own \o hive) \o trino \in Seq(Fixed(ks))
    BY <2>1, <2>2, FixedBoth
  <2>4. ((own \o hive) \o trino) \o starrocks \in Seq(Fixed(ks))
    BY <2>1, <2>3, FixedBoth
  <2>5. checks \in Seq(Fixed(ks))
    BY <1>2, <2>1, <2>4, FixedBoth
  <2>6. failed \in SUBSET Nat
    BY <1>4, LenProperties
  <2>7. Min(failed) \in failed
    BY <1>5, <2>6, FirstExists
  <2>8. checks[Min(failed)] \in Fixed(ks)
    BY <2>5, <2>7, ElementOfSeq, LenProperties
  <2> QED BY <1>3, <1>5, <2>7, <2>8 DEF Fixed
<1>6. CASE QueryTimeout(e) = {}
  <2>1. ~ Pass(own)
    BY <1>6, ProcessList DEF ProcessSettled
  <2>2. /\ hive \in Seq(Checked) /\ trino \in Seq(Checked) /\ starrocks \in Seq(Checked)
        /\ RequiredChecks(e) \in Seq(Checked)
    BY <1>1, StoreList, RequiredList
  <2> HIDE DEF own, hive, trino, starrocks, checks
  <2>3. own \o hive \in Seq(Checked) /\ Begins(own \o hive, own)
    <3>1. Begins(own, own)
      BY <1>4, LenProperties DEF Begins
    <3> QED BY <1>4, <2>2, <3>1, Both, StillBegins
  <2>4. (own \o hive) \o trino \in Seq(Checked) /\ Begins((own \o hive) \o trino, own)
    BY <1>4, <2>2, <2>3, Both, StillBegins
  <2>5. /\ ((own \o hive) \o trino) \o starrocks \in Seq(Checked)
        /\ Begins(((own \o hive) \o trino) \o starrocks, own)
    BY <1>4, <2>2, <2>4, Both, StillBegins
  <2>6. failed # {} /\ Min(failed) \in DOMAIN own /\ checks[Min(failed)] = own[Min(failed)]
    <3>1. Begins(checks, own)
      BY <1>2, <1>4, <2>2, <2>5, StillBegins
    <3> QED BY <1>4, <2>1, <3>1, FailsFirst
  <2>7. Min(failed) \in failed
    <3>1. failed \in SUBSET Nat
      BY <1>4, LenProperties
    <3> QED BY <2>6, <3>1, FirstExists
  <2>8. own[Min(failed)] \in Fixed(ks)
    BY <1>4, <2>6, ElementOfSeq, LenProperties
  <2> QED BY <1>3, <2>6, <2>7, <2>8 DEF Fixed
<1> QED BY <1>3, <1>5, <1>6

\* Repair sets what an error names so that no check of it alone can fail.
LEMMA RepairRepairs ==
  ASSUME Repair
  PROVE  Repaired(env', disk', named)
<1> DEFINE set(k) == The(Corrected(k))
<1>1. /\ env' = [k \in (DOMAIN env \ named) \cup {n \in named : Corrected(n) # {}} |->
                   IF k \in named THEN set(k) ELSE env[k]]
      /\ disk' = [p \in Paths |-> IF \E k \in named : Get(env', k) = p THEN "good" ELSE disk[p]]
  BY DEF Repair
<1>2. \A x : The({x}) = x
  BY DEF The
<1>3. ASSUME NEW k \in named, k[2] \in ToSet(FileKeys)
      PROVE  Get(env', k) # "" /\ Exists(disk', Get(env', k))
  <2> DEFINE file == IF Get(env, k) \in Paths THEN env[k] ELSE The(Paths)
  <2>1. Corrected(k) = {file}
    BY <1>3 DEF Corrected
  <2>2. file \in Paths
    BY StartupAssumption DEF Get, The
  <2>3. Get(env', k) = file
    BY <1>1, <1>2, <1>3, <2>1 DEF Get
  <2>4. disk'[file] = "good" /\ file \in DOMAIN disk'
    BY <1>1, <2>2, <2>3
  <2> QED BY <2>2, <2>3, <2>4, StartupAssumption DEF Exists
<1>4. ASSUME NEW k \in named, k[2] \notin ToSet(FileKeys),
             k = Key("API_KEY") \/ k \in UNION {Required[s] : s \in StoreSet}
      PROVE  Get(env', k) = "x"
  <2>1. Corrected(k) = {"x"}
    BY <1>4 DEF Corrected
  <2> QED BY <1>1, <1>2, <1>4, <2>1 DEF Get
<1>5. ASSUME NEW k \in named, k[2] \notin ToSet(FileKeys),
             ~ (k = Key("API_KEY") \/ k \in UNION {Required[s] : s \in StoreSet})
      PROVE  Get(env', k) = ""
  <2>1. Corrected(k) = {}
    BY <1>5 DEF Corrected
  <2> QED BY <1>1, <1>5, <2>1 DEF Get
<1> QED BY <1>3, <1>4, <1>5 DEF Repaired

\* Whatever the environment and the files, an error is gone when what it names has been
\* corrected: no start is refused for settings the operator has just set as asked.
THEOREM ErrorsAreCorrectable == Spec => ErrorsGoWhenCorrected
<1>1. Repair => Refusal(env', disk') = {} \/ ~ (Refusal(env', disk') \subseteq named)
  BY RepairRepairs, NotReportedAgain
<1>2. [Next]_vars => [Repair => \/ Refusal(env', disk') = {}
                                \/ ~ (Refusal(env', disk') \subseteq named)]_vars
  BY <1>1
<1> QED BY <1>2, PTL DEF Spec, ErrorsGoWhenCorrected

===============================================================================
