------------------------------- MODULE MCStartup -------------------------------
(***************************************************************************)
(* Environments of both modes in which any two settings are unset, blank,  *)
(* unusable or at a limit, and one store has TLS settings of any kind.     *)
(***************************************************************************)
EXTENDS Startup

Memory == [k \in {Key("API_KEY")} |-> "x"]

RequiredKeys == UNION {Required[s] : s \in StoreSet}

Real == [k \in {Key("API_KEY"), Key("DATA_MODE")} \cup RequiredKeys |->
           IF k = Key("DATA_MODE") THEN "real" ELSE "x"]

Set(e, k, v) == [x \in DOMAIN e \cup {k} |-> IF x = k THEN v ELSE e[x]]

\* Settings with values worth a try.
Trials ==
  {<< Key("API_KEY"), v >> : v \in {"", " "}}
  \cup {<< Key("APP_TIMEZONE"), v >> : v \in {"UTC", "nowhere"}}
  \cup {<< Key("QUERY_TIMEOUT"), v >> : v \in {" ", "0s", "5s"}}
  \cup {<< Key("SHUTDOWN_TIMEOUT"), "-1s" >>, << Key("MAX_QUERY_DAYS"), "0" >>,
        << Key("REALTIME_WINDOW_DAYS"), "0" >>, << Key("REALTIME_WINDOW_DAYS"), "1" >>,
        << Key("HISTORICAL_SOURCE"), "trino" >>, << Key("HISTORICAL_SOURCE"), "starrocks" >>,
        << Key("DATA_MODE"), "other" >>,
        << TableKeys[2], "orders_daily" >>, << TableKeys[3], "orders-daily" >>}
  \cup {<< << s, "PORT" >>, v >> : s \in StoreSet, v \in {"0", "65536"}}
  \cup {<< << s, "MAX_OPEN_CONNS" >>, v >> : s \in StoreSet, v \in {"0", "1", "many"}}
  \cup {<< << s, "MAX_IDLE_CONNS" >>, v >> : s \in StoreSet, v \in {"-1", "0"}}
  \cup {<< << s, "CONN_MAX_LIFETIME" >>, "0s" >> : s \in StoreSet}
  \cup {<< << s, "CONN_MAX_IDLE_TIME" >>, "often" >> : s \in StoreSet}
  \cup {<< << "trino", "QUERY_TIMEOUT" >>, "0s" >>, << << "starrocks", "READ_TIMEOUT" >>, "0s" >>}
  \cup {<< k, v >> : k \in RequiredKeys, v \in {"", " "}}

Deviations ==
  UNION { {Set(Set(base, t[1], t[2]), u[1], u[2]) : t, u \in Trials} : base \in {Memory, Real} }

\* TLS of one store: each file named or not, and one of them somewhere else.
TLSKeys == {"TLS_ENABLED"} \cup ToSet(FileKeys)

TLSSettings ==
  {f \in [TLSKeys -> {"", "true", "maybe", "ca.pem", "id.pem", " "}] :
     /\ f["TLS_ENABLED"] \in {"", "true", "maybe"}
     /\ f["TLS_CA_FILE"] \in {"", "ca.pem", " "}
     /\ \A k \in {"TLS_CERT_FILE", "TLS_KEY_FILE"} : f[k] \in {"", "id.pem"}}

WithTLS ==
  {[k \in DOMAIN base \cup ({s} \X TLSKeys) |-> IF k \in DOMAIN base THEN base[k] ELSE f[k[2]]] :
     base \in {Memory, Real}, s \in StoreSet, f \in TLSSettings}

AllEnvironments == Deviations \cup WithTLS
===============================================================================
