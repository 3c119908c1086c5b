--------------------------------- MODULE Inputs ---------------------------------
(***************************************************************************)
(* The parameters of a business query: what parseQuery accepts, and what   *)
(* the Hive statement builder accepts of that when it quotes the texts for *)
(* a second time, in the goroutine of a segment, by a check of its own.    *)
(* A text is its length and the kinds of characters in it.                 *)
(***************************************************************************)
EXTENDS Naturals, FiniteSets

Kinds == {"letter", "digit", "underscore", "hyphen", "quote", "other"}

Text(n, kinds) == [length |-> n, has |-> kinds]

\* Texts around the limits of length, of every mixture of kinds.
Texts == {Text(0, {})} \cup
         {t \in {Text(n, kinds) : n \in {1, 6, 64, 65}, kinds \in SUBSET Kinds} :
            t.has # {} /\ Cardinality(t.has) <= t.length}

\* A date as the range formats it again.
DateText == Text(10, {"digit", "hyphen"})

\* Dates are Calendar's subject: here they are a range or not.
Queries == [source : {"", "auto", "hive", "trino", "starrocks", "memory"},
            org : Texts,
            dates : {"a range", "no date", "reversed", "too long"}]

\* ParseSource
KnownSource(s) == s \in {"auto", "hive", "trino", "starrocks"}

\* ValidateOrgID: the pattern's characters, one to sixty-four of them.
\* Fault: any printable text.
ShortText(org) == org.length \in 1 .. 64

ValidOrgID(org) ==
  /\ org.length \in 1 .. 64
  /\ org.has \subseteq {"letter", "digit", "underscore", "hyphen"}

\* parseQuery
Accepted(q) == KnownSource(q.source) /\ ValidOrgID(q.org) /\ q.dates = "a range"

\* hiveLiteralSafe
LiteralSafe(t) ==
  /\ t.length > 0
  /\ t.has \ {"letter", "digit", "underscore", "hyphen"} = {}

\* mustQuoteHive panics unless the texts of a segment's query are safe; statements
\* for Trino and StarRocks bind them.
MayReadHive(q) == q.source \in {"hive", "auto"}

Panics(q) == MayReadHive(q) /\ ~ (LiteralSafe(q.org) /\ LiteralSafe(DateText))

AcceptedQueries == {q \in Queries : Accepted(q)}
===============================================================================
