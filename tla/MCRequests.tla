------------------------------ MODULE MCRequests ------------------------------
(* Values for the runs of Requests. *)
EXTENDS Requests, TLC

CONSTANTS c1, c2

OneCall == {c1}

Host(h) == [scheme |-> "postgres", host |-> h, spelling |-> "name"]
Loopback == [scheme |-> "postgres", host |-> "h1", spelling |-> "private"]
LocalFile(under, linksOut) ==
    [scheme |-> "sqlite", host |-> "none", spelling |-> "name",
     path |-> [memory |-> FALSE, absolute |-> TRUE, under |-> under, linksOut |-> linksOut]]

\* The profile, as three versions of the file have it: a production database that may be
\* read, a scratch database that may be changed, and a restricted one.
ReadOnlyEntry ==
    [NoEntry EXCEPT !.name = "db", !.uri = Host("h1")]
ScratchEntry ==
    [NoEntry EXCEPT !.name = "db", !.uri = Host("h2"), !.secret = "exec",
                    !.readOnly = "no", !.allowDestructive = "yes"]
LimitedEntry ==
    [NoEntry EXCEPT !.name = "db", !.uri = LocalFile({"root"}, FALSE), !.roots = {"root"},
                    !.readOnly = "no", !.tables = {"t1"}]
ThreeEntries == {ReadOnlyEntry, ScratchEntry, LimitedEntry}

Select == [blank |-> FALSE, reads |-> TRUE, code |-> FALSE, many |-> FALSE,
           destructive |-> FALSE, tables |-> {"t1"}]
Insert == [Select EXCEPT !.reads = FALSE, !.tables = {"t2"}]
Drop == [Insert EXCEPT !.destructive = TRUE]
Body == [Drop EXCEPT !.code = TRUE, !.many = TRUE]
Two == [Select EXCEPT !.many = TRUE]

ByName(statement) == [NoArgs EXCEPT !.named = TRUE, !.statement = statement]
AdHoc(uri, statement) == [NoArgs EXCEPT !.uri = uri, !.statement = statement]

SomeRequests ==
    {ByName(s) : s \in {Select, Insert, Drop}}
    \cup {[ByName(Drop) EXCEPT !.readOnly = "no", !.allowDestructive = a] : a \in {"yes", "no"}}
    \cup {[ByName(NoStatement) EXCEPT !.tool = "schema"]}
    \cup {AdHoc(u, Select) : u \in {Host("h1"), Loopback, LocalFile({}, FALSE), LocalFile({"root"}, TRUE)}}
    \cup {[AdHoc(Host("h1"), s) EXCEPT !.readOnly = "no"] : s \in {Insert, Body, Two}}
    \cup {[AdHoc(Host("h1"), Select) EXCEPT !.wellFormed = FALSE], NoArgs}

Settings == [readOnly |-> "unset", allowDestructive |-> "unset", adHoc |-> TRUE,
             restricts |-> FALSE, privateHosts |-> FALSE, strictPaths |-> FALSE,
             roots |-> {}, hosts |-> {}, schemes |-> {"postgres", "sqlite"}]

SomeEnvironments ==
    {Settings,
     [Settings EXCEPT !.adHoc = FALSE, !.allowDestructive = "yes", !.readOnly = "no"],
     [Settings EXCEPT !.restricts = TRUE, !.roots = {"root"}, !.hosts = {"h1"}]}

Schemes == {"postgres", "sqlite"}
=============================================================================
