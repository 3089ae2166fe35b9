------------------------------ MODULE MCAdapters ------------------------------
(* The adapters side by side, and the schema reports made through them: a behaviour is a *)
(* behaviour of one of them.                                                             *)
EXTENDS PostgresAdapter, MySQLAdapter, SQLiteAdapter, MongoAdapter, RedisAdapter, MCDescribe

CONSTANTS c1, c2, c3, s1, s2

VARIABLE dialect

ThreeCalls == {c1, c2, c3}
TwoCalls == {c1, c2}
OneCall == {c1}
TwoSessions == {s1, s2}

\* Pages that end before, at and after the three documents, and caps below, at and above them.
MongoArguments ==
    [action : {"find", "aggregate"}, limit : {0, 1, 4}, offset : {0, 1, 4}, maxRows : {0, 1, 2},
     valid : {TRUE}] \cup {[NoRequest EXCEPT !.valid = FALSE]}

\* A SQLite adapter is born opening, with its guard's timer set; where it has no part it is open.
LiteRests ==
    /\ db = TRUE /\ file = "open" /\ connecting = "resolved" /\ openSettled = TRUE
    /\ openFailed = FALSE /\ faulted = FALSE /\ interrupted = FALSE
    /\ promise = [c \in LiteCalls |-> "none"] /\ driver = [c \in LiteCalls |-> "none"]
    /\ inFlight = {} /\ closePromise = "no" /\ fatal = FALSE

MCInit ==
    /\ dialect \in {"postgres", "mysql", "sqlite", "mongodb", "redis", "schema"}
    /\ PgInit /\ (dialect = "postgres" \/ shared)
    /\ MyInit /\ (dialect = "mysql" \/ myShared)
    /\ IF dialect = "sqlite" THEN LiteInit ELSE LiteRests
    /\ MongoInit
    /\ RedisInit /\ (dialect = "redis" \/ (cluster /\ masters))
    /\ DescribeInit
    /\ dialect = "schema" \/ (source = [dialect |-> "redis", full |-> FALSE, catalogue |-> <<>>]
                              /\ options.limit = 0)

MCNext ==
    /\ UNCHANGED dialect
    /\ \/ dialect = "postgres" /\ PgNext /\ UNCHANGED <<myVars, liteVars, mongoVars, redisVars, describeVars>>
       \/ dialect = "mysql" /\ MyNext /\ UNCHANGED <<pgVars, liteVars, mongoVars, redisVars, describeVars>>
       \/ dialect = "sqlite" /\ LiteNext /\ UNCHANGED <<pgVars, myVars, mongoVars, redisVars, describeVars>>
       \/ dialect = "mongodb" /\ MongoStep /\ UNCHANGED <<pgVars, myVars, liteVars, redisVars, describeVars>>
       \/ dialect = "redis" /\ RedisNext /\ UNCHANGED <<pgVars, myVars, liteVars, mongoVars, describeVars>>
       \/ dialect = "schema" /\ DescribeNext
          /\ UNCHANGED <<pgVars, myVars, liteVars, mongoVars, redisVars>>

MCSpec == MCInit /\ [][MCNext]_<<dialect, pgVars, myVars, liteVars, mongoVars, redisVars, describeVars>>

\* The steps fairness speaks of are not enabled in a part at rest.
MCFairSpec == MCSpec /\ PgAnswers /\ LiteTimers /\ CatalogueAnswers

\* The variables of the five adapters, and of the schema report, have their types.
AdaptersTypeOK ==
    /\ PgTypeOK /\ MyTypeOK /\ LiteTypeOK /\ MongoTypeOK /\ RedisTypeOK
    /\ dialect = "schema" => DescribeTypeOK

\* What a capped read leaves out is said, and nothing else is said to be missing
\* (MongoReadsArePages, RedisTellsWhatIsMissing).
ReadsTellWhatIsMissing == MongoReadsArePages /\ RedisTellsWhatIsMissing
=============================================================================
