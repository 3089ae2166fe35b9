------------------------------- MODULE MCParts -------------------------------
(* The parts that answer for themselves, side by side: a request and its gates, the profile it *)
(* connects with, the config file's writer, the log file, the rows schema reports are made of, *)
(* the result limits and the JSON walk.  A behaviour is one of them.                           *)
EXTENDS MCRequests, MCCredentials, ProfileWriter, LogSink, CatalogueRows, ResultLimits, Normalize

CONSTANTS n1, n2, e1, p1, i1, i2, i3

VARIABLE part

OneExporter == {e1}
TwoNames == {n1, n2}
ThreeInodes == {i1, i2, i3}
OneLogger == {p1}

\* An adapter that cut its rows says maxRows; a description is marked and no more, and so may
\* the answer of an embedder's adapter be, or say how many rows it left out.
Answer(array, sizes, mark, left) ==
    [array |-> array, sizes |-> sizes, left |-> left,
     marked |-> mark # "no", why |-> IF mark = "rows" THEN "maxRows" ELSE "none"]
MarkKinds == {"no", "bare", "rows"}
SomeAnswers ==
    {Answer(TRUE, sizes, mark, 0) : sizes \in UNION {[1 .. k -> {1, 4}] : k \in 0 .. 3}, mark \in MarkKinds}
    \cup {Answer(FALSE, <<size>>, mark, left) : size \in {1, 4, 9}, mark \in MarkKinds, left \in {0, 1}}
    \cup {Answer(TRUE, <<1, 1, 1>>, mark, 2) : mark \in MarkKinds}

Value(kind) == [kind |-> kind, fields |-> <<>>]
Record(fields) == [kind |-> "record", fields |-> fields]

\* Graphs of three objects: trees, shared objects, cycles of one and two, fields that hold
\* nothing, and chains deeper than the walk goes.
SomeGraphs ==
    {<<a, b, c>> :
        a \in {Record(<<2, 3>>), Record(<<2, 2, 3>>), Record(<<1, 2>>), Record(<<3, 0, 2>>), Value("leaf")},
        b \in {Value("leaf"), Value("throws"), Value("empty"), Record(<<>>), Record(<<3>>),
               Record(<<1>>), Record(<<3, 3>>)},
        c \in {Value("leaf"), Value("throws"), Record(<<2>>), Record(<<1, 2>>)}}

\* Two relations in two schemas, with the columns and the parts of each: names as in
\* public.users and auth.users, and the pair whose names run together when they are joined.
Relation(schema, table) == [schema |-> schema, table |-> table]
ColumnsNamed(r, n) == [k \in 1 .. n |-> [schema |-> r.schema, table |-> r.table, column |-> k]]
PartRow(r, name, kind, columns) ==
    [schema |-> r.schema, table |-> r.table, name |-> name, kind |-> kind, columns |-> columns]

Users == Relation(<<"public">>, <<"users">>)
AuthUsers == Relation(<<"auth">>, <<"users">>)
Spaced == <<Relation(<<"a">>, <<"b", "c">>), Relation(<<"a", "b">>, <<"c">>)>>
Orders == Relation(<<"main">>, <<"orders">>)
Lines == Relation(<<"main">>, <<"order", "lines">>)

\* PostgreSQL sends a part as one row, the others as a row for each of its columns.
Indexed(dialect, r, name, columns) ==
    IF dialect = "postgres" THEN <<PartRow(r, name, "index", columns)>>
    ELSE [k \in DOMAIN columns |-> PartRow(r, name, "index", <<columns[k]>>)]

CatalogOf(dialect, one, two, m, n) ==
    [dialect |-> dialect, relations |-> {one, two},
     columns |-> ColumnsNamed(one, m) \o ColumnsNamed(two, n),
     parts |-> Indexed(dialect, one, <<"i">>, <<1, 2>>) \o Indexed(dialect, two, <<"i">>, <<2>>)
               \o <<PartRow(one, <<"i">>, "foreign key", <<1>>), PartRow(two, <<"e">>, "index", <<>>),
                    PartRow(two, <<"t">>, "trigger", <<>>)>>
               \o IF dialect = "sqlite" THEN <<PartRow(one, <<"k">>, "key index", <<1>>)>> ELSE <<>>]

SomeCatalogs ==
    {CatalogOf("postgres", pair[1], pair[2], m, n) :
        pair \in {<<Users, AuthUsers>>, Spaced}, m \in 0 .. 4, n \in {1, 3}}
    \cup {CatalogOf(d, Orders, Lines, m, n) : d \in {"mysql", "sqlite"}, m \in 0 .. 4, n \in {0, 2}}
EmptyCatalog == [dialect |-> "sqlite", relations |-> {}, columns |-> <<>>, parts |-> <<>>]
CatalogsAndNone == SomeCatalogs \cup {EmptyCatalog}

\* The parts that do not run start anywhere, but in one place.
PartsInit ==
    /\ part \in {"requests", "credentials", "files", "log", "rows", "limits", "walk"}
    /\ part = "requests" \/ (env = Settings /\ config = MissingFile)
    /\ RequestInit
    /\ part = "credentials" \/ raw = Nowhere
    /\ CredentialsInit
    /\ part = "files" \/ (conf = NoInode /\ text = [i \in Inodes |-> File!Blank])
    /\ WriterInit
    /\ LogInit
    /\ part = "rows" \/ catalog = EmptyCatalog
    /\ RowsInit
    /\ part = "limits" \/ (payload = Answer(TRUE, <<>>, "no", 0)
                          /\ limits = [maxRows |-> 2, maxBytes |-> 1, format |-> "json", budget |-> 0])
    /\ LimitsInit
    /\ part = "walk" \/ graph = <<Value("leaf"), Value("leaf"), Value("leaf")>>
    /\ NormalInit

PartsNext ==
    /\ UNCHANGED part
    /\ \/ part = "requests" /\ RequestNext
          /\ UNCHANGED <<credentialVars, writerVars, logVars, rowVars, limitVars, normalVars>>
       \/ part = "credentials" /\ CredentialsNext
          /\ UNCHANGED <<requestVars, writerVars, logVars, rowVars, limitVars, normalVars>>
       \/ part = "files" /\ WriterNext
          /\ UNCHANGED <<requestVars, credentialVars, logVars, rowVars, limitVars, normalVars>>
       \/ part = "log" /\ LogNext
          /\ UNCHANGED <<requestVars, credentialVars, writerVars, rowVars, limitVars, normalVars>>
       \/ part = "rows" /\ RowsNext
          /\ UNCHANGED <<requestVars, credentialVars, writerVars, logVars, limitVars, normalVars>>
       \/ part = "limits" /\ LimitsNext
          /\ UNCHANGED <<requestVars, credentialVars, writerVars, logVars, rowVars, normalVars>>
       \/ part = "walk" /\ NormalNext
          /\ UNCHANGED <<requestVars, credentialVars, writerVars, logVars, rowVars, limitVars>>

PartsSpec ==
    PartsInit /\ [][PartsNext]_<<part, requestVars, credentialVars, writerVars, logVars, rowVars,
                                 limitVars, normalVars>>

\* The variables of the part that runs have their types.
PartsTypeOK ==
    /\ part = "requests" => RequestTypeOK
    /\ part = "credentials" => CredentialsTypeOK
    /\ part = "files" => WriterTypeOK
    /\ part = "log" => LogTypeOK
    /\ part = "rows" => RowsTypeOK
    /\ part = "limits" => LimitsTypeOK
    /\ part = "walk" => NormalTypeOK

\* A result is cut and rendered as it is marked, and what is rendered is the value the driver
\* gave (ResultsAreHonest, OutputUnfoldsTheGraph).
AnswersAreHonest == ResultsAreHonest /\ OutputUnfoldsTheGraph
=============================================================================
