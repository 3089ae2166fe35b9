------------------------------- MODULE Describe -------------------------------
(***************************************************************************)
(* describe() of the five schema adapters of src/src/core/schema.js, and a *)
(* client that walks the pages of its answer.  A call is a sequence of     *)
(* stages, each of which starts queries and waits for some; a query left   *)
(* waiting by an earlier stage runs beside the later ones, and its promise *)
(* has no handler until somebody waits for it.  The catalogue is the list  *)
(* of the database's objects, each by its number of columns.               *)
(***************************************************************************)
EXTENDS Naturals, Sequences, FiniteSets

CONSTANTS
    Catalogues,     \* the sequences of column counts a database may have
    MaxTables,      \* MAX_TABLES
    MaxColumns,     \* MAX_COLUMNS_PER_TABLE
    FanOut,         \* FAN_OUT
    Limits,         \* the values of "limit" a client may send; 0 is none
    MaxOffset,      \* bound of the model: a client gives up beyond this offset
    DescribeDialects

ASSUME CapsAssumption == {MaxTables, MaxColumns, FanOut} \subseteq Nat \ {0}
ASSUME CataloguesAssumption ==
    /\ Catalogues \subseteq Seq(Nat) /\ Limits \subseteq Nat /\ MaxOffset \in Nat
    /\ DescribeDialects \subseteq {"postgres", "mysql", "sqlite", "mongodb", "redis"}

VARIABLES
    source,     \* [dialect, full, catalogue]: what is asked of what, fixed for a walk
    options,    \* the paging options of the call
    atStage,      \* 0 between calls, or the stage the call is in
    query,      \* query -> "none", "running", "done", "swallowed" (failed, read as empty) or "rejected"
    items,      \* mapLimit(): how many were taken, and which are being worked on
    heard,      \* the queries somebody waits for, or waited for when they failed
    unhandled,  \* a promise was rejected that had no handler
    answer,     \* the last answer
    visited     \* the objects described so far on this walk, in order

describeVars == <<source, options, atStage, query, items, heard, unhandled, answer, visited>>

----------------------------------------------------------------------------
\* Paging.

\* readPaging(): a missing or zero limit is MAX_TABLES, which also caps it; an offset wins
\* over a page number.
Paging(opts) ==
    LET limit == IF opts.limit = 0 \/ opts.limit > MaxTables THEN MaxTables ELSE opts.limit
        offset == IF opts.offset > 0 THEN opts.offset ELSE (opts.page - 1) * limit
    IN  [limit |-> limit, offset |-> offset, page |-> (offset \div limit) + 1]

Objects == [i \in 1 .. Len(source.catalogue) |-> i]

\* The rows of the first query: LIMIT limit + 1 OFFSET offset, but listCollections() takes
\* neither and answers with everything.
ListedRows(paging) ==
    IF source.dialect = "mongodb" THEN Objects
    ELSE IF source.dialect = "redis" THEN <<>>
    ELSE SubSeq(Objects, paging.offset + 1,
                IF paging.offset + paging.limit + 1 > Len(Objects) THEN Len(Objects)
                ELSE paging.offset + paging.limit + 1)

\* The test the comment of pageReport warns of: a full page is taken for a cut one.
HasMore_FullPage(rows, paging) == Len(rows) >= paging.limit

\* splitPage(): the row too many says that there is more.
HasMore(rows, paging) == Len(rows) > paging.limit
PageOf(rows, paging) == IF HasMore(rows, paging) THEN SubSeq(rows, 1, paging.limit) ELSE rows

Width(i) == source.catalogue[i]
ColumnsUpTo(page, k) ==
    LET sum[i \in 0 .. Len(page)] == IF i = 0 THEN 0 ELSE sum[i - 1] + Width(page[i]) IN sum[k]
ColumnsOf(page) == ColumnsUpTo(page, Len(page))

\* columnRowLimit(): PostgreSQL and MySQL read the columns of all the page's tables in one
\* query, in table order, with one limit over all of them.
ColumnRowLimit(paging) == (paging.limit + 1) * (MaxColumns + 1)

RowsFor(page, k, paging) ==
    LET before == ColumnsUpTo(page, k - 1)
        left == IF ColumnRowLimit(paging) > before THEN ColumnRowLimit(paging) - before ELSE 0
    IN  IF source.dialect \in {"postgres", "mysql"} /\ left < Width(page[k]) THEN left
        ELSE Width(page[k])

\* groupByRelation(), groupByMysqlTable(), groupByName(): at most MaxColumns of the rows of a
\* table, and the row too many says that it was cut.
TableReport(page, k, paging) ==
    LET rows == RowsFor(page, k, paging)
        capped == source.dialect # "mongodb" /\ rows > MaxColumns
    IN  [object |-> page[k],
         columns |-> IF capped THEN MaxColumns ELSE rows,
         cut |-> capped]

\* pageReport().
Report ==
    LET paging == Paging(options)
        rows == ListedRows(paging)
        page == PageOf(rows, paging)
        tables == [k \in 1 .. Len(page) |-> TableReport(page, k, paging)]
        more == HasMore(rows, paging)
    IN  [given |-> TRUE, tables |-> tables, hasMore |-> more,
         page |-> paging.page,
         truncated |-> more \/ \E k \in DOMAIN tables : tables[k].cut,
         nextOffset |-> paging.offset + Len(page)]

NoAnswer == [given |-> FALSE, tables |-> <<>>, hasMore |-> FALSE, page |-> 0,
             truncated |-> FALSE, nextOffset |-> 0]

----------------------------------------------------------------------------
\* The stages of each describe().

Queries == {"names", "list", "columns", "constraints", "indexes", "keys", "sequences", "triggers",
            "file", "probe", "sections", "sample", "key", "census"}

Only(full, queries) == IF full THEN queries ELSE {}

\* describeFull() and postgresWideCatalogue(), mysqlWideCatalogue() (whose checks go with the
\* constraints of PostgreSQL), detailFull() and fileInfo().
PostgresFull == {"constraints", "indexes"}
PostgresWideCatalogue == {"sequences", "triggers"}
MySQLWideCatalogue == {"indexes", "keys", "constraints"}
SQLiteFull == {"keys", "indexes", "triggers", "file"}

PostgresStages(full) ==
    LET wide == Only(full, PostgresFull)
        catalogue == Only(full, PostgresWideCatalogue)
    IN  << [starts |-> {"names", "list"}, awaits |-> {"list"}],
           [starts |-> wide \cup {"columns"}, awaits |-> {"columns"}],
           [starts |-> {}, awaits |-> wide \cup {"names"}],
           [starts |-> catalogue, awaits |-> catalogue] >>

MySQLStages(full) ==
    LET wide == Only(full, MySQLWideCatalogue)
    IN  << [starts |-> {"names", "list"}, awaits |-> {"list"}],
           [starts |-> wide \cup {"columns"}, awaits |-> {"columns"}],
           [starts |-> {}, awaits |-> wide \cup {"names"}] >>

SQLiteStages(full) ==
    LET all == {"columns"} \cup Only(full, SQLiteFull)
    IN  << [starts |-> {"list"}, awaits |-> {"list"}],
           [starts |-> {"probe"}, awaits |-> {"probe"}],
           [starts |-> all, awaits |-> all] >>

\* The collections of a page are read by queries of their own; see TakeItem.
MongoStages == << [starts |-> {"list"}, awaits |-> {"list"}] >>

\* The INFO sections, a sample of key names, the key the call names, the census of types.
RedisStages(full) ==
    << [starts |-> {"sections"}, awaits |-> {"sections"}],
       [starts |-> {"sample"}, awaits |-> {"sample"}],
       [starts |-> {"key"}, awaits |-> {"key"}],
       [starts |-> Only(full, {"census"}), awaits |-> Only(full, {"census"})] >>

Stages ==
    CASE source.dialect = "postgres" -> PostgresStages(source.full)
      [] source.dialect = "mysql" -> MySQLStages(source.full)
      [] source.dialect = "sqlite" -> SQLiteStages(source.full)
      [] source.dialect = "mongodb" -> MongoStages
      [] source.dialect = "redis" -> RedisStages(source.full)

\* Queries with a catch() of their own: what they would have said is left out, in silence.
Swallowed ==
    CASE source.dialect = "postgres" -> {"names"} \cup PostgresWideCatalogue
      [] source.dialect = "mysql" -> {"names"} \cup MySQLWideCatalogue
      [] source.dialect = "sqlite" ->
            {"probe", "file"} \cup (IF query["probe"] = "swallowed"
                                    THEN {"columns", "keys", "indexes", "triggers"} ELSE {})
      [] source.dialect = "redis" -> Queries
      [] source.dialect = "mongodb" -> {}

Settled(q) == query[q] \in {"done", "swallowed"}
Awaited == IF atStage = 0 THEN {} ELSE Stages[atStage].awaits

\* mapLimit() over the page: the collections of MongoDB, and the tables of a SQLite that has
\* no pragma functions.
FansOut ==
    \/ source.dialect = "mongodb" /\ atStage = 1 /\ Settled("list")
    \/ source.dialect = "sqlite" /\ atStage = 3 /\ query["probe"] = "swallowed"
PageLength == Len(PageOf(ListedRows(Paging(options)), Paging(options)))
FanDone == ~FansOut \/ (items.next = PageLength /\ items.busy = {})
EmptyPage == atStage = 1 /\ source.dialect # "redis" /\ PageLength = 0
Runners == IF FanOut < PageLength THEN FanOut ELSE PageLength

----------------------------------------------------------------------------
\* Actions.

AtRest == [q \in Queries |-> "none"]
NoItems == [next |-> 0, busy |-> {}]

DescribeInit ==
    /\ source \in [dialect : DescribeDialects, full : BOOLEAN, catalogue : Catalogues]
    /\ options \in [limit : Limits, offset : {0}, page : {1}]
    /\ atStage = 0
    /\ query = AtRest /\ items = NoItems
    /\ heard = {} /\ unhandled = FALSE
    /\ answer = NoAnswer /\ visited = <<>>

Started(queries) == [q \in Queries |-> IF q \in queries THEN "running" ELSE query[q]]

\* The first call of the walk, and each next one: by nextOffset, or by the number of the page.
\* (Bound of the model: a client that was refused asks again when nothing is left running.)
BeginDescribe ==
    /\ atStage = 0
    /\ \A q \in Queries : query[q] # "running"
    /\ ~answer.given \/ (answer.hasMore /\ answer.nextOffset <= MaxOffset)
    /\ IF answer.given
       THEN options' \in {[options EXCEPT !.offset = answer.nextOffset],
                          [options EXCEPT !.page = answer.page + 1, !.offset = 0]}
       ELSE UNCHANGED options
    /\ atStage' = 1
    /\ query' = [q \in Queries |-> IF q \in Stages[1].starts THEN "running" ELSE "none"]
    /\ items' = NoItems
    /\ heard' = Stages[1].awaits
    /\ UNCHANGED <<source, unhandled, answer, visited>>

QueryAnswers(q) ==
    /\ query[q] = "running"
    /\ query' = [query EXCEPT ![q] = "done"]
    /\ UNCHANGED <<source, options, atStage, items, heard, unhandled, answer, visited>>

\* An error or the statement timeout.  The constraints and the indexes are one promise, of
\* Promise.all, whose second rejection is nobody's.
QueryFails(q) ==
    LET together == IF source.dialect = "postgres" /\ q \in PostgresFull THEN PostgresFull ELSE {q}
    IN  /\ query[q] = "running"
        /\ query' = [query EXCEPT ![q] = IF q \in Swallowed THEN "swallowed" ELSE "rejected"]
        /\ unhandled' = (unhandled \/ /\ q \notin Swallowed \cup heard
                                      /\ \A p \in together : query[p] # "rejected")
        /\ UNCHANGED <<source, options, atStage, items, heard, answer, visited>>

\* Rejects, only when the listing failed.
Rejects_ListOnly ==
    /\ atStage > 0 /\ "list" \in Awaited /\ query["list"] = "rejected"
    /\ atStage' = 0 /\ answer' = NoAnswer /\ visited' = <<>>
    /\ options' = [options EXCEPT !.offset = 0, !.page = 1]
    /\ UNCHANGED <<source, query, items, heard, unhandled>>

\* A query the stage waits for was rejected: describe() rejects, and the others run on.
Rejects ==
    /\ \E q \in Awaited : query[q] = "rejected"
    /\ atStage' = 0 /\ answer' = NoAnswer /\ visited' = <<>>
    /\ options' = [options EXCEPT !.offset = 0, !.page = 1]
    /\ UNCHANGED <<source, query, items, heard, unhandled>>

\* A runner takes the next item, and is done with it; what it asks is caught item by item.
TakeItem ==
    /\ FansOut /\ \A q \in Awaited : Settled(q)
    /\ items.next < PageLength /\ Cardinality(items.busy) < Runners
    /\ items' = [next |-> items.next + 1, busy |-> items.busy \cup {items.next + 1}]
    /\ UNCHANGED <<source, options, atStage, query, heard, unhandled, answer, visited>>

ItemDone ==
    /\ \E i \in items.busy : items' = [items EXCEPT !.busy = @ \ {i}]
    /\ UNCHANGED <<source, options, atStage, query, heard, unhandled, answer, visited>>

\* The stage has what it waits for.  An empty page ends the call after its first stage.
Advance ==
    /\ atStage > 0
    /\ \A q \in Awaited : Settled(q)
    /\ FanDone
    /\ LET over == atStage = Len(Stages) \/ EmptyPage
       IN  /\ ~over
           /\ atStage' = atStage + 1
           /\ query' = Started(Stages[atStage + 1].starts)
           /\ heard' = heard \cup Stages[atStage + 1].awaits
    /\ UNCHANGED <<source, options, items, unhandled, answer, visited>>

\* The answer; on an empty page the schema names are still waited for.
Answers ==
    /\ atStage > 0
    /\ \A q \in Awaited : Settled(q)
    /\ FanDone
    /\ \/ atStage = Len(Stages)
       \/ EmptyPage /\ query["names"] # "running"
    /\ atStage' = 0
    /\ answer' = Report
    /\ visited' = visited \o [k \in 1 .. Len(Report.tables) |-> Report.tables[k].object]
    /\ UNCHANGED <<source, options, query, items, heard, unhandled>>

DescribeNext ==
    \/ BeginDescribe
    \/ \E q \in Queries : QueryAnswers(q) \/ QueryFails(q)
    \/ Rejects \/ TakeItem \/ ItemDone \/ Advance \/ Answers

DescribeSpec == DescribeInit /\ [][DescribeNext]_describeVars

\* Every query has a bound of its own, and settles.
CatalogueAnswers ==
    /\ WF_describeVars(\E q \in Queries : QueryAnswers(q) \/ QueryFails(q))
    /\ WF_describeVars(ItemDone)
    /\ WF_describeVars(Rejects \/ TakeItem \/ Advance \/ Answers)

----------------------------------------------------------------------------
\* Properties.

DescribeTypeOK ==
    /\ source \in [dialect : DescribeDialects, full : BOOLEAN, catalogue : Catalogues]
    /\ options \in [limit : Limits, offset : 0 .. MaxOffset, page : 1 .. MaxOffset + 2]
    /\ atStage \in 0 .. 4
    /\ query \in [Queries -> {"none", "running", "done", "swallowed", "rejected"}]
    /\ items.next \in Nat /\ items.busy \subseteq 1 .. items.next
    /\ heard \subseteq Queries /\ unhandled \in BOOLEAN
    /\ answer.given \in BOOLEAN /\ visited \in Seq(Nat)

\* A walk of the pages describes every object once, in order, and has described them all
\* when it is told that there is no more.
WalkSeesEachOnce ==
    /\ \A k \in DOMAIN visited : visited[k] = k
    /\ (answer.given /\ ~answer.hasMore) => Len(visited) = Len(source.catalogue)

\* A table whose columns are not all there says so.
CutIsSaid ==
    \A k \in DOMAIN answer.tables :
        LET table == answer.tables[k]
        IN  table.cut <=> table.columns < Width(table.object)

\* "truncated is true only when something was actually left out".
TruncatedIsHonest ==
    answer.given =>
        (answer.truncated <=> \/ Len(visited) < Len(source.catalogue)
                              \/ \E k \in DOMAIN answer.tables :
                                    answer.tables[k].columns < Width(answer.tables[k].object))

\* The comment of readPaging and pageReport, where the catalogue query takes limit and
\* offset and no two tables share a budget that is too small for them.
PagesAreHonest ==
    (/\ source.dialect \in {"postgres", "mysql", "sqlite"}
     /\ source.dialect = "sqlite" \/ ColumnsOf(Objects) <= ColumnRowLimit(Paging(options)))
        => WalkSeesEachOnce /\ CutIsSaid /\ TruncatedIsHonest

\* A description that fails is an error the caller gets: no promise is rejected that nobody
\* waits for (the server takes that for a fatal event).
NothingUnhandled == ~unhandled

\* Every describe() settles when the catalogue's queries do.
DescribeSettles == (atStage > 0) ~> (atStage = 0)
=============================================================================
