---------------------------- MODULE CatalogueRows ----------------------------
(***************************************************************************)
(* How describe() of src/src/core/schema.js puts the rows of its catalogue *)
(* queries back together: a column, a constraint or an index belongs to    *)
(* the relation its row names, and the rows of one index or foreign key    *)
(* are gathered under an identity made of two names.  A name is a sequence *)
(* of words, since the code joins names with a space.                      *)
(***************************************************************************)
EXTENDS Naturals, Sequences, SequencesExt

CONSTANTS
    Catalogs,       \* the answers: [dialect, relations, columns, parts], see MCParts
    ColumnCap       \* MAX_COLUMNS_PER_TABLE

Words == Seq(STRING)
Relations == [schema : Words, table : Words]
PartKinds == {"index", "foreign key", "check", "trigger", "key index"}
Of(row, relation) == row.schema = relation.schema /\ row.table = relation.table
SamePart(row, part) == Of(row, part) /\ row.name = part.name /\ row.kind = part.kind

\* A row is a part of its own: everything in PostgreSQL, checks and triggers elsewhere.
Whole(dialect, row) == dialect = "postgres" \/ row.kind \in {"check", "trigger"}

\* Rows are of the relations asked for; only PostgreSQL is asked for more than one schema; and
\* a server gives no two constraints, or indexes, or triggers, of a relation one name.
IsCatalog(c) ==
    /\ c.relations \subseteq Relations
    /\ c.columns \in Seq([schema : Words, table : Words, column : Nat])
    /\ c.parts \in Seq([schema : Words, table : Words, name : Words, kind : PartKinds,
                        columns : Seq(Nat)])
    /\ \A i \in DOMAIN c.columns : \E r \in c.relations : Of(c.columns[i], r)
    /\ \A i \in DOMAIN c.parts : \E r \in c.relations : Of(c.parts[i], r)
    /\ c.dialect # "postgres" => \A r, s \in c.relations : r.schema = s.schema
    /\ \A i, j \in DOMAIN c.parts :
          Whole(c.dialect, c.parts[i]) /\ SamePart(c.parts[i], c.parts[j]) => i = j

ASSUME CatalogueAssumption == ColumnCap \in Nat \ {0} /\ \A c \in Catalogs : IsCatalog(c)

VARIABLES
    catalog,    \* what the queries answered
    groups,     \* key -> the columns gathered for it, and whether some were left out
    parts,      \* the constraints, indexes and triggers, in the order they were first met
    read        \* how many rows have been: [columns, parts]; and whether the cap was applied

rowVars == <<catalog, groups, parts, read>>

\* tableKey() and its like, by the name of the relation alone: two schemas share it.
TableKey_NameOnly(row) == row.table

\* tableKey(schema, name) in PostgreSQL; one schema, or none, in the others.
TableKey(row) == IF catalog.dialect = "postgres" THEN row.schema \o row.table ELSE row.table

\* The identity of an index or foreign key that comes as one row for each of its columns.
PartId(row) == row.table \o row.name

NoGroup == [columns |-> <<>>, cut |-> FALSE]

RowsInit ==
    /\ catalog \in Catalogs
    /\ groups = [k \in {TableKey(row) : row \in ToSet(catalog.columns)} |-> NoGroup]
    /\ parts = <<>>
    /\ read = [columns |-> 0, parts |-> 0, capped |-> FALSE]

NextColumn == catalog.columns[read.columns + 1]
NextPart == catalog.parts[read.parts + 1]
ColumnsAreRead == read.columns = Len(catalog.columns)
PartsAreRead == read.parts = Len(catalog.parts)

\* Up to one column more than the cap is kept, and what comes after it is only remembered.
Keep(group, row) ==
    IF Len(group.columns) < ColumnCap + 1 THEN [group EXCEPT !.columns = Append(@, row)]
    ELSE [group EXCEPT !.cut = TRUE]

\* groupByRelation(), groupByMysqlTable(), groupByName().
GatherColumn ==
    /\ ~ColumnsAreRead
    /\ groups' = [groups EXCEPT ![TableKey(NextColumn)] = Keep(@, NextColumn)]
    /\ read' = [read EXCEPT !.columns = @ + 1]
    /\ UNCHANGED <<catalog, parts>>

\* ... and then the one too many says that the table was cut.
ApplyCap ==
    /\ ColumnsAreRead /\ ~read.capped
    /\ groups' = [k \in DOMAIN groups |->
                    IF Len(groups[k].columns) > ColumnCap
                    THEN [columns |-> SubSeq(groups[k].columns, 1, ColumnCap), cut |-> TRUE]
                    ELSE groups[k]]
    /\ read' = [read EXCEPT !.capped = TRUE]
    /\ UNCHANGED <<catalog, parts>>

\* SQLite's index of a primary key is gathered and not listed: the columns say as much.
Listed(row) == row.kind # "key index"

AsPart(row) == [slot |-> TableKey(row), id |-> PartId(row), name |-> row.name, kind |-> row.kind,
                columns |-> row.columns]

AddPart ==
    LET row == NextPart
    IN  /\ read.capped /\ ~PartsAreRead /\ Whole(catalog.dialect, row)
        /\ parts' = Append(parts, AsPart(row))
        /\ read' = [read EXCEPT !.parts = @ + 1]
        /\ UNCHANGED <<catalog, groups>>

\* The rows of an index or foreign key: the first makes it, and each adds its column, if it
\* names one.  Indexes and foreign keys are gathered in maps of their own.
GatherPart ==
    LET row == NextPart
        known == {i \in DOMAIN parts : parts[i].id = PartId(row) /\ parts[i].kind = row.kind}
    IN  /\ read.capped /\ ~PartsAreRead /\ ~Whole(catalog.dialect, row)
        /\ parts' = IF known = {} THEN Append(parts, AsPart(row))
                    ELSE LET i == CHOOSE i \in known : TRUE
                         IN  [parts EXCEPT ![i].columns = @ \o row.columns]
        /\ read' = [read EXCEPT !.parts = @ + 1]
        /\ UNCHANGED <<catalog, groups>>

RowsNext == GatherColumn \/ ApplyCap \/ AddPart \/ GatherPart

RowsSpec == RowsInit /\ [][RowsNext]_rowVars

----------------------------------------------------------------------------
\* Properties.

RowsTypeOK ==
    /\ \A k \in DOMAIN groups : Len(groups[k].columns) <= ColumnCap + 1 /\ groups[k].cut \in BOOLEAN
    /\ read.capped \in BOOLEAN

\* No two names run together into the same words.  (With spaces in them they may: the schema
\* "a" with the table "b c", and the schema "a b" with the table "c".)
NamesStayApart ==
    /\ \A r, s \in catalog.relations : r.schema \o r.table = s.schema \o s.table => r = s
    /\ \A p, q \in ToSet(catalog.parts) :
          PartId(p) = PartId(q) => p.table = q.table /\ p.name = q.name

\* What the first n rows say: the columns of a relation, and of a part, in their order.
OwnColumns(relation) ==
    LET own[n \in 0 .. Len(catalog.columns)] ==
          IF n = 0 THEN <<>>
          ELSE IF Of(catalog.columns[n], relation) THEN Append(own[n - 1], catalog.columns[n])
          ELSE own[n - 1]
    IN  own

ColumnsOfPart(part) ==
    LET own[n \in 0 .. Len(catalog.parts)] ==
          IF n = 0 THEN <<>>
          ELSE IF SamePart(catalog.parts[n], part) THEN own[n - 1] \o catalog.parts[n].columns
          ELSE own[n - 1]
    IN  own

FirstOf(seq, m) == SubSeq(seq, 1, IF Len(seq) < m THEN Len(seq) ELSE m)

\* "matching on the table name alone made public.users and auth.users each carry the union of
\* both tables' columns" (the comment of groupByRelation): when all rows are read every
\* relation has the first of its own columns and nobody else's, says exactly when some are
\* missing, and every index and key has its own columns in its own table.
RowsFindTheirTable ==
    (ColumnsAreRead /\ PartsAreRead /\ read.capped /\ NamesStayApart) =>
        \A r \in catalog.relations :
            LET own == OwnColumns(r)[Len(catalog.columns)]
                group == IF TableKey(r) \in DOMAIN groups THEN groups[TableKey(r)] ELSE NoGroup
                mine == {p \in ToSet(parts) : p.slot = TableKey(r) /\ Listed(p)}
                named == {q \in ToSet(catalog.parts) : Of(q, r) /\ Listed(q)}
            IN  /\ group.columns = FirstOf(own, ColumnCap)
                /\ group.cut <=> Len(own) > ColumnCap
                /\ {<<p.name, p.kind, p.columns>> : p \in mine} =
                     {<<q.name, q.kind, ColumnsOfPart(q)[Len(catalog.parts)]>> : q \in named}
=============================================================================
