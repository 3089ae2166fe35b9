SPECIFICATION PartsSpec
CONSTANTS
    n1 = n1
    n2 = n2
    e1 = e1
    p1 = p1
    i1 = i1
    i2 = i2
    i3 = i3
    NoName = NoName
    NoInode = NoInode
    Names <- TwoNames
    MaxProfiles = 1
    Exporters <- OneExporter
    Inodes <- ThreeInodes
    FsyncWorks = TRUE
    Loggers <- OneLogger
    Backups = 3
    MaxBytes = 2
    RecordSizes = {1, 3}
    MaxRecords = 5
    Catalogs <- CatalogsAndNone
    ColumnCap = 2
    Payloads <- SomeAnswers
    RowLimits = {2, 5}
    ByteLimits = {1, 8, 12}
    Inflation = 2
    HeadSize = 2
    NoteSize = 3
    Graphs <- SomeGraphs
    MaxNesting = 3
    c1 = c1
    c2 = c2
    Calls <- OneCall
    Entries <- ThreeEntries
    Requestable <- SomeRequests
    Environments <- SomeEnvironments
    Routable <- Schemes
    RawProfiles <- SomeProfiles
    Secrets <- TwoSecrets
CHECK_DEADLOCK FALSE
INVARIANTS
    PartsTypeOK
    RunsOnlyWhatIsPermitted
    RefusalsOpenedNothing
    ConnectsAsConfigured
    NoGapInTheMiddle
    RowsFindTheirTable
    AnswersAreHonest
PROPERTIES
    ExportIsAtomic
