SPECIFICATION MCFairSpec
CONSTANTS
    c1 = c1
    c2 = c2
    c3 = c3
    s1 = s1
    s2 = s2
    NoClient = NoClient
    NoSocket = NoSocket
    PgCalls <- TwoCalls
    MyCalls <- ThreeCalls
    LiteCalls <- TwoCalls
    Clients <- TwoSessions
    Sockets <- TwoSessions
    MongoCalls <- OneCall
    Documents = 3
    DefaultLimit = 2
    MaxLimit = 3
    MongoRequests <- MongoArguments
    RedisCalls <- TwoCalls
    Members = 2
    Caps = {0, 1}
    CollectionCap = 2
    Catalogues <- SomeCatalogues
    MaxTables = 3
    MaxColumns = 1
    FanOut = 2
    Limits <- SmallLimits
    MaxOffset = 5
    DescribeDialects <- AllDialects
CHECK_DEADLOCK FALSE
INVARIANTS
    AdaptersTypeOK
    SessionsAreClean
    TimeoutIsOwn
    LoansAreExact
    SocketsAreKnown
    SQLiteListsAndFaults
    ReadsTellWhatIsMissing
    PagesAreHonest
PROPERTIES
    CloseEnds
    MyNothingStartsAborted
    LiteSettles
    DescribeSettles
