SPECIFICATION DescribeSpec
CONSTANTS
    Catalogues <- SomeCatalogues
    MaxTables = 3
    MaxColumns = 1
    FanOut = 2
    Limits <- SmallLimits
    MaxOffset = 5
    DescribeDialects <- AllDialects
CHECK_DEADLOCK FALSE
INVARIANTS
    NothingUnhandled
