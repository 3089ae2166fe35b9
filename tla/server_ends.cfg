SPECIFICATION FairServerSpec
CONSTANTS
    r1 = r1
    r2 = r2
    Requests <- TwoRequests
    Schemas <- SecondRequest
    Forbidden <- SecondRequest
    Watched <- OneRequest
    MaxFrames = 1
INVARIANTS
    ServerTypeOK
PROPERTIES
    FirstExitIsClean
    FramesStop
    EndsWhenAsked
    ClientGoneEnds
