SPECIFICATION FairServerSpec
CONSTANTS
    r1 = r1
    r2 = r2
    Requests <- OneRequest
    Schemas <- OneRequest
    Forbidden <- OneRequest
    Watched <- OneRequest
    MaxFrames = 1
PROPERTIES
    FatalEnds
