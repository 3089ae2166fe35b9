SPECIFICATION CallSpec
CONSTANTS
    c1 = c1
    c2 = c2
    c3 = c3
    k1 = k1
    k2 = k2
    None = None
    Keys <- OneKey
    Calls <- TwoCalls
    MaxEntries = 1
PROPERTIES
    NothingStartsLate
