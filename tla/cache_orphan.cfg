SPECIFICATION Spec
CONSTANTS
    c1 = c1
    c2 = c2
    c3 = c3
    k1 = k1
    k2 = k2
    k3 = k3
    None = None
    Keys <- OneKey
    Calls <- ThreeCalls
    MaxEntries = 1
SYMMETRY Symmetry3
INVARIANTS
    NoOrphan
