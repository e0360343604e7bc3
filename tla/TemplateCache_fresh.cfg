CONSTANTS
    Paths = {welcome}
    Files = {f1, f2}
    Stamps = {s1, s2, s3}
    Gone = Gone
    Unix = TRUE
    MaxEdits = 3
SPECIFICATION CacheSpec
INVARIANTS
    ReadIsChecked
    FreshUnlessStampRepeats
PROPERTIES
    ClearForcesRead
SYMMETRY Symmetry
CHECK_DEADLOCK FALSE
