SPECIFICATION Spec
CONSTANTS
    Conns = {u, v}
    Ids = {s1, s2, s3}
    NoCred = NoCred
    MaxFaults = 4
SYMMETRY Symmetry
INVARIANTS
    CliKeepsReferences
    SavedIsUsable
    NoOrphans
