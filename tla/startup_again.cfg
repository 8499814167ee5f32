SPECIFICATION Spec
CONSTANTS
    Nothing = Nothing
    Absent = Absent
    Blank = Blank
    v1 = v1
    v2 = v2
    Versions = {v1, v2}
    Secrets = {s1, s2, s3}
    Launches = {p1, p2}
    InitialSources <- MCSources
    InitialLibraries <- MCLibraries
    MaxEdits = 1
SYMMETRY Symmetry
INVARIANTS
    SnapshotNeverBlocks
CHECK_DEADLOCK FALSE
