SPECIFICATION Spec
CONSTANTS
    Jobs = {j1, j2}
    JobVersions = {v1, v2}
    Configs = {c1}
    Principals = {p1}
    ApprovalIds = {i1}
    ConsentIds = {k1}
    RequestIds = {r1}
    Executions = {e1}
    Occurrences = {o1}
    Nothing = Nothing
    ApprovalTtl = 1
    ConsentTtl = 1
    Validity = 1
    LeaseTime = 1
    MaxPending = 1
    MaxGrants = 1
    MaxReceipts = 1
    MaxClock = 1
    LedgerMayFail = FALSE
    Fingerprints <- MCBindings
INVARIANTS StopAllHolds
PROPERTIES  ImplementsOccurrenceLeases
CHECK_DEADLOCK FALSE
