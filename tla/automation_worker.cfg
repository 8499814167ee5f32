SPECIFICATION FairSpec
CONSTANTS
    Jobs = {j1}
    JobVersions = {v1}
    Configs = {c1}
    Principals = {p1}
    ApprovalIds = {i1}
    ConsentIds = {k1}
    RequestIds = {r1}
    Executions = {e1, e2}
    Occurrences = {o1}
    Nothing = Nothing
    ApprovalTtl = 1
    ConsentTtl = 1
    Validity = 2
    LeaseTime = 1
    MaxPending = 1
    MaxGrants = 1
    MaxReceipts = 2
    MaxClock = 1
    LedgerMayFail = TRUE
    Fingerprints <- MCBindings
INVARIANTS OccurrenceOnce
PROPERTIES WorkerEnds AutomationCallsReturn
CHECK_DEADLOCK FALSE
