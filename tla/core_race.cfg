SPECIFICATION FairSpec
CONSTANTS
    Nothing = Nothing
    Malformed = Malformed
    p1 = p1
    p2 = p2
    Attempts = {a1, a2}
    RequestIds = {"r1", "r2"}
    ApprovalIds = {i1, i2}
    SurfaceApprovals = {}
    Principals = {p1, p2}
    Requests = {"read", "write", "purge"}
    Fingerprints = {"f1", "f2", "f3", "f4"}
    Invocations = {"v1", "v2"}
    Worlds = {"calm", "offline", "broken"}
    OwnerOf <- MCOwnerOf
    PolicyOf <- MCPolicyOf
    FingerprintOf <- MCFingerprintOf
    InvocationOf <- MCInvocationOf
    Workers = {"main", "voice"}
    Consenter = "consent"
    Threads = {"main", "voice", "consent"}
    Inbox <- RaceInbox
    Envelopes <- MCEnvelopes
    AuditMayFail = TRUE
    ApprovalTtl = 1
    ConsentTtl = 1
    PreparationTtl = 1
    MaxPending = 1
    MaxPrepared = 1
    MaxClock = 1
INVARIANTS
    DispatchedOnce
PROPERTIES
    StartsAsPrepared
    EveryCallReturns
    ExecutionsEnd
CHECK_DEADLOCK FALSE
