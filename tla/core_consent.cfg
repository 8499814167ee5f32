SPECIFICATION Spec
CONSTANTS
    Nothing = Nothing
    Malformed = Malformed
    p1 = p1
    p2 = p2
    Attempts = {a1, a2}
    RequestIds = {"r1", "r2"}
    ApprovalIds = {i1, i2, i3}
    SurfaceApprovals = {i1}
    Principals = {p1, p2}
    Requests = {"read", "write", "purge"}
    Fingerprints = {"f1", "f2", "f3", "f4"}
    Invocations = {"v1", "v2"}
    Worlds = {"calm", "drift", "broken"}
    OwnerOf <- MCOwnerOf
    PolicyOf <- MCPolicyOf
    FingerprintOf <- MCFingerprintOf
    InvocationOf <- MCInvocationOf
    Workers = {"main", "voice"}
    Consenter = "consent"
    Threads = {"main", "voice", "consent"}
    Inbox <- ConsentInbox
    Envelopes <- MCEnvelopes
    AuditMayFail = FALSE
    ApprovalTtl = 1
    ConsentTtl = 1
    PreparationTtl = 1
    MaxPending = 1
    MaxPrepared = 2
    MaxClock = 1
SYMMETRY Symmetry
INVARIANTS
    ConfirmedBeforeDispatch
    RefusedConsentNeverRuns
    ConsentTablesAgree
    OneDispatchPerApproval
    GateRecordsAuthorized
PROPERTIES
    ImplementsOneShotAuthorization
    ConsumedInTime
CHECK_DEADLOCK FALSE
