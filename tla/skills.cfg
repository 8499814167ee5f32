SPECIFICATION Spec
CONSTANTS
    Manager = manager
    Writers = {manager, other}
    Nobody = nobody
    Names = {n1, n2}
    Bodies = {b1, b2, rejected}
    Allowed = {b1, b2}
    Empty = empty
    MaxEvents = 2
    MaxRecords = 3
    MaxFaults = 2
    MaxChanges = 2
SYMMETRY Symmetric
INVARIANTS LedgerKeepsNewest VisibleOnlyEnabled InstalledAsScanned AnsweredOnLedger
CHECK_DEADLOCK FALSE
