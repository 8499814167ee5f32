SPECIFICATION Spec
CONSTANTS
    mail = mail
    notes = notes
    NoApp = NoApp
    Apps = {mail, notes}
    Enabled = TRUE
    Policy <- MCPolicy
    Labels = {"text", "tool-calling", "device", "eu"}
    Arrivals <- MCArrivals
    MaxDrifts = 2
INVARIANTS
    RiskNeverRelaxes
    RouteWithinPolicy
    TalkIsOnlyTalk
PROPERTIES
    DispatchesAsConfirmed
CHECK_DEADLOCK FALSE
