SPECIFICATION ClientSpec
CONSTANTS
    Sessions = {s1}
    Turns = {t1}
    MaxStarts = 2
    Capacity = 4
    Limit = 2
    StopMayFail = FALSE
    Nothing = Nothing
INVARIANTS PollsAreCurrent
CHECK_DEADLOCK FALSE
