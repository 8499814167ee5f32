SPECIFICATION FairSpec
CONSTANTS
    Sessions = {s1, s2}
    Turns = {t1, t2}
    MaxStarts = 2
    Capacity = 1
    StopMayFail = TRUE
    Nothing = Nothing
INVARIANT OneTurnAtATime
PROPERTIES FollowUpSparesTurns TurnsFinish
CHECK_DEADLOCK FALSE
