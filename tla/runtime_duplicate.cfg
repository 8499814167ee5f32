SPECIFICATION Spec
CONSTANTS
    Runtimes = {r1, r2}
    Kinds = {"normal", "consent"}
    Nothing = Nothing
PROPERTIES ShutdownRemovesOwn
CHECK_DEADLOCK FALSE
