SPECIFICATION MCSpec
CONSTANTS
    Runtimes = {r1, r2}
    Kinds = {"normal", "consent"}
    Nothing = Nothing
INVARIANTS LeavesNothing StartsAfterCrash ReportIsTrue
PROPERTIES ForeignFilesStay StopsWhenServing
CHECK_DEADLOCK FALSE
