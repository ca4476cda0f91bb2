SPECIFICATION FairSpec
CONSTANTS
    e1 = e1
    e2 = e2
    e3 = e3
    off = off
    Null = Null
    Main = Main
    Errors = {e1, e2, e3, off}
    NErrors = 4
    Section <- MCSection
    Severities = {"warn", "error"}
    Sev <- MCSev
    Disabled = {off}
    Preset = {e1, e3, off}
    NCallbacks = 2
    Filters <- MCFilters
    Reporters = {r1, r2}
    MaxReports = 3
INVARIANTS ListLinked NothingMissed FreshUnlessOverlapped
PROPERTIES WalkEnds
CHECK_DEADLOCK FALSE
