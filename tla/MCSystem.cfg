SPECIFICATION SystemSpec
CONSTANTS
    app = app
    SD = SD
    USB = USB
    logs = logs
    data = data
    Callers = {t1, t2}
    Handlers <- MCHandlers
    FileSystems = {SD, USB}
    Makers = {m1, m2}
    Paths <- MCPaths
    MaxFailures = 1
    MaxBoots = 1
INVARIANTS CleanEnd MkdirFailsOnlyByRace
PROPERTIES GoesDown
CHECK_DEADLOCK FALSE
