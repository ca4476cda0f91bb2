SPECIFICATION Spec
CONSTANTS
    Channels = {c1, c2}
    Operators = {o1}
    Nobody = Nobody
    Capacity = 2
    MaxSessions = 2
    MaxMessages = 1
INVARIANTS StalledOnlyByRace InOwnFile OpenWhileUsed
PROPERTIES LeakOnlyAfterRace
CHECK_DEADLOCK FALSE
