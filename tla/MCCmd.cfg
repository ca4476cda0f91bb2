SPECIFICATION FairSpec
CONSTANTS
    Callers = {p1, p2}
    Opcodes = {"both", "late", "early", "unknown"}
    Known = {"both", "late", "early"}
    HasImmediate = {"both", "early"}
    HasDeferred = {"both", "late"}
    Capacity = 2
    MaxInvokes = 2
PROPERTIES ImplementsQueue NullPacketOnlyWhenOvertaken EventuallyExecuted
CHECK_DEADLOCK FALSE
