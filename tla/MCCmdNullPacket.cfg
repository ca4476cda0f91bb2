SPECIFICATION Spec
CONSTANTS
    Callers = {p1, p2}
    Opcodes = {"both", "late", "early", "unknown"}
    Known = {"both", "late", "early"}
    HasImmediate = {"both", "early"}
    HasDeferred = {"both", "late"}
    Capacity = 2
    MaxInvokes = 2
INVARIANTS NeverNullPacket
CHECK_DEADLOCK FALSE
