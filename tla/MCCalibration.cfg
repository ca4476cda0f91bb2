SPECIFICATION CalibrationSpec
CONSTANTS
    s1 = s1
    s2 = s2
    Sensors = {s1, s2}
    Operators = {u1, u2}
    Targets <- MCTargets
    Kinds = {"min", "center", "max_range"}
    Positions = {0, 5}
    Samples = 2
    Grain = 4
    Devicetree <- MCDevicetree
    NULL = NULL
    MaxCommands = 2
    MaxRestarts = 1
SYMMETRY MCSymmetry
INVARIANTS CalibrationKept
PROPERTIES UnusableOnlyByHand
CHECK_DEADLOCK FALSE
