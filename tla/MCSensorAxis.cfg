SPECIFICATION Spec
CONSTANTS
    s1 = s1
    s2 = s2
    Sensors <- MCSensors
    InMin <- MCInMin
    InMax <- MCInMax
    RangeTolerance <- MCRangeTolerance
    Weights <- MCWeights
    DevTolerance = 10
    DeadzoneMode = "edge"
    DeadzoneSize = 5
    Noise = 50000
    PollPeriod = 10
    TimeTolerance = 30
    TimeToleranceDecay = 50
    Readings <- MCReadings
    InvalidOut = 2147483647
INVARIANTS ValueKnown ReportedInTime
PROPERTY ImplementsStream
