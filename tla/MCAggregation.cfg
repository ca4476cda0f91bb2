SPECIFICATION FairSpec
CONSTANTS
    a = a
    b = b
    o = o
    x = x
    Members = {a, b, o, x}
    Ignored = {x}
    Optional = {o}
    Period = 5
    MinSeparation = 3
    Watermark = 2
    MaxLatency = 1
INVARIANTS StalledOnlyByRace NoLostUpdate PublishedInTime
PROPERTIES EventuallyPublished SeparatedUnlessDoubled
