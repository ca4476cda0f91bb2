SPECIFICATION Spec
CONSTANTS
    hb = hb
    Canbus = Canbus
    Section <- MCSection
    NSlots = 2
    Configured = {2}
    HbError <- MCHbError
    StackBits = {1, 2, 3}
    RemoteBits = {1}
    BusWarning = 1
    HbConsumer = 3
    HbRemoteReset = 4
    ManufacturerStart = 5
    MaxFifo = 1
INVARIANTS CanbusFollowsStatus HeartbeatFollowsNmt StatusFollowsErrors
