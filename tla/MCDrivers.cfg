SPECIFICATION Spec
CONSTANTS
    e1 = e1
    e2 = e2
    r1 = r1
    r2 = r2
    r3 = r3
    Start = Start
    Unset = Unset
    Dummy = Dummy
    Epochs = {e1, e2}
    SharedTm = TRUE
    MaxRtcFailures = 2
    Cycles = 4
    Intervals <- MCIntervals
    MaxPulses = 2
    Resolution = 2
    Angles <- MCAngles
    MULTI_TURN = TRUE
    READ_TRIES = 2
    RxSize = 1
    MaxInFlight = 2
    Reads = {r1, r2, r3}
    Entries = 2
    Blocks = 2
    OutBlocks = 1
    speed = speed
    accel = accel
    NumChilds = 2
    Pins = {0, 1, 2, 3}
    Displays = {speed}
    Strips = {accel}
    Gpios <- MCGpios
    Segments = 2
    Font <- MCFont
    NUL = "0"
    Texts <- MCTexts
    MaxFailures = 1
    irq = irq
    thread = thread
    other = other
    Callers = {irq, thread, other}
    Size = 2
    NoCtx = NoCtx
    MaxSubmits = 2
    Clients = {thread, other}
    Bursts <- MCBursts
    Channels <- MCChannels
    MaxSamples = 3
INVARIANTS ClocksAgree FetchedTogether BlocksAccounted ShowsLastWrite RetryRepairs HandledOnce GotTogether
PROPERTIES RateTrue
CHECK_DEADLOCK FALSE
