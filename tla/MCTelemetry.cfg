SPECIFICATION TelemetrySpec
CONSTANTS
    x = x
    y = y
    ax = ax
    pdo = pdo
    Data = {x, y}
    Alias <- MCAlias
    Groups = {pdo}
    Members <- MCMembers
    Section <- MCSection
    Ignored <- MCIgnored
    Optional <- MCOptional
    Always <- MCAlways
    MaxUpdates <- MCMaxUpdates
INVARIANTS FramesWhole
PROPERTIES Arrives
CHECK_DEADLOCK FALSE
