CONSTANTS
    Enabled = TRUE
    Places = {0, 10, 20, 600}
    NoFix = NoFix
    Waits = {1, 3}
    PerTick = 305
    Gap = 2
    MaxPoints = 4
    ChunkSize = 3
    Limit = 1
    MaxTrace = 5
    Radius = 15
    MinPulses = 3
SPECIFICATION TrackSpec
INVARIANTS
    StopsAreRuns
    ParkedIsStopped
    CutExactlyAtGaps
    StopsStayOnRoads
    RouteIsDrawable
PROPERTIES
    StopsAreKept
    AlwaysAnswered
