CONSTANTS
    Ips = {a, b}
    Conns = {c1, c2, c3, c4}
    MaxConcurrent = 2
    MaxPerWindow = 2
    Window = 2
SPECIFICATION FairSpec
INVARIANTS
    SlotsMatchSockets
    WindowBound
PROPERTIES
    IdleIpForgotten
