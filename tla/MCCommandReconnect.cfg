CONSTANTS
    d1 = d1
    d2 = d2
    s1 = s1
    s2 = s2
    NoDevice = NoDevice
    NoSocket = NoSocket
    Devices = {d1, d2}
    Sockets = {s1, s2}
    Logins <- Reconnection
    Cmds = {1}
    BatchLimit = 1
    Expirable = {1}
    MaxFrames = 1
    MaxFaults = 0
SPECIFICATION FairSpec
INVARIANTS
    NothingLeftBehind
    WrittenToItsDevice
PROPERTIES
    EntryDropsWithItsSocket
    QueuedLeavesWhileOnline
