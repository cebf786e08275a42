CONSTANTS
    d1 = d1
    d2 = d2
    s1 = s1
    s2 = s2
    NoDevice = NoDevice
    NoSocket = NoSocket
    Devices = {d1}
    Sockets = {s1}
    Logins <- OneConnection
    Cmds = {1, 2}
    BatchLimit = 2
    Expirable = {1}
    MaxFrames = 2
    MaxFaults = 1
SPECIFICATION Spec
INVARIANTS
    AckFirst
    NotOvertaken
    MarkInFlight
PROPERTIES
    ImplementsLifecycle
