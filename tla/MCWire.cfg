CONSTANTS
    Streams <- AllStreams
    MaxBuffer = 128
    MaxChunk = 9
    Now <- Today
SPECIFICATION Serve
CHECK_DEADLOCK FALSE
INVARIANTS
    FramesAreRead
    ReadAsMeant
    DamageIsNoticed
    EachIsAnswered
