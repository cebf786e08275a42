CONSTANTS
    Instances = {i1, i2, i3}
    NoOne = NoOne
    NFiles = 3
    MaxFaults = 3
SPECIFICATION FairSpec
INVARIANTS
    InOrder
    UpMeansMigrated
PROPERTIES
    EveryInstanceComesUp
