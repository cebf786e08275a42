CONSTANTS
    MaxPositions = 3
    MaxDrops = 2
    MaxFails = 1
    MaxChanges = 2
SPECIFICATION FairSpec
PROPERTIES
    ListFollowsWhileDown
