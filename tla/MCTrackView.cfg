CONSTANTS
    Devices = {d1, d2}
    None = None
    Unread = Unread
    AdjustAtFirst = FALSE
    Ahead = 1
    MaxPositions = 2
    MaxMinute = 1
    MaxClicks = 2
    MaxFails = 1
SPECIFICATION FairSpec
INVARIANTS
    LineIsOfTheSelected
    AllAskedOnRoads
    PastMinutesAreDrawn
PROPERTIES
    PanelComesToRest
