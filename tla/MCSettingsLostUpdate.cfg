CONSTANTS
    Requests = {r1, r2}
    Limits = {60, 90}
    Seconds = {60}
    Null = Null
    MaxFaults = 0
SPECIFICATION Spec
PROPERTIES
    LimitChangesOnlyByPatch
