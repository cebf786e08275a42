CONSTANTS
    Sockets = {s1, s2}
    Speeds = {40, 70, 100}
    Limits = {50, 80}
    NoLimit = NoLimit
    MaxPulses = 5
    MaxChanges = 2
    MaxFaults = 2
SPECIFICATION Spec
SYMMETRY Symmetry
INVARIANTS
    AlertsAlternate
PROPERTIES
    CrossingIsReported
