CONSTANTS
    Sockets = {s1, s2}
    Imeis = {a, b}
    Terminal = t
    Nobody = Nobody
    TTL = 1
    Slow = 1
SPECIFICATION Spec
SYMMETRY Symmetry
PROPERTIES
    AnswersWereRight
