CONSTANTS
    a = a
    b = b
    c = c
    d = d
    Node = {a, b, c, d}
    Scale = 2
    Infinity = 1000
    MaxEdges = 4
    Sick = {b}
    EdgeInputs <- MCEdges
    Models <- MCModels
    HealthInputs <- MCHealth
    Requests <- MCRequests
SPECIFICATION Spec
INVARIANTS
    AnswerIsCheapest
    ExpandedIsFinal
PROPERTY
    ExpandsOnce
