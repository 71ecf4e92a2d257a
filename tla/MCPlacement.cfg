CONSTANTS
    Unit = 4
    NaN = 1000
    MaxCandidates = 3
    MaxRejections = 3
    NodeInputs <- MCNodes
    BackendInputs <- MCBackends
    CandidateInputs <- MCCandidates
    Asks <- MCAsks
SPECIFICATION Spec
INVARIANTS
    SelectionIsBest
    RefusalsAreListed
