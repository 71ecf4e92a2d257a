CONSTANTS
    FailureCap = 5
    SuccessCap = 3
    AgeCap = 3
    Policies <- MCPolicies
SPECIFICATION BreakerSpec
PROPERTY
    HalfOpenFailureReopens
