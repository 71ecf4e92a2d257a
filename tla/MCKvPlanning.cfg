CONSTANTS
    Unit = 4
    MaxSteps = 2
    MaxRecovery = 2
    DefaultPolicy <- MCPolicy
    ModelInputs <- MCModels
    RecordInputs <- MCRecords
    PolicyInputs <- MCPolicies
    Contexts <- MCContexts
    RouteInputs <- MCRoutes
SPECIFICATION KvSpec
INVARIANTS
    ReuseIsEarned
    VersionsIdentifyDecisions
PROPERTY
    GrowthNeverRevokes
