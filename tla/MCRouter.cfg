CONSTANTS
    a = a
    b = b
    c = c
    Node = {a, b, c}
    Tenant = {t1}
    Client = {c1, c2}
    FailureCap = 2
    SuccessCap = 1
    AgeCap = 1
    Cooldown = 1
    CacheLimit = 2
    AuditLimit = 1
    DefaultPolicy <- MCDefaultPolicy
    Policies <- MCPolicies
    EdgeInputs <- MCEdges
    Reported = {b}
    Requests <- MCRequests
SYMMETRY MCSymmetry
SPECIFICATION Spec
INVARIANTS
    TypeOK
    CacheIsFeasible
    CacheOrderIsExact
PROPERTIES
    ImplementsRouteService
    InvalidationIsExact
