SPECIFICATION Spec
CONSTANTS
    Request = {r1, r2, r3}
    Tenant = {t1, t2}
    Backend = {"b1"}
    Node = {"n1"}
    AdmissionPolicies <- MCPolicies
    MaxAge = 1
    FirewallAge = 1
    AgeCap = 2
    MaxErrors = 2
    Hash <- MCHash
    Genesis = "genesis"
    MaxRecords = 2
SYMMETRY MCSymmetry
INVARIANTS
    TypeOK
    SlotsMatchPermits
    AuditChainVerifies
    RevisionsAreExact
PROPERTIES
    StaleWhenIdleIsFinal
CHECK_DEADLOCK FALSE
