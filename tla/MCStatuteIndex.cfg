SPECIFICATION Spec
CONSTANTS
    Tenants = {acme, globex}
    Workers = {w1, w2}
    MaxStatutes = 3
    MaxWriteFailures = 1
SYMMETRY Symmetry
INVARIANTS
    IndexesMatchTheRepository
    MissingOnlyByReplacement
    TenantsAreIsolated
CHECK_DEADLOCK FALSE
