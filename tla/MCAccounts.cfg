SPECIFICATION Spec
CONSTANTS
    Subjects = {alice, bob}
    Workers = {w1, w2}
    SqlBackend = FALSE
    RequestKinds = {"register", "login", "request_reset", "reset", "verify", "invite", "accept", "role", "remove", "revoke"}
    MaxHashes = 3
    MaxMail = 3
    MaxSessions = 3
    MaxLogFailures = 0
SYMMETRY Symmetry
INVARIANTS
    TenantsKeepAnOwner
    RemovedMembersAreLockedOut
    SessionsStayInTheirTenant
    ResetEndsOlderSessions
    MailIsSingleUse
PROPERTIES
    ImplementsTenantDirectory
CHECK_DEADLOCK FALSE
