SPECIFICATION Spec
CONSTANTS
    Subjects = {alice, bob}
    Workers = {w1, w2}
    SqlBackend = TRUE
    RequestKinds = {"register", "invite", "accept", "role"}
    MaxHashes = 2
    MaxMail = 2
    MaxSessions = 2
    MaxLogFailures = 0
PROPERTY
    LastOwnerIsProtected
CHECK_DEADLOCK FALSE
