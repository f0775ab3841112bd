SPECIFICATION FairSpec
CONSTANTS
    Subjects = {alice, bob}
    Workers = {w1, w2}
    SqlBackend = TRUE
    RequestKinds = {"register", "request_reset", "reset", "invite", "accept", "role", "remove"}
    MaxHashes = 2
    MaxMail = 2
    MaxSessions = 2
    MaxLogFailures = 1
INVARIANTS
    OverlapIsToBlame
PROPERTIES
    EveryRequestIsAnswered
CHECK_DEADLOCK FALSE
