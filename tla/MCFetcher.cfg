SPECIFICATION Spec
CONSTANTS
    j1 = j1
    j2 = j2
    j3 = j3
    j4 = j4
    city = city
    state = state
    b1 = b1
    b2 = b2
    Jobs = {j1, j2, j3, j4}
    Hosts = {city, state}
    Batches = {b1, b2}
    Host <- MCHost
    Batch <- MCBatch
    Parsable = {j1, j2, j3}
    Published = {j1, j2}
    RespectRobots = TRUE
    MaxConcurrency = 2
    MinDelay = 1
    MaxRetries = 1
    RetryAfter = {0}
INVARIANTS
    PagesFollowRobots
PROPERTIES
    PagesAreSpaced
    EveryBatchEnds
CHECK_DEADLOCK FALSE
