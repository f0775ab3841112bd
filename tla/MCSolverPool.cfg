SPECIFICATION Spec
CONSTANTS
    r1 = r1
    r2 = r2
    r3 = r3
    r4 = r4
    r5 = r5
    r6 = r6
    Requests = {r1, r2, r3, r4, r5, r6}
    ClauseOf <- MCClauseOf
    Other = Other
    Contexts = {1, 2}
    NoContext = NoContext
    Threads = 3
    PoolSize = 2
INVARIANTS
    VerdictsAreSound
PROPERTIES
    EveryRequestIsAnswered
\* Every request may have been answered.
CHECK_DEADLOCK FALSE
