SPECIFICATION Spec
CONSTANTS
    Subjects = {alice, bob}
    Tenants = {acme}
    SinglePurposeTypes = {"invite", "password_reset"}
    MaxTokens = 5
    MaxSessions = 2
SYMMETRY Symmetry
INVARIANTS
    SessionsAreTraceable
    OneUnspentRefreshPerSession
PROPERTIES
    ClosedSessionsStayClosed
    CascadeEndsEverySession
    ReuseEndsTheSession
    ImplementsSessionAuthority
CHECK_DEADLOCK FALSE
