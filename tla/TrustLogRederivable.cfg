\* What the docstrings of the two ledgers say of their indexes.
SPECIFICATION Spec
CONSTANTS
    ConsentTenants = {acme}
    MaxVersion = 2
    Subjects = {alice}
    MaxAppends = 4
    MaxFailures = 3
    Facts <- TrustFacts
INVARIANTS
    IndexesAreRederivable
CHECK_DEADLOCK FALSE
