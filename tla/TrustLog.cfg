SPECIFICATION Spec
CONSTANTS
    ConsentTenants = {acme}
    MaxVersion = 2
    Subjects = {alice}
    MaxAppends = 4
    MaxFailures = 3
    Facts <- TrustFacts
INVARIANTS
    AcknowledgedFactsSurvive
    ChainBreaksOnlyAfterFailedWrite
    SequenceNamesOneEntry
    IndexesMatchTheLog
    AnswersOutliveTheProcess
    LatestAcceptanceIsEnough
    ConsentIsTraceable
PROPERTIES
    ImplementsConsentRegister
CHECK_DEADLOCK FALSE
