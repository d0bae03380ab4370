CONSTANTS
    k1 = k1
    Job = {j1, j2, j3}
    DedupeKey = {k1}
    NoKey = NoKey
    NoJob = NoJob
    Fingerprint = {f1}
    OverlapKey = {}
    NoOverlapKey = NoOverlapKey
    Instant <- MCInstant
    DispatchLimit = 1
    MAX_ATTEMPT_HISTORY = 1
    MaxLeases = 3
    MaxRevision = 5
    MaxGenerations = 2
    Worker = {w1, w2}
    OverlapKeyOf <- MCOverlapKeyOf
    MaximumAttempts <- MCMaximumAttempts
    DeadlineOf <- MCDeadlineOf
    KeyOf <- MCKeyOf
    FingerprintOf <- MCFingerprintOf
    Submitted = {j1}
    ExecutionLease = 3
    ExecutionTimeout = 1
    StartDelay = 1
    OverlapRetryDelay = 1
    RetryDelay = 1
    MaxCrashes = 1
    Operators = {"cancel", "retry_failed"}
    Horizon = 3
    Attempts = 2
    Overlap = NoOverlapKey
    Scheduled = {j2, j3}
    Triggers = {k1}
    PublicationLease = 1
    PublicationRetryDelay = 1
    MaxSendFailures = 1
    Scenarios <- MCApart
SYMMETRY MCSymmetry
SPECIFICATION Spec
CHECK_DEADLOCK FALSE
INVARIANTS
    SystemTypeOK
    PendingHasDelivery
    RunningIsRecoverableUnlessLost
    NewestIntentNotEarly
    NoConcurrentHandlers
PROPERTIES
    ImplementsStore
