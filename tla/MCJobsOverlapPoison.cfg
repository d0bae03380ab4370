CONSTANTS
    k1 = k1
    Job = {j1, j2}
    DedupeKey = {}
    NoKey = NoKey
    NoJob = NoJob
    Fingerprint = {f1}
    OverlapKey = {o1}
    NoOverlapKey = NoOverlapKey
    Instant <- MCInstant
    DispatchLimit = 2
    MAX_ATTEMPT_HISTORY = 1
    MaxLeases = 6
    MaxRevision = 6
    MaxGenerations = 3
    Worker = {w1}
    OverlapKeyOf <- MCOverlapKeyOf
    MaximumAttempts <- MCMaximumAttempts
    DeadlineOf <- MCDeadlineOf
    KeyOf <- MCKeyOf
    FingerprintOf <- MCFingerprintOf
    Submitted = {j1, j2}
    ExecutionLease = 3
    ExecutionTimeout = 1
    StartDelay = 1
    OverlapRetryDelay = 1
    RetryDelay = 1
    MaxCrashes = 1
    Operators = {}
    Horizon = 3
    Attempts = 1
    Overlap = o1
    Scheduled = {}
    Triggers = {}
    PublicationLease = 1
    PublicationRetryDelay = 1
    MaxSendFailures = 0
    Scenarios <- MCTogether
SYMMETRY MCSymmetry
SPECIFICATION Spec
CHECK_DEADLOCK FALSE
INVARIANTS
    PendingHasDelivery
