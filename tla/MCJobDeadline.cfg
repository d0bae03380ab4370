CONSTANTS
    Job = {j1}
    DedupeKey = {}
    NoKey = NoKey
    NoJob = NoJob
    Fingerprint = {f1}
    OverlapKey = {o1}
    NoOverlapKey = NoOverlapKey
    Instant <- MCInstant
    DispatchLimit = 1
    MAX_ATTEMPT_HISTORY = 1
    MaxLeases = 3
    MaxRevision = 5
    MaxGenerations = 2
    Worker = {w1}
    OverlapKeyOf <- MCOverlapKeyOf
    MaximumAttempts <- MCMaximumAttempts
    DeadlineOf <- MCDeadlineOf
    KeyOf <- MCKeyOf
    FingerprintOf <- MCFingerprintOf
    Submitted = {j1}
    ExecutionLease = 3
    ExecutionTimeout = 1
    StartDelay = 1
    OverlapRetryDelay = 1
    RetryDelay = 1
    MaxCrashes = 0
    Operators = {}
    Horizon = 4
    Attempts = 2
    Deadline = 1
    Overlap = o1
SYMMETRY MCSymmetry
SPECIFICATION ExecSpec
CHECK_DEADLOCK FALSE
INVARIANTS
    StartedBeforeDeadline
