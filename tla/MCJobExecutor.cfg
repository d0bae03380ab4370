CONSTANTS
    Job = {j1, j2}
    DedupeKey = {}
    NoKey = NoKey
    NoJob = NoJob
    Fingerprint = {f1}
    OverlapKey = {o1}
    NoOverlapKey = NoOverlapKey
    Instant <- MCInstant
    DispatchLimit = 1
    MAX_ATTEMPT_HISTORY = 1
    MaxLeases = 3
    MaxRevision = 5
    MaxGenerations = 2
    Worker = {w1, w2}
    OverlapKeyOf <- MCOverlapKeyOf
    MaximumAttempts <- MCMaximumAttempts
    DeadlineOf <- MCDeadlineOf
    KeyOf <- MCKeyOf
    FingerprintOf <- MCFingerprintOf
    Submitted = {j1, j2}
    ExecutionLease = 3
    ExecutionTimeout = 1
    StartDelay = 1
    OverlapRetryDelay = 1
    RetryDelay = 1
    MaxCrashes = 1
    Operators = {"recover_expired_leases"}
    Horizon = 4
    Attempts = 2
    Deadline = 99
    Overlap = o1
SYMMETRY MCSymmetry
SPECIFICATION ExecSpec
CHECK_DEADLOCK FALSE
INVARIANTS
    NoOverlappingHandlers
    HandlerHoldsLease
