CONSTANTS
    Job = {j1, j2}
    DedupeKey = {k1}
    NoKey = NoKey
    NoJob = NoJob
    Fingerprint = {f1}
    OverlapKey = {o1}
    Instant <- MCInstant
    DispatchLimit = 2
    MAX_ATTEMPT_HISTORY = 1
    MaxLeases = 2
    MaxRevision = 4
    MaxGenerations = 2
    Connection = {c1, c2}
    PairRevisions = 5
    KeyRevisions = 3
    LockRevisions = 2
SYMMETRY MCSymmetry
SPECIFICATION MCSpec
CHECK_DEADLOCK FALSE
INVARIANTS
    TransactionsAreSound
PROPERTIES
    ImplementsPorts
