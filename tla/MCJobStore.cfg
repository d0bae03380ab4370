CONSTANTS
    Job = {j1, j2}
    DedupeKey = {k1}
    NoKey = NoKey
    NoJob = NoJob
    Fingerprint = {f1}
    OverlapKey = {o1}
    Instant <- MCInstant
    DispatchLimit = 2
    MAX_ATTEMPT_HISTORY = 2
    MaxLeases = 4
    MaxRevision = 7
    MaxGenerations = 3
    PairLeases = 3
    PairRevision = 5
    PairGenerations = 2
SYMMETRY MCSymmetry
SPECIFICATION MCSpec
CHECK_DEADLOCK FALSE
INVARIANTS
    TypeOK
    LeasesAreUnique
    OneJobPerKey
    LeasesFollowStatus
    EachLeaseSettlesOnce
PROPERTIES
    PublishedIsFinal
    RevisionNamesState
    ImplementsLifecycle
