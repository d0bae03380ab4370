SPECIFICATION BackgroundSpec
CONSTANTS
    AuditEvent = {1, 2, 3}
    RotateAt = 2
    RejectAt = 3
    Written <- MixedWrites
    RelayPass = {p, q}
    WorkerOf <- OwnName
    RelayLimit = 2
    MaxAgain = 0
    MaxRelayDisruptions = 1
    Event = {i1, i2}
    Dispatcher = {a1, a2, d1}
    Name = {a1, a2, d1}
    NameOf <- OwnNames
    Limit = 2
    ActivityPass = {a1, a2}
    ActivityLimit = 1
    MaxDisruptions = 1
    NoOne = NoOne
INVARIANTS BackgroundTypeOK AuditSound EventsSound
PROPERTIES SealedIsFrozen SettledByClaimant BackgroundSettles
CHECK_DEADLOCK FALSE
