SPECIFICATION BackgroundSpec
CONSTANTS
    AuditEvent = {}
    RotateAt = 2
    RejectAt = 3
    Written = {}
    RelayPass = {}
    WorkerOf <- OwnName
    RelayLimit = 2
    MaxAgain = 0
    MaxRelayDisruptions = 0
    Event = {i1, i2}
    Dispatcher = {a1, d1}
    Name = {a1, d1}
    NameOf <- OwnNames
    Limit = 2
    ActivityPass = {a1}
    ActivityLimit = 1
    MaxDisruptions = 0
    NoOne = NoOne
PROPERTIES EveryIntentIsPublished
CHECK_DEADLOCK FALSE
