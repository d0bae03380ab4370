SPECIFICATION MCSpec
CONSTANTS
    Caller = {a1, a2, a3}
    Review = {a1, a2, a3, a4}
    Run = {a1, a2, a3, a4}
    NoOne = NoOne
    None = None
    Targets = {"open", "pending_requester", "on_hold", "resolved", "closed"}
    MaxChanges = 1
    OperatorWaits = TRUE
    MaxCrashes = 2
    MaxFailures = 2
    MaxVerdicts = 2
    first = first
    answer = answer
    stranger = stranger
    Mail = {first, answer, stranger}
    NoMail = NoMail
    Digest = {1, 2}
    Sender <- MCSender
    InReplyTo <- MCInReplyTo
    FirstContact = TRUE
    SqlStore = FALSE
    MaxTries = 2
    MaxLosses = 2
    Message = {1, 2}
    Mails <- MCMails
    Group <- MCGroup
    Invocation = {i1, i2}
    BatchSize = 2
    MaxConcurrency = 2
    MaxReceives = 2
    MaxIncidents = 1
    pinned = pinned
    Unset = Unset
    Instance = {a1, a2, a3}
    Pin = {pinned}
    Project = {"support", "sales"}
    Profile = {"desk"}
    Config <- MCConfig
    MaxEdits = 2
    charge = charge
    token = token
    k1 = k1
    b1 = b1
    key = key
    print = print
    ActionKey = {charge, token}
    EphemeralKey = {token}
    ReplyKey = {k1}
    Key = {charge, token, k1, key}
    Fingerprint <- MCFingerprints
    Body = {b1}
    Request = {a1, a2, a3}
    Response = {a1, a2, a3}
    StaleAfter = 2
    Horizon = 4
    ReceiptLife = 2
    ReplayWindow = 4
    SlowRequests = FALSE
    MaxRevision = 2
    MaxReplyFailures = 1
    MaxExchangeFailures = 1
SYMMETRY Symmetry
CHECK_DEADLOCK FALSE
INVARIANTS DeskTypeOK AggregateSound InboundSound NoDuplicateSend
    OutcomeIsTrue ProvisioningSound
    ClientsTypeOK ActionAnsweredOnce ReplyCommittedOnce BearersAreFenced
PROPERTY NoStartAfterSuccess
