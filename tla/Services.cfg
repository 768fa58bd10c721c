SPECIFICATION ServicesFairSpec
CONSTANTS
    chat = chat
    rude = rude
    words = words
    entry = entry
    ann = ann
    Nobody = Nobody
    Idle = Idle
    v1 = v1
    v2 = v2
    i1 = i1
    i2 = i2
    None = None
    c1 = c1
    c2 = c2
    Pool = 2
    MaxTaken = 1
    AlarmAfter = 2
    MaxAwaited = 1
INVARIANTS
    CallsAreTidy
PROPERTIES
    TheForgottenDoNotLeave
    MessagesAreAccountedFor
    SessionsAreKept
    VotesAreSettled
    CallsSettleTruly
    OnlyIdleTalkGivesWay
    ModelDownIsNoticed
    OutputIsScanned
CHECK_DEADLOCK FALSE
