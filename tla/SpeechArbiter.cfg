SPECIFICATION FairSpec
CONSTANTS
    hello = hello
    reply = reply
    notice = notice
    warning = warning
    Nobody = Nobody
    Request <- MCRequest
    Source <- MCSource
    Sentences <- MCSentences
    Perishable <- MCPerishable
    MaxQueue = 2
    ApproveFirst = FALSE
    MaxChanges = 1
INVARIANTS
    RequestsAreKept
PROPERTIES
    OneAllowedVoice
    ArbiterGoesOn
CHECK_DEADLOCK FALSE
