SPECIFICATION Spec
CONSTANTS
    hello = hello
    reply = reply
    notice = notice
    warning = warning
    Nobody = Nobody
    Request <- MCRequest
    Source <- MCSource
    Sentences <- MCSentences
    Perishable <- MCPerishable
    MaxQueue = 2
    ApproveFirst = FALSE
    MaxChanges = 1
PROPERTIES
    StartsInM1AreReleased
CHECK_DEADLOCK FALSE
