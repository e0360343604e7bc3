CONSTANTS
    Files = {log}
    Sizes = {1, 2}
    Gone = Gone
    NoTemplate = NoTemplate
    Templates <- MCTemplates
    MaxBytes = 3
    MaxRecipients = 1
    MaxHeaders = 1
    Retries = 1
    MaxRewrites = 1
SPECIFICATION BuildSpec
INVARIANTS
    WithinLimit
    SameOnRetry
    NoSmuggledHeader
    EveryPartOnce
CHECK_DEADLOCK FALSE
