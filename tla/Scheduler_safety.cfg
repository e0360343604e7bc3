CONSTANTS
    NoWorker = NoWorker
    NoEntry = NoEntry
    Workers = {w1, w2}
    Accounts = {a1, a2}
    DryAccounts = {a2}
    TheInterval = 0
    TheRetries = 1
    Offers <- Extremes
    MaxPause = 1
    MaxJobs = 2
    Horizon = 2
    RetryDelay = 1
    CounterMax = 100
    Interval <- MCInterval
    Retries <- MCRetries
    DryRun <- MCDryRun
    Allowance <- MCAllowance
SPECIFICATION Spec
SYMMETRY Symmetry
INVARIANTS
    TypeOK
    OneOwner
    RetriesBounded
    NoOvertaking
CHECK_DEADLOCK FALSE
