CONSTANTS
    NoWorker = NoWorker
    NoEntry = NoEntry
    Workers = {w1, w2}
    Accounts = {a1}
    DryAccounts = {}
    TheInterval = 0
    TheRetries = 1
    Offers <- MailOnly
    MaxPause = 2
    MaxJobs = 3
    Horizon = 1
    RetryDelay = 1
    CounterMax = 100
    Interval <- MCInterval
    Retries <- MCRetries
    DryRun <- MCDryRun
    Allowance <- MCAllowance
SPECIFICATION Spec
SYMMETRY Symmetry
INVARIANTS
    OneProbePerPause
CHECK_DEADLOCK FALSE
