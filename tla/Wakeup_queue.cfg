CONSTANTS
    NoWorker = NoWorker
    NoEntry = NoEntry
    MainThread = MainThread
    Awake = Awake
    Workers = {w1, w2}
    Accounts = {a1, a2}
    LimitedAccounts = {a1}
    TheInterval = 3
    TheRetries = 1
    Offers <- MailOnly
    MaxPause = 2
    MaxJobs = 2
    Horizon = 0
    RetryDelay = 1
    IdleWait = 2
    CounterMax = 100
    Interval <- MCInterval
    Retries <- MCRetries
    DryRun <- MCDryRun
    Allowance <- MCAllowance
SPECIFICATION WakeSpec
SYMMETRY Symmetry
INVARIANTS
    RetrySpacing
    LockoutBounded
    SomeoneLooks
    WakesInTime
    NobodyParked
PROPERTIES
    RateSpacing
CHECK_DEADLOCK FALSE
