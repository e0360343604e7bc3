CONSTANTS
    NoWorker = NoWorker
    NoEntry = NoEntry
    Workers = {w1}
    Accounts = {a1}
    DryAccounts = {}
    TheInterval = 0
    TheRetries = 1
    TheQueueLimit = 2
    Offers <- MailOnly
    MaxPause = 1
    MaxJobs = 2
    Horizon = 0
    Grace = 1
    Unloads = TRUE
    RetryDelay = 1
    CounterMax = 100
    Interval <- MCInterval
    Retries <- MCRetries
    QueueLimit <- MCQueueLimit
    DryRun <- MCDryRun
    Allowance <- MCAllowance
SPECIFICATION FairSpec
PROPERTIES
    ImplementsScheduler
    EventuallyTold
    ShutdownEnds
CHECK_DEADLOCK FALSE
