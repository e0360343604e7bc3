CONSTANTS
    NoWorker = NoWorker
    NoEntry = NoEntry
    Workers = {w1, w2}
    Accounts = {a1, a2}
    DryAccounts = {a2}
    TheInterval = 0
    TheRetries = 1
    TheQueueLimit = 2
    Offers <- MailAndProbes
    MaxPause = 1
    MaxJobs = 2
    Horizon = 0
    Grace = 1
    Unloads = TRUE
    RetryDelay = 1
    CounterMax = 100
    Interval <- MCInterval
    Retries <- MCRetries
    QueueLimit <- MCQueueLimit
    DryRun <- MCDryRun
    Allowance <- MCAllowance
SPECIFICATION SendSpec
SYMMETRY Symmetry
INVARIANTS
    InFlightExact
    QueuedExact
    OneHome
    CountedBeforeTold
    SentMeansDelivered
    DrainTruthful
PROPERTIES
    KeepsPromise
CHECK_DEADLOCK FALSE
