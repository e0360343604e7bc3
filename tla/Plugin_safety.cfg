CONSTANTS
    gamemode = gamemode
    filterscript = filterscript
    OnMailSent = OnMailSent
    NoScript = NoScript
    NoCallback = NoCallback
    Scripts = {gamemode, filterscript}
    Publics = {OnMailSent}
    Defines <- MCDefines
    HandleMax = 2
    MaxDrafts = 2
    QueueLimit = 1
    MaxOpened = 2
    MaxCreated = 2
    MaxJobs = 1
SPECIFICATION PluginSpec
SYMMETRY Symmetry
INVARIANTS
    NothingDangles
    FailureExplained
PROPERTIES
    DefaultStays
    SentOrStillYours
CHECK_DEADLOCK FALSE
