CONSTANTS
    gamemode = gamemode
    filterscript = filterscript
    OnMailSent = OnMailSent
    NoScript = NoScript
    NoCallback = NoCallback
    Scripts = {gamemode, filterscript}
    Publics = {OnMailSent}
    Defines <- MCDefines
    HandleMax = 1
    MaxDrafts = 1
    QueueLimit = 1
    MaxOpened = 1
    MaxCreated = 1
    MaxJobs = 2
SPECIFICATION FairPluginSpec
INVARIANT
    CalledOnce
PROPERTY
    EveryListenerHears
CHECK_DEADLOCK FALSE
