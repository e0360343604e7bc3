CONSTANTS
    Normal <- MCNormal
    Digits = {"2", "huge"}
    Precisions <- MCPrecisions
    Disk <- MCDisk
    Root <- MCRoot
    Names = {"srv", "d", "f", "l"}
    Configs <- MCConfigs
    Mails <- MCMails
    Templates <- MCTemplates
    Requests <- MCRequests
SPECIFICATION TextSpec
INVARIANTS
    ConfigRoundTrip
    FilledOnce
    SectionsApart
    CheckedIsTheFile
CHECK_DEADLOCK FALSE
