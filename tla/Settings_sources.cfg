CONSTANTS
    Settable <- MCSettable
    Urls <- MCUrls
    Unusable <- MCUnusable
    Addresses <- MCAddresses
    Labels <- MCLabels
    ThisMachine <- MCThisMachine
    MaxEntries = 2
SPECIFICATION SettingsSpec
INVARIANTS
    NoCoinFlip
    DialsAsWritten
    ClearOnlyByChoice
CHECK_DEADLOCK FALSE
