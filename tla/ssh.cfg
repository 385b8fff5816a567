SPECIFICATION LiveSpec
CONSTANTS
    Nil = Nil
    Configs <- MCConfigs
    Mccmods <- MCMccmods
    ServerKeys <- MCServerKeys
    MaxPrompts = 1
    MaxStalls = 2
INVARIANTS
    ClientTypeOK
    SignsOnlyConfirmedKey
    AuthenticatedOnlyBySuccess
PROPERTIES
    ImplementsAuthLoop
    Terminates
CHECK_DEADLOCK FALSE
