SPECIFICATION Spec
CONSTANTS
    Nil = Nil
    Configs <- MCConfigs
    Mccmods <- MCMccmods
    ServerKeys <- MCServerKeys
    MaxPrompts = 1
    MaxStalls = 2
INVARIANT
    AttemptsOnlySuggestedMccmods
CHECK_DEADLOCK FALSE
