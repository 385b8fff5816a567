SPECIFICATION SessionSpec
CONSTANTS
    Nil = Nil
    Configs <- MCConfigs
    Mccmods <- MCMccmods
    ServerKeys <- MCServerKeys
    MaxPrompts = 2
    MaxStalls = 5
    MaxRounds = 2
PROPERTIES
    EndsAsItShould
CHECK_DEADLOCK FALSE
