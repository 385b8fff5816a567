SPECIFICATION Spec
CONSTANTS
    WordSize = 2
    AddressSize = 1
    SelectorSize = 1
    Fields <- MCFields
    MaxFields <- MCMaxFields
    MaxReloadFields = 1
    Keccak256 <- LengthHash
    CallNames <- MCCallNames
    CallValues <- MCCallValues
    CallData <- MCCallData
INVARIANT
    SuffixesCountFromZero
