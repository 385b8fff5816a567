SPECIFICATION Spec
CONSTANTS
    WordSize = 2
    AddressSize = 1
    SelectorSize = 1
    Fields <- VectorFields
    MaxFields = 7
    MaxReloadFields = 1
    Documents <- VectorDocuments
    Keccak256 <- Keccak256Stub
    CallNames = {}
    CallValues = {}
    CallData = {}
INVARIANTS
    TestMccmodString
    TestMccmodSig
