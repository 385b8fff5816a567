SPECIFICATION Spec
CONSTANTS
    HashSize = 3
    MaxByte = 2
INVARIANTS
    HashTypeOK
    AnswerIsNumericOrder
