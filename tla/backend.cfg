SPECIFICATION Spec
CONSTANTS
    Nil = Nil
    Forks <- MCForks
    MaxHeight = 2
    Accounts = {}
    MaxTxs = 0
    Channels = {}
    Sessions = {}
    bloomFilterThreads = 3
    MaxServing = 6
    Node <- MCNode
INVARIANTS
    BackendTypeOK
    StateBelongsToHeader
    HeaderAndBlockAgree
