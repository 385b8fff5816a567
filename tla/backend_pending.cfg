SPECIFICATION Spec
CONSTANTS
    Nil = Nil
    Forks <- MCForks
    MaxHeight = 2
    Accounts <- MCAccounts
    MaxTxs = 0
    Channels = {}
    Sessions = {}
    bloomFilterThreads = 3
    MaxServing = 6
    Node <- MCNode
INVARIANTS
    EveryCallReturns
