SPECIFICATION Spec
CONSTANTS
    Nil = Nil
    Forks <- MCForks
    MaxHeight = 0
    Accounts <- MCAccounts
    MaxTxs = 1
    Channels <- MCChannels
    Sessions <- MCSessions
    bloomFilterThreads = 3
    MaxServing = 6
    Node <- MCNode
INVARIANTS
    PoolTransactionsComplete
