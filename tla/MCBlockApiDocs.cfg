SPECIFICATION FairSpec
CONSTANTS
    Blocks <- LongBlocks
    Genesis <- MCGenesis
    NoBlock <- MCNoBlock
    Parent <- LongParent
    Height <- LongHeight
    Approves <- LongApproves
    Accounts <- MCAccounts
    Tx <- MCTx
    TxType <- MCTxType
    TxIns <- MCTxIns
    TxOuts <- MCTxOuts
    Treasury <- MCTreasury
    Regular <- LongRegular
    Stake <- LongStake
INVARIANT ReversedAsDocumented
