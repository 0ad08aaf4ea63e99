SPECIFICATION FairSpec
CONSTANTS
    Blocks <- MCBlocks3
    Genesis <- MCGenesis
    NoBlock <- MCNoBlock
    Parent <- MCParent3
    Height <- MCHeight3
    Approves <- MCApproves3
    Accounts <- MCAccounts
    Outpoints <- MCOutpoints
    Tx <- MCTx
    TxType <- MCTxType
    TxIns <- MCTxIns
    TxOuts <- MCTxOuts
    Treasury <- MCTreasury
    Ops <- MCOps
    Regular <- MCRegularRemined3
    Stake <- MCStake3
    Concurrency = 2
    MaxNtfns = 1
INVARIANT
    BalancesAreLedger
PROPERTIES
    StartupEnds
    ReachesAnnouncedTip
