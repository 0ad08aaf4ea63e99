SPECIFICATION Spec
CONSTANTS
    Blocks <- MCBlocks
    Genesis <- MCGenesis
    NoBlock <- MCNoBlock
    Parent <- MCParent
    Height <- MCHeight
    Approves <- MCApproves
    Accounts <- MCAccounts
    Outpoints <- MCOutpoints
    Tx <- MCTx
    TxType <- MCTxType
    TxIns <- MCTxIns
    TxOuts <- MCTxOuts
    Treasury <- MCTreasury
    Ops <- MCOps
    Regular <- MCRegular
    Stake <- MCStake
    Concurrency = 2
    MaxNtfns = 2
INVARIANTS
    TypeOK
    ProcessedIsChain
    ConnectsInOrder
    UtxosAreUnspent
    BalanceIsSumOfCoins
    BalancesAddUp
    BalancesAreLedger
PROPERTY
    RollbackStopsAtFork
    KeepsChain
