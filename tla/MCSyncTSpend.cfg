SPECIFICATION Spec
CONSTANTS
    Blocks <- MCBlocks
    Genesis <- MCGenesis
    NoBlock <- MCNoBlock
    Parent <- MCParent
    Height <- MCHeight
    Approves <- MCApproves
    Accounts <- MCAccounts
    Outpoints <- MCOutpoints
    Tx <- MCTx
    TxType <- MCTxType
    TxIns <- MCTxIns
    TxOuts <- MCTxOuts
    Treasury <- MCTreasury
    Ops <- MCOps
    Regular <- MCRegular
    Stake <- MCStakeTSpend
    Concurrency = 1
    MaxNtfns = 2
INVARIANT
    UtxosAreUnspent
