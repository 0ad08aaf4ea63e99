SPECIFICATION Spec
CONSTANTS
    Blocks <- MCBlocks
    Genesis = "g"
    NoBlock = "nil"
    Parent <- MCParent
    Height <- MCHeight
    Approves <- MCApproves
    Accounts <- MCAccounts
    Outpoints <- MCOutpoints
    Coins <- MCCoins
    Amount <- MCAmount
    BalanceMaps <- MCBalanceMaps
    MaxCalls = 2
    Base = 2
    MaxTxn = 9
    ReAdds = TRUE
    LateAborts = TRUE
INVARIANTS
    BadgerBalanceIsLatest
    RecordedIsListed
PROPERTY
    BadgerKeepsContract
