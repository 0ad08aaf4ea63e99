SPECIFICATION Spec
CONSTANTS
    Blocks <- MCBlocks
    Genesis = "g"
    NoBlock = "nil"
    Parent <- MCParent
    Height <- MCHeight
    Approves <- MCApproves
    Accounts = {"alice", "bob"}
    Outpoints = {1, 2, 3}
    Coins <- MCCoins
    Amount <- MCAmount
    BalanceMaps <- MCBalanceMaps
    MaxCalls = 2
    FewUtxoLimit = 3
    ReAdds = FALSE
    LateAborts = TRUE
PROPERTY
    FailedUpdateChangesNothing
