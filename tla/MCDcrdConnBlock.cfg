SPECIFICATION FairSpec
CONSTANTS
    Nodes <- MCNodes
    Passes <- MCPasses
    Infos <- MCInfos
    BestHeight = 2
    KnownOffline = FALSE
    MaxHandlers = 2
    MaxNtfns = 2
PROPERTY
    CallbackReturns
