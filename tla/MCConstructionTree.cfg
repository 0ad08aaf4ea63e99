SPECIFICATION Spec
CONSTANTS
    DeriveRequests <- EcdsaRequest
    IntentsOf <- TreeSpends
    SigSizes = {106, 107}
    Reorders = FALSE
INVARIANT StakeTreeAccepted
