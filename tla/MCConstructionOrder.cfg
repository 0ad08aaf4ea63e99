SPECIFICATION Spec
CONSTANTS
    DeriveRequests <- EcdsaRequest
    IntentsOf <- Spends
    SigSizes = {106, 107}
    Reorders = TRUE
INVARIANT OutOfOrderFails
