SPECIFICATION Spec
CONSTANTS
    DeriveRequests <- EcdsaRequest
    IntentsOf <- VersionSpends
    SigSizes = {106, 107}
    Reorders = FALSE
INVARIANT RawAddressesDecode
