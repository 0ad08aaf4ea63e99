SPECIFICATION Spec
CONSTANTS
    DeriveRequests <- EcdsaRequest
    IntentsOf <- RawSpends
    SigSizes = {106, 107}
    Reorders = FALSE
INVARIANT UnknownInputsAccepted
