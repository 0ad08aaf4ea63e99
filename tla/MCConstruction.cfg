SPECIFICATION Spec
CONSTANTS
    DeriveRequests <- AllRequests
    IntentsOf <- AllSpends
    SigSizes = {107, 108}
    Reorders = FALSE
INVARIANTS
    IntentSurvives
    SignaturesVerify
    FeeCoversSigned
    AnswerIsTrue
