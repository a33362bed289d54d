SPECIFICATION Spec

CONSTANTS
    Labels <- Twenty
    Calls <- ChainBelowAnotherCalls

CHECK_DEADLOCK FALSE

INVARIANTS
    OutputIsAgreementForest
