SPECIFICATION Spec

CONSTANTS
    Labels <- Twenty
    Calls <- CrossedChainCalls

CHECK_DEADLOCK FALSE

INVARIANTS
    OutputIsAgreementForest
