SPECIFICATION Spec

CONSTANTS
    Labels <- Twenty
    Calls <- SomeCalls

CHECK_DEADLOCK FALSE

INVARIANTS
    CoupledIsMaximum
    OutputIsAgreementForest
    OutputIsMaximum
