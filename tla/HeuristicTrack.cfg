SPECIFICATION Spec

CONSTANTS
    Labels <- Five
    NumTrees = 2
    Instances <- PairsOfTrees
    Seeded = TRUE
    Bounded = FALSE
    SigtermArmed = TRUE
    PauseArmed = FALSE
    CertifiedEarlyExit = FALSE
    Thresholds <- NoThresholds
    Infinity = 100

INVARIANTS
    SeedIsThreeApproximation
    OutputIsAgreementForest
    UnwoundIsPristine
