SPECIFICATION Spec

CONSTANTS
    Labels <- Four
    NumTrees = 3
    Instances <- TriplesOfTrees
    Seeded = FALSE
    Bounded = TRUE
    SigtermArmed = FALSE
    PauseArmed = FALSE
    CertifiedEarlyExit = FALSE
    Thresholds <- NoThresholds
    Infinity = 100

INVARIANTS
    FirstBoundedSolutionIsOptimal
    OutputIsAgreementForest
