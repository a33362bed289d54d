SPECIFICATION Spec

CONSTANTS
    Labels <- Six
    NumTrees = 3
    Instances <- TwoSplittingLabels
    Seeded = TRUE
    Bounded = FALSE
    SigtermArmed = FALSE
    PauseArmed = FALSE
    CertifiedEarlyExit = FALSE
    Thresholds <- NoThresholds
    Infinity = 100

INVARIANTS
    ExhaustedIsOptimal
