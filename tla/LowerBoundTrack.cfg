SPECIFICATION Spec

CONSTANTS
    Labels <- Four
    NumTrees = 2
    Instances <- FewPairs
    Seeded = TRUE
    Bounded = FALSE
    SigtermArmed = FALSE
    PauseArmed = TRUE
    CertifiedEarlyExit = TRUE
    Thresholds <- SomeThresholds
    Infinity = 100

INVARIANTS
    OutputIsAgreementForest
    EmittedIsCertifiedOrOptimal
    UnwoundIsPristine

PROPERTIES
    EventuallyOutput
    KeepsSearchContract
