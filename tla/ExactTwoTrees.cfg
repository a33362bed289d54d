SPECIFICATION Spec

CONSTANTS
    Labels <- Five
    NumTrees = 2
    Instances <- PairsOfTrees
    Seeded = FALSE
    Bounded = FALSE
    SigtermArmed = FALSE
    PauseArmed = FALSE
    CertifiedEarlyExit = FALSE
    Thresholds <- NoThresholds
    Infinity = 100

INVARIANTS
    TypeOK
    ExhaustedIsOptimal
    OutputIsAgreementForest
    UnwoundIsPristine
    ProtectionsAreOwned
    ReplayMeetsNoProtection
    MergeIsCherry
    NothingThrows
    SomeRuleAlwaysApplies
