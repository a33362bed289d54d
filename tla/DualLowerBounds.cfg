SPECIFICATION Spec

CONSTANTS
    Labels <- Thirteen
    DualInstances <- Instances
    Comparators <- PartitionsAndOptima

INVARIANTS
    BoundIsSound
    FallbacksUnreached

PROPERTIES
    EventuallyDone
