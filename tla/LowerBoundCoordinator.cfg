SPECIFICATION Spec

CONSTANTS
    MaxOptimum = 5
    Multipliers <- SomeMultipliers
    Offsets = {0, 1}
    Budget = 4
    Schedules <- SomeSchedules

INVARIANTS
    TypeOK
    EmittedIsValid
    ThresholdIsProven
    SilentOnlyUncertified

PROPERTIES
    BoundsCloseIn
    EventuallyConcludes
