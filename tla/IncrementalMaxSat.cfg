SPECIFICATION Spec

CONSTANTS
    Labels <- Five
    SatInstances <- CrossingPairs
    MaxTimeouts = 1

INVARIANTS
    TypeOK
    BoundIsSound
    SolvedIsOptimal
    CutsAreLegal

PROPERTIES
    BoundNeverFalls
    EventuallySolved
