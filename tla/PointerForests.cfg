SPECIFICATION Spec

CONSTANTS
    Labels <- Five
    FirstForests <- AllTrees
    WordSize = 2
    CtzOfZero = 2

INVARIANTS
    IsValid

PROPERTIES
    UndoRestores
    ImplementsForestEdits
