CONSTANTS
    K = 2
    CollisionBitLength = 1
    TruncBits = 1
    BaseStates <- MC_BaseStates
SPECIFICATION Spec
INVARIANTS
    TypeOK
    SolutionsValid
PROPERTIES
    RefinesSolver
