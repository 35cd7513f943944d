CONSTANTS
    K = 2
    CollisionBitLength = 2
    TruncBits = 1
    BaseStates <- MC_BaseStates
SPECIFICATION Spec
PROPERTIES
    RefinesSolver
