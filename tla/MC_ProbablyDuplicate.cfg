CONSTANTS
    K = 2
    CollisionBitLength = 1
    TruncBits = 1
SPECIFICATION Spec
INVARIANTS
    PairingMatchesCounts
