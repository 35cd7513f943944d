CONSTANTS
    K = 2
    CollisionBitLength = 1
    TruncBits = 1
    RawValues <- MC_RawValues
    SolutionCandidates <- MC_SolutionCandidates
SPECIFICATION Spec
INVARIANTS
    TypeOK
    VerifierMatchesReference
