SPECIFICATION Spec
CONSTANTS
    WordBytes = 4
    PageSize = 16
    MaxBuffer = 24
    Limb = 1024
    QuadDivisor = 4
    ColdCost = 7
    Offsets <- MCOffsets
    Sizes <- MCSizes
    GasLimits = {20, 80}
INVARIANTS TypeOK InBounds GasConserved CapacityTight
