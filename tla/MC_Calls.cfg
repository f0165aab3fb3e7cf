SPECIFICATION CallsSpec
CONSTANTS
    WordBytes = 4
    PageSize = 16
    MaxBuffer = 24
    Limb = 1024
    QuadDivisor = 4
    ColdCost = 4
    Offsets <- MCOffsets
    Sizes <- MCSizes
    GasLimits = {26}
    GrowBy = 1
    CallStipend = 2
    ValueCost = 4
    NewAccountCost = 4
    HashWordCost = 1
    Share = 4
    DepthLimit = 2
    Depths = {1, 2}
    MaxCalls = 2
    GasOperands = {0, 511}
    CallValues = {0, 1}
    Balance = 0
INVARIANTS Solvent InputsFresh InBounds GasConserved
