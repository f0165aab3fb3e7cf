SPECIFICATION LockSpec
CONSTANTS
    Alphabet = {58, 80, 86, 91, 96, 12}
    CodeLen = 4
    Codes <- LockCodes
    Garbage <- MCGarbage
    INT16_MAX = 32767
    UINT32_MAX = 1073741823
    WordSize = 65536
    Outcomes <- MCOutcomes
    GasLimits <- LockGas
    StackLimit = 3
    IntSize = 65536
    SstoreGate = 10
    NewAccount = 25
INVARIANTS OutcomeAgrees InStep NeverAhead
PROPERTY GasNeverGained
