SPECIFICATION FairSpec
CONSTANTS
    Alphabet = {58, 80, 86, 90, 91, 96, 12}
    CodeLen = 4
    Codes <- MCCodes
    Garbage <- MCGarbage
    INT16_MAX = 32767
    UINT32_MAX = 1073741823
    WordSize = 65536
    Outcomes <- MCOutcomes
    GasLimits <- InterpGas
    StackLimit = 7
    IntSize = 65536
    SstoreGate = 10
    NewAccount = 25
INVARIANTS TypeOK JumpTableSound StackSafe
PROPERTY Termination
