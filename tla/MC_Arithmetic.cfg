SPECIFICATION Spec
CONSTANTS
    LimbBits = 6
    ByteBits = 3
    OffsetBits = 5
    ExpByteCost = 5
    Operands <- MCOperands
    Moduli <- MCModuli
    Exponents = {0, 1, 2, 3, 64, 65}
    GasLimits = {4, 20}
INVARIANTS Exact DivisionSound LoopsEnd
