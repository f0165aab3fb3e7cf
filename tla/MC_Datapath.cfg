SPECIFICATION Spec
CONSTANTS
    LimbBits = 6
    ByteBits = 3
    Slots = 19
    AddressBytes = 5
    PageSize = 16
    MaxOffset = 40
    MaxSteps = 3
    Heights = {0, 3, 17}
    Leftover = {0, 7}
    Departures = {}
    Window = 4
    block_hash <- MCHash
    message <- MCMessage
    context <- MCContext
    code <- MCCode
PROPERTY ImplementsEvm
CHECK_DEADLOCK FALSE
