SPECIFICATION Spec
CONSTANTS
    Keys <- MCKeys
    Values <- MCValues
    Addresses <- MCAddresses
    Recipient <- MCRecipient
    Bucket <- MCBucket
    Tag <- MCTag
    Unhashed = 3
    MaxAccesses = 4
    BlockNumber = 5
    Window = 2
    Numbers = {4, 6}
    GasLimits = {3, 16}
    Stipend = 2
    cold_sload_cost = 2
    warm_storage_read_cost = 1
    ResetCost = 4
    SetCost = 5
    cold_account_access_cost = 3
INVARIANTS HostTypeOK ReadBack ColdOnce EntryPresent WarmUntilFull
