SPECIFICATION Spec
CONSTANTS
    Nodes = {n1, n2, n3, n4}
    NULL = NULL
    Keys = {"a", "A"}
    Fold <- MCFold
    NestingLimit = 2
    Texts <- MCTexts
    Lefts = {0, 1, 2, 9}
    MaxCount = 3
    MaxCalls = 4
    Makeable = {"Array", "Object", "String", "Number"}
INVARIANTS ListsAgree NothingLost RoundTrip ReadsText
CHECK_DEADLOCK FALSE
