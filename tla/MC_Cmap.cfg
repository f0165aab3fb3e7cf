SPECIFICATION Spec
CONSTANTS
    Keys <- MCKeys
    Values = {1, 2}
    Absent = Absent
    Hash <- MCHash
    HashRange = 16
    Tags = 2
    LoadPercent = 85
    Capacities = {8}
INVARIANTS TypeOK Reachable ProbesEnd IsMap
CHECK_DEADLOCK FALSE
