SPECIFICATION Spec
CONSTANTS
    Clients = {c1, c2, c3}
    Args = {"run", "other", "missing"}
    Instances = 2
    Statuses = {"SUCCESS", "REVERT"}
INVARIANTS SessionTypeOK Executed OutputBacked
PROPERTY AllReleased
CHECK_DEADLOCK FALSE
