SPECIFICATION Spec
CONSTANTS
    SlaveCount = 2
    MaxDrops = 0
    Retries = 1
INVARIANTS OpAfterValidData
CHECK_DEADLOCK FALSE
