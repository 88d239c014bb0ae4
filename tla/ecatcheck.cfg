SPECIFICATION FairSpec
CONSTANTS
    SlaveCount = 2
    MaxDrops = 1
    Retries = 1
INVARIANTS TypeOK LostIsChecked
PROPERTIES OpIsKept AllResume LostIsRecovered
CHECK_DEADLOCK FALSE
