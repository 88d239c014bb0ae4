SPECIFICATION Spec
CONSTANTS
    Styles = {"lockstep"}
    SlaveCount = 2
    Retries = 2
INVARIANTS PublishedOpIsReached
CHECK_DEADLOCK FALSE
