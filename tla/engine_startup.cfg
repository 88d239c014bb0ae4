SPECIFICATION FairSpec
CONSTANTS
    Styles = {"eager", "lockstep"}
    SlaveCount = 2
    Retries = 2
INVARIANTS TypeOK SignalledBeforeAdvance SetUpBeforeMap ServesMapped ControlOnlyInCycle
PROPERTIES LockstepStarts
CHECK_DEADLOCK FALSE
