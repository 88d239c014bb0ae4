SPECIFICATION FairSpec
CONSTANTS
    Styles = {"eager"}
    SlaveCount = 2
    Retries = 2
PROPERTIES EagerStarts
CHECK_DEADLOCK FALSE
