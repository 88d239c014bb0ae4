SPECIFICATION FairSpec
CONSTANTS
    N = 2
    Position = {6}
    Rest = {4}
    Home = 2
    Velocity = 1
    MaxRequests = 1
    MaxTroubles = 1
INVARIANTS TypeOK
PROPERTIES StartsAtRest AllSettle JointArrives
