SPECIFICATION FairSpec
CONSTANTS
    acceleration = 2
    acceleration50 = 4
    Programs = {"csp_ramp", "csp_debug", "csp_sin", "xeno"}
    Position <- UpAndDown
    Rest = {7}
    Period = 5
    Ring = 2
    MaxRequests = 1
    MaxTroubles <- Troubles
INVARIANTS TypeOK SkipsAccounted
PROPERTIES ArrayIsTraced JointArrives
CHECK_DEADLOCK FALSE
