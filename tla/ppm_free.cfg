SPECIFICATION Spec
CONSTANTS
    Servo = {1}
    Addressed = {0, 1}
    Position = {p1, p2}
    NoPosition = NoPosition
    MaxSem = 2
    MaxFaults = 1
    Paced = FALSE
INVARIANTS RaisedHasCommand StopHolds EnabledIsSetUp
PROPERTIES EnabledStaysEnabled
