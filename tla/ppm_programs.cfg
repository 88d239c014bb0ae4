SPECIFICATION ProgramSpec
CONSTANTS
    Servo = {1, 2}
    Addressed = {2}
    Position = {Low, High}
    NoPosition = NoPosition
    MaxSem = 2
    MaxFaults = 0
    Paced = TRUE
    Programs = {"ppm_user", "ppm_auto"}
    Low = Low
    High = High
    RestHigh = FALSE
    Lossy = TRUE
INVARIANTS IdleMeansTaken StopHolds AutoKeepsUp
PROPERTIES ReplacedWhenDone Alternates
