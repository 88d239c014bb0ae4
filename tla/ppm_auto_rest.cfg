SPECIFICATION ProgramSpec
CONSTANTS
    Servo = {1, 2}
    Addressed = {2}
    Position = {Low, High}
    NoPosition = NoPosition
    MaxSem = 1
    MaxFaults = 0
    Paced = TRUE
    Programs = {"ppm_auto"}
    Low = Low
    High = High
    RestHigh = TRUE
    Lossy = FALSE

PROPERTIES ReplacedWhenDone
