SPECIFICATION FairSpec
CONSTANTS
    Servo = {1}
    Addressed = {1}
    Position = {p1, p2}
    NoPosition = NoPosition
    MaxSem = 2
    MaxFaults = 1
    Paced = TRUE
INVARIANTS TypeOK IdleMeansTaken
PROPERTIES ImplementsSetPoint AckMeansTaken CommandTaken CommandsDrain
