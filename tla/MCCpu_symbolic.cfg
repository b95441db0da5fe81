CONSTANTS
    Starts <- OperandStarts
    Garbage <- MCGarbage
    MaxSteps = 1
    MaxShows = 0
SPECIFICATION Spec
PROPERTY SourceIsMeant
