CONSTANTS
    Starts <- AluStarts
    Garbage <- MCGarbage
    MaxSteps = 1
    MaxShows = 0
SPECIFICATION Spec
PROPERTY BorrowExact
