CONSTANTS
    Starts <- SingleStarts
    Garbage <- MCGarbage
    MaxSteps = 0
    MaxShows = 1
SPECIFICATION Spec
PROPERTY DisassemblyDisplays
