CONSTANTS
    Starts <- MCStarts
    Garbage <- MCGarbage
    MaxSteps = 2
    MaxShows = 1
SPECIFICATION Spec
INVARIANTS
    TypeOK
    BoundariesAgree
    PushPop
    CallReturn
PROPERTIES
    SignFlagsExact
    WritesOnlyDestination
    NearJumpsLandRight
    SignedBranchesRight
    CallGoesToSource
    DisassemblyPure
