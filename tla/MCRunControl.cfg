CONSTANTS
    Last = 2
    Jump <- MCJump
    Invalid <- MCInvalid
    MAX_BREAKPOINTS = 1
    MaxMessages = 3
SPECIFICATION Spec
INVARIANTS
    TypeOK
    StopsWithinOne
    InOrderUnlessRaced
PROPERTIES
    BreakpointReached
    QuitEnds
