CONSTANTS
    b1 = b1
    b2 = b2
    Browsers <- MCBrowsers
    NONE = NONE
    NOFILE = NOFILE
    STRAY = STRAY
    COMMAND = COMMAND
    Names = {"a.elf"}
    Sizes <- MCSizes
    SizeLimit = 4
    TooBig = {}
SPECIFICATION Spec
CHECK_DEADLOCK FALSE
INVARIANTS
    SessionTypeOK
    PortToldOnce
    ToldOwnPort
    UploadWhole
    OwnFirmware
PROPERTIES
    FirmwareRuns
