CONSTANTS
    NUL = "NUL"
    LF = "LF"
    CR = "CR"
    BACKSLASH = "BACKSLASH"
    LOWER_H = "h"
    UPPER_H = "H"
    Pins <- MCPins
    Characters <- MCCharacters
    Messages <- MCMessages
    Hex <- MCHex
    Meaning <- MCMeaning
    Texts <- MCTexts
    MaxAlive = 1
    Room = 6
    ClockStores <- MCClockStores
    Firmware = {"uart"}
    MaxStores <- MCMaxStores
SPECIFICATION Spec
PROPERTY TxBufferReady
