\* Messages of two and three tokens.
SPECIFICATION Spec
CONSTANTS
    WordMod = 256
    LongMod = 65536
    DecBuf = 5
    HexBuf = 2
    PadBuf = 4
    Slacks = {0, 1, 2, 3}
    Tag <- SmallTag
    Calls <- SmallCalls
INVARIANTS
    WritesFit
    StopsForCause
    Formatted
    LoggedWhole
