\* Texts of the main thread, interrupted anywhere by lines of the handlers.
SPECIFICATION Spec
CONSTANTS
    W = 4
    H = 3
    TabStop = 2
    ByteSize = 4
    Chars = {"a", "b", "c", "d", "t", "s", "nul"}
    Texts <- SomeTexts
    TickLine <- Second
    WarningLine <- Warning
    Period = 2
    MaxTicks = 2
    MaxWarnings = 1
    MaxTexts = 2
INVARIANTS
    ScreenShowsTail
    CursorOnScreen
    WritesNearScreen
