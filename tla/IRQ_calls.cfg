\* Every call of the two classes.
SPECIFICATION Spec
CONSTANTS
    Half = 3
    Cascade = 1
    MaxHandlers = 2
    Handlers <- PitAndPs2
    NULL = NULL
    Requests <- AllRequests
    Raising = {0, 2, 4}
    Latching = {2, 4}
    Noisy = {0, 3}
    Reads <- AllReads
INVARIANTS
    ServiceMatches
    RegisteredUnmasked
