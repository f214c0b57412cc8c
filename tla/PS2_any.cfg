\* Prompt and slow machines, with one and two ports.
SPECIFICATION Spec
CONSTANTS
    MaxPolls = 1
    MaxLate = 2
    BiosConfigs <- TwoConfigs
    Keys <- TwoKeys
    Packets = 1
INVARIANTS
    Configured
    KeysInOrder
PROPERTIES
    InitializeEnds
    BufferDrained
