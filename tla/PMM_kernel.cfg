\* The calls this kernel makes, with two ranges of RAM.
SPECIFICATION SpecKernel
CONSTANTS
    PageSize = 8
    AddrSpace = 256
    LowLimit = 80
    BitsPerByte = 2
    ZoneStructSize = 1
    LoaderMap <- TwoRamMap
    KernelImages <- AtLimit
    MaxBit = 40
    Garbage <- AnyGarbage
    MaxRun = 3
    Targets <- TwoRamTargets
INVARIANTS
    FirstFreeIsFirst
    GrantsAreRam
PROPERTY Confined
