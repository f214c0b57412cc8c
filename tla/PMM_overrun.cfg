\* A page past the end of a zone is handed out.
SPECIFICATION SpecAllocate
CONSTANTS
    PageSize = 8
    AddrSpace = 256
    LowLimit = 80
    BitsPerByte = 2
    ZoneStructSize = 1
    LoaderMap <- PcMap
    KernelImages <- AtLimit
    MaxBit = 40
    Garbage <- Clear
    MaxRun = 2
    Targets <- PcTargets
INVARIANT PanicsRatherThanOverruns
