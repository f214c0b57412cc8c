\* Callers that respect ownership, on a PC-like map.
SPECIFICATION Spec
CONSTANTS
    PageSize = 8
    AddrSpace = 256
    LowLimit = 80
    BitsPerByte = 2
    ZoneStructSize = 1
    LoaderMap <- PcMap
    KernelImages <- AnyImage
    MaxBit = 40
    Garbage <- AnyGarbage
    MaxRun = 2
    Targets <- PcTargets
CONSTRAINT NotOverrun
INVARIANTS
    TypeOK
    Layout
    BitmapAgrees
    Exclusive
    NoSharedByte
    KernelKept
PROPERTY ImplementsAllocator
