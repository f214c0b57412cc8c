\* The kernel zone, on a machine whose memory ends before its address space.
SPECIFICATION Spec
CONSTANTS
    D = 6
    PageSize = 2
    KernelDir = 2
    Cr3 = 1
    Low = 2
    High = 3
    LowUnmapped = {0, 4}
    MaxFrame = 11
    Ram = {5, 6, 7, 8, 9}
    DeviceZones <- TableZones
    MaxDeviceRun = 2
    VMMZone <- KernelZone
    AddrEnd <- EndOf
    FirstVaddr <- FirstOf
    MaxRun = 3
    UnmapTargets = {22}
INVARIANTS
    TranslationsHold
    FramesApart
    NoTableFault
