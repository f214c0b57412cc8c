\* Firmware tables, PCI buses, exceptions and interrupts.
SPECIFICATION Spec
CONSTANTS
    FaultVectors = {3, 14, 16}
    IrqLines = {0, 7}
    MaxEvents = 2
    PageSize = 16
    RomStart = 160
    Firmware <- SmallFirmware
    BusLimit = 2
    DevLimit = 2
    FunLimit = 3
    MaxDevs = 4
    Machines <- SmallMachines
    EntrySize = 20
    Computers <- SmallComputers
INVARIANTS
    GatesBeforeInterrupts
    NoReset
    WalkAligned
    StringsFound
    EntryFound
    DevicesListed
    FirstOfClass
    HaltsHaveCause
    EntriesRead
PROPERTIES
    HaltIsFinal
    BootEnds
