--------------------------------- MODULE PMM ---------------------------------
(***************************************************************************)
(* The bitmap-based physical memory manager (PMM.cpp, PMM.hpp).            *)
(*                                                                         *)
(* The constructor turns the loader's memory map into zones and carves one *)
(* allocation bitmap per zone out of the memory that follows the kernel.   *)
(* The bitmaps lie side by side in that pool and no call checks the upper  *)
(* end of one, so they are modelled as they are in memory: ONE array of    *)
(* bits, in which each zone owns a range.  A bit outside every range is a  *)
(* byte the allocator does not own.                                        *)
(*                                                                         *)
(* Addresses are bytes of a 32-bit space (arithmetic modulo AddrSpace).    *)
(* The page size, the width of a byte and the size of the address space    *)
(* are parameters, so that TLC can run the same definitions on a small     *)
(* machine; the kernel's values are named beside each constant.            *)
(***************************************************************************)
EXTENDS Integers, Sequences, FiniteSets

CONSTANTS
    PageSize,        \* PHYS_PAGE_SIZE: 4096
    AddrSpace,       \* number of physical addresses: 2^32
    LowLimit,        \* first address that is not low memory: 0x100000
    BitsPerByte,     \* pages one byte of a bitmap stands for: 8
    ZoneStructSize,  \* sizeof(PMMZone)
    LoaderMap,       \* the entries kernel_main reads: [addr, len, type], 64 bits wide
    KernelImages,    \* where the boot structure may say the kernel is: [start, end];
                     \* the pool starts at end
    MaxBit,          \* bound: last bit of memory modelled past the pool's start
    Garbage,         \* bound: the contents that memory may have at boot
    MaxRun,          \* bound: longest run of pages asked for in one call
    Targets          \* bound: the addresses passed to MapPages, UnmapPages and
                     \* VMM::MapPhysicalAddress

Bits == 0..MaxBit

Runs == 1..MaxRun

(* The fields of the loader's entries are natural numbers, not 32-bit ones. *)
LoaderEntry == [addr : Nat, len : Nat, type : Nat]

ASSUME SizesAssumption ==
    /\ PageSize \in Nat \ {0}
    /\ AddrSpace \in Nat \ {0}
    /\ LowLimit \in Nat \ {0}
    /\ BitsPerByte \in Nat \ {0}
    /\ ZoneStructSize \in Nat
    /\ MaxBit \in Nat
    /\ MaxRun \in Nat \ {0}

ASSUME LoaderAssumption == LoaderMap \in Seq(LoaderEntry)

ASSUME KernelAssumption ==
    \A image \in KernelImages :
        /\ image.start \in 0..(AddrSpace - 1)
        /\ image.end \in Nat
        /\ image.start =< image.end

ASSUME BoundsAssumption ==
    /\ Garbage \subseteq SUBSET Bits
    /\ Targets \subseteq 0..(AddrSpace - 1)

-----------------------------------------------------------------------------
(* Zones: the part of the table that the constructor computes once. *)

Zones == 1..Len(LoaderMap)

(* enum PMMZoneType, and the type word of a zone as the set of its flags. *)
PMMZoneType == {"Normal", "MMIO", "LowMemory", "Zone64Bit"}

(* main.cpp narrows the loader's 64-bit fields to the 32-bit MemoryMap. *)
Start(z) == LoaderMap[z].addr % AddrSpace

Length(z) == LoaderMap[z].len % AddrSpace

(* Mutant: a page that is only partly in the range is counted too. *)
PageCountRoundedUp(z) == (Length(z) + PageSize - 1) \div PageSize

(* A zone shorter than a page is padded to one page, any other one is cut. *)
PageCount(z) ==
    IF Length(z) > 0 /\ Length(z) \div PageSize = 0
    THEN 1
    ELSE Length(z) \div PageSize

(* The zone covers the loader's range, cut to whole pages: narrowing has   *)
(* not moved it, and it is not padded.                                     *)
Fits(z) == LoaderMap[z].addr + LoaderMap[z].len =< AddrSpace

Whole(z) == Fits(z) /\ LoaderMap[z].len >= PageSize

InLowMemory(z) == (Start(z) + Length(z)) % AddrSpace < LowLimit

(* Mutant: only the loader's type 2 counts as reserved. *)
TypeOnlyTwoReserved(z) ==
    IF LoaderMap[z].type # 2
    THEN IF InLowMemory(z) THEN {"LowMemory"} ELSE {"Normal"}
    ELSE IF InLowMemory(z) THEN {"LowMemory", "MMIO"} ELSE {"MMIO"}

Type(z) ==
    IF LoaderMap[z].type = 1
    THEN IF InLowMemory(z) THEN {"LowMemory"} ELSE {"Normal"}
    ELSE IF InLowMemory(z) THEN {"LowMemory", "MMIO"} ELSE {"MMIO"}

(* Mutant: the bitmap is not rounded up. *)
BitmapBytesTruncated(z) == PageCount(z) \div BitsPerByte

BitmapBytes(z) == (PageCount(z) \div BitsPerByte) + 1

(* The address after the zone's last page; it wraps to 0 for a zone that   *)
(* ends with the address space.                                            *)
ZoneLimit(z) == (Start(z) + PageCount(z) * PageSize) % AddrSpace

(* The zone FindZone returns for addr: the first one in table order that   *)
(* holds it.  There may be none.                                           *)
Contains(z, addr) ==
    /\ addr >= Start(z)
    /\ addr =< (Start(z) + PageCount(z) * PageSize - 1) % AddrSpace

FindZone(addr, z) ==
    /\ Contains(z, addr)
    /\ \A y \in 1..(z - 1) : ~Contains(y, addr)

PageOf(z, addr) == (addr - Start(z)) \div PageSize

(* A frame is a page of a zone.  Pages past the zone's end are frames too: *)
(* the code computes with them.                                            *)
Frames == Zones \X Bits

FrameRun(z, p, n) == {z} \X (p..(p + n - 1))

FrameAddr(f) == Start(f[1]) + f[2] * PageSize

FrameBytes(f) == FrameAddr(f)..(FrameAddr(f) + PageSize - 1)

InZone(f) == f[2] < PageCount(f[1])

-----------------------------------------------------------------------------
VARIABLES
    pc,               \* "zones": in the constructor's loop, "reserve": after it,
                      \* "running", "panic": halted by panic(),
                      \* "lost": a scan left the modelled memory
    kernel,           \* kernel_start and the start of the pool
    next,             \* the zone the constructor's loop is at
    kend,             \* kend_addr, as an offset from the start of the pool
    alloc_bitmap,     \* alloc_bitmap[z]: where z's bitmap starts in the pool
    first_free_addr,  \* first_free_addr[z]: where the next search in z starts
    bits,             \* the bits that are set in the pool and after it
    held,             \* ghost: the frames handed out and not given back
    shared,           \* ghost: frames handed out while somebody held them
    overran           \* ghost: a call has handed out a frame past its zone's end

table == <<kernel, next, kend, alloc_bitmap>>

ghosts == <<held, shared, overran>>

vars == <<pc, table, first_free_addr, bits, ghosts>>

Bit(z, p) == BitsPerByte * alloc_bitmap[z] + p

BitRun(z, p, n) == {Bit(z, i) : i \in p..(p + n - 1)}

(* The bits of memory that the bitmap of z was allocated for. *)
BitmapBits(z) == {Bit(z, i) : i \in 0..(BitsPerByte * BitmapBytes(z) - 1)}

(* The loops of CheckIfPagesFree and MapPagesInBitmap have no upper end;   *)
(* Modelled is this model's own, the end of Bits.                          *)
Modelled(z, p, n) == BitRun(z, p, n) \subseteq Bits

(* Mutant: only the first page of the run is looked at. *)
CheckFirstPageFree(z, p, n) == Bit(z, p) \notin bits

CheckIfPagesFree(z, p, n) == BitRun(z, p, n) \cap bits = {}

MapPagesInBitmap(z, p, n) == bits' = bits \cup BitRun(z, p, n)

(* Ghost bookkeeping of a run of pages that a caller now owns. *)
HandOut(z, p, n) ==
    /\ held' = held \cup FrameRun(z, p, n)
    /\ shared' = shared \cup (held \cap FrameRun(z, p, n))
    /\ overran' = (overran \/ p + n > PageCount(z))

-----------------------------------------------------------------------------
(* The constructor. *)

Init ==
    /\ pc = "zones"
    /\ kernel \in KernelImages
    /\ next = 1
    /\ kend = ZoneStructSize * Len(LoaderMap)
    /\ alloc_bitmap = [z \in Zones |-> 0]
    /\ first_free_addr = [z \in Zones |-> 0]
    /\ bits \in Garbage
    /\ held = {}
    /\ shared = {}
    /\ overran = FALSE

(* Mutant: the bitmap is used as it is found. *)
LayZoneUncleared ==
    /\ pc = "zones"
    /\ next \in Zones
    /\ alloc_bitmap' = [alloc_bitmap EXCEPT ![next] = kend]
    /\ first_free_addr' = [first_free_addr EXCEPT ![next] = Start(next)]
    /\ kend' = kend + BitmapBytes(next)
    /\ next' = next + 1
    /\ UNCHANGED <<pc, kernel, bits, ghosts>>

(* One turn of the loop over the memory map: kernel_end_malloc, memset. *)
LayZone ==
    /\ pc = "zones"
    /\ next \in Zones
    /\ alloc_bitmap' = [alloc_bitmap EXCEPT ![next] = kend]
    /\ first_free_addr' = [first_free_addr EXCEPT ![next] = Start(next)]
    /\ kend' = kend + BitmapBytes(next)
    /\ bits' = bits \ {BitsPerByte * kend + i :
                          i \in 0..(BitsPerByte * BitmapBytes(next) - 1)}
    /\ next' = next + 1
    /\ UNCHANGED <<pc, kernel, ghosts>>

ZonesLaid ==
    /\ pc = "zones"
    /\ next \notin Zones
    /\ pc' = "reserve"
    /\ UNCHANGED <<table, first_free_addr, bits, ghosts>>

(* Mutant: the last, partly used page is not counted. *)
PmmPageCountTruncated == (kernel.end + kend - kernel.start) \div PageSize

(* pmm_page_count: the pages of the kernel image and of the pool after it. *)
PmmPageCount == 1 + ((kernel.end + kend - kernel.start) \div PageSize)

(* What a successful MapPages does to the state. *)
CanMap(z, addr, n) ==
    /\ FindZone(addr, z)
    /\ addr >= first_free_addr[z]
    /\ CheckIfPagesFree(z, PageOf(z, addr), n)

(* Mutant: the sum is not narrowed to 32 bits. *)
DoMapWide(z, addr, n) ==
    /\ Modelled(z, PageOf(z, addr), n)
    /\ MapPagesInBitmap(z, PageOf(z, addr), n)
    /\ first_free_addr' =
          IF addr = first_free_addr[z]
          THEN [first_free_addr EXCEPT ![z] = addr + n * PageSize]
          ELSE first_free_addr
    /\ HandOut(z, PageOf(z, addr), n)

(* Mutant: first_free_addr is left where it was. *)
DoMapKeepsHint(z, addr, n) ==
    /\ Modelled(z, PageOf(z, addr), n)
    /\ MapPagesInBitmap(z, PageOf(z, addr), n)
    /\ HandOut(z, PageOf(z, addr), n)
    /\ UNCHANGED first_free_addr

DoMap(z, addr, n) ==
    /\ Modelled(z, PageOf(z, addr), n)
    /\ MapPagesInBitmap(z, PageOf(z, addr), n)
    /\ first_free_addr' =
          IF addr = first_free_addr[z]
          THEN [first_free_addr EXCEPT ![z] = (addr + n * PageSize) % AddrSpace]
          ELSE first_free_addr
    /\ HandOut(z, PageOf(z, addr), n)

Reserve ==
    /\ pc = "reserve"
    /\ \E z \in Zones :
          /\ CanMap(z, kernel.start, PmmPageCount)
          /\ DoMap(z, kernel.start, PmmPageCount)
    /\ pc' = "running"
    /\ UNCHANGED table

ReservePanics ==
    /\ pc = "reserve"
    /\ \A z \in Zones : ~CanMap(z, kernel.start, PmmPageCount)
    /\ pc' = "panic"
    /\ UNCHANGED <<table, first_free_addr, bits, ghosts>>

-----------------------------------------------------------------------------
(* AllocatePhysical. *)

(* page_offset before the search; the subtraction is unsigned. *)
HintPage(z) == ((first_free_addr[z] - Start(z)) % AddrSpace) \div PageSize

(* Mutant: the length of the run is forgotten. *)
SuitableForOnePage(z, n, t) ==
    /\ t \in Type(z)
    /\ first_free_addr[z] < ZoneLimit(z)
    /\ HintPage(z) < PageCount(z)

(* The tests that make the loop over the zones try the next one. *)
Suitable(z, n, t) ==
    /\ t \in Type(z)
    /\ first_free_addr[z] < ZoneLimit(z)
    /\ HintPage(z) + n < PageCount(z)

FirstSuitable(z, n, t) ==
    /\ Suitable(z, n, t)
    /\ \A y \in 1..(z - 1) : ~Suitable(y, n, t)

(* The search goes up from the hint until the run is free.  The test       *)
(* against pagecount inside it continues the search, it does not end it.   *)
FirstFreeRun(z, p, n) ==
    /\ p >= HintPage(z)
    /\ CheckIfPagesFree(z, p, n)
    /\ \A q \in HintPage(z)..(p - 1) : ~CheckIfPagesFree(z, q, n)

DoAllocate(z, p, n) ==
    /\ MapPagesInBitmap(z, p, n)
    /\ first_free_addr' =
          [first_free_addr EXCEPT
              ![z] = (Start(z) + (p + n) * PageSize) % AddrSpace]
    /\ HandOut(z, p, n)

AllocatePhysical(n, t) ==
    /\ pc = "running"
    /\ t # "MMIO"
    /\ \E z \in Zones, p \in Bits :
          /\ FirstSuitable(z, n, t)
          /\ FirstFreeRun(z, p, n)
          /\ Modelled(z, p, n)
          /\ DoAllocate(z, p, n)
    /\ UNCHANGED <<pc, table>>

(* An MMIO request, or no zone left to try. *)
AllocatePanics(n, t) ==
    /\ pc = "running"
    /\ t = "MMIO" \/ \A z \in Zones : ~Suitable(z, n, t)
    /\ pc' = "panic"
    /\ UNCHANGED <<table, first_free_addr, bits, ghosts>>

(* The search passes the end of the modelled memory. *)
AllocateRunsAway(n, t) ==
    /\ pc = "running"
    /\ t # "MMIO"
    /\ \E z \in Zones :
          /\ FirstSuitable(z, n, t)
          /\ \A p \in Bits :
                FirstFreeRun(z, p, n) => ~Modelled(z, p, n)
    /\ pc' = "lost"
    /\ UNCHANGED <<table, first_free_addr, bits, ghosts>>

-----------------------------------------------------------------------------
(* MapPages and UnmapPages. *)

(* Mutant: it goes on after a panic. *)
MapPagesAfterPanic(addr, n) ==
    /\ pc \in {"running", "panic"}
    /\ \E z \in Zones : CanMap(z, addr, n) /\ DoMap(z, addr, n)
    /\ UNCHANGED <<pc, table>>

MapPages(addr, n) ==
    /\ pc = "running"
    /\ \E z \in Zones : CanMap(z, addr, n) /\ DoMap(z, addr, n)
    /\ UNCHANGED <<pc, table>>

(* Each of the early returns of MapPages: 0xffffffff, and nothing changes. *)
MapPagesFails(addr, n) ==
    /\ pc = "running"
    /\ \A z \in Zones : ~CanMap(z, addr, n)
    /\ UNCHANGED vars

Align(addr) == (addr \div PageSize) * PageSize

SymDiff(S, T) == (S \ T) \cup (T \ S)

(* The bits are flipped, whatever they were. *)
UnmapPages(addr, n) ==
    /\ pc = "running"
    /\ \E z \in Zones :
          LET run == FrameRun(z, PageOf(z, addr), n)
          IN  /\ FindZone(addr, z)
              /\ Modelled(z, PageOf(z, addr), n)
              /\ first_free_addr' =
                    IF addr < first_free_addr[z]
                    THEN [first_free_addr EXCEPT ![z] = Align(addr)]
                    ELSE first_free_addr
              /\ bits' = SymDiff(bits, BitRun(z, PageOf(z, addr), n))
              /\ held' = held \ run
    /\ UNCHANGED <<pc, table, shared, overran>>

UnmapPagesFails(addr, n) ==
    /\ pc = "running"
    /\ \A z \in Zones : ~FindZone(addr, z)
    /\ UNCHANGED vars

-----------------------------------------------------------------------------
(* Who calls.  The frames of the kernel and of the tables are nobody's to  *)
(* give back.                                                              *)

KernelFrames ==
    UNION {FrameRun(z, PageOf(z, kernel.start), PmmPageCount) :
              z \in {y \in Zones : FindZone(kernel.start, y)}}

Owned(addr, n) ==
    \A z \in Zones :
        FindZone(addr, z) =>
            FrameRun(z, PageOf(z, addr), n) \subseteq held \ KernelFrames

(* UnmapPages called by the owner of all the pages it names. *)
Release(addr, n) == Owned(addr, n) /\ UnmapPages(addr, n)

(* panic() disables interrupts and halts; a lost scan never returns. *)
Halted == pc \in {"panic", "lost"} /\ UNCHANGED vars

Boot == LayZone \/ ZonesLaid \/ Reserve \/ ReservePanics

Allocations(T) ==
    \E n \in Runs, t \in T :
        \/ AllocatePhysical(n, t)
        \/ AllocatePanics(n, t)
        \/ AllocateRunsAway(n, t)

Mappings ==
    \E addr \in Targets, n \in Runs :
        MapPages(addr, n) \/ MapPagesFails(addr, n)

(* Callers that allocate, map, and give back only what they own. *)
Next ==
    \/ Boot
    \/ Allocations(PMMZoneType)
    \/ Mappings
    \/ \E addr \in Targets, n \in Runs :
          Release(addr, n) \/ UnmapPagesFails(addr, n)
    \/ Halted

Spec == Init /\ [][Next]_vars

(* The same callers without MapPages. *)
NextAllocate ==
    \/ Boot
    \/ Allocations(PMMZoneType)
    \/ \E addr \in Targets, n \in Runs : Release(addr, n)
    \/ Halted

SpecAllocate == Init /\ [][NextAllocate]_vars

(* The calls this kernel makes today: the VMM allocates Normal pages, and  *)
(* VMM::MapPhysicalAddress maps the firmware's table, and up to two pages  *)
(* more than it has; it panics if MapPages fails.  Nothing calls           *)
(* UnmapPages.                                                             *)
MapDevice(phys, n) == MapPages(Align(phys), n)

MapDevicePanics(phys, n) ==
    /\ pc = "running"
    /\ \A z \in Zones : ~CanMap(z, Align(phys), n)
    /\ pc' = "panic"
    /\ UNCHANGED <<table, first_free_addr, bits, ghosts>>

NextKernel ==
    \/ Boot
    \/ Allocations({"Normal"})
    \/ \E phys \in Targets, n \in Runs :
          MapDevice(phys, n) \/ MapDevicePanics(phys, n)
    \/ Halted

SpecKernel == Init /\ [][NextKernel]_vars
-----------------------------------------------------------------------------
(* Properties. *)

Laid == {z \in Zones : z < next}

(* Types of the zone table, the bit array and the ghosts. *)
TypeOK ==
    /\ pc \in {"zones", "reserve", "running", "panic", "lost"}
    /\ kernel \in KernelImages
    /\ next \in 1..(Len(LoaderMap) + 1)
    /\ kend \in Nat
    /\ alloc_bitmap \in [Zones -> Nat]
    /\ first_free_addr \in [Zones -> 0..(AddrSpace - 1)]
    /\ bits \subseteq Bits
    /\ held \subseteq Zones \X Nat
    /\ shared \subseteq Zones \X Nat
    /\ overran \in BOOLEAN

(* The constructor carves the pool into bitmaps that follow the zone table *)
(* and overlap neither it nor one another, and kend_addr ends after the    *)
(* last: every page of a zone has a bit of its own.                        *)
Layout ==
    /\ kend >= ZoneStructSize * Len(LoaderMap)
    /\ \A z \in Laid :
          /\ alloc_bitmap[z] >= ZoneStructSize * Len(LoaderMap)
          /\ alloc_bitmap[z] + BitmapBytes(z) =< kend
          /\ PageCount(z) =< BitsPerByte * BitmapBytes(z)
    /\ \A y, z \in Laid :
          y < z => alloc_bitmap[y] + BitmapBytes(y) =< alloc_bitmap[z]

(* Nothing is handed out before the constructor's loop over the map ends.  *)
Ready ==
    /\ pc # "zones" => next = Len(LoaderMap) + 1
    /\ pc \in {"zones", "reserve"} => held = {} /\ shared = {} /\ ~overran

(* Until a call hands out a page past the end of its zone, the bitmaps and *)
(* the owners agree page by page: a set bit is a page somebody holds, and  *)
(* nobody holds a page whose bit is clear.                                 *)
BitmapAgrees ==
    ~overran =>
        \A z \in Laid : \A p \in 0..(PageCount(z) - 1) :
            Bit(z, p) \in bits <=> <<z, p>> \in held

(* Until such a call, no page is handed out twice, by any mixture of       *)
(* AllocatePhysical, MapPages and owners calling UnmapPages.               *)
Exclusive == ~overran => shared = {} /\ \A f \in held : InZone(f)

(* The loader's ranges do not overlap.  The code relies on it: detecting   *)
(* overlapping zones is a TODO of PMM.hpp.                                 *)
RangesDisjoint ==
    \A y, z \in Zones : y # z =>
        \/ LoaderMap[y].addr + LoaderMap[y].len =< LoaderMap[z].addr
        \/ LoaderMap[z].addr + LoaderMap[z].len =< LoaderMap[y].addr

(* The firmware's tables begin in no range that is allocatable RAM. *)
DevicesReserved ==
    \A phys \in Targets, z \in Zones :
        FindZone(Align(phys), z) => "Normal" \notin Type(z)

(* The inductive invariant of the proofs. *)
PMMInv == TypeOK /\ Layout /\ Ready /\ BitmapAgrees /\ Exclusive

(* Until such a call, two pages that are handed out share a byte only if   *)
(* the constructor padded the range of one of them to a page, or narrowing *)
(* moved it: then its page reaches into the range behind it.  A range that *)
(* ends inside a page is cut and shares nothing.                           *)
NoSharedByte ==
    ~overran =>
        \A f, g \in held :
            f # g /\ Whole(f[1]) /\ Whole(g[1])
                => FrameBytes(f) \cap FrameBytes(g) = {}

(* The kernel image and the tables behind it stay reserved: every byte of  *)
(* them lies in a page that is held and whose bit is set.                  *)
KernelKept ==
    pc = "running" /\ ~overran =>
        /\ kernel.start..(kernel.end + kend - 1) \subseteq
              UNION {FrameBytes(f) : f \in held \cap KernelFrames}
        /\ \A f \in KernelFrames : Bit(f[1], f[2]) \in bits

(* With the calls this kernel makes, no step hands out a page past the end *)
(* of an allocatable zone and no search runs away, although nothing in     *)
(* AllocatePhysical's search stops it at the end.  It holds until a table  *)
(* is mapped past the end of its reserved range, which MapPages allows:    *)
(* that sets bits of another bitmap.                                       *)
Confined ==
    [][~overran =>
          /\ pc' # "lost"
          /\ \A f \in held' \ held : "Normal" \in Type(f[1]) => InZone(f)]_vars

(* Until then, first_free_addr is what its comment says in every zone that *)
(* is allocated from: the pages below it are held, the ones above are      *)
(* free.                                                                   *)
FirstFreeIsFirst ==
    pc = "running" /\ ~overran =>
        \A z \in Zones : "Normal" \in Type(z) =>
            \A p \in 0..(PageCount(z) - 1) :
                <<z, p>> \in held <=> FrameAddr(<<z, p>>) < first_free_addr[z]

(* Until then, a page handed out of a Normal zone is memory that the       *)
(* loader reported as usable RAM in the zone's own entry, down to its last *)
(* byte, unless the entry lies above the 32-bit addresses: then narrowing  *)
(* has moved the zone to memory that is something else.                    *)
GrantsAreRam ==
    ~overran =>
        \A f \in held : "Normal" \in Type(f[1]) /\ Fits(f[1]) =>
            LET e == LoaderMap[f[1]]
            IN  e.type = 1 /\ FrameBytes(f) \subseteq e.addr..(e.addr + e.len - 1)

-----------------------------------------------------------------------------
(* The promise to the callers, see FrameAllocator. *)
Allocator == INSTANCE FrameAllocator WITH
    Pages <- [z \in Zones |-> PageCount(z)],
    owned <- held,
    doubly <- shared,
    reserved <- held \cap KernelFrames,
    halted <- (pc \in {"panic", "lost"}),
    broken <- overran

(* Every call of an owner is one the abstract allocator allows: a whole    *)
(* run of free frames is granted or the kernel halts, and afterwards it    *)
(* grants nothing.                                                         *)
ImplementsAllocator == Allocator!Spec

(* AllocatePhysical: "It will panic if it don't, so no worries".  It does  *)
(* not: it hands out pages past the end of a zone.                         *)
PanicsRatherThanOverruns == ~overran
=============================================================================
