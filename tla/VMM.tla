--------------------------------- MODULE VMM ---------------------------------
(***************************************************************************)
(* The virtual memory manager (VMM.cpp), on the page tables that entry.S   *)
(* builds.                                                                 *)
(*                                                                         *)
(* Page tables live in physical frames, and the code reaches them only     *)
(* through the recursive window: the last directory entry points to the    *)
(* directory itself, so that table d appears as page d of the last 4 MB.   *)
(* mem holds the contents of every frame read as a table, fresh frames     *)
(* included: a frame that becomes a table without being cleared brings     *)
(* whatever was in it.                                                     *)
(*                                                                         *)
(* The PMM is used by what it promises (module FrameAllocator): a request  *)
(* gets a run of frames that it has handed out to nobody, any such run, or *)
(* the kernel panics.  The promise ends when MapPages is asked for a run   *)
(* that leaves its zone, see MapPhysicalAddress.  Virtual addresses are    *)
(* page numbers; an entry is the frame it maps, or None if its present bit *)
(* is clear.                                                               *)
(***************************************************************************)
EXTENDS Integers

CONSTANTS
    D,            \* entries of a directory and of a table: 1024
    PageSize,     \* VMM_PAGE_SIZE: 4096
    KernelDir,    \* directory of the kernel image: 768
    Cr3, Low, High,   \* frames of BootPageDirectory and the two boot tables
    LowUnmapped,  \* identity pages that Init unmaps: 0 and 0xf0..0x3ef
    MaxFrame,     \* last frame of the physical addresses
    Ram,          \* frames the PMM may hand out: allocatable, and not the kernel's
    DeviceZones,  \* the PMM's zones that drivers map tables of: sets of frames
    MaxDeviceRun, \* longest run a driver maps: 17, a 16-bit length and two pages
    VMMZone,      \* the zones in use
    AddrEnd,      \* addr_end of each zone, a byte address
    FirstVaddr,   \* initial last_vaddr of each zone, a page
    MaxRun,       \* bound: longest run of pages in one call
    UnmapTargets  \* bound: the pages passed to Unmap

Index == 0..(D - 1)

Pages == 0..(D * D - 1)

Frames == 0..MaxFrame

None == -1

Entries == Frames \cup {None}

Runs == 1..MaxRun

DeviceFrames == UNION DeviceZones

ASSUME LayoutAssumption ==
    /\ D \in Nat /\ D > 1
    /\ PageSize \in Nat \ {0}
    /\ KernelDir \in 1..(D - 2)
    /\ MaxFrame \in Nat /\ MaxFrame >= D - 1
    /\ {Cr3, Low, High} \subseteq Index
    /\ Cr3 # Low /\ Cr3 # High /\ Low # High
    /\ LowUnmapped \subseteq Index
    /\ Ram \subseteq Frames \ {Cr3, Low, High}
    /\ DeviceFrames \subseteq Frames \ (Ram \cup {Cr3, Low, High})
    /\ AddrEnd \in [VMMZone -> Nat]
    /\ FirstVaddr \in [VMMZone -> Pages]
    /\ MaxRun \in Nat \ {0}
    /\ MaxDeviceRun \in Nat \ {0}
    /\ UnmapTargets \subseteq Pages

VARIABLES
    pc,          \* "boot", "run", "panic", or "lost": the PMM breaks its promise
    mem,         \* mem[f]: the contents of frame f, read as a table
    handed,      \* the PMM: the frames of Ram that it has handed out
    devices,     \* the PMM: device frames that are mapped
    stray,       \* ghost: frames mapped past the end of a driver's zone
    last_vaddr,  \* last_vaddr[zone], a page
    job,         \* the call in progress
    given        \* ghost: given[v]: the frame a caller was told v maps

pmm == <<handed, devices, stray>>

vars == <<pc, mem, pmm, last_vaddr, job, given>>

NoJob == [at |-> "idle", zone |-> "none", phys |-> 0, n |-> 0, virt |-> 0, i |-> 0]

(* What the CPU finds for page v. *)
Walk(v) ==
    LET t == mem[Cr3][v \div D]
    IN  IF t = None THEN None ELSE mem[t][v % D]

(* The frame behind page d of the recursive window: ptbl for the pages of  *)
(* directory d, and pdir for d = D - 1.                                    *)
Window(d) == Walk((D - 1) * D + d)

(* pdir[d].present *)
Present(d) == mem[Window(D - 1)][d] # None

SetEntry(f, i, e) == [mem EXCEPT ![f][i] = e]

Cleared == [i \in Index |-> None]

-----------------------------------------------------------------------------
(* Boot. *)

(* entry.S maps the first 4 MB at 0 and at the kernel's address.  Memory   *)
(* that is not the kernel's has any contents.                              *)
Init ==
    /\ pc = "boot"
    /\ \E junk \in {None, 0} :
          mem = [f \in Frames |->
                    CASE f = Cr3 -> [i \in Index |-> IF i = 0 THEN Low
                                                     ELSE IF i = KernelDir THEN High
                                                     ELSE None]
                      [] f \in {Low, High} -> [i \in Index |-> i]
                      [] OTHER -> [i \in Index |-> junk]]
    /\ handed = {}
    /\ devices = {}
    /\ stray = {}
    /\ last_vaddr = FirstVaddr
    /\ job = NoJob
    /\ given = [v \in Pages |-> None]

(* VMM::Init: the recursive entry, the identity mapping, cr3. *)
VMMInit ==
    /\ pc = "boot"
    /\ mem' = [mem EXCEPT ![Cr3][D - 1] = Cr3,
                          ![Low] = [i \in Index |->
                                       IF i \in LowUnmapped THEN None ELSE @[i]]]
    /\ pc' = "run"
    /\ UNCHANGED <<pmm, last_vaddr, job, given>>

-----------------------------------------------------------------------------
(* AllocateVirtual, AllocateVirtualPhysical, MapPhysicalAddress. *)

Start(phys, n, zone) ==
    job' = [at |-> "dir", zone |-> zone, phys |-> phys, n |-> n,
            virt |-> last_vaddr[zone], i |-> 0]

(* "virtual address space exhausted"; the sum is a 32-bit one. *)
Exhausted(n, zone) ==
    ((last_vaddr[zone] + n) * PageSize - 1) % (D * D * PageSize) >= AddrEnd[zone]

Panic == pc' = "panic" /\ UNCHANGED <<mem, pmm, last_vaddr, job, given>>

FrameRun(p, n) == p..(p + n - 1)

(* AllocatePhysical. *)
Grants(n) == {p \in Ram : FrameRun(p, n) \subseteq Ram \ handed}

(* Mutant: the size is not passed on to AllocatePhysical. *)
AllocateOneFrame(n, zone) ==
    /\ pc = "run" /\ job = NoJob
    /\ ~Exhausted(n, zone)
    /\ \E p \in Grants(n) : handed' = handed \cup {p} /\ Start(p, n, zone)
    /\ UNCHANGED <<pc, mem, devices, stray, last_vaddr, given>>

AllocateVirtualPhysical(n, zone) ==
    /\ pc = "run" /\ job = NoJob
    /\ ~Exhausted(n, zone)
    /\ \E p \in Grants(n) : handed' = handed \cup FrameRun(p, n) /\ Start(p, n, zone)
    /\ UNCHANGED <<pc, mem, devices, stray, last_vaddr, given>>

(* Exhausted, or AllocatePhysical panics, which it does whenever the run   *)
(* does not fit behind the hint of a zone, with frames still free below.   *)
AllocateVirtualPanics(n, zone) ==
    /\ pc = "run" /\ job = NoJob
    /\ Panic

(* MapPages looks for the zone of the run's first page and at the bits     *)
(* that follow that page's.  Past the end of the zone these are not the    *)
(* bits of the run's frames: the run is mapped whoever has them, if the    *)
(* bits there happen to be clear, and setting them tells the PMM nothing   *)
(* about these frames.                                                     *)
MapPhysicalAddress(phys, n, zone) ==
    /\ pc = "run" /\ job = NoJob
    /\ ~Exhausted(n, zone)
    /\ FrameRun(phys, n) \subseteq Frames
    /\ \E Z \in DeviceZones :
          /\ phys \in Z
          /\ FrameRun(phys, n) \cap Z \cap devices = {}
          /\ devices' = devices \cup (FrameRun(phys, n) \cap Z)
          /\ stray' = stray \cup (FrameRun(phys, n) \ Z)
    /\ Start(phys, n, zone)
    /\ UNCHANGED <<pc, mem, handed, last_vaddr, given>>

MapPhysicalPanics(phys, n, zone) ==
    /\ pc = "run" /\ job = NoJob
    /\ \/ Exhausted(n, zone)
       \/ stray # {}
       \/ \E Z \in DeviceZones : phys \in Z /\ ~(FrameRun(phys, n) \subseteq Z \ devices)
    /\ Panic

(* The bits that such a run has set belong to another zone, and its next   *)
(* search may skip past its end (PMM: Confined).  What the PMM hands out   *)
(* from then on is not followed.                                           *)
PromiseBroken ==
    /\ pc = "run" /\ stray # {}
    /\ pc' = "lost"
    /\ UNCHANGED <<mem, pmm, last_vaddr, job, given>>

-----------------------------------------------------------------------------
(* MapPhysicalToVirtual: the directory of the first page, then one page    *)
(* after the other.                                                        *)

Dir(v) == v \div D

(* Mutant: a directory is allocated although there is one. *)
EnterDirectoryAlways ==
    /\ pc = "run" /\ job.at = "dir"
    /\ \E p \in Grants(1) :
          /\ mem' = [mem EXCEPT ![Window(D - 1)][Dir(job.virt)] = p, ![p] = Cleared]
          /\ handed' = handed \cup {p}
    /\ job' = [job EXCEPT !.at = "loop"]
    /\ UNCHANGED <<pc, devices, stray, last_vaddr, given>>

(* MapPageDirectoryIndex and memset, the latter through the window: the    *)
(* new table is already in place there.                                    *)
EnterDirectory ==
    /\ pc = "run" /\ job.at = "dir"
    /\ \/ Present(Dir(job.virt)) /\ UNCHANGED <<mem, handed>>
       \/ /\ ~Present(Dir(job.virt))
          /\ \E p \in Grants(1) :
                /\ mem' = [mem EXCEPT ![Window(D - 1)][Dir(job.virt)] = p, ![p] = Cleared]
                /\ handed' = handed \cup {p}
    /\ job' = [job EXCEPT !.at = "loop"]
    /\ UNCHANGED <<pc, devices, stray, last_vaddr, given>>

EnterDirectoryPanics ==
    /\ pc = "run" /\ job.at = "dir" /\ ~Present(Dir(job.virt))
    /\ Panic

(* The entry of the loop's page is written; after the last entry of a      *)
(* table the next directory is allocated if there is none, even if no page *)
(* of it will be mapped, and it is not cleared.                            *)
Wraps(v) == (v + 1) % D = 0

(* Mutant: the next directory is not allocated. *)
MapPageNoWrap ==
    /\ pc = "run" /\ job.at = "loop" /\ job.i < job.n
    /\ LET v == job.virt + job.i
       IN  /\ Window(Dir(v)) # None
           /\ mem' = SetEntry(Window(Dir(v)), v % D, job.phys + job.i)
    /\ job' = [job EXCEPT !.i = @ + 1]
    /\ UNCHANGED <<pc, pmm, last_vaddr, given>>

MapPage ==
    /\ pc = "run" /\ job.at = "loop" /\ job.i < job.n
    /\ LET v == job.virt + job.i
           missing == Wraps(v) /\ ~Present(Dir(v) + 1)
           written == SetEntry(Window(Dir(v)), v % D, job.phys + job.i)
       IN  /\ Window(Dir(v)) # None
           /\ \/ ~missing /\ mem' = written /\ UNCHANGED handed
              \/ missing /\ \E p \in Grants(1) :
                    /\ mem' = [written EXCEPT ![Window(D - 1)][Dir(v) + 1] = p]
                    /\ handed' = handed \cup {p}
    /\ job' = [job EXCEPT !.i = @ + 1]
    /\ UNCHANGED <<pc, devices, stray, last_vaddr, given>>

(* No frame for the next directory. *)
MapPagePanics ==
    /\ pc = "run" /\ job.at = "loop" /\ job.i < job.n
    /\ LET v == job.virt + job.i
       IN  Window(Dir(v)) # None /\ Wraps(v) /\ ~Present(Dir(v) + 1)
    /\ Panic

(* Back in the caller: the zone's cursor moves and the address is returned. *)
Finish ==
    /\ pc = "run" /\ job.at = "loop" /\ job.i = job.n
    /\ last_vaddr' = [last_vaddr EXCEPT ![job.zone] = job.virt + job.n]
    /\ given' = [v \in Pages |->
                    IF v \in job.virt..(job.virt + job.n - 1)
                    THEN job.phys + (v - job.virt) ELSE given[v]]
    /\ job' = NoJob
    /\ UNCHANGED <<pc, mem, pmm>>

(* VMM::Unmap of pages that a caller was given.  The present bits are      *)
(* cleared; neither the frames nor the addresses are given back.           *)
Unmap(virt, n) ==
    LET run == virt..(virt + n - 1)
    IN  /\ pc = "run" /\ job = NoJob
        /\ run \subseteq Pages
        /\ \A v \in run : given[v] # None /\ Window(Dir(v)) # None
        /\ mem' = [f \in Frames |-> [i \in Index |->
                      IF \E v \in run : Window(Dir(v)) = f /\ v % D = i
                      THEN None ELSE mem[f][i]]]
        /\ given' = [v \in Pages |-> IF v \in run THEN None ELSE given[v]]
        /\ UNCHANGED <<pc, pmm, last_vaddr, job>>

Halted == pc \in {"panic", "lost"} /\ UNCHANGED vars

Next ==
    \/ VMMInit
    \/ \E n \in Runs, z \in VMMZone :
          \/ AllocateVirtualPhysical(n, z)
          \/ AllocateVirtualPanics(n, z)
    \/ \E f \in DeviceFrames, n \in 1..MaxDeviceRun, z \in VMMZone :
          \/ MapPhysicalAddress(f, n, z)
          \/ MapPhysicalPanics(f, n, z)
    \/ PromiseBroken
    \/ EnterDirectory \/ EnterDirectoryPanics
    \/ MapPage \/ MapPagePanics \/ Finish
    \/ \E v \in UnmapTargets, n \in Runs : Unmap(v, n)
    \/ Halted

Spec == Init /\ [][Next]_vars

-----------------------------------------------------------------------------
(* Properties. *)

(* Whatever is allocated, mapped or unmapped later, a page that a caller   *)
(* was given keeps translating to the frame it was given with.             *)
TranslationsHold == \A v \in Pages : given[v] # None => Walk(v) = given[v]

TableFrames == {mem[Cr3][d] : d \in Index} \ {None}

(* No caller's page maps a page table, and no two map the same frame:      *)
(* writes through one allocation change neither another one nor the        *)
(* translation of any page.  The only frames of which this is not true are *)
(* those that a driver's run takes past the end of its zone, because       *)
(* MapPages checks no more than the first page: the kernel's own tables,   *)
(* or pages given before or after, when they follow the zone.              *)
FramesApart ==
    /\ \A v \in Pages : given[v] \in TableFrames => given[v] \in stray
    /\ \A u, v \in Pages :
          given[u] # None /\ given[u] = given[v] => u = v \/ given[u] \in stray

(* The writes of page table entries never go through a window page whose   *)
(* directory is missing, which would be a page fault in the kernel: every  *)
(* table a run of pages crosses is there before its first entry is.        *)
NoTableFault ==
    job.at = "loop" /\ job.i < job.n => Window(Dir(job.virt + job.i)) # None

-----------------------------------------------------------------------------
(* What comments of VMM.cpp say and the code does not do. *)

(* "Allocate directory, present and RW, and clean all bytes of it": a page *)
(* that no call has mapped yet is not present.                             *)
FreshPagesAbsent ==
    pc = "run" /\ job = NoJob =>
        \A z \in VMMZone : \A v \in Pages :
            v >= last_vaddr[z] /\ Dir(v) < D - 1 /\ Dir(v) > KernelDir
                => Walk(v) = None
=============================================================================
