# annOS: a TLA+ model of the kernel's core

annOS is a small 32-bit x86 kernel in C++ (`src/src`). It boots from a
multiboot loader, sets up paging, interrupts, memory managers and a few
drivers, and then idles in `hlt`; what happens afterwards happens in interrupt
handlers. The repository has no tests. This directory models its parts, from
the loader's memory map to the last handler, model-checks them on small
instances with TLC, and proves with TLAPS, for every size, what can be proved of
it: that the physical allocator is correct and keeps an abstract promise to its
callers, and the safety properties of interrupt dispatch, of the virtual memory
manager, of the PS/2 driver, of fault handling, of booting with its drivers, and
of the console.

## 1. Inventory

| Component | Source | State | Operations | Model |
|---|---|---|---|---|
| Physical memory manager | `PMM.cpp`, `PMM.hpp` | zone table, one bitmap per zone, `first_free_addr` | constructor, AllocatePhysical, MapPages, UnmapPages | `PMM`, `FrameAllocator` |
| Virtual memory manager | `arch/x86/VMM.cpp`, `boot/x86/entry.S` | page directory and tables, a cursor per zone | Init, AllocateVirtual(Physical), MapPhysicalAddress, Unmap | `VMM` |
| 8259 driver | `arch/x86/i8259.cpp` | request, mask and service registers of two chips | Initialize, Reset, SetIRQMask, SendEOI | `I8259` |
| Interrupt dispatch | `arch/x86/IRQHandler.cpp`, `.S` | 16 lists of handlers | SetHandler, RemoveHandler, IRQDispatcher | `IRQHandler` |
| PS/2 driver | `arch/x86/PS2.cpp` | number of channels, device types; the 8042's buffer and configuration | Initialize, InitKeyboard, SendCommand, Reset, OnIRQ | `PS2` |
| Fault handler, IDT | `arch/x86/FaultHandler.*`, `IDT.*` | gates, handlers | Init, SetHandler, dispatch | `FaultHandler` |
| SMBIOS | `arch/x86/SMBIOS.cpp` | entry address, place in the table | Detect, Initialize, GetSMBiosString, Parse... | `SMBIOS` |
| PCI bus | `PCIBus.cpp`, `PCIDevice.cpp` | table of devices | Initialize, FindPCIByClass, FindPCIByVendor | `PCIBus` |
| Boot | `main.cpp`, `boot/x86/entry.S` | stack of objects | one straight line | `Boot`; entry.S in `VMM`'s Init, the map's narrowing in `PMM` |
| VGA console | `VGAConsole.cpp`, `libk/stdio_write.cpp` | cursor, framebuffer, cursor registers | WriteVGA, WriteChar, Scroll, Clear | `Console` |
| Timer and PIT | `Timer.cpp`, `arch/x86/PIT.cpp` | 64-bit tick count | Tick, Get | `Console` (Tick) |
| libk | `libk/stdio.cpp`, `stdlib.cpp`, `panic.cpp` | the caller's buffer | vsprintf and its conversions, strcat, panic | `Stdio` |
| Log, serial console | `Log.cpp`, `DebugConsole.cpp` | none but the port | Write | `Stdio` (the line), `Console` (warnings on the screen) |
| Device classes, port I/O | `Device.cpp`, `KeyboardDevice.cpp`, `arch/x86/IO.cpp` | names | stubs, single instructions | not modelled |

How they interact. `kernel_main` calls everything in one order with interrupts
enabled from line 138 on. The VMM calls the PMM for the frames of pages and of
page tables; SMBIOS calls the VMM to map tables of the firmware. Devices raise
lines of the 8259; the stubs disable interrupts, IRQDispatcher calls the
handlers of the line (PIT, PS2) and sends the EOI. Handlers print, on the
console the interrupted thread may be printing on. There is one CPU and no
scheduler, so all concurrency is: main thread, handlers that run to completion
between two instructions of it, and devices.

What is hard: bitmaps that lie side by side with no bound checked at the upper
end; a search hint that must follow the bitmap through any sequence of calls;
32-bit sums at the ends of ranges; page tables that are edited through
themselves; runs that cross a page directory; end-of-interrupt commands that
do not say which interrupt they end; registration racing delivery; printing
from two contexts; a keyboard controller that answers late, or not, or with a
key in place of an answer; firmware tables whose structures end only where two
zeros say so; exceptions inside exceptions; a formatter that ends its string
and overwrites the end again at every token. `PROJECT.json` lists them as hazards, at their lines.

## 2. Modules

Each module has its proofs, if any, in a module named after it
(`PMMProofs`, `IRQHandlerProofs`, ...); `ArithmeticLemmas` holds what they share.

**`PMM`** (`MCPMM`, `PMMProofs`). The pool behind the kernel is ONE array of
bits (`bits`), in which each zone's bitmap is a range, because that is what
lets a call damage another zone's bitmap. `LayZone` is a turn of the
constructor's loop, `Reserve` its final MapPages. `AllocatePhysical`,
`MapPages` and `UnmapPages` are each one action, their early returns and
panics are actions of their own. The search loop is `FirstFreeRun`: the
`continue` in it continues the search, so the search has no end at
`pagecount`; if it leaves the modelled memory the model stops in "lost". The
ghosts `held`, `shared` and `overran` record who was given what. There are
three kinds of callers: `Spec` (any sizes and types, gives back only what it
owns), `SpecAllocate` (the same without MapPages), `SpecKernel` (what this
kernel calls today: Normal pages for the VMM, and MapPages for the firmware's
tables through `VMM::MapPhysicalAddress`). `MapDevice` has no guard but
MapPages's own: SMBIOS asks for up to two pages more than its table has, and
only the first page is looked up, so that run may leave its zone and set bits of
another bitmap. `overran` then becomes true, and what the properties say of
`SpecKernel` ends there.

**`FrameAllocator`** is the promise behind that, and what a caller may rely
on: frames are granted in whole runs to one owner at a time, come back only
from the owner, the kernel's own never come back, nothing is granted after a
panic, until a page past a zone's end was handed out. `PMM` implements it
(`ImplementsAllocator`) under the mapping `owned <- held`, `doubly <- shared`,
`reserved <- held \cap KernelFrames`, `halted <- pc \in {"panic", "lost"}`,
`broken <- overran`.

**`I8259`** and **`IRQHandler`** (`MCIRQ`, `IRQHandlerProofs`). The chips are external, modelled
fully nested and edge triggered with a cascade, including the spurious
interrupts that SendEOI handles; the driver's writes are translated from the
code. A call of the main thread takes two steps where an interrupt can see the
state in between: SetHandler unmasks and then stores, RemoveHandler removes
and then looks at the list, Reset initialises, clears and restores. The
dispatcher's loop takes one step per handler. A latching device (the 8042)
raises its line once and is silent until a handler has read its byte. The
ghost `early` holds the lines whose byte came before a handler that reads it
was stored.

**`VMM`** (`MCVMM`, `VMMProofs`). Page tables are the contents of frames (`mem`), and the
code reads and writes them only through the recursive window, which is a page
walk like any other (`Walk`, `Window`). MapPhysicalToVirtual takes a step for
the first directory and one for each page. Frames that nobody cleared have any
contents. The PMM appears as what `FrameAllocator` promises and `PMM` is shown
to keep: any run of frames of `Ram` that it has handed out to nobody
(`Grants`), or a panic. RAM, boot tables and device ranges may lie anywhere
among the frames, in the first 4 MB too. `MapPhysicalAddress` looks up the zone
of the first frame only; what a run takes past the end of that zone goes into
the ghost `stray`, whoever has it, and from then on the PMM's promise may break
(`PromiseBroken`). An entry is a
frame or absent; the other flags and the TLB are left out (every caller maps
present pages, and translations are only ever added after Init's cr3 reload,
except by Unmap, which nothing calls after boot).

**`Console`** (`MCConsole`, `ConsoleProofs`). The main thread goes through WriteChar, Scroll
and update_cursor one load, store or port write at a time, because the build
is unoptimised and `_xPos++` is two instructions; a handler's line is one
step. The ghost `page` is the reference: the page an endless screen would
show, the characters placed so far by row and column. An escape sequence is
read before WriteChar is called and moves nothing; the character behind it is
drawn without a look at it, so a text that ends in one (the fault handler's)
gets one zero drawn (`WithZero`): vsprintf has left two, and the second ends the
loop. Of two sequences in a row the second is therefore not read as one, and
`TextsAssumption` asks for its characters instead. `clean` becomes false when a handler prints inside a WriteChar or an
update_cursor.

**`PS2`** (`MCPS2`, `PS2Proofs`). Initialize is written as the list of its port accesses and
of its calls of SendCommand and Reset (`Initialize`), which `Driver` runs one
access at a time against an 8042 with a one-byte output buffer. The driver
mostly reads without looking whether a byte is there and then gets the last
one again; `seen.late` and `seen.noisy` record whether that can have happened.
After it come the two SetHandlers of `kernel_main`, in two steps each, and
OnIRQ, whose mouse part reads twice. The 8042 and its devices are external: it
keeps its configuration over the self test and takes written bytes at once.

**`FaultHandler`**. The contexts the CPU has entered are a stack with the main
thread at its bottom. A vector without a gate raises a general protection
fault, that without a gate a double fault, that without a gate a reset; trap
gates leave interrupts on; exceptions end in `cli; hlt`, from which a
non-maskable interrupt wakes the CPU.

**`SMBIOS`**. The table is bytes, since the walk finds the end of a structure
by its bytes alone. Detect goes by paragraph, GetSMBiosString byte by byte.
Of the five Parse functions the model keeps which fields they look up, how far
into the structure they read, which
results they use untested, and which numbers they index arrays of names with
(`Wanted`, `LastRead`, `Untested`, `Named`). A table above 0xf0000 (`RomStart`)
has whole pages mapped for it; one below lies in the identity mapping, of which
VMM::Init has removed page 0 and all from 0xf0000 on, and a table that begins
exactly there is not mapped either (`Mapped`). A read elsewhere, of a
header, a field, a string or the bytes that end it, is a page fault.

**`PCIBus`**. One step per function asked. `After` is the break for devices of
one function, which may answer for all eight. A write past the table either
does no harm or ends in `Overran`.

**`Boot`** (`MCBoot`, `BootProofs`, `DriverProofs`) composes the last three: `kernel_main` is the list `Main`
of its calls, the drivers' steps are those of their modules, and exceptions
and interrupts come at any moment. A fault of a driver is an exception of the
CPU. Memory managers, timer and keyboard are single steps here and have the
modules above.

**`Stdio`** (`MCStdio`). The formatter's buffer grows as it is written;
vsprintf's pointer into it and the zeros it writes and overwrites are the
code's, the conversions (`inttostr`, `strtoint`, `ipow`) work on digits.
Log::Write formats and then puts tag, text and escape sequences together with
strcat. An overrun of the number buffer, or of padstr, does no harm or
makes the rest undefined. Log::Write's second buffer lies below the first with
up to 15 bytes between them (`Slacks`), and its line is four bytes longer than
it: `LogWrite` puts the line together in that memory, where tag and escapes that
reach over the text's beginning make the third strcat run on without end
("runaway"). The reference (`Numeral`, `Shown`, `Expected`) is
what C says, strings filled on the left included; `Sized` and `Plain` name the
tokens for which the code makes the same length, and the same text. Its RECURSIVE operators keep this module out of the prover's
reach.

## 3. Runs

Passing:

| Run | Properties | Shows |
|---|---|---|
| `PMM_owners` | TypeOK, Layout, BitmapAgrees, Exclusive, NoSharedByte, KernelKept, ImplementsAllocator | For callers that respect ownership, on a map like a PC's: bitmaps and owners agree, no page has two owners and no byte but those of the page a short range is padded to, the kernel stays reserved, every step is one of the abstract allocator's, for as long as no call has crossed a zone's end. |
| `PMM_kernel` | Confined, FirstFreeIsFirst, GrantsAreRam | Until a driver maps a table past the end of its reserved range, the calls made today never cross the end of an allocatable zone, keep `first_free_addr` exact, and receive only RAM from zones that narrowing has not moved. |
| `IRQ_calls` | ServiceMatches, RegisteredUnmasked | Under all calls of both classes, and spurious interrupts, every interrupt is ended once, on the right chips, and a line with handlers does not stay masked. |
| `IRQ_register` | AllCalled, NoLostInterrupt, Serviced | While handlers are only added, every interrupt reaches all of them, no byte that comes after the first handler loses its interrupt, and (liveness) an unmasked request is delivered unless a more urgent one is waiting. |
| `VMM_kernel` | TranslationsHold, FramesApart, NoTableFault | Pages keep the translation they were given with, no frames are shared or map a table but those a driver took past the end of its zone, and no entry is written through an absent directory, until memory runs out. |
| `Console_any` | ScreenShowsTail, CursorOnScreen, WritesNearScreen | Output that is not interrupted inside a character is laid out, wrapped and scrolled as on an endless page; whatever is interrupted, the cursor is on the screen at each character and no write goes farther than one row past it. |
| `PS2_any` | Configured, KeysInOrder, InitializeEnds, BufferDrained | Initialize ends whatever the devices do; if they are prompt and silent it leaves the controller as its comments say; afterwards keys are logged in order while the mouse is still, and the buffer is always emptied. |
| `Boot_any` | GatesBeforeInterrupts, NoReset, HaltIsFinal, WalkAligned, StringsFound, EntryFound, DevicesListed, FirstOfClass, HaltsHaveCause, EntriesRead, BootEnds | From the first line to the loop, with exceptions and interrupts anywhere: gates come before interrupts, halted code stays halted, the tables are walked structure by structure and their strings found, the bus is listed whole and once, the kernel faults only for the causes named, and booting ends. |
| `Stdio_format` | WritesFit, StopsForCause, Formatted, LoggedWhole | Whatever the order of tokens, the text is C's unless a string is filled, no longer than C's, and logged whole if it has three characters or more; formatting stops only for the numbers and widths named. |

Violations, each a finding of `PROJECT.json` with the quoted line:

| Run | Shows |
|---|---|
| `PMM_overrun` | AllocatePhysical returns a page past a zone's end instead of panicking. |
| `IRQ_lost` | An interrupt between unmasking and storing is acknowledged without a handler, and the 8042 is then silent for good. |
| `VMM_fresh` | The directory entered in the middle of a run is not cleared. |

The types of the variables are given where they are declared; the one type
invariant that is checked is the PMM's, which the proofs start from.

### Bounds, and why they are enough

- PMM: pages of 8 bytes, 2 pages per bitmap byte, 256 addresses. The maps have
  an unaligned zone, one shorter than a page with a neighbour that begins inside
  its padded page, one that ends inside a page, one
  at the end of the address space, one of another type, and RAM above the address
  space that narrowing puts on top of other RAM; the kernel image
  is at the low limit, or (`KernelImages` in `PMM_owners`) in no zone or too
  large for its zone, where the constructor panics or reserves past the zone's
  end; runs of up to 2 or 3 pages cross byte and zone ends; memory is clear or
  set at boot. `NotOverrun` stops `PMM_owners` after the
  first page past a zone's end, since the properties speak of the time before;
  the state that crosses is checked. What does not depend on size is proved.
- IRQ: three lines per chip (a more urgent one, the cascade, the last line)
  and two slots per line are the least that have every case of priority,
  cascade, spurious line, and full or holed list.
- VMM: tables of six entries. Kernel allocations start at the last directory
  but two, runs of up to three pages cross into the next directory, and memory
  ends before, at or after a directory is needed; one device range lies right
  below the boot tables and one right below RAM, and runs of two leave either.
- Console: 3 rows of 4 columns, tab stops every 2; two texts out of four that
  fill a row, tab across its end, scroll, and end in an escape; one line of the timer and one
  warning anywhere.

- PS2: one poll before SendCommand gives up (20 in the code), so that it does;
  at most two steps taken while an answer is due (`MaxLate`), enough for one answer to
  be read as the next command's and for a poll to succeed at its limit; two
  keys, one mouse packet, machines with one or two ports, any set of devices,
  and two configuration bytes left by the BIOS.
- Boot: pages of 16 bytes, so that tables cross several and begin at either end
  of one; structures of each type that is parsed, with no, short, long and
  unprintable strings, some that are shorter than their driver expects, tables
  without an end structure and with a zero behind them, at addresses in the
  first page, behind it, across, at and above what stands for 0xf0000; 2 buses of 2 devices of
  3 functions, a bus beyond the limit, and a table of 4 entries that one
  machine overfills; maps of 1 to 6 entries, where the count first goes wrong;
  two exceptions or interrupts, the least that nest.
- Stdio: words of 8 bits, 2 hexadecimal and 3 decimal digits, number buffers of
  2 and 5 bytes and a padstr of 4, so that each can just be overrun as the
  real ones can; gaps of 0 to 3 between the two line buffers, since from 3 on tag
  and escapes end before the text; all
  pairs of 195 tokens, and triples of 8 for each log level that differs.

`CHECK_DEADLOCK` is on everywhere: a halted or idle kernel is an action of its
own (`Halted`, `Idle`).

### Fairness

`IRQHandler`: `WF(Deliver)`, a CPU with interrupts enabled takes one that the
controller asks for; `WF(Dispatch)` and weak fairness of the second halves of
calls, code that has begun runs on, since nothing preempts it except handlers
that return. The property admits being overtaken by more urgent lines.
`PS2`: weak fairness of the driver, of the interrupts and of the controller's
passing on of bytes that are due; keys and movements need not come.
`Boot`: weak fairness of `KernelMain \/ Dispatch`, the CPU goes on with what it
is doing. Devices, exceptions and interrupts have no fairness anywhere.

## 4. Proofs

Every theorem is about all values of the constants that satisfy the named
ASSUMEs of its module (sizes are positive, fields are naturals, and the like),
and about behaviours of any length. Hypotheses beyond these are written in the
theorem, and named below.

### Physical memory manager

`PMMProofs`, for every page size, address space, memory map, kernel position
and caller of `Spec`:

- `TypeCorrect`: `Spec => []TypeOK`.
- `BitmapsDisjoint`: `Spec => []Layout`, the bitmaps have a bit for each page
  and overlap neither each other nor the zone table.
- `BitmapCorrect`: `Spec => []BitmapAgrees`, a bit is set exactly if its page
  is held, until a call crosses a zone's end.
- `PagesExclusive`: `Spec => []Exclusive`, no page is handed out twice and
  none outside its zone, until then.
- `BytesExclusive`: if the loader's ranges do not overlap (`RangesDisjoint`,
  about the ranges as reported, not as the constructor pads them), no byte
  belongs to two held pages of ranges that are `Whole`. A range of less than a
  page is padded into its neighbour, and its page does share bytes.
- `KeepsPromise`: `Spec => ImplementsAllocator`, every step is a step of
  `FrameAllocator` or leaves what callers see as it is.

All rest on `Invariance: Spec => []PMMInv` with

    PMMInv == TypeOK /\ Layout /\ Ready /\ BitmapAgrees /\ Exclusive

`Exclusive` is not inductive: that a free bit means a free page is
`BitmapAgrees`, that setting a zone's bits leaves another zone's alone is
`Layout`, and `Ready` says that nothing is handed out while bitmaps are still
being laid over memory that may have any contents. The lemmas: `RunBits`
(where the bits of a run lie), `ZoneFacts` (what a zone's numbers are),
`HandOutInv` (the step common to allocating and mapping), and one lemma per
action. For `KeepsPromise` it is strengthened by `KernelHeld`, once the
kernel's run is reserved some of it stays held, which tells the reservation
(the abstract `Reserve`) from later grants.

And about the manager as this kernel uses it:

- `KernelStaysReserved`: `Spec => []KernelKept`, if the kernel begins on a page
  boundary of its zone (`KernelAligned`); `linker.ld` puts it at 1 MB.
- `CallsConfined`, `HintSeparates`, `PagesAreRam`: `SpecKernel` implies
  `Confined`, `[]FirstFreeIsFirst` and `[]GrantsAreRam`, for maps where the
  firmware's tables begin in no allocatable zone (`DevicesReserved`), the kernel is loaded at the
  start of a range that has room for it and its pool (`KernelFits`), and the
  pool fits into the modelled memory (`PoolModelled`). Nothing is assumed of how
  far a table's run goes or of RAM above 4 GB: the properties speak of the time
  until a run leaves its zone, the step that first does included, and except the
  pages of zones that narrowing has moved. `HintInv` says that the
  pages held of a zone are exactly those below its hint, so the first page the
  search looks at is free and it ends there. The size of the
  pool is where the constructor's loop ends; `PoolSized` shows that it ends.

### Interrupts

`IRQHandlerProofs`, for any number of lines, handlers and slots and all calls:
`InterruptsEnded` (`ServiceMatches`), `HandledLinesUnmasked`
(`RegisteredUnmasked`), and, while handlers are only added,
`EveryHandlerCalled` (`AllCalled`) and `BytesAnnounced` (`NoLostInterrupt`).
Each has its invariant. `ServiceInv` adds the types, and that the CPU is in no
handler before interrupts are enabled; `MaskInv` says what the second half of a
call relies on, the line being registered unmasked, a free slot in the list
just shortened, saved masks that spare every line with a handler; `ListInv`
says that lists without removals have no holes and that the dispatcher has
called all it has passed; `ByteInv` that a byte has its request pending or the
dispatcher still before its reader.

### PS/2 driver

`PS2Proofs`, for every machine, BIOS configuration, sequence of keys, number of
polls and packets: `ControllerConfigured` (`Configured`) and `KeysLogged`
(`KeysInOrder`). Both speak of machines that are prompt and silent while
Initialize runs (`Quiet`, as in the properties), and rest on `PS2Inductive:
Spec => []PS2Inv` with

    PS2Inv == TypeOK /\ Stored /\ (Quiet => Prompt /\ Silent /\ Logged)

The configuration byte at the end is right only if it was read right at step
25, and that only if no byte of the 24 steps before is left over. So `Prompt`
says for each of the 28 steps, and each place inside SendCommand, Reset and
Identify, which bytes are still due and from whom (`Stream`, `Due`): nothing at
most of them, the answer just asked for, what is left of ACK, BAT and the
mouse's number in Reset, and the second ACK to the set of scan codes, which the
next SendCommand reads before it begins. A device that is not there owes
nothing, and on a machine with one port the keyboard answers for both. `Arrived`
is where promptness enters: when the driver goes on, the first byte due is in
the buffer. `StreamFill` says that a byte's arrival changes nothing of what is
due, `DueRead` what a read takes, and there is one lemma per operation.
`Logged` is the invariant of the time after: log and bytes on their way are
together the keys so far, and line 1 is latched, once its handler is stored,
only for a byte that is there; the step that stores it relies on interrupts
that wait being taken first (`Settled`), as the race of `IRQ_lost` would break
it. `TypeCorrect` is about the variables' types.

### Virtual memory manager

`VMMProofs`: `TranslationsKept` (`TranslationsHold`), `FramesSeparate`
(`FramesApart`) and `TablesPresent` (`NoTableFault`), for every table size and
every placing of RAM, boot tables and device ranges among the frames, if
all frames the allocator can give, and the drivers' runs, fit into each zone of pages (`SupplyFits`: the
kernel zone holds 1016 MB; beyond it a zone runs into the recursive window,
see section 5). `FramesApart` excepts the frames of `stray`. The invariant: the directory maps itself, and each of its
entries that is present is a table of its own (`DirInv`); frames of callers
were handed out or are a device's, are no tables and differ, or are stray (`FrameInv`); each page given out
lies between its zone's start and cursor, which has not moved farther than
frames were given (`PageInv`); and what a call half way through has mapped so
far (`WalkInv`). `DirInv` is what makes a write through the window change one
entry of one table.

### Booting

`BootProofs` (with `DriverProofs`), with exceptions and interrupts nested to
any depth: `InterruptsHaveGates` (`GatesBeforeInterrupts`), `NeverReset`
(`NoReset`), `HaltsForGood` (`HaltIsFinal`, an action property),
`MapEntriesRead` (`EntriesRead`), `EntryPointFound` (`EntryFound`),
`AllDevicesListed` (`DevicesListed`) and `FirstDeviceFound` (`FirstOfClass`).
`CpuInv` says what each line of `kernel_main` has set up, and that interrupts are
off in every context until the last of it is there (`SetUp`), that only
handlers lie above the main thread (`StackInv`), and that above a halted context
there are only exceptions, with interrupts off, none of which returns
(`HaltInv`). `DetectInv` and `MapInv` say what has been looked at so far, and
`PCIInv` of `DriverProofs` that the table is exactly the functions before the
one asked next, in order. The two theorems about PCI say what they do of
machines whose functions fit into the table, as the properties do.

`StructuresReached` (`WalkAligned`), `StringLookupsExact` (`StringsFound`) and
`FaultsHaveCause` (`HaltsHaveCause`) are about the walk over the SMBIOS tables.
Their hypothesis `TablesLaid` gives the fields `starts` and `strings` of a
firmware their meaning, byte by byte: structures follow each other, each with
its header, its strings of bytes other than zero, and a zero. It says nothing
of what the bytes are, of the string numbers or of what lies behind the table;
TLC evaluates it on the tables of `Boot_any`. `WalkInv` says, if the table is
`WellFormed`, where ptr is and which structures were begun (`PlaceInv`); what
the look-ups so far have returned and how many bytes were measured (`ResultInv`),
and that GetSMBiosString is inside the string it counts (`Scanning`), both while
the end of the strings can be told (`LookInv`); and why the driver has faulted
(`CauseInv`). `StringIs` and `StrlenIs` say what a string's bytes are,
`ScanStep` what a turn of the loop does there, `Measured` that what the driver
adds up ends where the next structure begins, `TableMapped` that no byte it
compares lies beyond the mapped pages unless the table is `OutOfReach`, and
`FieldsRead` and `StringEnds` the same of fields and of strings. For `FaultsHaveCause`, `AloneInv` adds
that nothing but the driver's fault leaves the main thread.

### Console

`ConsoleProofs`, for every size of the screen, all texts, and handlers that
print between any two instructions: `CursorStays` (`CursorOnScreen`),
`WritesBounded` (`WritesNearScreen`) and `ScreenIsTail` (`ScreenShowsTail`).
`CursorInv` says for each instruction where the cursor may be and what may be
loaded, weak enough to survive a handler's line: a line leaves the cursor
where it is or on the screen (`LineOnScreen`). `TailInv`, under `clean`, says
how far the instruction at hand has brought screen and cursor from the page
before the character (`Mirrors`) over the character drawn (`Drawn`) and the
cursor wrapped but perhaps below the screen (`Pending`) to the page after it,
and through `Scroll` cell by cell (`Scrolling`); `CrtcInv` follows update_cursor. `LineMirrors` is
the same for a handler's whole line. The attempt to prove it showed that the
model had let an escape sequence wrap and scroll, which the code does not.

### Induction

The library's induction theorems cannot be instantiated here, so the induction
over numbers that the proofs need is `LeastNatural`, `NatInduct` and, for a loop
over a text, `RunExists` of `ArithmeticLemmas`: they take sets and functions in
place of operators, and rest on the library's fact that < on the naturals is
well-founded.

### Only model-checked

- All of `Stdio` (`WritesFit`, `StopsForCause`, `Formatted`, `LoggedWhole`): what
  its RECURSIVE conversions compute needs induction over data, and the prover
  takes no module that declares such operators.
- `Serviced`, `InitializeEnds`, `BufferDrained` and `BootEnds`: liveness under
  fairness is out of the prover's reach, as is ENABLED.

## 5. Known and not kept as runs

Reading and checking also showed the following. The models do what the code
does in each case, and the properties say where it matters.

- PMM: `page_offset+n >= pagecount` never lets the last page of a zone be
  allocated (`PMM.cpp:124`); UnmapPages flips bits, so unmapping twice maps
  (`PMM.cpp:301`; excluded in `Spec` by ownership); MapPages looks at the zone of
  its first page only (`PMM.cpp:256`), and SMBIOS maps up to two pages more than
  its table (`SMBIOS.cpp:301`); a range of less than a page is padded into its
  neighbour (`PMM.cpp:34`); UnmapPages moves `first_free_addr`
  below an unaligned zone (`PMM.cpp:291`); a reserved range below 1 MB serves
  LowMemory requests (`PMM.cpp:108`). RAM above 4 GB becomes a zone at its
  truncated address (`main.cpp:170`); from six entries on, one more map entry
  is read than there is (`main.cpp:165`).
- Interrupts: after RemoveHandler the handlers in later slots are not called
  (`IRQHandler.cpp:136`), and the line is never masked (`IRQHandler.cpp:146`).
- VMM: ZAppLoader lies inside ZUser (`VMM.cpp:35`), and the kernel zone includes
  the recursive window (`VMM.cpp:25`).
- PS/2: a key pressed after scanning is enabled can be read as the
  configuration byte and written back (`PS2.cpp:244`); the mouse's second read
  can take the keyboard's byte (`PS2.cpp:287`); InitKeyboard returns nothing.
- SMBIOS: a table in page 0, at 0xf0000 or across it is read although it is not
  mapped (`SMBIOS.cpp:299`, `VMM.cpp:296`, `:301`), and the fields of a structure
  shorter than its type says are read behind it; strings that are NULL are logged untested (`SMBIOS.cpp:153`, `:251`);
  numbers index arrays of names untested (`:152`, `:187`, `:253`); a type 0
  structure that is not the first takes the walk out of step (`:95`).
- PCI: the table of 32 devices is filled without a test (`PCIBus.cpp:154`).
- Formatting: `%%` and `%c` lose characters (`stdio.cpp:156`, `:230`); negative
  numbers are extended to 64 bits; all of `%08x` overruns `num[8]` by its zero
  (`:194`); `%5s` is filled on the right (`:211`), C fills on the left; `ipow` is
  wrong from exponent 3 on (`:44`). Each logged line is four
  bytes longer than its buffer (`Log.cpp:43`); if the text has fewer than three
  characters and lies right behind, the line loses it or never ends. Warnings themselves
  reach the screen, where the comment has "if > warning" (`Log.cpp:54`).
- Console: a text that ends in an escape sequence has its zero drawn
  (`VGAConsole.cpp:140`).
- Timer::Get reads its 64-bit counter in two loads (`Timer.cpp:33`); nothing
  calls it.

## 6. Plan

Done: every component that keeps state has a module, `PMM` implements
`FrameAllocator`, `Boot` composes the drivers of the firmware's tables, and every
invariant that a run checks is proved except `Stdio`'s.
Left:

1. `VMM` as an instance of `FrameAllocator` in place of `Grants`.
2. The TLB, with Unmap's missing invalidation, and Timer::Get, each with its
   first caller.

## 7. Not modelled

Registers saved by the stubs and shown in reports; contents of messages other
than what `Stdio` formats; the size of the kernel's stack, which nested
exceptions and Log::Write's buffers use; the serial port and port delays; page flags and the
TLB; colours and the inside of escape sequences; memset and memcmp, which are
single operations of the modules that use them; itoa, atol, strncmp, Timer::Get
and ReadPCIRegister, which nothing calls; WriteRGB, CheckPages,
CheckPhysicalToVirtual and GetIRQMask, which are stubs; device classes and
port instructions, which have no state.
