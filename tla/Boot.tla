-------------------------------- MODULE Boot --------------------------------
(***************************************************************************)
(* kernel_main (main.cpp): the order in which the parts of the kernel are  *)
(* started, with the drivers that read the firmware's tables and the PCI   *)
(* bus, while exceptions and interrupts may come at any moment.            *)
(*                                                                         *)
(* The memory managers, the timer and the keyboard have modules of their   *)
(* own; here they are steps that may panic.                                *)
(***************************************************************************)
EXTENDS FaultHandler, SMBIOS, PCIBus

CONSTANTS
    EntrySize,  \* the size field of the loader's map entries: 20
    Computers   \* bound: <<firmware, PCI buses, entries of the loader's map>>

(* A machine has memory, so the loader's map has an entry. *)
ASSUME BootAssumption ==
    /\ EntrySize \in Nat \ {0}
    /\ Computers \subseteq Firmware \X Machines \X (Nat \ {0})

VARIABLES
    step,       \* what kernel_main does next
    entries     \* the loader's map: [there, counted]

bootVars == <<step, entries>>
vars == <<cpuVars, smbiosVars, pciVars, bootVars>>

(* Mutant: interrupts are enabled before their gates exist. *)
MainStiFirst ==
    <<"magic", "idt", "pic", "faults", "sti", "irqs", "map", "memory", "pit",
      "smbios", "pcibus", "ps2", "loaded">>

(* The calls of kernel_main, in its order. *)
Main ==
    <<"magic", "idt", "pic", "faults", "irqs", "sti", "map", "memory", "pit",
      "smbios", "pcibus", "ps2", "loaded">>

Init ==
    /\ \E c \in Computers :
          /\ fw = c[1] /\ pci = c[2]
          /\ entries = [there |-> c[3], counted |-> 0]
    /\ FaultInit /\ SMBIOSInit /\ PCIInit
    /\ step = 1

At(name) == Main[step] = name /\ Len(stack) = 1 /\ Runs

Done == step' = step + 1 /\ UNCHANGED <<smbiosVars, pciVars>>

(* idt.Register, i8259::Initialize, FaultHandler::Init, IRQHandler::Init, sti *)
IdtRegister ==
    /\ At("idt") /\ Done
    /\ idtr' = TRUE
    /\ UNCHANGED <<gates, remapped, ifl, stack, woken, events, entries>>

PicInitialize ==
    /\ At("pic") /\ Done
    /\ remapped' = TRUE
    /\ UNCHANGED <<gates, idtr, ifl, stack, woken, events, entries>>

(* Mutant: the exceptions with an error code are forgotten. *)
FaultHandlerInitNoCodes ==
    /\ At("faults") /\ Done
    /\ gates' = gates \cup (FaultGates \ (8..14))
    /\ UNCHANGED <<idtr, remapped, ifl, stack, woken, events, entries>>

FaultHandlerInit ==
    /\ At("faults") /\ Done
    /\ gates' = gates \cup FaultGates
    /\ UNCHANGED <<idtr, remapped, ifl, stack, woken, events, entries>>

IRQHandlerInit ==
    /\ At("irqs") /\ Done
    /\ gates' = gates \cup IrqGates
    /\ UNCHANGED <<idtr, remapped, ifl, stack, woken, events, entries>>

Sti ==
    /\ At("sti") /\ Done
    /\ ifl' = TRUE
    /\ UNCHANGED <<gates, idtr, remapped, stack, woken, events, entries>>

(* Mutant: the size field of each entry is taken off. *)
EntcountShort(n) == (n * (EntrySize + 4) - 4 * n) \div (EntrySize + 4)

(* n entries of EntrySize bytes, each behind its own size field. *)
Entcount(n) == (n * (EntrySize + 4) - 4) \div EntrySize

ReadMap ==
    /\ At("map") /\ Done
    /\ entries' = [entries EXCEPT !.counted = Entcount(entries.there)]
    /\ UNCHANGED cpuVars

(* Steps with modules of their own. *)
Start ==
    /\ At("magic") \/ At("memory") \/ At("pit") \/ At("ps2")
    /\ Done
    /\ UNCHANGED <<cpuVars, entries>>

(* A wrong magic number; no zone, no memory; no memory for the tables of   *)
(* the pages MapPhysicalAddress maps, or a table outside the loader's map. *)
Panic ==
    /\ \/ At("magic") \/ At("memory")
       \/ At("smbios") /\ at = "header" /\ i = 0 /\ fw.addr > RomStart
    /\ ~Top.halted
    /\ Halt
    /\ UNCHANGED <<smbiosVars, pciVars, bootVars>>

SMBIOSStep ==
    /\ At("smbios") /\ at \notin {"done", "absent", "fault"}
    /\ SMBIOSNext
    /\ UNCHANGED <<cpuVars, pciVars, bootVars>>

(* The page fault; its handler never returns. *)
SMBIOSFaults ==
    /\ At("smbios") /\ at = "fault"
    /\ Enter(14)
    /\ UNCHANGED <<gates, idtr, remapped, events, smbiosVars, pciVars, bootVars>>

SMBIOSDone ==
    /\ At("smbios") /\ at \in {"done", "absent"} /\ Done
    /\ UNCHANGED <<cpuVars, entries>>

PCIStep ==
    /\ At("pcibus") /\ Query
    /\ UNCHANGED <<cpuVars, smbiosVars, bootVars>>

PCIDone ==
    /\ At("pcibus") /\ scan = None /\ Done
    /\ UNCHANGED <<cpuVars, entries>>

(* What drivers do once the bus is known; the kernel's loop of hlt. *)
Driver(c) ==
    /\ At("loaded") /\ DetectPCIByClass(c)
    /\ UNCHANGED <<cpuVars, smbiosVars, bootVars>>

KernelMain ==
    \/ IdtRegister \/ PicInitialize \/ FaultHandlerInit \/ IRQHandlerInit \/ Sti
    \/ ReadMap \/ Start \/ Panic
    \/ SMBIOSStep \/ SMBIOSFaults \/ SMBIOSDone \/ PCIStep \/ PCIDone

Dispatch ==
    /\ FaultDispatcher \/ IrqReturns
    /\ UNCHANGED <<smbiosVars, pciVars, bootVars>>

Events ==
    /\ \/ \E v \in FaultVectors : Fault(v)
       \/ NonMaskable
       \/ \E l \in IrqLines : Irq(l)
    /\ UNCHANGED <<smbiosVars, pciVars, bootVars>>

(* The CPU waits in a hlt, or the firmware has taken over, or the memory   *)
(* of kernel_main is overwritten.                                          *)
Stopped == ~Runs \/ Main[step] = "loaded" \/ scan = Overran

Next ==
    \/ KernelMain \/ Dispatch \/ Events
    \/ \E c \in Classes : Driver(c)
    \/ Stopped /\ UNCHANGED vars

(* The CPU goes on with the context on top. *)
Spec == Init /\ [][Next]_vars /\ WF_vars(KernelMain \/ Dispatch)

-----------------------------------------------------------------------------
(* Properties. *)

(* Booting ends: the kernel is loaded, or the CPU has halted or was reset. *)
(* No table of the firmware, however it is damaged, keeps a driver in its  *)
(* loops.                                                                  *)
BootEnds == <>[]Stopped

(* Left to itself, the kernel takes no fault: the pages mapped for a table *)
(* are enough wherever it begins.  The exceptions are a table in memory    *)
(* VMM::Init has unmapped, a last structure that ends before what its      *)
(* driver reads, a structure that lacks a string its driver logs untested  *)
(* or has a number there is no name for, and a table with a zero behind    *)
(* its last strings, whose end is not seen.                                *)
HaltsHaveCause ==
    events = 0 /\ Len(stack) > 1 =>
        /\ Main[step] = "smbios"
        /\ WellFormed /\ fw.after # 0 =>
              \/ OutOfReach
              \/ ptr + LastRead >= Length
              \/ Unnamed
              \/ \E f \in Untested(HdrType) \cap DOMAIN strs : strs[f] = NULL

(* Once FaultHandler::Init has run no exception resets the CPU, not even   *)
(* those that have no gate of their own.                                   *)
NoReset == step > 4 => ~WasReset

(* Every entry of the loader's map is read, and for the sizes that occur   *)
(* with few entries nothing behind the map is.                             *)
EntriesRead ==
    step > 7 => /\ entries.counted >= entries.there
                /\ entries.there * 4 < EntrySize + 4 => entries.counted = entries.there
=============================================================================
