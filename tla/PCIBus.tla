------------------------------- MODULE PCIBus -------------------------------
(***************************************************************************)
(* The PCI bus (PCIBus.cpp) and the search for a device of a class         *)
(* (PCIDevice.cpp).                                                        *)
(*                                                                         *)
(* Initialize asks every function of every device of every bus for its     *)
(* registers and stores those that answer in a table of fixed size.  A     *)
(* device that says it has one function only is asked once: such devices   *)
(* may answer for every function number.                                   *)
(***************************************************************************)
EXTENDS Integers, Sequences, FiniteSets

CONSTANTS
    BusLimit,   \* buses below it are scanned: 255
    DevLimit,   \* 32
    FunLimit,   \* 8
    MaxDevs,    \* MAX_PCI_DEVS: 32
    Machines    \* bound: the buses a machine may have, see below

Address == (0..BusLimit) \X (0..(DevLimit - 1)) \X (0..(FunLimit - 1))

(* funs[<<bus, dev, fun>>] is a function that exists: [class, multi: bit 7 *)
(* of its header type]; alias: devices with one function answer for all.   *)
ASSUME PCIAssumption ==
    /\ {BusLimit, DevLimit, FunLimit, MaxDevs} \subseteq Nat \ {0}
    /\ \A m \in Machines :
          /\ DOMAIN m.funs \subseteq Address /\ m.alias \in BOOLEAN
          /\ \A a, b \in DOMAIN m.funs :
                a[1] = b[1] /\ a[2] = b[2] /\ a[3] = 0 /\ b[3] # 0 => m.funs[a].multi

VARIABLES
    pci,        \* the machine
    scan,       \* the next <<bus, dev, fun>> asked, None when done, or Overran
    pcidevs,    \* the table: sequence of <<bus, dev, fun>>, and what was
                \* written past its end
    drivers     \* drivers[c]: what the search for class c returned

pciVars == <<pci, scan, pcidevs, drivers>>

Classes == {"ide", "net"}
None == <<>>       \* no address
Overran == <<-2>>  \* a write past the table has destroyed what lies behind
Unasked == <<-1>>

(* Does function a answer, and with whose registers (external)?  A device  *)
(* with one function may show function 0 for each.                         *)
Zero(a) == <<a[1], a[2], 0>>
Alias(a) == pci.alias /\ Zero(a) \in DOMAIN pci.funs /\ ~pci.funs[Zero(a)].multi
Exists(a) == a \in DOMAIN pci.funs \/ Alias(a)
Shows(a) == IF a \in DOMAIN pci.funs THEN pci.funs[a] ELSE pci.funs[Zero(a)]

PCIInit ==
    /\ pci \in Machines
    /\ scan = <<0, 0, 0>> /\ pcidevs = <<>>
    /\ drivers = [c \in Classes |-> Unasked]

(* Mutant: the last device of a bus is left out. *)
NextDeviceShort(a) ==
    IF a[2] + 2 < DevLimit THEN <<a[1], a[2] + 1, 0>>
    ELSE IF a[1] + 1 < BusLimit THEN <<a[1] + 1, 0, 0>>
    ELSE None

NextDevice(a) ==
    IF a[2] + 1 < DevLimit THEN <<a[1], a[2] + 1, 0>>
    ELSE IF a[1] + 1 < BusLimit THEN <<a[1] + 1, 0, 0>>
    ELSE None

NextFunction(a) ==
    IF a[3] + 1 < FunLimit THEN <<a[1], a[2], a[3] + 1>> ELSE NextDevice(a)

(* The break after function 0 of a device with one function. *)
After(a) ==
    IF a[3] = 0 /\ Exists(a) /\ ~Shows(a).multi THEN NextDevice(a)
    ELSE NextFunction(a)

(* One turn of the inner loop of Initialize.  The table has no bound, and  *)
(* a write past its end has any effect or none.                            *)
Query ==
    /\ scan \notin {None, Overran}
    /\ pcidevs' = IF Exists(scan) THEN Append(pcidevs, scan) ELSE pcidevs
    /\ scan' \in {After(scan)} \cup
          (IF Exists(scan) /\ Len(pcidevs) >= MaxDevs THEN {Overran} ELSE {})
    /\ UNCHANGED <<pci, drivers>>

(* Mutant: the last of the devices is returned. *)
FindLast(c) ==
    LET match == {k \in DOMAIN pcidevs : Shows(pcidevs[k]).class = c}
    IN  IF match = {} THEN None
        ELSE pcidevs[CHOOSE k \in match : \A j \in match : k >= j]

(* FindPCIByClass, and FindPCIByVendor with its other registers. *)
FindPCIByClass(c) ==
    LET match == {k \in DOMAIN pcidevs : Shows(pcidevs[k]).class = c}
    IN  IF match = {} THEN None
        ELSE pcidevs[CHOOSE k \in match : \A j \in match : k <= j]

(* A driver looks for its device.  No code sets devobj, so the first match *)
(* is never passed over.                                                   *)
DetectPCIByClass(c) ==
    /\ scan = None
    /\ drivers' = [drivers EXCEPT ![c] = FindPCIByClass(c)]
    /\ UNCHANGED <<pci, scan, pcidevs>>

-----------------------------------------------------------------------------
(* Properties. *)

Before(a, b) ==
    \/ a[1] < b[1]
    \/ a[1] = b[1] /\ a[2] < b[2]
    \/ a[1] = b[1] /\ a[2] = b[2] /\ a[3] < b[3]

Scanned == {a \in DOMAIN pci.funs : a[1] < BusLimit}

(* If the functions of the machine fit into the table, whose size the loop *)
(* does not test, nothing is written past its end, and when Initialize is  *)
(* done it holds each of them once, in order, and no alias; also those of  *)
(* a device without function 0.                                            *)
DevicesListed ==
    Cardinality(Scanned) <= MaxDevs =>
        /\ scan # Overran /\ Len(pcidevs) <= MaxDevs
        /\ scan = None =>
              /\ {pcidevs[k] : k \in DOMAIN pcidevs} = Scanned
              /\ \A j, k \in DOMAIN pcidevs : j < k => Before(pcidevs[j], pcidevs[k])

(* A driver gets the first device of its class in the order of addresses,  *)
(* and none only if no bus that is scanned has one.                        *)
FirstOfClass ==
    \A c \in Classes : drivers[c] # Unasked /\ Cardinality(Scanned) <= MaxDevs =>
        LET match == {a \in Scanned : pci.funs[a].class = c}
        IN  IF drivers[c] = None THEN match = {}
            ELSE drivers[c] \in match /\ \A a \in match : ~Before(a, drivers[c])
=============================================================================
