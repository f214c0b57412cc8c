-------------------------------- MODULE MCPMM --------------------------------
(***************************************************************************)
(* The memory maps of the PMM's runs: the maps a PC loader reports, scaled *)
(* to pages of 8 bytes, 2-page bitmap bytes and a 256-byte address space.  *)
(* LowLimit is 80, and the kernel is loaded there, where RAM above the low *)
(* limit starts, as kernel.ld has it at 0x100000.                          *)
(***************************************************************************)
EXTENDS PMM

Entry(a, l, t) == [addr |-> a, len |-> l, type |-> t]

(* Low RAM that does not end on a page (0x9fc00 on PCs), with a reserved   *)
(* range right behind it, then a range shorter than a page and its         *)
(* neighbour, which begins inside the padded page; RAM with the kernel at  *)
(* its start, and a reserved range that ends with the address space (the   *)
(* BIOS image).                                                            *)
PcMap == << Entry(0, 20, 1), Entry(20, 12, 2), Entry(32, 4, 2), Entry(36, 8, 2),
            Entry(80, 60, 1), Entry(248, 8, 2) >>

(* Two ranges of RAM above the limit, a reserved one below it, a range of  *)
(* another type (ACPI tables) between the two, with too few bits behind it *)
(* for a run past its end, and RAM above the address space, which          *)
(* narrowing puts on top of the second range.                              *)
TwoRamMap == << Entry(48, 28, 2), Entry(80, 56, 1), Entry(136, 24, 3),
                Entry(160, 32, 1), Entry(256 + 168, 24, 1) >>

(* The kernel where RAM above the low limit starts. *)
AtLimit == {[start |-> 80, end |-> 86]}

(* The same, one that is in no zone, and one too large for its zone. *)
AnyImage ==
    AtLimit \cup {[start |-> 70, end |-> 74], [start |-> 80, end |-> 150]}

(* Pages of every zone of PcMap that are free after boot, addresses that   *)
(* do not start a page (24, 40, 132) and one that is in no zone (16).      *)
PcTargets == {0, 16, 24, 32, 40, 104, 112, 120, 128, 132, 248}

(* Reserved addresses, the last pages of their ranges among them, and one  *)
(* that is in no zone.                                                     *)
TwoRamTargets == {48, 60, 64, 136, 144, 152, 200}

(* What the proofs assume of maps. *)
ASSUME MapDisjoint == RangesDisjoint

(* Memory that is clear at boot, and memory that is not. *)
AnyGarbage == {{}, Bits}

Clear == {{}}

(* Bound: what happens after a page past the end of a zone is handed out   *)
(* is not followed further; such a state is still checked.                 *)
NotOverrun == ~overran
=============================================================================
