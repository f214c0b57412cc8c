-------------------------------- MODULE MCVMM --------------------------------
(***************************************************************************)
(* Page tables of six entries and pages of two bytes: directories 0 and 1  *)
(* are user space, 2 is the kernel image, 3 and 4 are free kernel space, 5 *)
(* is the recursive window.                                                *)
(***************************************************************************)
EXTENDS VMM

KernelZone == {"ZKernel"}

UserZones == {"ZUser", "ZAppLoader"}

(* ZUser ends one byte before the kernel, ZKernel with the address space,  *)
(* and ZAppLoader, unlike the others, on a page boundary.                  *)
Ends == [ZUser |-> 23, ZKernel |-> 71, ZAppLoader |-> 16]

Firsts == [ZUser |-> 1, ZKernel |-> 22, ZAppLoader |-> 6]

(* A table right below the boot tables and one right below the RAM that is *)
(* handed out: a run that leaves its zone takes frames of either.          *)
TableZones == {{0}, {4}}

EndOf == [z \in VMMZone |-> Ends[z]]

FirstOf == [z \in VMMZone |-> Firsts[z]]
=============================================================================
