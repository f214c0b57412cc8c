--------------------------- MODULE FrameAllocator ---------------------------
(***************************************************************************)
(* What the physical memory manager promises its callers (PMM.hpp): frames *)
(* are handed out in runs, to one owner at a time, and come back only from *)
(* the owner; the kernel's own never come back; nothing is handed out      *)
(* after a panic.  The promise ends when a caller makes it hand out a page *)
(* past the end of a zone.                                                 *)
(***************************************************************************)
EXTENDS Integers

CONSTANTS
    Zones,      \* the zones of memory
    Pages       \* Pages[z]: the pages of zone z

VARIABLES
    owned,      \* frames with an owner
    doubly,     \* frames that were given a second owner
    reserved,   \* the frames of the kernel itself
    halted,     \* after a panic
    broken      \* a page past the end of a zone was handed out

vars == <<owned, doubly, reserved, halted, broken>>

(* Runs of pages of one zone. *)
RunsOf(z) == {{z} \X (p..q) : p, q \in 0..(Pages[z] - 1)} \ {{}}

Init ==
    /\ owned = {} /\ doubly = {} /\ reserved = {}
    /\ halted = FALSE /\ broken = FALSE

(* The first run handed out is the kernel's. *)
Reserve(run) ==
    /\ ~halted /\ ~broken /\ owned = {}
    /\ owned' = run /\ reserved' = run
    /\ UNCHANGED <<doubly, halted, broken>>

Grant(run) ==
    /\ ~halted /\ ~broken
    /\ reserved # {} /\ run \cap owned = {}
    /\ owned' = owned \cup run
    /\ UNCHANGED <<doubly, reserved, halted, broken>>

Return(run) ==
    /\ ~halted /\ ~broken
    /\ run \subseteq owned \ reserved
    /\ owned' = owned \ run
    /\ UNCHANGED <<doubly, reserved, halted, broken>>

Halt ==
    /\ halted' = TRUE
    /\ UNCHANGED <<owned, doubly, reserved, broken>>

Break == ~halted /\ broken' = TRUE

Next ==
    \/ \E z \in Zones : \E run \in RunsOf(z) : Reserve(run) \/ Grant(run) \/ Return(run)
    \/ Halt \/ Break

Spec == Init /\ [][Next]_vars
=============================================================================
