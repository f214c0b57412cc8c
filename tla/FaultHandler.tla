---------------------------- MODULE FaultHandler ----------------------------
(***************************************************************************)
(* Exceptions and interrupts of the CPU: the descriptor table (IDT.cpp),   *)
(* the stubs of the exceptions (FaultHandler.S) and their dispatcher       *)
(* (FaultHandler.cpp).                                                     *)
(*                                                                         *)
(* The contexts the CPU has entered and not left are a stack, with the     *)
(* main thread at its bottom.  An exception ends in "cli; hlt", from which *)
(* only a non-maskable interrupt wakes the CPU; a context that is on top   *)
(* again after it has halted goes on behind its hlt.                       *)
(***************************************************************************)
EXTENDS Integers, Sequences, SequencesExt

CONSTANTS
    FaultVectors,  \* bound: the exceptions that are raised
    IrqLines,      \* the lines of the 8259s that are raised
    MaxEvents      \* bound: the exceptions and interrupts in a behaviour

ASSUME FaultAssumption ==
    FaultVectors \subseteq 0..31 /\ IrqLines \subseteq 0..15 /\ MaxEvents \in Nat

VARIABLES
    gates,      \* vectors with a descriptor; "trap" gates leave interrupts on
    idtr,       \* the table is registered
    remapped,   \* the 8259s send vectors 32 to 47
    ifl,        \* the interrupt flag
    stack,      \* contexts: [v, ifl: the saved flag, halted]
    woken,      \* the context on top has been woken from its hlt
    events      \* number of exceptions and interrupts so far

cpuVars == <<gates, idtr, remapped, ifl, stack, woken, events>>

MAIN == -1
NMI == 2
DoubleFault == 8
GPF == 13

FaultGates == (0..8) \cup (10..14)
TrapGates == {3, 4}
IrqGates == 32..47

Top == Last(stack)

(* A stack with one context, whose vector is Reset, is a CPU that has been *)
(* reset: it starts over in the firmware.                                  *)
Reset == -2
WasReset == Top.v = Reset

Runs == ~WasReset /\ (Top.halted => woken)

FaultInit ==
    /\ gates = {} /\ idtr = FALSE /\ remapped = FALSE /\ ifl = FALSE
    /\ stack = <<[v |-> MAIN, ifl |-> FALSE, halted |-> FALSE]>>
    /\ woken = FALSE /\ events = 0

-----------------------------------------------------------------------------
(* The CPU (external) enters the gate of vector v.  The table's other      *)
(* descriptors are never set and lie on the cleared stack, so they are     *)
(* zero: using one is a general protection fault, using its missing gate a *)
(* double fault, and without a gate for that the CPU is reset.             *)
HasGate(v) == idtr /\ v \in gates /\ v < 128

Enter(v) ==
    LET w == IF HasGate(v) THEN v ELSE IF HasGate(GPF) THEN GPF ELSE DoubleFault
    IN  IF HasGate(w)
        THEN /\ stack' = Append(stack, [v |-> w, ifl |-> ifl, halted |-> FALSE])
             /\ ifl' = (ifl /\ w \in TrapGates)
             /\ woken' = FALSE
        ELSE /\ stack' = <<[v |-> Reset, ifl |-> FALSE, halted |-> TRUE]>>
             /\ ifl' = FALSE /\ woken' = FALSE

(* The code that runs raises an exception. *)
Fault(v) ==
    /\ Runs /\ events < MaxEvents
    /\ Enter(v)
    /\ events' = events + 1
    /\ UNCHANGED <<gates, idtr, remapped>>

(* Not while one is being handled. *)
NonMaskable ==
    /\ ~WasReset /\ events < MaxEvents
    /\ \A k \in DOMAIN stack : stack[k].v # NMI
    /\ Enter(NMI)
    /\ events' = events + 1
    /\ UNCHANGED <<gates, idtr, remapped>>

Irq(l) ==
    /\ ~WasReset /\ ifl /\ events < MaxEvents
    /\ Enter((IF remapped THEN 32 ELSE 8) + l)
    /\ events' = events + 1
    /\ UNCHANGED <<gates, idtr, remapped>>

(* cli; hlt *)
Halt ==
    /\ stack' = [stack EXCEPT ![Len(stack)].halted = TRUE]
    /\ ifl' = FALSE /\ woken' = FALSE
    /\ UNCHANGED <<gates, idtr, remapped, events>>

(* The stub's iret, to a context that may have halted. *)
Iret ==
    /\ stack' = Front(stack)
    /\ ifl' = Top.ifl
    /\ woken' = Last(Front(stack)).halted
    /\ UNCHANGED <<gates, idtr, remapped, events>>

(* Mutant: a non-maskable interrupt is only reported. *)
FaultDispatcherReturns ==
    /\ Runs /\ Top.v \in 0..31
    /\ IF Top.halted \/ Top.v = NMI THEN Iret ELSE Halt

(* The report, then the halt; the handler of page faults does the same and *)
(* says it has solved the fault.  Both return if they are woken.           *)
FaultDispatcher ==
    /\ Runs /\ Top.v \in 0..31
    /\ IF Top.halted THEN Iret ELSE Halt

(* IRQDispatcher, see IRQHandler. *)
IrqReturns == Runs /\ Top.v \in IrqGates /\ Iret

-----------------------------------------------------------------------------
(* Properties. *)

(* Code that raised an exception, or panicked, never runs again: whatever  *)
(* interrupts come later, a context that has halted is not left or gone on *)
(* with.                                                                   *)
HaltIsFinal ==
    [][\A k \in DOMAIN stack : stack[k].halted =>
          \/ Last(stack').v = Reset
          \/ k \in DOMAIN stack' /\ stack'[k] = stack[k]]_stack

(* No interrupt of a device finds the table without its gate, or is taken  *)
(* for an exception because the 8259s still send the firmware's vectors.   *)
GatesBeforeInterrupts ==
    ifl => idtr /\ remapped /\ IrqGates \subseteq gates
=============================================================================
