----------------------------- MODULE IRQHandler -----------------------------
(***************************************************************************)
(* Interrupt dispatch (IRQHandler.cpp, IRQHandler.S) on top of the 8259s.  *)
(*                                                                         *)
(* One CPU runs the kernel's main thread; an interrupt that is delivered   *)
(* between two of its steps runs to its iret before the main thread goes   *)
(* on, because the gates and the stubs keep interrupts disabled.  The      *)
(* main thread calls SetHandler, RemoveHandler and i8259::Reset; devices   *)
(* raise requests at any moment.                                           *)
(*                                                                         *)
(* A latching device (the 8042 keyboard controller) raises its line when a *)
(* byte enters its empty buffer and is silent until a handler has read it. *)
(***************************************************************************)
EXTENDS I8259, Sequences

CONSTANTS
    MaxHandlers,   \* MAX_IRQ_HANDLERS: 16
    Handlers,      \* the IIRQHandlerDevice objects
    NULL,          \* an empty slot
    Requests,      \* bound: the <<irqno, handler>> pairs SetHandler is called with
    Raising,       \* the lines of devices that raise requests
    Latching,      \* the ones among them that wait for their byte to be read
    Noisy,         \* lines on which a spurious pulse may appear
    Reads          \* <<handler, irqno>>: OnIRQ of handler reads irqno's device

ASSUME HandlersAssumption ==
    /\ MaxHandlers \in Nat \ {0}
    /\ NULL \notin Handlers
    /\ Requests \subseteq Lines \X Handlers
    /\ Raising \subseteq Lines \ {Cascade}
    /\ Latching \subseteq Raising
    /\ Noisy \subseteq Lines
    /\ Reads \subseteq Handlers \X Lines

VARIABLES
    irqHandlers,  \* irqHandlers[irqno]: the slots of the line
    main,         \* what the main thread is in: [at, irqno, h, saved]
    cpu,          \* the interrupt being handled: [irqno, pos], or Idle
    full,         \* latching devices whose buffer holds a byte
    called,       \* ghost: the handlers called for the present interrupt
    early         \* ghost: bytes that came before a handler to read them

vars == <<picVars, irqHandlers, main, cpu, full, called, early>>

Slots == 0..(MaxHandlers - 1)

Idle == [irqno |-> -1, pos |-> 0]

MainAt(at) == [at |-> at, irqno |-> 0, h |-> NULL, saved |-> {}]

(* sti has been executed, no handler runs and panic() has not halted. *)
InterruptsOn == cpu = Idle /\ main.at \notin {"boot", "panic"}

Registered(irqno) == {irqHandlers[irqno][s] : s \in Slots} \ {NULL}

(* The scans of the list: its length up to the first empty slot. *)
Len1(irqno, len) ==
    /\ \A s \in 0..(len - 1) : irqHandlers[irqno][s] # NULL
    /\ len < MaxHandlers => irqHandlers[irqno][len] = NULL

-----------------------------------------------------------------------------
(* What the BIOS leaves in the controllers is not known.  The buffers of   *)
(* latching devices are empty: PS2::Initialize flushes them.               *)
Init ==
    /\ irr \in {{}, Raising}
    /\ imr \in {{}, Lines}
    /\ isr \in {{}, {Half - 1}}
    /\ irqHandlers = [l \in Lines |-> [s \in Slots |-> NULL]]
    /\ main = MainAt("boot")
    /\ cpu = Idle
    /\ full = {}
    /\ called = {} /\ early = {}

(* kernel_main: i8259::Initialize, the gates of IRQHandler::Init, sti.     *)
Boot ==
    /\ main.at = "boot"
    /\ Initialize
    /\ main' = MainAt("run")
    /\ UNCHANGED <<irqHandlers, cpu, full, called, early>>

(* SetHandler up to the write of the mask.  No handler writes the mask, so *)
(* reading and writing it are one step.                                    *)
SetHandlerUnmasks(irqno, h) ==
    /\ cpu = Idle /\ main = MainAt("run")
    /\ IF Len1(irqno, 0)
       THEN SetIRQMask(irqno, FALSE)
       ELSE UNCHANGED picVars
    /\ main' = [MainAt("set") EXCEPT !.irqno = irqno, !.h = h]
    /\ UNCHANGED <<irqHandlers, cpu, full, called, early>>

(* Mutant: the new handler takes the first slot. *)
SetHandlerOverwrites ==
    /\ cpu = Idle /\ main.at = "set"
    /\ irqHandlers' = [irqHandlers EXCEPT ![main.irqno][0] = main.h]
    /\ main' = MainAt("run")
    /\ UNCHANGED <<picVars, cpu, full, called, early>>

(* The rest of SetHandler: the log message has been written meanwhile. *)
SetHandlerStores ==
    /\ cpu = Idle /\ main.at = "set"
    /\ \E len \in 0..MaxHandlers :
          /\ Len1(main.irqno, len)
          /\ IF len < MaxHandlers
             THEN /\ irqHandlers' = [irqHandlers EXCEPT ![main.irqno][len] = main.h]
                  /\ main' = MainAt("run")
             ELSE /\ main' = MainAt("panic")
                  /\ UNCHANGED irqHandlers
    /\ UNCHANGED <<picVars, cpu, full, called, early>>

RemoveHandler(irqno, index) ==
    /\ cpu = Idle /\ main = MainAt("run")
    /\ irqHandlers[irqno][index] # NULL
    /\ irqHandlers' = [irqHandlers EXCEPT ![irqno][index] = NULL]
    /\ main' = [MainAt("removed") EXCEPT !.irqno = irqno]
    /\ UNCHANGED <<picVars, cpu, full, called, early>>

(* Mutant: the line is masked if its first slot is empty. *)
RemoveHandlerMasksFirst ==
    /\ cpu = Idle /\ main.at = "removed"
    /\ IF Len1(main.irqno, 0)
       THEN SetIRQMask(main.irqno, TRUE)
       ELSE UNCHANGED picVars
    /\ main' = MainAt("run")
    /\ UNCHANGED <<irqHandlers, cpu, full, called, early>>

(* The line is masked if the scan finds every slot in use. *)
RemoveHandlerMasks ==
    /\ cpu = Idle /\ main.at = "removed"
    /\ IF Len1(main.irqno, MaxHandlers)
       THEN SetIRQMask(main.irqno, TRUE)
       ELSE UNCHANGED picVars
    /\ main' = MainAt("run")
    /\ UNCHANGED <<irqHandlers, cpu, full, called, early>>

(* i8259::Reset, with interrupts enabled: the initialisation words, then   *)
(* ClearAllIRQs, then the masks read before.                               *)
ResetInitializes ==
    /\ cpu = Idle /\ main = MainAt("run")
    /\ InitWords
    /\ main' = [MainAt("reset") EXCEPT !.saved = imr]
    /\ UNCHANGED <<irqHandlers, cpu, full, called, early>>

ResetClears ==
    /\ cpu = Idle /\ main.at = "reset"
    /\ ClearAllIRQs
    /\ main' = [main EXCEPT !.at = "cleared"]
    /\ UNCHANGED <<irqHandlers, cpu, full, called, early>>

ResetRestores ==
    /\ cpu = Idle /\ main.at = "cleared"
    /\ imr' = main.saved
    /\ main' = MainAt("run")
    /\ UNCHANGED <<irr, isr, irqHandlers, cpu, full, called, early>>

-----------------------------------------------------------------------------
(* Interrupts. *)

(* A device raises its line (external). *)
Raise(l) ==
    /\ main.at # "boot"
    /\ l \notin full
    /\ irr' = irr \cup {l}
    /\ full' = full \cup ({l} \cap Latching)
    /\ early' = IF \E h \in Registered(l) : <<h, l>> \in Reads THEN early
                ELSE early \cup ({l} \cap Latching)
    /\ UNCHANGED <<imr, isr, irqHandlers, main, cpu, called>>

(* The stub of the delivered line: cli, push the number, IRQDispatcher. *)
Enter(l) ==
    /\ InterruptsOn
    /\ Acknowledge(l)
    /\ cpu' = [irqno |-> l, pos |-> 0]
    /\ called' = {}
    /\ UNCHANGED <<irqHandlers, main, full, early>>

EnterSpurious(l) ==
    /\ InterruptsOn
    /\ AcknowledgeSpurious(l)
    /\ cpu' = [irqno |-> SpuriousLine(l), pos |-> 0]
    /\ called' = {}
    /\ UNCHANGED <<irqHandlers, main, full, early>>

(* Mutant: the last slot is forgotten. *)
MoreHandlersButLast ==
    cpu.pos < MaxHandlers - 1 /\ irqHandlers[cpu.irqno][cpu.pos] # NULL

(* The dispatcher's loop goes on while the slot is in use and not past the *)
(* last.                                                                   *)
MoreHandlers ==
    cpu.pos < MaxHandlers /\ irqHandlers[cpu.irqno][cpu.pos] # NULL

(* OnIRQ of the handler in the present slot. *)
CallHandler ==
    /\ cpu # Idle
    /\ MoreHandlers
    /\ LET h == irqHandlers[cpu.irqno][cpu.pos]
           read == IF <<h, cpu.irqno>> \in Reads THEN {cpu.irqno} ELSE {}
       IN  /\ full' = full \ read /\ early' = early \ read
           /\ called' = called \cup {h}
    /\ cpu' = [cpu EXCEPT !.pos = @ + 1]
    /\ UNCHANGED <<picVars, irqHandlers, main>>

(* The end of IRQDispatcher and the stub's iret. *)
Return ==
    /\ cpu # Idle
    /\ ~MoreHandlers
    /\ SendEOI(cpu.irqno)
    /\ cpu' = Idle
    /\ called' = {}
    /\ UNCHANGED <<irqHandlers, main, full, early>>

Halted == main.at = "panic" /\ cpu = Idle /\ UNCHANGED vars

-----------------------------------------------------------------------------
Registering ==
    \/ \E r \in Requests : SetHandlerUnmasks(r[1], r[2])
    \/ SetHandlerStores

Removing ==
    \/ \E l \in Lines, s \in Slots : RemoveHandler(l, s)
    \/ RemoveHandlerMasks

Resetting == ResetInitializes \/ ResetClears \/ ResetRestores

Deliver == \E l \in Lines : Enter(l)

Dispatch == CallHandler \/ Return

Interrupts == Deliver \/ (\E l \in Noisy : EnterSpurious(l)) \/ Dispatch

(* Every call the two classes offer. *)
Next ==
    \/ Boot \/ Registering \/ Removing \/ Resetting
    \/ \E l \in Raising : Raise(l)
    \/ Interrupts
    \/ Halted

(* The CPU goes on: it takes an interrupt that is asked for, and code that *)
(* it has started runs on.                                                 *)
Fairness ==
    /\ WF_vars(Deliver)
    /\ WF_vars(Dispatch)
    /\ WF_vars(Boot \/ SetHandlerStores \/ RemoveHandlerMasks
                  \/ ResetClears \/ ResetRestores)

Spec == Init /\ [][Next]_vars /\ Fairness

(* The calls of this kernel: SetHandler only. *)
NextRegister ==
    \/ Boot \/ Registering
    \/ \E l \in Raising : Raise(l)
    \/ Interrupts
    \/ Halted

SpecRegister == Init /\ [][NextRegister]_vars /\ Fairness

-----------------------------------------------------------------------------
(* Properties. *)

(* Interrupts are ended exactly once and on the right chips: while a line  *)
(* is handled, it and nothing but it is in service (or, for a spurious     *)
(* one, nothing but the cascade line can be), and when the main thread     *)
(* runs no line is left in service, which would block every less urgent    *)
(* one for good.                                                           *)
ServiceMatches ==
    main.at # "boot" =>
        IF cpu = Idle THEN isr = {}
        ELSE isr \in {{cpu.irqno} \cup Via(cpu.irqno)}
                 \cup (IF cpu.irqno \in {Half - 1, 2 * Half - 1}
                       THEN {Via(cpu.irqno)} ELSE {})

(* IRQDispatcher has called every handler of the line when it sends the    *)
(* EOI: OnIRQ is the "Event function to be called on each IRQ".  True for  *)
(* callers that never remove a handler.                                    *)
AllCalled ==
    cpu # Idle /\ ~MoreHandlers => called = Registered(cpu.irqno)

(* Whatever the order of SetHandler, RemoveHandler and Reset, a line that  *)
(* has a handler is not masked, holes in its list or not.                  *)
RegisteredUnmasked ==
    main.at = "run" => \A l \in Lines : Registered(l) # {} => l \notin imr

(* A byte in the buffer of a latching device is announced: its request is  *)
(* pending or its handler is running; otherwise the device stays silent    *)
(* for good.  True of bytes that come once a handler that reads them is    *)
(* stored.                                                                 *)
NoLostInterrupt ==
    \A l \in full \ early : l \in irr \/ cpu.irqno = l

(* OnIRQ is the "Event function to be called on each IRQ": a byte of a     *)
(* device whose handler is stored is announced, or its handler is running. *)
(* Not one that comes while SetHandler is between unmasking and storing.   *)
RegisteredIsReached ==
    \A l \in full :
        (\E h \in Registered(l) : <<h, l>> \in Reads) => l \in irr \/ cpu.irqno = l

(* A request that is not masked is delivered, unless a more urgent one is  *)
(* waiting or the kernel has halted.                                       *)
Pending(l) == main.at # "boot" /\ l \in irr \ imr

Serviced ==
    \A l \in Raising :
        Pending(l) ~> \/ ~Pending(l)
                      \/ \E k \in Raising : Pending(k) /\ Beats(k, l)
                      \/ main.at = "panic"
=============================================================================
