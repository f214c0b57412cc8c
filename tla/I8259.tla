-------------------------------- MODULE I8259 --------------------------------
(***************************************************************************)
(* The pair of 8259 interrupt controllers and its driver (i8259.cpp).      *)
(*                                                                         *)
(* The chips are external: fully nested, edge triggered, the slave's       *)
(* output wired to line Cascade of the master.  What the driver does to    *)
(* them is translated from i8259.cpp.  The number of lines of one chip is  *)
(* a parameter, so that TLC can run a smaller pair.                        *)
(***************************************************************************)
EXTENDS Integers, FiniteSets

CONSTANTS
    Half,       \* lines of one controller: 8
    Cascade     \* the master's line the slave is wired to: 2

ASSUME LinesAssumption ==
    /\ Half \in Nat \ {0}
    /\ Cascade \in 0..(Half - 1)

Lines == 0..(2 * Half - 1)

Master == 0..(Half - 1)

Slave == Half..(2 * Half - 1)

VARIABLES
    irr,    \* lines with a request the controllers have latched
    imr,    \* masked lines
    isr     \* lines in service: delivered, and not ended yet

picVars == <<irr, imr, isr>>

-----------------------------------------------------------------------------
(* The chips (external). *)

(* The master's line by which a request of l reaches the CPU, besides l.   *)
Via(l) == IF l \in Slave THEN {Cascade} ELSE {}

(* Line k is more urgent than line l. *)
Beats(k, l) ==
    LET at(x) == IF x \in Slave THEN Cascade ELSE x
    IN  at(k) < at(l) \/ (at(k) = at(l) /\ k < l)

(* A chip asks for line l if l is the most urgent of its unmasked requests *)
(* and more urgent than everything it has in service.                      *)
SlaveAsks(l) ==
    /\ l \in (irr \cap Slave) \ imr
    /\ \A k \in ((irr \ imr) \cup isr) \cap Slave : k # l => l < k
    /\ l \notin isr

MasterRequests ==
    (irr \ (imr \cup Slave \cup {Cascade}))
        \cup {l \in {Cascade} \ imr : \E s \in Slave : SlaveAsks(s)}

MasterAsks(l) ==
    /\ l \in MasterRequests
    /\ \A k \in MasterRequests \cup (isr \cap Master) : k # l => l < k
    /\ l \notin isr

(* The acknowledge cycle delivers line l: the request moves into service,  *)
(* on the slave's lines in both chips.                                     *)
Acknowledge(l) ==
    /\ \/ l \in Master \ {Cascade} /\ MasterAsks(l) /\ isr' = isr \cup {l}
       \/ l \in Slave /\ SlaveAsks(l) /\ MasterAsks(Cascade)
          /\ isr' = isr \cup {l, Cascade}
    /\ irr' = irr \ {l}
    /\ UNCHANGED imr

(* A request that is gone when the CPU acknowledges it is delivered as the *)
(* chip's last line, which is then not in service; the master still has    *)
(* its cascade line in service if the chip is the slave.                   *)
SpuriousLine(l) == IF l \in Master THEN Half - 1 ELSE 2 * Half - 1

AcknowledgeSpurious(l) ==
    /\ l \in Lines \ (imr \cup irr \cup {Cascade})
    /\ \A k \in Master : ~MasterAsks(k)
    /\ LET at == IF l \in Slave THEN Cascade ELSE l
       IN  at \notin imr /\ \A k \in isr \cap Master : at < k
    /\ isr' = IF l \in Slave THEN isr \cup {Cascade} ELSE isr
    /\ UNCHANGED <<irr, imr>>

(* A non-specific EOI ends the most urgent line a chip has in service. *)
Ended(S) == {l \in S : \A k \in S : l =< k}

-----------------------------------------------------------------------------
(* The driver. *)

(* ICW1 to ICW4: the initialisation forgets requests, masks and service. *)
InitWords == irr' = {} /\ imr' = {} /\ isr' = {}

(* "only keep IRQ 2, for cascading" *)
ClearAllIRQs == imr' = Lines \ {Cascade} /\ UNCHANGED <<irr, isr>>

(* i8259::Initialize as the boot code calls it, with interrupts disabled. *)
Initialize == irr' = {} /\ isr' = {} /\ imr' = Lines \ {Cascade}

SetIRQMask(irqno, status) ==
    /\ imr' = IF status THEN imr \cup {irqno} ELSE imr \ {irqno}
    /\ UNCHANGED <<irr, isr>>

(* Mutant: a spurious interrupt of the slave ends nothing. *)
SendEOISkipsMaster(irqno) ==
    /\ isr' =
          IF irqno \notin isr THEN isr
          ELSE IF irqno \in Slave
               THEN isr \ (Ended(isr \cap Slave) \cup Ended(isr \cap Master))
               ELSE isr \ Ended(isr \cap Master)
    /\ UNCHANGED <<irr, imr>>

(* Mutant: only the slave is told. *)
SendEOISlaveOnly(irqno) ==
    /\ isr' =
          IF irqno \in Slave
          THEN isr \ Ended(isr \cap Slave)
          ELSE isr \ Ended(isr \cap Master)
    /\ UNCHANGED <<irr, imr>>

(* SendEOI and ReadISR: a spurious interrupt is one whose line is not in   *)
(* service.  On the slave it still ends the master's cascade line.         *)
SendEOI(irqno) ==
    /\ isr' =
          IF irqno \in Slave
          THEN isr \ (Ended(isr \cap Master)
                      \cup IF irqno \in isr THEN Ended(isr \cap Slave) ELSE {})
          ELSE IF irqno \in isr THEN isr \ Ended(isr \cap Master) ELSE isr
    /\ UNCHANGED <<irr, imr>>
=============================================================================
