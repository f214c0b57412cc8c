-------------------------- MODULE IRQHandlerProofs --------------------------
(***************************************************************************)
(* Proofs about interrupt dispatch, for every number of lines and of       *)
(* handler slots, every set of handlers and devices, and every order of    *)
(* the calls.                                                              *)
(***************************************************************************)
EXTENDS IRQHandler, TLAPS

Places == {"boot", "run", "set", "removed", "reset", "cleared", "panic"}

(* The types of the state; the CPU is in a handler of a line or in none,   *)
(* and in none before the boot code has enabled interrupts.                *)
TypeInv ==
    /\ irr \subseteq Lines /\ imr \subseteq Lines /\ isr \subseteq Lines
    /\ irqHandlers \in [Lines -> [Slots -> Handlers \cup {NULL}]]
    /\ main \in [at : Places, irqno : Lines, h : Handlers \cup {NULL},
                 saved : SUBSET Lines]
    /\ main.at = "set" => main.h \in Handlers
    /\ cpu = Idle \/ cpu \in [irqno : Lines, pos : 0..MaxHandlers]
    /\ full \subseteq Latching /\ early \subseteq Latching
    /\ called \subseteq Handlers

ServiceInv ==
    /\ TypeInv
    /\ main.at = "boot" => cpu = Idle
    /\ ServiceMatches

(* Where the main thread is in a call, what the rest of the call relies    *)
(* on: the line being registered is unmasked, the list just shortened has  *)
(* an empty slot, the saved masks spare every line with a handler.         *)
UnmaskedIn(mask) == \A l \in Lines : Registered(l) # {} => l \notin mask

MaskInv ==
    /\ TypeInv
    /\ main.at = "boot" => \A l \in Lines : Registered(l) = {}
    /\ main.at \in {"run", "set", "removed"} => UnmaskedIn(imr)
    /\ main.at = "set" => main.irqno \notin imr
    /\ main.at = "removed" => \E s \in Slots : irqHandlers[main.irqno][s] = NULL
    /\ main.at \in {"reset", "cleared"} => UnmaskedIn(main.saved)

(* For callers that only register.  The handlers of a line fill its first  *)
(* slots, and the dispatcher has called those of the slots it has passed.  *)
ListInv ==
    /\ TypeInv
    /\ \A l \in Lines, s, t \in Slots :
          s =< t /\ irqHandlers[l][s] = NULL => irqHandlers[l][t] = NULL
    /\ cpu # Idle =>
          called = {irqHandlers[cpu.irqno][s] : s \in {t \in Slots : t < cpu.pos}} \ {NULL}

(* A byte that is in a device's buffer and did not come early has a        *)
(* handler that reads it; once its request is taken, the dispatcher has    *)
(* not passed that handler yet.                                            *)
ReaderFrom(l, pos) ==
    \E s \in Slots : s >= pos /\ <<irqHandlers[l][s], l>> \in Reads

ByteInv ==
    /\ ListInv
    /\ main.at = "boot" => full = {}
    /\ \A l \in full \ early :
          /\ ReaderFrom(l, 0)
          /\ l \in irr \/ (cpu # Idle /\ cpu.irqno = l /\ ReaderFrom(l, cpu.pos))

-----------------------------------------------------------------------------
(* The slots of a line are numbered from zero and there is at least one.   *)
LEMMA SlotFacts ==
    /\ Slots \subseteq Nat
    /\ 0 \in Slots
    /\ \A p \in 0..MaxHandlers : p < MaxHandlers => p \in Slots
    /\ MaxHandlers \in Nat \ {0}
BY HandlersAssumption DEF Slots

(* The lines are the master's and the slave's, the last of each and the    *)
(* cascade included, and -1 is none of them.                               *)
LEMMA LineFacts ==
    /\ Lines \subseteq Nat
    /\ 0 \in Lines /\ -1 \notin Lines
    /\ Half - 1 \in Master /\ 2 * Half - 1 \in Slave
    /\ Cascade \in Master
    /\ Lines = Master \cup Slave /\ Master \cap Slave = {}
BY LinesAssumption DEF Lines, Master, Slave

(* The CPU's record while it is in a handler. *)
LEMMA CpuFacts ==
    ASSUME TypeInv, cpu # Idle
    PROVE  cpu.irqno \in Lines /\ cpu.pos \in 0..MaxHandlers
BY DEF TypeInv

(* Entering a handler is leaving idleness. *)
LEMMA CpuEntered ==
    ASSUME NEW l \in Lines
    PROVE  /\ [irqno |-> l, pos |-> 0] # Idle
           /\ [irqno |-> l, pos |-> 0] \in [irqno : Lines, pos : 0..MaxHandlers]
           /\ [irqno |-> l, pos |-> 0].irqno = l
<1>1. l # -1
  BY LineFacts
<1>2. [irqno |-> l, pos |-> 0].irqno # Idle.irqno
  BY <1>1 DEF Idle
<1>3. 0 \in 0..MaxHandlers
  BY HandlersAssumption
<1> QED
  BY <1>2, <1>3

(* The main thread's record outside a call. *)
LEMMA MainAtFacts ==
    ASSUME NEW at \in Places
    PROVE  /\ MainAt(at) \in [at : Places, irqno : Lines, h : Handlers \cup {NULL},
                              saved : SUBSET Lines]
           /\ MainAt(at).at = at
BY LineFacts DEF MainAt

(* What the BIOS leaves has the types. *)
LEMMA TypeInit == Init => TypeInv
<1> SUFFICES ASSUME Init PROVE TypeInv
  OBVIOUS
<1>1. Raising \subseteq Lines /\ Half - 1 \in Lines
  BY HandlersAssumption, LineFacts
<1>2. irr \subseteq Lines /\ imr \subseteq Lines /\ isr \subseteq Lines
  BY <1>1 DEF Init
<1>3. irqHandlers \in [Lines -> [Slots -> Handlers \cup {NULL}]]
  BY DEF Init
<1>4. main \in [at : Places, irqno : Lines, h : Handlers \cup {NULL}, saved : SUBSET Lines]
      /\ main.at = "boot"
  <2>1. "boot" \in Places
    BY DEF Places
  <2> QED
    BY <2>1, MainAtFacts DEF Init
<1> QED
  BY <1>2, <1>3, <1>4 DEF Init, TypeInv

(* Every step keeps the types. *)
LEMMA TypeStep == TypeInv /\ [Next]_vars => TypeInv'
<1> SUFFICES ASSUME TypeInv, [Next]_vars PROVE TypeInv'
  OBVIOUS
<1> DEFINE Main == [at : Places, irqno : Lines, h : Handlers \cup {NULL}, saved : SUBSET Lines]
<1>p. {"boot", "run", "set", "removed", "reset", "cleared", "panic"} = Places
  BY DEF Places
<1>1. CASE Boot
  <2>1. main' \in Main /\ main'.at = "run"
    BY <1>1, <1>p, MainAtFacts DEF Boot
  <2> QED
    BY <1>1, <2>1 DEF Boot, Initialize, TypeInv
<1>2. ASSUME NEW r \in Requests, SetHandlerUnmasks(r[1], r[2])
      PROVE  TypeInv'
  <2>1. r[1] \in Lines /\ r[2] \in Handlers
    BY HandlersAssumption
  <2>2. main' \in Main /\ main'.h \in Handlers
    BY <1>2, <2>1, <1>p, MainAtFacts DEF SetHandlerUnmasks, MainAt
  <2>3. irr' \subseteq Lines /\ imr' \subseteq Lines /\ isr' \subseteq Lines
    BY <1>2 DEF SetHandlerUnmasks, SetIRQMask, picVars, TypeInv
  <2> QED
    BY <1>2, <2>2, <2>3 DEF SetHandlerUnmasks, TypeInv
<1>3. CASE SetHandlerStores
  <2>1. main' \in Main /\ main'.at # "set"
    BY <1>3, <1>p, MainAtFacts DEF SetHandlerStores
  <2>2. irqHandlers' \in [Lines -> [Slots -> Handlers \cup {NULL}]]
    BY <1>3, SlotFacts DEF SetHandlerStores, TypeInv
  <2> QED
    BY <1>3, <2>1, <2>2 DEF SetHandlerStores, TypeInv, picVars
<1>4. ASSUME NEW l \in Lines, NEW s \in Slots, RemoveHandler(l, s)
      PROVE  TypeInv'
  <2>1. main' \in Main /\ main'.at # "set"
    BY <1>4, <1>p, MainAtFacts DEF RemoveHandler, MainAt
  <2>2. irqHandlers' \in [Lines -> [Slots -> Handlers \cup {NULL}]]
    BY <1>4 DEF RemoveHandler, TypeInv
  <2> QED
    BY <1>4, <2>1, <2>2 DEF RemoveHandler, TypeInv, picVars
<1>5. CASE RemoveHandlerMasks
  <2>1. main' \in Main /\ main'.at # "set"
    BY <1>5, <1>p, MainAtFacts DEF RemoveHandlerMasks
  <2>2. irr' \subseteq Lines /\ imr' \subseteq Lines /\ isr' \subseteq Lines
    BY <1>5 DEF RemoveHandlerMasks, SetIRQMask, picVars, TypeInv
  <2> QED
    BY <1>5, <2>1, <2>2 DEF RemoveHandlerMasks, TypeInv
<1>6. CASE ResetInitializes
  <2>1. main' \in Main /\ main'.at # "set"
    BY <1>6, <1>p, MainAtFacts DEF ResetInitializes, MainAt, TypeInv
  <2> QED
    BY <1>6, <2>1 DEF ResetInitializes, InitWords, TypeInv
<1>7. CASE ResetClears
  <2>1. main' \in Main /\ main'.at # "set"
    BY <1>7, <1>p DEF ResetClears, TypeInv
  <2> QED
    BY <1>7, <2>1 DEF ResetClears, ClearAllIRQs, TypeInv
<1>8. CASE ResetRestores
  <2>1. main' \in Main /\ main'.at # "set"
    BY <1>8, <1>p, MainAtFacts DEF ResetRestores
  <2> QED
    BY <1>8, <2>1 DEF ResetRestores, TypeInv
<1>9. ASSUME NEW l \in Raising, Raise(l)
      PROVE  TypeInv'
  BY <1>9, HandlersAssumption DEF Raise, TypeInv
<1>10. ASSUME NEW l \in Lines, Enter(l)
       PROVE  TypeInv'
  <2>1. cpu' \in [irqno : Lines, pos : 0..MaxHandlers]
    BY <1>10, CpuEntered DEF Enter
  <2>2. irr' \subseteq Lines /\ imr' \subseteq Lines /\ isr' \subseteq Lines
    BY <1>10, LineFacts DEF Enter, Acknowledge, TypeInv
  <2> QED
    BY <1>10, <2>1, <2>2 DEF Enter, TypeInv
<1>11. ASSUME NEW l \in Noisy, EnterSpurious(l)
       PROVE  TypeInv'
  <2>1. SpuriousLine(l) \in Lines
    BY LineFacts DEF SpuriousLine
  <2>2. cpu' \in [irqno : Lines, pos : 0..MaxHandlers]
    BY <1>11, <2>1, CpuEntered DEF EnterSpurious
  <2>3. irr' \subseteq Lines /\ imr' \subseteq Lines /\ isr' \subseteq Lines
    BY <1>11, LineFacts DEF EnterSpurious, AcknowledgeSpurious, TypeInv
  <2> QED
    BY <1>11, <2>2, <2>3 DEF EnterSpurious, TypeInv
<1>12. CASE CallHandler
  <2>1. cpu.irqno \in Lines /\ cpu.pos \in 0..MaxHandlers /\ cpu.pos < MaxHandlers
    BY <1>12, CpuFacts DEF CallHandler, MoreHandlers
  <2>2. cpu' \in [irqno : Lines, pos : 0..MaxHandlers]
    BY <1>12, <2>1, HandlersAssumption DEF CallHandler, TypeInv
  <2>3. irqHandlers[cpu.irqno][cpu.pos] \in Handlers
    BY <1>12, <2>1, SlotFacts DEF CallHandler, MoreHandlers, TypeInv
  <2> QED
    BY <1>12, <2>2, <2>3 DEF CallHandler, TypeInv, picVars
<1>13. CASE Return
  BY <1>13 DEF Return, SendEOI, TypeInv
<1>14. CASE UNCHANGED vars
  BY <1>14 DEF vars, picVars, TypeInv
<1> QED
  BY <1>1, <1>2, <1>3, <1>4, <1>5, <1>6, <1>7, <1>8, <1>9, <1>10, <1>11, <1>12, <1>13, <1>14
     DEF Next, Registering, Removing, Resetting, Interrupts, Deliver, Dispatch, Halted
-----------------------------------------------------------------------------
(* Service. *)

(* A chip with one line in service ends that line; one with none ends      *)
(* nothing.                                                                *)
LEMMA EndedFacts ==
    /\ Ended({}) = {}
    /\ \A l \in Lines : Ended({l}) = {l}
BY LineFacts DEF Ended

(* SendEOI leaves nothing in service, whatever line the dispatcher was     *)
(* entered for and whether or not the interrupt was spurious.              *)
LEMMA EOIEndsAll ==
    ASSUME TypeInv, cpu # Idle, main.at # "boot", ServiceMatches, SendEOI(cpu.irqno)
    PROVE  isr' = {}
<1> DEFINE l == cpu.irqno
<1>1. l \in Lines
  BY CpuFacts
<1>2. isr = {l} \cup Via(l) \/ isr = Via(l)
  BY DEF ServiceMatches
<1>3. CASE l \in Slave
  <2>1. Via(l) = {Cascade}
    BY <1>3 DEF Via
  <2>2. isr \cap Master = {Cascade} /\ Cascade \in Lines
    BY <1>2, <1>3, <2>1, LineFacts
  <2>3. Ended(isr \cap Master) = {Cascade}
    BY <2>2, EndedFacts
  <2>4. CASE l \in isr
    <3>1. isr = {l, Cascade} /\ isr \cap Slave = {l}
      BY <1>2, <1>3, <2>1, <2>4, LineFacts
    <3>2. Ended(isr \cap Slave) = {l}
      BY <3>1, <1>1, EndedFacts
    <3> QED
      BY <1>3, <2>3, <2>4, <3>1, <3>2 DEF SendEOI
  <2>5. CASE l \notin isr
    <3>1. isr = {Cascade}
      BY <1>2, <2>1, <2>5
    <3> QED
      BY <1>3, <2>3, <2>5, <3>1 DEF SendEOI
  <2> QED
    BY <2>4, <2>5
<1>4. CASE l \notin Slave
  <2>1. Via(l) = {} /\ l \in Master
    BY <1>1, <1>4, LineFacts DEF Via
  <2>2. CASE l \in isr
    <3>1. isr = {l} /\ isr \cap Master = {l}
      BY <1>2, <2>1, <2>2
    <3>2. Ended(isr \cap Master) = {l}
      BY <3>1, <1>1, EndedFacts
    <3> QED
      BY <1>4, <2>2, <3>1, <3>2 DEF SendEOI
  <2>3. CASE l \notin isr
    BY <1>2, <1>4, <2>1, <2>3 DEF SendEOI
  <2> QED
    BY <2>2, <2>3
<1> QED
  BY <1>3, <1>4

(* Every step of the main thread, of a device and of the CPU keeps the     *)
(* lines in service matched with the handler that runs.                    *)
LEMMA ServiceStep == ServiceInv /\ [Next]_vars => ServiceInv'
<1> SUFFICES ASSUME ServiceInv, [Next]_vars PROVE ServiceInv'
  OBVIOUS
<1>t. TypeInv /\ TypeInv'
  BY TypeStep DEF ServiceInv
<1> DEFINE Quiet == main'.at # "boot" /\ cpu' = Idle /\ isr' = {}
<1>q. ASSUME Quiet PROVE ServiceInv'
  BY <1>q, <1>t DEF ServiceInv, ServiceMatches
<1>i. cpu = Idle /\ main.at # "boot" => isr = {}
  BY DEF ServiceInv, ServiceMatches
<1>p. {"run", "set", "removed", "reset", "cleared", "panic"} \subseteq Places
  BY DEF Places
<1>1. CASE Boot
  <2>1. Quiet
    BY <1>1, <1>p, MainAtFacts DEF Boot, Initialize, ServiceInv
  <2> QED
    BY <2>1, <1>q
<1>2. ASSUME NEW r \in Requests, SetHandlerUnmasks(r[1], r[2])
      PROVE  ServiceInv'
  <2>1. main.at # "boot"
    BY <1>2 DEF SetHandlerUnmasks, MainAt
  <2>2. isr' = {} /\ cpu' = Idle
    BY <1>2, <2>1, <1>i DEF SetHandlerUnmasks, SetIRQMask, picVars
  <2>3. main'.at # "boot"
    BY <1>2 DEF SetHandlerUnmasks, MainAt
  <2> QED
    BY <2>2, <2>3, <1>q
<1>3. CASE SetHandlerStores
  <2>1. Quiet
    BY <1>3, <1>i, <1>p, MainAtFacts DEF SetHandlerStores, picVars
  <2> QED
    BY <2>1, <1>q
<1>4. ASSUME NEW l \in Lines, NEW s \in Slots, RemoveHandler(l, s)
      PROVE  ServiceInv'
  <2>1. main.at # "boot" /\ main'.at # "boot"
    BY <1>4 DEF RemoveHandler, MainAt
  <2>2. Quiet
    BY <1>4, <2>1, <1>i DEF RemoveHandler, picVars
  <2> QED
    BY <2>2, <1>q
<1>5. CASE RemoveHandlerMasks
  <2>1. Quiet
    BY <1>5, <1>i, <1>p, MainAtFacts DEF RemoveHandlerMasks, SetIRQMask, picVars
  <2> QED
    BY <2>1, <1>q
<1>6. CASE ResetInitializes
  <2>1. main'.at # "boot"
    BY <1>6 DEF ResetInitializes, MainAt
  <2>2. Quiet
    BY <1>6, <2>1 DEF ResetInitializes, InitWords
  <2> QED
    BY <2>2, <1>q
<1>7. CASE ResetClears
  <2>1. main'.at # "boot"
    BY <1>7, <1>t DEF ResetClears, TypeInv
  <2>2. Quiet
    BY <1>7, <2>1, <1>i DEF ResetClears, ClearAllIRQs
  <2> QED
    BY <2>2, <1>q
<1>8. CASE ResetRestores
  <2>1. Quiet
    BY <1>8, <1>i, <1>p, MainAtFacts DEF ResetRestores
  <2> QED
    BY <2>1, <1>q
<1>9. ASSUME NEW l \in Raising, Raise(l)
      PROVE  ServiceInv'
  BY <1>9, <1>t DEF Raise, ServiceInv, ServiceMatches
<1>10. ASSUME NEW l \in Lines, Enter(l)
       PROVE  ServiceInv'
  <2>1. cpu' # Idle /\ cpu'.irqno = l
    BY <1>10, CpuEntered DEF Enter
  <2>2. isr = {} /\ main'.at # "boot"
    BY <1>10, <1>i DEF Enter, InterruptsOn
  <2>3. isr' = {l} \cup Via(l)
    BY <1>10, <2>2, LineFacts DEF Enter, Acknowledge, Via
  <2> QED
    BY <2>1, <2>2, <2>3, <1>t DEF ServiceInv, ServiceMatches
<1>11. ASSUME NEW l \in Noisy, EnterSpurious(l)
       PROVE  ServiceInv'
  <2> DEFINE k == SpuriousLine(l)
  <2>1. k \in {Half - 1, 2 * Half - 1} /\ k \in Lines
    BY LineFacts DEF SpuriousLine
  <2>2. cpu' # Idle /\ cpu'.irqno = k
    BY <1>11, <2>1, CpuEntered DEF EnterSpurious
  <2>3. isr = {} /\ main'.at # "boot"
    BY <1>11, <1>i DEF EnterSpurious, InterruptsOn
  <2>4. l \in Lines
    BY HandlersAssumption
  <2>5. k \in Slave <=> l \in Slave
    BY <2>4, LineFacts DEF SpuriousLine
  <2>6. isr' = Via(k)
    BY <1>11, <2>3, <2>5 DEF EnterSpurious, AcknowledgeSpurious, Via
  <2> QED
    BY <2>1, <2>2, <2>3, <2>6, <1>t DEF ServiceInv, ServiceMatches
<1>12. CASE CallHandler
  <2>1. cpu \in [irqno : Lines, pos : 0..MaxHandlers] /\ cpu' = [cpu EXCEPT !.pos = @ + 1]
    BY <1>12, <1>t DEF CallHandler, TypeInv
  <2>2. cpu'.irqno = cpu.irqno /\ cpu.irqno # -1
    BY <2>1, LineFacts
  <2>3. cpu' # Idle
    BY <2>2 DEF Idle
  <2> QED
    BY <1>12, <2>2, <2>3, <1>t DEF CallHandler, picVars, ServiceInv, ServiceMatches
<1>13. CASE Return
  <2>1. cpu # Idle /\ main.at # "boot"
    BY <1>13 DEF Return, ServiceInv
  <2>2. isr' = {}
    BY <1>13, <1>t, <2>1, EOIEndsAll DEF Return, ServiceInv
  <2>3. Quiet
    BY <1>13, <2>1, <2>2 DEF Return
  <2> QED
    BY <2>3, <1>q
<1>14. CASE UNCHANGED vars
  BY <1>14, <1>t DEF vars, picVars, ServiceInv, ServiceMatches
<1> QED
  BY <1>1, <1>2, <1>3, <1>4, <1>5, <1>6, <1>7, <1>8, <1>9, <1>10, <1>11, <1>12, <1>13, <1>14
     DEF Next, Registering, Removing, Resetting, Interrupts, Deliver, Dispatch, Halted

(* IRQDispatcher and SendEOI end every interrupt exactly once and on the   *)
(* right chips, spurious ones included, whatever the main thread calls     *)
(* meanwhile.                                                              *)
THEOREM InterruptsEnded == Spec => []ServiceMatches
<1>1. Init => ServiceInv
  <2> SUFFICES ASSUME Init PROVE ServiceInv
    OBVIOUS
  <2>1. main.at = "boot" /\ cpu = Idle
    BY MainAtFacts DEF Init, Places
  <2> QED
    BY <2>1, TypeInit DEF ServiceInv, ServiceMatches
<1>2. ServiceInv => ServiceMatches
  BY DEF ServiceInv
<1> QED
  BY <1>1, <1>2, ServiceStep, PTL DEF Spec

-----------------------------------------------------------------------------
(* Masks. *)

(* A step that leaves the lists alone keeps the handlers of each line. *)
LEMMA RegisteredKept ==
    ASSUME UNCHANGED irqHandlers
    PROVE  \A l \in Lines : Registered(l)' = Registered(l)
BY DEF Registered

(* Writing one slot of a line changes no other line's handlers, and adds   *)
(* to the line itself at most the handler that is written.                 *)
LEMMA RegisteredAfterWrite ==
    ASSUME TypeInv, NEW k \in Lines, NEW s \in Slots, NEW h \in Handlers \cup {NULL},
           irqHandlers' = [irqHandlers EXCEPT ![k][s] = h]
    PROVE  \A l \in Lines : /\ l # k => Registered(l)' = Registered(l)
                            /\ h = NULL => Registered(l)' \subseteq Registered(l)
<1>1. \A l \in Lines : l # k => irqHandlers'[l] = irqHandlers[l]
  BY DEF TypeInv
<1>2. \A t \in Slots : irqHandlers'[k][t] = IF t = s THEN h ELSE irqHandlers[k][t]
  BY DEF TypeInv
<1> QED
  BY <1>1, <1>2 DEF Registered

(* SetHandler, RemoveHandler and Reset keep the masks off the lines that   *)
(* have handlers; interrupts do not write them.                            *)
LEMMA MaskStep == MaskInv /\ [Next]_vars => MaskInv'
<1> SUFFICES ASSUME MaskInv, [Next]_vars PROVE MaskInv'
  OBVIOUS
<1>t. TypeInv /\ TypeInv'
  BY TypeStep DEF MaskInv
<1>r. MainAt("run").at = "run" /\ MainAt("panic").at = "panic"
  BY DEF MainAt
<1>1. CASE Boot
  <2>1. main'.at = "run" /\ UNCHANGED irqHandlers /\ main.at = "boot"
    BY <1>1, <1>r DEF Boot
  <2>2. \A l \in Lines : Registered(l)' = {}
    BY <2>1, RegisteredKept DEF MaskInv
  <2> QED
    BY <1>t, <2>1, <2>2 DEF MaskInv, UnmaskedIn
<1>2. ASSUME NEW r \in Requests, SetHandlerUnmasks(r[1], r[2])
      PROVE  MaskInv'
  <2>0. r[1] \in Lines
    BY HandlersAssumption
  <2>1. main.at = "run" /\ main'.at = "set" /\ main'.irqno = r[1] /\ UNCHANGED irqHandlers
    BY <1>2 DEF SetHandlerUnmasks, MainAt
  <2>2. imr' \subseteq imr
    BY <1>2 DEF SetHandlerUnmasks, SetIRQMask, picVars
  <2>3. UnmaskedIn(imr)'
    BY <2>1, <2>2, RegisteredKept DEF MaskInv, UnmaskedIn
  <2>4. r[1] \notin imr'
    <3>1. CASE Len1(r[1], 0)
      BY <1>2, <3>1 DEF SetHandlerUnmasks, SetIRQMask
    <3>2. CASE ~Len1(r[1], 0)
      <4>1. irqHandlers[r[1]][0] # NULL
        BY <3>2, SlotFacts DEF Len1
      <4>2. Registered(r[1]) # {}
        BY <4>1, SlotFacts DEF Registered
      <4> QED
        BY <2>0, <2>1, <2>2, <4>2 DEF MaskInv, UnmaskedIn
    <3> QED
      BY <3>1, <3>2
  <2> QED
    BY <1>t, <2>1, <2>3, <2>4 DEF MaskInv
<1>3. CASE SetHandlerStores
  <2>1. PICK len \in 0..MaxHandlers :
          /\ Len1(main.irqno, len)
          /\ IF len < MaxHandlers
             THEN /\ irqHandlers' = [irqHandlers EXCEPT ![main.irqno][len] = main.h]
                  /\ main' = MainAt("run")
             ELSE /\ main' = MainAt("panic")
                  /\ UNCHANGED irqHandlers
    BY <1>3 DEF SetHandlerStores
  <2>2. main.at = "set" /\ UNCHANGED imr /\ main.irqno \in Lines /\ main.h \in Handlers
    BY <1>3, <1>t DEF SetHandlerStores, picVars, TypeInv
  <2>3. CASE len < MaxHandlers
    <3>1. len \in Slots
      BY <2>3, SlotFacts
    <3>2. \A l \in Lines : l # main.irqno => Registered(l)' = Registered(l)
      BY <2>1, <2>2, <2>3, <3>1, <1>t, RegisteredAfterWrite
    <3>3. UnmaskedIn(imr)'
      BY <2>2, <3>2 DEF MaskInv, UnmaskedIn
    <3>4. main'.at = "run"
      BY <2>1, <2>3, <1>r
    <3> QED
      BY <1>t, <3>3, <3>4 DEF MaskInv
  <2>4. CASE ~(len < MaxHandlers)
    <3>1. main'.at = "panic"
      BY <2>1, <2>4, <1>r
    <3> QED
      BY <1>t, <3>1 DEF MaskInv
  <2> QED
    BY <2>3, <2>4
<1>4. ASSUME NEW l \in Lines, NEW s \in Slots, RemoveHandler(l, s)
      PROVE  MaskInv'
  <2>1. main.at = "run" /\ main'.at = "removed" /\ main'.irqno = l /\ UNCHANGED imr
    BY <1>4 DEF RemoveHandler, MainAt, picVars
  <2>2. irqHandlers' = [irqHandlers EXCEPT ![l][s] = NULL]
    BY <1>4 DEF RemoveHandler
  <2>3. \A k \in Lines : Registered(k)' \subseteq Registered(k)
    BY <2>2, <1>t, RegisteredAfterWrite
  <2>4. UnmaskedIn(imr)'
    BY <2>1, <2>3 DEF MaskInv, UnmaskedIn
  <2>5. irqHandlers'[l][s] = NULL
    BY <2>2, <1>t DEF TypeInv
  <2> QED
    BY <1>t, <2>1, <2>4, <2>5 DEF MaskInv
<1>5. CASE RemoveHandlerMasks
  <2>1. main.at = "removed" /\ main'.at = "run" /\ UNCHANGED irqHandlers
    BY <1>5, <1>r DEF RemoveHandlerMasks
  <2>2. ~Len1(main.irqno, MaxHandlers)
    BY <2>1 DEF MaskInv, Len1, Slots
  <2>3. UNCHANGED imr
    BY <1>5, <2>2 DEF RemoveHandlerMasks, picVars
  <2> QED
    BY <1>t, <2>1, <2>3, RegisteredKept DEF MaskInv, UnmaskedIn
<1>6. CASE ResetInitializes
  <2>1. main.at = "run" /\ main'.at = "reset" /\ main'.saved = imr /\ UNCHANGED irqHandlers
    BY <1>6 DEF ResetInitializes, MainAt
  <2> QED
    BY <1>t, <2>1, RegisteredKept DEF MaskInv, UnmaskedIn
<1>7. CASE ResetClears
  <2>1. /\ main.at = "reset" /\ main'.at = "cleared" /\ main'.saved = main.saved
        /\ UNCHANGED irqHandlers
    BY <1>7, <1>t DEF ResetClears, TypeInv
  <2> QED
    BY <1>t, <2>1, RegisteredKept DEF MaskInv, UnmaskedIn
<1>8. CASE ResetRestores
  <2>1. main.at = "cleared" /\ main'.at = "run" /\ imr' = main.saved /\ UNCHANGED irqHandlers
    BY <1>8, <1>r DEF ResetRestores
  <2> QED
    BY <1>t, <2>1, RegisteredKept DEF MaskInv, UnmaskedIn
<1>9. CASE UNCHANGED <<imr, irqHandlers, main>>
  BY <1>9, <1>t, RegisteredKept DEF MaskInv, UnmaskedIn
<1>10. ASSUME NEW l \in Lines, Raise(l) \/ Enter(l) \/ EnterSpurious(l)
       PROVE  UNCHANGED <<imr, irqHandlers, main>>
  BY <1>10 DEF Raise, Enter, EnterSpurious, Acknowledge, AcknowledgeSpurious
<1>11. CASE CallHandler \/ Return \/ UNCHANGED vars
  BY <1>9, <1>11 DEF CallHandler, Return, SendEOI, picVars, vars
<1> QED
  BY <1>1, <1>2, <1>3, <1>4, <1>5, <1>6, <1>7, <1>8, <1>9, <1>10, <1>11, HandlersAssumption
     DEF Next, Registering, Removing, Resetting, Interrupts, Deliver, Dispatch, Halted

(* No order of SetHandler, RemoveHandler and Reset leaves a line that has  *)
(* a handler masked.                                                       *)
THEOREM HandledLinesUnmasked == Spec => []RegisteredUnmasked
<1>1. Init => MaskInv
  <2> SUFFICES ASSUME Init PROVE MaskInv
    OBVIOUS
  <2>1. main.at = "boot"
    BY DEF Init, MainAt
  <2>2. \A l \in Lines : Registered(l) = {}
    BY DEF Init, Registered
  <2> QED
    BY <2>1, <2>2, TypeInit DEF MaskInv
<1>2. MaskInv => RegisteredUnmasked
  BY DEF MaskInv, UnmaskedIn, RegisteredUnmasked
<1> QED
  BY <1>1, <1>2, MaskStep, PTL DEF Spec

-----------------------------------------------------------------------------
(* Lists without removal. *)

(* The calls of this kernel are among all calls. *)
LEMMA RegisterIsNext == [NextRegister]_vars => [Next]_vars
BY DEF NextRegister, Next

(* The handlers in the slots of a line before pos. *)
HandlersBefore(l, pos) ==
    {irqHandlers[l][s] : s \in {t \in Slots : t < pos}} \ {NULL}

(* Registering appends to the list, and the dispatcher walks it from its   *)
(* start: what it has called is the part of the list it has passed.        *)
LEMMA ListStep == ListInv /\ [NextRegister]_vars => ListInv'
<1> SUFFICES ASSUME ListInv, [NextRegister]_vars PROVE ListInv'
  OBVIOUS
<1>t. TypeInv /\ TypeInv'
  BY TypeStep, RegisterIsNext DEF ListInv
<1>1. CASE SetHandlerStores
  <2>1. PICK len \in 0..MaxHandlers :
          /\ Len1(main.irqno, len)
          /\ \/ len < MaxHandlers
                /\ irqHandlers' = [irqHandlers EXCEPT ![main.irqno][len] = main.h]
             \/ UNCHANGED irqHandlers
    BY <1>1 DEF SetHandlerStores
  <2>2. cpu' = Idle /\ main.irqno \in Lines /\ main.h \in Handlers /\ main.h # NULL
    BY <1>1, <1>t, HandlersAssumption DEF SetHandlerStores, TypeInv
  <2>3. CASE UNCHANGED irqHandlers
    BY <2>2, <2>3, <1>t DEF ListInv
  <2>4. CASE len < MaxHandlers /\ irqHandlers' = [irqHandlers EXCEPT ![main.irqno][len] = main.h]
    <3>1. \A s \in Slots : irqHandlers'[main.irqno][s]
                             = IF s = len THEN main.h ELSE irqHandlers[main.irqno][s]
      BY <2>2, <2>4, <1>t DEF TypeInv
    <3>2. \A l \in Lines : l # main.irqno => irqHandlers'[l] = irqHandlers[l]
      BY <2>4, <1>t DEF TypeInv
    <3>3. \A s \in Slots : s < len => irqHandlers[main.irqno][s] # NULL
      BY <2>1 DEF Len1, Slots
    <3>4. ASSUME NEW l \in Lines, NEW s \in Slots, NEW t \in Slots,
                 s =< t, irqHandlers'[l][s] = NULL
          PROVE  irqHandlers'[l][t] = NULL
      <4>1. CASE l # main.irqno
        BY <3>2, <3>4, <4>1 DEF ListInv
      <4>2. CASE l = main.irqno
        <5>1. s # len /\ irqHandlers[l][s] = NULL
          BY <2>2, <3>1, <3>4, <4>2
        <5>2. s > len
          BY <5>1, <3>3, <4>2, SlotFacts
        <5>3. t # len
          BY <5>2, <3>4, SlotFacts
        <5> QED
          BY <3>1, <3>4, <4>2, <5>1, <5>3 DEF ListInv
      <4> QED
        BY <4>1, <4>2
    <3> QED
      BY <1>t, <2>2, <3>4 DEF ListInv
  <2> QED
    BY <2>1, <2>3, <2>4
<1>2. CASE CallHandler
  <2>1. cpu \in [irqno : Lines, pos : 0..MaxHandlers] /\ cpu # Idle /\ MoreHandlers
    BY <1>2, <1>t DEF CallHandler, TypeInv
  <2>2. cpu'.irqno = cpu.irqno /\ cpu'.pos = cpu.pos + 1 /\ UNCHANGED irqHandlers
    BY <1>2, <2>1 DEF CallHandler
  <2>3. cpu.pos \in Slots
    BY <2>1, SlotFacts DEF MoreHandlers
  <2>4. {t \in Slots : t < cpu.pos + 1} = {t \in Slots : t < cpu.pos} \cup {cpu.pos}
    BY <2>3, HandlersAssumption DEF Slots
  <2>5. /\ called' = called \cup {irqHandlers[cpu.irqno][cpu.pos]}
        /\ irqHandlers[cpu.irqno][cpu.pos] # NULL
    BY <1>2, <2>1 DEF CallHandler, MoreHandlers
  <2>6. called = HandlersBefore(cpu.irqno, cpu.pos)
    BY <2>1 DEF ListInv, HandlersBefore
  <2>7. called' = HandlersBefore(cpu.irqno, cpu.pos + 1)
    BY <2>4, <2>5, <2>6 DEF HandlersBefore
  <2> QED
    BY <1>t, <2>2, <2>7 DEF ListInv, HandlersBefore
<1>3. CASE UNCHANGED irqHandlers /\ (cpu' = Idle \/ UNCHANGED <<cpu, called>>)
  BY <1>3, <1>t DEF ListInv
<1>4. CASE UNCHANGED irqHandlers /\ cpu'.pos = 0 /\ called' = {}
  <2>1. {t \in Slots : t < 0} = {}
    BY HandlersAssumption DEF Slots
  <2> QED
    BY <1>4, <2>1, <1>t DEF ListInv
<1>5. ASSUME NEW l \in Lines, Enter(l) \/ EnterSpurious(l)
      PROVE  UNCHANGED irqHandlers /\ cpu'.pos = 0 /\ called' = {}
  BY <1>5 DEF Enter, EnterSpurious
<1>6. ASSUME NEW l \in Lines, Raise(l) PROVE UNCHANGED <<irqHandlers, cpu, called>>
  BY <1>6 DEF Raise
<1>7. ASSUME NEW r \in Requests, SetHandlerUnmasks(r[1], r[2])
      PROVE  UNCHANGED <<irqHandlers, cpu, called>>
  BY <1>7 DEF SetHandlerUnmasks
<1>8. CASE Boot \/ Return \/ UNCHANGED vars
  BY <1>3, <1>8 DEF Boot, Return, vars
<1> QED
  BY <1>1, <1>2, <1>3, <1>4, <1>5, <1>6, <1>7, <1>8, HandlersAssumption
     DEF NextRegister, Registering, Interrupts, Deliver, Dispatch, Halted

(* Where the dispatcher's loop ends, no slot from there on is in use. *)
LEMMA LoopEnd ==
    ASSUME ListInv, cpu # Idle, ~MoreHandlers
    PROVE  \A s \in Slots : s >= cpu.pos => irqHandlers[cpu.irqno][s] = NULL
<1>1. cpu.irqno \in Lines /\ cpu.pos \in 0..MaxHandlers
  BY CpuFacts DEF ListInv
<1>2. CASE cpu.pos < MaxHandlers
  <2>1. cpu.pos \in Slots /\ irqHandlers[cpu.irqno][cpu.pos] = NULL
    BY <1>1, <1>2, SlotFacts DEF MoreHandlers
  <2> QED
    BY <1>1, <2>1, SlotFacts DEF ListInv
<1>3. CASE ~(cpu.pos < MaxHandlers)
  BY <1>1, <1>3, SlotFacts DEF Slots
<1> QED
  BY <1>2, <1>3

(* A kernel that only registers handlers has each of a line's handlers     *)
(* called on each of its interrupts.                                       *)
THEOREM EveryHandlerCalled == SpecRegister => []AllCalled
<1>1. Init => ListInv
  BY TypeInit DEF Init, ListInv
<1>2. ListInv => AllCalled
  <2> SUFFICES ASSUME ListInv, cpu # Idle, ~MoreHandlers
               PROVE  called = Registered(cpu.irqno)
    BY DEF AllCalled
  <2>1. called = HandlersBefore(cpu.irqno, cpu.pos)
    BY DEF ListInv, HandlersBefore
  <2>2. cpu.pos \in Nat
    BY CpuFacts, HandlersAssumption DEF ListInv
  <2>3. \A s \in Slots : s < cpu.pos \/ irqHandlers[cpu.irqno][s] = NULL
    <3>1. \A s \in Slots : s \in Nat
      BY SlotFacts
    <3> QED
      BY <2>2, <3>1, LoopEnd
  <2> QED
    BY <2>1, <2>3 DEF Registered, HandlersBefore
<1> QED
  BY <1>1, <1>2, ListStep, PTL DEF SpecRegister

-----------------------------------------------------------------------------
(* Bytes. *)

(* Once stored, a reader of a line stays where it is. *)
LEMMA ReadersStay ==
    ASSUME ListInv, ListInv', NEW l \in Lines, NEW pos \in Nat, ReaderFrom(l, pos),
           UNCHANGED irqHandlers \/ SetHandlerStores
    PROVE  ReaderFrom(l, pos)'
<1>1. PICK s \in Slots : s >= pos /\ <<irqHandlers[l][s], l>> \in Reads
  BY DEF ReaderFrom
<1>2. irqHandlers[l][s] # NULL
  BY <1>1, HandlersAssumption
<1>3. irqHandlers'[l][s] = irqHandlers[l][s]
  <2>1. CASE UNCHANGED irqHandlers
    BY <2>1
  <2>2. CASE SetHandlerStores
    <3>1. PICK len \in 0..MaxHandlers :
            /\ Len1(main.irqno, len)
            /\ \/ len < MaxHandlers
                  /\ irqHandlers' = [irqHandlers EXCEPT ![main.irqno][len] = main.h]
               \/ UNCHANGED irqHandlers
      BY <2>2 DEF SetHandlerStores
    <3>2. main.irqno \in Lines
      BY DEF ListInv, TypeInv
    <3>3. len < MaxHandlers => irqHandlers[main.irqno][len] = NULL
      BY <3>1 DEF Len1
    <3>4. irqHandlers \in [Lines -> [Slots -> Handlers \cup {NULL}]]
      BY DEF ListInv, TypeInv
    <3>5. CASE len < MaxHandlers /\ main.irqno = l /\ len = s
      BY <1>2, <3>3, <3>5
    <3>6. CASE UNCHANGED irqHandlers
      BY <3>6
    <3>7. CASE /\ irqHandlers' = [irqHandlers EXCEPT ![main.irqno][len] = main.h]
               /\ main.irqno # l \/ len # s
      BY <3>2, <3>4, <3>7
    <3> QED
      BY <3>1, <3>5, <3>6, <3>7
  <2> QED
    BY <2>1, <2>2
<1> QED
  BY <1>1, <1>3 DEF ReaderFrom

(* Registering, raising, taking and handling a request keep every byte     *)
(* that has a reader announced.                                            *)
LEMMA ByteStep == ByteInv /\ [NextRegister]_vars => ByteInv'
<1> SUFFICES ASSUME ByteInv, [NextRegister]_vars PROVE ByteInv'
  OBVIOUS
<1>t. ListInv /\ ListInv' /\ TypeInv /\ TypeInv'
  BY ListStep DEF ByteInv, ListInv
<1> DEFINE Announced(l) == l \in irr \/ (cpu # Idle /\ cpu.irqno = l /\ ReaderFrom(l, cpu.pos))
<1>a. \A l \in full \ early : l \in Lines /\ ReaderFrom(l, 0) /\ Announced(l)
  BY <1>t, HandlersAssumption DEF ByteInv, TypeInv
<1>i. \A l \in Lines : cpu = Idle /\ l \in full \ early => l \in irr
  BY <1>a
<1>1. CASE Boot
  <2>1. full' = {}
    BY <1>1 DEF Boot, ByteInv
  <2> QED
    BY <1>t, <2>1 DEF ByteInv
<1>2. CASE /\ cpu = Idle /\ cpu' = Idle /\ main'.at # "boot"
           /\ UNCHANGED <<irr, full, early>>
           /\ UNCHANGED irqHandlers \/ SetHandlerStores
  <2>1. ASSUME NEW l \in full' \ early'
        PROVE  ReaderFrom(l, 0)' /\ l \in irr'
    BY <1>2, <1>a, <1>t, <1>i, ReadersStay
  <2> QED
    BY <1>2, <1>t, <2>1 DEF ByteInv
<1>3. ASSUME NEW r \in Requests, SetHandlerUnmasks(r[1], r[2])
      PROVE  ByteInv'
  <2>1. main'.at # "boot" /\ cpu = Idle /\ UNCHANGED <<irqHandlers, cpu, full, early>>
    BY <1>3 DEF SetHandlerUnmasks, MainAt
  <2>2. UNCHANGED irr
    BY <1>3 DEF SetHandlerUnmasks, SetIRQMask, picVars
  <2> QED
    BY <2>1, <2>2, <1>2
<1>4. CASE SetHandlerStores
  <2>1. main'.at # "boot"
    BY <1>4 DEF SetHandlerStores, MainAt
  <2> QED
    BY <1>2, <1>4, <2>1 DEF SetHandlerStores, picVars
<1>5. ASSUME NEW k \in Raising, Raise(k)
      PROVE  ByteInv'
  <2>1. main'.at # "boot" /\ UNCHANGED <<irqHandlers, cpu>>
    BY <1>5 DEF Raise
  <2>2. ASSUME NEW l \in full' \ early', l \notin full \ early
        PROVE  ReaderFrom(l, 0)' /\ l \in irr'
    <3>1. l = k /\ l \in irr' /\ \E h \in Registered(l) : <<h, l>> \in Reads
      BY <1>5, <2>2 DEF Raise
    <3>2. ReaderFrom(l, 0)
      BY <3>1, SlotFacts DEF Registered, ReaderFrom
    <3> QED
      BY <2>1, <3>1, <3>2 DEF ReaderFrom
  <2>3. ASSUME NEW l \in full \ early
        PROVE  ReaderFrom(l, 0)' /\ Announced(l)'
    BY <1>5, <1>a, <2>1 DEF Raise, ReaderFrom
  <2> QED
    BY <1>t, <2>1, <2>2, <2>3 DEF ByteInv
<1>6. ASSUME NEW k \in Lines, Enter(k)
      PROVE  ByteInv'
  <2>1. /\ main'.at # "boot" /\ cpu = Idle
        /\ cpu' = [irqno |-> k, pos |-> 0] /\ irr' = irr \ {k}
        /\ UNCHANGED <<irqHandlers, full, early>>
    BY <1>6 DEF Enter, InterruptsOn, Acknowledge
  <2>2. cpu' # Idle /\ cpu'.irqno = k /\ cpu'.pos = 0
    BY <2>1, CpuEntered
  <2>3. ASSUME NEW l \in full' \ early'
        PROVE  ReaderFrom(l, 0)' /\ Announced(l)'
    <3>1. l \in irr /\ ReaderFrom(l, 0)
      BY <1>a, <1>i, <2>1, <2>3
    <3>2. ReaderFrom(l, 0)'
      BY <2>1, <3>1 DEF ReaderFrom
    <3>3. CASE l = k
      <4>1. ReaderFrom(l, cpu.pos)'
        BY <2>2, <3>2 DEF ReaderFrom
      <4> QED
        BY <2>2, <3>2, <3>3, <4>1
    <3>4. CASE l # k
      BY <2>1, <3>1, <3>2, <3>4
    <3> QED
      BY <3>3, <3>4
  <2> QED
    BY <1>t, <2>1, <2>3 DEF ByteInv
<1>7. ASSUME NEW k \in Lines, EnterSpurious(k)
      PROVE  ByteInv'
  <2>1. main'.at # "boot" /\ cpu = Idle /\ UNCHANGED <<irr, irqHandlers, full, early>>
    BY <1>7 DEF EnterSpurious, InterruptsOn, AcknowledgeSpurious
  <2>2. ASSUME NEW l \in full' \ early'
        PROVE  ReaderFrom(l, 0)' /\ l \in irr'
    BY <1>a, <1>i, <2>1 DEF ReaderFrom
  <2> QED
    BY <1>t, <2>1, <2>2 DEF ByteInv
<1>8. CASE CallHandler
  <2>1. cpu \in [irqno : Lines, pos : 0..MaxHandlers] /\ cpu # Idle /\ MoreHandlers
    BY <1>8, <1>t DEF CallHandler, TypeInv
  <2>2. /\ cpu'.irqno = cpu.irqno /\ cpu'.pos = cpu.pos + 1 /\ cpu.pos \in Nat
        /\ UNCHANGED <<irr, irqHandlers, main>>
    BY <1>8, <2>1, HandlersAssumption DEF CallHandler, picVars
  <2>3. cpu' # Idle
    BY <2>1, <2>2, LineFacts DEF Idle
  <2>4. /\ full' \ early' = full \ (early \cup
             IF <<irqHandlers[cpu.irqno][cpu.pos], cpu.irqno>> \in Reads THEN {cpu.irqno} ELSE {})
        /\ full' \subseteq full
    BY <1>8 DEF CallHandler
  <2>5. ASSUME NEW l \in full' \ early'
        PROVE  ReaderFrom(l, 0)' /\ Announced(l)'
    <3>1. l \in full \ early
      BY <2>4
    <3>2. ReaderFrom(l, 0)'
      BY <1>a, <2>2, <3>1 DEF ReaderFrom
    <3>3. CASE l \in irr
      BY <2>2, <3>2, <3>3
    <3>4. CASE cpu.irqno = l /\ ReaderFrom(l, cpu.pos)
      <4>1. PICK s \in Slots : s >= cpu.pos /\ <<irqHandlers[l][s], l>> \in Reads
        BY <3>4 DEF ReaderFrom
      <4>2. s # cpu.pos
        BY <2>4, <3>4, <4>1
      <4>3. s >= cpu.pos + 1
        BY <2>2, <4>1, <4>2, SlotFacts
      <4>4. ReaderFrom(l, cpu.pos)'
        BY <2>2, <4>1, <4>3 DEF ReaderFrom
      <4> QED
        BY <2>2, <2>3, <3>2, <3>4, <4>4
    <3> QED
      BY <1>a, <3>1, <3>3, <3>4
  <2>6. main'.at = "boot" => full' = {}
    BY <2>2, <2>4 DEF ByteInv
  <2> QED
    BY <1>t, <2>5, <2>6 DEF ByteInv
<1>9. CASE Return
  <2>1. UNCHANGED <<irr, irqHandlers, main, full, early>>
    BY <1>9 DEF Return, SendEOI
  <2>2. ASSUME NEW l \in full \ early
        PROVE  l \in irr
    <3>1. ~(cpu.irqno = l /\ ReaderFrom(l, cpu.pos))
      BY <1>9, <1>t, LoopEnd, HandlersAssumption DEF Return, ReaderFrom
    <3> QED
      BY <1>a, <3>1
  <2> QED
    BY <1>a, <1>t, <2>1, <2>2 DEF ByteInv, ReaderFrom
<1>10. CASE UNCHANGED vars
  BY <1>10, <1>t DEF vars, picVars, ByteInv, ReaderFrom
<1> QED
  BY <1>1, <1>3, <1>4, <1>5, <1>6, <1>7, <1>8, <1>9, <1>10, HandlersAssumption
     DEF NextRegister, Registering, Interrupts, Deliver, Dispatch, Halted

(* A byte that enters a latching device once its handler is stored is      *)
(* announced until a handler has read it: the device never stays silent    *)
(* with a byte nobody will fetch.                                          *)
THEOREM BytesAnnounced == SpecRegister => []NoLostInterrupt
<1>1. Init => ByteInv
  BY TypeInit DEF Init, ByteInv, ListInv
<1>2. ByteInv => NoLostInterrupt
  BY DEF ByteInv, NoLostInterrupt
<1> QED
  BY <1>1, <1>2, ByteStep, PTL DEF SpecRegister
=============================================================================
