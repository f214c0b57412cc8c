------------------------------ MODULE BootProofs ------------------------------
(***************************************************************************)
(* Proofs about kernel_main, the CPU's exceptions and the drivers that run *)
(* while it boots, for every machine, every firmware and every sequence of *)
(* exceptions and interrupts.                                              *)
(***************************************************************************)
EXTENDS Boot, DriverProofs

(* The contexts of the CPU. *)
Contexts == [v : Int, ifl : BOOLEAN, halted : BOOLEAN]

(* What kernel_main has set up when it is about to take a step; interrupts *)
(* are off, in the running context and in every one it returns to, until   *)
(* the last of it is there.                                                *)
SetUp ==
    /\ step > 2 => idtr
    /\ step > 3 => remapped
    /\ step > 4 => FaultGates \subseteq gates
    /\ step > 5 => IrqGates \subseteq gates
    /\ step =< 6 => ~ifl /\ \A k \in DOMAIN stack : ~stack[k].ifl

(* The main thread, or what is left of a CPU that was reset, at the bottom *)
(* and nothing but handlers above.                                         *)
StackInv ==
    /\ stack[1].v \in {MAIN, Reset}
    /\ \A k \in DOMAIN stack : k > 1 => stack[k].v \in 0..47
    /\ step > 4 => stack[1].v # Reset

(* A context that has halted has turned interrupts off, and what comes     *)
(* after it are exceptions, none of which ever returns to it.              *)
HaltInv ==
    /\ woken = FALSE
    /\ \A j, k \in DOMAIN stack : j < k /\ stack[j].halted => stack[k].v \in 0..31
    /\ \A k \in DOMAIN stack : stack[k].halted => ~ifl

CpuInv ==
    /\ step \in DOMAIN Main
    /\ stack \in Seq(Contexts) /\ Len(stack) > 0
    /\ ifl \in BOOLEAN
    /\ SetUp /\ StackInv /\ HaltInv

(* What HaltIsFinal says of a step. *)
HaltKept ==
    \A k \in DOMAIN stack : stack[k].halted =>
        \/ Last(stack').v = Reset
        \/ k \in DOMAIN stack' /\ stack'[k] = stack[k]

(* SMBIOS::Detect has found no entry point before its paragraph. *)
DetectInv ==
    /\ fw \in Firmware
    /\ para \in Nat \ {0}
    /\ at = "detect" => para =< Len(fw.rom) + 1
    /\ at \in {"detect", "absent"} =>
          \A k \in DOMAIN fw.rom : k < para => fw.rom[k] # "entry"
    /\ at = "absent" => para > Len(fw.rom)
    /\ at \notin {"detect", "absent"} =>
          /\ para \in DOMAIN fw.rom /\ fw.rom[para] = "entry"
          /\ \A k \in DOMAIN fw.rom : k < para => fw.rom[k] # "entry"

(* Left to itself, the CPU enters a gate only for the driver's page fault. *)
AloneInv ==
    /\ events \in Nat
    /\ events = 0 /\ Len(stack) > 1 => at = "fault" /\ Main[step] = "smbios"

(* kernel_main has the length of the loader's map. *)
MapInv ==
    /\ step \in DOMAIN Main
    /\ entries.there \in Nat \ {0}
    /\ entries = [there |-> entries.there,
                  counted |-> IF step > 7 THEN Entcount(entries.there) ELSE 0]

-----------------------------------------------------------------------------
(* The order of the calls in kernel_main. *)
LEMMA MainSteps ==
    /\ DOMAIN Main = 1..13
    /\ Main[1] = "magic" /\ Main[2] = "idt" /\ Main[3] = "pic" /\ Main[4] = "faults"
    /\ Main[5] = "irqs" /\ Main[6] = "sti" /\ Main[7] = "map" /\ Main[8] = "memory"
    /\ Main[9] = "pit" /\ Main[10] = "smbios" /\ Main[11] = "pcibus" /\ Main[12] = "ps2"
    /\ Main[13] = "loaded"
BY DEF Main

(* The place of each call. *)
LEMMA MainPlaces ==
    ASSUME NEW k \in DOMAIN Main
    PROVE  /\ k \in 1..13
           /\ Main[k] = "magic" => k = 1
           /\ Main[k] = "idt" => k = 2
           /\ Main[k] = "pic" => k = 3
           /\ Main[k] = "faults" => k = 4
           /\ Main[k] = "irqs" => k = 5
           /\ Main[k] = "sti" => k = 6
           /\ Main[k] = "map" => k = 7
           /\ Main[k] = "memory" => k = 8
           /\ Main[k] = "pit" => k = 9
           /\ Main[k] = "smbios" => k = 10
           /\ Main[k] = "pcibus" => k = 11
           /\ Main[k] = "ps2" => k = 12
           /\ Main[k] = "loaded" => k = 13
<1>1. k \in 1..13
  BY MainSteps
<1>2. \/ k = 1 \/ k = 2 \/ k = 3 \/ k = 4 \/ k = 5 \/ k = 6 \/ k = 7 \/ k = 8
      \/ k = 9 \/ k = 10 \/ k = 11 \/ k = 12 \/ k = 13
  BY <1>1
<1> QED
  BY <1>1, <1>2, MainSteps

-----------------------------------------------------------------------------
(* The CPU. *)

(* Entering a gate once the exceptions have theirs puts a context on the   *)
(* stack, of the vector itself or of one of the two exceptions that stand  *)
(* in for it.                                                              *)
LEMMA EnterGate ==
    ASSUME CpuInv, NEW v \in 0..47, Enter(v)
    PROVE  \/ \E w \in {v, GPF, DoubleFault} :
                 /\ stack' = Append(stack, [v |-> w, ifl |-> ifl, halted |-> FALSE])
                 /\ ifl' \in BOOLEAN /\ (ifl' => ifl) /\ woken' = FALSE
           \/ /\ step =< 4
              /\ stack' = <<[v |-> Reset, ifl |-> FALSE, halted |-> TRUE]>>
              /\ ~ifl' /\ ifl' \in BOOLEAN /\ woken' = FALSE
<1> DEFINE w == IF HasGate(v) THEN v ELSE IF HasGate(GPF) THEN GPF ELSE DoubleFault
<1>1. CASE HasGate(w)
  BY <1>1 DEF Enter, CpuInv
<1>2. CASE ~HasGate(w)
  <2>1. ~HasGate(GPF)
    BY <1>2
  <2>2. step =< 4
    <3>1. step \in 1..13
      BY MainSteps DEF CpuInv
    <3>2. ASSUME step > 4 PROVE HasGate(GPF)
      BY <3>1, <3>2 DEF CpuInv, SetUp, HasGate, GPF, FaultGates
    <3> QED
      BY <2>1, <3>1, <3>2
  <2> QED
    BY <1>2, <2>2 DEF Enter
<1> QED
  BY <1>1, <1>2

(* The flag and the vectors above a context that enters a gate: if one has *)
(* halted below, interrupts are off and the vector is an exception's.      *)
LEMMA EnterInv ==
    ASSUME CpuInv, NEW v \in 0..47, v \in 0..31 \/ ifl, ~WasReset, Enter(v),
           UNCHANGED <<gates, idtr, remapped, step>>
    PROVE  CpuInv' /\ HaltKept
<1>0. stack \in Seq(Contexts) /\ Len(stack) \in Nat \ {0} /\ DOMAIN stack = 1..Len(stack)
      /\ step \in 1..13 /\ step' \in DOMAIN Main /\ ifl \in BOOLEAN
  BY MainSteps DEF CpuInv
<1>1. ASSUME NEW w \in {v, GPF, DoubleFault},
             stack' = Append(stack, [v |-> w, ifl |-> ifl, halted |-> FALSE]),
             ifl' \in BOOLEAN, ifl' => ifl, woken' = FALSE
      PROVE  CpuInv' /\ HaltKept
  <2> DEFINE c == [v |-> w, ifl |-> ifl, halted |-> FALSE]
             n == Len(stack)
  <2>1. w \in 0..47 /\ w \in Int /\ (w \in 0..31 \/ ifl)
    BY DEF GPF, DoubleFault
  <2>2. c \in Contexts /\ c.v = w /\ c.ifl = ifl /\ c.halted = FALSE
    BY <1>0, <2>1 DEF Contexts
  <2>3. /\ stack' \in Seq(Contexts) /\ Len(stack') = n + 1
        /\ \A k \in 1..n : stack'[k] = stack[k]
        /\ stack'[n + 1] = c
    BY <1>0, <1>1, <2>2, AppendProperties
  <2>4. DOMAIN stack' = 1..(n + 1)
    BY <1>0, <2>3
  <2> HIDE DEF c
  <2>5. \A k \in DOMAIN stack' : k \in 1..n \/ k = n + 1
    BY <1>0, <2>4
  <2>6. SetUp'
    BY <1>0, <1>1, <2>2, <2>3, <2>5 DEF CpuInv, SetUp
  <2>7. StackInv'
    <3>1. 1 \in 1..n
      BY <1>0
    <3> QED
      BY <1>0, <2>1, <2>2, <2>3, <2>5, <3>1 DEF CpuInv, StackInv
  <2>8. HaltInv'
    <3>1. \A k \in DOMAIN stack' : stack'[k].halted => k \in 1..n /\ stack[k].halted /\ ~ifl'
      BY <1>0, <1>1, <2>2, <2>3, <2>5 DEF CpuInv, HaltInv
    <3>2. \A k \in 1..n : stack[k].halted => w \in 0..31
      BY <1>0, <2>1 DEF CpuInv, HaltInv
    <3>3. ASSUME NEW j \in DOMAIN stack', NEW k \in DOMAIN stack', j < k, stack'[j].halted
          PROVE  stack'[k].v \in 0..31
      <4>1. j \in 1..n /\ stack[j].halted
        BY <3>1, <3>3
      <4>2. CASE k \in 1..n
        BY <1>0, <2>3, <3>3, <4>1, <4>2 DEF CpuInv, HaltInv
      <4>3. CASE k = n + 1
        BY <2>2, <2>3, <3>2, <4>1, <4>3
      <4> QED
        BY <2>5, <4>2, <4>3
    <3> QED
      BY <1>1, <3>1, <3>3 DEF HaltInv
  <2>9. Len(stack') > 0
    BY <1>0, <2>3
  <2>10. HaltKept
    <3>1. \A k \in 1..n : k \in 1..(n + 1)
      BY <1>0
    <3> QED
      BY <1>0, <2>3, <2>4, <3>1 DEF HaltKept
  <2> QED
    BY <1>0, <1>1, <2>3, <2>6, <2>7, <2>8, <2>9, <2>10 DEF CpuInv
<1>2. ASSUME step =< 4, stack' = <<[v |-> Reset, ifl |-> FALSE, halted |-> TRUE]>>,
             ~ifl', ifl' \in BOOLEAN, woken' = FALSE
      PROVE  CpuInv' /\ HaltKept
  <2>1. /\ stack' \in Seq(Contexts) /\ Len(stack') = 1 /\ DOMAIN stack' = {1}
        /\ stack'[1].v = Reset /\ stack'[1].ifl = FALSE /\ stack'[1].halted = TRUE
    BY <1>2 DEF Contexts, Reset
  <2>2. SetUp'
    BY <1>0, <1>2, <2>1 DEF CpuInv, SetUp
  <2>3. StackInv' /\ HaltInv'
    BY <1>0, <1>2, <2>1 DEF StackInv, HaltInv
  <2>4. Len(stack') > 0 /\ HaltKept
    BY <2>1 DEF HaltKept, Last
  <2> QED
    BY <1>0, <1>2, <2>1, <2>2, <2>3, <2>4 DEF CpuInv
<1> QED
  BY <1>1, <1>2, EnterGate

(* The top of the stack, and who can be on it. *)
LEMMA TopFacts ==
    ASSUME CpuInv
    PROVE  /\ Len(stack) \in Nat \ {0} /\ DOMAIN stack = 1..Len(stack)
           /\ Top = stack[Len(stack)] /\ Top \in Contexts
           /\ Top.v \in 0..47 <=> Len(stack) > 1
           /\ Runs => ~Top.halted /\ ~WasReset
<1>1. Len(stack) \in Nat \ {0} /\ DOMAIN stack = 1..Len(stack) /\ stack \in Seq(Contexts)
  BY DEF CpuInv
<1>2. Top = stack[Len(stack)] /\ Top \in Contexts
  BY <1>1 DEF Top, Last
<1>n. Len(stack) \in DOMAIN stack /\ (Len(stack) > 1 \/ Len(stack) = 1)
  BY <1>1
<1>3. Len(stack) > 1 => Top.v \in 0..47
  BY <1>2, <1>n DEF CpuInv, StackInv
<1>4. Len(stack) = 1 => Top.v \notin 0..47
  <2>1. \A x \in {MAIN, Reset} : x \notin 0..47
    BY DEF MAIN, Reset
  <2> QED
    BY <1>2, <2>1 DEF CpuInv, StackInv
<1>5. Runs => ~Top.halted /\ ~WasReset
  BY DEF Runs, CpuInv, HaltInv
<1> QED
  BY <1>1, <1>2, <1>n, <1>3, <1>4, <1>5

(* cli; hlt keeps the contexts. *)
LEMMA HaltKeeps ==
    ASSUME CpuInv, ~Top.halted, Halt, UNCHANGED step
    PROVE  CpuInv' /\ HaltKept
<1> DEFINE n == Len(stack)
<1>0. /\ n \in Nat \ {0} /\ DOMAIN stack = 1..n /\ stack \in Seq(Contexts)
      /\ step \in 1..13 /\ step \in DOMAIN Main
  BY TopFacts, MainSteps DEF CpuInv
<1>1. stack' = [stack EXCEPT ![n].halted = TRUE] /\ ~ifl' /\ ifl' \in BOOLEAN
      /\ woken' = FALSE /\ UNCHANGED <<gates, idtr, remapped>>
  BY DEF Halt
<1>2. stack[n] \in Contexts /\ [stack[n] EXCEPT !.halted = TRUE] \in Contexts
  <2>1. n \in 1..n
    BY <1>0
  <2>2. stack[n] \in Contexts
    BY <1>0, <2>1, ElementOfSeq
  <2> QED
    BY <2>2 DEF Contexts
<1>3. stack' = [stack EXCEPT ![n] = [stack[n] EXCEPT !.halted = TRUE]]
  BY <1>1
<1>4. /\ stack' \in Seq(Contexts) /\ Len(stack') = n
      /\ \A k \in 1..n : stack'[k] = IF k = n THEN [stack[n] EXCEPT !.halted = TRUE] ELSE stack[k]
  BY <1>0, <1>2, <1>3, ExceptSeq
<1>5. DOMAIN stack' = 1..n
  BY <1>0, <1>4
<1>6. \A k \in 1..n : stack'[k].v = stack[k].v /\ stack'[k].ifl = stack[k].ifl
                      /\ (k # n => stack'[k].halted = stack[k].halted)
  BY <1>0, <1>2, <1>4 DEF Contexts
<1>7. SetUp'
  BY <1>0, <1>1, <1>5, <1>6 DEF CpuInv, SetUp
<1>8. StackInv'
  <2>1. 1 \in 1..n
    BY <1>0
  <2> QED
    BY <1>0, <1>5, <1>6, <2>1 DEF CpuInv, StackInv
<1>9. HaltInv'
  <2>1. \A j, k \in 1..n : j < k /\ stack'[j].halted => stack'[k].v \in 0..31
    <3>1. \A m \in Nat : \A j, k \in 1..m : j < k => j # m
      OBVIOUS
    <3> QED
      BY <1>0, <1>6, <3>1 DEF CpuInv, HaltInv
  <2> QED
    BY <1>1, <1>5, <2>1 DEF HaltInv
<1>10. HaltKept
  <2>1. ~stack[n].halted
    BY TopFacts
  <2> QED
    BY <1>0, <1>4, <1>5, <2>1 DEF HaltKept
<1>11. Len(stack') > 0 /\ step' \in DOMAIN Main
  BY <1>0, <1>4
<1> QED
  BY <1>1, <1>4, <1>7, <1>8, <1>9, <1>10, <1>11 DEF CpuInv

(* The return from an interrupt: below its context nobody has halted. *)
LEMMA IretKeeps ==
    ASSUME CpuInv, Runs, Top.v \in IrqGates, Iret, UNCHANGED step
    PROVE  CpuInv' /\ HaltKept
<1> DEFINE n == Len(stack)
<1>0. /\ n \in Nat \ {0} /\ DOMAIN stack = 1..n /\ stack \in Seq(Contexts)
      /\ step \in 1..13 /\ step \in DOMAIN Main /\ n > 1 /\ Top = stack[n]
      /\ ~Top.halted /\ Top \in Contexts
  BY TopFacts, MainSteps DEF CpuInv, IrqGates
<1>1. \A k \in 1..n : ~stack[k].halted
  <2>1. stack[n].v \notin 0..31
    <3>1. \A x \in 32..47 : x \notin 0..31
      OBVIOUS
    <3> QED
      BY <1>0, <3>1 DEF IrqGates
  <2>2. n \in 1..n /\ \A k \in 1..n : k < n \/ k = n
    <3>1. \A m \in Nat \ {0} : m \in 1..m /\ \A k \in 1..m : k < m \/ k = m
      OBVIOUS
    <3> QED
      BY <1>0, <3>1
  <2> QED
    BY <1>0, <2>1, <2>2 DEF CpuInv, HaltInv
<1>2. /\ stack' \in Seq(Contexts) /\ Len(stack') = n - 1
      /\ \A k \in 1..(n - 1) : stack'[k] = stack[k]
  <2>1. \A k \in 1..(n - 1) : stack[k] \in Contexts
    BY <1>0
  <2>2. stack' = SubSeq(stack, 1, n - 1) /\ n - 1 \in Int
    BY <1>0 DEF Iret, Front
  <2>3. /\ SubSeq(stack, 1, n - 1) \in Seq(Contexts)
        /\ Len(SubSeq(stack, 1, n - 1)) = n - 1
        /\ \A k \in 1..(n - 1) : SubSeq(stack, 1, n - 1)[k] = stack[k]
    BY <1>0, <2>1
  <2> QED
    BY <2>2, <2>3
<1>3. DOMAIN stack' = 1..(n - 1)
  BY <1>0, <1>2
<1>4. ifl' = Top.ifl /\ ifl' \in BOOLEAN /\ UNCHANGED <<gates, idtr, remapped>>
  BY <1>0 DEF Iret, Contexts
<1>5. woken' = FALSE
  <2>1. woken' = stack'[n - 1].halted
    BY <1>2 DEF Iret, Last
  <2>2. stack'[n - 1] = stack[n - 1] /\ stack[n - 1] \in Contexts
    BY <1>0, <1>2
  <2> QED
    BY <1>0, <1>1, <2>1, <2>2 DEF Contexts
<1>n. n \in 1..n /\ \A k \in 1..(n - 1) : k \in 1..n
  BY <1>0
<1>6. SetUp'
  BY <1>0, <1>2, <1>3, <1>4, <1>n DEF CpuInv, SetUp
<1>7. StackInv'
  <2>1. 1 \in 1..(n - 1) /\ \A k \in 1..(n - 1) : k \in 1..n
    BY <1>0
  <2> QED
    BY <1>0, <1>2, <1>3, <2>1 DEF CpuInv, StackInv
<1>8. HaltInv'
  BY <1>0, <1>1, <1>2, <1>3, <1>5, <1>n DEF HaltInv
<1>9. Len(stack') > 0 /\ step' \in DOMAIN Main
  BY <1>0, <1>2
<1>10. HaltKept
  BY <1>0, <1>1 DEF HaltKept
<1> QED
  BY <1>2, <1>4, <1>6, <1>7, <1>8, <1>9, <1>10 DEF CpuInv

-----------------------------------------------------------------------------
(* kernel_main. *)

(* When kernel_main runs, it is alone on the stack and has not halted. *)
LEMMA MainAlone ==
    ASSUME CpuInv, NEW name, At(name)
    PROVE  /\ Len(stack) = 1 /\ DOMAIN stack = {1}
           /\ stack[1].v # Reset /\ ~stack[1].halted
           /\ Main[step] = name /\ step \in DOMAIN Main /\ step \in 1..13
<1>1. Len(stack) = 1 /\ Runs /\ Main[step] = name
  BY DEF At
<1>2. DOMAIN stack = 1..1 /\ Top = stack[1] /\ ~Top.halted /\ ~WasReset
  BY <1>1, TopFacts
<1>3. step \in DOMAIN Main /\ step \in 1..13
  BY MainSteps DEF CpuInv
<1>4. 1..1 = {1}
  OBVIOUS
<1> QED
  BY <1>1, <1>2, <1>3, <1>4 DEF WasReset

(* A step of kernel_main that leaves the CPU alone. *)
LEMMA LaterStep ==
    ASSUME CpuInv, NEW name, At(name), UNCHANGED cpuVars,
           \/ step' = step
           \/ step' = step + 1 /\ (step = 1 \/ step > 6) /\ step < 13
    PROVE  CpuInv'
<1>1. /\ DOMAIN stack = {1} /\ stack[1].v # Reset /\ step \in 1..13
      /\ UNCHANGED <<gates, idtr, remapped, ifl, stack, woken>>
  BY MainAlone DEF cpuVars
<1>2. step' \in DOMAIN Main
  BY <1>1, MainSteps
<1>3. SetUp'
  BY <1>1 DEF CpuInv, SetUp
<1>4. StackInv' /\ HaltInv'
  BY <1>1 DEF CpuInv, StackInv, HaltInv
<1> QED
  BY <1>1, <1>2, <1>3, <1>4 DEF CpuInv

(* A step of kernel_main that sets up the CPU, in its place. *)
LEMMA SetUpStep ==
    ASSUME CpuInv,
           \/ IdtRegister \/ PicInitialize \/ FaultHandlerInit \/ IRQHandlerInit \/ Sti
    PROVE  CpuInv' /\ UNCHANGED stack
<1>0. /\ stack \in Seq(Contexts) /\ Len(stack) > 0 /\ ifl \in BOOLEAN /\ step \in 1..13
      /\ step \in DOMAIN Main
  BY MainSteps DEF CpuInv
<1>1. CASE IdtRegister
  <2>1. step = 2 /\ step' = 3 /\ idtr' /\ UNCHANGED <<gates, remapped, ifl, stack, woken>>
    BY <1>0, <1>1, MainPlaces DEF IdtRegister, At, Done
  <2> QED
    BY <1>0, <2>1, MainSteps DEF CpuInv, SetUp, StackInv, HaltInv
<1>2. CASE PicInitialize
  <2>1. step = 3 /\ step' = 4 /\ remapped' /\ UNCHANGED <<gates, idtr, ifl, stack, woken>>
    BY <1>0, <1>2, MainPlaces DEF PicInitialize, At, Done
  <2> QED
    BY <1>0, <2>1, MainSteps DEF CpuInv, SetUp, StackInv, HaltInv
<1>3. CASE FaultHandlerInit
  <2>1. step = 4 /\ step' = 5 /\ gates' = gates \cup FaultGates
        /\ UNCHANGED <<idtr, remapped, ifl, stack, woken>>
    BY <1>0, <1>3, MainPlaces DEF FaultHandlerInit, At, Done
  <2>2. stack[1].v # Reset
    BY <1>3, MainAlone DEF FaultHandlerInit
  <2> QED
    BY <1>0, <2>1, <2>2, MainSteps DEF CpuInv, SetUp, StackInv, HaltInv
<1>4. CASE IRQHandlerInit
  <2>1. step = 5 /\ step' = 6 /\ gates' = gates \cup IrqGates
        /\ UNCHANGED <<idtr, remapped, ifl, stack, woken>>
    BY <1>0, <1>4, MainPlaces DEF IRQHandlerInit, At, Done
  <2> QED
    BY <1>0, <2>1, MainSteps DEF CpuInv, SetUp, StackInv, HaltInv
<1>5. CASE Sti
  <2>1. step = 6 /\ step' = 7 /\ ifl' = TRUE /\ UNCHANGED <<gates, idtr, remapped, stack, woken>>
    BY <1>0, <1>5, MainPlaces DEF Sti, At, Done
  <2>2. DOMAIN stack = {1} /\ ~stack[1].halted
    BY <1>5, MainAlone DEF Sti
  <2> QED
    BY <1>0, <2>1, <2>2, MainSteps DEF CpuInv, SetUp, StackInv, HaltInv
<1> QED
  BY <1>1, <1>2, <1>3, <1>4, <1>5

(* Every step of the system keeps the CPU's invariant and what has halted. *)
LEMMA CpuStep ==
    ASSUME CpuInv, [Next]_vars
    PROVE  CpuInv' /\ (UNCHANGED stack \/ HaltKept)
<1>0. step \in DOMAIN Main /\ step \in 1..13
  BY MainSteps DEF CpuInv
<1>1. CASE IdtRegister \/ PicInitialize \/ FaultHandlerInit \/ IRQHandlerInit \/ Sti
  BY <1>1, SetUpStep
<1>2. CASE ReadMap
  <2>1. At("map") /\ UNCHANGED cpuVars /\ step' = step + 1
    BY <1>2 DEF ReadMap, Done
  <2>2. step = 7
    BY <1>0, <2>1, MainPlaces DEF At
  <2> QED
    BY <2>1, <2>2, LaterStep DEF cpuVars
<1>3. CASE Start
  <2>1. PICK name \in {"magic", "memory", "pit", "ps2"} :
          At(name) /\ UNCHANGED cpuVars /\ step' = step + 1
    BY <1>3 DEF Start, Done
  <2>2. step \in {1, 8, 9, 12}
    BY <1>0, <2>1, MainPlaces DEF At
  <2> QED
    BY <2>1, <2>2, LaterStep DEF cpuVars
<1>4. CASE Panic
  <2>1. ~Top.halted /\ Halt /\ UNCHANGED step
    BY <1>4 DEF Panic, bootVars
  <2> QED
    BY <2>1, HaltKeeps
<1>5. CASE SMBIOSStep
  <2>1. At("smbios") /\ UNCHANGED cpuVars /\ step' = step
    BY <1>5 DEF SMBIOSStep, bootVars
  <2> QED
    BY <2>1, LaterStep DEF cpuVars
<1>6. CASE SMBIOSFaults
  <2>1. At("smbios") /\ Enter(14) /\ UNCHANGED <<gates, idtr, remapped, step>>
    BY <1>6 DEF SMBIOSFaults, bootVars
  <2>2. ~WasReset
    BY <2>1 DEF At, Runs
  <2>3. 14 \in 0..47 /\ 14 \in 0..31
    OBVIOUS
  <2> QED
    BY <2>1, <2>2, <2>3, EnterInv
<1>7. CASE SMBIOSDone
  <2>1. At("smbios") /\ UNCHANGED cpuVars /\ step' = step + 1
    BY <1>7 DEF SMBIOSDone, Done
  <2>2. step = 10
    BY <1>0, <2>1, MainPlaces DEF At
  <2> QED
    BY <2>1, <2>2, LaterStep DEF cpuVars
<1>8. CASE PCIStep
  <2>1. At("pcibus") /\ UNCHANGED cpuVars /\ step' = step
    BY <1>8 DEF PCIStep, bootVars
  <2> QED
    BY <2>1, LaterStep DEF cpuVars
<1>9. CASE PCIDone
  <2>1. At("pcibus") /\ UNCHANGED cpuVars /\ step' = step + 1
    BY <1>9 DEF PCIDone, Done
  <2>2. step = 11
    BY <1>0, <2>1, MainPlaces DEF At
  <2> QED
    BY <2>1, <2>2, LaterStep DEF cpuVars
<1>10. CASE Dispatch
  <2>1. UNCHANGED step /\ (FaultDispatcher \/ IrqReturns)
    BY <1>10 DEF Dispatch, bootVars
  <2>2. CASE FaultDispatcher
    <3>1. ~Top.halted /\ Halt
      BY <2>2, TopFacts DEF FaultDispatcher
    <3> QED
      BY <2>1, <3>1, HaltKeeps
  <2>3. CASE IrqReturns
    BY <2>1, <2>3, IretKeeps DEF IrqReturns
  <2> QED
    BY <2>1, <2>2, <2>3
<1>11. CASE Events
  <2>1. UNCHANGED step
    BY <1>11 DEF Events, bootVars
  <2>2. ASSUME NEW v \in FaultVectors, Fault(v)
        PROVE  CpuInv' /\ HaltKept
    <3>1. v \in 0..31 /\ v \in 0..47
      BY FaultAssumption
    <3> QED
      BY <2>1, <2>2, <3>1, EnterInv DEF Fault, Runs
  <2>3. CASE NonMaskable
    <3>1. NMI \in 0..31 /\ NMI \in 0..47
      BY DEF NMI
    <3> QED
      BY <2>1, <2>3, <3>1, EnterInv DEF NonMaskable
  <2>4. ASSUME NEW l \in IrqLines, Irq(l)
        PROVE  CpuInv' /\ HaltKept
    <3>1. l \in 0..15
      BY FaultAssumption
    <3>2. (IF remapped THEN 32 ELSE 8) + l \in 0..47
      BY <3>1
    <3>3. PICK v \in 0..47 : v = (IF remapped THEN 32 ELSE 8) + l
      BY <3>2
    <3>4. ifl /\ ~WasReset /\ Enter(v) /\ UNCHANGED <<gates, idtr, remapped>>
      BY <2>4, <3>3 DEF Irq
    <3> QED
      BY <2>1, <3>4, EnterInv
  <2> QED
    BY <1>11, <2>2, <2>3, <2>4 DEF Events
<1>12. ASSUME NEW c \in Classes, Driver(c)
       PROVE  CpuInv' /\ UNCHANGED stack
  <2>1. At("loaded") /\ UNCHANGED cpuVars /\ step' = step
    BY <1>12 DEF Driver, bootVars
  <2> QED
    BY <2>1, LaterStep DEF cpuVars
<1>13. CASE UNCHANGED vars
  BY <1>13 DEF vars, cpuVars, bootVars, CpuInv, SetUp, StackInv, HaltInv
<1> QED
  BY <1>1, <1>2, <1>3, <1>4, <1>5, <1>6, <1>7, <1>8, <1>9, <1>10, <1>11, <1>12, <1>13
     DEF Next, KernelMain

(* The CPU's invariant holds when the boot loader starts the kernel. *)
LEMMA CpuStart ==
    ASSUME Init
    PROVE  CpuInv
<1>1. /\ stack = <<[v |-> MAIN, ifl |-> FALSE, halted |-> FALSE]>>
      /\ ifl = FALSE /\ woken = FALSE /\ step = 1
  BY DEF Init, FaultInit
<1>2. /\ stack \in Seq(Contexts) /\ Len(stack) = 1 /\ DOMAIN stack = {1}
      /\ stack[1].v = MAIN /\ stack[1].ifl = FALSE /\ stack[1].halted = FALSE
  BY <1>1 DEF Contexts, MAIN
<1>3. step \in DOMAIN Main
  BY <1>1, MainSteps
<1>4. MAIN # Reset
  BY DEF MAIN, Reset
<1>5. SetUp
  BY <1>1, <1>2 DEF SetUp
<1>6. StackInv
  BY <1>1, <1>2, <1>4 DEF StackInv
<1>7. HaltInv
  BY <1>1, <1>2 DEF HaltInv
<1>8. Len(stack) > 0
  BY <1>2
<1>9. ifl \in BOOLEAN
  BY <1>1
<1> QED
  BY <1>2, <1>3, <1>5, <1>6, <1>7, <1>8, <1>9 DEF CpuInv

(* The CPU's invariant holds in every behaviour. *)
LEMMA CpuAlways == Spec => []CpuInv
<1>1. Init => CpuInv
  BY CpuStart
<1>2. CpuInv /\ [Next]_vars => CpuInv'
  BY CpuStep
<1> QED
  BY <1>1, <1>2, PTL DEF Spec

(* While the interrupt flag is set every gate of an interrupt is in place  *)
(* and the 8259s send the kernel's vectors, whatever interrupts, exceptions*)
(* and returns from them came before.                                      *)
THEOREM InterruptsHaveGates == Spec => []GatesBeforeInterrupts
<1>1. CpuInv => GatesBeforeInterrupts
  <2>1. CpuInv => step \in 1..13
    BY MainSteps DEF CpuInv
  <2> QED
    BY <2>1 DEF CpuInv, SetUp, GatesBeforeInterrupts
<1> QED
  BY <1>1, CpuAlways, PTL

(* Once FaultHandler::Init has run, no exception resets the CPU. *)
THEOREM NeverReset == Spec => []NoReset
<1>1. CpuInv => NoReset
  <2> SUFFICES ASSUME CpuInv, step > 4 PROVE Top.v # Reset
    BY DEF NoReset, WasReset
  <2>1. Top = stack[Len(stack)] /\ (Top.v \in 0..47 <=> Len(stack) > 1)
        /\ Len(stack) \in Nat \ {0}
    BY TopFacts
  <2>2. CASE Len(stack) = 1
    BY <2>1, <2>2 DEF CpuInv, StackInv
  <2>3. CASE Len(stack) > 1
    <3>1. Reset \notin 0..47
      BY DEF Reset
    <3> QED
      BY <2>1, <2>3, <3>1
  <2>4. Len(stack) = 1 \/ Len(stack) > 1
    <3>1. \A m \in Nat \ {0} : m = 1 \/ m > 1
      OBVIOUS
    <3> QED
      BY <2>1, <3>1
  <2> QED
    BY <2>2, <2>3, <2>4
<1> QED
  BY <1>1, CpuAlways, PTL

(* A context that has halted is never left and never gone on with. *)
THEOREM HaltsForGood == Spec => HaltIsFinal
<1>1. CpuInv /\ [Next]_vars => [HaltKept]_stack
  BY CpuStep
<1>2. Spec => []CpuInv
  BY CpuAlways
<1>3. Spec => [][HaltKept]_stack
  BY <1>1, <1>2, PTL DEF Spec
<1> QED
  BY <1>3 DEF HaltIsFinal, HaltKept

-----------------------------------------------------------------------------
(* The loader's map. *)

(* The number of entries GetMemoryMap works out: the length of a map of n  *)
(* entries lacks one size field, and is divided by the size of an entry    *)
(* without its size field.                                                 *)
LEMMA EntriesCounted ==
    ASSUME NEW n \in Nat \ {0}
    PROVE  /\ Entcount(n) >= n
           /\ n * 4 < EntrySize + 4 => Entcount(n) = n
<1> DEFINE E == EntrySize
           b == n * (E + 4) - 4
<1>1. E \in Nat \ {0}
  BY BootAssumption
<1>2. /\ n * E \in Nat /\ n * (E + 4) = n * E + n * 4 /\ (n + 1) * E = n * E + E
      /\ n * E = E * n /\ (n + 1) * E = E * (n + 1)
  BY <1>1
<1>3. b \in Nat /\ b >= E * n
  BY <1>1, <1>2
<1>4. /\ b \div E \in Nat /\ E * (b \div E) =< b /\ b < E * (b \div E) + E
  BY <1>1, <1>3
<1> QED
  BY <1>1, <1>2, <1>3, <1>4 DEF Entcount

(* The loader's map is counted in its step and never touched again. *)
LEMMA MapStep ==
    ASSUME MapInv, [Next]_vars
    PROVE  MapInv'
<1>0. step \in DOMAIN Main /\ step \in 1..13 /\ entries.there \in Nat \ {0}
      /\ entries = [there |-> entries.there,
                    counted |-> IF step > 7 THEN Entcount(entries.there) ELSE 0]
  BY MainSteps DEF MapInv
<1>1. CASE ReadMap
  <2>1. At("map") /\ step' = step + 1
        /\ entries' = [entries EXCEPT !.counted = Entcount(entries.there)]
    BY <1>1 DEF ReadMap, Done
  <2>2. step = 7 /\ step' = 8 /\ step' \in DOMAIN Main
    BY <1>0, <2>1, MainPlaces, MainSteps DEF At
  <2>3. entries' = [there |-> entries.there, counted |-> Entcount(entries.there)]
    BY <1>0, <2>1
  <2>4. entries'.there = entries.there
    BY <2>3
  <2> QED
    BY <1>0, <2>2, <2>3, <2>4 DEF MapInv
<1>2. ASSUME UNCHANGED entries, \/ step' = step
                                \/ step' = step + 1 /\ step # 7 /\ step < 13
      PROVE  MapInv'
  <2>1. step' \in 1..13 /\ (step' > 7 <=> step > 7)
    BY <1>0, <1>2
  <2> QED
    BY <1>0, <1>2, <2>1, MainSteps DEF MapInv
<1>3. ASSUME NEW name, At(name), name \notin {"map", "loaded"}, UNCHANGED entries,
             step' = step + 1
      PROVE  MapInv'
  <2>1. step # 7 /\ step # 13
    BY <1>0, <1>3, MainSteps DEF At
  <2>2. step < 13
    BY <1>0, <2>1
  <2> QED
    BY <1>2, <1>3, <2>1, <2>2
<1>4. CASE \/ IdtRegister \/ PicInitialize \/ FaultHandlerInit \/ IRQHandlerInit \/ Sti
           \/ Start \/ SMBIOSDone \/ PCIDone
  <2>1. /\ UNCHANGED entries /\ step' = step + 1
        /\ \/ At("idt") \/ At("pic") \/ At("faults") \/ At("irqs") \/ At("sti")
           \/ At("magic") \/ At("memory") \/ At("pit") \/ At("ps2")
           \/ At("smbios") \/ At("pcibus")
    BY <1>4 DEF IdtRegister, PicInitialize, FaultHandlerInit, IRQHandlerInit, Sti,
                Start, SMBIOSDone, PCIDone, Done
  <2> QED
    BY <1>3, <2>1
<1>5. CASE \/ Panic \/ SMBIOSStep \/ SMBIOSFaults \/ PCIStep \/ Dispatch \/ Events
           \/ UNCHANGED vars
  <2>1. UNCHANGED bootVars
    BY <1>5 DEF Panic, SMBIOSStep, SMBIOSFaults, PCIStep, Dispatch, Events, vars
  <2> QED
    BY <1>2, <2>1 DEF bootVars
<1>6. ASSUME NEW c \in Classes, Driver(c)
      PROVE  MapInv'
  BY <1>2, <1>6 DEF Driver, bootVars
<1> QED
  BY <1>1, <1>4, <1>5, <1>6 DEF Next, KernelMain

(* No entry of the loader's map is left out, and none is read behind it if *)
(* the map is short: kernel_main's division counts what the loader built.  *)
THEOREM MapEntriesRead == Spec => []EntriesRead
<1>1. Init => MapInv
  <2> SUFFICES ASSUME Init PROVE MapInv
    OBVIOUS
  <2>1. PICK c \in Computers : entries = [there |-> c[3], counted |-> 0]
    BY DEF Init
  <2>2. c[3] \in Nat \ {0} /\ entries.there = c[3] /\ step = 1
    BY <2>1, BootAssumption DEF Init
  <2> QED
    BY <2>1, <2>2, MainSteps DEF MapInv
<1>2. MapInv /\ [Next]_vars => MapInv'
  BY MapStep
<1>3. MapInv => EntriesRead
  <2> SUFFICES ASSUME MapInv, step > 7 PROVE EntriesRead
    BY DEF EntriesRead
  <2>1. entries.counted = Entcount(entries.there) /\ entries.there \in Nat \ {0}
    BY DEF MapInv
  <2> QED
    BY <2>1, EntriesCounted DEF EntriesRead
<1> QED
  BY <1>1, <1>2, <1>3, PTL DEF Spec

-----------------------------------------------------------------------------
(* The search for the SMBIOS entry point. *)

(* One paragraph is looked at, or the search is over. *)
LEMMA DetectStep ==
    ASSUME DetectInv, [Next]_vars
    PROVE  DetectInv'
<1>0. fw \in Firmware /\ para \in Nat \ {0} /\ Len(fw.rom) \in Nat
      /\ DOMAIN fw.rom = 1..Len(fw.rom)
  BY FirmwareAssumption DEF DetectInv
<1>1. CASE UNCHANGED smbiosVars
  BY <1>1 DEF DetectInv, smbiosVars
<1>2. CASE Detect
  <2>1. /\ at = "detect" /\ fw' = fw /\ para =< Len(fw.rom) + 1
        /\ \A k \in DOMAIN fw.rom : k < para => fw.rom[k] # "entry"
    BY <1>2 DEF Detect, DetectInv
  <2>2. CASE para > Len(fw.rom)
    <3>1. ~(para =< Len(fw.rom))
      BY <1>0, <2>2
    <3>2. at' = "absent" /\ para' = para
      BY <1>2, <2>1, <2>2, <3>1 DEF Detect
    <3> QED
      BY <1>0, <2>1, <2>2, <3>2 DEF DetectInv
  <2>3. CASE para =< Len(fw.rom) /\ fw.rom[para] = "entry"
    <3>1. para \in DOMAIN fw.rom /\ ~(para > Len(fw.rom))
      BY <1>0, <2>3
    <3>2. at' = "header" /\ para' = para
      BY <1>2, <2>1, <2>3, <3>1 DEF Detect
    <3> QED
      BY <1>0, <2>1, <2>3, <3>1, <3>2 DEF DetectInv
  <2>4. CASE para =< Len(fw.rom) /\ fw.rom[para] # "entry"
    <3>1. ~(para > Len(fw.rom))
      BY <1>0, <2>4
    <3>2. at' = "detect" /\ para' = para + 1
      BY <1>2, <2>1, <2>4, <3>1 DEF Detect
    <3>3. \A k \in DOMAIN fw.rom : k < para' => k < para \/ k = para
      BY <1>0, <3>2
    <3>4. para' \in Nat \ {0} /\ para' =< Len(fw.rom) + 1
      BY <1>0, <2>4, <3>2
    <3> QED
      BY <1>0, <2>1, <2>4, <3>2, <3>3, <3>4 DEF DetectInv
  <2> QED
    BY <1>0, <2>2, <2>3, <2>4
<1>3. CASE Header \/ GetSMBiosString
  <2>1. /\ at \in {"header", "look"} /\ at' \in {"header", "look", "done", "fault"}
        /\ UNCHANGED <<fw, para>>
    BY <1>3 DEF Header, GetSMBiosString, Return, Faults, Call
  <2> QED
    BY <2>1 DEF DetectInv
<1>4. CASE SMBIOSStep
  BY <1>2, <1>3, <1>4 DEF SMBIOSStep, SMBIOSNext
<1>5. CASE \/ IdtRegister \/ PicInitialize \/ FaultHandlerInit \/ IRQHandlerInit \/ Sti
           \/ ReadMap \/ Start \/ Panic \/ SMBIOSFaults \/ SMBIOSDone \/ PCIStep \/ PCIDone
           \/ Dispatch \/ Events \/ UNCHANGED vars
  BY <1>1, <1>5 DEF IdtRegister, PicInitialize, FaultHandlerInit, IRQHandlerInit, Sti,
     ReadMap, Start, Panic, SMBIOSFaults, SMBIOSDone, PCIStep, PCIDone, Dispatch, Events,
     vars, Done
<1>6. ASSUME NEW c \in Classes, Driver(c)
      PROVE  DetectInv'
  BY <1>1, <1>6 DEF Driver
<1> QED
  BY <1>4, <1>5, <1>6 DEF Next, KernelMain

(* SMBIOS::Detect uses the first entry point whose checksum is right and   *)
(* gives up only if there is none, for every memory it searches.           *)
THEOREM EntryPointFound == Spec => []EntryFound
<1>1. Init => DetectInv
  <2> SUFFICES ASSUME Init PROVE DetectInv
    OBVIOUS
  <2>1. fw \in Firmware /\ at = "detect" /\ para = 1
    BY DEF Init, SMBIOSInit
  <2>2. Len(fw.rom) \in Nat /\ DOMAIN fw.rom = 1..Len(fw.rom)
    BY <2>1, FirmwareAssumption
  <2> QED
    BY <2>1, <2>2 DEF DetectInv
<1>2. DetectInv /\ [Next]_vars => DetectInv'
  BY DetectStep
<1>3. DetectInv => EntryFound
  <2> SUFFICES ASSUME DetectInv PROVE EntryFound
    OBVIOUS
  <2>1. DOMAIN fw.rom = 1..Len(fw.rom) /\ Len(fw.rom) \in Nat /\ para \in Nat
    BY FirmwareAssumption DEF DetectInv
  <2>2. at = "absent" => \A k \in DOMAIN fw.rom : k < para
    BY <2>1 DEF DetectInv
  <2>3. para \in DOMAIN fw.rom => \A k \in 1..(para - 1) : k \in DOMAIN fw.rom /\ k < para
    BY <2>1
  <2> QED
    BY <2>2, <2>3 DEF DetectInv, EntryFound
<1> QED
  BY <1>1, <1>2, <1>3, PTL DEF Spec
-----------------------------------------------------------------------------
(* The walk over the SMBIOS tables. *)

(* Only the driver's own steps touch its state. *)
LEMMA DriverStep ==
    ASSUME [Next]_vars
    PROVE  SMBIOSNext \/ UNCHANGED smbiosVars
<1>1. CASE SMBIOSStep
  BY <1>1 DEF SMBIOSStep
<1>2. CASE \/ IdtRegister \/ PicInitialize \/ FaultHandlerInit \/ IRQHandlerInit \/ Sti
           \/ ReadMap \/ Start \/ Panic \/ SMBIOSFaults \/ SMBIOSDone \/ PCIStep \/ PCIDone
           \/ Dispatch \/ Events \/ UNCHANGED vars
  BY <1>2 DEF IdtRegister, PicInitialize, FaultHandlerInit, IRQHandlerInit, Sti,
     ReadMap, Start, Panic, SMBIOSFaults, SMBIOSDone, PCIStep, PCIDone, Dispatch, Events,
     vars, Done
<1>3. ASSUME NEW c \in Classes, Driver(c)
      PROVE  UNCHANGED smbiosVars
  BY <1>3 DEF Driver
<1> QED
  BY <1>1, <1>2, <1>3 DEF Next, KernelMain

(* The invariant of the walk holds in every behaviour. *)
LEMMA WalkAlways ==
    ASSUME TablesLaid
    PROVE  Spec => [](fw \in Firmware /\ WalkInv)
<1> DEFINE Inv == fw \in Firmware /\ WalkInv
<1>1. Init => Inv
  BY WalkStart DEF Init, SMBIOSInit
<1>2. Inv /\ [Next]_vars => Inv'
  <2> SUFFICES ASSUME Inv, [Next]_vars PROVE Inv'
    OBVIOUS
  <2>1. CASE SMBIOSNext
    <3>1. fw' = fw
      BY <2>1 DEF SMBIOSNext, Detect, Header, GetSMBiosString, Return, Faults
    <3> QED
      BY <2>1, <3>1, WalkKeeps
  <2>2. CASE UNCHANGED smbiosVars
    <3>1. UNCHANGED <<fw, i, ptr>> /\ UNCHANGED <<at, field, look, strlength, strs, visited>>
      BY <2>2 DEF smbiosVars
    <3>2. /\ HdrType' = HdrType /\ StringsAt' = StringsAt /\ EndSeen' = EndSeen
          /\ Unnamed' = Unnamed /\ Scanning(look)' = Scanning(look)
          /\ \A f : (Wanted(f))' = Wanted(f)
          /\ OutOfReach' = OutOfReach
          /\ (ptr + LastRead >= Length)' = (ptr + LastRead >= Length)
      BY <3>1, SamePlace, SameWanted
    <3>3. ResultInv' = ResultInv
      BY <3>1, <3>2 DEF ResultInv, StringOf, Wanted, Fields
    <3>4. LookInv' = LookInv
      BY <3>1, <3>2, <3>3 DEF LookInv
    <3>5. PlaceInv' = PlaceInv
      BY <3>1 DEF PlaceInv
    <3>6. CauseInv' = CauseInv
      BY <3>1, <3>2 DEF CauseInv, Cause, Untested
    <3> QED
      BY <3>1, <3>4, <3>5, <3>6, SameTable DEF WalkInv
  <2> QED
    BY <2>1, <2>2, DriverStep
<1> QED
  BY <1>1, <1>2, PTL DEF Spec

(* If the firmware's structures are laid out as the standard says and its  *)
(* strings are plain, every turn of Initialize's loop works on the true    *)
(* beginning of the next structure.                                        *)
THEOREM StructuresReached ==
    ASSUME TablesLaid
    PROVE  Spec => []WalkAligned
<1>1. fw \in Firmware /\ WalkInv => WalkAligned
  BY WalkShows
<1> QED
  BY <1>1, WalkAlways, PTL

(* For such a firmware GetSMBiosString finds the string each number stands *)
(* for, and none where there is none, as long as the end can be told.      *)
THEOREM StringLookupsExact ==
    ASSUME TablesLaid
    PROVE  Spec => []StringsFound
<1>1. fw \in Firmware /\ WalkInv => StringsFound
  BY WalkShows
<1> QED
  BY <1>1, WalkAlways, PTL

(* Left alone, kernel_main leaves its thread for nothing but that fault. *)
LEMMA AloneStep ==
    ASSUME CpuInv, AloneInv, [Next]_vars
    PROVE  AloneInv'
<1>0. Len(stack) \in Nat \ {0} /\ stack \in Seq(Contexts) /\ events \in Nat
  BY DEF CpuInv, AloneInv
<1>1. ASSUME Len(stack) = 1, UNCHANGED <<stack, events>> PROVE AloneInv'
  <2>1. ~(Len(stack)' > 1) /\ events' \in Nat
    BY <1>0, <1>1
  <2> QED
    BY <2>1 DEF AloneInv
<1>2. CASE \/ IdtRegister \/ PicInitialize \/ FaultHandlerInit \/ IRQHandlerInit \/ Sti
           \/ ReadMap \/ Start \/ SMBIOSStep \/ SMBIOSDone \/ PCIStep \/ PCIDone
  <2>1. Len(stack) = 1 /\ UNCHANGED <<stack, events>>
    BY <1>2 DEF IdtRegister, PicInitialize, FaultHandlerInit, IRQHandlerInit, Sti,
       ReadMap, Start, SMBIOSStep, SMBIOSDone, PCIStep, PCIDone, At, cpuVars
  <2> QED
    BY <1>1, <2>1
<1>3. ASSUME Len(stack') =< Len(stack), Len(stack') \in Nat,
             UNCHANGED <<events, smbiosVars, bootVars>>
      PROVE  AloneInv'
  BY <1>0, <1>3 DEF AloneInv, smbiosVars, bootVars
<1>4. CASE Halt /\ UNCHANGED <<smbiosVars, bootVars>>
  <2>1. stack' = [stack EXCEPT ![Len(stack)].halted = TRUE] /\ UNCHANGED events
    BY <1>4 DEF Halt
  <2>2. Len(stack') = Len(stack)
    BY <1>0, <2>1
  <2> QED
    BY <1>0, <1>3, <1>4, <2>1, <2>2
<1>5. CASE SMBIOSFaults
  <2>1. /\ Main[step] = "smbios" /\ at = "fault"
        /\ UNCHANGED <<events, smbiosVars, bootVars>>
    BY <1>5 DEF SMBIOSFaults, At
  <2> QED
    BY <1>0, <2>1 DEF AloneInv, smbiosVars, bootVars
<1>6. CASE Dispatch
  <2>1. UNCHANGED <<smbiosVars, bootVars>> /\ (FaultDispatcher \/ IrqReturns)
    BY <1>6 DEF Dispatch
  <2>2. FaultDispatcher => Halt
    BY TopFacts DEF FaultDispatcher
  <2>3. CASE IrqReturns
    <3>1. stack' = Front(stack) /\ UNCHANGED events
      BY <2>3 DEF IrqReturns, Iret
    <3>2. Len(stack') = Len(stack) - 1
      <4> DEFINE n == Len(stack)
      <4>1. n \in Nat /\ n > 1
        BY <2>3, TopFacts DEF IrqReturns, IrqGates
      <4>2. \A k \in 1..(n - 1) : stack[k] \in Contexts
        BY <1>0
      <4>3. stack' = SubSeq(stack, 1, n - 1) /\ n - 1 \in Int
        BY <3>1, <4>1 DEF Front
      <4>4. Len(SubSeq(stack, 1, n - 1)) = n - 1
        BY <1>0, <4>1, <4>2
      <4> QED
        BY <4>3, <4>4
    <3> QED
      BY <1>0, <1>3, <2>1, <3>1, <3>2
  <2> QED
    BY <1>4, <2>1, <2>2, <2>3
<1>7. CASE Events
  <2>1. events' = events + 1
    BY <1>7 DEF Events, Fault, NonMaskable, Irq
  <2>2. events' \in Nat /\ events' # 0
    BY <1>0, <2>1
  <2> QED
    BY <2>2 DEF AloneInv
<1>8. ASSUME NEW c \in Classes, Driver(c)
      PROVE  AloneInv'
  <2>1. Len(stack) = 1 /\ UNCHANGED <<stack, events>>
    BY <1>8 DEF Driver, At, cpuVars
  <2> QED
    BY <1>1, <2>1
<1>9. CASE UNCHANGED vars
  BY <1>9 DEF AloneInv, vars, cpuVars, smbiosVars, bootVars
<1> QED
  BY <1>2, <1>4, <1>5, <1>6, <1>7, <1>8, <1>9 DEF Next, KernelMain, Panic

(* While no exception or interrupt comes from outside, the kernel faults   *)
(* only in the SMBIOS driver, and there only for a cause: every byte the   *)
(* driver reads of a table that is laid out as the standard says is mapped,*)
(* wherever in its page the table begins, unless VMM::Init has unmapped    *)
(* the table's place, or its last structure is shorter than its driver's.  *)
THEOREM FaultsHaveCause ==
    ASSUME TablesLaid
    PROVE  Spec => []HaltsHaveCause
<1>1. Init => AloneInv
  BY DEF Init, FaultInit, AloneInv
<1>2. CpuInv /\ AloneInv /\ [Next]_vars => AloneInv'
  BY AloneStep
<1>3. AloneInv /\ WalkInv => HaltsHaveCause
  <2> SUFFICES ASSUME AloneInv, WalkInv, events = 0, Len(stack) > 1 PROVE HaltsHaveCause
    BY DEF HaltsHaveCause
  <2>1. at = "fault" /\ Main[step] = "smbios"
    BY DEF AloneInv
  <2>2. WellFormed /\ fw.after # 0 => Cause
    BY <2>1 DEF WalkInv, CauseInv
  <2> QED
    BY <2>1, <2>2 DEF HaltsHaveCause, Cause
<1> QED
  BY <1>1, <1>2, <1>3, CpuAlways, WalkAlways, PTL DEF Spec

-----------------------------------------------------------------------------
(* The PCI bus. *)

(* Only the scan and the drivers' searches touch the bus and its table. *)
LEMMA PCIBusStep ==
    ASSUME PCIInv, [Next]_vars
    PROVE  PCIInv'
<1>1. CASE UNCHANGED pciVars
  BY <1>1 DEF pciVars, PCIInv, Fits, TableInv, Listed, Scanned, Asked, Zero, Found, Address
<1>2. CASE PCIStep
  BY <1>2, QueryKeeps DEF PCIStep
<1>3. ASSUME NEW c \in Classes, Driver(c)
      PROVE  PCIInv'
  BY <1>3, DetectKeeps DEF Driver
<1>4. CASE \/ IdtRegister \/ PicInitialize \/ FaultHandlerInit \/ IRQHandlerInit \/ Sti
           \/ ReadMap \/ Start \/ Panic \/ SMBIOSStep \/ SMBIOSFaults \/ SMBIOSDone
           \/ PCIDone \/ Dispatch \/ Events \/ UNCHANGED vars
  BY <1>1, <1>4 DEF IdtRegister, PicInitialize, FaultHandlerInit, IRQHandlerInit, Sti,
     ReadMap, Start, Panic, SMBIOSStep, SMBIOSFaults, SMBIOSDone, PCIDone, Dispatch,
     Events, vars, Done
<1> QED
  BY <1>2, <1>3, <1>4 DEF Next, KernelMain

(* The invariant of the bus holds in every behaviour. *)
LEMMA PCIAlways == Spec => []PCIInv
<1>1. Init => PCIInv
  BY ScanStart DEF Init
<1>2. PCIInv /\ [Next]_vars => PCIInv'
  BY PCIBusStep
<1> QED
  BY <1>1, <1>2, PTL DEF Spec

(* Whatever functions a machine has, if they fit into the table each is in *)
(* it once when Initialize is done, in order, and no alias is.             *)
THEOREM AllDevicesListed == Spec => []DevicesListed
<1>1. PCIInv => DevicesListed
  BY InvListed
<1> QED
  BY <1>1, PCIAlways, PTL

(* A driver gets the first device of its class. *)
THEOREM FirstDeviceFound == Spec => []FirstOfClass
<1>1. PCIInv => FirstOfClass
  BY InvFound
<1> QED
  BY <1>1, PCIAlways, PTL
=============================================================================
