-------------------------------- MODULE PS2 --------------------------------
(***************************************************************************)
(* The driver of the PS/2 controller (PS2.cpp), the 8042 and the devices   *)
(* on its two ports.                                                       *)
(*                                                                         *)
(* Initialize is a fixed list of port accesses and of calls of SendCommand *)
(* and Reset; the model runs it one access at a time against a controller  *)
(* whose output buffer holds one byte.  The driver reads that buffer       *)
(* mostly without looking whether something is in it: it then gets the     *)
(* last byte again.  Afterwards kernel_main stores the two handlers and    *)
(* OnIRQ reads the buffer.                                                 *)
(*                                                                         *)
(* A byte is the set of its bits that are set.                             *)
(***************************************************************************)
EXTENDS Naturals, Sequences, SequencesExt

CONSTANTS
    MaxPolls,      \* polls before SendCommand gives up: 20
    BiosConfigs,   \* configuration bytes the BIOS may leave
    MaxLate,       \* bound: the steps the driver takes while an answer is due
    Keys,          \* bound: the bytes the keyboard sends, in order
    Packets        \* bound: the number of packets the mouse sends

ASSUME PS2Assumption ==
    /\ MaxPolls \in Nat /\ MaxLate \in Nat /\ Packets \in Nat
    /\ BiosConfigs \subseteq SUBSET (0..7)
    /\ Keys \in Seq(SUBSET (0..7))

VARIABLES
    ctl,    \* the controller: [obf: whose byte is in the output buffer, data,
            \*  answers: its own that wait for the buffer, config, irr: lines
            \*  whose rising edge the 8259 has latched]
    dev,    \* [channels: ports there are, present: ports with a device,
            \*  scanning: devices that report, out: bytes still to be sent]
    at,     \* [pc: index in Initialize and what kernel_main does after it,
            \*  sub: place in SendCommand, Reset or Identify, timeout]
    local,  \* [ccb, channels: max_channels, type: devtype of each port]
    irq,    \* [handlers: lines whose handler is stored, cpu: "main", or
            \*  "mouse" between the two reads of OnIRQ]
    seen    \* what happened: [keys, moves: reports sent, noisy: some during
            \*  Initialize, late: steps taken while an answer was due, early:
            \*  a byte's interrupt found no handler, log: OnIRQ's of line 1]

vars == <<ctl, dev, at, local, irq, seen>>

Ports == {1, 2}
Empty == 3    \* obf: 0 is the controller itself, 1 and 2 are the ports
Bits(n) == {i \in 0..7 : (n \div 2^i) % 2 = 1}
ACK == Bits(\hFA)
BAT == Bits(\hAA)

(* The bits of the configuration byte. *)
Disabled(p) == p + 3
Translate   == 6

-----------------------------------------------------------------------------
(* Initialize, one element for each access, in the order of the code.      *)
Command(c)  == [op |-> "command", byte |-> c]
Read        == [op |-> "read"]
ReadCcb(n)  == [op |-> "ccb", detect |-> n]
Write(off, on) == [op |-> "write", off |-> off, on |-> on]
Send(bytes, p) == [op |-> "send", bytes |-> bytes, port |-> p]
ResetPort(p)   == [op |-> "reset", bytes |-> <<Bits(\hFF)>>, port |-> p]
Identify(p)    == [op |-> "type", port |-> p]
IfTwo(step)    == [op |-> "iftwo", then |-> step]

(* Mutant: translation is left as the BIOS had it. *)
DisableKeepsTranslation == Write({0, 1}, {})

(* ccb &= ~(0x1 | 0x2 | 0x40) *)
DisableInterrupts == Write({0, 1, Translate}, {})

InitKeyboard ==
    << Send(<<Bits(\hF0), Bits(\h02)>>, 1), Send(<<Bits(\hF4)>>, 1) >>

Initialize ==
    << Command("disable1"), Command("disable2"), Read,
       Command("readConfig"), ReadCcb(TRUE), DisableInterrupts,
       Command("selfTest"), Read, Command("test1"), Read,
       IfTwo(Command("test2")), IfTwo(Read),
       ResetPort(1), IfTwo(ResetPort(2)),
       Send(<<Bits(\hF5)>>, 1), Send(<<Bits(\hF2)>>, 1), Identify(1),
       Send(<<Bits(\hF5)>>, 2), Send(<<Bits(\hF2)>>, 2), Identify(2) >>
    \o InitKeyboard
    \o << Send(<<Bits(\hF4)>>, 2),
          Command("readConfig"), ReadCcb(FALSE), Write({}, {0, 1}),
          Command("enable1"), IfTwo(Command("enable2")) >>

(* Then SetHandler, for each line: unmask it, store the handler. *)
Steps == Len(Initialize)
SetHandlers == << <<"unmask", 1>>, <<"store", 1>>, <<"unmask", 12>>, <<"store", 12>> >>

Initialized == at.pc > Steps
Running == at.pc > Steps + Len(SetHandlers)
Unmasked == {l \in {1, 12} : at.pc > Steps + (IF l = 1 THEN 1 ELSE 3)}

-----------------------------------------------------------------------------
(* The controller and the devices (external). *)

Level(l, c) ==
    IF l = 1 THEN c.obf \in {0, 1} /\ 0 \in c.config
             ELSE c.obf = 2 /\ 1 \in c.config

(* The controller goes to c; the lines that rise are latched. *)
Controller(c) ==
    ctl' = [c EXCEPT !.irr = @ \cup {l \in {1, 12} : Level(l, c) /\ ~Level(l, ctl)}]

(* in8(DATA_PORT) gets ctl.data and empties the buffer. *)
In == Controller([ctl EXCEPT !.obf = Empty])

CanFill(o) ==
    /\ ctl.obf = Empty
    /\ IF o = 0 THEN ctl.answers # <<>>
       ELSE ctl.answers = <<>> /\ dev.out[o] # <<>> /\ Disabled(o) \notin ctl.config

(* The next answer, or the next byte of a device, enters the buffer. *)
Fill(o) ==
    /\ CanFill(o)
    /\ IF o = 0
       THEN /\ Controller([ctl EXCEPT !.obf = 0, !.data = Head(ctl.answers),
                                      !.answers = Tail(@)])
            /\ UNCHANGED dev
       ELSE /\ Controller([ctl EXCEPT !.obf = o, !.data = Head(dev.out[o])])
            /\ dev' = [dev EXCEPT !.out[o] = Tail(@)]
    /\ UNCHANGED <<at, local, irq, seen>>

(* What a device sends for the byte of a command. *)
Answer(p, b) ==
    CASE b = Bits(\hFF) -> IF p = 1 THEN <<ACK, BAT>> ELSE <<ACK, BAT, {}>>
      [] b = Bits(\hF2) -> IF p = 1 THEN <<ACK, Bits(\hAB), Bits(\h83)>>
                                    ELSE <<ACK, {}>>
      [] OTHER -> <<ACK>>

(* A keyboard reports after a reset, a mouse does not. *)
Scanning(p, b) ==
    IF b = Bits(\hF4) \/ (b = Bits(\hFF) /\ p = 1) THEN dev.scanning \cup {p}
    ELSE IF b \in {Bits(\hF5), Bits(\hFF)} THEN dev.scanning \ {p}
    ELSE dev.scanning

(* A controller with one port does not know the command that sends the     *)
(* next byte to the second one.  Sending to a device enables its port.     *)
Deliver(bytes, port) ==
    LET p == IF dev.channels = 1 THEN 1 ELSE port
        answered == [i \in DOMAIN bytes |-> Answer(p, bytes[i])]
    IN  /\ Controller([ctl EXCEPT !.config = @ \ {Disabled(p)}])
        /\ dev' = IF p \notin dev.present THEN dev
                  ELSE [dev EXCEPT !.out[p] = @ \o FlattenSeq(answered),
                                   !.scanning = Scanning(p, bytes[1])]

Commanded(c) ==
    CASE c = "disable1" -> [ctl EXCEPT !.config = @ \cup {Disabled(1)}]
      [] c = "disable2" /\ dev.channels = 2 ->
                           [ctl EXCEPT !.config = @ \cup {Disabled(2)}]
      [] c = "enable1"  -> [ctl EXCEPT !.config = @ \ {Disabled(1)}]
      [] c = "enable2"  -> [ctl EXCEPT !.config = @ \ {Disabled(2)}]
      [] c = "readConfig" -> [ctl EXCEPT !.answers = Append(@, ctl.config)]
      [] c = "selfTest"   -> [ctl EXCEPT !.answers = Append(@, Bits(\h55))]
      [] c \in {"test1", "test2"} -> [ctl EXCEPT !.answers = Append(@, {})]
      [] OTHER -> ctl

(* A key is pressed, the mouse is moved. *)
Key ==
    /\ 1 \in dev.scanning /\ seen.keys < Len(Keys)
    /\ dev' = [dev EXCEPT !.out[1] = Append(@, Keys[seen.keys + 1])]
    /\ seen' = [seen EXCEPT !.keys = @ + 1, !.noisy = @ \/ ~Initialized]
    /\ UNCHANGED <<ctl, at, local, irq>>

Move ==
    /\ 2 \in dev.scanning /\ seen.moves < Packets
    /\ dev' = [dev EXCEPT !.out[2] = @ \o <<Bits(\h08), {0}, {1}>>]
    /\ seen' = [seen EXCEPT !.moves = @ + 1, !.noisy = @ \/ ~Initialized]
    /\ UNCHANGED <<ctl, at, local, irq>>

-----------------------------------------------------------------------------
(* The driver. *)

Init ==
    /\ dev \in [channels : {1, 2}, present : SUBSET Ports, scanning : SUBSET Ports,
                  out : {[p \in Ports |-> <<>>]}]
    /\ dev.scanning \in {{}, dev.present} /\ dev.present \subseteq 1..dev.channels
    /\ \E c \in BiosConfigs, o \in {1, Empty} :
          /\ Disabled(2) \in c => dev.channels = 2
          /\ ctl = [obf |-> o, data |-> {}, answers |-> <<>>, config |-> c,
                    irr |-> IF o = 1 /\ 0 \in c THEN {1} ELSE {}]
    /\ at = [pc |-> 1, sub |-> "start", timeout |-> 0]
    /\ local = [ccb |-> {}, channels |-> 1, type |-> [p \in Ports |-> <<>>]]
    /\ irq = [handlers |-> {}, cpu |-> "main"]
    /\ seen = [keys |-> 0, moves |-> 0, noisy |-> FALSE, late |-> 0,
               early |-> FALSE, log |-> <<>>]

Now ==
    IF Initialized THEN [op |-> "done"]
    ELSE IF Initialize[at.pc].op = "iftwo" /\ local.channels >= 2
    THEN Initialize[at.pc].then
    ELSE Initialize[at.pc]

Advance == at' = [pc |-> at.pc + 1, sub |-> "start", timeout |-> 0]

Goto(place) == at' = [at EXCEPT !.sub = place]

SkipSecond == Now.op = "iftwo" /\ Advance /\ UNCHANGED <<ctl, dev, local>>

DoCommand ==
    /\ Now.op = "command"
    /\ Controller(Commanded(Now.byte))
    /\ Advance /\ UNCHANGED <<dev, local>>

(* One or sixteen reads whose results are at most logged. *)
DoRead == Now.op = "read" /\ In /\ Advance /\ UNCHANGED <<dev, local>>

DoReadCcb ==
    /\ Now.op = "ccb"
    /\ In
    /\ local' = [local EXCEPT !.ccb = ctl.data,
                  !.channels = IF ~Now.detect THEN @
                               ELSE IF Disabled(2) \in ctl.data THEN 2 ELSE 1]
    /\ Advance /\ UNCHANGED dev

(* out8(COMMAND_REG, 0x60) and the changed ccb *)
DoWrite ==
    /\ Now.op = "write"
    /\ local' = [local EXCEPT !.ccb = (@ \ Now.off) \cup Now.on]
    /\ Controller([ctl EXCEPT !.config = local'.ccb])
    /\ Advance /\ UNCHANGED dev

(* SendCommand and Reset empty the buffer, then write to the device. *)
Flush ==
    /\ Now.op \in {"send", "reset"} /\ at.sub = "start" /\ ctl.obf # Empty
    /\ In
    /\ UNCHANGED <<at, dev, local>>

SendBytes ==
    /\ Now.op \in {"send", "reset"} /\ at.sub = "start" /\ ctl.obf = Empty
    /\ Deliver(Now.bytes, Now.port)
    /\ Goto("sent") /\ UNCHANGED local

(* Mutant: the count is forgotten. *)
PollForever ==
    /\ Now.op = "send" /\ at.sub = "sent"
    /\ \/ ctl.obf # Empty /\ In /\ Advance
       \/ ctl.obf = Empty /\ UNCHANGED <<at, ctl>>
    /\ UNCHANGED <<dev, local>>

(* SendCommand waits for a byte; which one only matters for the log. *)
Poll ==
    /\ Now.op = "send" /\ at.sub = "sent"
    /\ \/ ctl.obf # Empty /\ In /\ Advance
       \/ ctl.obf = Empty /\ at.timeout = MaxPolls /\ Advance /\ UNCHANGED ctl
       \/ /\ ctl.obf = Empty /\ at.timeout < MaxPolls
          /\ at' = [at EXCEPT !.timeout = @ + 1] /\ UNCHANGED ctl
    /\ UNCHANGED <<dev, local>>

(* The first read of Reset does not wait; the next two are made if there   *)
(* is a byte, and a wrong one ends the call.                               *)
ResetReads(place, next, right) ==
    /\ Now.op = "reset" /\ at.sub = place
    /\ IF place # "sent" /\ ctl.obf = Empty
       THEN UNCHANGED ctl /\ (IF next = "end" THEN Advance ELSE Goto(next))
       ELSE In /\ (IF next = "end" \/ ctl.data \notin right THEN Advance ELSE Goto(next))
    /\ UNCHANGED <<dev, local>>

(* devtype: a first byte above 0x80 is followed by a second. *)
DoIdentify ==
    /\ Now.op = "type"
    /\ In
    /\ local' = [local EXCEPT !.type[Now.port] = Append(@, ctl.data)]
    /\ IF at.sub = "start" /\ 7 \in ctl.data /\ ctl.data # {7}
       THEN Goto("more") ELSE Advance
    /\ UNCHANGED dev

(* Nothing is on its way to the buffer, and the CPU has taken the          *)
(* interrupts that wait.                                                   *)
Settled == (\A o \in 0..2 : ~CanFill(o)) /\ ctl.irr \cap Unmasked = {}

(* The driver's delays are as a rule, but need not be, long enough. *)
Ready ==
    /\ irq.cpu = "main"
    /\ Settled \/ seen.late < MaxLate
    /\ seen' = IF Settled THEN seen ELSE [seen EXCEPT !.late = @ + 1]

Driver ==
    /\ Ready
    /\ \/ SkipSecond \/ DoCommand \/ DoRead \/ DoReadCcb \/ DoWrite
       \/ Flush \/ SendBytes \/ Poll \/ DoIdentify
       \/ ResetReads("sent", "second", {ACK, BAT})
       \/ ResetReads("second", "third", {ACK, BAT})
       \/ ResetReads("third", "end", {{}})
    /\ UNCHANGED irq

SetHandler ==
    /\ Initialized /\ ~Running /\ Ready
    /\ LET step == SetHandlers[at.pc - Steps]
       IN  irq' = IF step[1] = "unmask" THEN irq
                  ELSE [irq EXCEPT !.handlers = @ \cup {step[2]}]
    /\ Advance /\ UNCHANGED <<ctl, dev, local>>

-----------------------------------------------------------------------------
(* Interrupts. *)

Taken(l) == irq.cpu = "main" /\ l \in ctl.irr \cap Unmasked

(* IRQDispatcher finds no handler. *)
Dropped(l) ==
    /\ Taken(l) /\ l \notin irq.handlers
    /\ ctl' = [ctl EXCEPT !.irr = @ \ {l}]
    /\ seen' = [seen EXCEPT !.early = @ \/ Level(l, ctl)]
    /\ UNCHANGED <<dev, at, local, irq>>

(* Mutant: nothing is read. *)
OnKeyboardReadsNothing ==
    /\ Taken(1) /\ 1 \in irq.handlers
    /\ ctl' = [ctl EXCEPT !.irr = @ \ {1}]
    /\ UNCHANGED <<dev, at, local, irq, seen>>

(* Mutant: two bytes are read, as for the mouse. *)
OnKeyboardReadsTwo ==
    /\ Taken(1) /\ 1 \in irq.handlers
    /\ ctl' = [ctl EXCEPT !.irr = @ \ {1}, !.obf = Empty]
    /\ seen' = [seen EXCEPT !.log = @ \o <<ctl.data, ctl.data>>]
    /\ UNCHANGED <<dev, at, local, irq>>

(* OnIRQ, line 1 *)
OnKeyboard ==
    /\ Taken(1) /\ 1 \in irq.handlers
    /\ ctl' = [ctl EXCEPT !.irr = @ \ {1}, !.obf = Empty]
    /\ seen' = [seen EXCEPT !.log = Append(@, ctl.data)]
    /\ UNCHANGED <<dev, at, local, irq>>

(* OnIRQ, line 12: two reads. *)
OnMouse ==
    /\ \/ /\ Taken(12) /\ 12 \in irq.handlers
          /\ ctl' = [ctl EXCEPT !.irr = @ \ {12}, !.obf = Empty]
          /\ irq' = [irq EXCEPT !.cpu = "mouse"]
       \/ irq.cpu = "mouse" /\ In /\ irq' = [irq EXCEPT !.cpu = "main"]
    /\ UNCHANGED <<dev, at, local, seen>>

-----------------------------------------------------------------------------
Interrupts == Dropped(1) \/ Dropped(12) \/ OnKeyboard \/ OnMouse

Fills == \E o \in 0..2 : Fill(o)

(* kernel_main ends in a loop of hlt. *)
Idle == Running /\ irq.cpu = "main" /\ UNCHANGED vars

Next == Driver \/ SetHandler \/ Interrupts \/ Fills \/ Key \/ Move \/ Idle

(* The CPU goes on and takes interrupts; the controller passes bytes on.   *)
(* Keys and movements need not come.                                       *)
Spec == Init /\ [][Next]_vars
             /\ WF_vars(Driver \/ SetHandler) /\ WF_vars(Interrupts) /\ WF_vars(Fills)

-----------------------------------------------------------------------------
(* Properties. *)

(* Initialize leaves a machine that answers in time and whose devices are  *)
(* silent meanwhile as its comments say: both interrupts on, translation   *)
(* off, every port enabled, the channels counted, the devices told apart   *)
(* and reporting.                                                          *)
Configured ==
    Initialized /\ seen.late = 0 /\ ~seen.noisy =>
        /\ {0, 1} \subseteq ctl.config /\ Translate \notin ctl.config
        /\ \A p \in 1..dev.channels : Disabled(p) \notin ctl.config
        /\ local.channels = dev.channels
        /\ dev.scanning = dev.present
        /\ 1 \in dev.present => local.type[1] = <<Bits(\hAB), Bits(\h83)>>
        /\ 2 \in dev.present => local.type[2] = <<{}>>

(* While the mouse is still, OnIRQ logs the bytes of the keyboard once     *)
(* each and in order.                                                      *)
KeysInOrder ==
    seen.late = 0 /\ ~seen.noisy /\ seen.moves = 0 =>
        IsPrefix(seen.log, SubSeq(Keys, 1, seen.keys))

(* Initialize comes to its end whatever the devices do: with none on a     *)
(* port, with late answers, and with keys pressed meanwhile.               *)
InitializeEnds == <>Running

(* Once the handlers are stored the buffer is always emptied, so that      *)
(* neither device falls silent, even though the handler of the mouse reads *)
(* once more than it was asked to.                                         *)
BufferDrained == Running /\ ctl.obf # Empty /\ ~seen.early ~> ctl.obf = Empty
=============================================================================
