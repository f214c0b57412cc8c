------------------------------ MODULE PS2Proofs ------------------------------
(***************************************************************************)
(* Proofs about the PS/2 driver, for every machine, BIOS, sequence of keys *)
(* and number of polls: what Initialize leaves behind, and that OnIRQ logs *)
(* the keys in order.                                                      *)
(*                                                                         *)
(* The driver mostly reads the output buffer without looking whether       *)
(* something is in it, so that one byte read too early or left behind      *)
(* would shift all that follow.  The invariant says for each step of       *)
(* Initialize which bytes are still due, and from whom.                    *)
(***************************************************************************)
EXTENDS PS2, SequenceTheorems, TLAPS

-----------------------------------------------------------------------------
(* The invariant. *)

Byte == SUBSET (0..7)

(* The type invariant: the controller, the machine, the driver's place and *)
(* its variables.                                                          *)
Controllers ==
    [obf : 0..3, data : Byte, answers : Seq(Byte), config : Byte,
     irr : SUBSET {1, 12}]

Machines ==
    [channels : {1, 2}, present : SUBSET Ports, scanning : SUBSET Ports,
     out : [Ports -> Seq(Byte)]]

Places == {"start", "sent", "second", "third", "more"}
Points == [pc : 1..33, sub : Places, timeout : Nat]

Locals == [ccb : Byte, channels : {1, 2}, type : [Ports -> Seq(Byte)]]

TypeOK ==
    /\ ctl \in Controllers
    /\ dev \in Machines
    /\ at \in Points
    /\ local \in Locals
    /\ irq \in [handlers : SUBSET {1, 12}, cpu : {"main", "mouse"}]
    /\ seen \in [keys : Nat, moves : Nat, noisy : BOOLEAN, late : Nat,
                 early : BOOLEAN, log : Seq(Byte)]

(* The case the properties are about: the driver never went on while an    *)
(* answer was still due, and no device reported during Initialize.         *)
Quiet == seen.late = 0 /\ ~seen.noisy

(* The bytes a source has still to pass to the output buffer: 0 is the     *)
(* controller itself, 1 and 2 are the ports.                               *)
Waiting(o) == IF o = 0 THEN ctl.answers ELSE dev.out[o]

(* All that the driver can still read is q, from source o: q waits, or its *)
(* first byte is in the buffer already.  A port with bytes that wait is    *)
(* enabled.                                                                *)
Stream(q, o) ==
    /\ \A r \in 0..2 : r # o => Waiting(r) = <<>>
    /\ \/ ctl.obf = Empty /\ Waiting(o) = q
       \/ ctl.obf = o /\ q = <<ctl.data>> \o Waiting(o)
    /\ o # 0 /\ Waiting(o) # <<>> => Disabled(o) \notin ctl.config

(* The port a byte for port goes to: a controller with one port sends all  *)
(* to it.                                                                  *)
Reached(port) == IF dev.channels = 1 THEN 1 ELSE port

(* The device on port still owes q.  One that is not there owes nothing. *)
Due(q, port) ==
    Stream(IF Reached(port) \in dev.present THEN q ELSE <<>>, Reached(port))

Silence == Stream(<<>>, 0)

(* Which places of SendCommand, Reset and Identify occur at which step of  *)
(* Initialize.  Only an absent mouse makes Identify read a second byte on  *)
(* port 2.                                                                 *)
PlaceOK ==
    /\ at.sub = "sent" => at.pc \in {13, 14, 15, 16, 18, 19, 21, 22, 23}
    /\ at.sub \in {"second", "third"} => at.pc \in {13, 14}
    /\ at.sub = "more" => at.pc \in {17, 20}
    /\ at.pc = 14 /\ at.sub # "start" => local.channels = 2
    /\ at.pc = 20 /\ at.sub = "more" => 2 \notin dev.present

(* SetHandler stores the handler of line 1 first; the mouse's runs only    *)
(* once it is stored.                                                      *)
Stored ==
    /\ 1 \in irq.handlers => at.pc > 30
    /\ 12 \in irq.handlers => at.pc > 32
    /\ irq.cpu = "mouse" => 12 \in irq.handlers

(* What Initialize has made of the configuration byte and knows of it. *)
Settings ==
    /\ Disabled(2) \in ctl.config => dev.channels = 2
    /\ at.pc \in {3, 4, 5} /\ dev.channels = 2 => Disabled(2) \in ctl.config
    /\ at.pc > 5 => local.channels = dev.channels
    /\ at.pc \in {6, 26} => local.ccb = ctl.config
    /\ at.pc > 6 => Translate \notin ctl.config
    /\ at.pc > 26 => {0, 1} \subseteq ctl.config
    /\ at.pc > 27 => Disabled(1) \notin ctl.config
    /\ at.pc > 28 => \A p \in 1..dev.channels : Disabled(p) \notin ctl.config

(* Devices are on ports there are, only those report, and they do so once  *)
(* they were told to.                                                      *)
Devices ==
    /\ dev.present \subseteq 1..dev.channels
    /\ dev.scanning \subseteq dev.present
    /\ at.pc > 22 \/ (at.pc = 22 /\ at.sub # "start") =>
          (1 \in dev.present => 1 \in dev.scanning)
    /\ at.pc > 23 \/ (at.pc = 23 /\ at.sub # "start") =>
          (2 \in dev.present => 2 \in dev.scanning)

(* devtype is filled by the steps that identify the devices, with their    *)
(* bytes and no others.                                                    *)
TypesRead ==
    /\ at.pc < 17 \/ (at.pc = 17 /\ at.sub = "start") => local.type[1] = <<>>
    /\ 1 \in dev.present =>
          /\ at.pc = 17 /\ at.sub = "more" => local.type[1] = <<Bits(\hAB)>>
          /\ at.pc > 17 => local.type[1] = <<Bits(\hAB), Bits(\h83)>>
    /\ at.pc < 20 \/ (at.pc = 20 /\ at.sub = "start") => local.type[2] = <<>>
    /\ 2 \in dev.present /\ at.pc > 20 => local.type[2] = <<{}>>

(* Nothing is reported or logged before Initialize is over. *)
Silent == ~Initialized => seen.keys = 0 /\ seen.moves = 0 /\ seen.log = <<>>

(* What the controller owes at each step that talks to it.  Before step 3  *)
(* only a byte the BIOS left unread may be in the buffer.                  *)
CommandsAnswered ==
    /\ at.pc \in {1, 2, 3} => \A r \in 0..2 : Waiting(r) = <<>>
    /\ at.pc \in {5, 25} => Stream(<<ctl.config>>, 0)
    /\ at.pc = 8 => Stream(<<Bits(\h55)>>, 0)
    /\ at.pc = 10 => Stream(<<{}>>, 0)
    /\ at.pc = 12 /\ local.channels = 2 => Stream(<<{}>>, 0)
    /\ at.pc = 12 /\ local.channels # 2 => Silence
    /\ at.pc \in {4, 6, 7, 9, 11, 24, 26, 27, 28} => Silence

(* What a device owes in Reset, between its up to three reads. *)
ResetsAnswered ==
    /\ at.pc \in {13, 14} /\ at.sub = "start" => Silence
    /\ at.pc = 13 => /\ at.sub = "sent"   => Due(<<ACK, BAT>>, 1)
                     /\ at.sub = "second" => Due(<<BAT>>, 1)
                     /\ at.sub = "third"  => Silence
    /\ at.pc = 14 => /\ at.sub = "sent"   => Due(<<ACK, BAT, {}>>, 2)
                     /\ at.sub = "second" => Due(<<BAT, {}>>, 2)
                     /\ at.sub = "third"  => Due(<<{}>>, 2)

(* What a device owes in SendCommand.  The second ACK to the set of scan   *)
(* codes is still due when the next command is sent, which begins with     *)
(* reading it.                                                             *)
SendsAnswered ==
    /\ at.sub = "start" =>
          /\ at.pc \in {15, 16, 18, 19, 21, 23} => Silence
          /\ at.pc = 22 => Due(<<ACK>>, 1) \/ Silence
    /\ at.sub = "sent" =>
          /\ at.pc \in {15, 22} => Due(<<ACK>>, 1)
          /\ at.pc \in {18, 23} => Due(<<ACK>>, 2)
          /\ at.pc = 16 => Due(<<ACK, Bits(\hAB), Bits(\h83)>>, 1)
          /\ at.pc = 19 /\ Reached(2) = 1 => Due(<<ACK, Bits(\hAB), Bits(\h83)>>, 2)
          /\ at.pc = 19 /\ Reached(2) = 2 => Due(<<ACK, {}>>, 2)
          /\ at.pc = 21 => Due(<<ACK, ACK>>, 1)

(* What a device owes to Identify.  On a machine with one port the         *)
(* keyboard answers for port 2 too.                                        *)
Identified ==
    /\ at.sub = "start" =>
          /\ at.pc = 17 => Due(<<Bits(\hAB), Bits(\h83)>>, 1)
          /\ at.pc = 20 /\ Reached(2) = 1 => Due(<<Bits(\hAB), Bits(\h83)>>, 2)
          /\ at.pc = 20 /\ Reached(2) = 2 => Due(<<{}>>, 2)
    /\ at.sub = "more" =>
          /\ at.pc = 17 => Due(<<Bits(\h83)>>, 1)
          /\ at.pc = 20 /\ Reached(2) = 1 => Due(<<Bits(\h83)>>, 2)
          /\ at.pc = 20 /\ Reached(2) = 2 => Silence

DevicesAnswer == ResetsAnswered /\ SendsAnswered /\ Identified

Answers == ~Initialized => CommandsAnswered /\ DevicesAnswer

(* Once Initialize is over and while the mouse is still: what was logged   *)
(* and what is on its way are the keys so far; line 1 is raised only for a *)
(* byte that is there; and the mouse's handler does not run.               *)
Logged ==
    Initialized /\ seen.moves = 0 =>
        /\ \E q \in Seq(Byte) :
              /\ Stream(q, 1)
              /\ seen.log \o q = SubSeq(Keys, 1, seen.keys)
        /\ 1 \in irq.handlers /\ 1 \in ctl.irr => ctl.obf = 1
        /\ ~(12 \in irq.handlers /\ 12 \in ctl.irr)
        /\ irq.cpu = "main"

Prompt == PlaceOK /\ Settings /\ Devices /\ TypesRead /\ Answers

(* The inductive invariant. *)
PS2Inv == TypeOK /\ Stored /\ (Quiet => Prompt /\ Silent /\ Logged)

-----------------------------------------------------------------------------
(* The bytes, and the code of Initialize. *)

(* Bits that tell the commands and the answers apart. *)
LEMMA BitFacts ==
    /\ 0 \in Bits(\hFF) /\ 1 \in Bits(\hFF)
    /\ 0 \in Bits(\hF5) /\ 1 \notin Bits(\hF5) /\ 2 \in Bits(\hF5)
    /\ 0 \notin Bits(\hF2) /\ 1 \in Bits(\hF2)
    /\ 0 \notin Bits(\hF4) /\ 1 \notin Bits(\hF4) /\ 2 \in Bits(\hF4)
    /\ 0 \notin Bits(\hF0) /\ 1 \notin Bits(\hF0) /\ 2 \notin Bits(\hF0)
    /\ 7 \in Bits(\hF0) /\ 7 \notin Bits(\h02) /\ 7 \in Bits(\hF2)
    /\ 7 \in Bits(\hFF) /\ 7 \in Bits(\hF4) /\ 7 \in Bits(\hF5)
    /\ 0 \in Bits(\hAB) /\ 7 \in Bits(\hAB)
    /\ 1 \in ACK /\ 1 \in BAT
BY DEF Bits, ACK, BAT

(* The commands of SendCommand and Reset are different bytes. *)
LEMMA CommandsDiffer ==
    /\ Bits(\hF2) # Bits(\hFF) /\ Bits(\hF4) # Bits(\hFF) /\ Bits(\hF5) # Bits(\hFF)
    /\ Bits(\hF0) # Bits(\hFF) /\ Bits(\h02) # Bits(\hFF) /\ Bits(\hF4) # Bits(\hF2)
    /\ Bits(\hF5) # Bits(\hF2) /\ Bits(\hF0) # Bits(\hF2) /\ Bits(\h02) # Bits(\hF2)
    /\ Bits(\hF5) # Bits(\hF4) /\ Bits(\hF2) # Bits(\hF5) /\ Bits(\hF0) # Bits(\hF4)
    /\ Bits(\hF0) # Bits(\hF5)
BY BitFacts

(* Numbers are sets of the bits 0 to 7. *)
LEMMA BytesAreBytes == \A n : Bits(n) \in Byte
BY DEF Bits, Byte

(* So are the answers of the devices. *)
LEMMA AnswersAreBytes == ACK \in Byte /\ BAT \in Byte /\ {} \in Byte
BY BytesAreBytes DEF ACK, BAT, Byte

(* Initialize, step by step. *)
LEMMA Code ==
    /\ Len(Initialize) = 28
    /\ Initialize[1] = Command("disable1")
    /\ Initialize[2] = Command("disable2")
    /\ Initialize[3] = Read
    /\ Initialize[4] = Command("readConfig")
    /\ Initialize[5].op = "ccb" /\ Initialize[5].detect = TRUE
    /\ Initialize[6] = DisableInterrupts
    /\ Initialize[7] = Command("selfTest")
    /\ Initialize[8] = Read
    /\ Initialize[9] = Command("test1")
    /\ Initialize[10] = Read
    /\ Initialize[11] = IfTwo(Command("test2"))
    /\ Initialize[12] = IfTwo(Read)
    /\ Initialize[13] = ResetPort(1)
    /\ Initialize[14] = IfTwo(ResetPort(2))
    /\ Initialize[15] = Send(<<Bits(\hF5)>>, 1)
    /\ Initialize[16] = Send(<<Bits(\hF2)>>, 1)
    /\ Initialize[17] = Identify(1)
    /\ Initialize[18] = Send(<<Bits(\hF5)>>, 2)
    /\ Initialize[19] = Send(<<Bits(\hF2)>>, 2)
    /\ Initialize[20] = Identify(2)
    /\ Initialize[21] = Send(<<Bits(\hF0), Bits(\h02)>>, 1)
    /\ Initialize[22] = Send(<<Bits(\hF4)>>, 1)
    /\ Initialize[23] = Send(<<Bits(\hF4)>>, 2)
    /\ Initialize[24] = Command("readConfig")
    /\ Initialize[25].op = "ccb" /\ Initialize[25].detect = FALSE
    /\ Initialize[26] = Write({}, {0, 1})
    /\ Initialize[27] = Command("enable1")
    /\ Initialize[28] = IfTwo(Command("enable2"))
<1>1. Len(Initialize) = 28
  BY DEF Initialize, InitKeyboard
<1>2. /\ Initialize[1] = Command("disable1")
      /\ Initialize[2] = Command("disable2")
      /\ Initialize[3] = Read
      /\ Initialize[4] = Command("readConfig")
  BY DEF Initialize, InitKeyboard
<1>3. /\ Initialize[6] = DisableInterrupts
      /\ Initialize[7] = Command("selfTest")
      /\ Initialize[8] = Read
      /\ Initialize[9] = Command("test1")
      /\ Initialize[10] = Read
  BY DEF Initialize, InitKeyboard
<1>4. /\ Initialize[11] = IfTwo(Command("test2"))
      /\ Initialize[12] = IfTwo(Read)
      /\ Initialize[13] = ResetPort(1)
      /\ Initialize[14] = IfTwo(ResetPort(2))
      /\ Initialize[15] = Send(<<Bits(\hF5)>>, 1)
  BY DEF Initialize, InitKeyboard
<1>5. /\ Initialize[16] = Send(<<Bits(\hF2)>>, 1)
      /\ Initialize[17] = Identify(1)
      /\ Initialize[18] = Send(<<Bits(\hF5)>>, 2)
      /\ Initialize[19] = Send(<<Bits(\hF2)>>, 2)
      /\ Initialize[20] = Identify(2)
  BY DEF Initialize, InitKeyboard
<1>6. /\ Initialize[21] = Send(<<Bits(\hF0), Bits(\h02)>>, 1)
      /\ Initialize[22] = Send(<<Bits(\hF4)>>, 1)
      /\ Initialize[23] = Send(<<Bits(\hF4)>>, 2)
      /\ Initialize[24] = Command("readConfig")
  BY DEF Initialize, InitKeyboard
<1>7. /\ Initialize[5].op = "ccb" /\ Initialize[5].detect = TRUE
      /\ Initialize[25].op = "ccb" /\ Initialize[25].detect = FALSE
  BY DEF Initialize, InitKeyboard, ReadCcb
<1>8. Initialize[26] = Write({}, {0, 1})
  BY DEF Initialize, InitKeyboard
<1>9. /\ Initialize[27] = Command("enable1")
      /\ Initialize[28] = IfTwo(Command("enable2"))
  BY DEF Initialize, InitKeyboard
<1> QED BY <1>1, <1>2, <1>3, <1>4, <1>5, <1>6, <1>7, <1>8, <1>9

(* The answer to one byte. *)
LEMMA FlattenOne ==
    ASSUME NEW S, NEW a \in Seq(S)
    PROVE  FlattenSeq(<<a>>) = a
BY DEF FlattenSeq

(* The answers to two bytes, one after the other. *)
LEMMA FlattenTwo ==
    ASSUME NEW S, NEW a \in Seq(S), NEW b \in Seq(S)
    PROVE  FlattenSeq(<<a, b>>) = a \o b
<1> DEFINE f == [i \in 1..2 |-> IF i = 1 THEN a ELSE a \o b]
           g == CHOOSE g : g = [i \in 1..2 |-> IF i = 1 THEN <<a, b>>[i]
                                               ELSE g[i - 1] \o <<a, b>>[i]]
<1>1. f = [i \in 1..2 |-> IF i = 1 THEN <<a, b>>[i] ELSE f[i - 1] \o <<a, b>>[i]]
  OBVIOUS
<1>2. g = [i \in 1..2 |-> IF i = 1 THEN <<a, b>>[i] ELSE g[i - 1] \o <<a, b>>[i]]
  BY <1>1
<1>3. FlattenSeq(<<a, b>>) = g[2]
  BY DEF FlattenSeq
<1> HIDE DEF g
<1>4. \A i \in 1..2 : g[i] = IF i = 1 THEN <<a, b>>[i] ELSE g[i - 1] \o <<a, b>>[i]
  BY <1>2, Zenon
<1>5. g[1] = a
  BY <1>4
<1>6. g[2] = g[1] \o b
  BY <1>4
<1> QED BY <1>3, <1>5, <1>6

(* Initialize has 28 steps and SetHandler 4 more; the lines are unmasked   *)
(* by the first and the third of them.                                     *)
LEMMA EndOfCode ==
    /\ Steps = 28 /\ Len(SetHandlers) = 4
    /\ Initialized <=> at.pc > 28
    /\ Running <=> at.pc > 32
    /\ Unmasked \subseteq {1, 12}
    /\ 1 \in Unmasked <=> at.pc > 29
    /\ 12 \in Unmasked <=> at.pc > 31
<1>1. Steps = 28 /\ Len(SetHandlers) = 4
  BY Code DEF Steps, SetHandlers
<1> QED BY <1>1 DEF Initialized, Running, Unmasked

(* The step that is next. *)
LEMMA NowAt ==
    ASSUME TypeOK
    PROVE  /\ at.pc = 1 => Now = Command("disable1")
           /\ at.pc = 2 => Now = Command("disable2")
           /\ at.pc \in {3, 8, 10} => Now = Read
           /\ at.pc \in {4, 24} => Now = Command("readConfig")
           /\ at.pc = 5 => Now.op = "ccb" /\ Now.detect = TRUE
           /\ at.pc = 6 => Now = DisableInterrupts
           /\ at.pc = 7 => Now = Command("selfTest")
           /\ at.pc = 9 => Now = Command("test1")
           /\ at.pc = 11 => Now = IF local.channels = 2 THEN Command("test2")
                                  ELSE IfTwo(Command("test2"))
           /\ at.pc = 12 => Now = IF local.channels = 2 THEN Read ELSE IfTwo(Read)
           /\ at.pc = 13 => Now = ResetPort(1)
           /\ at.pc = 14 => Now = IF local.channels = 2 THEN ResetPort(2)
                                  ELSE IfTwo(ResetPort(2))
           /\ at.pc = 15 => Now = Send(<<Bits(\hF5)>>, 1)
           /\ at.pc = 16 => Now = Send(<<Bits(\hF2)>>, 1)
           /\ at.pc = 17 => Now = Identify(1)
           /\ at.pc = 18 => Now = Send(<<Bits(\hF5)>>, 2)
           /\ at.pc = 19 => Now = Send(<<Bits(\hF2)>>, 2)
           /\ at.pc = 20 => Now = Identify(2)
           /\ at.pc = 21 => Now = Send(<<Bits(\hF0), Bits(\h02)>>, 1)
           /\ at.pc = 22 => Now = Send(<<Bits(\hF4)>>, 1)
           /\ at.pc = 23 => Now = Send(<<Bits(\hF4)>>, 2)
           /\ at.pc = 25 => Now.op = "ccb" /\ Now.detect = FALSE
           /\ at.pc = 26 => Now = Write({}, {0, 1})
           /\ at.pc = 27 => Now = Command("enable1")
           /\ at.pc = 28 => Now = IF local.channels = 2 THEN Command("enable2")
                                  ELSE IfTwo(Command("enable2"))
           /\ at.pc > 28 => Now = [op |-> "done"]
<1> USE TypeOK
<1>1. at.pc \in 1..33 /\ local.channels \in {1, 2}
  BY DEF TypeOK, Points, Locals, Machines
<1>2. at.pc > 28 => Now = [op |-> "done"]
  BY EndOfCode DEF Now
<1>3. ASSUME at.pc =< 28
      PROVE  Now = IF Initialize[at.pc].op = "iftwo" /\ local.channels = 2
                   THEN Initialize[at.pc].then ELSE Initialize[at.pc]
  BY <1>1, <1>3, EndOfCode DEF Now
<1>4. ASSUME at.pc \in {11, 12, 14, 28}
      PROVE  Now = IF local.channels = 2 THEN Initialize[at.pc].then
                   ELSE Initialize[at.pc]
  BY <1>3, <1>4, Code DEF IfTwo
<1>5. ASSUME at.pc \in 1..28 \ {11, 12, 14, 28}
      PROVE  Now = Initialize[at.pc]
  BY <1>3, <1>5, Code
     DEF Command, Read, ReadCcb, DisableInterrupts, Write, Send, ResetPort, Identify
<1>6. /\ at.pc = 1 => Now = Command("disable1")
      /\ at.pc = 2 => Now = Command("disable2")
      /\ at.pc \in {3, 8, 10} => Now = Read
      /\ at.pc \in {4, 24} => Now = Command("readConfig")
      /\ at.pc = 6 => Now = DisableInterrupts
      /\ at.pc = 7 => Now = Command("selfTest")
      /\ at.pc = 9 => Now = Command("test1")
      /\ at.pc = 26 => Now = Write({}, {0, 1})
      /\ at.pc = 27 => Now = Command("enable1")
  BY <1>5, Code
<1>7. /\ at.pc = 5 => Now.op = "ccb" /\ Now.detect = TRUE
      /\ at.pc = 25 => Now.op = "ccb" /\ Now.detect = FALSE
  BY <1>5, Code
<1>8. /\ at.pc = 13 => Now = ResetPort(1)
      /\ at.pc = 15 => Now = Send(<<Bits(\hF5)>>, 1)
      /\ at.pc = 16 => Now = Send(<<Bits(\hF2)>>, 1)
      /\ at.pc = 17 => Now = Identify(1)
      /\ at.pc = 18 => Now = Send(<<Bits(\hF5)>>, 2)
      /\ at.pc = 19 => Now = Send(<<Bits(\hF2)>>, 2)
      /\ at.pc = 20 => Now = Identify(2)
      /\ at.pc = 21 => Now = Send(<<Bits(\hF0), Bits(\h02)>>, 1)
      /\ at.pc = 22 => Now = Send(<<Bits(\hF4)>>, 1)
      /\ at.pc = 23 => Now = Send(<<Bits(\hF4)>>, 2)
  BY <1>5, Code
<1>9. /\ at.pc = 11 => Now = IF local.channels = 2 THEN Command("test2")
                             ELSE IfTwo(Command("test2"))
      /\ at.pc = 12 => Now = IF local.channels = 2 THEN Read ELSE IfTwo(Read)
      /\ at.pc = 14 => Now = IF local.channels = 2 THEN ResetPort(2)
                             ELSE IfTwo(ResetPort(2))
      /\ at.pc = 28 => Now = IF local.channels = 2 THEN Command("enable2")
                             ELSE IfTwo(Command("enable2"))
  BY <1>4, Code DEF IfTwo
<1> QED BY <1>2, <1>6, <1>7, <1>8, <1>9

(* At which steps each operation is next. *)
LEMMA OpAt ==
    ASSUME TypeOK
    PROVE  /\ Now.op = "command" =>
                /\ at.pc \in {1, 2, 4, 7, 9, 11, 24, 27, 28}
                /\ at.pc \in {11, 28} => local.channels = 2
           /\ Now.op = "read" => /\ at.pc \in {3, 8, 10, 12}
                                 /\ at.pc = 12 => local.channels = 2
           /\ Now.op = "ccb" => at.pc \in {5, 25}
           /\ Now.op = "write" => at.pc \in {6, 26}
           /\ Now.op = "send" => at.pc \in {15, 16, 18, 19, 21, 22, 23}
           /\ Now.op = "reset" => /\ at.pc \in {13, 14}
                                  /\ at.pc = 14 => local.channels = 2
           /\ Now.op = "type" => at.pc \in {17, 20}
           /\ Now.op = "iftwo" => at.pc \in {11, 12, 14, 28} /\ local.channels = 1
           /\ at.pc > 28 => Now.op = "done"
<1>1. at.pc \in 1..33 /\ local.channels \in {1, 2}
  BY TypeOK DEF TypeOK, Points, Locals, Machines
<1>2. /\ at.pc \in {1, 2, 4, 7, 9, 24, 27} => Now.op = "command"
      /\ at.pc \in {3, 8, 10} => Now.op = "read"
  BY TypeOK, NowAt DEF Command, Read
<1>6. at.pc \in {5, 25} => Now.op = "ccb"
  BY TypeOK, NowAt
<1>7. ASSUME at.pc > 28 PROVE Now.op = "done"
  <2>1. Now = [op |-> "done"]
    BY <1>7, TypeOK, NowAt
  <2> QED BY <2>1
<1>4. at.pc \in {6, 26} => Now.op = "write"
  BY TypeOK, NowAt DEF DisableInterrupts, Write
<1>5. /\ at.pc \in {15, 16, 18, 19, 21, 22, 23} => Now.op = "send"
      /\ at.pc = 13 => Now.op = "reset"
      /\ at.pc \in {17, 20} => Now.op = "type"
  BY TypeOK, NowAt DEF Send, ResetPort, Identify
<1>3. /\ at.pc \in {11, 28} =>
            Now.op = IF local.channels = 2 THEN "command" ELSE "iftwo"
      /\ at.pc = 12 => Now.op = IF local.channels = 2 THEN "read" ELSE "iftwo"
      /\ at.pc = 14 => Now.op = IF local.channels = 2 THEN "reset" ELSE "iftwo"
  BY TypeOK, NowAt DEF Command, Read, ResetPort, IfTwo
<1> QED BY <1>1, <1>2, <1>3, <1>4, <1>5, <1>6, <1>7

-----------------------------------------------------------------------------
(* What the operations do to the controller and the devices. *)

(* What the device on p sends for the bytes of the present step. *)
Replies(p) == FlattenSeq([i \in DOMAIN Now.bytes |-> Answer(p, Now.bytes[i])])

(* Devices answer with sequences of bytes. *)
LEMMA AnswerTyped ==
    ASSUME NEW p \in Ports, NEW b
    PROVE  Answer(p, b) \in Seq(Byte)
BY AnswersAreBytes, BytesAreBytes DEF Answer

(* What is sent by SendCommand and Reset, and what a device sends for it. *)
LEMMA Sent ==
    ASSUME TypeOK, Now.op \in {"send", "reset"}, NEW p \in Ports
    PROVE  /\ Now.port \in Ports
           /\ at.pc # 21 => Replies(p) = Answer(p, Now.bytes[1])
           /\ at.pc = 21 => Replies(p) = Answer(p, Bits(\hF0)) \o Answer(p, Bits(\h02))
           /\ Replies(p) \in Seq(Byte)
<1>1. /\ at.pc \in {13, 14, 15, 16, 18, 19, 21, 22, 23}
      /\ at.pc = 14 => local.channels = 2
  BY OpAt
<1>2. Now.port \in Ports
  BY <1>1, NowAt DEF ResetPort, Send, Ports
<1>3. ASSUME NEW b, Now.bytes = <<b>>
      PROVE  Replies(p) = Answer(p, Now.bytes[1])
  <2>1. [i \in DOMAIN Now.bytes |-> Answer(p, Now.bytes[i])] = <<Answer(p, b)>>
    BY <1>3
  <2> QED BY <1>3, <2>1, AnswerTyped, FlattenOne DEF Replies
<1>4. ASSUME NEW b, NEW c, Now.bytes = <<b, c>>
      PROVE  Replies(p) = Answer(p, b) \o Answer(p, c)
  <2>1. [i \in DOMAIN Now.bytes |-> Answer(p, Now.bytes[i])]
            = <<Answer(p, b), Answer(p, c)>>
    BY <1>4
  <2> QED BY <1>4, <2>1, AnswerTyped, FlattenTwo DEF Replies
<1>5. ASSUME at.pc # 21
      PROVE  \E b : Now.bytes = <<b>>
  BY <1>1, <1>5, NowAt DEF ResetPort, Send
<1>6. at.pc = 21 => Now.bytes = <<Bits(\hF0), Bits(\h02)>>
  BY NowAt DEF Send
<1>7. ASSUME at.pc # 21
      PROVE  Replies(p) = Answer(p, Now.bytes[1])
  BY <1>3, <1>5, <1>7
<1>8. ASSUME at.pc = 21
      PROVE  Replies(p) = Answer(p, Bits(\hF0)) \o Answer(p, Bits(\h02))
  BY <1>4, <1>6, <1>8
<1>9. Replies(p) \in Seq(Byte)
  <2>1. ASSUME NEW b, NEW c
        PROVE  Answer(p, b) \o Answer(p, c) \in Seq(Byte)
    BY AnswerTyped, ConcatProperties
  <2>2. \A b : Answer(p, b) \in Seq(Byte)
    BY AnswerTyped
  <2>3. CASE at.pc = 21
    BY <1>8, <2>1, <2>3
  <2>4. CASE at.pc # 21
    BY <1>7, <2>2, <2>4
  <2> QED BY <2>3, <2>4
<1> QED BY <1>2, <1>7, <1>8, <1>9

(* The controller goes to c and latches the lines that rise. *)
LEMMA ControllerStep ==
    ASSUME NEW c \in Controllers, Controller(c)
    PROVE  /\ ctl' \in Controllers
           /\ ctl'.obf = c.obf /\ ctl'.data = c.data
           /\ ctl'.answers = c.answers /\ ctl'.config = c.config
           /\ ctl'.irr = c.irr \cup {l \in {1, 12} : Level(l, c) /\ ~Level(l, ctl)}
BY DEF Controller, Controllers

(* in8(DATA_PORT) empties the buffer and changes nothing else of it. *)
LEMMA InStep ==
    ASSUME TypeOK, In
    PROVE  /\ ctl' \in Controllers
           /\ ctl'.obf = Empty /\ ctl'.data = ctl.data
           /\ ctl'.answers = ctl.answers /\ ctl'.config = ctl.config
<1> DEFINE c == [ctl EXCEPT !.obf = Empty]
<1>3. ctl \in Controllers /\ Empty \in 0..3
  BY TypeOK DEF TypeOK, Empty
<1>1. /\ c \in Controllers
      /\ c.obf = Empty /\ c.data = ctl.data
      /\ c.answers = ctl.answers /\ c.config = ctl.config
  BY <1>3 DEF Controllers
<1>2. Controller(c)
  BY In DEF In
<1> HIDE DEF c
<1> QED BY <1>1, <1>2, ControllerStep

(* A command leaves what is in the buffer. *)
LEMMA CommandedStep ==
    ASSUME TypeOK, NEW b, Controller(Commanded(b))
    PROVE  /\ ctl' \in Controllers
           /\ ctl'.obf = ctl.obf /\ ctl'.data = ctl.data
           /\ ctl'.answers = Commanded(b).answers
           /\ ctl'.config = Commanded(b).config
<1>2. ctl \in Controllers
  BY TypeOK DEF TypeOK
<1>3. ASSUME NEW x \in Byte
      PROVE  LET c == [ctl EXCEPT !.config = x]
             IN  c \in Controllers /\ c.obf = ctl.obf /\ c.data = ctl.data
  BY <1>2 DEF Controllers
<1>4. ASSUME NEW x \in Byte
      PROVE  LET c == [ctl EXCEPT !.answers = Append(@, x)]
             IN  c \in Controllers /\ c.obf = ctl.obf /\ c.data = ctl.data
  <2>1. PICK a \in Seq(Byte) : a = Append(ctl.answers, x)
    <3>1. ctl.answers \in Seq(Byte)
      BY <1>2 DEF Controllers
    <3> QED BY <3>1, AppendProperties
  <2>2. LET c == [ctl EXCEPT !.answers = a]
        IN  c \in Controllers /\ c.obf = ctl.obf /\ c.data = ctl.data
    BY <1>2 DEF Controllers
  <2> QED BY <2>1, <2>2
<1>5. /\ ctl.config \in Byte
      /\ \A p \in Ports : /\ ctl.config \cup {Disabled(p)} \in Byte
                          /\ ctl.config \ {Disabled(p)} \in Byte
  BY <1>2 DEF Controllers, Byte, Disabled, Ports
<1>1. /\ Commanded(b) \in Controllers
      /\ Commanded(b).obf = ctl.obf /\ Commanded(b).data = ctl.data
  BY <1>2, <1>3, <1>4, <1>5, BytesAreBytes, AnswersAreBytes DEF Commanded, Ports
<1> QED BY <1>1, ControllerStep

(* A byte for a device enables its port and adds the answers to what it    *)
(* has to send.                                                            *)
LEMMA DeliverStep ==
    ASSUME TypeOK, SendBytes, NEW p, p = Reached(Now.port)
    PROVE  /\ p \in Ports
           /\ ctl' \in Controllers
           /\ ctl'.obf = ctl.obf /\ ctl'.data = ctl.data
           /\ ctl'.answers = ctl.answers /\ ctl'.config = ctl.config \ {Disabled(p)}
           /\ Replies(p) \in Seq(Byte)
           /\ p \notin dev.present => dev' = dev
           /\ p \in dev.present =>
                dev' = [dev EXCEPT !.out[p] = @ \o Replies(p),
                                   !.scanning = Scanning(p, Now.bytes[1])]
<1>1. Now.op \in {"send", "reset"} /\ Deliver(Now.bytes, Now.port)
  BY SendBytes DEF SendBytes
<1>2. p \in Ports /\ Replies(p) \in Seq(Byte)
  BY <1>1, TypeOK, Sent DEF Reached, Ports
<1> DEFINE c == [ctl EXCEPT !.config = @ \ {Disabled(p)}]
<1>3. /\ c \in Controllers
      /\ c.obf = ctl.obf /\ c.data = ctl.data
      /\ c.answers = ctl.answers /\ c.config = ctl.config \ {Disabled(p)}
  BY TypeOK DEF TypeOK, Controllers, Byte
<1>4. Controller(c)
  BY <1>1 DEF Deliver, Reached
<1>5. dev' = IF p \notin dev.present THEN dev
             ELSE [dev EXCEPT !.out[p] = @ \o Replies(p),
                              !.scanning = Scanning(p, Now.bytes[1])]
  BY <1>1 DEF Deliver, Reached, Replies
<1> HIDE DEF c
<1> QED BY <1>2, <1>3, <1>4, <1>5, ControllerStep

(* A byte enters the empty buffer from one source; only port 2 raises line *)
(* 12.                                                                     *)
LEMMA FillStep ==
    ASSUME TypeOK, NEW o \in 0..2, Fill(o)
    PROVE  /\ ctl' \in Controllers
           /\ ctl.obf = Empty /\ ctl'.obf = o /\ ctl'.config = ctl.config
           /\ 1 \in ctl'.irr => 1 \in ctl.irr \/ o # 2
           /\ 12 \in ctl'.irr => 12 \in ctl.irr \/ o = 2
           /\ o = 0 => /\ ctl.answers # <<>>
                       /\ ctl'.data = Head(ctl.answers)
                       /\ ctl'.answers = Tail(ctl.answers)
                       /\ dev' = dev
           /\ o # 0 => /\ ctl.answers = <<>> /\ ctl'.answers = <<>>
                       /\ dev.out[o] # <<>>
                       /\ ctl'.data = Head(dev.out[o])
                       /\ dev' = [dev EXCEPT !.out[o] = Tail(@)]
<1>1. ctl \in Controllers /\ dev.out \in [Ports -> Seq(Byte)] /\ CanFill(o)
  BY TypeOK, Fill(o) DEF TypeOK, Fill, Machines
<1>2. CASE o = 0
  <2>1. ctl.answers # <<>> /\ ctl.answers \in Seq(Byte) /\ ctl.obf = Empty
    BY <1>1, <1>2 DEF CanFill, Controllers
  <2>2. PICK b \in 0..3, d \in Byte, a \in Seq(Byte) :
            b = o /\ d = Head(ctl.answers) /\ a = Tail(ctl.answers)
    <3>1. o \in 0..3 /\ Head(ctl.answers) \in Byte /\ Tail(ctl.answers) \in Seq(Byte)
      BY <2>1, HeadTailProperties
    <3> QED BY <3>1
  <2>3. PICK c : c = [ctl EXCEPT !.obf = b, !.data = d, !.answers = a]
    OBVIOUS
  <2>4. /\ c \in Controllers
        /\ c.obf = b /\ c.data = d /\ c.config = ctl.config
        /\ c.answers = a /\ c.irr = ctl.irr
    BY <1>1, <2>3 DEF Controllers
  <2>5. Controller(c) /\ dev' = dev
    BY <1>2, <2>2, <2>3, Fill(o) DEF Fill
  <2>6. 12 \in ctl'.irr => 12 \in ctl.irr
    BY <1>2, <2>2, <2>4, <2>5, ControllerStep DEF Level
  <2> QED BY <1>2, <2>1, <2>2, <2>4, <2>5, <2>6, ControllerStep
<1>3. CASE o \in {1, 2}
  <2>1. /\ dev.out[o] # <<>> /\ dev.out[o] \in Seq(Byte)
        /\ ctl.obf = Empty /\ ctl.answers = <<>>
    BY <1>1, <1>3 DEF CanFill, Ports
  <2>2. PICK b \in 0..3, d \in Byte : b = o /\ d = Head(dev.out[o])
    BY <2>1, HeadTailProperties
  <2>3. PICK c : c = [ctl EXCEPT !.obf = b, !.data = d]
    OBVIOUS
  <2>4. /\ c \in Controllers
        /\ c.obf = b /\ c.data = d /\ c.config = ctl.config
        /\ c.answers = ctl.answers /\ c.irr = ctl.irr
    BY <1>1, <2>3 DEF Controllers
  <2>5. Controller(c) /\ dev' = [dev EXCEPT !.out[o] = Tail(@)]
    BY <1>3, <2>2, <2>3, Fill(o) DEF Fill
  <2>6. /\ 1 \in ctl'.irr => 1 \in ctl.irr \/ o # 2
        /\ 12 \in ctl'.irr => 12 \in ctl.irr \/ o = 2
    BY <2>2, <2>4, <2>5, ControllerStep DEF Level
  <2> QED BY <1>3, <2>1, <2>2, <2>4, <2>5, <2>6, ControllerStep
<1> QED BY <1>2, <1>3

-----------------------------------------------------------------------------
(* Types. *)

(* The first states satisfy the type invariant. *)
LEMMA InitTyped == Init => TypeOK
<1> SUFFICES ASSUME Init PROVE TypeOK
  OBVIOUS
<1> USE PS2Assumption DEF Init
<1>1. ctl \in Controllers
  <2>1. PICK c \in BiosConfigs, o \in {1, Empty} :
              ctl = [obf |-> o, data |-> {}, answers |-> <<>>, config |-> c,
                     irr |-> IF o = 1 /\ 0 \in c THEN {1} ELSE {}]
    OBVIOUS
  <2> QED BY <2>1, AnswersAreBytes DEF Controllers, Empty, Byte
<1>2. dev \in Machines
  <2>1. [p \in Ports |-> <<>>] \in [Ports -> Seq(Byte)]
    OBVIOUS
  <2> QED BY <2>1 DEF Machines
<1>3. at \in Points
  BY DEF Points, Places
<1>4. local \in Locals
  BY AnswersAreBytes DEF Locals
<1>5. irq \in [handlers : SUBSET {1, 12}, cpu : {"main", "mouse"}]
  OBVIOUS
<1>6. seen \in [keys : Nat, moves : Nat, noisy : BOOLEAN, late : Nat,
                early : BOOLEAN, log : Seq(Byte)]
  OBVIOUS
<1> QED BY <1>1, <1>2, <1>3, <1>4, <1>5, <1>6 DEF TypeOK

(* The places stay within the code. *)
LEMMA AdvanceTyped ==
    ASSUME TypeOK, at.pc =< 32, Advance
    PROVE  at' \in Points
<1>1. at.pc \in 1..33
  BY DEF TypeOK, Points
<1>2. \A n \in 1..33 : n =< 32 => n + 1 \in 1..33
  OBVIOUS
<1>3. at.pc + 1 \in 1..33
  BY <1>1, <1>2
<1> QED BY <1>3 DEF Advance, Points, Places

(* A place inside SendCommand, Reset or Identify is one too. *)
LEMMA GotoTyped ==
    ASSUME TypeOK, NEW place \in Places, Goto(place)
    PROVE  at' \in Points
BY DEF TypeOK, Goto, Points

(* Every step of Initialize preserves the type invariant. *)
LEMMA DriverTyped ==
    ASSUME TypeOK, Driver
    PROVE  TypeOK'
<1> USE TypeOK
<1>1. at \in Points /\ local \in Locals /\ dev \in Machines /\ ctl \in Controllers
  BY DEF TypeOK
<1>2. irq' \in [handlers : SUBSET {1, 12}, cpu : {"main", "mouse"}]
  BY Driver DEF Driver, TypeOK
<1>3. seen' \in [keys : Nat, moves : Nat, noisy : BOOLEAN, late : Nat,
                 early : BOOLEAN, log : Seq(Byte)]
  <2>1. seen \in [keys : Nat, moves : Nat, noisy : BOOLEAN, late : Nat,
                  early : BOOLEAN, log : Seq(Byte)]
    BY DEF TypeOK
  <2>2. seen' = seen \/ seen' = [seen EXCEPT !.late = @ + 1]
    BY Driver DEF Driver, Ready
  <2> QED BY <2>1, <2>2
<1> SUFFICES /\ ctl' \in Controllers /\ at' \in Points
             /\ local' \in Locals /\ dev' \in Machines
  BY <1>2, <1>3 DEF TypeOK
<1>4. Advance /\ at.pc =< 28 => at' \in Points
  BY <1>1, AdvanceTyped DEF Points
<1>5. \A place \in Places : Goto(place) => at' \in Points
  BY GotoTyped
<1>6. In => ctl' \in Controllers
  BY InStep
<1>7. Now.op # "done" => at.pc =< 28
  BY <1>1, OpAt DEF Points
<1>8. CASE SkipSecond
  BY <1>1, <1>4, <1>7, <1>8 DEF SkipSecond
<1>9. CASE DoCommand
  BY <1>1, <1>4, <1>7, <1>9, CommandedStep DEF DoCommand
<1>10. CASE DoRead
  BY <1>1, <1>4, <1>6, <1>7, <1>10 DEF DoRead
<1>11. CASE DoReadCcb
  <2>1. local' \in Locals
    <3>1. ctl.data \in Byte
      BY <1>1 DEF Controllers
    <3>2. PICK n \in {1, 2} : local' = [local EXCEPT !.ccb = ctl.data, !.channels = n]
      <4>1. local.channels \in {1, 2}
        BY <1>1 DEF Locals
      <4> QED BY <1>11, <4>1 DEF DoReadCcb
    <3> QED BY <1>1, <3>1, <3>2 DEF Locals
  <2> QED BY <1>1, <1>4, <1>6, <1>7, <1>11, <2>1 DEF DoReadCcb
<1>12. CASE DoWrite
  <2>1. Now.off \in SUBSET (0..7) /\ Now.on \in SUBSET (0..7)
    BY <1>12, OpAt, NowAt DEF DoWrite, DisableInterrupts, Write, Translate
  <2>2. (local.ccb \ Now.off) \cup Now.on \in Byte
    BY <1>1, <2>1 DEF Locals, Byte
  <2>3. /\ local' \in Locals
        /\ local'.ccb \in Byte
    BY <1>1, <1>12, <2>2 DEF Locals, DoWrite
  <2>4. PICK c : c = [ctl EXCEPT !.config = local'.ccb]
    OBVIOUS
  <2>5. c \in Controllers /\ Controller(c)
    BY <1>1, <1>12, <2>3, <2>4 DEF DoWrite, Controllers
  <2> QED BY <1>1, <1>4, <1>7, <1>12, <2>3, <2>5, ControllerStep DEF DoWrite
<1>13. CASE Flush
  BY <1>1, <1>6, <1>13 DEF Flush
<1>14. CASE SendBytes
  <2>1. PICK p : p = Reached(Now.port)
    OBVIOUS
  <2>2. /\ p \in Ports /\ ctl' \in Controllers /\ Replies(p) \in Seq(Byte)
        /\ p \notin dev.present => dev' = dev
        /\ p \in dev.present =>
             dev' = [dev EXCEPT !.out[p] = @ \o Replies(p),
                                !.scanning = Scanning(p, Now.bytes[1])]
    BY <1>14, <2>1, DeliverStep
  <2>3. dev' \in Machines
    <3>1. ASSUME p \in dev.present
          PROVE  dev' \in Machines
      <4>1. PICK s : s = Scanning(p, Now.bytes[1])
        OBVIOUS
      <4>2. s \in SUBSET Ports
        BY <1>1, <2>2, <4>1 DEF Machines, Scanning
      <4>3. PICK r \in Seq(Byte) : r = dev.out[p] \o Replies(p)
        <5>1. dev.out[p] \in Seq(Byte)
          BY <1>1, <2>2 DEF Machines
        <5> QED BY <2>2, <5>1, ConcatProperties
      <4>4. dev' = [dev EXCEPT !.out[p] = r, !.scanning = s]
        BY <2>2, <3>1, <4>1, <4>3
      <4> QED BY <1>1, <2>2, <4>2, <4>4 DEF Machines
    <3> QED BY <1>1, <2>2, <3>1
  <2>4. local' = local /\ Goto("sent")
    BY <1>14 DEF SendBytes
  <2> QED BY <1>1, <1>5, <2>2, <2>3, <2>4 DEF Places
<1>15. CASE Poll
  <2>1. at' \in Points
    <3>1. Advance \/ at' = [at EXCEPT !.timeout = @ + 1]
      BY <1>15 DEF Poll
    <3> QED BY <1>1, <1>4, <1>7, <1>15, <3>1 DEF Poll, Points
  <2> QED BY <1>1, <1>6, <1>15, <2>1 DEF Poll
<1>16. CASE DoIdentify
  <2>1. Now.port \in Ports
    BY <1>16, OpAt, NowAt DEF DoIdentify, Identify, Ports
  <2>2. PICK q \in Seq(Byte) : q = Append(local.type[Now.port], ctl.data)
    <3>1. local.type[Now.port] \in Seq(Byte) /\ ctl.data \in Byte
      BY <1>1, <2>1 DEF Locals, Controllers
    <3> QED BY <3>1, AppendProperties
  <2>3. local' = [local EXCEPT !.type[Now.port] = q]
    BY <1>16, <2>2 DEF DoIdentify
  <2>4. local' \in Locals
    BY <1>1, <2>1, <2>3 DEF Locals
  <2>5. at' \in Points
    BY <1>4, <1>5, <1>7, <1>16 DEF DoIdentify, Places
  <2> QED BY <1>1, <1>6, <1>16, <2>4, <2>5 DEF DoIdentify
<1>17. ASSUME NEW place, NEW next \in {"second", "third", "end"}, NEW right,
              ResetReads(place, next, right)
       PROVE  /\ ctl' \in Controllers /\ at' \in Points
              /\ local' \in Locals /\ dev' \in Machines
  <2>1. next # "end" => next \in Places
    BY DEF Places
  <2> QED BY <1>1, <1>4, <1>5, <1>6, <1>7, <1>17, <2>1 DEF ResetReads
<1>18. \/ SkipSecond \/ DoCommand \/ DoRead \/ DoReadCcb \/ DoWrite
       \/ Flush \/ SendBytes \/ Poll \/ DoIdentify
       \/ ResetReads("sent", "second", {ACK, BAT})
       \/ ResetReads("second", "third", {ACK, BAT})
       \/ ResetReads("third", "end", {{}})
  BY Driver DEF Driver
<1> QED BY <1>8, <1>9, <1>10, <1>11, <1>12, <1>13, <1>14, <1>15, <1>16, <1>17, <1>18

(* SetHandler runs after Initialize. *)
LEMMA HandlerPoint ==
    ASSUME TypeOK, SetHandler
    PROVE  at.pc \in 29..32
<1>1. at.pc \in 1..33
  BY DEF TypeOK, Points
<1>2. at.pc > 28 /\ ~(at.pc > 32)
  BY EndOfCode DEF SetHandler
<1> QED BY <1>1, <1>2

(* Every other step preserves the type invariant. *)
LEMMA OtherTyped ==
    ASSUME TypeOK, [SetHandler \/ Interrupts \/ Fills \/ Key \/ Move \/ Idle]_vars
    PROVE  TypeOK'
<1> DEFINE Irqs == [handlers : SUBSET {1, 12}, cpu : {"main", "mouse"}]
           Histories == [keys : Nat, moves : Nat, noisy : BOOLEAN, late : Nat,
                         early : BOOLEAN, log : Seq(Byte)]
<1> USE TypeOK, PS2Assumption
<1>1. /\ ctl \in Controllers /\ dev \in Machines /\ at \in Points /\ local \in Locals
      /\ irq \in Irqs /\ seen \in Histories
  BY DEF TypeOK
<1> SUFFICES /\ ctl' \in Controllers /\ dev' \in Machines /\ at' \in Points
             /\ local' \in Locals /\ irq' \in Irqs /\ seen' \in Histories
  BY DEF TypeOK
<1> HIDE DEF Irqs, Histories
<1>2. ASSUME NEW l,
             \/ ctl' = [ctl EXCEPT !.irr = @ \ {l}]
             \/ ctl' = [ctl EXCEPT !.irr = @ \ {l}, !.obf = Empty]
      PROVE  ctl' \in Controllers
  <2>1. PICK s \in SUBSET {1, 12}, o \in 0..3 : s = ctl.irr \ {l} /\ o = Empty
    <3>1. ctl.irr \ {l} \in SUBSET {1, 12}
      BY <1>1 DEF Controllers
    <3>2. Empty \in 0..3
      BY DEF Empty
    <3> QED BY <3>1, <3>2, Zenon
  <2>2. CASE ctl' = [ctl EXCEPT !.irr = @ \ {l}]
    <3>1. ctl' = [ctl EXCEPT !.irr = s]
      BY <2>1, <2>2
    <3> QED BY <1>1, <3>1 DEF Controllers
  <2>3. CASE ctl' = [ctl EXCEPT !.irr = @ \ {l}, !.obf = Empty]
    <3>1. ctl' = [ctl EXCEPT !.irr = s, !.obf = o]
      BY <2>1, <2>3
    <3> QED BY <1>1, <3>1 DEF Controllers
  <2> QED BY <1>2, <2>2, <2>3
<1>3. CASE SetHandler
  <2>1. at' \in Points
    <3>1. at.pc =< 32
      BY <1>3, HandlerPoint
    <3> QED BY <1>3, <3>1, AdvanceTyped DEF SetHandler
  <2>2. seen' \in Histories
    <3>1. seen' = seen \/ seen' = [seen EXCEPT !.late = @ + 1]
      BY <1>3 DEF SetHandler, Ready
    <3> QED BY <1>1, <3>1 DEF Histories
  <2>3. irq' \in Irqs
    <3>1. at.pc - Steps \in 1..4
      BY <1>3, HandlerPoint, EndOfCode
    <3>2. SetHandlers[at.pc - Steps][2] \in {1, 12}
      BY <3>1 DEF SetHandlers
    <3> QED BY <1>1, <1>3, <3>2 DEF SetHandler, Irqs
  <2> QED BY <1>1, <1>3, <2>1, <2>2, <2>3 DEF SetHandler
<1>4. ASSUME NEW l \in {1, 12}, Dropped(l)
      PROVE  /\ ctl' \in Controllers /\ dev' \in Machines /\ at' \in Points
             /\ local' \in Locals /\ irq' \in Irqs /\ seen' \in Histories
  <2>1. seen' \in Histories
    <3>1. Level(l, ctl) \in BOOLEAN
      BY DEF Level
    <3> QED BY <1>1, <1>4, <3>1 DEF Dropped, Histories
  <2> QED BY <1>1, <1>2, <1>4, <2>1 DEF Dropped
<1>5. CASE OnKeyboard
  <2>1. seen' \in Histories
    <3>1. PICK q \in Seq(Byte) : q = Append(seen.log, ctl.data)
      <4>1. seen.log \in Seq(Byte) /\ ctl.data \in Byte
        BY <1>1 DEF Histories, Controllers
      <4> QED BY <4>1, AppendProperties
    <3> QED BY <1>1, <1>5, <3>1 DEF OnKeyboard, Histories
  <2> QED BY <1>1, <1>2, <1>5, <2>1 DEF OnKeyboard
<1>6. CASE OnMouse
  <2>1. ctl' \in Controllers
    BY <1>2, <1>6, InStep DEF OnMouse
  <2>2. irq' \in Irqs
    BY <1>1, <1>6 DEF OnMouse, Irqs
  <2> QED BY <1>1, <1>6, <2>1, <2>2 DEF OnMouse
<1>7. CASE Fills
  <2>1. PICK o \in 0..2 : Fill(o)
    BY <1>7 DEF Fills
  <2>2. dev' \in Machines
    <3>1. CASE o = 0
      BY <1>1, <2>1, <3>1, FillStep
    <3>2. CASE o \in Ports
      <4>1. PICK q \in Seq(Byte) : q = Tail(dev.out[o])
        <5>1. dev.out[o] \in Seq(Byte) /\ dev.out[o] # <<>>
          BY <1>1, <2>1, <3>2, FillStep DEF Machines, Ports
        <5> QED BY <5>1, HeadTailProperties
      <4>2. dev' = [dev EXCEPT !.out[o] = q]
        BY <2>1, <3>2, <4>1, FillStep DEF Ports
      <4> QED BY <1>1, <3>2, <4>2 DEF Machines
    <3> QED BY <3>1, <3>2 DEF Ports
  <2> QED BY <1>1, <2>1, <2>2, FillStep DEF Fill
<1>8. ASSUME NEW p \in Ports, NEW q \in Seq(Byte), dev' = [dev EXCEPT !.out[p] = @ \o q]
      PROVE  dev' \in Machines
  <2>1. PICK r \in Seq(Byte) : r = dev.out[p] \o q
    <3>1. dev.out[p] \in Seq(Byte)
      BY <1>1 DEF Machines
    <3> QED BY <3>1, ConcatProperties
  <2>2. dev' = [dev EXCEPT !.out[p] = r]
    BY <1>8, <2>1
  <2> QED BY <1>1, <2>2 DEF Machines
<1>9. CASE Key
  <2>1. Keys[seen.keys + 1] \in Byte
    <3>1. seen.keys \in Nat /\ seen.keys < Len(Keys)
      BY <1>1, <1>9 DEF Key, Histories
    <3>2. seen.keys + 1 \in 1..Len(Keys)
      BY <3>1, LenProperties
    <3> QED BY <3>2, ElementOfSeq DEF Byte
  <2>2. dev' \in Machines
    <3>1. PICK r \in Seq(Byte) : r = Append(dev.out[1], Keys[seen.keys + 1])
      <4>1. dev.out[1] \in Seq(Byte)
        BY <1>1 DEF Machines, Ports
      <4> QED BY <2>1, <4>1, AppendProperties
    <3>2. dev' = [dev EXCEPT !.out[1] = r]
      BY <1>9, <3>1 DEF Key
    <3> QED BY <1>1, <3>2 DEF Machines, Ports
  <2>3. seen' \in Histories
    <3>1. PICK n \in BOOLEAN : n = (seen.noisy \/ ~Initialized)
      BY Zenon
    <3>2. PICK k \in Nat : k = seen.keys + 1
      BY <1>1 DEF Histories
    <3>3. seen' = [seen EXCEPT !.keys = k, !.noisy = n]
      BY <1>9, <3>1, <3>2, Zenon DEF Key
    <3> QED BY <1>1, <3>3 DEF Histories
  <2> QED BY <1>1, <1>9, <2>2, <2>3 DEF Key
<1>10. CASE Move
  <2>1. dev' \in Machines
    <3>1. <<Bits(\h08), {0}, {1}>> \in Seq(Byte)
      BY BytesAreBytes DEF Byte
    <3> QED BY <1>8, <1>10, <3>1 DEF Move, Ports
  <2>2. seen' \in Histories
    <3>1. PICK n \in BOOLEAN : n = (seen.noisy \/ ~Initialized)
      BY Zenon
    <3>2. PICK k \in Nat : k = seen.moves + 1
      BY <1>1 DEF Histories
    <3>3. seen' = [seen EXCEPT !.moves = k, !.noisy = n]
      BY <1>10, <3>1, <3>2, Zenon DEF Move
    <3> QED BY <1>1, <3>3 DEF Histories
  <2> QED BY <1>1, <1>10, <2>1, <2>2 DEF Move
<1>11. CASE Idle \/ UNCHANGED vars
  BY <1>1, <1>11 DEF Idle, vars
<1> QED BY <1>3, <1>4, <1>5, <1>6, <1>7, <1>9, <1>10, <1>11 DEF Interrupts

(* The type invariant of the driver and the controller holds at all times, *)
(* whatever the machine, its BIOS and the timing of the answers.           *)
THEOREM TypeCorrect == Spec => []TypeOK
<1>1. TypeOK /\ [Next]_vars => TypeOK'
  BY DriverTyped, OtherTyped DEF Next
<1> QED BY <1>1, InitTyped, PTL DEF Spec

-----------------------------------------------------------------------------
(* What can still be read. *)

(* Sources pass on sequences of bytes. *)
LEMMA WaitingTyped ==
    ASSUME TypeOK, NEW o \in 0..2
    PROVE  Waiting(o) \in Seq(Byte)
BY DEF TypeOK, Controllers, Machines, Waiting, Ports

(* Nothing can be read if the buffer is empty and nothing waits. *)
LEMMA SilenceIs ==
    ASSUME TypeOK, NEW o \in 0..2
    PROVE  Stream(<<>>, o) <=> ctl.obf = Empty /\ \A r \in 0..2 : Waiting(r) = <<>>
<1>1. ASSUME ctl.obf = o, <<>> = <<ctl.data>> \o Waiting(o)
      PROVE  FALSE
  <2>1. Waiting(o) \in Seq(Byte) /\ <<ctl.data>> \in Seq(Byte)
    BY WaitingTyped DEF TypeOK, Controllers
  <2>2. Len(<<ctl.data>> \o Waiting(o)) = 1 + Len(Waiting(o))
    BY <2>1
  <2>3. Len(Waiting(o)) \in Nat
    BY <2>1, LenProperties
  <2>4. 1 + Len(Waiting(o)) = 0
    BY <1>1, <2>2
  <2> QED BY <2>3, <2>4
<1> QED BY <1>1 DEF Stream

(* When the driver goes on, the first byte that is due is in the buffer. *)
LEMMA Arrived ==
    ASSUME TypeOK, NEW q \in Seq(Byte), NEW o \in 0..2, Stream(q, o), Settled
    PROVE  /\ q = <<>> => ctl.obf = Empty
           /\ q # <<>> => ctl.obf = o /\ ctl.data = Head(q) /\ Waiting(o) = Tail(q)
<1>1. ASSUME q = <<>> PROVE ctl.obf = Empty
  BY <1>1, SilenceIs
<1>2. ASSUME q # <<>>
      PROVE  ctl.obf = o /\ ctl.data = Head(q) /\ Waiting(o) = Tail(q)
  <2>1. ~(ctl.obf = Empty /\ Waiting(o) = q)
    <3> SUFFICES ASSUME ctl.obf = Empty, Waiting(o) = q PROVE CanFill(o)
      BY DEF Settled
    <3>1. o # 0 => ctl.answers = <<>> /\ Disabled(o) \notin ctl.config
      BY <1>2 DEF Stream, Waiting
    <3> QED BY <1>2, <3>1 DEF CanFill, Waiting
  <2>2. ctl.obf = o /\ q = <<ctl.data>> \o Waiting(o)
    BY <2>1 DEF Stream
  <2>3. Waiting(o) \in Seq(Byte) /\ ctl.data \in Byte
    BY WaitingTyped DEF TypeOK, Controllers
  <2>4. \A w \in Seq(Byte), d \in Byte :
            Head(<<d>> \o w) = d /\ Tail(<<d>> \o w) = w
    OBVIOUS
  <2> QED BY <2>2, <2>3, <2>4
<1> QED BY <1>1, <1>2

(* A byte that enters the buffer changes nothing of what can still be      *)
(* read.                                                                   *)
LEMMA StreamFill ==
    ASSUME TypeOK, NEW q \in Seq(Byte), NEW o \in 0..2, Stream(q, o),
           NEW r \in 0..2, Fill(r)
    PROVE  Stream(q, o)'
<1>1. r = o /\ ctl.obf = Empty
  BY FillStep DEF Stream, Waiting
<1>2. Waiting(o) = q /\ q # <<>>
  <2>1. Waiting(o) # <<>>
    BY <1>1, FillStep DEF Waiting
  <2> QED BY <1>1, <2>1 DEF Stream, Empty
<1>3. ctl'.obf = o /\ ctl'.data = Head(q) /\ Waiting(o)' = Tail(q)
  <2>1. dev.out \in [Ports -> Seq(Byte)] /\ dev \in Machines
    BY DEF TypeOK, Machines
  <2>2. CASE o = 0
    BY <1>1, <1>2, <2>2, FillStep DEF Waiting
  <2>3. CASE o \in Ports
    <3>1. dev'.out[o] = Tail(dev.out[o])
      <4>1. dev' = [dev EXCEPT !.out[o] = Tail(dev.out[o])]
        BY <1>1, <2>3, FillStep DEF Ports
      <4> QED BY <2>1, <2>3, <4>1 DEF Machines
    <3> QED BY <1>1, <1>2, <2>3, <3>1, FillStep DEF Waiting, Ports
  <2> QED BY <2>2, <2>3 DEF Ports
<1>4. \A s \in 0..2 : s # o => Waiting(s)' = Waiting(s)
  <2>1. dev \in Machines
    BY DEF TypeOK
  <2>2. CASE o = 0
    BY <1>1, <2>2, FillStep DEF Waiting
  <2>3. CASE o \in Ports
    <3>1. \A s \in Ports : s # o => dev'.out[s] = dev.out[s]
      BY <1>1, <2>1, <2>3, FillStep DEF Ports, Machines
    <3> QED BY <1>1, <2>3, <3>1, FillStep DEF Waiting, Ports
  <2> QED BY <2>2, <2>3 DEF Ports
<1>5. q = <<Head(q)>> \o Tail(q)
  BY <1>2
<1>6. ctl'.config = ctl.config
  BY FillStep
<1>7. o # 0 => Disabled(o) \notin ctl.config
  BY <1>2 DEF Stream
<1> QED BY <1>3, <1>4, <1>5, <1>6, <1>7 DEF Stream

(* in8(DATA_PORT) takes that byte. *)
LEMMA StreamIn ==
    ASSUME TypeOK, NEW q \in Seq(Byte), NEW o \in 0..2, Stream(q, o), Settled,
           In, dev' = dev
    PROVE  /\ q = <<>> => Silence'
           /\ q # <<>> => ctl.obf # Empty /\ ctl.data = Head(q) /\ Stream(Tail(q), o)'
<1>1. \A r \in 0..2 : Waiting(r)' = Waiting(r)
  BY InStep DEF Waiting
<1>2. ctl'.obf = Empty /\ ctl'.config = ctl.config
  BY InStep
<1>3. ASSUME q = <<>> PROVE Silence'
  <2>1. \A r \in 0..2 : Waiting(r) = <<>>
    BY <1>3, SilenceIs
  <2> QED BY <1>1, <1>2, <2>1 DEF Silence, Stream
<1>4. ASSUME q # <<>>
      PROVE  ctl.obf # Empty /\ ctl.data = Head(q) /\ Stream(Tail(q), o)'
  <2>1. ctl.obf = o /\ ctl.data = Head(q) /\ Waiting(o) = Tail(q)
    BY <1>4, Arrived
  <2>2. Waiting(o)' = Tail(q) /\ \A r \in 0..2 : r # o => Waiting(r)' = <<>>
    BY <1>1, <2>1 DEF Stream
  <2>3. o # 0 /\ Tail(q) # <<>> => Disabled(o) \notin ctl.config
    BY <2>1 DEF Stream
  <2> QED BY <1>2, <2>1, <2>2, <2>3 DEF Stream, Empty
<1> QED BY <1>3, <1>4

(* Bytes go to a port. *)
LEMMA ReachedPort ==
    ASSUME TypeOK, NEW port \in Ports
    PROVE  Reached(port) \in Ports /\ Reached(port) \in 0..2
BY DEF Reached, Ports

(* Silence does not depend on the source. *)
LEMMA SilenceMeans ==
    ASSUME TypeOK
    PROVE  /\ Silence <=> ctl.obf = Empty /\ \A r \in 0..2 : Waiting(r) = <<>>
           /\ \A o \in 0..2 : Stream(<<>>, o) <=> Silence
BY SilenceIs DEF Silence

(* A device that is not there owes nothing. *)
LEMMA DueAbsent ==
    ASSUME TypeOK, NEW q, NEW port \in Ports, Reached(port) \notin dev.present
    PROVE  Due(q, port) <=> Silence
BY SilenceMeans, ReachedPort DEF Due

(* The same of the state after a step. *)
LEMMA SilencePrimed ==
    TypeOK' => \A o \in 0..2 : Stream(<<>>, o)' <=> Silence'
<1>1. TypeOK => \A o \in 0..2 : Stream(<<>>, o) <=> Silence
  BY SilenceMeans
<1>2. (TypeOK => \A o \in 0..2 : Stream(<<>>, o) <=> Silence)'
  BY <1>1, PTL
<1> QED BY <1>2

(* What an absent device owes after a step. *)
LEMMA DuePrimed ==
    ASSUME TypeOK', NEW q, NEW port \in Ports
    PROVE  /\ Due(<<>>, port)' <=> Silence'
           /\ Reached(port)' \notin dev'.present => (Due(q, port)' <=> Silence')
<1>1. Reached(port)' \in 0..2
  BY DEF Reached, Ports
<1>2. \A o \in 0..2 : Stream(<<>>, o)' <=> Silence'
  BY SilencePrimed
<1> QED BY <1>1, <1>2 DEF Due

(* Reading, or seeing that there is nothing to read, while an answer is due. *)
LEMMA DueRead ==
    ASSUME TypeOK, TypeOK', NEW q \in Seq(Byte), q # <<>>, NEW port \in Ports, Due(q,
       port),
           Settled, dev' = dev, In \/ (ctl.obf = Empty /\ UNCHANGED ctl)
    PROVE  /\ Due(Tail(q), port)'
           /\ Reached(port) \in dev.present => ctl.obf # Empty /\ ctl.data = Head(q)
           /\ Reached(port) \notin dev.present => ctl.obf = Empty /\ Silence'
<1>1. Reached(port)' = Reached(port) /\ dev'.present = dev.present
  BY DEF Reached
<1>2. PICK p \in 0..2 : p = Reached(port)
  BY ReachedPort
<1>3. CASE p \in dev.present
  <2>1. Stream(q, p)
    BY <1>2, <1>3 DEF Due
  <2>2. ctl.obf = p /\ ctl.obf # Empty
    BY <2>1, Arrived DEF Empty
  <2>3. ctl.data = Head(q) /\ Stream(Tail(q), p)'
    BY <2>1, <2>2, StreamIn
  <2> QED BY <1>1, <1>2, <1>3, <2>2, <2>3 DEF Due
<1>4. CASE p \notin dev.present
  <2>1. Silence
    BY <1>2, <1>4, DueAbsent
  <2>2. ctl.obf = Empty
    BY <2>1, SilenceMeans
  <2>3. Silence'
    <3>1. CASE In
      <4>1. <<>> \in Seq(Byte) /\ 0 \in 0..2 /\ Stream(<<>>, 0)
        BY <2>1 DEF Silence
      <4> QED BY <3>1, <4>1, StreamIn
    <3>2. CASE UNCHANGED ctl
      BY <2>1, <3>2 DEF Silence, Stream, Waiting
    <3> QED BY <3>1, <3>2
  <2>4. Due(Tail(q), port)'
    BY <1>1, <1>2, <1>4, <2>3, DuePrimed
  <2> QED BY <1>2, <1>4, <2>2, <2>3, <2>4
<1> QED BY <1>3, <1>4

-----------------------------------------------------------------------------
(* The steps of Initialize, while all answers come in time. *)

(* A step into the quiet case comes from it: the driver waited until all   *)
(* had settled, and keys and movements come after Initialize.              *)
LEMMA QuietStep ==
    ASSUME TypeOK, [Next]_vars, Quiet'
    PROVE  /\ Quiet
           /\ Driver \/ SetHandler => Settled /\ seen' = seen
           /\ Key \/ Move => Initialized
<1>1. seen.late \in Nat /\ seen.noisy \in BOOLEAN
  BY DEF TypeOK
<1>2. DOMAIN seen = {"keys", "moves", "noisy", "late", "early", "log"}
  BY DEF TypeOK
<1>3. ASSUME Driver \/ SetHandler
      PROVE  Settled /\ seen' = seen
  <2>1. Ready
    BY <1>3 DEF Driver, SetHandler
  <2>2. ASSUME seen' = [seen EXCEPT !.late = @ + 1]
        PROVE  FALSE
    BY <1>1, <1>2, <2>2 DEF Quiet
  <2> QED BY <2>1, <2>2 DEF Ready
<1>4. ASSUME Key \/ Move
      PROVE  Initialized /\ Quiet
  <2>1. ~seen'.noisy /\ seen'.late = 0
    BY DEF Quiet
  <2>2. seen'.noisy = (seen.noisy \/ ~Initialized) /\ seen'.late = seen.late
    BY <1>2, <1>4, Zenon DEF Key, Move
  <2> QED BY <2>1, <2>2 DEF Quiet
<1>5. ASSUME Interrupts \/ Fills \/ Idle \/ UNCHANGED vars
      PROVE  Quiet
  <2>1. seen'.late = seen.late /\ seen'.noisy = seen.noisy
    BY <1>2, <1>5
       DEF Interrupts, Dropped, OnKeyboard, OnMouse, Fills, Fill, Idle, vars
  <2> QED BY <2>1 DEF Quiet
<1>6. Quiet
  BY <1>3, <1>4, <1>5 DEF Next, Quiet
<1> QED BY <1>3, <1>4, <1>6

(* Where the driver goes. *)
LEMMA Moved ==
    ASSUME TypeOK
    PROVE  /\ at.pc \in 1..33 /\ local.channels \in {1, 2} /\ dev.channels \in {1, 2}
           /\ Advance => at'.pc = at.pc + 1 /\ at'.sub = "start"
           /\ \A place : Goto(place) => at'.pc = at.pc /\ at'.sub = place
BY DEF TypeOK, Points, Locals, Machines, Advance, Goto

(* A step for a second port is skipped on a machine without one. *)
LEMMA SkipPrompt ==
    ASSUME TypeOK, Prompt, SkipSecond
    PROVE  Prompt'
<1>1. /\ at.pc \in {11, 12, 14, 28} /\ local.channels = 1 /\ Advance
      /\ UNCHANGED <<ctl, dev, local>>
  BY OpAt DEF SkipSecond
<1>2. at'.pc = at.pc + 1 /\ at'.sub = "start"
  BY <1>1, Moved
<1>3. PlaceOK'
  BY <1>1, <1>2 DEF PlaceOK
<1>4. Settings'
  BY <1>1, <1>2 DEF Prompt, Settings
<1>5. Devices' /\ TypesRead'
  BY <1>1, <1>2 DEF Prompt, Devices, TypesRead
<1>6. Answers'
  <2>1. at.pc # 28 => Silence
    <3>1. at.pc \in {11, 12} => Silence
      BY <1>1, EndOfCode DEF Prompt, Answers, CommandsAnswered, Silence
    <3>2. at.pc = 14 => Silence
      BY <1>1, EndOfCode
         DEF Prompt, Answers, DevicesAnswer, ResetsAnswered, SendsAnswered,
              Identified, PlaceOK, TypeOK, Points, Places
    <3> QED BY <1>1, <3>1, <3>2
  <2>2. at.pc # 28 => Silence'
    BY <1>1, <2>1 DEF Silence, Stream, Waiting
  <2>3. Initialized' <=> at'.pc > 28
    BY EndOfCode DEF Initialized
  <2>4. local'.channels = 1
    BY <1>1
  <2> QED BY <1>1, <1>2, <2>2, <2>3, <2>4
          DEF Answers, CommandsAnswered, DevicesAnswer, ResetsAnswered, SendsAnswered,
              Identified, Silence
<1> QED BY <1>3, <1>4, <1>5, <1>6 DEF Prompt

(* Silence lasts as long as the buffer and the sources are left alone. *)
LEMMA SilenceKept ==
    ASSUME TypeOK, Silence, ctl'.obf = ctl.obf, ctl'.answers = ctl.answers,
           dev'.out = dev.out
    PROVE  Silence'
<1>1. ctl'.obf = Empty /\ \A r \in 0..2 : Waiting(r)' = <<>>
  BY SilenceMeans DEF Waiting
<1> QED BY <1>1 DEF Silence, Stream

(* A command the controller answers makes the answer due. *)
LEMMA AnswerDue ==
    ASSUME TypeOK, Silence, NEW x, ctl'.answers = Append(ctl.answers, x),
           ctl'.obf = ctl.obf, dev' = dev
    PROVE  Stream(<<x>>, 0)'
<1>1. ctl.obf = Empty /\ \A r \in 0..2 : Waiting(r) = <<>>
  BY SilenceMeans
<1>2. Waiting(0)' = <<x>>
  <2>1. ctl.answers = <<>>
    BY <1>1 DEF Waiting
  <2>2. ctl'.answers = <<x>>
    BY <2>1
  <2> QED BY <2>2 DEF Waiting
<1>3. \A r \in 0..2 : r # 0 => Waiting(r)' = <<>>
  BY <1>1 DEF Waiting
<1> QED BY <1>1, <1>2, <1>3 DEF Stream

(* Commands to the controller: each leaves the configuration byte and the  *)
(* answer the next step counts on.                                         *)
LEMMA CommandPrompt ==
    ASSUME TypeOK, TypeOK', Prompt, DoCommand
    PROVE  Prompt'
<1>1. /\ at.pc \in {1, 2, 4, 7, 9, 11, 24, 27, 28}
      /\ at.pc \in {11, 28} => local.channels = 2
      /\ Advance /\ UNCHANGED <<dev, local>> /\ Controller(Commanded(Now.byte))
  BY OpAt DEF DoCommand
<1>2. at'.pc = at.pc + 1 /\ at'.sub = "start"
  BY <1>1, Moved
<1>3. /\ ctl'.obf = ctl.obf /\ ctl'.data = ctl.data
      /\ ctl'.answers = Commanded(Now.byte).answers
      /\ ctl'.config = Commanded(Now.byte).config
  BY <1>1, CommandedStep
<1>4. /\ at.pc = 1 => Now.byte = "disable1"
      /\ at.pc = 2 => Now.byte = "disable2"
      /\ at.pc \in {4, 24} => Now.byte = "readConfig"
      /\ at.pc = 7 => Now.byte = "selfTest"
      /\ at.pc = 9 => Now.byte = "test1"
      /\ at.pc = 11 => Now.byte = "test2"
      /\ at.pc = 27 => Now.byte = "enable1"
      /\ at.pc = 28 => Now.byte = "enable2"
  BY <1>1, NowAt DEF Command
<1>5. ctl \in Controllers
  BY DEF TypeOK
<1>6. /\ at.pc = 1 => ctl'.config = ctl.config \cup {4} /\ ctl'.answers = ctl.answers
      /\ at.pc = 2 => /\ ctl'.answers = ctl.answers
                      /\ ctl'.config = IF dev.channels = 2 THEN ctl.config \cup {5}
                                       ELSE ctl.config
      /\ at.pc \in {4, 24} => /\ ctl'.answers = Append(ctl.answers, ctl.config)
                              /\ ctl'.config = ctl.config
  BY <1>3, <1>4, <1>5 DEF Commanded, Controllers, Disabled
<1>7. /\ at.pc = 7 => /\ ctl'.answers = Append(ctl.answers, Bits(\h55))
                      /\ ctl'.config = ctl.config
      /\ at.pc \in {9, 11} => /\ ctl'.answers = Append(ctl.answers, {})
                              /\ ctl'.config = ctl.config
      /\ at.pc = 27 => ctl'.config = ctl.config \ {4} /\ ctl'.answers = ctl.answers
      /\ at.pc = 28 => ctl'.config = ctl.config \ {5} /\ ctl'.answers = ctl.answers
  <2>1. at.pc = 7 => /\ ctl'.answers = Append(ctl.answers, Bits(\h55))
                     /\ ctl'.config = ctl.config
    BY <1>3, <1>4, <1>5 DEF Commanded, Controllers
  <2>2. at.pc \in {9, 11} => /\ ctl'.answers = Append(ctl.answers, {})
                             /\ ctl'.config = ctl.config
    BY <1>3, <1>4, <1>5 DEF Commanded, Controllers
  <2>3. /\ at.pc = 27 => ctl'.config = ctl.config \ {4} /\ ctl'.answers = ctl.answers
        /\ at.pc = 28 => ctl'.config = ctl.config \ {5} /\ ctl'.answers = ctl.answers
    BY <1>3, <1>4, <1>5 DEF Commanded, Controllers, Disabled
  <2> QED BY <2>1, <2>2, <2>3
<1>8. PlaceOK'
  BY <1>1, <1>2 DEF PlaceOK
<1>9. Settings'
  <2>1. Settings
    BY DEF Prompt
  <2>2. Disabled(2) \in ctl'.config => dev'.channels = 2
    BY <1>1, <1>6, <1>7, <2>1, Moved DEF Settings, Disabled
  <2>3. /\ at'.pc \in {3, 4, 5} /\ dev'.channels = 2 => Disabled(2) \in ctl'.config
        /\ at'.pc > 5 => local'.channels = dev'.channels
        /\ at'.pc \notin {6, 26}
    <3>1. at'.pc \in {3, 4, 5} => at.pc \in {2, 4}
      BY <1>1, <1>2
    <3>2. at.pc \in {2, 4} /\ dev'.channels = 2 => Disabled(2) \in ctl'.config
      BY <1>1, <1>6, <1>7, <2>1 DEF Settings, Disabled
    <3>3. at'.pc > 5 => at.pc > 5
      BY <1>1, <1>2
    <3>4. at.pc > 5 => local'.channels = dev'.channels
      BY <1>1, <2>1 DEF Settings
    <3>5. at'.pc \notin {6, 26}
      BY <1>1, <1>2
    <3> QED BY <3>1, <3>2, <3>3, <3>4, <3>5
  <2>4. /\ at'.pc > 6 => Translate \notin ctl'.config
        /\ at'.pc > 26 => {0, 1} \subseteq ctl'.config
    BY <1>1, <1>2, <1>6, <1>7, <2>1 DEF Settings, Translate
  <2>5. at'.pc > 27 => Disabled(1) \notin ctl'.config
    BY <1>1, <1>2, <1>7, <2>1 DEF Settings, Disabled
  <2>6. at'.pc > 28 => \A p \in 1..dev'.channels : Disabled(p) \notin ctl'.config
    BY <1>1, <1>2, <1>7, <2>1, Moved DEF Settings, Disabled
  <2> QED BY <2>2, <2>3, <2>4, <2>5, <2>6 DEF Settings
<1>10. Devices' /\ TypesRead'
  <2>1. Devices'
    BY <1>1, <1>2 DEF Prompt, Devices
  <2>2. TypesRead'
    BY <1>1, <1>2 DEF Prompt, TypesRead
  <2> QED BY <2>1, <2>2
<1>11. Answers'
  <2>1. at.pc \in {1, 2} => \A r \in 0..2 : Waiting(r)' = <<>>
    <3>1. at.pc \in {1, 2} => \A r \in 0..2 : Waiting(r) = <<>>
      BY EndOfCode DEF Prompt, Answers, CommandsAnswered
    <3> QED BY <1>1, <1>6, <3>1 DEF Waiting
  <2>2. at.pc \in {4, 7, 9, 11, 24, 27} => Silence
    BY EndOfCode DEF Prompt, Answers, CommandsAnswered
  <2>3. at.pc = 27 => Silence'
    BY <1>1, <1>3, <1>7, <2>2, SilenceKept
  <2>4. /\ at.pc \in {4, 24} => Stream(<<ctl.config>>, 0)'
        /\ at.pc = 7 => Stream(<<Bits(\h55)>>, 0)'
        /\ at.pc \in {9, 11} => Stream(<<{}>>, 0)'
    <3>1. ASSUME NEW x, ctl'.answers = Append(ctl.answers, x), Silence
          PROVE  Stream(<<x>>, 0)'
      BY <1>1, <1>3, <3>1, AnswerDue
    <3> QED BY <1>6, <1>7, <2>2, <3>1
  <2>5. Initialized' <=> at'.pc > 28
    BY EndOfCode DEF Initialized
  <2>6. at.pc = 11 => local'.channels = 2
    BY <1>1
  <2>7. DevicesAnswer'
    BY <1>1, <1>2 DEF DevicesAnswer, ResetsAnswered, SendsAnswered,
              Identified
  <2>8. at'.pc = 12 => local'.channels = 2 /\ Stream(<<{}>>, 0)'
    BY <1>1, <1>2, <2>4, <2>6
  <2>9. /\ at'.pc \in {1, 2, 3} => at.pc \in {1, 2}
        /\ at'.pc \in {5, 25} => at.pc \in {4, 24}
        /\ at'.pc = 8 => at.pc = 7
        /\ at'.pc = 10 => at.pc = 9
        /\ at'.pc \in {4, 6, 7, 9, 11, 24, 26, 27, 28} => at.pc = 27
    BY <1>1, <1>2
  <2>10. CommandsAnswered'
    BY <2>1, <2>3, <2>4, <2>8, <2>9 DEF CommandsAnswered
  <2> QED BY <2>5, <2>7, <2>10 DEF Answers
<1> QED BY <1>8, <1>9, <1>10, <1>11 DEF Prompt

(* A read takes the only answer that is due. *)
LEMMA OnlyAnswer ==
    ASSUME TypeOK, NEW x \in Byte, Stream(<<x>>, 0), Settled, In, dev' = dev
    PROVE  ctl.data = x /\ Silence'
<1>1. <<x>> \in Seq(Byte) /\ <<x>> # <<>> /\ Head(<<x>>) = x /\ Tail(<<x>>) = <<>>
  OBVIOUS
<1>2. PICK q \in Seq(Byte) : q = <<x>>
  BY <1>1
<1>3. q # <<>> /\ 0 \in 0..2 /\ Stream(q, 0)
  BY <1>1, <1>2
<1>4. ctl.data = Head(q) /\ Stream(Tail(q), 0)'
  BY <1>3, StreamIn
<1>5. Head(q) = x /\ Tail(q) = <<>>
  BY <1>1, <1>2
<1>6. Stream(<<>>, 0)'
  BY <1>4, <1>5
<1> QED BY <1>4, <1>5, <1>6 DEF Silence

(* Reads whose results are at most logged leave nothing due. *)
LEMMA ReadPrompt ==
    ASSUME TypeOK, TypeOK', Prompt, Settled, DoRead
    PROVE  Prompt'
<1>1. /\ at.pc \in {3, 8, 10, 12} /\ (at.pc = 12 => local.channels = 2)
      /\ Advance /\ In /\ UNCHANGED <<dev, local>>
  BY OpAt DEF DoRead
<1>2. at'.pc = at.pc + 1 /\ at'.sub = "start"
  BY <1>1, Moved
<1>3. ctl'.config = ctl.config
  BY <1>1, InStep
<1>4. PlaceOK' /\ Devices' /\ TypesRead'
  BY <1>1, <1>2 DEF Prompt, PlaceOK, Devices, TypesRead
<1>5. Settings'
  BY <1>1, <1>2, <1>3 DEF Prompt, Settings
<1>6. Silence'
  <2>1. CASE at.pc = 3
    <3>1. \A r \in 0..2 : Waiting(r) = <<>>
      BY <2>1, EndOfCode DEF Prompt, Answers, CommandsAnswered
    <3>2. ctl'.obf = Empty /\ \A r \in 0..2 : Waiting(r)' = <<>>
      BY <1>1, <3>1, InStep DEF Waiting
    <3> QED BY <3>2 DEF Silence, Stream
  <2>2. CASE at.pc \in {8, 10, 12}
    <3>1. Stream(<<Bits(\h55)>>, 0) \/ Stream(<<{}>>, 0)
      BY <1>1, <2>2, EndOfCode DEF Prompt, Answers, CommandsAnswered
    <3> QED BY <1>1, <3>1, BytesAreBytes, AnswersAreBytes, OnlyAnswer
  <2> QED BY <1>1, <2>1, <2>2
<1>7. Answers'
  <2>1. at'.pc \in {4, 9, 11, 13}
    BY <1>1, <1>2
  <2> QED BY <1>2, <1>6, <2>1
          DEF Answers, CommandsAnswered, DevicesAnswer, ResetsAnswered, SendsAnswered,
              Identified
<1> QED BY <1>4, <1>5, <1>6, <1>7 DEF Prompt

(* The byte read as ccb is the configuration byte, so the channels are     *)
(* counted right.                                                          *)
LEMMA ReadCcbPrompt ==
    ASSUME TypeOK, TypeOK', Prompt, Settled, DoReadCcb
    PROVE  Prompt'
<1>1. at.pc \in {5, 25} /\ Advance /\ In /\ dev' = dev
  BY OpAt DEF DoReadCcb
<1>2. at'.pc = at.pc + 1 /\ at'.sub = "start"
  BY <1>1, Moved
<1>3. ctl'.config = ctl.config
  BY <1>1, InStep
<1>4. ctl.data = ctl.config /\ Silence'
  <2>1. Stream(<<ctl.config>>, 0) /\ ctl.config \in Byte
    <3>1. CommandsAnswered
      BY <1>1, EndOfCode DEF Prompt, Answers
    <3>2. ctl.config \in Byte
      BY DEF TypeOK, Controllers
    <3> QED BY <1>1, <3>1, <3>2 DEF CommandsAnswered
  <2> QED BY <1>1, <2>1, OnlyAnswer
<1>5. /\ local'.ccb = ctl.config /\ local'.type = local.type
      /\ at.pc = 5 => local'.channels = IF Disabled(2) \in ctl.config THEN 2 ELSE 1
      /\ at.pc = 25 => local'.channels = local.channels
  <2>1. local' = [local EXCEPT !.ccb = ctl.data,
                   !.channels = IF ~Now.detect THEN @
                                ELSE IF Disabled(2) \in ctl.data THEN 2 ELSE 1]
    BY DEF DoReadCcb
  <2>2. (at.pc = 5 => Now.detect = TRUE) /\ (at.pc = 25 => Now.detect = FALSE)
    BY NowAt
  <2>3. local \in Locals
    BY DEF TypeOK
  <2>4. PICK n : n = IF ~Now.detect THEN local.channels
                     ELSE IF Disabled(2) \in ctl.data THEN 2 ELSE 1
    OBVIOUS
  <2>5. local' = [local EXCEPT !.ccb = ctl.data, !.channels = n]
    BY <2>1, <2>4
  <2>6. local'.ccb = ctl.data /\ local'.type = local.type /\ local'.channels = n
    BY <2>3, <2>5 DEF Locals
  <2> QED BY <1>4, <2>2, <2>4, <2>6
<1>6. PlaceOK' /\ Devices' /\ TypesRead'
  BY <1>1, <1>2, <1>5 DEF Prompt, PlaceOK, Devices, TypesRead
<1>7. Settings'
  <2>1. dev.channels \in {1, 2}
    BY Moved
  <2>2. local'.channels = dev.channels
    BY <1>1, <1>5, <2>1 DEF Prompt, Settings
  <2> QED BY <1>1, <1>2, <1>3, <1>5, <2>2 DEF Prompt, Settings
<1>8. Answers'
  <2>1. at'.pc \in {6, 26}
    BY <1>1, <1>2
  <2> QED BY <1>2, <1>4, <2>1
          DEF Answers, CommandsAnswered, DevicesAnswer, ResetsAnswered, SendsAnswered,
              Identified
<1> QED BY <1>6, <1>7, <1>8 DEF Prompt

(* The changed ccb is written back. *)
LEMMA WritePrompt ==
    ASSUME TypeOK, Prompt, DoWrite
    PROVE  Prompt'
<1>1. at.pc \in {6, 26} /\ Advance /\ dev' = dev
  BY OpAt DEF DoWrite
<1>2. at'.pc = at.pc + 1 /\ at'.sub = "start"
  BY <1>1, Moved
<1>3. /\ at.pc = 6 => Now.off = {0, 1, 6} /\ Now.on = {}
      /\ at.pc = 26 => Now.off = {} /\ Now.on = {0, 1}
  BY NowAt DEF DisableInterrupts, Write, Translate
<1>4. /\ local'.ccb = (local.ccb \ Now.off) \cup Now.on
      /\ local'.channels = local.channels /\ local'.type = local.type
  BY DEF DoWrite, TypeOK, Locals
<1>5. local'.ccb \in Byte
  BY <1>1, <1>3, <1>4 DEF TypeOK, Locals, Byte
<1>6. /\ ctl'.config = local'.ccb /\ ctl'.obf = ctl.obf
      /\ ctl'.data = ctl.data /\ ctl'.answers = ctl.answers
  <2>1. PICK c : c = [ctl EXCEPT !.config = local'.ccb]
    OBVIOUS
  <2>2. /\ c \in Controllers /\ c.config = local'.ccb /\ c.obf = ctl.obf
        /\ c.data = ctl.data /\ c.answers = ctl.answers
    BY <1>5, <2>1 DEF TypeOK, Controllers
  <2>3. Controller(c)
    BY <2>1 DEF DoWrite
  <2> QED BY <2>2, <2>3, ControllerStep
<1>7. PlaceOK' /\ Devices' /\ TypesRead'
  BY <1>1, <1>2, <1>4 DEF Prompt, PlaceOK, Devices, TypesRead
<1>8. Settings'
  <2>1. /\ at.pc = 6 => ctl'.config = ctl.config \ {0, 1, 6}
        /\ at.pc = 26 => ctl'.config = ctl.config \cup {0, 1}
    BY <1>3, <1>4, <1>6 DEF Prompt, Settings
  <2> QED BY <1>1, <1>2, <1>4, <2>1 DEF Prompt, Settings, Translate, Disabled
<1>9. Answers'
  <2>1. at'.pc \in {7, 27} /\ Silence'
    <3>1. Silence
      BY <1>1, EndOfCode DEF Prompt, Answers, CommandsAnswered
    <3> QED BY <1>1, <1>2, <1>6, <3>1, SilenceKept
  <2> QED BY <1>2, <2>1
          DEF Answers, CommandsAnswered, DevicesAnswer, ResetsAnswered, SendsAnswered,
              Identified
<1> QED BY <1>7, <1>8, <1>9 DEF Prompt

(* The driver empties the buffer only before the last command for the keyboard. *)
LEMMA FlushPrompt ==
    ASSUME TypeOK, TypeOK', Prompt, Settled, Flush
    PROVE  Prompt'
<1>1. /\ at.pc \in {13, 14, 15, 16, 18, 19, 21, 22, 23} /\ at.sub = "start"
      /\ ctl.obf # Empty /\ In /\ UNCHANGED <<at, dev, local>>
  BY OpAt DEF Flush
<1>2. ctl'.config = ctl.config
  BY <1>1, InStep
<1>3. PlaceOK' /\ Devices' /\ TypesRead' /\ Settings'
  BY <1>1, <1>2 DEF Prompt, PlaceOK, Devices, TypesRead, Settings
<1>4. at.pc = 22 /\ Due(<<ACK>>, 1)
  <2>1. ~Silence
    BY <1>1, SilenceMeans
  <2> QED BY <1>1, <2>1, EndOfCode
          DEF Prompt, Answers, DevicesAnswer, ResetsAnswered, SendsAnswered,
              Identified
<1>5. Silence'
  <2>1. <<ACK>> \in Seq(Byte) /\ <<ACK>> # <<>> /\ Tail(<<ACK>>) = <<>> /\ 1 \in Ports
    BY AnswersAreBytes DEF Ports
  <2>2. Due(Tail(<<ACK>>), 1)'
    BY <1>1, <1>4, <2>1, DueRead
  <2>3. Due(<<>>, 1)'
    BY <2>1, <2>2
  <2> QED BY <2>1, <2>3, DuePrimed
<1>6. Answers'
  BY <1>1, <1>4, <1>5
     DEF Answers, CommandsAnswered, DevicesAnswer, ResetsAnswered, SendsAnswered,
              Identified
<1> QED BY <1>3, <1>6 DEF Prompt

(* Nothing is due when a command is sent to a device. *)
LEMMA SendSilence ==
    ASSUME TypeOK, Prompt, Settled, SendBytes
    PROVE  Silence
<1>1. /\ at.pc \in {13, 14, 15, 16, 18, 19, 21, 22, 23} /\ at.sub = "start"
      /\ ctl.obf = Empty
  BY OpAt DEF SendBytes
<1>2. ASSUME Due(<<ACK>>, 1)
      PROVE  Silence
  <2>1. PICK o \in 0..2 : o = Reached(1)
    BY ReachedPort DEF Ports
  <2>2. PICK q \in Seq(Byte) : q = <<ACK>> /\ q # <<>>
    <3>1. <<ACK>> \in Seq(Byte) /\ <<ACK>> # <<>>
      BY AnswersAreBytes
    <3> QED BY <3>1
  <2>3. o \notin dev.present
    <3> SUFFICES ASSUME o \in dev.present PROVE FALSE
      OBVIOUS
    <3>1. Stream(q, o)
      BY <1>2, <2>1, <2>2 DEF Due
    <3>2. ctl.obf = o
      BY <2>2, <3>1, Arrived
    <3> QED BY <1>1, <3>2 DEF Empty
  <2> QED BY <1>2, <2>1, <2>3, DueAbsent DEF Ports
<1> QED BY <1>1, <1>2, EndOfCode
        DEF Prompt, Answers, DevicesAnswer, ResetsAnswered, SendsAnswered,
              Identified

(* What a command changes of the devices. *)
LEMMA DeliverFacts ==
    ASSUME TypeOK, SendBytes, NEW p, p = Reached(Now.port)
    PROVE  /\ dev'.channels = dev.channels /\ dev'.present = dev.present
           /\ dev'.scanning = IF p \in dev.present THEN Scanning(p, Now.bytes[1])
                              ELSE dev.scanning
           /\ \A o \in Ports : o # p \/ p \notin dev.present => dev'.out[o] = dev.out[o]
           /\ p \in dev.present => dev'.out[p] = dev.out[p] \o Replies(p)
<1>1. dev \in Machines
  BY DEF TypeOK
<1>2. p \in Ports /\ (p \notin dev.present => dev' = dev)
  BY DeliverStep
<1>3. PICK r, s : r = dev.out[p] \o Replies(p) /\ s = Scanning(p, Now.bytes[1])
  OBVIOUS
<1>4. p \in dev.present => dev' = [dev EXCEPT !.out[p] = r, !.scanning = s]
  BY <1>3, DeliverStep
<1>5. ASSUME p \in dev.present
      PROVE  /\ dev'.channels = dev.channels /\ dev'.present = dev.present
             /\ dev'.scanning = s
             /\ dev'.out[p] = r /\ \A o \in Ports : o # p => dev'.out[o] = dev.out[o]
  <2>1. /\ dev'.channels = dev.channels /\ dev'.present = dev.present
        /\ dev'.scanning = s /\ dev'.out = [dev.out EXCEPT ![p] = r]
    BY <1>1, <1>4, <1>5 DEF Machines
  <2>2. dev.out \in [Ports -> Seq(Byte)]
    BY <1>1 DEF Machines
  <2> QED BY <1>2, <2>1, <2>2
<1> QED BY <1>2, <1>3, <1>5

(* After a command its answers are due. *)
LEMMA Delivered ==
    ASSUME TypeOK, TypeOK', Silence, SendBytes, NEW port \in Ports, port = Now.port,
           NEW q, Reached(port) \in dev.present => q = Replies(Reached(port))
    PROVE  Due(q, port)'
<1>1. PICK p : p = Reached(port)
  OBVIOUS
<1>2. /\ p \in Ports /\ ctl'.obf = ctl.obf /\ ctl'.answers = ctl.answers
      /\ ctl'.config = ctl.config \ {Disabled(p)} /\ Replies(p) \in Seq(Byte)
  BY <1>1, DeliverStep
<1>3. Reached(port)' = p /\ dev'.present = dev.present
  BY <1>1, DeliverFacts DEF Reached
<1>4. ctl.obf = Empty /\ ctl.answers = <<>> /\ \A o \in Ports : dev.out[o] = <<>>
  <2>1. ctl.obf = Empty /\ \A o \in 0..2 : Waiting(o) = <<>>
    BY SilenceMeans
  <2>2. Waiting(0) = ctl.answers /\ 0 \in 0..2
    BY DEF Waiting
  <2>3. \A o \in Ports : Waiting(o) = dev.out[o] /\ o \in 0..2
    BY DEF Waiting, Ports
  <2> QED BY <2>1, <2>2, <2>3
<1>5. CASE p \in dev.present
  <2>1. dev'.out[p] = <<>> \o Replies(p) /\ \A o \in Ports : o # p => dev'.out[o] = <<>>
    <3>1. /\ dev'.out[p] = dev.out[p] \o Replies(p)
          /\ \A o \in Ports : o # p => dev'.out[o] = dev.out[o]
      BY <1>1, <1>5, DeliverFacts
    <3> QED BY <1>2, <1>4, <3>1
  <2>2. dev'.out[p] = q
    BY <1>1, <1>2, <1>5, <2>1, ConcatEmptySeq
  <2>3. Waiting(p)' = q /\ \A r \in 0..2 : r # p => Waiting(r)' = <<>>
    BY <1>2, <1>4, <2>1, <2>2 DEF Waiting, Ports
  <2>4. Stream(q, p)'
    BY <1>2, <1>4, <2>3 DEF Stream
  <2> QED BY <1>3, <1>5, <2>4 DEF Due
<1>6. CASE p \notin dev.present
  <2>1. \A o \in Ports : dev'.out[o] = <<>>
    BY <1>1, <1>4, <1>6, DeliverFacts
  <2>2. \A r \in 0..2 : Waiting(r)' = <<>>
    BY <1>2, <1>4, <2>1 DEF Waiting, Ports
  <2>3. Silence'
    BY <1>2, <1>4, <2>2 DEF Silence, Stream
  <2> QED BY <1>3, <1>6, <2>3, DuePrimed
<1> QED BY <1>5, <1>6

(* The steps from 13 to 23 ask nothing of the controller itself. *)
LEMMA NoCommandPending ==
    ASSUME at'.pc \in 13..23
    PROVE  CommandsAnswered'
<1>1. at'.pc \in {1, 2, 3} => \A r \in 0..2 : Waiting(r)' = <<>>
  OBVIOUS
<1>2. /\ at'.pc \in {5, 25} => Stream(<<ctl.config>>, 0)'
      /\ at'.pc = 8 => Stream(<<Bits(\h55)>>, 0)'
      /\ at'.pc = 10 => Stream(<<{}>>, 0)'
  OBVIOUS
<1>3. /\ at'.pc = 12 /\ local'.channels = 2 => Stream(<<{}>>, 0)'
      /\ at'.pc = 12 /\ local'.channels # 2 => Silence'
      /\ at'.pc \in {4, 6, 7, 9, 11, 24, 26, 27, 28} => Silence'
  OBVIOUS
<1> QED BY <1>1, <1>2, <1>3 DEF CommandsAnswered

(* Two bytes one after the other. *)
LEMMA Pair ==
    ASSUME NEW S, NEW x \in S, NEW y \in S
    PROVE  <<x>> \o <<y>> = <<x, y>>
<1>1. PICK s : s = <<x>> \o <<y>>
  OBVIOUS
<1>2. s \in Seq(S) /\ Len(s) = 2 /\ s[1] = x /\ s[2] = y
  BY <1>1
<1>3. s = <<x, y>>
  BY <1>2
<1> QED BY <1>1, <1>3

(* The same with Append. *)
LEMMA AppendPair ==
    ASSUME NEW S, NEW x \in S, NEW y \in S
    PROVE  Append(<<x>>, y) = <<x, y>>
<1>1. PICK s : s = Append(<<x>>, y)
  OBVIOUS
<1>2. s \in Seq(S) /\ Len(s) = 2 /\ s[1] = x /\ s[2] = y
  BY <1>1
<1>3. s = <<x, y>>
  BY <1>2
<1> QED BY <1>1, <1>3

(* A command to a device: its answers, and no others, are due after it. *)
LEMMA SendPrompt ==
    ASSUME TypeOK, TypeOK', Prompt, Settled, SendBytes
    PROVE  Prompt'
<1>1. /\ at.pc \in {13, 14, 15, 16, 18, 19, 21, 22, 23}
      /\ at.pc = 14 => local.channels = 2
      /\ Goto("sent") /\ local' = local
  BY OpAt DEF SendBytes
<1>2. at'.pc = at.pc /\ at'.sub = "sent"
  BY <1>1, Moved
<1>3. Silence
  BY SendSilence
<1>4. local.channels = dev.channels /\ dev.channels \in {1, 2}
  BY <1>1, Moved DEF Prompt, Settings
<1>5. PICK port, p : port = Now.port /\ p = Reached(port)
  OBVIOUS
<1>6. /\ at.pc \in {13, 15, 16, 21, 22} => port = 1
      /\ at.pc \in {14, 18, 19, 23} => port = 2
  BY <1>1, <1>5, NowAt DEF ResetPort, Send
<1>7. p \in Ports /\ p = IF dev.channels = 1 THEN 1 ELSE port
  BY <1>1, <1>5, <1>6 DEF Reached, Ports
<1>8. /\ at.pc \in {13, 14} => Now.bytes[1] = Bits(\hFF)
      /\ at.pc \in {15, 18} => Now.bytes[1] = Bits(\hF5)
      /\ at.pc \in {16, 19} => Now.bytes[1] = Bits(\hF2)
      /\ at.pc = 21 => Now.bytes[1] = Bits(\hF0)
      /\ at.pc \in {22, 23} => Now.bytes[1] = Bits(\hF4)
  BY <1>1, NowAt DEF ResetPort, Send
<1>9. PlaceOK'
  BY <1>1, <1>2 DEF PlaceOK
<1>10. Settings'
  <2>1. ctl'.config = ctl.config \ {Disabled(p)} /\ dev'.channels = dev.channels
    BY <1>5, DeliverStep, DeliverFacts
  <2> QED BY <1>1, <1>2, <1>7, <2>1 DEF Prompt, Settings, Disabled, Translate, Ports
<1>11. TypesRead'
  <2>1. dev'.present = dev.present
    BY <1>5, DeliverFacts
  <2> QED BY <1>1, <1>2, <2>1 DEF Prompt, TypesRead
<1>12. Devices'
  <2>1. /\ dev'.present = dev.present /\ dev'.channels = dev.channels
        /\ dev'.scanning = IF p \in dev.present THEN Scanning(p, Now.bytes[1])
                           ELSE dev.scanning
    BY <1>5, DeliverFacts
  <2>2. Devices
    BY DEF Prompt
  <2>3. dev'.scanning \subseteq dev.scanning \cup ({p} \cap dev.present)
    BY <2>1 DEF Scanning
  <2>4. at.pc \in {22, 23} => dev'.scanning = dev.scanning \cup ({p} \cap dev.present)
    BY <1>8, <2>1 DEF Scanning
  <2>5. dev'.present \subseteq 1..dev'.channels /\ dev'.scanning \subseteq dev'.present
    BY <2>1, <2>2, <2>3 DEF Devices
  <2>6. at.pc \in {22, 23} => (1 \in dev.present => 1 \in dev'.scanning)
    BY <1>6, <1>7, <2>2, <2>4 DEF Devices
  <2>7. at.pc = 23 => (2 \in dev.present => 2 \in dev'.scanning)
    <3>1. 2 \in dev.present => dev.channels = 2
      BY <1>4, <2>2 DEF Devices
    <3> QED BY <1>6, <1>7, <2>4, <3>1
  <2>8. at'.pc = at.pc /\ at.pc \in 13..23
    BY <1>1, <1>2
  <2>9. at'.pc > 22 \/ at'.pc = 22 => at.pc \in {22, 23}
    BY <1>1, <1>2
  <2>10. at'.pc > 22 \/ (at'.pc = 22 /\ at'.sub # "start") =>
            (1 \in dev'.present => 1 \in dev'.scanning)
    BY <2>1, <2>6, <2>9
  <2>11. at'.pc > 23 \/ (at'.pc = 23 /\ at'.sub # "start") =>
            (2 \in dev'.present => 2 \in dev'.scanning)
    BY <2>1, <2>7, <2>8
  <2> QED BY <2>5, <2>10, <2>11 DEF Devices
<1>13. Answers'
  <2>1. /\ at.pc # 21 => Replies(p) = Answer(p, Now.bytes[1])
        /\ at.pc = 21 => Replies(p) = Answer(p, Bits(\hF0)) \o Answer(p, Bits(\h02))
    <3>1. Now.op \in {"send", "reset"}
      BY DEF SendBytes
    <3> QED BY <1>7, <3>1, Sent
  <2>2. /\ Answer(1, Bits(\hFF)) = <<ACK, BAT>>
        /\ Answer(2, Bits(\hFF)) = <<ACK, BAT, {}>>
        /\ Answer(1, Bits(\hF2)) = <<ACK, Bits(\hAB), Bits(\h83)>>
        /\ Answer(2, Bits(\hF2)) = <<ACK, {}>>
        /\ \A b \in {Bits(\hF5), Bits(\hF0), Bits(\h02), Bits(\hF4)} :
              Answer(p, b) = <<ACK>>
    BY CommandsDiffer DEF Answer
  <2>3. ASSUME NEW q, q = Replies(p)
        PROVE  Due(q, port)'
    BY <1>3, <1>5, <1>6, <1>1, <2>3, Delivered DEF Ports
  <2>4. at.pc = 13 => Due(<<ACK, BAT>>, 1)'
    BY <1>6, <1>7, <1>8, <2>1, <2>2, <2>3
  <2>5. at.pc = 14 => Due(<<ACK, BAT, {}>>, 2)'
    BY <1>1, <1>4, <1>6, <1>7, <1>8, <2>1, <2>2, <2>3
  <2>6. at.pc \in {15, 22} => Due(<<ACK>>, 1)'
    BY <1>6, <1>8, <2>1, <2>2, <2>3
  <2>7. at.pc \in {18, 23} => Due(<<ACK>>, 2)'
    BY <1>6, <1>8, <2>1, <2>2, <2>3
  <2>8. at.pc = 21 => Due(<<ACK, ACK>>, 1)'
    <3>1. <<ACK>> \o <<ACK>> = <<ACK, ACK>>
      BY Pair, AnswersAreBytes
    <3>2. ASSUME at.pc = 21 PROVE Replies(p) = <<ACK, ACK>> /\ port = 1
      <4>1. Answer(p, Bits(\hF0)) = <<ACK>> /\ Answer(p, Bits(\h02)) = <<ACK>>
        BY <2>2
      <4>2. Replies(p) = Answer(p, Bits(\hF0)) \o Answer(p, Bits(\h02))
        BY <2>1, <3>2
      <4>3. port = 1
        BY <1>6, <3>2
      <4> QED BY <3>1, <4>1, <4>2, <4>3, Zenon
    <3> QED BY <2>3, <3>2
  <2>9. Reached(2)' = Reached(2)
    BY <1>5, DeliverFacts DEF Reached
  <2>10. at.pc = 16 => Due(<<ACK, Bits(\hAB), Bits(\h83)>>, 1)'
    BY <1>6, <1>7, <1>8, <2>1, <2>2, <2>3
  <2>11. at.pc = 19 =>
             /\ Reached(2)' = 1 => Due(<<ACK, Bits(\hAB), Bits(\h83)>>, 2)'
             /\ Reached(2)' = 2 => Due(<<ACK, {}>>, 2)'
    BY <1>5, <1>6, <1>8, <2>1, <2>2, <2>3, <2>9
  <2>12. CommandsAnswered'
    BY <1>1, <1>2, NoCommandPending
  <2>13. DevicesAnswer'
    BY <1>1, <1>2, <2>4, <2>5, <2>6, <2>7, <2>8, <2>10, <2>11
       DEF DevicesAnswer, ResetsAnswered, SendsAnswered,
              Identified
  <2> QED BY <2>12, <2>13 DEF Answers
<1> QED BY <1>9, <1>10, <1>11, <1>12, <1>13 DEF Prompt

(* A read takes the one byte a device owes, *)
LEMMA DueRead1 ==
    ASSUME TypeOK, TypeOK', NEW port \in Ports, NEW x \in Byte, Due(<<x>>, port),
           Settled, dev' = dev, In \/ (ctl.obf = Empty /\ UNCHANGED ctl)
    PROVE  /\ Silence'
           /\ Reached(port) \in dev.present => ctl.obf # Empty /\ ctl.data = x
           /\ Reached(port) \notin dev.present => ctl.obf = Empty
<1>1. PICK q \in Seq(Byte) : q = <<x>>
  <2>1. <<x>> \in Seq(Byte)
    OBVIOUS
  <2> QED BY <2>1
<1>2. q # <<>> /\ Head(q) = x /\ Tail(q) = <<>> /\ Due(q, port)
  BY <1>1
<1>3. /\ Due(Tail(q), port)'
      /\ Reached(port) \in dev.present => ctl.obf # Empty /\ ctl.data = Head(q)
      /\ Reached(port) \notin dev.present => ctl.obf = Empty
  BY <1>2, DueRead
<1>4. Due(<<>>, port)'
  BY <1>2, <1>3
<1> QED BY <1>2, <1>3, <1>4, DuePrimed

(* the first of two, *)
LEMMA DueRead2 ==
    ASSUME TypeOK, TypeOK', NEW port \in Ports, NEW x \in Byte, NEW y \in Byte,
           Due(<<x, y>>, port),
           Settled, dev' = dev, In \/ (ctl.obf = Empty /\ UNCHANGED ctl)
    PROVE  /\ Due(<<y>>, port)'
           /\ Reached(port) \in dev.present => ctl.obf # Empty /\ ctl.data = x
           /\ Reached(port) \notin dev.present => ctl.obf = Empty /\ Silence'
<1>1. PICK q \in Seq(Byte) : q = <<x, y>>
  <2>1. <<x, y>> \in Seq(Byte)
    OBVIOUS
  <2> QED BY <2>1
<1>2. q # <<>> /\ Head(q) = x /\ Tail(q) = <<y>> /\ Due(q, port)
  BY <1>1
<1>3. /\ Due(Tail(q), port)'
      /\ Reached(port) \in dev.present => ctl.obf # Empty /\ ctl.data = Head(q)
      /\ Reached(port) \notin dev.present => ctl.obf = Empty /\ Silence'
  BY <1>2, DueRead
<1> QED BY <1>2, <1>3

(* and of three. *)
LEMMA DueRead3 ==
    ASSUME TypeOK, TypeOK', NEW port \in Ports, NEW x \in Byte, NEW y \in Byte,
           NEW z \in Byte, Due(<<x, y, z>>, port),
           Settled, dev' = dev, In \/ (ctl.obf = Empty /\ UNCHANGED ctl)
    PROVE  /\ Due(<<y, z>>, port)'
           /\ Reached(port) \in dev.present => ctl.obf # Empty /\ ctl.data = x
           /\ Reached(port) \notin dev.present => ctl.obf = Empty /\ Silence'
<1>1. PICK q \in Seq(Byte) : q = <<x, y, z>>
  <2>1. <<x, y, z>> \in Seq(Byte)
    OBVIOUS
  <2> QED BY <2>1
<1>2. q # <<>> /\ Head(q) = x /\ Tail(q) = <<y, z>> /\ Due(q, port)
  BY <1>1
<1>3. /\ Due(Tail(q), port)'
      /\ Reached(port) \in dev.present => ctl.obf # Empty /\ ctl.data = Head(q)
      /\ Reached(port) \notin dev.present => ctl.obf = Empty /\ Silence'
  BY <1>2, DueRead
<1> QED BY <1>2, <1>3

(* The invariant is about the driver's place, its variables, the           *)
(* configuration byte and what can still be read; it does not see whether  *)
(* a byte is in the buffer yet.                                            *)
LEMMA PromptKept ==
    ASSUME TypeOK, Prompt,
           at'.pc = at.pc, at'.sub = at.sub, local' = local, ctl'.config = ctl.config,
           dev'.channels = dev.channels, dev'.present = dev.present,
           dev'.scanning = dev.scanning,
           \A q \in Seq(Byte), o \in 0..2 : Stream(q, o) => Stream(q, o)',
           at.pc \in {1, 2, 3} => \A r \in 0..2 : Waiting(r)' = <<>>
    PROVE  Prompt'
<1>1. PlaceOK' /\ Settings' /\ Devices' /\ TypesRead'
  BY DEF Prompt, PlaceOK, Settings, Devices, TypesRead
<1>2. Reached(1)' = Reached(1) /\ Reached(2)' = Reached(2)
  BY DEF Reached
<1>3. ASSUME NEW q \in Seq(Byte), NEW port \in Ports
      PROVE  Due(q, port) => Due(q, port)'
  <2>1. Reached(port)' = Reached(port) /\ Reached(port) \in 0..2
    BY <1>2, ReachedPort DEF Ports
  <2>2. (IF Reached(port) \in dev.present THEN q ELSE <<>>) \in Seq(Byte)
    OBVIOUS
  <2> QED BY <2>1, <2>2 DEF Due
<1>4. /\ <<>> \in Seq(Byte) /\ <<{}>> \in Seq(Byte) /\ <<ctl.config>> \in Seq(Byte)
      /\ <<Bits(\h55)>> \in Seq(Byte) /\ <<ACK>> \in Seq(Byte) /\ <<BAT>> \in Seq(Byte)
      /\ <<Bits(\h83)>> \in Seq(Byte)
  BY AnswersAreBytes, BytesAreBytes DEF TypeOK, Controllers
<1>5. /\ <<ACK, BAT>> \in Seq(Byte) /\ <<ACK, BAT, {}>> \in Seq(Byte)
      /\ <<BAT, {}>> \in Seq(Byte) /\ <<ACK, {}>> \in Seq(Byte)
      /\ <<ACK, ACK>> \in Seq(Byte)
  BY AnswersAreBytes
<1>6. /\ <<ACK, Bits(\hAB), Bits(\h83)>> \in Seq(Byte)
      /\ <<Bits(\hAB), Bits(\h83)>> \in Seq(Byte)
  BY AnswersAreBytes, BytesAreBytes
<1>7. Silence => Silence'
  <2>1. 0 \in 0..2
    OBVIOUS
  <2> QED BY <1>4, <2>1 DEF Silence
<1>8. CASE ~Initialized
  <2>1. CommandsAnswered'
    <3>1. CommandsAnswered
      BY <1>8 DEF Prompt, Answers
    <3>2. 0 \in 0..2
      OBVIOUS
    <3>3. /\ Stream(<<ctl.config>>, 0) => Stream(<<ctl.config>>, 0)'
          /\ Stream(<<Bits(\h55)>>, 0) => Stream(<<Bits(\h55)>>, 0)'
          /\ Stream(<<{}>>, 0) => Stream(<<{}>>, 0)'
      BY <1>4, <3>2
    <3> QED BY <1>7, <3>1, <3>3 DEF CommandsAnswered
  <2>2. DevicesAnswer'
    <3>1. DevicesAnswer
      BY <1>8 DEF Prompt, Answers
    <3>2. 1 \in Ports /\ 2 \in Ports
      BY DEF Ports
    <3>3. /\ Due(<<ACK>>, 1) => Due(<<ACK>>, 1)'
          /\ Due(<<ACK>>, 2) => Due(<<ACK>>, 2)'
          /\ Due(<<BAT>>, 1) => Due(<<BAT>>, 1)'
          /\ Due(<<{}>>, 2) => Due(<<{}>>, 2)'
          /\ Due(<<Bits(\h83)>>, 1) => Due(<<Bits(\h83)>>, 1)'
          /\ Due(<<Bits(\h83)>>, 2) => Due(<<Bits(\h83)>>, 2)'
      BY <1>3, <1>4, <3>2
    <3>4. /\ Due(<<ACK, BAT>>, 1) => Due(<<ACK, BAT>>, 1)'
          /\ Due(<<ACK, BAT, {}>>, 2) => Due(<<ACK, BAT, {}>>, 2)'
          /\ Due(<<BAT, {}>>, 2) => Due(<<BAT, {}>>, 2)'
          /\ Due(<<ACK, {}>>, 2) => Due(<<ACK, {}>>, 2)'
          /\ Due(<<ACK, ACK>>, 1) => Due(<<ACK, ACK>>, 1)'
      BY <1>3, <1>5, <3>2
    <3>5. \A port \in Ports :
            /\ Due(<<ACK, Bits(\hAB), Bits(\h83)>>, port) =>
                  Due(<<ACK, Bits(\hAB), Bits(\h83)>>, port)'
            /\ Due(<<Bits(\hAB), Bits(\h83)>>, port) =>
                  Due(<<Bits(\hAB), Bits(\h83)>>, port)'
      BY <1>3, <1>6
    <3>6. ResetsAnswered'
      BY <1>7, <3>1, <3>3, <3>4 DEF DevicesAnswer, ResetsAnswered
    <3>7. SendsAnswered'
      BY <1>2, <1>7, <3>1, <3>2, <3>3, <3>4, <3>5 DEF DevicesAnswer, SendsAnswered
    <3>8. Identified'
      BY <1>2, <1>7, <3>1, <3>2, <3>3, <3>5 DEF DevicesAnswer, Identified
    <3> QED BY <3>6, <3>7, <3>8 DEF DevicesAnswer
  <2> QED BY <1>1, <2>1, <2>2 DEF Prompt, Answers
<1>9. CASE Initialized
  <2>1. Initialized'
    BY <1>9, EndOfCode DEF Initialized
  <2> QED BY <1>1, <2>1 DEF Prompt, Answers
<1> QED BY <1>8, <1>9

(* SendCommand ends with the first byte, or after MaxPolls turns when no   *)
(* device is there to answer.                                              *)
LEMMA PollPrompt ==
    ASSUME TypeOK, TypeOK', Prompt, Settled, Poll
    PROVE  Prompt'
<1>1. /\ at.pc \in {15, 16, 18, 19, 21, 22, 23} /\ at.sub = "sent"
      /\ UNCHANGED <<dev, local>>
  BY OpAt DEF Poll
<1>2. \/ Advance /\ (In \/ (ctl.obf = Empty /\ UNCHANGED ctl))
      \/ ctl' = ctl /\ at' = [at EXCEPT !.timeout = @ + 1]
  BY DEF Poll
<1>3. CASE ctl' = ctl /\ at' = [at EXCEPT !.timeout = @ + 1]
  <2>1. at'.pc = at.pc /\ at'.sub = at.sub
    BY <1>3 DEF TypeOK, Points
  <2>2. \A q \in Seq(Byte), o \in 0..2 : Stream(q, o) => Stream(q, o)'
    BY <1>1, <1>3 DEF Stream, Waiting
  <2>3. at.pc \notin {1, 2, 3}
    BY <1>1
  <2> QED BY <1>1, <1>3, <2>1, <2>2, <2>3, PromptKept
<1>4. CASE Advance /\ (In \/ (ctl.obf = Empty /\ UNCHANGED ctl))
  <2>1. at'.pc = at.pc + 1 /\ at'.sub = "start" /\ ctl'.config = ctl.config
    BY <1>4, Moved, InStep
  <2>2. PlaceOK' /\ Settings'
    BY <1>1, <2>1 DEF Prompt, PlaceOK, Settings
  <2>3. Devices' /\ TypesRead'
    BY <1>1, <2>1 DEF Prompt, Devices, TypesRead
  <2>4. 1 \in Ports /\ 2 \in Ports /\ Reached(2)' = Reached(2)
    BY <1>1 DEF Ports, Reached
  <2>5. ACK \in Byte /\ {} \in Byte /\ Bits(\hAB) \in Byte /\ Bits(\h83) \in Byte
    BY AnswersAreBytes, BytesAreBytes
  <2>6. DevicesAnswer
    BY <1>1, EndOfCode DEF Prompt, Answers
  <2>7. at.pc \in {15, 22, 18, 23} => Silence'
    <3>1. /\ at.pc \in {15, 22} => Due(<<ACK>>, 1)
          /\ at.pc \in {18, 23} => Due(<<ACK>>, 2)
      BY <1>1, <2>6 DEF DevicesAnswer, ResetsAnswered, SendsAnswered,
              Identified
    <3> QED BY <1>1, <1>4, <2>4, <2>5, <3>1, DueRead1
  <2>8. at.pc = 21 => Due(<<ACK>>, 1)'
    BY <1>1, <1>4, <2>4, <2>5, <2>6, DueRead2
       DEF DevicesAnswer, ResetsAnswered, SendsAnswered,
              Identified
  <2>9. at.pc = 16 => Due(<<Bits(\hAB), Bits(\h83)>>, 1)'
    BY <1>1, <1>4, <2>4, <2>5, <2>6, DueRead3
       DEF DevicesAnswer, ResetsAnswered, SendsAnswered,
              Identified
  <2>10. at.pc = 19 => /\ Reached(2)' = 1 => Due(<<Bits(\hAB), Bits(\h83)>>, 2)'
                       /\ Reached(2)' = 2 => Due(<<{}>>, 2)'
    BY <1>1, <1>4, <2>4, <2>5, <2>6, DueRead2, DueRead3
       DEF DevicesAnswer, ResetsAnswered, SendsAnswered,
              Identified
  <2>11. CommandsAnswered'
    <3>1. CASE at.pc = 23
      BY <2>1, <2>7, <3>1 DEF CommandsAnswered
    <3>2. CASE at.pc # 23
      BY <1>1, <2>1, <3>2, NoCommandPending
    <3> QED BY <3>1, <3>2
  <2>12. DevicesAnswer'
    BY <1>1, <2>1, <2>7, <2>8, <2>9, <2>10
       DEF DevicesAnswer, ResetsAnswered, SendsAnswered,
              Identified
  <2> QED BY <2>2, <2>3, <2>11, <2>12 DEF Prompt, Answers
<1> QED BY <1>2, <1>3, <1>4

(* Where Reset goes after a read, with what is then due. *)
LEMMA ResetGoesOn ==
    ASSUME TypeOK, Prompt, UNCHANGED <<dev, local>>, ctl'.config = ctl.config,
           at.pc \in {13, 14}, at.pc = 14 => local.channels = 2,
           \/ Advance /\ Silence'
           \/ /\ Goto("second")
              /\ at.pc = 13 => Due(<<BAT>>, 1)'
              /\ at.pc = 14 => Due(<<BAT, {}>>, 2)'
           \/ /\ Goto("third")
              /\ at.pc = 13 => Silence'
              /\ at.pc = 14 => Due(<<{}>>, 2)'
    PROVE  Prompt'
<1>1. \/ at'.pc = at.pc + 1 /\ at'.sub = "start"
      \/ at'.pc = at.pc /\ at'.sub \in {"second", "third"}
  BY Moved
<1>2. PlaceOK' /\ Settings'
  BY <1>1 DEF Prompt, PlaceOK, Settings
<1>3. Devices' /\ TypesRead'
  BY <1>1 DEF Prompt, Devices, TypesRead
<1>4. CommandsAnswered'
  BY <1>1, NoCommandPending
<1>5. DevicesAnswer'
  <2>1. CASE Advance /\ Silence'
    <3>1. at'.pc \in {14, 15} /\ at'.sub = "start"
      BY <2>1, Moved
    <3> QED BY <2>1, <3>1
            DEF DevicesAnswer, ResetsAnswered, SendsAnswered, Identified
  <2>2. CASE /\ Goto("second")
             /\ at.pc = 13 => Due(<<BAT>>, 1)'
             /\ at.pc = 14 => Due(<<BAT, {}>>, 2)'
    <3>1. at'.pc = at.pc /\ at'.sub = "second"
      BY <2>2, Moved
    <3> QED BY <2>2, <3>1
            DEF DevicesAnswer, ResetsAnswered, SendsAnswered, Identified
  <2>3. CASE /\ Goto("third")
             /\ at.pc = 13 => Silence'
             /\ at.pc = 14 => Due(<<{}>>, 2)'
    <3>1. at'.pc = at.pc /\ at'.sub = "third"
      BY <2>3, Moved
    <3> QED BY <2>3, <3>1
            DEF DevicesAnswer, ResetsAnswered, SendsAnswered, Identified
  <2> QED BY <2>1, <2>2, <2>3
<1> QED BY <1>2, <1>3, <1>4, <1>5 DEF Prompt, Answers

(* The reads of Reset take ACK, BAT and the mouse's number; none is left   *)
(* over for the steps after it.                                            *)
LEMMA ResetPrompt ==
    ASSUME TypeOK, TypeOK', Prompt, Settled,
           \/ ResetReads("sent", "second", {ACK, BAT})
           \/ ResetReads("second", "third", {ACK, BAT})
           \/ ResetReads("third", "end", {{}})
    PROVE  Prompt'
<1>1. /\ at.pc \in {13, 14} /\ (at.pc = 14 => local.channels = 2)
      /\ UNCHANGED <<dev, local>>
      /\ In \/ (ctl.obf = Empty /\ UNCHANGED ctl)
  BY OpAt DEF ResetReads
<1>2. ctl'.config = ctl.config
  BY <1>1, InStep
<1>3. 1 \in Ports /\ 2 \in Ports /\ ACK \in Byte /\ BAT \in Byte /\ {} \in Byte
  BY AnswersAreBytes DEF Ports
<1>4. ResetsAnswered
  BY <1>1, EndOfCode DEF Prompt, Answers, DevicesAnswer
<1>5. CASE ResetReads("sent", "second", {ACK, BAT})
  <2>1. /\ at.sub = "sent"
        /\ IF ctl.data \notin {ACK, BAT} THEN Advance ELSE Goto("second")
    BY <1>5 DEF ResetReads
  <2>2. CASE at.pc = 13
    <3>1. Due(<<ACK, BAT>>, 1)
      BY <1>4, <2>1, <2>2 DEF ResetsAnswered
    <3>2. /\ Due(<<BAT>>, 1)'
          /\ Reached(1) \in dev.present => ctl.data = ACK
          /\ Reached(1) \notin dev.present => Silence'
      BY <1>1, <1>3, <3>1, DueRead2
    <3>3. (Advance /\ Silence') \/ (Goto("second") /\ Due(<<BAT>>, 1)')
      BY <2>1, <3>2
    <3> QED BY <1>1, <1>2, <2>2, <3>3, ResetGoesOn
  <2>3. CASE at.pc = 14
    <3>1. Due(<<ACK, BAT, {}>>, 2)
      BY <1>4, <2>1, <2>3 DEF ResetsAnswered
    <3>2. /\ Due(<<BAT, {}>>, 2)'
          /\ Reached(2) \in dev.present => ctl.data = ACK
          /\ Reached(2) \notin dev.present => Silence'
      BY <1>1, <1>3, <3>1, DueRead3
    <3>3. (Advance /\ Silence') \/ (Goto("second") /\ Due(<<BAT, {}>>, 2)')
      BY <2>1, <3>2
    <3> QED BY <1>1, <1>2, <2>3, <3>3, ResetGoesOn
  <2> QED BY <1>1, <2>2, <2>3
<1>6. CASE ResetReads("second", "third", {ACK, BAT})
  <2>1. /\ at.sub = "second"
        /\ IF ctl.obf # Empty /\ ctl.data \notin {ACK, BAT}
           THEN Advance ELSE Goto("third")
    BY <1>6 DEF ResetReads
  <2>2. CASE at.pc = 13
    <3>1. Due(<<BAT>>, 1)
      BY <1>4, <2>1, <2>2 DEF ResetsAnswered
    <3>2. Silence'
      BY <1>1, <1>3, <3>1, DueRead1
    <3> QED BY <1>1, <1>2, <2>1, <2>2, <3>2, ResetGoesOn
  <2>3. CASE at.pc = 14
    <3>1. Due(<<BAT, {}>>, 2)
      BY <1>4, <2>1, <2>3 DEF ResetsAnswered
    <3>2. /\ Due(<<{}>>, 2)'
          /\ Reached(2) \in dev.present => ctl.data = BAT
          /\ Reached(2) \notin dev.present => ctl.obf = Empty
      BY <1>1, <1>3, <3>1, DueRead2
    <3>3. Goto("third")
      BY <2>1, <3>2
    <3> QED BY <1>1, <1>2, <2>3, <3>2, <3>3, ResetGoesOn
  <2> QED BY <1>1, <2>2, <2>3
<1>7. CASE ResetReads("third", "end", {{}})
  <2>1. at.sub = "third" /\ Advance
    BY <1>7 DEF ResetReads
  <2>2. CASE at.pc = 13
    <3>1. Silence
      BY <1>4, <2>1, <2>2 DEF ResetsAnswered
    <3>2. ctl' = ctl
      <4>1. ctl.obf = Empty
        BY <3>1, SilenceMeans
      <4> QED BY <1>7, <4>1 DEF ResetReads
    <3>3. Silence'
      BY <1>1, <3>1, <3>2, SilenceKept
    <3> QED BY <1>1, <1>2, <2>1, <2>2, <3>3, ResetGoesOn
  <2>3. CASE at.pc = 14
    <3>1. Due(<<{}>>, 2)
      BY <1>4, <2>1, <2>3 DEF ResetsAnswered
    <3>2. Silence'
      BY <1>1, <1>3, <3>1, DueRead1
    <3> QED BY <1>1, <1>2, <2>1, <2>3, <3>2, ResetGoesOn
  <2> QED BY <1>1, <2>2, <2>3
<1> QED BY <1>5, <1>6, <1>7

(* A read of an empty buffer. *)
LEMMA SilentRead ==
    ASSUME TypeOK, Silence, Settled, In, dev' = dev
    PROVE  Silence'
<1>1. <<>> \in Seq(Byte) /\ 0 \in 0..2 /\ Stream(<<>>, 0)
  BY DEF Silence
<1> QED BY <1>1, StreamIn

(* Identify reads the type of its own device: two bytes of a keyboard and  *)
(* one of a mouse.                                                         *)
LEMMA IdentifyPrompt ==
    ASSUME TypeOK, TypeOK', Prompt, Settled, DoIdentify
    PROVE  Prompt'
<1>1. /\ at.pc \in {17, 20} /\ In /\ dev' = dev
      /\ IF at.sub = "start" /\ 7 \in ctl.data /\ ctl.data # {7}
         THEN Goto("more") ELSE Advance
  BY OpAt DEF DoIdentify
<1>2. \/ Goto("more") /\ at'.pc = at.pc /\ at'.sub = "more"
      \/ Advance /\ at'.pc = at.pc + 1 /\ at'.sub = "start"
  BY <1>1, Moved
<1>3. ctl'.config = ctl.config
  BY <1>1, InStep
<1>4. at.sub \in {"start", "more"}
  <2>1. at.sub \in Places
    BY DEF TypeOK, Points
  <2>2. at.sub \notin {"sent", "second", "third"}
    BY <1>1 DEF Prompt, PlaceOK
  <2> QED BY <2>1, <2>2 DEF Places
<1>5. /\ local'.ccb = local.ccb /\ local'.channels = local.channels
      /\ at.pc = 17 => /\ local'.type[1] = Append(local.type[1], ctl.data)
                       /\ local'.type[2] = local.type[2]
      /\ at.pc = 20 => /\ local'.type[2] = Append(local.type[2], ctl.data)
                       /\ local'.type[1] = local.type[1]
  <2>1. local \in Locals
    BY DEF TypeOK
  <2>2. PICK port \in Ports : /\ port = Now.port
                              /\ at.pc = 17 => port = 1
                              /\ at.pc = 20 => port = 2
    <3>1. CASE at.pc = 17
      BY <3>1, NowAt DEF Identify, Ports
    <3>2. CASE at.pc = 20
      BY <3>2, NowAt DEF Identify, Ports
    <3> QED BY <1>1, <3>1, <3>2
  <2>4. PICK q : q = Append(local.type[port], ctl.data)
    OBVIOUS
  <2>3. local' = [local EXCEPT !.type[port] = q]
    BY <2>2, <2>4 DEF DoIdentify
  <2>5. /\ local'.ccb = local.ccb /\ local'.channels = local.channels
        /\ local'.type[port] = q
        /\ \A p \in Ports : p # port => local'.type[p] = local.type[p]
    BY <2>1, <2>3 DEF Locals
  <2>6. CASE at.pc = 17
    <3>1. port = 1 /\ at.pc # 20 /\ 2 \in Ports /\ 2 # port
      BY <2>2, <2>6 DEF Ports
    <3>2. local'.type[1] = q /\ q = Append(local.type[1], ctl.data)
      BY <2>4, <2>5, <3>1
    <3> QED BY <2>5, <3>1, <3>2
  <2>7. CASE at.pc = 20
    <3>1. port = 2 /\ at.pc # 17 /\ 1 \in Ports /\ 1 # port
      BY <2>2, <2>7 DEF Ports
    <3>2. local'.type[2] = q /\ q = Append(local.type[2], ctl.data)
      BY <2>4, <2>5, <3>1
    <3> QED BY <2>5, <3>1, <3>2
  <2> QED BY <1>1, <2>6, <2>7
<1>6. Settings' /\ Devices'
  BY <1>1, <1>2, <1>3, <1>5 DEF Prompt, Settings, Devices
<1>7. /\ 1 \in Ports /\ 2 \in Ports /\ {} \in Byte
      /\ Bits(\hAB) \in Byte /\ Bits(\h83) \in Byte
  BY AnswersAreBytes, BytesAreBytes DEF Ports
<1>8. Identified
  BY <1>1, EndOfCode DEF Prompt, Answers, DevicesAnswer
<1>9. 7 \in Bits(\hAB) /\ Bits(\hAB) # {7}
  BY BitFacts
<1>10. /\ Reached(1) = 1 /\ Reached(2)' = Reached(2)
       /\ Reached(2) = dev.channels /\ dev.channels \in {1, 2}
  BY <1>1, Moved DEF Reached
<1>11. dev.present \subseteq 1..dev.channels
  BY DEF Prompt, Devices
<1>12. CASE at.pc = 17
  <2>1. CASE at.sub = "start"
    <3>1. Due(<<Bits(\hAB), Bits(\h83)>>, 1)
      BY <1>8, <1>12, <2>1 DEF Identified
    <3>2. /\ Due(<<Bits(\h83)>>, 1)'
          /\ 1 \in dev.present => ctl.data = Bits(\hAB)
          /\ 1 \notin dev.present => Silence'
      BY <1>1, <1>7, <1>10, <3>1, DueRead2
    <3>3. 1 \in dev.present => Goto("more")
      BY <1>1, <1>9, <2>1, <3>2
    <3>4. 1 \in dev.present => local'.type[1] = <<Bits(\hAB)>>
      <4>1. local.type[1] = <<>>
        BY <1>12, <2>1 DEF Prompt, TypesRead
      <4> QED BY <1>5, <1>12, <3>2, <4>1
    <3>5. local'.type[2] = <<>>
      BY <1>5, <1>12 DEF Prompt, TypesRead
    <3>6. at'.pc = 18 => 1 \notin dev.present
      BY <1>2, <1>12, <3>3, Moved
    <3>7. PlaceOK' /\ TypesRead'
      BY <1>1, <1>2, <1>12, <3>4, <3>5, <3>6 DEF PlaceOK, TypesRead
    <3>8. CommandsAnswered'
      BY <1>2, <1>12, NoCommandPending
    <3>9. DevicesAnswer'
      BY <1>2, <1>12, <3>2, <3>6
         DEF DevicesAnswer, ResetsAnswered, SendsAnswered, Identified
    <3> QED BY <1>6, <3>7, <3>8, <3>9 DEF Prompt, Answers
  <2>2. CASE at.sub = "more"
    <3>1. Due(<<Bits(\h83)>>, 1)
      BY <1>8, <1>12, <2>2 DEF Identified
    <3>2. Silence' /\ (1 \in dev.present => ctl.data = Bits(\h83))
      BY <1>1, <1>7, <1>10, <3>1, DueRead1
    <3>3. at'.pc = 18 /\ at'.sub = "start"
      BY <1>1, <1>12, <2>2, Moved
    <3>4. 1 \in dev.present => local'.type[1] = <<Bits(\hAB), Bits(\h83)>>
      <4>1. 1 \in dev.present => local.type[1] = <<Bits(\hAB)>>
        BY <1>12, <2>2 DEF Prompt, TypesRead
      <4>2. Append(<<Bits(\hAB)>>, Bits(\h83)) = <<Bits(\hAB), Bits(\h83)>>
        BY <1>7, AppendPair
      <4>3. local'.type[1] = Append(local.type[1], ctl.data)
        BY <1>5, <1>12
      <4> QED BY <3>2, <4>1, <4>2, <4>3, Zenon
    <3>5. local'.type[2] = <<>>
      BY <1>5, <1>12 DEF Prompt, TypesRead
    <3>6. PlaceOK' /\ TypesRead'
      BY <1>1, <3>3, <3>4, <3>5 DEF PlaceOK, TypesRead
    <3>7. CommandsAnswered'
      BY <3>3, NoCommandPending
    <3>8. DevicesAnswer'
      BY <3>2, <3>3 DEF DevicesAnswer, ResetsAnswered, SendsAnswered, Identified
    <3> QED BY <1>6, <3>6, <3>7, <3>8 DEF Prompt, Answers
  <2> QED BY <1>4, <2>1, <2>2
<1>13. CASE at.pc = 20
  <2>1. ASSUME 2 \in dev.present
        PROVE  Advance /\ local'.type[2] = <<{}>> /\ Silence'
    <3>1. Reached(2) = 2
      BY <1>10, <1>11, <2>1
    <3>2. at.sub = "start"
      BY <1>4, <1>13, <2>1 DEF Prompt, PlaceOK
    <3>3. Due(<<{}>>, 2)
      BY <1>8, <1>13, <3>1, <3>2 DEF Identified
    <3>4. Silence' /\ ctl.data = {}
      BY <1>1, <1>7, <2>1, <3>1, <3>3, DueRead1
    <3>5. Advance
      BY <1>1, <3>4
    <3>6. local.type[2] = <<>>
      BY <1>13, <3>2 DEF Prompt, TypesRead
    <3> QED BY <1>5, <1>13, <3>4, <3>5, <3>6
  <2>2. 1 \in dev.present => local'.type[1] = <<Bits(\hAB), Bits(\h83)>>
    BY <1>5, <1>13 DEF Prompt, TypesRead
  <2>3. at'.sub = "more" => 2 \notin dev.present
    BY <1>2, <1>13, <2>1, Moved
  <2>4. PlaceOK' /\ TypesRead'
    BY <1>1, <1>2, <1>13, <2>1, <2>2, <2>3 DEF PlaceOK, TypesRead
  <2>5. CommandsAnswered'
    BY <1>2, <1>13, NoCommandPending
  <2>6. /\ Advance => Silence'
        /\ Goto("more") /\ Reached(2) = 1 => Due(<<Bits(\h83)>>, 2)'
        /\ Goto("more") /\ Reached(2) = 2 => Silence'
    <3>1. CASE at.sub = "start" /\ Reached(2) = 1
      <4>1. Due(<<Bits(\hAB), Bits(\h83)>>, 2)
        BY <1>8, <1>13, <3>1 DEF Identified
      <4>2. /\ Due(<<Bits(\h83)>>, 2)'
            /\ 1 \in dev.present => ctl.data = Bits(\hAB)
            /\ 1 \notin dev.present => Silence'
        BY <1>1, <1>7, <3>1, <4>1, DueRead2
      <4>3. Advance => 1 \notin dev.present
        <5>1. ASSUME Goto("more") PROVE ~Advance
          BY <5>1, <3>1, Moved
        <5> QED BY <1>1, <1>9, <3>1, <4>2, <5>1
      <4> QED BY <3>1, <4>2, <4>3
    <3>2. CASE at.sub = "start" /\ Reached(2) = 2
      <4>1. Due(<<{}>>, 2)
        BY <1>8, <1>13, <3>2 DEF Identified
      <4> QED BY <1>1, <1>7, <3>2, <4>1, DueRead1
    <3>3. CASE at.sub = "more" /\ Reached(2) = 1
      <4>1. Due(<<Bits(\h83)>>, 2)
        BY <1>8, <1>13, <3>3 DEF Identified
      <4>2. Silence'
        BY <1>1, <1>7, <4>1, DueRead1
      <4>3. ~Goto("more")
        <5>1. at'.sub = "start"
          BY <1>1, <3>3, Moved
        <5> QED BY <5>1, Moved
      <4> QED BY <4>2, <4>3
    <3>4. CASE at.sub = "more" /\ Reached(2) = 2
      <4>1. Silence
        BY <1>8, <1>13, <3>4 DEF Identified
      <4>2. Silence'
        BY <1>1, <4>1, SilentRead
      <4> QED BY <3>4, <4>2
    <3> QED BY <1>4, <1>10, <3>1, <3>2, <3>3, <3>4
  <2>7. DevicesAnswer'
    BY <1>2, <1>10, <1>13, <2>6
       DEF DevicesAnswer, ResetsAnswered, SendsAnswered, Identified
  <2> QED BY <1>6, <2>4, <2>5, <2>7 DEF Prompt, Answers
<1> QED BY <1>1, <1>12, <1>13

(* Every step of Initialize preserves the invariant if all has settled     *)
(* before it.                                                              *)
LEMMA DriverPrompt ==
    ASSUME TypeOK, TypeOK', Prompt, Settled, Driver
    PROVE  Prompt'
BY SkipPrompt, CommandPrompt, ReadPrompt, ReadCcbPrompt, WritePrompt, FlushPrompt,
   SendPrompt, PollPrompt, ResetPrompt, IdentifyPrompt DEF Driver

-----------------------------------------------------------------------------
(* All steps. *)

(* Bytes that arrive preserve it. *)
LEMMA FillPrompt ==
    ASSUME TypeOK, Prompt, NEW r \in 0..2, Fill(r)
    PROVE  Prompt'
<1>1. at' = at /\ local' = local /\ ctl'.config = ctl.config
  BY FillStep DEF Fill
<1>2. /\ dev'.channels = dev.channels /\ dev'.present = dev.present
      /\ dev'.scanning = dev.scanning
  <2>1. dev' = dev \/ dev' = [dev EXCEPT !.out[r] = Tail(@)]
    BY FillStep
  <2> QED BY <2>1 DEF TypeOK, Machines
<1>3. \A q \in Seq(Byte), o \in 0..2 : Stream(q, o) => Stream(q, o)'
  BY StreamFill
<1>4. at.pc \notin {1, 2, 3}
  <2> SUFFICES ASSUME at.pc \in {1, 2, 3} PROVE FALSE
    OBVIOUS
  <2>1. \A s \in 0..2 : Waiting(s) = <<>>
    BY EndOfCode DEF Prompt, Answers, CommandsAnswered
  <2>2. Waiting(r) # <<>>
    BY FillStep DEF Waiting
  <2> QED BY <2>1, <2>2
<1> QED BY <1>1, <1>2, <1>3, <1>4, PromptKept

(* Steps after Initialize preserve it if they leave the configuration. *)
LEMMA LaterPrompt ==
    ASSUME TypeOK, Prompt, Initialized, at'.pc \in Nat, at'.pc >= at.pc,
           at'.sub \in {"start", at.sub}, local' = local, ctl'.config = ctl.config,
           dev'.channels = dev.channels, dev'.present = dev.present,
           dev'.scanning = dev.scanning
    PROVE  Prompt' /\ Initialized'
<1>1. at.pc \in 29..33 /\ at'.pc > 28 /\ Initialized'
  BY Moved, EndOfCode DEF Initialized
<1>2. at.sub = "start"
  <2>1. at.sub \in Places
    BY DEF TypeOK, Points
  <2> QED BY <1>1, <2>1 DEF Prompt, PlaceOK, Places
<1>3. PlaceOK' /\ Devices' /\ TypesRead'
  BY <1>1, <1>2 DEF Prompt, PlaceOK, Devices, TypesRead
<1>4. Settings'
  BY <1>1 DEF Prompt, Settings
<1> QED BY <1>1, <1>3, <1>4 DEF Prompt, Answers

(* SetHandler stores the handlers of line 1 and of line 12. *)
LEMMA HandlerStep ==
    ASSUME TypeOK, SetHandler
    PROVE  /\ at.pc \in 29..32 /\ Initialized
           /\ at'.pc = at.pc + 1 /\ at'.sub = "start"
           /\ irq.cpu = "main" /\ irq'.cpu = "main"
           /\ at.pc \in {29, 31} => irq' = irq
           /\ at.pc = 30 => irq'.handlers = irq.handlers \cup {1}
           /\ at.pc = 32 => irq'.handlers = irq.handlers \cup {12}
<1>1. at.pc \in 29..32 /\ Steps = 28
  BY HandlerPoint, EndOfCode
<1>2. irq.cpu = "main" /\ Advance
  BY DEF SetHandler, Ready
<1>3. irq \in [handlers : SUBSET {1, 12}, cpu : {"main", "mouse"}]
  BY DEF TypeOK
<1>4. irq' = IF SetHandlers[at.pc - 28][1] = "unmask" THEN irq
             ELSE [irq EXCEPT !.handlers = @ \cup {SetHandlers[at.pc - 28][2]}]
  BY <1>1 DEF SetHandler
<1>5. /\ SetHandlers[1] = <<"unmask", 1>> /\ SetHandlers[2] = <<"store", 1>>
      /\ SetHandlers[3] = <<"unmask", 12>> /\ SetHandlers[4] = <<"store", 12>>
  BY DEF SetHandlers
<1>6. CASE at.pc = 29
  BY <1>2, <1>3, <1>4, <1>5, <1>6, Moved, EndOfCode
<1>7. CASE at.pc = 30
  BY <1>2, <1>3, <1>4, <1>5, <1>7, Moved, EndOfCode
<1>8. CASE at.pc = 31
  BY <1>2, <1>3, <1>4, <1>5, <1>8, Moved, EndOfCode
<1>9. CASE at.pc = 32
  BY <1>2, <1>3, <1>4, <1>5, <1>9, Moved, EndOfCode
<1> QED BY <1>1, <1>6, <1>7, <1>8, <1>9

(* Interrupts come after Initialize and leave the configuration byte. *)
LEMMA InterruptStep ==
    ASSUME TypeOK, Stored, Interrupts
    PROVE  /\ Initialized /\ UNCHANGED <<dev, at, local>>
           /\ ctl'.config = ctl.config /\ ctl'.answers = ctl.answers
           /\ ctl'.data = ctl.data
<1>1. ctl \in Controllers
  BY DEF TypeOK
<1>2. at.pc > 29
  <2>1. (\E l \in {1, 12} : Taken(l)) \/ irq.cpu = "mouse"
    BY DEF Interrupts, Dropped, OnKeyboard, OnMouse
  <2>2. ASSUME NEW l \in {1, 12}, Taken(l) PROVE at.pc > 29
    BY <2>2, EndOfCode, Moved DEF Taken
  <2>3. irq.cpu = "mouse" => at.pc > 29
    BY Moved DEF Stored
  <2> QED BY <2>1, <2>2, <2>3
<1>3. Initialized
  BY <1>2, EndOfCode, Moved
<1>4. UNCHANGED <<dev, at, local>>
  BY DEF Interrupts, Dropped, OnKeyboard, OnMouse
<1>5. \/ \E s : ctl' = [ctl EXCEPT !.irr = s]
      \/ \E s : ctl' = [ctl EXCEPT !.irr = s, !.obf = Empty]
      \/ In
  BY DEF Interrupts, Dropped, OnKeyboard, OnMouse
<1> QED BY <1>1, <1>3, <1>4, <1>5, InStep DEF Controllers

(* The first states satisfy the invariant. *)
LEMMA InitPrompt == Init => Prompt /\ Stored /\ Silent /\ Logged
<1> SUFFICES ASSUME Init PROVE Prompt /\ Stored /\ Silent /\ Logged
  OBVIOUS
<1>1. at.pc = 1 /\ at.sub = "start" /\ ~Initialized
  <2>1. at.pc = 1 /\ at.sub = "start"
    BY DEF Init
  <2> QED BY <2>1, EndOfCode
<1>2. dev.present \subseteq 1..dev.channels /\ dev.scanning \subseteq dev.present
  BY DEF Init
<1>3. ctl.answers = <<>> /\ dev.out = [p \in Ports |-> <<>>]
  BY DEF Init
<1>4. Disabled(2) \in ctl.config => dev.channels = 2
  BY DEF Init
<1>5. local.type = [p \in Ports |-> <<>>] /\ irq.handlers = {} /\ irq.cpu = "main"
  BY DEF Init
<1>6. seen.keys = 0 /\ seen.moves = 0 /\ seen.log = <<>>
  BY DEF Init
<1>7. PlaceOK /\ Settings /\ Devices
  BY <1>1, <1>2, <1>4 DEF PlaceOK, Settings, Devices
<1>8. TypesRead
  BY <1>1, <1>5 DEF TypesRead, Ports
<1>9. \A r \in 0..2 : Waiting(r) = <<>>
  BY <1>3 DEF Waiting, Ports
<1>10. CommandsAnswered
  BY <1>1, <1>9 DEF CommandsAnswered
<1>11. DevicesAnswer
  BY <1>1 DEF DevicesAnswer, ResetsAnswered, SendsAnswered, Identified
<1>12. Stored
  BY <1>5 DEF Stored
<1> QED BY <1>1, <1>6, <1>7, <1>8, <1>10, <1>11, <1>12
        DEF Prompt, Answers, Silent, Logged

(* Initialize ends with the step that enables the second port. *)
LEMMA DriverStep ==
    ASSUME TypeOK, Driver
    PROVE  /\ at.pc =< 28 /\ irq' = irq
           /\ Initialized' => /\ at.pc = 28 /\ (SkipSecond \/ DoCommand)
                              /\ at'.sub = "start"
<1>1. \/ SkipSecond \/ DoCommand \/ DoRead \/ DoReadCcb \/ DoWrite
      \/ Flush \/ SendBytes \/ Poll \/ DoIdentify
      \/ ResetReads("sent", "second", {ACK, BAT})
      \/ ResetReads("second", "third", {ACK, BAT})
      \/ ResetReads("third", "end", {{}})
  BY DEF Driver
<1>2. SkipSecond => at.pc \in {11, 12, 14, 28} /\ Advance
  BY OpAt DEF SkipSecond
<1>3. DoCommand => at.pc \in {1, 2, 4, 7, 9, 11, 24, 27, 28} /\ Advance
  BY OpAt DEF DoCommand
<1>4. DoRead => at.pc \in {3, 8, 10, 12} /\ Advance
  BY OpAt DEF DoRead
<1>5. DoReadCcb \/ DoWrite => at.pc \in {5, 6, 25, 26} /\ Advance
  BY OpAt DEF DoReadCcb, DoWrite
<1>6. ASSUME Flush \/ SendBytes \/ Poll \/ DoIdentify
             \/ ResetReads("sent", "second", {ACK, BAT})
             \/ ResetReads("second", "third", {ACK, BAT})
             \/ ResetReads("third", "end", {{}})
      PROVE  at.pc \in 13..23 /\ at'.pc \in {at.pc, at.pc + 1}
  <2>1. at.pc \in 13..23
    BY <1>6, OpAt DEF Flush, SendBytes, Poll, DoIdentify, ResetReads
  <2>2. \/ Advance \/ (\E place : Goto(place))
        \/ at' = at \/ at' = [at EXCEPT !.timeout = @ + 1]
    BY <1>6 DEF Flush, SendBytes, Poll, DoIdentify, ResetReads
  <2>3. at' = at \/ at' = [at EXCEPT !.timeout = @ + 1] => at'.pc = at.pc
    BY DEF TypeOK, Points
  <2> QED BY <2>1, <2>2, <2>3, Moved
<1>7. Initialized' <=> at'.pc > 28
  BY EndOfCode DEF Initialized
<1>8. irq' = irq
  BY DEF Driver
<1>9. at.pc \in 1..28 /\ (Initialized' => at.pc = 28 /\ (SkipSecond \/ DoCommand))
  BY <1>1, <1>2, <1>3, <1>4, <1>5, <1>6, <1>7, Moved
<1> QED BY <1>2, <1>3, <1>8, <1>9, Moved

(* Every step keeps the order in which the handlers are stored. *)
LEMMA StoredKept ==
    ASSUME TypeOK, Stored, [Next]_vars
    PROVE  Stored'
<1>1. CASE Driver
  <2>1. irq' = irq /\ at.pc \in 1..28
    BY <1>1, DriverStep, Moved
  <2>2. 1 \notin irq.handlers /\ 12 \notin irq.handlers /\ irq.cpu # "mouse"
    BY <2>1 DEF Stored
  <2> QED BY <2>1, <2>2 DEF Stored
<1>2. CASE SetHandler
  <2>1. irq \in [handlers : SUBSET {1, 12}, cpu : {"main", "mouse"}]
    BY DEF TypeOK
  <2> QED BY <1>2, <2>1, HandlerStep DEF Stored
<1>3. CASE Interrupts
  <2>1. at' = at
    BY <1>3, InterruptStep
  <2>2. irq' = irq \/ (irq' = [irq EXCEPT !.cpu = "mouse"] /\ 12 \in irq.handlers)
                   \/ irq' = [irq EXCEPT !.cpu = "main"]
    BY <1>3 DEF Interrupts, Dropped, OnKeyboard, OnMouse
  <2>3. irq \in [handlers : SUBSET {1, 12}, cpu : {"main", "mouse"}]
    BY DEF TypeOK
  <2> QED BY <2>1, <2>2, <2>3 DEF Stored
<1>4. CASE Fills \/ Key \/ Move \/ Idle \/ UNCHANGED vars
  BY <1>4 DEF Stored, Fills, Fill, Key, Move, Idle, vars
<1> QED BY <1>1, <1>2, <1>3, <1>4 DEF Next

(* Every step into the quiet case preserves the invariant. *)
LEMMA PromptStep ==
    ASSUME TypeOK, TypeOK', Stored, Prompt, [Next]_vars, Quiet'
    PROVE  /\ Prompt'
           /\ SetHandler \/ Interrupts \/ Key \/ Move => Initialized'
<1>1. ASSUME Driver PROVE Prompt'
  BY <1>1, QuietStep, DriverPrompt
<1>2. ASSUME SetHandler \/ Interrupts \/ Key \/ Move
      PROVE  Prompt' /\ Initialized'
  <2>1. Initialized
    BY <1>2, HandlerStep, InterruptStep, QuietStep
  <2>2. at'.pc \in Nat /\ at'.pc >= at.pc /\ at'.sub \in {"start", at.sub}
    <3>1. at' = at \/ (at'.pc = at.pc + 1 /\ at'.sub = "start")
      BY <1>2, HandlerStep, InterruptStep DEF Key, Move
    <3>2. at.pc \in 1..33
      BY Moved
    <3> QED BY <3>1, <3>2
  <2>3. local' = local /\ ctl'.config = ctl.config
    BY <1>2, InterruptStep DEF SetHandler, Key, Move
  <2>4. /\ dev'.channels = dev.channels /\ dev'.present = dev.present
        /\ dev'.scanning = dev.scanning
    <3>1. dev' = dev \/ (\E p, q : dev' = [dev EXCEPT !.out[p] = q])
      BY <1>2, InterruptStep DEF SetHandler, Key, Move
    <3> QED BY <3>1 DEF TypeOK, Machines
  <2> QED BY <2>1, <2>2, <2>3, <2>4, LaterPrompt
<1>3. ASSUME Fills PROVE Prompt'
  BY <1>3, FillPrompt DEF Fills
<1>4. ASSUME Idle \/ UNCHANGED vars PROVE Prompt'
  <2>1. UNCHANGED vars
    BY <1>4 DEF Idle
  <2>2. \A q \in Seq(Byte), o \in 0..2 : Stream(q, o) => Stream(q, o)'
    BY <2>1 DEF Stream, Waiting, vars
  <2>3. at.pc \in {1, 2, 3} => \A r \in 0..2 : Waiting(r)' = <<>>
    BY <2>1, EndOfCode DEF Prompt, Answers, CommandsAnswered, Waiting, vars
  <2> QED BY <2>1, <2>2, <2>3, PromptKept DEF vars
<1>5. SetHandler \/ Interrupts \/ Key \/ Move => Initialized'
  BY <1>2
<1>6. Prompt'
  BY <1>1, <1>2, <1>3, <1>4 DEF Next
<1> QED BY <1>5, <1>6

(* Every step into the quiet case keeps the devices silent until           *)
(* Initialize is over.                                                     *)
LEMMA SilentStep ==
    ASSUME TypeOK, TypeOK', Stored, Prompt, Silent, [Next]_vars, Quiet'
    PROVE  Silent'
<1>1. CASE Driver
  <2>1. seen' = seen /\ ~Initialized
    BY <1>1, QuietStep, DriverStep, EndOfCode, Moved
  <2> QED BY <2>1 DEF Silent
<1>2. CASE SetHandler \/ Interrupts \/ Key \/ Move
  BY <1>2, PromptStep DEF Silent
<1>3. CASE Fills \/ Idle \/ UNCHANGED vars
  <2>1. at' = at /\ seen' = seen
    BY <1>3 DEF Fills, Fill, Idle, vars
  <2> QED BY <2>1 DEF Silent, Initialized
<1> QED BY <1>1, <1>2, <1>3 DEF Next

-----------------------------------------------------------------------------
(* What is logged. *)

(* When Initialize ends the buffer is empty, nothing is on its way and     *)
(* nothing is logged.                                                      *)
LEMMA LoggedStarts ==
    ASSUME TypeOK, TypeOK', Stored, Prompt, Silent, Driver, seen' = seen, Initialized'
    PROVE  Logged'
<1>1. at.pc = 28 /\ (SkipSecond \/ DoCommand) /\ irq' = irq /\ ~Initialized
  BY DriverStep, EndOfCode
<1>2. Silence
  BY <1>1 DEF Prompt, Answers, CommandsAnswered
<1>3. ctl'.obf = ctl.obf /\ ctl'.answers = ctl.answers /\ dev' = dev
  <2>1. CASE SkipSecond
    BY <2>1 DEF SkipSecond
  <2>2. CASE DoCommand
    <3>1. Now.byte = "enable2"
      <4>1. local.channels = 2
        BY <1>1, <2>2, OpAt DEF DoCommand
      <4> QED BY <1>1, <4>1, NowAt DEF Command
    <3>2. Controller(Commanded("enable2")) /\ dev' = dev
      BY <2>2, <3>1 DEF DoCommand
    <3>3. Commanded("enable2").answers = ctl.answers
      BY DEF Commanded, TypeOK, Controllers
    <3> QED BY <3>2, <3>3, CommandedStep
  <2> QED BY <1>1, <2>1, <2>2
<1>4. Stream(<<>>, 1)'
  <2>1. Silence'
    BY <1>2, <1>3, SilenceKept
  <2> QED BY <2>1, SilencePrimed
<1>5. seen.log = <<>> /\ seen.keys = 0
  BY <1>1 DEF Silent
<1>6. seen'.log \o <<>> = SubSeq(Keys, 1, seen'.keys)
  BY <1>5, PS2Assumption
<1>7. 1 \notin irq'.handlers /\ 12 \notin irq'.handlers /\ irq'.cpu = "main"
  <2>1. irq.cpu \in {"main", "mouse"}
    BY DEF TypeOK
  <2> QED BY <1>1, <2>1 DEF Stored
<1>8. <<>> \in Seq(Byte)
  OBVIOUS
<1> QED BY <1>4, <1>6, <1>7, <1>8 DEF Logged

(* A handler is stored when no interrupt of its line waits, so it is not   *)
(* called for a byte that is gone.                                         *)
LEMMA LoggedStores ==
    ASSUME TypeOK, Logged, SetHandler, Settled, seen' = seen
    PROVE  Logged'
<1> SUFFICES ASSUME seen.moves = 0 PROVE Logged'
  BY DEF Logged
<1>1. /\ at.pc \in 29..32 /\ Initialized /\ irq'.cpu = "main"
      /\ ctl' = ctl /\ dev' = dev
  BY HandlerStep DEF SetHandler
<1>2. PICK q \in Seq(Byte) : Stream(q, 1) /\ seen.log \o q = SubSeq(Keys, 1, seen.keys)
  BY <1>1 DEF Logged
<1>3. Stream(q, 1)'
  BY <1>1, <1>2 DEF Stream, Waiting
<1>4. 1 \in irq'.handlers /\ 1 \in ctl.irr => ctl.obf = 1
  <2>1. CASE at.pc = 30
    BY <2>1, EndOfCode DEF Settled
  <2>2. CASE at.pc # 30
    BY <1>1, <2>2, HandlerStep DEF Logged
  <2> QED BY <2>1, <2>2
<1>5. ~(12 \in irq'.handlers /\ 12 \in ctl.irr)
  <2>1. CASE at.pc = 32
    BY <2>1, EndOfCode DEF Settled
  <2>2. CASE at.pc # 32
    BY <1>1, <2>2, HandlerStep DEF Logged
  <2> QED BY <2>1, <2>2
<1> QED BY <1>1, <1>2, <1>3, <1>4, <1>5 DEF Logged

(* A byte that is logged is the first of those that wait. *)
LEMMA AppendFirst ==
    ASSUME NEW S, NEW a \in Seq(S), NEW d \in S, NEW w \in Seq(S)
    PROVE  Append(a, d) \o w = a \o (<<d>> \o w)
OBVIOUS

(* OnIRQ logs the byte that is in the buffer; a dropped interrupt leaves   *)
(* it there.                                                               *)
LEMMA LoggedInterrupts ==
    ASSUME TypeOK, Stored, Logged, Interrupts
    PROVE  Logged'
<1>1. seen'.moves = seen.moves /\ seen'.keys = seen.keys
  BY DEF TypeOK, Interrupts, Dropped, OnKeyboard, OnMouse
<1> SUFFICES ASSUME seen.moves = 0 PROVE Logged'
  BY <1>1 DEF Logged
<1>2. /\ Initialized /\ UNCHANGED <<dev, at, local>>
      /\ ctl'.config = ctl.config /\ ctl'.answers = ctl.answers
      /\ ctl'.data = ctl.data
  BY InterruptStep
<1>3. PICK q \in Seq(Byte) : Stream(q, 1) /\ seen.log \o q = SubSeq(Keys, 1, seen.keys)
  BY <1>2 DEF Logged
<1>4. /\ 1 \in irq.handlers /\ 1 \in ctl.irr => ctl.obf = 1
      /\ ~(12 \in irq.handlers /\ 12 \in ctl.irr)
      /\ irq.cpu = "main"
  BY <1>2 DEF Logged
<1>5. ctl \in Controllers
  BY DEF TypeOK
<1>6. ASSUME NEW l \in {1, 12}, Dropped(l)
      PROVE  Logged'
  <2>1. ctl'.irr = ctl.irr \ {l} /\ ctl'.obf = ctl.obf /\ irq' = irq
    BY <1>5, <1>6 DEF Dropped, Controllers
  <2>2. seen'.log = seen.log
    BY <1>6 DEF Dropped, TypeOK
  <2>3. Stream(q, 1)'
    BY <1>2, <1>3, <2>1 DEF Stream, Waiting
  <2> QED BY <1>1, <1>3, <1>4, <2>1, <2>2, <2>3 DEF Logged
<1>7. CASE OnKeyboard
  <2>1. ctl.obf = 1 /\ irq' = irq
    BY <1>4, <1>7 DEF OnKeyboard, Taken
  <2>2. q = <<ctl.data>> \o Waiting(1)
    BY <1>3, <2>1 DEF Stream, Empty
  <2>3. ctl'.obf = Empty /\ ctl'.irr = ctl.irr \ {1}
    <3>1. PICK s : s = ctl.irr \ {1}
      OBVIOUS
    <3>2. ctl' = [ctl EXCEPT !.irr = s, !.obf = Empty]
      BY <1>7, <3>1 DEF OnKeyboard
    <3> QED BY <1>5, <3>1, <3>2 DEF Controllers
  <2>4. PICK w \in Seq(Byte) : w = Waiting(1)
    BY WaitingTyped
  <2>5. Stream(w, 1)'
    BY <1>2, <1>3, <2>3, <2>4 DEF Stream, Waiting
  <2>6. seen'.log = Append(seen.log, ctl.data)
    BY <1>7 DEF OnKeyboard, TypeOK
  <2>7. seen'.log \o w = SubSeq(Keys, 1, seen'.keys)
    <3>1. seen.log \in Seq(Byte) /\ ctl.data \in Byte
      BY <1>5 DEF TypeOK, Controllers
    <3>2. Append(seen.log, ctl.data) \o w = seen.log \o (<<ctl.data>> \o w)
      <4>1. \A a \in Seq(Byte), d \in Byte, v \in Seq(Byte) :
                Append(a, d) \o v = a \o (<<d>> \o v)
        BY AppendFirst
      <4> QED BY <3>1, <4>1, Zenon
    <3> QED BY <1>1, <1>3, <2>2, <2>4, <2>6, <3>2
  <2> QED BY <1>4, <2>1, <2>3, <2>5, <2>7 DEF Logged
<1>8. ~OnMouse
  BY <1>4 DEF OnMouse, Taken
<1> QED BY <1>6, <1>7, <1>8 DEF Interrupts

(* The next byte in the buffer is a key's. *)
LEMMA LoggedFills ==
    ASSUME TypeOK, Logged, NEW r \in 0..2, Fill(r)
    PROVE  Logged'
<1>1. at' = at /\ irq' = irq /\ seen' = seen
  BY DEF Fill
<1> SUFFICES ASSUME Initialized, seen.moves = 0 PROVE Logged'
  BY <1>1 DEF Logged, Initialized
<1>2. PICK q \in Seq(Byte) : Stream(q, 1) /\ seen.log \o q = SubSeq(Keys, 1, seen.keys)
  BY DEF Logged
<1>3. Stream(q, 1)'
  BY <1>2, StreamFill
<1>4. r = 1
  <2>1. Waiting(r) # <<>>
    BY FillStep DEF Waiting
  <2> QED BY <1>2, <2>1 DEF Stream
<1>5. ctl'.obf = 1 /\ (12 \in ctl'.irr => 12 \in ctl.irr)
  BY <1>4, FillStep
<1> QED BY <1>1, <1>2, <1>3, <1>5 DEF Logged

(* A key comes behind those that wait. *)
LEMMA LoggedKeys ==
    ASSUME TypeOK, Prompt, Initialized, Logged, Key
    PROVE  Logged'
<1>1. /\ ctl' = ctl /\ irq' = irq
      /\ dev' = [dev EXCEPT !.out[1] = Append(@, Keys[seen.keys + 1])]
  BY DEF Key
<1>2. /\ seen'.keys = seen.keys + 1 /\ seen'.log = seen.log /\ seen'.moves = seen.moves
      /\ seen.keys \in Nat /\ seen.keys < Len(Keys)
  BY DEF Key, TypeOK
<1> SUFFICES ASSUME seen.moves = 0 PROVE Logged'
  BY <1>2 DEF Logged
<1>3. PICK q \in Seq(Byte) : Stream(q, 1) /\ seen.log \o q = SubSeq(Keys, 1, seen.keys)
  BY DEF Logged
<1>4. PICK k \in Byte : k = Keys[seen.keys + 1]
  <2>1. seen.keys + 1 \in 1..Len(Keys)
    BY <1>2, PS2Assumption, LenProperties
  <2> QED BY <2>1, PS2Assumption, ElementOfSeq DEF Byte
<1>5. dev'.out[1] = Append(dev.out[1], k) /\ dev'.out[2] = dev.out[2]
  BY <1>1, <1>4 DEF TypeOK, Machines, Ports
<1>6. /\ Waiting(1)' = Append(Waiting(1), k) /\ Waiting(1) \in Seq(Byte)
      /\ \A s \in 0..2 : s # 1 => Waiting(s)' = Waiting(s)
  <2>1. Waiting(1) \in Seq(Byte)
    BY WaitingTyped
  <2> QED BY <1>1, <1>5, <2>1 DEF Waiting
<1>7. Disabled(1) \notin ctl.config
  BY EndOfCode, Moved DEF Prompt, Settings
<1>8. PICK z \in Seq(Byte) : z = Append(q, k)
  BY AppendProperties
<1>9. Stream(z, 1)'
  <2>1. ctl.data \in Byte
    BY DEF TypeOK, Controllers
  <2>2. \A d \in Byte, w \in Seq(Byte) : Append(<<d>> \o w, k) = <<d>> \o Append(w, k)
    OBVIOUS
  <2>3. \/ ctl.obf = Empty /\ Waiting(1)' = z
        \/ ctl.obf = 1 /\ z = <<ctl.data>> \o Waiting(1)'
    <3>1. CASE ctl.obf = Empty /\ Waiting(1) = q
      BY <1>6, <1>8, <3>1
    <3>2. CASE ctl.obf = 1 /\ q = <<ctl.data>> \o Waiting(1)
      BY <1>6, <1>8, <2>1, <2>2, <3>2
    <3> QED BY <1>3, <3>1, <3>2 DEF Stream
  <2>4. \A s \in 0..2 : s # 1 => Waiting(s)' = <<>>
    BY <1>3, <1>6 DEF Stream
  <2> QED BY <1>1, <1>7, <2>3, <2>4 DEF Stream
<1>10. seen'.log \o z = SubSeq(Keys, 1, seen'.keys)
  <2>1. Keys \in Seq(Byte) /\ seen.log \in Seq(Byte)
    BY PS2Assumption DEF Byte, TypeOK
  <2>2. \A a \in Seq(Byte), b \in Seq(Byte) : a \o Append(b, k) = Append(a \o b, k)
    OBVIOUS
  <2>3. \A s \in Seq(Byte), n \in Nat : n < Len(s) =>
           Append(SubSeq(s, 1, n), s[n + 1]) = SubSeq(s, 1, n + 1)
    OBVIOUS
  <2>4. seen.log \o z = Append(SubSeq(Keys, 1, seen.keys), k)
    BY <1>3, <1>8, <2>1, <2>2
  <2> QED BY <1>2, <1>4, <2>1, <2>3, <2>4
<1> QED BY <1>1, <1>9, <1>10, Zenon DEF Logged

(* Every step into the quiet case keeps logged and waiting bytes in the    *)
(* order of the keys.                                                      *)
LEMMA LoggedStep ==
    ASSUME TypeOK, TypeOK', Stored, Prompt, Silent, Logged, [Next]_vars, Quiet'
    PROVE  Logged'
<1>1. CASE Driver
  <2>1. seen' = seen
    BY <1>1, QuietStep
  <2> QED BY <1>1, <2>1, LoggedStarts DEF Logged
<1>2. CASE SetHandler
  BY <1>2, QuietStep, LoggedStores
<1>3. CASE Interrupts
  BY <1>3, LoggedInterrupts
<1>4. CASE Fills
  BY <1>4, LoggedFills DEF Fills
<1>5. CASE Key
  BY <1>5, QuietStep, LoggedKeys
<1>6. CASE Move
  <2>1. seen.moves \in Nat /\ seen'.moves = seen.moves + 1
    BY <1>6 DEF Move, TypeOK
  <2>2. seen'.moves # 0
    BY <2>1
  <2> QED BY <2>2 DEF Logged
<1>7. CASE Idle \/ UNCHANGED vars
  BY <1>7 DEF Idle, vars, Logged, Initialized, Stream, Waiting
<1> QED BY <1>1, <1>2, <1>3, <1>4, <1>5, <1>6, <1>7 DEF Next

-----------------------------------------------------------------------------
(* The results. *)

(* The invariant holds at all times: in every step of Initialize the       *)
(* driver knows which bytes are due, and reads them all before it goes on. *)
THEOREM PS2Inductive == Spec => []PS2Inv
<1>1. Init => PS2Inv
  BY InitTyped, InitPrompt DEF PS2Inv
<1>2. PS2Inv /\ [Next]_vars => PS2Inv'
  <2> SUFFICES ASSUME PS2Inv, [Next]_vars PROVE PS2Inv'
    OBVIOUS
  <2>1. TypeOK /\ Stored
    BY DEF PS2Inv
  <2>2. TypeOK'
    BY <2>1, DriverTyped, OtherTyped DEF Next
  <2>3. Stored'
    BY <2>1, StoredKept
  <2>4. ASSUME Quiet' PROVE Prompt' /\ Silent' /\ Logged'
    <3>1. Prompt /\ Silent /\ Logged
      BY <2>1, <2>4, QuietStep DEF PS2Inv
    <3> QED BY <2>1, <2>2, <2>4, <3>1, PromptStep, SilentStep, LoggedStep
  <2> QED BY <2>2, <2>3, <2>4 DEF PS2Inv
<1> QED BY <1>1, <1>2, PTL DEF Spec

(* Initialize (PS2.cpp) leaves every machine that answers in time, with    *)
(* one port or two, with or without devices, and whatever the BIOS left in *)
(* the configuration byte, with both interrupts on, translation off, every *)
(* port enabled, its channels counted, and the devices told apart and      *)
(* reporting.                                                              *)
THEOREM ControllerConfigured == Spec => []Configured
<1>1. PS2Inv => Configured
  <2> SUFFICES ASSUME PS2Inv, Initialized, Quiet
               PROVE  /\ {0, 1} \subseteq ctl.config /\ Translate \notin ctl.config
                      /\ \A p \in 1..dev.channels : Disabled(p) \notin ctl.config
                      /\ local.channels = dev.channels
                      /\ dev.scanning = dev.present
                      /\ 1 \in dev.present => local.type[1] = <<Bits(\hAB), Bits(\h83)>>
                      /\ 2 \in dev.present => local.type[2] = <<{}>>
    BY DEF Configured, Quiet
  <2>1. TypeOK /\ Settings /\ Devices /\ TypesRead
    BY DEF PS2Inv, Prompt
  <2>2. at.pc \in 29..33
    BY <2>1, EndOfCode, Moved
  <2>3. /\ {0, 1} \subseteq ctl.config /\ Translate \notin ctl.config
        /\ \A p \in 1..dev.channels : Disabled(p) \notin ctl.config
        /\ local.channels = dev.channels
    BY <2>1, <2>2 DEF Settings
  <2>4. dev.scanning = dev.present
    <3>1. dev.present \in SUBSET Ports
      BY <2>1 DEF TypeOK, Machines
    <3> QED BY <2>1, <2>2, <3>1 DEF Devices, Ports
  <2>5. /\ 1 \in dev.present => local.type[1] = <<Bits(\hAB), Bits(\h83)>>
        /\ 2 \in dev.present => local.type[2] = <<{}>>
    BY <2>1, <2>2 DEF TypesRead
  <2> QED BY <2>3, <2>4, <2>5
<1> QED BY <1>1, PS2Inductive, PTL

(* While the mouse is still, OnIRQ of line 1 logs the bytes of the         *)
(* keyboard once each and in order, for every sequence of keys, however    *)
(* interrupts, handlers being stored and bytes that arrive interleave.     *)
THEOREM KeysLogged == Spec => []KeysInOrder
<1>1. PS2Inv => KeysInOrder
  <2> SUFFICES ASSUME PS2Inv, Quiet, seen.moves = 0
               PROVE  IsPrefix(seen.log, SubSeq(Keys, 1, seen.keys))
    BY DEF KeysInOrder, Quiet
  <2>1. TypeOK /\ Silent /\ Logged
    BY DEF PS2Inv
  <2>2. seen.log \in Seq(Byte)
    BY <2>1 DEF TypeOK
  <2>3. PICK q \in Seq(Byte) : seen.log \o q = SubSeq(Keys, 1, seen.keys)
    <3>1. CASE Initialized
      BY <2>1, <3>1 DEF Logged
    <3>2. CASE ~Initialized
      <4>1. seen.log = <<>> /\ seen.keys = 0
        BY <2>1, <3>2 DEF Silent
      <4>2. <<>> \in Seq(Byte) /\ seen.log \o <<>> = SubSeq(Keys, 1, seen.keys)
        BY <4>1, PS2Assumption
      <4> QED BY <4>2
    <3> QED BY <3>1, <3>2
  <2>4. IsPrefix(seen.log, seen.log \o q)
    BY <2>2 DEF IsPrefix
  <2> QED BY <2>3, <2>4
<1> QED BY <1>1, PS2Inductive, PTL
=============================================================================
