------------------------------- MODULE Stdio -------------------------------
(***************************************************************************)
(* Formatting (libk/stdio.cpp): vsprintf, the conversions it is built from *)
(* and Log::Write (Log.cpp), which formats a message and puts a line       *)
(* together from it with strcat.                                           *)
(*                                                                         *)
(* The buffer is memory that grows as it is written: vsprintf ends strings *)
(* with a zero and overwrites it later, and its pointer is not always      *)
(* behind what it has written.  A character is a number; digits are 0 to   *)
(* 15.                                                                     *)
(***************************************************************************)
EXTENDS Integers, Sequences, SequencesExt

CONSTANTS
    WordMod,    \* 2^32
    LongMod,    \* 2^64
    DecBuf,     \* size of num for %d and %u: 16
    HexBuf,     \* size of num for %x: 8
    PadBuf,     \* size of padstr: 8
    Slacks,     \* what alignment may leave between Log::Write's buffers: 0 to 15
    Tag,        \* the tag of the messages
    Calls       \* bound: the calls of Log::Write: [level, toks]

ASSUME StdioAssumption ==
    /\ {WordMod, LongMod, DecBuf, HexBuf, PadBuf} \subseteq Nat \ {0} /\ Slacks \subseteq Nat
    /\ WordMod % 2 = 0 /\ LongMod >= WordMod
    /\ \A c \in Calls : c.level \in 0..5 /\ c.toks \in Seq([
          kind : {"text", "%", "d", "u", "x", "s", "c"},
          pad  : Seq(0..9),      \* the digits between % and the letter
          arg  : Seq(Nat)])      \* a string, or one number or character

VARIABLES
    call,       \* the present call of Log::Write
    pc,         \* "format", "log", "done", "halted", "undefined" after an
                \* overrun of num or padstr, "runaway" in an endless strcat
    fmt,        \* the next token of the format
    mem,        \* the buffer as far as it is written
    str,        \* vsprintf's pointer into it
    serial,     \* what was written to the log console
    screen      \* what was written to the screen

vars == <<call, pc, fmt, mem, str, serial, screen>>

ZERO == -1
JUNK == -2
SPACE == 32
PERCENT == 37
MINUS == 45
ESC1 == <<200, 201, 202, 203>>             \* "\033[1m"
ESC0 == <<204, 205, 206, 207, 208, 209>>   \* "\033[0m: "
NEWLINE == 10
FATAL == 210 \* "A fatal error occurred: \n"
Info == 2
Warning == 3
Fatal == 5

(* PrintLogLevel: 300 + level stands for the word in brackets. *)
LogLevel(level) == IF level = Info THEN <<>> ELSE <<300 + level>>

Toks == call.toks
Tok == Toks[fmt]

(* The memory m after the characters s have been stored from p on. *)
Store(m, p, s) ==
    [k \in 1..(IF Len(m) > p + Len(s) THEN Len(m) ELSE p + Len(s)) |->
        IF k \in (p + 1)..(p + Len(s)) THEN s[k - p]
        ELSE IF k <= Len(m) THEN m[k] ELSE JUNK]

Strlen(m, p) ==
    CHOOSE n \in 0..Len(m) : m[p + n + 1] = ZERO /\ \A k \in 1..n : m[p + k] # ZERO

(* The string in m at p. *)
StringAt(m, p) == SubSeq(m, p + 1, p + Strlen(m, p))

(* strcat: the memory after it, and the pointer to the last character that *)
(* it returns.                                                             *)
StrcatMem(m, p, s) == Store(m, p + Strlen(m, p), Append(s, ZERO))
StrcatPtr(m, p, s) == p + Strlen(m, p) + Len(s) - 1

-----------------------------------------------------------------------------
(* Conversions of numbers. *)

(* The loop of _inttostr: least digit first. *)
RECURSIVE Digits(_, _)
Digits(num, base) ==
    IF num < base THEN <<num>> ELSE <<num % base>> \o Digits(num \div base, base)

(* Mutant: one padding character too many. *)
inttostrWide(num, base, padding, padchar) ==
    LET s == Digits(num, base)
    IN  Reverse(s \o [k \in 1..(IF padding > 0 THEN padding - Len(s) + 1 ELSE 0) |-> padchar])

inttostr(num, base, padding, padchar) ==
    LET s == Digits(num, base)
    IN  Reverse(s \o [k \in 1..(padding - Len(s)) |-> padchar])

(* ipow squares its base in each turn. *)
RECURSIVE ipow(_, _)
ipow(base, exp) ==
    IF exp = 0 THEN 1 ELSE IF exp = 1 THEN base ELSE ipow(base * base, exp - 1)

HALT == -1

(* _strtoint, base 10, from its last digit on: num is what it has so far.  *)
(* HALT is the failed assertion.                                           *)
RECURSIVE strtoint(_, _, _)
strtoint(digits, num, n) ==
    IF digits = <<>> THEN num
    ELSE IF num >= 10 THEN HALT
    ELSE strtoint(Front(digits), num + Last(digits) * ipow(10, n), n + 1)

(* Zeros in front choose the padding character and are not digits of the   *)
(* padding.                                                                *)
Zeros(pad) == {k \in DOMAIN pad : \A j \in 1..k : pad[j] = 0}

(* Mutant: the zero of %02x is read and forgotten. *)
PadCharSpace(t) == SPACE

PadChar(t) == IF Zeros(t.pad) # {} THEN 0 ELSE SPACE
PadStr(t) == SubSeq(t.pad, Cardinality(Zeros(t.pad)) + 1, Len(t.pad))
Padding(t) == strtoint(PadStr(t), 0, 0)

Val(t) == t.arg[1]
IsNeg(t) == Val(t) >= WordMod \div 2

(* What num holds: for %d the sign is extended to 64 bits, for %u cut off. *)
Num(t) ==
    CASE t.kind = "d" -> inttostr(IF IsNeg(t) THEN LongMod - (WordMod - Val(t)) ELSE Val(t),
                                  10, Padding(t), PadChar(t))
      [] t.kind = "u" -> inttostr(Val(t) % (WordMod \div 2), 10, Padding(t), PadChar(t))
      [] t.kind = "x" -> inttostr(Val(t), 16, Padding(t), PadChar(t))

NumBuf(t) == IF t.kind = "x" THEN HexBuf ELSE DecBuf

-----------------------------------------------------------------------------
Init ==
    /\ call \in Calls
    /\ pc = "format" /\ fmt = 1
    /\ mem = <<>> /\ str = 0
    /\ serial = LogLevel(call.level) /\ screen = <<>>

(* A turn of vsprintf's loop on a token of one of the kinds. *)
Turn(kinds) ==
    /\ pc = "format" /\ fmt \in DOMAIN Toks
    /\ Tok.kind \in kinds
    /\ Padding(Tok) # HALT
    /\ fmt' = fmt + 1
    /\ UNCHANGED <<call, serial, screen>>

Text ==
    /\ Turn({"text"})
    /\ mem' = Store(mem, str, Tok.arg)
    /\ str' = str + 1
    /\ UNCHANGED pc

(* The pointer stays. *)
Percent ==
    /\ Turn({"%"})
    /\ mem' = Store(mem, str, <<PERCENT>>)
    /\ UNCHANGED <<pc, str>>

(* The pointer goes on before the character is stored, over whatever was   *)
(* in the buffer.                                                          *)
Char ==
    /\ Turn({"c"})
    /\ \E c \in IF str < Len(mem) THEN {mem[str + 1]} ELSE {ZERO, JUNK} :
          mem' = Store(mem, str, <<c>> \o Tok.arg)
    /\ str' = str + 1
    /\ UNCHANGED pc

(* A text longer than num overruns it, with any effect or none. *)
Number ==
    /\ Turn({"d", "u", "x"})
    /\ LET num == Num(Tok)
           m == Store(mem, str, <<ZERO>>)
           minus == Tok.kind = "u" /\ IsNeg(Tok)
           n == IF minus THEN StrcatMem(m, str, <<MINUS>>) ELSE m
           p == IF minus THEN StrcatPtr(m, str, <<MINUS>>) ELSE str
       IN  /\ mem' = StrcatMem(n, p, num)
           /\ str' = StrcatPtr(n, p, num) + 1
           /\ pc' \in {pc} \cup (IF Len(num) + 1 > NumBuf(Tok) THEN {"undefined"} ELSE {})

(* Mutant: one space more. *)
StringPadsMore ==
    /\ Turn({"s"})
    /\ LET m == StrcatMem(Store(mem, str, <<ZERO>>), str, Tok.arg)
           last == str + Len(Tok.arg) - 1
           truepad == Padding(Tok) - Len(Tok.arg)
           spaces == [k \in 1..(truepad + 1) |-> SPACE]
       IN  IF truepad > 0
           THEN /\ mem' = Store(m, last + 1, Append(spaces, ZERO))
                /\ str' = last + truepad + 2
           ELSE mem' = m /\ str' = last + 1
    /\ UNCHANGED pc

(* %s, filled with spaces on the right. *)
String ==
    /\ Turn({"s"})
    /\ LET m == StrcatMem(Store(mem, str, <<ZERO>>), str, Tok.arg)
           last == StrcatPtr(Store(mem, str, <<ZERO>>), str, Tok.arg)
           truepad == Padding(Tok) - Len(Tok.arg)
           spaces == [k \in 1..truepad |-> SPACE]
       IN  IF truepad > 0
           THEN /\ mem' = Store(m, last + 1, Append(spaces, ZERO))
                /\ str' = last + truepad + 1
           ELSE mem' = m /\ str' = last + 1
    /\ UNCHANGED pc

(* The assertion of _strtoint fails: cli; hlt. *)
AssertFails ==
    /\ pc = "format" /\ fmt \in DOMAIN Toks /\ Padding(Tok) = HALT
    /\ pc' = "halted"
    /\ UNCHANGED <<call, fmt, mem, str, serial, screen>>

(* A width of too many digits overruns padstr, with any effect or none. *)
PadOverruns ==
    /\ pc = "format" /\ fmt \in DOMAIN Toks
    /\ Len(PadStr(Tok)) >= PadBuf
    /\ pc' = "undefined" /\ fmt' = fmt + 1
    /\ UNCHANGED <<call, mem, str, serial, screen>>

End ==
    /\ pc = "format" /\ fmt \notin DOMAIN Toks
    /\ mem' = Store(mem, str, <<ZERO, ZERO>>)
    /\ str' = str + 1
    /\ pc' = "log"
    /\ UNCHANGED <<call, fmt, serial, screen>>

(* Fatal messages are only announced on the screen. *)
LogScreen(level, line) ==
    IF level >= Fatal THEN <<FATAL>> ELSE IF level >= Warning THEN line ELSE <<>>

(* Mutant: room for the zero only. *)
LineSizeShort(text) == Len(text) + Len(Tag) + 1

(* The size of Log::Write's second buffer. *)
LineSize(text) == Len(text) + Len(Tag) + 8

(* The rest of Log::Write: four calls of strcat into the second buffer,    *)
(* which lies below fstr.  The line takes four characters more than it     *)
(* has.  If tag and escapes reach over the beginning of the text, the      *)
(* third strcat reads what it has just written and does not end; else it   *)
(* reads each character before it overwrites it.                           *)
LogWrite ==
    /\ pc = "log"
    /\ \E slack \in Slacks :
          LET fstr == LineSize(StringAt(mem, 0)) + slack
              both == Store([k \in 1..fstr |-> JUNK] \o mem, 0, Append(ESC1 \o Tag \o ESC0, ZERO))
              line == StringAt(both, 0) \o StringAt(both, fstr) \o <<NEWLINE>>
          IN  IF Strlen(both, 0) > fstr
              THEN pc' = "runaway" /\ UNCHANGED <<serial, screen>>
              ELSE /\ pc' = "done"
                   /\ serial' = serial \o line
                   /\ screen' = LogScreen(call.level, line)
    /\ UNCHANGED <<call, fmt, mem, str>>

Stopped == pc \in {"done", "halted", "undefined", "runaway"} /\ UNCHANGED vars

Next ==
    \/ Text \/ Percent \/ Char \/ Number \/ String \/ AssertFails \/ PadOverruns \/ End
    \/ LogWrite \/ Stopped

Spec == Init /\ [][Next]_vars

-----------------------------------------------------------------------------
(* Properties. *)

(* Reference: the digits of v, most significant first. *)
Numeral(v, base) ==
    LET n == CHOOSE n \in 1..8 : v < base^n /\ (n = 1 \/ v >= base^(n - 1))
    IN  [k \in 1..n |-> (v \div base^(n - k)) % base]

(* Reference: what C's vsprintf makes of a token. *)
Width(t) == LET n == Len(t.pad)
            IN  IF n = 0 THEN 0 ELSE t.pad[n] + (IF n > 1 THEN 10 * t.pad[n - 1] ELSE 0)

Shown(t) ==
    LET text == CASE t.kind \in {"d", "u"} -> Numeral(Val(t), 10)
                  [] t.kind = "x" -> Numeral(Val(t), 16)
                  [] OTHER -> t.arg
    IN  [k \in 1..(Width(t) - Len(text)) |->
            IF t.kind # "s" /\ t.pad[1] = 0 THEN 0 ELSE SPACE] \o text

(* The tokens that vsprintf makes as long as C does: not %% and %c, not    *)
(* negative numbers, widths of at most two digits.                         *)
Sized(t) ==
    /\ t.kind \in {"text", "d", "u", "x", "s"}
    /\ t.kind \in {"d", "u"} => ~IsNeg(t)
    /\ Len(t.pad) <= 2

(* Of these, the ones it makes the same text of: C fills a string on the   *)
(* left, vsprintf on the right.                                            *)
Plain(t) == Sized(t) /\ (t.kind = "s" => Width(t) <= Len(t.arg))

Expected(n) == FlattenSeq([k \in 1..n |-> Shown(Toks[k])])

(* However the tokens follow one another, the text in the buffer is C's    *)
(* unless a string is filled, though each conversion ends the string and   *)
(* the next overwrites its end.                                            *)
Formatted ==
    pc = "log" /\ (\A k \in DOMAIN Toks : Plain(Toks[k])) =>
        StringAt(mem, 0) = Expected(Len(Toks))

(* vsprintf writes no more than the text, its zero and one zero more, so   *)
(* that a buffer of the size its callers choose is enough for arguments of *)
(* up to 254 characters.                                                   *)
WritesFit ==
    (\A k \in 1..(fmt - 1) : Sized(Toks[k])) /\ pc # "undefined" =>
        Len(mem) <= Len(Expected(fmt - 1)) + 2

(* Formatting stops for two reasons only.  Behaviour is undefined after a  *)
(* number too long for num: a hexadecimal one with as many digits as num   *)
(* has bytes (all of %08x), a negative one for %d, or a wide field; and    *)
(* after a width of as many digits as padstr has bytes.  And               *)
(* the kernel halts in the assertion of _strtoint for widths of three      *)
(* digits and more, never for one or two.                                  *)
StopsForCause ==
    /\ pc = "halted" => Len(SelectSeq(Tok.pad, LAMBDA d : d # 0)) >= 2 /\ Len(Tok.pad) >= 3
    /\ pc = "undefined" =>
        LET t == Toks[fmt - 1]
        IN  \/ t.kind = "x" /\ Len(Numeral(Val(t), 16)) >= HexBuf
            \/ t.kind = "d" /\ IsNeg(t)
            \/ Len(t.pad) > 2 \/ Width(t) >= NumBuf(t)

(* Although every line overruns its buffer into the text it is made from,  *)
(* it holds tag and text in full if the text has three characters or more: *)
(* strcat has read what it overwrites, and ends.  What reaches the screen  *)
(* is the same line, if it is one.                                         *)
LoggedWhole ==
    pc \in {"done", "runaway"} /\ Strlen(mem, 0) >= 3 =>
        LET line == ESC1 \o Tag \o ESC0 \o StringAt(mem, 0) \o <<NEWLINE>>
        IN  /\ pc = "done" /\ serial = LogLevel(call.level) \o line
            /\ screen \in {<<>>, <<FATAL>>, line}
=============================================================================
