------------------------------- MODULE Console -------------------------------
(***************************************************************************)
(* The text console (VGAConsole.cpp) and the timer that prints on it from  *)
(* interrupt context (Timer.cpp, PIT.cpp, kprintf and kputs).              *)
(*                                                                         *)
(* The main thread writes texts, one load or store of the cursor and of    *)
(* the framebuffer at a time, as the unoptimised build does it.  An        *)
(* interrupt that comes between two of these steps writes its whole line   *)
(* on the same console before the main thread goes on: handlers run with   *)
(* interrupts disabled.                                                    *)
(*                                                                         *)
(* An escape sequence only chooses colours and is one character of a text  *)
(* here.  WriteVGA draws the character after it without looking at it: the *)
(* zero behind a text that ends so, and a second sequence right behind the *)
(* first, which is therefore not one but the characters it consists of.    *)
(* A cell is moved by Scroll in one step.                                  *)
(***************************************************************************)
EXTENDS Integers, Sequences

CONSTANTS
    W, H,         \* _width and _height: 80 and 25
    TabStop,      \* columns of a tab stop: 4
    ByteSize,     \* values of a register of the display controller: 256
    Chars,        \* the characters that are drawn
    Texts,        \* the texts that the main thread writes
    TickLine,     \* what Timer::Tick prints
    WarningLine,  \* what Log::Write prints of a spurious interrupt
    Period,       \* ticks between two lines: 1000
    MaxTicks,     \* bound: timer interrupts
    MaxWarnings,  \* bound: spurious interrupts
    MaxTexts      \* bound: texts written

Newline == "nl"

Tab == "tab"

Escape == "esc"

Nul == "nul"

Blank == "blank"

ASSUME ScreenAssumption ==
    /\ W \in Nat \ {0} /\ H \in Nat \ {0} /\ TabStop \in Nat \ {0}
    /\ W % TabStop = 0
    /\ ByteSize \in Nat \ {0} /\ W * H =< ByteSize * ByteSize
    /\ {Newline, Tab, Escape, Blank} \cap Chars = {} /\ Nul \in Chars

(* The lines of the handlers end in a newline. *)
ASSUME TextsAssumption ==
    /\ \A text \in Texts \cup {TickLine, WarningLine} :
          /\ text \in Seq(Chars \cup {Newline, Tab, Escape})
          /\ \A i \in 1..(Len(text) - 1) : text[i] = Escape => text[i + 1] # Escape
    /\ \A line \in {TickLine, WarningLine} : line # <<>> /\ line[Len(line)] = Newline
    /\ Period \in Nat \ {0} /\ MaxTicks \in Nat /\ MaxWarnings \in Nat
    /\ MaxTexts \in Nat

VARIABLES
    x, y,      \* _xPos, _yPos
    fb,        \* the video memory: the screen and two rows after it
    crtc,      \* the cursor of the display controller, and its index register
    main,      \* where the main thread is in WriteVGA
    v,         \* Timer::v
    warnings,  \* spurious interrupts so far
    written,   \* texts the main thread has begun
    page,      \* ghost: the page that a screen without end would show
    clean,     \* ghost: no interrupt has printed inside a WriteChar
    reach      \* ghost: the highest cell written to

ghosts == <<page, clean, reach>>

vars == <<x, y, fb, crtc, main, v, warnings, written, ghosts>>

Cells == 0..(W * (H + 2) - 1)

Idle == [at |-> "idle", text |-> <<>>, i |-> 1, reg |-> 0, then |-> "none"]

Larger(a, b) == IF a > b THEN a ELSE b

-----------------------------------------------------------------------------
(* WriteChar and WriteVGA without interruption, on [x, y, fb, reach].  An  *)
(* escape sequence is read before WriteChar is called.                     *)

Align(n) == (n \div TabStop) * TabStop

Moved(s, c) ==
    CASE c = Newline -> [s EXCEPT !.x = 0, !.y = @ + 1]
      [] c = Tab     -> LET n == Align(s.x + TabStop)
                        IN  IF n > W
                            THEN [s EXCEPT !.x = 0, !.y = @ + 1]
                            ELSE [s EXCEPT !.x = n]
      [] OTHER       -> LET cell == s.y * W + s.x
                        IN  [s EXCEPT !.fb = [@ EXCEPT ![cell] = c],
                                      !.x = @ + 1,
                                      !.reach = Larger(@, cell)]

Wrapped(s) == IF s.x >= W THEN [s EXCEPT !.x = 0, !.y = @ + 1] ELSE s

ScrolledUp(screen) ==
    [k \in Cells |-> IF k < W * (H - 1) THEN screen[k + W]
                     ELSE IF k < W * H THEN Blank ELSE screen[k]]

Scrolled(s) ==
    IF s.y >= H THEN [s EXCEPT !.fb = ScrolledUp(@), !.y = H - 1] ELSE s

WriteChar(s, c) == IF c = Escape THEN s ELSE Scrolled(Wrapped(Moved(s, c)))

(* update_cursor: the low byte of the position, then the high one. *)
UpdateCursor(pos) ==
    [index |-> "high", low |-> pos % ByteSize, high |-> pos \div ByteSize]

WriteVGA(s, text) ==
    LET after[i \in 0..Len(text)] ==
            IF i = 0 THEN s ELSE WriteChar(after[i - 1], text[i])
    IN  after[Len(text)]

-----------------------------------------------------------------------------
(* The page that a screen without end would show (ghost): the characters   *)
(* placed so far, and where the next one goes.                             *)

EmptyPage == [row |-> 0, col |-> 0, cells |-> [rc \in {} |-> Blank]]

Shown(p, r, c) == IF <<r, c>> \in DOMAIN p.cells THEN p.cells[<<r, c>>] ELSE Blank

Put(p, c) ==
    [p EXCEPT !.cells = [rc \in DOMAIN @ \cup {<<p.row, p.col>>} |->
                            IF rc = <<p.row, p.col>> THEN c ELSE @[rc]]]

Place(p, c) ==
    LET down(q)  == [q EXCEPT !.row = @ + 1, !.col = 0]
        to(q, n) == IF n >= W THEN down(q) ELSE [q EXCEPT !.col = n]
    IN  CASE c = Newline -> down(p)
          [] c = Escape  -> p
          [] c = Tab     -> to(p, ((p.col \div TabStop) + 1) * TabStop)
          [] OTHER       -> to(Put(p, c), p.col + 1)

PlaceAll(p, text) ==
    LET after[i \in 0..Len(text)] ==
            IF i = 0 THEN p ELSE Place(after[i - 1], text[i])
    IN  after[Len(text)]

-----------------------------------------------------------------------------
(* VGAConsole::Clear, Timer::Init. *)
Init ==
    /\ x = 0 /\ y = 0
    /\ fb = [k \in Cells |-> Blank]
    /\ crtc \in [index : {"low"}, low : {0, ByteSize - 1}, high : {ByteSize - 1}]
    /\ main = Idle
    /\ v = 0 /\ warnings = 0 /\ written = 0
    /\ page = EmptyPage
    /\ clean = TRUE /\ reach = 0

(* What WriteVGA draws of a text of kprintf: vsprintf ends it with two     *)
(* zeros, so behind a last escape sequence the first is drawn and the      *)
(* second ends the text.                                                   *)
WithZero(text) ==
    IF text # <<>> /\ text[Len(text)] = Escape THEN Append(text, Nul) ELSE text

(* The main thread calls kprintf or kputs. *)
StartText(text) ==
    /\ main = Idle
    /\ written < MaxTexts
    /\ written' = written + 1
    /\ main' = [Idle EXCEPT !.at = "char", !.text = WithZero(text)]
    /\ UNCHANGED <<x, y, fb, crtc, v, warnings, ghosts>>

(* The main thread goes on at another place. *)
Goto(place) == main' = [main EXCEPT !.at = place]

Load(value, place) == main' = [main EXCEPT !.at = place, !.reg = value]

IncrementY(then) == main' = [main EXCEPT !.at = "loadY", !.then = then]

Computing == UNCHANGED <<crtc, v, warnings, written, page, clean>>

Current == main.text[main.i]

SkipEscape ==
    /\ main.at = "char" /\ main.i =< Len(main.text)
    /\ Current = Escape
    /\ main' = [main EXCEPT !.i = @ + 1]
    /\ UNCHANGED <<x, y, fb, reach>> /\ Computing

(* The end of the text: update_cursor, one port after the other. *)
EndText ==
    /\ main.at = "char" /\ main.i > Len(main.text)
    /\ Load(y * W + x, "selectLow")
    /\ UNCHANGED <<x, y, fb, reach>> /\ Computing

SelectLow ==
    /\ main.at = "selectLow"
    /\ crtc' = [crtc EXCEPT !.index = "low"]
    /\ Goto("writeLow")
    /\ UNCHANGED <<x, y, fb, v, warnings, written, ghosts>>

WriteLow ==
    /\ main.at = "writeLow"
    /\ crtc' = [crtc EXCEPT ![crtc.index] = main.reg % ByteSize]
    /\ Goto("selectHigh")
    /\ UNCHANGED <<x, y, fb, v, warnings, written, ghosts>>

SelectHigh ==
    /\ main.at = "selectHigh"
    /\ crtc' = [crtc EXCEPT !.index = "high"]
    /\ Goto("writeHigh")
    /\ UNCHANGED <<x, y, fb, v, warnings, written, ghosts>>

WriteHigh ==
    /\ main.at = "writeHigh"
    /\ crtc' = [crtc EXCEPT ![crtc.index] = main.reg \div ByteSize]
    /\ main' = Idle
    /\ UNCHANGED <<x, y, fb, v, warnings, written, ghosts>>

(* WriteChar's switch on the character. *)
Char ==
    /\ main.at = "char" /\ main.i =< Len(main.text)
    /\ Current # Escape
    /\ CASE Current = Newline -> x' = 0 /\ IncrementY("wrap")
         [] Current = Tab     -> Goto("loadX") /\ UNCHANGED x
         [] OTHER             -> Goto("row") /\ UNCHANGED x
    /\ UNCHANGED <<y, fb, reach>> /\ Computing

(* _framebuffer[_yPos * _width + _xPos] = data *)
LoadRow ==
    /\ main.at = "row"
    /\ Load(y * W, "col")
    /\ UNCHANGED <<x, y, fb, reach>> /\ Computing

LoadColumn ==
    /\ main.at = "col"
    /\ Load(main.reg + x, "cell")
    /\ UNCHANGED <<x, y, fb, reach>> /\ Computing

StoreCell ==
    /\ main.at = "cell"
    /\ fb' = [fb EXCEPT ![main.reg] = Current]
    /\ reach' = Larger(reach, main.reg)
    /\ Goto("loadX")
    /\ UNCHANGED <<x, y>> /\ Computing

(* _xPos++, or _xPos += 4 *)
LoadX ==
    /\ main.at = "loadX"
    /\ Load(x, "storeX")
    /\ UNCHANGED <<x, y, fb, reach>> /\ Computing

StoreX ==
    /\ main.at = "storeX"
    /\ IF Current = Tab
       THEN x' = main.reg + TabStop /\ Goto("loadTab")
       ELSE x' = main.reg + 1 /\ Goto("wrap")
    /\ UNCHANGED <<y, fb, reach>> /\ Computing

(* _xPos = ((_xPos >> 2) << 2) *)
LoadTab ==
    /\ main.at = "loadTab"
    /\ Load(x, "storeTab")
    /\ UNCHANGED <<x, y, fb, reach>> /\ Computing

StoreTab ==
    /\ main.at = "storeTab"
    /\ x' = Align(main.reg)
    /\ Goto("tab")
    /\ UNCHANGED <<y, fb, reach>> /\ Computing

TabWraps ==
    /\ main.at = "tab"
    /\ IF x > W
       THEN x' = 0 /\ IncrementY("wrap")
       ELSE UNCHANGED x /\ Goto("wrap")
    /\ UNCHANGED <<y, fb, reach>> /\ Computing

(* Mutant: the row ends one column late. *)
WrapLate ==
    /\ main.at = "wrap"
    /\ IF x > W
       THEN x' = 0 /\ IncrementY("bottom")
       ELSE UNCHANGED x /\ Goto("bottom")
    /\ UNCHANGED <<y, fb, reach>> /\ Computing

Wrap ==
    /\ main.at = "wrap"
    /\ IF x >= W
       THEN x' = 0 /\ IncrementY("bottom")
       ELSE UNCHANGED x /\ Goto("bottom")
    /\ UNCHANGED <<y, fb, reach>> /\ Computing

(* _yPos++ *)
LoadY ==
    /\ main.at = "loadY"
    /\ Load(y, "storeY")
    /\ UNCHANGED <<x, y, fb, reach>> /\ Computing

StoreY ==
    /\ main.at = "storeY"
    /\ y' = main.reg + 1
    /\ Goto(main.then)
    /\ UNCHANGED <<x, fb, reach>> /\ Computing

(* WriteChar returns. *)
NextChar ==
    /\ main' = [main EXCEPT !.at = "char", !.i = @ + 1, !.reg = 0, !.then = "none"]
    /\ page' = Place(page, Current)

(* Mutant: the screen is scrolled one row late. *)
BottomLate ==
    /\ main.at = "bottom"
    /\ IF y > H
       THEN Load(0, "scroll") /\ UNCHANGED page
       ELSE NextChar
    /\ UNCHANGED <<x, y, fb, crtc, v, warnings, written, clean, reach>>

Bottom ==
    /\ main.at = "bottom"
    /\ IF y >= H
       THEN Load(0, "scroll") /\ UNCHANGED page
       ELSE NextChar
    /\ UNCHANGED <<x, y, fb, crtc, v, warnings, written, clean, reach>>

Scroll ==
    /\ main.at = "scroll" /\ main.reg < W * H
    /\ fb' = [fb EXCEPT ![main.reg] =
                 IF main.reg < W * (H - 1) THEN fb[main.reg + W] ELSE Blank]
    /\ Load(main.reg + 1, "scroll")
    /\ UNCHANGED <<x, y, reach>> /\ Computing

(* Mutant: the cursor stays below the screen. *)
ScrollKeepsRow ==
    /\ main.at = "scroll" /\ main.reg = W * H
    /\ NextChar
    /\ UNCHANGED <<x, y, fb, crtc, v, warnings, written, clean, reach>>

(* _yPos = (_height-1) *)
ScrollEnds ==
    /\ main.at = "scroll" /\ main.reg = W * H
    /\ y' = H - 1
    /\ NextChar
    /\ UNCHANGED <<x, fb, crtc, v, warnings, written, clean, reach>>

-----------------------------------------------------------------------------
(* Interrupts. *)

Inside == main.at \notin {"idle", "char"}

(* A handler prints a line. *)
PrintLine(line) ==
    LET s == WriteVGA([x |-> x, y |-> y, fb |-> fb, reach |-> reach], line)
    IN  /\ x' = s.x /\ y' = s.y /\ fb' = s.fb /\ reach' = s.reach
        /\ crtc' = UpdateCursor(s.y * W + s.x)
        /\ page' = PlaceAll(page, line)
        /\ clean' = (clean /\ ~Inside)

(* PIT::OnIRQ and Timer::Tick. *)
Tick ==
    /\ v < MaxTicks
    /\ v' = v + 1
    /\ IF v' % Period = 0
       THEN PrintLine(TickLine)
       ELSE UNCHANGED <<x, y, fb, crtc, ghosts>>
    /\ UNCHANGED <<main, warnings, written>>

(* i8259::SendEOI finds a spurious interrupt: Log::Write of a warning. *)
Spurious ==
    /\ warnings < MaxWarnings
    /\ warnings' = warnings + 1
    /\ PrintLine(WarningLine)
    /\ UNCHANGED <<main, v, written>>

(* kernel_main's loop around hlt. *)
Halted ==
    /\ main = Idle /\ written = MaxTexts
    /\ UNCHANGED vars

Writing ==
    \/ Char \/ LoadRow \/ LoadColumn \/ StoreCell \/ LoadX \/ StoreX
    \/ LoadTab \/ StoreTab \/ TabWraps \/ Wrap \/ LoadY \/ StoreY
    \/ Bottom \/ Scroll \/ ScrollEnds \/ SkipEscape
    \/ EndText \/ SelectLow \/ WriteLow \/ SelectHigh \/ WriteHigh

Next ==
    \/ \E text \in Texts : StartText(text)
    \/ Writing
    \/ Tick \/ Spurious
    \/ Halted

Spec == Init /\ [][Next]_vars

-----------------------------------------------------------------------------
(* Properties. *)

(* As long as interrupts print only between two characters, the screen and *)
(* the cursor are a window on the last rows of the page that the printed   *)
(* characters make, whatever the wrapping, the tabs and the scrolling; and *)
(* when the main thread has written a text, the cursor that is shown is    *)
(* where the next character will go.                                       *)
ScreenShowsTail ==
    clean /\ ~Inside =>
        LET shown == crtc.high * ByteSize + crtc.low
            top == IF page.row < H THEN 0 ELSE page.row - H + 1
        IN  /\ main = Idle /\ written > 0 => shown = y * W + x
            /\ x = page.col
            /\ y = page.row - top
            /\ \A r \in 0..(H - 1), c \in 0..(W - 1) :
                  fb[r * W + c] = Shown(page, top + r, c)

(* Wherever interrupts print, the main thread finds the cursor on the      *)
(* screen before each character: Scroll and the wrap put right what an     *)
(* interrupted update of _xPos or _yPos left.                              *)
CursorOnScreen == ~Inside => x < W /\ y < H

(* Wherever interrupts print, no write to the framebuffer goes farther     *)
(* than the row after the screen, which is still video memory.             *)
WritesNearScreen == reach < W * (H + 1)
=============================================================================
