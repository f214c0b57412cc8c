---------------------------- MODULE ConsoleProofs ----------------------------
(***************************************************************************)
(* Proofs about the text console, for every size of the screen, all texts, *)
(* and interrupts that print at any instruction of the main thread.        *)
(***************************************************************************)
EXTENDS Console, ArithmeticLemmas

-----------------------------------------------------------------------------
(* The invariants. *)

Frame == [Cells -> Chars \cup {Blank}]

Screens == [x : Nat, y : Nat, fb : Frame, reach : Nat]

Glyphs == Chars \cup {Newline, Tab, Escape}

(* Where a line that begins with a drawn character or a tab is still kept  *)
(* near the screen: at most a tab stop past a row, or at the start of the  *)
(* row below the screen.                                                   *)
Near(s) ==
    /\ s \in Screens
    /\ s.x < W + TabStop
    /\ s.y < H \/ (s.y = H /\ s.x < W)
    /\ s.reach < W * (H + 1)

OnScreen(s) == s.x < W /\ s.y < H

Now == [x |-> x, y |-> y, fb |-> fb, reach |-> reach]

(* The places of the main thread: outside WriteChar, and inside it. *)
Outer == {"idle", "char", "selectLow", "writeLow", "selectHigh", "writeHigh"}

Inner == {"row", "col", "cell", "loadX", "storeX", "loadTab", "storeTab", "tab",
          "wrap", "loadY", "storeY", "bottom", "scroll"}

(* The text that is written, and which characters come to which places. *)
Threads == [at : Outer \cup Inner, text : Seq(Glyphs), i : Nat \ {0}, reg : Nat,
            then : {"none", "wrap", "bottom"}]

MainInv ==
    /\ main \in Threads
    /\ main.at \in Inner => main.i =< Len(main.text) /\ Current # Escape
    /\ main.at \in {"row", "col", "cell"} => Current \in Chars
    /\ main.at \in {"loadX", "storeX"} => Current \in Chars \cup {Tab}
    /\ main.at \in {"loadTab", "storeTab", "tab"} => Current = Tab
    /\ main.at \in {"loadY", "storeY"} => main.then # "none"

(* What each instruction relies on.  A handler may have printed before any *)
(* of them, so what is said of x and y is true of every place on the       *)
(* screen, and what was loaded is bounded by itself.                       *)
CursorInv ==
    /\ Near(Now)
    /\ main.at \notin {"loadTab", "storeTab", "tab", "wrap", "bottom", "scroll"} => OnScreen(Now)
    /\ main.at \in {"loadTab", "storeTab", "tab"} => y < H
    /\ main.at \in {"tab", "wrap"} => x =< W
    /\ main.at \in {"bottom", "scroll"} => x < W
    /\ main.at = "col" => main.reg =< W * (H - 1)
    /\ main.at = "cell" => main.reg < W * H
    /\ main.at = "storeX" => main.reg < W
    /\ main.at = "storeTab" => main.reg < W + TabStop
    /\ main.at = "storeY" => main.reg < H

(* The page: characters on its rows up to the one that is written, and a   *)
(* place for the next one on that row.                                     *)
Sheets == [row : Nat, col : Nat, cells : UNION {[d -> Chars] : d \in SUBSET (Nat \X Nat)}]

Filled(p, row) == \A rc \in DOMAIN p.cells : rc[1] =< row

Top(p) == IF p.row < H THEN 0 ELSE p.row - H + 1

(* The screen f shows the rows of p from row top on. *)
Shows(f, p, top) ==
    \A r \in 0..(H - 1), k \in 0..(W - 1) : f[r * W + k] = Shown(p, top + r, k)

(* The cursor at column a of row b, and the screen, are those of p. *)
Mirrors(a, b, f, p) ==
    /\ p \in Sheets /\ p.col < W /\ Filled(p, p.row)
    /\ a = p.col /\ b = p.row - Top(p)
    /\ Shows(f, p, Top(p))

-----------------------------------------------------------------------------
(* Facts about the screen. *)

(* A tab stop is no wider than a row, and rows end at tab stops. *)
LEMMA Screen ==
    /\ W \in Nat \ {0} /\ H \in Nat \ {0} /\ TabStop \in Nat \ {0} /\ TabStop =< W
    /\ H - 1 \in Nat /\ W * H \in Nat /\ W * (H - 1) \in Nat /\ W * (H + 1) \in Nat
    /\ W * H = W * (H - 1) + W /\ W * (H + 1) = W * H + W
    /\ \E k \in Nat : W = TabStop * k
<1>1. /\ W \in Nat \ {0} /\ H \in Nat \ {0} /\ TabStop \in Nat \ {0} /\ W % TabStop = 0
  BY ScreenAssumption
<1>2. PICK k \in Nat : W = TabStop * k
  <2>1. W \div TabStop \in Nat /\ W = TabStop * (W \div TabStop) + (W % TabStop)
    BY <1>1, DivisionSplits
  <2> DEFINE j == W \div TabStop
  <2> HIDE DEF j
  <2>2. j \in Nat /\ W = TabStop * j + 0 /\ TabStop * j \in Nat
    BY <1>1, <2>1 DEF j
  <2> QED
    BY <1>1, <2>2
<1>3. TabStop =< W
  <2>1. k # 0
    BY <1>1, <1>2
  <2>2. TabStop * 1 =< TabStop * k
    BY <1>1, <2>1, MulMonotone
  <2> QED
    BY <1>1, <1>2, <2>2
<1>4. /\ H - 1 \in Nat /\ W * H \in Nat /\ W * (H - 1) \in Nat /\ W * (H + 1) \in Nat
      /\ W * H = W * (H - 1) + W /\ W * (H + 1) = W * H + W
  BY <1>1
<1> QED
  BY <1>1, <1>2, <1>3, <1>4

(* Rounding down to a tab stop stays on the row, or at its end. *)
LEMMA TabStops ==
    ASSUME NEW n \in Nat
    PROVE  /\ Align(n) \in Nat /\ Align(n) =< n
           /\ n < W + TabStop => Align(n) =< W
           /\ Align(n + TabStop) = ((n \div TabStop) + 1) * TabStop
<1> DEFINE q == n \div TabStop
<1>1. q \in Nat /\ n % TabStop \in 0..(TabStop - 1) /\ n = TabStop * q + (n % TabStop)
  BY Screen, DivisionSplits
<1>2. TabStop \in Nat \ {0} /\ W \in Nat
  BY Screen
<1>3. PICK k \in Nat : W = TabStop * k
  BY Screen
<1> HIDE DEF q
<1>4. Align(n) = TabStop * q /\ TabStop * q \in Nat /\ TabStop * k \in Nat
  BY <1>1, <1>2, <1>3 DEF Align, q
<1>5. Align(n) =< n
  BY <1>1, <1>2, <1>4
<1>6. ASSUME n < W + TabStop PROVE Align(n) =< W
  <2>1. ASSUME k < q PROVE FALSE
    <3>1. TabStop * k + TabStop =< TabStop * q
      BY <1>1, <1>2, <2>1, RowsInOrder
    <3> QED
      BY <1>1, <1>2, <1>3, <1>4, <1>5, <1>6, <3>1
  <2>2. q =< k
    BY <1>1, <2>1
  <2>3. TabStop * q =< TabStop * k
    BY <1>1, <1>2, <2>2, MulMonotone
  <2> QED
    BY <1>3, <1>4, <2>3
<1>7. Align(n + TabStop) = (q + 1) * TabStop
  <2>1. n + TabStop = TabStop * (q + 1) + (n % TabStop) /\ n + TabStop \in Nat
    BY <1>1, <1>2
  <2>2. (n + TabStop) \div TabStop = q + 1
    <3>1. \A r \in 0..(TabStop - 1), m \in Nat, p \in Nat :
             m = TabStop * p + r => m \div TabStop = p
      BY <1>2, DivisionUnique
    <3> QED
      BY <1>1, <2>1, <3>1
  <2> QED
    BY <2>2 DEF Align
<1> QED
  BY <1>4, <1>5, <1>6, <1>7 DEF q

(* A character that is drawn near the screen is within the row below it. *)
LEMMA CellNear ==
    ASSUME NEW a \in Nat, NEW b \in Nat, a < W + TabStop, b < H \/ (b = H /\ a < W)
    PROVE  b * W + a \in Nat /\ b * W + a < W * (H + 1)
<1>1. b * W = W * b /\ W * b \in Nat
  BY Screen
<1>2. CASE b < H
  <2>1. W * b + W =< W * H
    BY <1>2, Screen, RowsInOrder
  <2> QED
    BY <1>1, <2>1, Screen
<1>3. CASE b = H /\ a < W
  BY <1>1, <1>3, Screen
<1> QED
  BY <1>2, <1>3

-----------------------------------------------------------------------------
(* The cursor. *)

(* What WriteChar's switch does. *)
LEMMA MovedIs ==
    ASSUME NEW s \in Screens, NEW c \in Chars \cup {Newline, Tab}
    PROVE  LET m == Moved(s, c)
               n == Align(s.x + TabStop)
           IN  /\ m \in Screens
               /\ c = Newline => m.x = 0 /\ m.y = s.y + 1 /\ m.fb = s.fb /\ m.reach = s.reach
               /\ c = Tab =>
                     /\ m.x = IF n > W THEN 0 ELSE n
                     /\ m.y = IF n > W THEN s.y + 1 ELSE s.y
                     /\ m.fb = s.fb /\ m.reach = s.reach
               /\ c \in Chars =>
                     /\ m.x = s.x + 1 /\ m.y = s.y
                     /\ m.fb = [s.fb EXCEPT ![s.y * W + s.x] = c]
                     /\ m.reach = Larger(s.reach, s.y * W + s.x)
<1> DEFINE m == Moved(s, c)
           n == Align(s.x + TabStop)
           cell == s.y * W + s.x
           f == [s.fb EXCEPT ![cell] = c]
           r == Larger(s.reach, cell)
<1>1. /\ s.x \in Nat /\ s.y \in Nat /\ s.fb \in Frame /\ s.reach \in Nat
      /\ 0 \in Nat /\ s.y + 1 \in Nat /\ s.x + 1 \in Nat
  BY DEF Screens
<1>2. n \in Nat
  BY <1>1, Screen, TabStops
<1>3. cell \in Nat
  BY <1>1, Screen
<1> HIDE DEF n, cell
<1>4. r \in Nat
  BY <1>1, <1>3 DEF Larger
<1>5. c \in Chars => f \in Frame
  BY <1>1 DEF Frame
<1>6. c \in Chars => c # Newline /\ c # Tab
  BY ScreenAssumption
<1>7. CASE c = Newline
  <2>1. m = [s EXCEPT !.x = 0, !.y = s.y + 1]
    BY <1>7 DEF Moved, Newline, Tab
  <2>2. c # Tab /\ c \notin Chars
    BY <1>6, <1>7 DEF Newline, Tab
  <2> HIDE DEF m
  <2>3. /\ m \in Screens /\ m.x = 0 /\ m.y = s.y + 1 /\ m.fb = s.fb /\ m.reach = s.reach
    BY <1>1, <2>1 DEF Screens
  <2> QED
    BY <2>2, <2>3 DEF m
<1>8. CASE c = Tab
  <2>1. m = IF n > W THEN [s EXCEPT !.x = 0, !.y = s.y + 1] ELSE [s EXCEPT !.x = n]
    BY <1>8 DEF Moved, Tab, Newline, n
  <2>2. c # Newline /\ c \notin Chars
    BY <1>6, <1>8 DEF Newline, Tab
  <2> HIDE DEF m
  <2>3. CASE n > W
    <3>1. m = [s EXCEPT !.x = 0, !.y = s.y + 1]
      BY <2>1, <2>3
    <3>2. /\ m \in Screens /\ m.x = 0 /\ m.y = s.y + 1 /\ m.fb = s.fb /\ m.reach = s.reach
      BY <1>1, <3>1 DEF Screens
    <3> QED
      BY <2>2, <2>3, <3>2 DEF m, n
  <2>4. CASE ~(n > W)
    <3>1. m = [s EXCEPT !.x = n]
      BY <2>1, <2>4
    <3>2. /\ m \in Screens /\ m.x = n /\ m.y = s.y /\ m.fb = s.fb /\ m.reach = s.reach
      BY <1>1, <1>2, <3>1 DEF Screens
    <3> QED
      BY <2>2, <2>4, <3>2 DEF m, n
  <2> QED
    BY <2>3, <2>4
<1>9. CASE c \in Chars
  <2>1. m = [s EXCEPT !.fb = f, !.x = s.x + 1, !.reach = r]
    BY <1>6, <1>9 DEF Moved, cell
  <2> HIDE DEF m, f, r
  <2>2. /\ m \in Screens /\ m.fb = f /\ m.x = s.x + 1 /\ m.reach = r /\ m.y = s.y
    BY <1>1, <1>4, <1>5, <1>9, <2>1 DEF Screens
  <2> QED
    BY <1>6, <1>9, <2>2 DEF m, f, r, cell
<1> QED
  BY <1>7, <1>8, <1>9

(* What the wrap does. *)
LEMMA WrappedIs ==
    ASSUME NEW s \in Screens
    PROVE  LET w == Wrapped(s)
           IN  /\ w \in Screens /\ w.fb = s.fb /\ w.reach = s.reach
               /\ s.x >= W => w.x = 0 /\ w.y = s.y + 1
               /\ s.x < W => w.x = s.x /\ w.y = s.y
<1>1. s.x \in Nat /\ s.y + 1 \in Nat /\ 0 \in Nat /\ W \in Nat
  BY Screen DEF Screens
<1>2. CASE s.x >= W
  <2> DEFINE t == [s EXCEPT !.x = 0, !.y = s.y + 1]
  <2>1. t \in Screens /\ t.x = 0 /\ t.y = s.y + 1 /\ t.fb = s.fb /\ t.reach = s.reach
    BY <1>1 DEF Screens
  <2>2. Wrapped(s) = t
    BY <1>2 DEF Wrapped
  <2> QED
    BY <1>1, <1>2, <2>1, <2>2
<1>3. CASE s.x < W
  <2>1. Wrapped(s) = s
    BY <1>1, <1>3 DEF Wrapped
  <2> QED
    BY <1>1, <1>3, <2>1
<1> QED
  BY <1>1, <1>2, <1>3

(* Every cell of a scrolled screen is one of the screen's, or blank. *)
LEMMA ScrolledUpFrame ==
    ASSUME NEW f \in Frame PROVE ScrolledUp(f) \in Frame
<1>1. ASSUME NEW k \in Cells, k < W * (H - 1) PROVE k + W \in Cells
  <2>1. W * (H + 2) = W * (H + 1) + W /\ W * (H + 2) \in Nat
    BY Screen
  <2> QED
    BY <1>1, <2>1, Screen DEF Cells
<1> QED
  BY <1>1 DEF ScrolledUp, Frame

(* What Scroll does. *)
LEMMA ScrolledIs ==
    ASSUME NEW s \in Screens
    PROVE  LET t == Scrolled(s)
           IN  /\ t \in Screens /\ t.x = s.x /\ t.reach = s.reach
               /\ s.y >= H => t.y = H - 1 /\ t.fb = ScrolledUp(s.fb)
               /\ s.y < H => t.y = s.y /\ t.fb = s.fb
<1>1. s.y \in Nat /\ H - 1 \in Nat /\ H \in Nat /\ ScrolledUp(s.fb) \in Frame
  BY Screen, ScrolledUpFrame DEF Screens
<1>2. CASE s.y >= H
  <2> DEFINE f == ScrolledUp(s.fb)
             t == [s EXCEPT !.fb = f, !.y = H - 1]
  <2>1. Scrolled(s) = t
    BY <1>2 DEF Scrolled
  <2> HIDE DEF f
  <2>2. t \in Screens /\ t.fb = f /\ t.y = H - 1 /\ t.x = s.x /\ t.reach = s.reach
    BY <1>1 DEF Screens, f
  <2> QED
    BY <1>1, <1>2, <2>1, <2>2 DEF f
<1>3. CASE s.y < H
  <2>1. Scrolled(s) = s
    BY <1>1, <1>3 DEF Scrolled
  <2> QED
    BY <1>1, <1>3, <2>1
<1> QED
  BY <1>1, <1>2, <1>3

(* WriteChar puts the cursor on the screen wherever it began. *)
LEMMA CharOnScreen ==
    ASSUME NEW s, Near(s), NEW c \in Chars \cup {Newline, Tab}
    PROVE  Near(WriteChar(s, c)) /\ OnScreen(WriteChar(s, c))
<1> DEFINE m == Moved(s, c)
           w == Wrapped(m)
           t == Scrolled(w)
           cell == s.y * W + s.x
<1>1. s \in Screens /\ s.x \in Nat /\ s.y \in Nat /\ s.reach \in Nat
  BY DEF Near, Screens
<1>2. cell \in Nat /\ cell < W * (H + 1)
  BY <1>1, CellNear DEF Near
<1>3. m \in Screens /\ m.reach \in {s.reach, Larger(s.reach, cell)}
  BY <1>1, MovedIs
<1> HIDE DEF m, cell
<1>4. m.reach < W * (H + 1)
  BY <1>1, <1>2, <1>3 DEF Near, Larger
<1>5. w \in Screens /\ w.x < W /\ w.reach = m.reach
  <2>1. m.x \in Nat /\ W \in Nat /\ W # 0
    BY <1>3, Screen DEF Screens
  <2>2. w \in Screens /\ w.reach = m.reach /\ (m.x >= W => w.x = 0) /\ (m.x < W => w.x = m.x)
    BY <1>3, WrappedIs
  <2> QED
    BY <2>1, <2>2
<1> HIDE DEF w
<1>6. t \in Screens /\ t.x < W /\ t.y < H /\ t.reach = m.reach
  <2>1. w.y \in Nat /\ H \in Nat
    BY <1>5, Screen DEF Screens
  <2>2. /\ t \in Screens /\ t.x = w.x /\ t.reach = w.reach
        /\ w.y >= H => t.y = H - 1
        /\ w.y < H => t.y = w.y
    BY <1>5, ScrolledIs
  <2> QED
    BY <1>5, <2>1, <2>2
<1>7. WriteChar(s, c) = t
  BY ScreenAssumption DEF WriteChar, m, w, Escape, Newline, Tab
<1> HIDE DEF t
<1>8. Near(t) /\ OnScreen(t)
  <2>1. t.x \in Nat /\ W \in Nat /\ TabStop \in Nat
    BY <1>6, Screen DEF Screens
  <2> QED
    BY <1>4, <1>6, <2>1 DEF Near, OnScreen
<1> QED
  BY <1>7, <1>8

(* WriteChar makes a screen of a screen. *)
LEMMA CharScreens ==
    ASSUME NEW s \in Screens, NEW c \in Glyphs
    PROVE  WriteChar(s, c) \in Screens
<1>1. CASE c = Escape
  BY <1>1 DEF WriteChar
<1>2. CASE c # Escape
  <2>1. c \in Chars \cup {Newline, Tab}
    BY <1>2 DEF Glyphs
  <2>2. Moved(s, c) \in Screens
    BY <2>1, MovedIs
  <2>3. Wrapped(Moved(s, c)) \in Screens
    BY <2>2, WrappedIs
  <2>4. Scrolled(Wrapped(Moved(s, c))) \in Screens
    BY <2>3, ScrolledIs
  <2> QED
    BY <1>2, <2>4 DEF WriteChar
<1> QED
  BY <1>1, <1>2

(* WriteVGA is a run over its text, a WriteChar for each character. *)
LEMMA WriteVGARun ==
    ASSUME NEW s \in Screens, NEW text \in Seq(Glyphs)
    PROVE  \E f \in [0..Len(text) -> Screens] :
              /\ f[0] = s
              /\ \A i \in 1..Len(text) : f[i] = WriteChar(f[i - 1], text[i])
              /\ WriteVGA(s, text) = f[Len(text)]
<1> DEFINE N == Len(text)
           g == [p \in Screens \X Glyphs |-> WriteChar(p[1], p[2])]
           Is(h) == h = [i \in 0..N |-> IF i = 0 THEN s ELSE WriteChar(h[i - 1], text[i])]
           h == CHOOSE h : Is(h)
<1>1. N \in Nat /\ text \in [1..N -> Glyphs]
  OBVIOUS
<1>2. IsMachine(g, Screens, Glyphs) /\ IsText(text, N, Glyphs)
  BY <1>1, CharScreens DEF IsMachine, IsText
<1>3. PICK f \in [0..N -> Screens] :
         f[0] = s /\ \A i \in 1..N : f[i] = g[<<f[i - 1], text[i]>>]
  <2> HIDE DEF g, N
  <2>1. \E f : IsRun(f, g, Screens, s, text, N)
    BY <1>1, <1>2, RunExists
  <2> QED
    BY <2>1 DEF IsRun
<1>4. \A i \in 1..N : f[i] = WriteChar(f[i - 1], text[i])
  <2> SUFFICES ASSUME NEW i \in 1..N PROVE f[i] = WriteChar(f[i - 1], text[i])
    OBVIOUS
  <2>1. i - 1 \in 0..N /\ f[i - 1] \in Screens /\ text[i] \in Glyphs
    BY <1>1, <1>3
  <2> QED
    BY <1>3, <2>1
<1>5. Is(f)
  BY <1>1, <1>3, <1>4
<1>6. Is(h)
  <2> HIDE DEF Is
  <2> QED
    BY <1>5
<1>7. WriteVGA(s, text) = h[N]
  BY Zenon DEF WriteVGA
<1>8. h[N] = f[N]
  <2> HIDE DEF h, N
  <2>1. /\ h[0] = s
        /\ \A i \in 0..N : i # 0 => h[i] = WriteChar(h[i - 1], text[i])
    BY <1>1, <1>6
  <2> DEFINE P == {n \in Nat : n =< N => h[n] = f[n]}
  <2>2. 0 \in P
    BY <1>3, <2>1
  <2>3. ASSUME NEW n \in Nat, n \in P PROVE n + 1 \in P
    <3> SUFFICES ASSUME n + 1 =< N PROVE h[n + 1] = f[n + 1]
      OBVIOUS
    <3>1. n + 1 \in 1..N /\ n + 1 \in 0..N /\ n + 1 # 0 /\ (n + 1) - 1 = n
      BY <1>1
    <3>2. h[n] = f[n]
      BY <1>1, <2>3, <3>1
    <3>3. h[n + 1] = WriteChar(h[n], text[n + 1])
      BY <2>1, <3>1
    <3>4. f[n + 1] = WriteChar(f[n], text[n + 1])
      BY <1>4, <3>1
    <3> QED
      BY <3>2, <3>3, <3>4
  <2>4. N \in P
    <3> HIDE DEF P
    <3> QED
      BY <1>1, <2>2, <2>3, NatInduct
  <2> QED
    BY <2>4
<1> QED
  BY <1>3, <1>4, <1>7, <1>8

(* A line of a handler leaves the cursor where it is or on the screen. *)
LEMMA LineOnScreen ==
    ASSUME NEW s, Near(s), NEW text \in Seq(Glyphs)
    PROVE  LET t == WriteVGA(s, text)
           IN  Near(t) /\ ((t.x = s.x /\ t.y = s.y) \/ OnScreen(t))
<1> DEFINE N == Len(text)
<1>1. PICK f \in [0..N -> Screens] :
              /\ f[0] = s
              /\ \A i \in 1..N : f[i] = WriteChar(f[i - 1], text[i])
              /\ WriteVGA(s, text) = f[N]
  BY WriteVGARun DEF Near
<1>2. N \in Nat /\ \A i \in 1..N : text[i] \in Glyphs
  OBVIOUS
<1> DEFINE Good(t) == Near(t) /\ ((t.x = s.x /\ t.y = s.y) \/ OnScreen(t))
           P == {n \in Nat : n =< N => Good(f[n])}
<1>3. 0 \in P
  BY <1>1
<1>4. ASSUME NEW n \in Nat, n \in P PROVE n + 1 \in P
  <2> SUFFICES ASSUME n + 1 =< N PROVE Good(f[n + 1])
    OBVIOUS
  <2>1. n + 1 \in 1..N /\ (n + 1) - 1 = n /\ n =< N
    BY <1>2
  <2>2. Good(f[n]) /\ f[n + 1] = WriteChar(f[n], text[n + 1])
    BY <1>1, <1>4, <2>1
  <2>3. CASE text[n + 1] = Escape
    <3>1. f[n + 1] = f[n]
      BY <2>2, <2>3 DEF WriteChar
    <3> QED
      BY <2>2, <3>1
  <2>4. CASE text[n + 1] # Escape
    <3>1. text[n + 1] \in Chars \cup {Newline, Tab}
      BY <1>2, <2>1, <2>4 DEF Glyphs
    <3>2. Near(WriteChar(f[n], text[n + 1])) /\ OnScreen(WriteChar(f[n], text[n + 1]))
      BY <2>2, <3>1, CharOnScreen
    <3> QED
      BY <2>2, <3>2
  <2> QED
    BY <2>3, <2>4
<1>5. N \in P
  <2> HIDE DEF P
  <2> QED
    BY <1>2, <1>3, <1>4, NatInduct
<1>6. Good(f[N])
  BY <1>2, <1>5
<1> QED
  BY <1>1, <1>6

-----------------------------------------------------------------------------
(* The steps of the main thread. *)

(* What the three kinds of moves do. *)
LEMMA GotoIs ==
    ASSUME main \in Threads, NEW p \in Outer \cup Inner, Goto(p)
    PROVE  /\ main' \in Threads /\ main'.at = p /\ main'.text = main.text /\ main'.i = main.i
           /\ main'.reg = main.reg /\ main'.then = main.then /\ Current' = Current
BY DEF Goto, Threads, Current

(* A load, and where the main thread goes on. *)
LEMMA LoadIs ==
    ASSUME main \in Threads, NEW p \in Outer \cup Inner, NEW r \in Nat, Load(r, p)
    PROVE  /\ main' \in Threads /\ main'.at = p /\ main'.text = main.text /\ main'.i = main.i
           /\ main'.reg = r /\ main'.then = main.then /\ Current' = Current
BY DEF Load, Threads, Current

(* _yPos++ begins. *)
LEMMA IncrementIs ==
    ASSUME main \in Threads, NEW t \in {"wrap", "bottom"}, IncrementY(t)
    PROVE  /\ main' \in Threads /\ main'.at = "loadY" /\ main'.text = main.text
           /\ main'.i = main.i /\ main'.reg = main.reg /\ main'.then = t /\ Current' = Current
BY DEF IncrementY, Threads, Current, Outer, Inner

(* WriteChar returns, and the page has the character. *)
LEMMA NextCharIs ==
    ASSUME main \in Threads, NextChar
    PROVE  /\ main' \in Threads /\ main'.at = "char"
           /\ page' = Place(page, Current)
<1>1. main.i + 1 \in Nat \ {0}
  BY DEF Threads
<1> QED
  BY <1>1 DEF NextChar, Threads, Current, Outer, Inner

(* A step inside WriteChar to another place of it. *)
LEMMA MainInside ==
    ASSUME MainInv, main.at \in Inner, NEW p \in Inner, main' \in Threads, main'.at = p,
           main'.text = main.text, main'.i = main.i, Current' = Current,
           p \in {"row", "col", "cell"} => Current \in Chars,
           p \in {"loadX", "storeX"} => Current \in Chars \cup {Tab},
           p \in {"loadTab", "storeTab", "tab"} => Current = Tab,
           p \in {"loadY", "storeY"} => main'.then # "none"
    PROVE  MainInv'
BY DEF MainInv

(* A step out of WriteChar. *)
LEMMA MainOutside ==
    ASSUME main' \in Threads, main'.at \in Outer
    PROVE  MainInv'
BY DEF MainInv, Outer, Inner

(* What Near says of the variables. *)
LEMMA NowIs ==
    ASSUME Near(Now)
    PROVE  /\ x \in Nat /\ y \in Nat /\ fb \in Frame /\ reach \in Nat
           /\ x < W + TabStop /\ (y < H \/ (y = H /\ x < W)) /\ reach < W * (H + 1)
BY DEF Near, Now, Screens

(* A console that is near the screen. *)
LEMMA NearIs ==
    ASSUME NEW a \in Nat, NEW b \in Nat, NEW f \in Frame, NEW r \in Nat,
           a < W + TabStop, b < H \/ (b = H /\ a < W), r < W * (H + 1)
    PROVE  Near([x |-> a, y |-> b, fb |-> f, reach |-> r])
BY DEF Near, Screens

(* A step that leaves the console alone. *)
LEMMA Rests ==
    ASSUME CursorInv, UNCHANGED <<x, y, fb, reach>>,
           LET p == main'.at
           IN  /\ p \notin {"loadTab", "storeTab", "tab", "wrap", "bottom", "scroll"} =>
                     x < W /\ y < H
               /\ p \in {"loadTab", "storeTab", "tab"} => y < H
               /\ p \in {"tab", "wrap"} => x =< W
               /\ p \in {"bottom", "scroll"} => x < W
               /\ p = "col" => main'.reg =< W * (H - 1)
               /\ p = "cell" => main'.reg < W * H
               /\ p = "storeX" => main'.reg < W
               /\ p = "storeTab" => main'.reg < W + TabStop
               /\ p = "storeY" => main'.reg < H
    PROVE  CursorInv'
<1>1. Now' = Now
  BY DEF Now
<1>2. Near(Now)'
  BY <1>1 DEF CursorInv, Near, Screens, Frame, Cells
<1>3. OnScreen(Now)' <=> x < W /\ y < H
  BY <1>1 DEF OnScreen, Now
<1> QED
  BY <1>2, <1>3 DEF CursorInv

(* The cursor on the screen: update_cursor, the loads, and what WriteChar  *)
(* looks at.                                                               *)
LEMMA LoadsKeep ==
    ASSUME MainInv, CursorInv,
           \/ EndText \/ SelectLow \/ WriteLow \/ SelectHigh \/ WriteHigh \/ SkipEscape
           \/ LoadRow \/ LoadColumn \/ LoadX \/ LoadTab \/ LoadY \/ Bottom
    PROVE  MainInv' /\ CursorInv'
<1>0. main \in Threads /\ x \in Nat /\ y \in Nat /\ W \in Nat /\ H \in Nat /\ main.reg \in Nat
      /\ y * W = W * y /\ y * W \in Nat /\ y * W + x \in Nat /\ main.reg + x \in Nat
  <2>1. main \in Threads /\ x \in Nat /\ y \in Nat /\ W \in Nat /\ H \in Nat
        /\ main.reg \in Nat
    BY NowIs, Screen DEF MainInv, CursorInv, Threads
  <2> QED
    BY <2>1
<1>1. CASE EndText \/ SelectLow \/ WriteLow \/ SelectHigh \/ WriteHigh \/ SkipEscape
  <2>1. main' \in Threads /\ main'.at \in Outer
    <3>1. CASE EndText
      BY <1>0, <3>1, LoadIs DEF EndText, Outer
    <3>2. CASE SelectLow \/ WriteLow \/ SelectHigh
      BY <1>0, <3>2, GotoIs DEF SelectLow, WriteLow, SelectHigh, Outer
    <3>3. CASE WriteHigh
      BY <3>3 DEF WriteHigh, Idle, Threads, Outer, Inner
    <3>4. CASE SkipEscape
      <4>1. main.i + 1 \in Nat \ {0}
        BY <1>0 DEF Threads
      <4> QED
        BY <1>0, <3>4, <4>1 DEF SkipEscape, Threads, Outer, Inner
    <3> QED
      BY <1>1, <3>1, <3>2, <3>3, <3>4
  <2>2. UNCHANGED <<x, y, fb, reach>>
    BY <1>1 DEF EndText, SelectLow, WriteLow, SelectHigh, WriteHigh, SkipEscape, ghosts
  <2>3. main.at \in Outer
    BY <1>1 DEF EndText, SelectLow, WriteLow, SelectHigh, WriteHigh, SkipEscape, Outer
  <2>4. x < W /\ y < H
    BY <2>3 DEF CursorInv, OnScreen, Now, Outer
  <2>5. CursorInv'
    BY <2>1, <2>2, <2>4, Rests DEF Outer
  <2> QED
    BY <2>1, <2>5, MainOutside
<1>2. CASE LoadRow
  <2>1. main.at = "row" /\ Load(y * W, "col") /\ UNCHANGED <<x, y, fb, reach>>
    BY <1>2 DEF LoadRow
  <2>2. main' \in Threads /\ main'.at = "col" /\ main'.reg = y * W /\ main'.text = main.text
        /\ main'.i = main.i /\ Current' = Current
    BY <1>0, <2>1, LoadIs DEF Inner
  <2>3. MainInv'
    BY <2>1, <2>2, MainInside DEF Inner, MainInv
  <2>4. x < W /\ y < H
    BY <2>1 DEF CursorInv, OnScreen, Now
  <2>5. y * W =< W * (H - 1)
    <3>1. y =< H - 1
      BY <1>0, <2>4
    <3> QED
      BY <1>0, <3>1, Screen, MulMonotone
  <2> QED
    BY <2>1, <2>2, <2>3, <2>4, <2>5, Rests
<1>3. CASE LoadColumn
  <2>1. main.at = "col" /\ Load(main.reg + x, "cell") /\ UNCHANGED <<x, y, fb, reach>>
    BY <1>3 DEF LoadColumn
  <2>2. main' \in Threads /\ main'.at = "cell" /\ main'.reg = main.reg + x
        /\ main'.text = main.text /\ main'.i = main.i /\ Current' = Current
    BY <1>0, <2>1, LoadIs DEF Inner
  <2>3. MainInv'
    BY <2>1, <2>2, MainInside DEF Inner, MainInv
  <2>4. x < W /\ y < H /\ main.reg =< W * (H - 1)
    BY <2>1 DEF CursorInv, OnScreen, Now
  <2>5. main.reg + x < W * H
    BY <1>0, <2>4, Screen
  <2> QED
    BY <2>1, <2>2, <2>3, <2>4, <2>5, Rests
<1>4. CASE LoadX
  <2>1. main.at = "loadX" /\ Load(x, "storeX") /\ UNCHANGED <<x, y, fb, reach>>
    BY <1>4 DEF LoadX
  <2>2. main' \in Threads /\ main'.at = "storeX" /\ main'.reg = x
        /\ main'.text = main.text /\ main'.i = main.i /\ Current' = Current
    BY <1>0, <2>1, LoadIs DEF Inner
  <2>3. MainInv'
    BY <2>1, <2>2, MainInside DEF Inner, MainInv
  <2>4. x < W /\ y < H
    BY <2>1 DEF CursorInv, OnScreen, Now
  <2> QED
    BY <2>1, <2>2, <2>3, <2>4, Rests
<1>5. CASE LoadTab
  <2>1. main.at = "loadTab" /\ Load(x, "storeTab") /\ UNCHANGED <<x, y, fb, reach>>
    BY <1>5 DEF LoadTab
  <2>2. main' \in Threads /\ main'.at = "storeTab" /\ main'.reg = x
        /\ main'.text = main.text /\ main'.i = main.i /\ Current' = Current
    BY <1>0, <2>1, LoadIs DEF Inner
  <2>3. MainInv'
    BY <2>1, <2>2, MainInside DEF Inner, MainInv
  <2>4. y < H /\ x < W + TabStop
    BY <2>1, NowIs DEF CursorInv
  <2> QED
    BY <2>1, <2>2, <2>3, <2>4, Rests
<1>6. CASE LoadY
  <2>1. main.at = "loadY" /\ Load(y, "storeY") /\ UNCHANGED <<x, y, fb, reach>>
    BY <1>6 DEF LoadY
  <2>2. main' \in Threads /\ main'.at = "storeY" /\ main'.reg = y /\ main'.then = main.then
        /\ main'.text = main.text /\ main'.i = main.i /\ Current' = Current
    BY <1>0, <2>1, LoadIs DEF Inner
  <2>3. MainInv'
    BY <2>1, <2>2, MainInside DEF Inner, MainInv
  <2>4. x < W /\ y < H
    BY <2>1 DEF CursorInv, OnScreen, Now
  <2> QED
    BY <2>1, <2>2, <2>3, <2>4, Rests
<1>7. CASE Bottom
  <2>1. main.at = "bottom" /\ UNCHANGED <<x, y, fb, reach>> /\ x < W
    BY <1>7 DEF Bottom, CursorInv
  <2>2. CASE y >= H
    <3>1. Load(0, "scroll")
      BY <1>7, <2>2 DEF Bottom
    <3>2. main' \in Threads /\ main'.at = "scroll" /\ main'.reg = 0
          /\ main'.text = main.text /\ main'.i = main.i /\ Current' = Current
      BY <1>0, <3>1, LoadIs DEF Inner
    <3>3. MainInv'
      BY <2>1, <3>2, MainInside DEF Inner, MainInv
    <3> QED
      BY <2>1, <3>2, <3>3, Rests
  <2>3. CASE ~(y >= H)
    <3>1. NextChar
      BY <1>7, <2>3 DEF Bottom
    <3>2. main' \in Threads /\ main'.at = "char"
      BY <1>0, <3>1, NextCharIs
    <3>3. y < H
      BY <1>0, <2>3
    <3> QED
      BY <2>1, <3>2, <3>3, Rests, MainOutside DEF Outer
  <2> QED
    BY <2>2, <2>3
<1> QED
  BY <1>1, <1>2, <1>3, <1>4, <1>5, <1>6, <1>7

(* A step that stores, to a place with the cursor where that place has it. *)
LEMMA Stores ==
    ASSUME x' \in Nat, y' \in Nat, fb' \in Frame, reach' \in Nat, reach' < W * (H + 1),
           main'.at \notin {"col", "cell", "storeX", "storeTab", "storeY"},
           LET p == main'.at
           IN  /\ p \notin {"loadTab", "storeTab", "tab", "wrap", "bottom", "scroll"} =>
                     x' < W /\ y' < H
               /\ p \in {"loadTab", "storeTab", "tab"} => x' < W + TabStop /\ y' < H
               /\ p \in {"tab", "wrap"} => x' =< W
               /\ p = "wrap" => y' < H \/ (y' = H /\ x' < W)
               /\ p \in {"bottom", "scroll"} => x' < W /\ y' =< H
    PROVE  CursorInv'
<1>1. x' < W + TabStop /\ (y' < H \/ (y' = H /\ x' < W))
  BY Screen
<1>2. Near([x |-> x', y |-> y', fb |-> fb', reach |-> reach'])
  BY <1>1, NearIs
<1>3. Near(Now)'
  BY <1>2 DEF Near, Now, Screens, Frame, Cells
<1>4. OnScreen(Now)' <=> x' < W /\ y' < H
  BY DEF OnScreen, Now
<1> QED
  BY <1>3, <1>4 DEF CursorInv

(* The steps that change the cursor or the screen. *)
LEMMA StoresKeep ==
    ASSUME MainInv, CursorInv,
           \/ Char \/ StoreCell \/ StoreX \/ StoreTab \/ TabWraps \/ Wrap \/ StoreY
           \/ Scroll \/ ScrollEnds
    PROVE  MainInv' /\ CursorInv'
<1>0. /\ main \in Threads /\ x \in Nat /\ y \in Nat /\ fb \in Frame /\ reach \in Nat
      /\ x < W + TabStop /\ (y < H \/ (y = H /\ x < W)) /\ reach < W * (H + 1)
      /\ W \in Nat \ {0} /\ H \in Nat \ {0} /\ TabStop \in Nat \ {0} /\ TabStop =< W
      /\ main.reg \in Nat
  BY NowIs, Screen DEF MainInv, CursorInv, Threads
<1>1. CASE Char
  <2>1. main.at = "char" /\ UNCHANGED <<y, fb, reach>> /\ x < W /\ y < H
        /\ main.i =< Len(main.text) /\ Current # Escape
    BY <1>1 DEF Char, CursorInv, OnScreen, Now
  <2>2. Current \in Glyphs
    BY <1>0, <2>1 DEF Threads, Current
  <2>3. CASE Current = Newline
    <3>1. x' = 0 /\ IncrementY("wrap")
      BY <1>1, <2>3 DEF Char, Newline, Tab
    <3>2. main' \in Threads /\ main'.at = "loadY" /\ main'.text = main.text
           /\ main'.i = main.i /\ main'.then = "wrap" /\ Current' = Current
      BY <1>0, <3>1, IncrementIs
    <3>3. MainInv'
      BY <2>1, <3>2 DEF MainInv
    <3> QED
      BY <1>0, <2>1, <3>1, <3>2, <3>3, Stores
  <2>4. CASE Current = Tab
    <3>1. Goto("loadX") /\ UNCHANGED x
      BY <1>1, <2>4 DEF Char, Newline, Tab
    <3>2. main' \in Threads /\ main'.at = "loadX" /\ main'.text = main.text
           /\ main'.i = main.i /\ Current' = Current
      BY <1>0, <3>1, GotoIs DEF Inner
    <3>3. MainInv'
      BY <2>1, <2>4, <3>2 DEF MainInv
    <3> QED
      BY <1>0, <2>1, <3>1, <3>2, <3>3, Stores
  <2>5. CASE Current \in Chars
    <3>1. Goto("row") /\ UNCHANGED x
      BY <1>1, <2>5, ScreenAssumption DEF Char
    <3>2. main' \in Threads /\ main'.at = "row" /\ main'.text = main.text
           /\ main'.i = main.i /\ Current' = Current
      BY <1>0, <3>1, GotoIs DEF Inner
    <3>3. MainInv'
      BY <2>1, <2>5, <3>2 DEF MainInv
    <3> QED
      BY <1>0, <2>1, <3>1, <3>2, <3>3, Stores
  <2> QED
    BY <2>1, <2>2, <2>3, <2>4, <2>5 DEF Glyphs
<1>2. CASE StoreCell
  <2>1. main.at = "cell" /\ fb' = [fb EXCEPT ![main.reg] = Current] /\ Goto("loadX")
        /\ reach' = Larger(reach, main.reg) /\ UNCHANGED <<x, y>>
    BY <1>2 DEF StoreCell
  <2>2. Current \in Chars /\ main.reg < W * H /\ x < W /\ y < H
    BY <2>1 DEF MainInv, CursorInv, OnScreen, Now
  <2>3. main' \in Threads /\ main'.at = "loadX" /\ main'.text = main.text
           /\ main'.i = main.i /\ Current' = Current
    BY <1>0, <2>1, GotoIs DEF Inner
  <2>4. MainInv'
    BY <2>1, <2>2, <2>3, MainInside DEF Inner
  <2>5. fb' \in Frame
    BY <1>0, <2>1, <2>2 DEF Frame
  <2>6. reach' \in Nat /\ reach' < W * (H + 1)
    BY <1>0, <2>1, <2>2, Screen DEF Larger
  <2> QED
    BY <1>0, <2>1, <2>2, <2>3, <2>4, <2>5, <2>6, Stores
<1>3. CASE StoreX
  <2>1. main.at = "storeX" /\ UNCHANGED <<y, fb, reach>> /\ main.reg < W /\ y < H
    BY <1>3 DEF StoreX, CursorInv, OnScreen, Now
  <2>2. CASE Current = Tab
    <3>1. x' = main.reg + TabStop /\ Goto("loadTab")
      BY <1>3, <2>2 DEF StoreX
    <3>2. main' \in Threads /\ main'.at = "loadTab" /\ main'.text = main.text
           /\ main'.i = main.i /\ Current' = Current
      BY <1>0, <3>1, GotoIs DEF Inner
    <3>3. MainInv'
      BY <2>1, <2>2, <3>2, MainInside DEF Inner
    <3> QED
      BY <1>0, <2>1, <3>1, <3>2, <3>3, Stores
  <2>3. CASE Current # Tab
    <3>1. x' = main.reg + 1 /\ Goto("wrap")
      BY <1>3, <2>3 DEF StoreX
    <3>2. main' \in Threads /\ main'.at = "wrap" /\ main'.text = main.text
           /\ main'.i = main.i /\ Current' = Current
      BY <1>0, <3>1, GotoIs DEF Inner
    <3>3. MainInv'
      BY <2>1, <3>2, MainInside DEF Inner
    <3> QED
      BY <1>0, <2>1, <3>1, <3>2, <3>3, Stores
  <2> QED
    BY <2>2, <2>3
<1>4. CASE StoreTab
  <2>1. main.at = "storeTab" /\ x' = Align(main.reg) /\ Goto("tab")
        /\ UNCHANGED <<y, fb, reach>> /\ main.reg < W + TabStop /\ y < H
    BY <1>4 DEF StoreTab, CursorInv
  <2>2. main' \in Threads /\ main'.at = "tab" /\ main'.text = main.text
           /\ main'.i = main.i /\ Current' = Current
    BY <1>0, <2>1, GotoIs DEF Inner
  <2>3. MainInv'
    BY <2>1, <2>2, MainInside DEF Inner, MainInv
  <2>4. x' \in Nat /\ x' =< W /\ x' < W + TabStop
    BY <1>0, <2>1, TabStops
  <2> QED
    BY <1>0, <2>1, <2>2, <2>3, <2>4, Stores
<1>5. CASE TabWraps
  <2>1. main.at = "tab" /\ UNCHANGED <<y, fb, reach>> /\ x =< W /\ y < H
    BY <1>5 DEF TabWraps, CursorInv
  <2>2. UNCHANGED x /\ Goto("wrap")
    BY <1>0, <1>5, <2>1 DEF TabWraps
  <2>3. main' \in Threads /\ main'.at = "wrap" /\ main'.text = main.text
           /\ main'.i = main.i /\ Current' = Current
    BY <1>0, <2>2, GotoIs DEF Inner
  <2>4. MainInv'
    BY <2>1, <2>3, MainInside DEF Inner
  <2> QED
    BY <1>0, <2>1, <2>2, <2>3, <2>4, Stores
<1>6. CASE Wrap
  <2>1. main.at = "wrap" /\ UNCHANGED <<y, fb, reach>> /\ x =< W
    BY <1>6 DEF Wrap, CursorInv
  <2>2. CASE x >= W
    <3>1. x' = 0 /\ IncrementY("bottom")
      BY <1>6, <2>2 DEF Wrap
    <3>2. main' \in Threads /\ main'.at = "loadY" /\ main'.text = main.text
           /\ main'.i = main.i /\ main'.then = "bottom" /\ Current' = Current
      BY <1>0, <3>1, IncrementIs
    <3>3. MainInv'
      BY <2>1, <3>2, MainInside DEF Inner
    <3>4. y < H
      BY <1>0, <2>2
    <3> QED
      BY <1>0, <2>1, <3>1, <3>2, <3>3, <3>4, Stores
  <2>3. CASE ~(x >= W)
    <3>1. UNCHANGED x /\ Goto("bottom")
      BY <1>6, <2>3 DEF Wrap
    <3>2. main' \in Threads /\ main'.at = "bottom" /\ main'.text = main.text
           /\ main'.i = main.i /\ Current' = Current
      BY <1>0, <3>1, GotoIs DEF Inner
    <3>3. MainInv'
      BY <2>1, <3>2, MainInside DEF Inner
    <3>4. x < W /\ y =< H
      BY <1>0, <2>3
    <3> QED
      BY <1>0, <2>1, <3>1, <3>2, <3>3, <3>4, Stores
  <2> QED
    BY <2>2, <2>3
<1>7. CASE StoreY
  <2>1. main.at = "storeY" /\ y' = main.reg + 1 /\ Goto(main.then)
        /\ UNCHANGED <<x, fb, reach>> /\ main.reg < H /\ x < W
    BY <1>7 DEF StoreY, CursorInv, OnScreen, Now
  <2>2. main.then \in {"wrap", "bottom"}
    BY <1>0, <2>1 DEF MainInv, Threads
  <2>3. main' \in Threads /\ main'.at = main.then /\ main'.text = main.text
           /\ main'.i = main.i /\ Current' = Current
    BY <1>0, <2>1, <2>2, GotoIs DEF Inner
  <2>4. MainInv'
    BY <2>1, <2>2, <2>3, MainInside DEF Inner
  <2>5. y' \in Nat /\ y' =< H
    BY <1>0, <2>1
  <2> QED
    BY <1>0, <2>1, <2>2, <2>3, <2>4, <2>5, Stores
<1>8. CASE Scroll
  <2>1. main.at = "scroll" /\ main.reg < W * H /\ Load(main.reg + 1, "scroll")
        /\ UNCHANGED <<x, y, reach>> /\ x < W /\ main.reg + 1 \in Nat
    BY <1>0, <1>8 DEF Scroll, CursorInv
  <2>2. main' \in Threads /\ main'.at = "scroll" /\ main'.text = main.text
           /\ main'.i = main.i /\ Current' = Current
    BY <1>0, <2>1, LoadIs DEF Inner
  <2>3. MainInv'
    BY <2>1, <2>2, MainInside DEF Inner
  <2>4. fb' \in Frame
    <3>1. main.reg < W * (H - 1) => main.reg + W \in Cells
      <4>1. W * (H + 2) = W * (H + 1) + W /\ W * (H + 2) \in Nat
        BY Screen
      <4> QED
        BY <1>0, <4>1, Screen DEF Cells
    <3> QED
      BY <1>0, <1>8, <3>1 DEF Scroll, Frame
  <2> QED
    BY <1>0, <2>1, <2>2, <2>3, <2>4, Stores
<1>9. CASE ScrollEnds
  <2>1. main.at = "scroll" /\ y' = H - 1 /\ NextChar /\ UNCHANGED <<x, fb, reach>> /\ x < W
    BY <1>9 DEF ScrollEnds, CursorInv
  <2>2. main' \in Threads /\ main'.at = "char"
    BY <1>0, <2>1, NextCharIs
  <2> QED
    BY <1>0, <2>1, <2>2, Stores, MainOutside DEF Outer
<1> QED
  BY <1>1, <1>2, <1>3, <1>4, <1>5, <1>6, <1>7, <1>8, <1>9

(* A line of a handler, between any two instructions. *)
LEMMA PrintKeeps ==
    ASSUME MainInv, CursorInv, NEW line \in Seq(Glyphs), PrintLine(line), UNCHANGED main
    PROVE  MainInv' /\ CursorInv'
<1> DEFINE t == WriteVGA(Now, line)
<1>1. MainInv'
  BY DEF MainInv, Current
<1>2. Near(t) /\ ((t.x = x /\ t.y = y) \/ OnScreen(t))
  BY LineOnScreen DEF CursorInv, Now
<1>3. x' = t.x /\ y' = t.y /\ fb' = t.fb /\ reach' = t.reach
  BY DEF PrintLine, Now
<1> HIDE DEF t
<1>4. /\ x' \in Nat /\ y' \in Nat /\ fb' \in Frame /\ reach' \in Nat
      /\ x' < W + TabStop /\ (y' < H \/ (y' = H /\ x' < W)) /\ reach' < W * (H + 1)
  BY <1>2, <1>3 DEF Near, Screens
<1>5. Near([x |-> x', y |-> y', fb |-> fb', reach |-> reach'])
  BY <1>4, NearIs
<1>6. Near(Now)'
  BY <1>5 DEF Near, Now, Screens, Frame, Cells
<1>7. (x' = x /\ y' = y) \/ (x' < W /\ y' < H)
  BY <1>2, <1>3 DEF OnScreen
<1>8. (OnScreen(Now) <=> x < W /\ y < H) /\ (OnScreen(Now)' <=> x' < W /\ y' < H)
  BY DEF OnScreen, Now
<1>9. CursorInv'
  BY <1>4, <1>6, <1>7, <1>8, Screen DEF CursorInv
<1> QED
  BY <1>1, <1>9

(* The texts are made of glyphs. *)
LEMMA TextGlyphs ==
    \A text \in Texts \cup {TickLine, WarningLine} : text \in Seq(Glyphs)
BY TextsAssumption DEF Glyphs

LEMMA WithZeroGlyphs ==
    ASSUME NEW text \in Texts
    PROVE  WithZero(text) \in Seq(Glyphs)
<1>1. text \in Seq(Glyphs) /\ Nul \in Glyphs
  BY TextGlyphs, ScreenAssumption DEF Glyphs
<1> QED
  BY <1>1 DEF WithZero

(* VGAConsole::Clear leaves the cursor on the screen. *)
LEMMA ConsoleInit == ASSUME Init PROVE MainInv /\ CursorInv
<1>1. main = Idle /\ x = 0 /\ y = 0 /\ reach = 0 /\ fb \in Frame
  BY DEF Init, Frame
<1>2. main \in Threads /\ main.at = "idle"
  BY <1>1 DEF Idle, Threads, Outer
<1>3. MainInv
  BY <1>2 DEF MainInv, Inner
<1>4. 0 < W + TabStop /\ 0 < H /\ 0 < W * (H + 1) /\ 0 < W
  BY Screen
<1>5. Near(Now)
  BY <1>1, <1>4, NearIs DEF Now
<1>6. OnScreen(Now)
  BY <1>1, <1>4 DEF OnScreen, Now
<1> QED
  BY <1>2, <1>3, <1>5, <1>6 DEF CursorInv

(* Every step of the main thread, and every interrupt. *)
LEMMA ConsoleStep ==
    ASSUME MainInv, CursorInv, [Next]_vars
    PROVE  MainInv' /\ CursorInv'
<1>1. ASSUME NEW text \in Texts, StartText(text) PROVE MainInv' /\ CursorInv'
  <2>1. main = Idle /\ main' = [Idle EXCEPT !.at = "char", !.text = WithZero(text)]
        /\ UNCHANGED <<x, y, fb, reach>>
    BY <1>1 DEF StartText, ghosts
  <2>2. main' \in Threads /\ main'.at = "char"
    <3>1. Idle \in Threads
      BY DEF Idle, Threads, Outer
    <3> QED
      BY <2>1, <3>1, WithZeroGlyphs DEF Threads, Outer
  <2>3. x < W /\ y < H
    BY <2>1 DEF CursorInv, OnScreen, Now, Idle
  <2> QED
    BY <2>1, <2>2, <2>3, MainOutside, Rests DEF Outer
<1>2. CASE Writing
  BY <1>2, LoadsKeep, StoresKeep DEF Writing
<1>3. ASSUME UNCHANGED <<main, x, y, fb, reach>> PROVE MainInv' /\ CursorInv'
  <2>1. Now' = Now
    BY <1>3 DEF Now
  <2> QED
    BY <1>3, <2>1 DEF MainInv, CursorInv, Current, Near, OnScreen, Screens, Frame, Cells
<1>4. CASE Tick
  <2>1. UNCHANGED main /\ (PrintLine(TickLine) \/ UNCHANGED <<x, y, fb, reach>>)
    BY <1>4 DEF Tick, ghosts
  <2> QED
    BY <1>3, <2>1, PrintKeeps, TextGlyphs
<1>5. CASE Spurious
  <2>1. UNCHANGED main /\ PrintLine(WarningLine)
    BY <1>5 DEF Spurious
  <2> QED
    BY <2>1, PrintKeeps, TextGlyphs
<1>6. CASE Halted \/ UNCHANGED vars
  BY <1>3, <1>6 DEF Halted, vars, ghosts
<1> QED
  BY <1>1, <1>2, <1>4, <1>5, <1>6 DEF Next

(* Wherever handlers print inside WriteChar, Scroll or update_cursor, the  *)
(* main thread finds the cursor on the screen before each character.       *)
THEOREM CursorStays == Spec => []CursorOnScreen
<1>1. MainInv /\ CursorInv => CursorOnScreen
  BY DEF MainInv, CursorInv, CursorOnScreen, Inside, OnScreen, Now
<1> QED
  BY <1>1, ConsoleInit, ConsoleStep, PTL DEF Spec

(* Wherever they print, no write to the framebuffer goes farther than one  *)
(* row past the screen.                                                    *)
THEOREM WritesBounded == Spec => []WritesNearScreen
<1>1. MainInv /\ CursorInv => WritesNearScreen
  BY NowIs DEF CursorInv, WritesNearScreen
<1> QED
  BY <1>1, ConsoleInit, ConsoleStep, PTL DEF Spec

-----------------------------------------------------------------------------
(* The screen as a window on the page. *)

(* The cells of different places on the screen are different. *)
LEMMA CellOf ==
    ASSUME NEW r \in 0..(H - 1), NEW k \in 0..(W - 1)
    PROVE  /\ r * W + k \in Cells /\ r * W + k < W * H
           /\ r * W + k < W * (H - 1) <=> r < H - 1
           /\ \A b \in Nat, a \in 0..(W - 1) : r * W + k = b * W + a => r = b /\ k = a
<1>1. W \in Nat \ {0} /\ H \in Nat \ {0} /\ r \in Nat /\ k \in Nat
      /\ r * W = W * r /\ W * r \in Nat
  BY Screen
<1>2. W * r + W =< W * H
  BY <1>1, RowsInOrder
<1>3. W * (H + 2) = W * H + 2 * W
  BY <1>1
<1>4. r < H - 1 => W * r + W =< W * (H - 1)
  BY <1>1, Screen, RowsInOrder
<1>5. ~(r < H - 1) => r = H - 1
  BY <1>1
<1>6. ASSUME NEW b \in Nat, NEW a \in 0..(W - 1), r * W + k = b * W + a
      PROVE  r = b /\ k = a
  <2> DEFINE n == W * r + k
  <2>1. b * W = W * b /\ W * b \in Nat
    BY <1>1
  <2>2. n \in Nat /\ n = W * b + a
    BY <1>1, <1>6, <2>1
  <2> HIDE DEF n
  <2>3. n \div W = b /\ n % W = a
    BY <1>1, <2>2, DivisionUnique
  <2>4. n \div W = r /\ n % W = k
    BY <1>1, <2>2, DivisionUnique DEF n
  <2> QED
    BY <2>3, <2>4
<1> QED
  BY <1>1, <1>2, <1>3, <1>4, <1>5, <1>6, Screen DEF Cells

(* What placing a character does to the page. *)
LEMMA PutIs ==
    ASSUME NEW p \in Sheets, NEW c \in Chars
    PROVE  /\ Put(p, c) \in Sheets /\ Put(p, c).row = p.row /\ Put(p, c).col = p.col
           /\ Filled(p, p.row) => Filled(Put(p, c), p.row)
           /\ \A r, k \in Nat : Shown(Put(p, c), r, k) =
                 IF r = p.row /\ k = p.col THEN c ELSE Shown(p, r, k)
<1> DEFINE here == <<p.row, p.col>>
           new == [rc \in DOMAIN p.cells \cup {here} |-> IF rc = here THEN c ELSE p.cells[rc]]
           S == UNION {[d -> Chars] : d \in SUBSET (Nat \X Nat)}
<1>1. p.row \in Nat /\ p.col \in Nat /\ p.cells \in S
  BY DEF Sheets
<1>2. PICK d \in SUBSET (Nat \X Nat) : p.cells \in [d -> Chars]
  BY <1>1
<1>3. DOMAIN new = d \cup {here} /\ d \cup {here} \in SUBSET (Nat \X Nat)
      /\ new \in [d \cup {here} -> Chars]
  BY <1>1, <1>2
<1>4. new \in S
  BY <1>3
<1>5. Put(p, c) = [p EXCEPT !.cells = new]
  BY DEF Put
<1> HIDE DEF S
<1>6. Put(p, c) \in Sheets /\ Put(p, c).row = p.row /\ Put(p, c).col = p.col
      /\ Put(p, c).cells = new
  <2> HIDE DEF new
  <2> QED
    BY <1>4, <1>5 DEF Sheets, S
<1>7. Filled(p, p.row) => Filled(Put(p, c), p.row)
  <2>1. here[1] = p.row /\ p.row =< p.row
    BY <1>1
  <2> QED
    BY <1>2, <1>3, <1>6, <2>1 DEF Filled
<1>8. ASSUME NEW r \in Nat, NEW k \in Nat
      PROVE  Shown(Put(p, c), r, k) = IF r = p.row /\ k = p.col THEN c ELSE Shown(p, r, k)
  <2>1. <<r, k>> = here <=> r = p.row /\ k = p.col
    OBVIOUS
  <2>2. DOMAIN new = DOMAIN p.cells \cup {here}
        /\ \A rc \in DOMAIN new : new[rc] = IF rc = here THEN c ELSE p.cells[rc]
    OBVIOUS
  <2> HIDE DEF new, here
  <2> QED
    BY <1>6, <2>1, <2>2 DEF Shown
<1> QED
  BY <1>6, <1>7, <1>8

(* Where the page goes on: at column n of the row, or on the next row. *)
Onward(q, p, n) ==
    /\ q \in Sheets /\ q.cells = p.cells
    /\ n >= W => q.row = p.row + 1 /\ q.col = 0
    /\ n < W => q.row = p.row /\ q.col = n

(* The two moves of the page: to the next row, and along the row. *)
LEMMA OnwardIs ==
    ASSUME NEW p \in Sheets, NEW n \in Nat
    PROVE  /\ Onward([p EXCEPT !.row = @ + 1, !.col = 0], p, W)
           /\ Onward(IF n >= W THEN [p EXCEPT !.row = @ + 1, !.col = 0]
                     ELSE [p EXCEPT !.col = n], p, n)
<1>1. p.row + 1 \in Nat /\ 0 \in Nat /\ W \in Nat
  BY Screen DEF Sheets
<1> DEFINE S == UNION {[d -> Chars] : d \in SUBSET (Nat \X Nat)}
           d == [p EXCEPT !.row = p.row + 1, !.col = 0]
           e == [p EXCEPT !.col = n]
<1> HIDE DEF S
<1>2. d \in Sheets /\ d.cells = p.cells /\ d.row = p.row + 1 /\ d.col = 0
  BY <1>1 DEF Sheets, S
<1>3. e \in Sheets /\ e.cells = p.cells /\ e.row = p.row /\ e.col = n
  BY <1>1 DEF Sheets, S
<1> HIDE DEF d, e
<1>4. Onward(d, p, W) /\ Onward(IF n >= W THEN d ELSE e, p, n)
  BY <1>1, <1>2, <1>3 DEF Onward
<1> QED
  BY <1>4 DEF d, e

(* How far a character moves. *)
To(p, c) ==
    IF c = Newline THEN W
    ELSE IF c = Tab THEN ((p.col \div TabStop) + 1) * TabStop ELSE p.col + 1

(* What a character does to the page. *)
LEMMA PlaceIs ==
    ASSUME NEW p \in Sheets, p.col < W, Filled(p, p.row), NEW c \in Chars \cup {Newline, Tab}
    PROVE  LET q == Place(p, c)
           IN  /\ q \in Sheets /\ q.col < W /\ Filled(q, p.row) /\ To(p, c) \in Nat
               /\ To(p, c) >= W => q.row = p.row + 1 /\ q.col = 0
               /\ To(p, c) < W => q.row = p.row /\ q.col = To(p, c)
               /\ \A r, k \in Nat : Shown(q, r, k) =
                     IF c \in Chars /\ r = p.row /\ k = p.col THEN c ELSE Shown(p, r, k)
<1> DEFINE q == Place(p, c)
           n == To(p, c)
           b == IF c \in Chars THEN Put(p, c) ELSE p
<1>1. p.row \in Nat /\ p.col \in Nat /\ W \in Nat \ {0} /\ TabStop \in Nat \ {0}
  BY Screen DEF Sheets
<1>2. n \in Nat
  <2>1. p.col \div TabStop \in Nat
    BY <1>1, DivisionSplits
  <2> QED
    BY <1>1, <2>1 DEF To
<1>3. b \in Sheets /\ b.row = p.row /\ b.col = p.col /\ Filled(b, p.row)
      /\ \A r, k \in Nat : Shown(b, r, k) =
            IF c \in Chars /\ r = p.row /\ k = p.col THEN c ELSE Shown(p, r, k)
  BY PutIs
<1>4. c \in Chars => c \notin {Newline, Tab, Escape}
  BY ScreenAssumption
<1> HIDE DEF b
<1>5. Onward(q, b, n)
  <2>1. CASE c = Newline
    <3>1. q = [p EXCEPT !.row = @ + 1, !.col = 0] /\ n = W /\ b = p
      BY <1>4, <2>1 DEF Place, To, b, Newline, Tab, Escape
    <3> QED
      BY <1>2, <3>1, OnwardIs
  <2>2. CASE c = Tab
    <3>1. q = (IF n >= W THEN [p EXCEPT !.row = @ + 1, !.col = 0] ELSE [p EXCEPT !.col = n])
          /\ b = p
      BY <1>4, <2>2 DEF Place, To, b, Newline, Tab, Escape
    <3> HIDE DEF n, q
    <3> QED
      BY <1>2, <3>1, OnwardIs
  <2>3. CASE c \in Chars
    <3>1. n = p.col + 1 /\ b = Put(p, c)
      BY <1>4, <2>3 DEF To, b
    <3>2. q = IF n >= W THEN [b EXCEPT !.row = @ + 1, !.col = 0] ELSE [b EXCEPT !.col = n]
      BY <1>4, <2>3, <3>1 DEF Place
    <3> HIDE DEF n, q
    <3> QED
      BY <1>2, <1>3, <3>2, OnwardIs
  <2> QED
    BY <2>1, <2>2, <2>3
<1> HIDE DEF q, n
<1>6. q.cells = b.cells
  BY <1>5 DEF Onward
<1>7. Filled(q, p.row) /\ \A r, k \in Nat : Shown(q, r, k) = Shown(b, r, k)
  BY <1>3, <1>6 DEF Filled, Shown
<1>8. q \in Sheets /\ q.col < W /\ (n >= W => q.row = p.row + 1 /\ q.col = 0)
      /\ (n < W => q.row = p.row /\ q.col = n)
  BY <1>1, <1>2, <1>3, <1>5 DEF Onward
<1> QED
  BY <1>2, <1>3, <1>7, <1>8 DEF q, n

(* The screen after a character is drawn, and after one that is not. *)
LEMMA CharShows ==
    ASSUME NEW a, NEW b, NEW f \in Frame, NEW p, Mirrors(a, b, f, p),
           NEW c \in Chars \cup {Newline, Tab}
    PROVE  /\ a \in 0..(W - 1) /\ b \in 0..(H - 1) /\ Top(p) \in Nat
           /\ c \in Chars => Shows([f EXCEPT ![b * W + a] = c], Place(p, c), Top(p))
           /\ c \notin Chars => Shows(f, Place(p, c), Top(p))
<1>1. p \in Sheets /\ p.col < W /\ Filled(p, p.row) /\ a = p.col /\ b = p.row - Top(p)
      /\ Shows(f, p, Top(p)) /\ p.row \in Nat /\ p.col \in Nat
  BY DEF Mirrors, Sheets
<1>2. a \in 0..(W - 1) /\ b \in 0..(H - 1) /\ Top(p) \in Nat /\ W \in Nat /\ H \in Nat
      /\ b * W + a \in Cells
  <2>1. a \in 0..(W - 1) /\ b \in 0..(H - 1) /\ Top(p) \in Nat /\ W \in Nat /\ H \in Nat
    BY <1>1, Screen DEF Top
  <2> QED
    BY <2>1, CellOf
<1>3. ASSUME NEW r \in 0..(H - 1), NEW k \in 0..(W - 1)
      PROVE  Shown(Place(p, c), Top(p) + r, k) =
                IF c \in Chars /\ r = b /\ k = a THEN c ELSE f[r * W + k]
  <2>1. Top(p) + r \in Nat /\ k \in Nat /\ (Top(p) + r = p.row <=> r = b)
    BY <1>1, <1>2
  <2>2. f[r * W + k] = Shown(p, Top(p) + r, k)
    BY <1>1 DEF Shows
  <2> QED
    BY <1>1, <2>1, <2>2, PlaceIs
<1>4. ASSUME c \in Chars, NEW r \in 0..(H - 1), NEW k \in 0..(W - 1)
      PROVE  [f EXCEPT ![b * W + a] = c][r * W + k] = IF r = b /\ k = a THEN c ELSE f[r * W + k]
  <2>1. r * W + k \in Cells /\ (r * W + k = b * W + a <=> r = b /\ k = a)
    <3>1. b \in Nat /\ a \in 0..(W - 1)
      BY <1>2
    <3>2. r * W + k \in Cells /\ (r * W + k = b * W + a => r = b /\ k = a)
      BY <3>1, CellOf
    <3> QED
      BY <3>2
  <2>2. f = [n \in Cells |-> f[n]]
    BY DEF Frame
  <2> QED
    BY <1>2, <2>1, <2>2
<1>5. ASSUME c \in Chars PROVE Shows([f EXCEPT ![b * W + a] = c], Place(p, c), Top(p))
  <2> DEFINE g == [f EXCEPT ![b * W + a] = c]
  <2>1. \A r \in 0..(H - 1), k \in 0..(W - 1) : g[r * W + k] = Shown(Place(p, c), Top(p) + r, k)
    BY <1>3, <1>4, <1>5
  <2> HIDE DEF g
  <2>2. Shows(g, Place(p, c), Top(p))
    BY <2>1 DEF Shows
  <2> QED
    BY <2>2 DEF g
<1>6. ASSUME c \notin Chars PROVE Shows(f, Place(p, c), Top(p))
  BY <1>3, <1>6 DEF Shows
<1> QED
  BY <1>2, <1>5, <1>6

(* The row of the cursor says whether the page moves up by one row. *)
LEMMA TopMoves ==
    ASSUME NEW p \in Sheets, NEW q \in Sheets, q.row = p.row \/ q.row = p.row + 1
    PROVE  /\ q.row - Top(p) \in Nat /\ q.row - Top(p) =< H
           /\ q.row - Top(p) < H => Top(q) = Top(p)
           /\ q.row - Top(p) >= H =>
                 q.row = p.row + 1 /\ Top(q) = Top(p) + 1 /\ q.row - Top(q) = H - 1
                 /\ q.row = Top(p) + H
<1>1. p.row \in Nat /\ q.row \in Nat /\ H \in Nat \ {0}
  BY Screen DEF Sheets
<1>2. CASE q.row < H
  <2>1. p.row < H /\ Top(p) = 0 /\ Top(q) = 0
    BY <1>1, <1>2 DEF Top
  <2> QED
    BY <1>1, <1>2, <2>1
<1>3. CASE ~(q.row < H) /\ p.row < H
  <2>1. Top(p) = 0 /\ Top(q) = 1 /\ q.row = H /\ q.row = p.row + 1
    BY <1>1, <1>3 DEF Top
  <2> QED
    BY <1>1, <2>1
<1>4. CASE ~(q.row < H) /\ ~(p.row < H)
  <2>1. Top(p) = p.row - H + 1 /\ Top(q) = q.row - H + 1
    BY <1>1, <1>4 DEF Top
  <2>2. CASE q.row = p.row
    <3>1. q.row - Top(p) = H - 1 /\ Top(q) = Top(p)
      BY <1>1, <2>1, <2>2
    <3> QED
      BY <1>1, <3>1
  <2>3. CASE q.row = p.row + 1
    <3>1. q.row - Top(p) = H /\ Top(q) = Top(p) + 1 /\ q.row - Top(q) = H - 1
          /\ q.row = Top(p) + H
      BY <1>1, <2>1, <2>3
    <3> QED
      BY <1>1, <2>3, <3>1
  <2> QED
    BY <2>2, <2>3
<1> QED
  BY <1>2, <1>3, <1>4

(* Where the cell of a scrolled screen comes from. *)
LEMMA ScrolledShows ==
    ASSUME NEW f \in Frame, NEW q \in Sheets, NEW top \in Nat, Shows(f, q, top),
           Filled(q, q.row - 1), q.row = top + H,
           NEW r \in 0..(H - 1), NEW k \in 0..(W - 1)
    PROVE  (IF r * W + k < W * (H - 1) THEN f[(r * W + k) + W] ELSE Blank)
              = Shown(q, (top + 1) + r, k)
<1>1. W \in Nat \ {0} /\ H \in Nat \ {0}
  BY Screen
<1>2. CASE r < H - 1
  <2>1. r * W + k < W * (H - 1) /\ r + 1 \in 0..(H - 1)
    BY <1>1, <1>2, CellOf
  <2>2. (r * W + k) + W = (r + 1) * W + k
    BY <1>1
  <2>3. top + (r + 1) = (top + 1) + r
    BY <1>1
  <2>4. f[(r + 1) * W + k] = Shown(q, top + (r + 1), k)
    BY <2>1 DEF Shows
  <2> QED
    BY <2>1, <2>2, <2>3, <2>4
<1>3. CASE ~(r < H - 1)
  <2>1. ~(r * W + k < W * (H - 1))
    BY <1>3, CellOf
  <2>2. (top + 1) + r = q.row /\ q.row \in Nat
    BY <1>1, <1>3
  <2>3. <<q.row, k>> \notin DOMAIN q.cells
    <3>1. <<q.row, k>>[1] = q.row /\ ~(q.row =< q.row - 1)
      BY <2>2
    <3> QED
      BY <3>1 DEF Filled
  <2> QED
    BY <2>1, <2>2, <2>3 DEF Shown
<1> QED
  BY <1>2, <1>3

(* A page filled up to a row is filled up to a later one. *)
LEMMA FilledUp ==
    ASSUME NEW q \in Sheets, NEW m \in Nat, NEW n \in Nat, m =< n, Filled(q, m)
    PROVE  Filled(q, n)
<1>1. PICK d \in SUBSET (Nat \X Nat) : q.cells \in [d -> Chars]
  <2>1. q.cells \in UNION {[d -> Chars] : d \in SUBSET (Nat \X Nat)}
    BY DEF Sheets
  <2> QED
    BY <2>1
<1>2. \A rc \in DOMAIN q.cells : rc[1] \in Nat
  BY <1>1
<1> QED
  BY <1>2 DEF Filled

(* After the wrap: a page that goes on from p, its cursor counted from the *)
(* old top, which may be on the row below the screen.                      *)
Pending(a, b, f, p, q) ==
    /\ p \in Sheets /\ q \in Sheets /\ (q.row = p.row \/ q.row = p.row + 1)
    /\ q.col < W /\ Filled(q, p.row)
    /\ a = q.col /\ b = q.row - Top(p)
    /\ Shows(f, q, Top(p))

(* Scrolling makes the screen a window on the page again. *)
LEMMA BottomMirrors ==
    ASSUME NEW a, NEW b, NEW f \in Frame, NEW p, NEW q, Pending(a, b, f, p, q)
    PROVE  /\ b \in Nat /\ Top(p) \in Nat
           /\ b < H => Mirrors(a, b, f, q)
           /\ b >= H => \A g : Shows(g, q, Top(p) + 1) => Mirrors(a, H - 1, g, q)
           /\ b >= H => q.row = Top(p) + H /\ Filled(q, q.row - 1)
<1>1. /\ p \in Sheets /\ q \in Sheets /\ (q.row = p.row \/ q.row = p.row + 1)
      /\ q.col < W /\ Filled(q, p.row) /\ a = q.col /\ b = q.row - Top(p)
      /\ Shows(f, q, Top(p))
  BY DEF Pending
<1>2. p.row \in Nat /\ q.row \in Nat /\ H \in Nat \ {0}
  BY <1>1, Screen DEF Sheets
<1>3. /\ b \in Nat /\ b =< H
      /\ b < H => Top(q) = Top(p)
      /\ b >= H => q.row = p.row + 1 /\ Top(q) = Top(p) + 1 /\ q.row - Top(q) = H - 1
                   /\ q.row = Top(p) + H
  BY <1>1, TopMoves
<1>4. Top(p) \in Nat
  BY <1>2 DEF Top
<1>5. Filled(q, q.row)
  BY <1>1, <1>2, FilledUp
<1>6. b >= H => Filled(q, q.row - 1)
  <2>1. b >= H => q.row - 1 = p.row
    BY <1>2, <1>3
  <2> QED
    BY <1>1, <2>1
<1>7. b < H => Mirrors(a, b, f, q)
  BY <1>1, <1>3, <1>5 DEF Mirrors
<1>8. ASSUME b >= H, NEW g, Shows(g, q, Top(p) + 1) PROVE Mirrors(a, H - 1, g, q)
  BY <1>1, <1>3, <1>5, <1>8 DEF Mirrors
<1> QED
  BY <1>3, <1>4, <1>6, <1>7, <1>8

(* Scroll, all cells at once. *)
LEMMA ScrolledMirrors ==
    ASSUME NEW a, NEW b, NEW f \in Frame, NEW p, NEW q, Pending(a, b, f, p, q), b >= H
    PROVE  Mirrors(a, H - 1, ScrolledUp(f), q)
<1>1. q \in Sheets /\ Shows(f, q, Top(p)) /\ Top(p) \in Nat /\ q.row = Top(p) + H
      /\ Filled(q, q.row - 1)
  <2>1. Top(p) \in Nat /\ q.row = Top(p) + H /\ Filled(q, q.row - 1)
    BY BottomMirrors
  <2> QED
    BY <2>1 DEF Pending
<1>2. ASSUME NEW r \in 0..(H - 1), NEW k \in 0..(W - 1)
      PROVE  ScrolledUp(f)[r * W + k] = Shown(q, (Top(p) + 1) + r, k)
  <2> DEFINE n == r * W + k
  <2>1. n \in Cells /\ n < W * H
    BY CellOf
  <2>2. (IF n < W * (H - 1) THEN f[n + W] ELSE Blank) = Shown(q, (Top(p) + 1) + r, k)
    BY <1>1, ScrolledShows
  <2> HIDE DEF n
  <2>3. ScrolledUp(f)[n] = IF n < W * (H - 1) THEN f[n + W] ELSE Blank
    BY <2>1 DEF ScrolledUp
  <2> QED
    BY <2>2, <2>3 DEF n
<1>3. Shows(ScrolledUp(f), q, Top(p) + 1)
  BY <1>2 DEF Shows
<1> QED
  BY <1>3, BottomMirrors

(* How far WriteChar moves is how far the page does. *)
LEMMA ToIs ==
    ASSUME NEW p \in Sheets, p.col < W
    PROVE  /\ To(p, Tab) = Align(p.col + TabStop) /\ To(p, Tab) =< W
           /\ To(p, Newline) = W
           /\ \A c \in Chars : To(p, c) = p.col + 1 /\ p.col + 1 =< W
<1>1. p.col \in Nat /\ W \in Nat /\ TabStop \in Nat
  BY Screen DEF Sheets
<1>2. Align(p.col + TabStop) = ((p.col \div TabStop) + 1) * TabStop
      /\ Align(p.col + TabStop) =< W
  <2>1. p.col + TabStop \in Nat /\ p.col + TabStop < W + TabStop
    BY <1>1
  <2> QED
    BY <1>1, <2>1, TabStops
<1>3. \A c \in Chars : c # Newline /\ c # Tab
  BY ScreenAssumption
<1>4. To(p, Tab) = Align(p.col + TabStop) /\ To(p, Newline) = W
  BY <1>2 DEF To, Newline, Tab
<1> QED
  BY <1>1, <1>2, <1>3, <1>4 DEF To

(* WriteChar, not interrupted, keeps the screen a window on the page. *)
LEMMA CharMirrors ==
    ASSUME NEW s \in Screens, NEW p, Mirrors(s.x, s.y, s.fb, p),
           NEW c \in Chars \cup {Newline, Tab}
    PROVE  LET t == WriteChar(s, c)
           IN  t \in Screens /\ Mirrors(t.x, t.y, t.fb, Place(p, c))
<1> DEFINE m == Moved(s, c)
           w == Wrapped(m)
           t == Scrolled(w)
           q == Place(p, c)
           n == To(p, c)
<1>1. /\ s.x \in 0..(W - 1) /\ s.y \in 0..(H - 1) /\ s.fb \in Frame /\ Top(p) \in Nat
      /\ p \in Sheets /\ p.col < W /\ Filled(p, p.row) /\ s.x = p.col /\ s.y = p.row - Top(p)
  <2>1. s.fb \in Frame
    BY DEF Screens
  <2> QED
    BY <2>1, CharShows DEF Mirrors
<1>2. W \in Nat \ {0} /\ H \in Nat \ {0} /\ p.row \in Nat /\ p.col \in Nat
  BY <1>1, Screen DEF Sheets
<1>3. /\ q \in Sheets /\ q.col < W /\ Filled(q, p.row) /\ n \in Nat
      /\ n >= W => q.row = p.row + 1 /\ q.col = 0
      /\ n < W => q.row = p.row /\ q.col = n
  BY <1>1, PlaceIs
<1>4. m \in Screens /\ Shows(m.fb, q, Top(p))
  <2>1. m \in Screens
    BY MovedIs
  <2>2. CASE c \in Chars
    <3>1. m.fb = [s.fb EXCEPT ![s.y * W + s.x] = c]
      BY <2>2, MovedIs
    <3>2. Shows([s.fb EXCEPT ![s.y * W + s.x] = c], q, Top(p))
      BY <1>1, <2>2, CharShows
    <3> QED
      BY <2>1, <3>1, <3>2
  <2>3. CASE c \notin Chars
    <3>1. m.fb = s.fb
      BY <2>3, MovedIs
    <3>2. Shows(s.fb, q, Top(p))
      BY <1>1, <2>3, CharShows
    <3> QED
      BY <2>1, <3>1, <3>2
  <2> QED
    BY <2>2, <2>3
<1>5. \/ n < W /\ m.x = n /\ m.y = s.y
      \/ n = W /\ m.x = W /\ m.y = s.y
      \/ n = W /\ m.x = 0 /\ m.y = s.y + 1
  <2>1. CASE c = Newline
    BY <1>1, <2>1, MovedIs, ToIs
  <2>2. CASE c = Tab
    <3>1. n = Align(s.x + TabStop) /\ n =< W
      BY <1>1, <2>2, ToIs
    <3>2. m.y = (IF n > W THEN s.y + 1 ELSE s.y) /\ m.x = (IF n > W THEN 0 ELSE n)
      BY <2>2, <3>1, MovedIs
    <3> HIDE DEF n, m
    <3> QED
      BY <1>2, <1>3, <3>1, <3>2
  <2>3. CASE c \in Chars
    <3>1. n = s.x + 1 /\ n =< W
      BY <1>1, <2>3, ToIs
    <3>2. m.y = s.y /\ m.x = s.x + 1
      BY <2>3, MovedIs
    <3> HIDE DEF n, m
    <3> QED
      BY <1>2, <1>3, <3>1, <3>2
  <2> QED
    BY <2>1, <2>2, <2>3
<1> HIDE DEF m, n, q
<1>6. w \in Screens /\ w.fb = m.fb /\ Pending(w.x, w.y, w.fb, p, q)
  <2>1. /\ w \in Screens /\ w.fb = m.fb
        /\ m.x >= W => w.x = 0 /\ w.y = m.y + 1
        /\ m.x < W => w.x = m.x /\ w.y = m.y
    BY <1>4, WrappedIs
  <2>2. w.x = q.col /\ w.y = q.row - Top(p)
    BY <1>1, <1>2, <1>3, <1>5, <2>1
  <2> QED
    BY <1>1, <1>2, <1>3, <1>4, <2>1, <2>2 DEF Pending
<1> HIDE DEF w
<1>7. /\ t \in Screens /\ t.x = w.x
      /\ w.y >= H => t.y = H - 1 /\ t.fb = ScrolledUp(w.fb)
      /\ w.y < H => t.y = w.y /\ t.fb = w.fb
  BY <1>6, ScrolledIs
<1>8. w.fb \in Frame /\ w.y \in Nat
  BY <1>6 DEF Screens
<1>9. Mirrors(t.x, t.y, t.fb, q)
  <2>1. CASE w.y < H
    BY <1>6, <1>7, <1>8, <2>1, BottomMirrors
  <2>2. CASE w.y >= H
    BY <1>6, <1>7, <1>8, <2>2, ScrolledMirrors
  <2> QED
    BY <1>2, <1>8, <2>1, <2>2
<1>10. WriteChar(s, c) = t
  BY ScreenAssumption DEF WriteChar, m, w, Escape, Newline, Tab
<1> HIDE DEF t
<1> QED
  BY <1>7, <1>9, <1>10 DEF q

(* The pages on which a character can be placed. *)
Leaves == {p \in Sheets : p.col < W /\ Filled(p, p.row)}

(* A character makes a page of a page. *)
LEMMA PlaceLeaves ==
    ASSUME NEW p \in Leaves, NEW c \in Glyphs
    PROVE  Place(p, c) \in Leaves
<1>1. CASE c = Escape
  BY <1>1 DEF Place, Newline, Tab, Escape
<1>2. CASE c # Escape
  <2> DEFINE q == Place(p, c)
  <2>1. p \in Sheets /\ p.col < W /\ Filled(p, p.row) /\ c \in Chars \cup {Newline, Tab}
    BY <1>2 DEF Leaves, Glyphs
  <2>2. q \in Sheets /\ q.col < W /\ Filled(q, p.row) /\ To(p, c) \in Nat
        /\ (To(p, c) >= W => q.row = p.row + 1)
        /\ (To(p, c) < W => q.row = p.row)
    BY <2>1, PlaceIs
  <2> HIDE DEF q
  <2>3. p.row \in Nat /\ q.row \in Nat /\ W \in Nat
    BY <2>1, <2>2, Screen DEF Sheets
  <2>4. p.row =< q.row
    BY <2>2, <2>3
  <2>5. Filled(q, q.row)
    BY <2>2, <2>3, <2>4, FilledUp
  <2> QED
    BY <2>2, <2>5 DEF Leaves, q
<1> QED
  BY <1>1, <1>2

(* PlaceAll is a run over its text, a Place for each character. *)
LEMMA PlaceAllRun ==
    ASSUME NEW p \in Leaves, NEW text \in Seq(Glyphs)
    PROVE  \E f \in [0..Len(text) -> Leaves] :
              /\ f[0] = p
              /\ \A i \in 1..Len(text) : f[i] = Place(f[i - 1], text[i])
              /\ PlaceAll(p, text) = f[Len(text)]
<1> DEFINE N == Len(text)
           g == [e \in Leaves \X Glyphs |-> Place(e[1], e[2])]
           Is(h) == h = [i \in 0..N |-> IF i = 0 THEN p ELSE Place(h[i - 1], text[i])]
           h == CHOOSE h : Is(h)
<1>1. N \in Nat /\ text \in [1..N -> Glyphs]
  OBVIOUS
<1>2. IsMachine(g, Leaves, Glyphs) /\ IsText(text, N, Glyphs)
  BY <1>1, PlaceLeaves DEF IsMachine, IsText
<1>3. PICK f \in [0..N -> Leaves] :
         f[0] = p /\ \A i \in 1..N : f[i] = g[<<f[i - 1], text[i]>>]
  <2> HIDE DEF g, N
  <2>1. \E f : IsRun(f, g, Leaves, p, text, N)
    BY <1>1, <1>2, RunExists
  <2> QED
    BY <2>1 DEF IsRun
<1>4. \A i \in 1..N : f[i] = Place(f[i - 1], text[i])
  <2> SUFFICES ASSUME NEW i \in 1..N PROVE f[i] = Place(f[i - 1], text[i])
    OBVIOUS
  <2>1. i - 1 \in 0..N /\ f[i - 1] \in Leaves /\ text[i] \in Glyphs
    BY <1>1, <1>3
  <2> QED
    BY <1>3, <2>1
<1>5. Is(f)
  BY <1>1, <1>3, <1>4
<1>6. Is(h)
  <2> HIDE DEF Is
  <2> QED
    BY <1>5
<1>7. PlaceAll(p, text) = h[N]
  BY Zenon DEF PlaceAll
<1>8. h[N] = f[N]
  <2> HIDE DEF h, N
  <2>1. /\ h[0] = p
        /\ \A i \in 0..N : i # 0 => h[i] = Place(h[i - 1], text[i])
    BY <1>1, <1>6
  <2> DEFINE P == {n \in Nat : n =< N => h[n] = f[n]}
  <2>2. 0 \in P
    BY <1>3, <2>1
  <2>3. ASSUME NEW n \in Nat, n \in P PROVE n + 1 \in P
    <3> SUFFICES ASSUME n + 1 =< N PROVE h[n + 1] = f[n + 1]
      OBVIOUS
    <3>1. n + 1 \in 1..N /\ n + 1 \in 0..N /\ n + 1 # 0 /\ (n + 1) - 1 = n
      BY <1>1
    <3>2. h[n] = f[n]
      BY <1>1, <2>3, <3>1
    <3>3. h[n + 1] = Place(h[n], text[n + 1])
      BY <2>1, <3>1
    <3>4. f[n + 1] = Place(f[n], text[n + 1])
      BY <1>4, <3>1
    <3> QED
      BY <3>2, <3>3, <3>4
  <2>4. N \in P
    <3> HIDE DEF P
    <3> QED
      BY <1>1, <2>2, <2>3, NatInduct
  <2> QED
    BY <2>4
<1> QED
  BY <1>3, <1>4, <1>7, <1>8

(* A whole line keeps the screen a window on the page. *)
LEMMA LineMirrors ==
    ASSUME NEW s \in Screens, NEW p, Mirrors(s.x, s.y, s.fb, p), NEW text \in Seq(Glyphs)
    PROVE  LET t == WriteVGA(s, text)
           IN  Mirrors(t.x, t.y, t.fb, PlaceAll(p, text))
<1> DEFINE N == Len(text)
<1>0. p \in Leaves
  BY DEF Mirrors, Leaves
<1>1. PICK f \in [0..N -> Screens] :
              /\ f[0] = s
              /\ \A i \in 1..N : f[i] = WriteChar(f[i - 1], text[i])
              /\ WriteVGA(s, text) = f[N]
  BY WriteVGARun
<1>2. PICK g \in [0..N -> Leaves] :
              /\ g[0] = p
              /\ \A i \in 1..N : g[i] = Place(g[i - 1], text[i])
              /\ PlaceAll(p, text) = g[N]
  BY <1>0, PlaceAllRun
<1>3. N \in Nat /\ \A i \in 1..N : text[i] \in Glyphs
  OBVIOUS
<1> DEFINE Good(n) == Mirrors(f[n].x, f[n].y, f[n].fb, g[n])
           P == {n \in Nat : n =< N => Good(n)}
<1>4. 0 \in P
  BY <1>1, <1>2
<1>5. ASSUME NEW n \in Nat, n \in P PROVE n + 1 \in P
  <2> SUFFICES ASSUME n + 1 =< N PROVE Good(n + 1)
    OBVIOUS
  <2>1. n + 1 \in 1..N /\ (n + 1) - 1 = n /\ n =< N /\ n \in 0..N
    BY <1>3
  <2>2. Mirrors(f[n].x, f[n].y, f[n].fb, g[n]) /\ f[n] \in Screens
        /\ f[n + 1] = WriteChar(f[n], text[n + 1]) /\ g[n + 1] = Place(g[n], text[n + 1])
    BY <1>1, <1>2, <1>5, <2>1
  <2>3. CASE text[n + 1] = Escape
    <3>1. f[n + 1] = f[n] /\ g[n + 1] = g[n]
      BY <2>2, <2>3 DEF WriteChar, Place, Newline, Tab, Escape
    <3> QED
      BY <2>2, <3>1
  <2>4. CASE text[n + 1] # Escape
    <3>1. text[n + 1] \in Chars \cup {Newline, Tab}
      BY <1>3, <2>1, <2>4 DEF Glyphs
    <3> DEFINE t == WriteChar(f[n], text[n + 1])
    <3>2. Mirrors(t.x, t.y, t.fb, Place(g[n], text[n + 1]))
      BY <2>2, <3>1, CharMirrors
    <3> QED
      BY <2>2, <3>2
  <2> QED
    BY <2>3, <2>4
<1>6. N \in P
  <2> HIDE DEF P
  <2> QED
    BY <1>3, <1>4, <1>5, NatInduct
<1>7. Good(N)
  BY <1>3, <1>6
<1> QED
  BY <1>1, <1>2, <1>7

-----------------------------------------------------------------------------
(* The screen, instruction by instruction. *)

(* Scroll has moved the first n cells of a screen that Pending describes.  *)
Moving(f, g, n) ==
    f = [k \in Cells |-> IF k < n THEN ScrolledUp(g)[k] ELSE g[k]]

Scrolling(a, b, f, n, p, q) ==
    \E g \in Frame : Pending(a, b, g, p, q) /\ b >= H /\ Moving(f, g, n)

(* The character is on the screen, and the cursor still on its row. *)
Drawn(b, f, p, c) ==
    p \in Leaves /\ c \in Chars \cup {Newline, Tab}
    /\ b = p.row - Top(p) /\ Shows(f, Place(p, c), Top(p))

(* What the main thread has made of the page p and the character c when it *)
(* is at a place, the cursor in column a of row b and n loaded.            *)
Stage(at, a, b, f, n, p, c) ==
    /\ at \in Outer \cup {"row", "col", "cell"} => Mirrors(a, b, f, p)
    /\ at = "col" => n = b * W
    /\ at = "cell" => n = b * W + a
    /\ at \in {"loadX", "storeX"} => Drawn(b, f, p, c) /\ a = p.col
    /\ at \in {"loadTab", "storeTab"} => Drawn(b, f, p, c) /\ a = p.col + TabStop
    /\ at \in {"storeX", "storeTab"} => n = a
    /\ at = "tab" => Drawn(b, f, p, c) /\ a = To(p, c)
    /\ at = "wrap" => \/ Drawn(b, f, p, c) /\ a = To(p, c)
                      \/ Pending(a, b, f, p, Place(p, c))
    /\ at \in {"loadY", "storeY"} => Drawn(b, f, p, c) /\ a = 0 /\ To(p, c) = W
    /\ at = "storeY" => n = b
    /\ at = "bottom" => Pending(a, b, f, p, Place(p, c))
    /\ at = "scroll" => Scrolling(a, b, f, n, p, Place(p, c))

TailInv == clean => Stage(main.at, x, y, fb, main.reg, page, Current)

(* update_cursor on the way, and the cursor that is shown after it. *)
CrtcInv ==
    /\ crtc \in [index : {"low", "high"}, low : Nat, high : Nat]
    /\ clean =>
          /\ main.at \in {"selectLow", "writeLow", "selectHigh", "writeHigh"} =>
                main.reg = y * W + x
          /\ main.at = "writeLow" => crtc.index = "low"
          /\ main.at \in {"selectHigh", "writeHigh"} => crtc.low = main.reg % ByteSize
          /\ main.at = "writeHigh" => crtc.index = "high"
          /\ main.at = "idle" /\ written > 0 =>
                crtc.high * ByteSize + crtc.low = y * W + x

(* The invariant after a step, in terms of the variables after it. *)
LEMMA TailPrimed ==
    ASSUME clean' => Stage(main'.at, x', y', fb', main'.reg, page', Current')
    PROVE  TailInv'
BY Zenon DEF TailInv, Stage, Mirrors, Shows, Shown, Filled, Sheets, Top, Drawn, Leaves,
             Pending, Scrolling, Moving, ScrolledUp, Frame, Cells, Place, Put, To, Outer

(* The framebuffer's store, or none, draws the character. *)
LEMMA DrawnIs ==
    ASSUME NEW a, NEW b, NEW f \in Frame, NEW p, Mirrors(a, b, f, p),
           NEW c \in Chars \cup {Newline, Tab}
    PROVE  /\ a = p.col
           /\ c \in Chars => Drawn(b, [f EXCEPT ![b * W + a] = c], p, c)
           /\ c \notin Chars => Drawn(b, f, p, c)
<1>1. p \in Leaves /\ a = p.col /\ b = p.row - Top(p)
  BY DEF Mirrors, Leaves
<1>2. /\ c \in Chars => Shows([f EXCEPT ![b * W + a] = c], Place(p, c), Top(p))
      /\ c \notin Chars => Shows(f, Place(p, c), Top(p))
  BY CharShows
<1> QED
  BY <1>1, <1>2 DEF Drawn

(* How far the cursor moves, and what the wrap makes of it. *)
LEMMA DrawnPends ==
    ASSUME NEW b \in Nat, NEW f, NEW p, NEW c, Drawn(b, f, p, c)
    PROVE  /\ To(p, c) \in Nat /\ To(p, c) =< W
           /\ To(p, c) < W => Pending(To(p, c), b, f, p, Place(p, c))
           /\ To(p, c) = W => Pending(0, b + 1, f, p, Place(p, c))
<1> DEFINE q == Place(p, c)
           n == To(p, c)
<1>1. p \in Sheets /\ p.col < W /\ Filled(p, p.row) /\ c \in Chars \cup {Newline, Tab}
      /\ b = p.row - Top(p) /\ Shows(f, q, Top(p))
  BY DEF Drawn, Leaves
<1>2. p.row \in Nat /\ Top(p) \in Nat /\ W \in Nat
  BY <1>1, Screen DEF Sheets, Top
<1>3. /\ q \in Sheets /\ q.col < W /\ Filled(q, p.row) /\ n \in Nat
      /\ n >= W => q.row = p.row + 1 /\ q.col = 0
      /\ n < W => q.row = p.row /\ q.col = n
  BY <1>1, PlaceIs
<1>4. n =< W
  BY <1>1, <1>2, ToIs
<1> HIDE DEF q, n
<1>5. ASSUME n < W PROVE Pending(n, b, f, p, q)
  BY <1>1, <1>3, <1>5 DEF Pending
<1>6. ASSUME n = W PROVE Pending(0, b + 1, f, p, q)
  <2>1. n >= W /\ b + 1 = (p.row + 1) - Top(p)
    BY <1>1, <1>2, <1>6
  <2> QED
    BY <1>1, <1>3, <2>1 DEF Pending
<1> QED
  BY <1>3, <1>4, <1>5, <1>6 DEF q, n

(* Scroll moves a cell at a time: before the first, one more, and all. *)
LEMMA ScrollMoves ==
    ASSUME NEW f \in Frame, NEW g \in Frame
    PROVE  /\ Moving(f, f, 0)
           /\ \A n \in Nat : n < W * H /\ Moving(f, g, n) =>
                 Moving([f EXCEPT ![n] = IF n < W * (H - 1) THEN f[n + W] ELSE Blank], g, n + 1)
           /\ Moving(f, g, W * H) => f = ScrolledUp(g)
<1>1. W \in Nat \ {0} /\ W * H \in Nat /\ W * (H - 1) \in Nat /\ Cells \subseteq Nat
      /\ W * (H + 2) = W * H + 2 * W /\ W * H = W * (H - 1) + W
  BY Screen DEF Cells
<1>2. f = [k \in Cells |-> f[k]] /\ g = [k \in Cells |-> g[k]]
  BY DEF Frame
<1>3. Moving(f, f, 0)
  BY <1>1, <1>2 DEF Moving
<1>4. \A k \in Cells : ScrolledUp(g)[k] = IF k < W * (H - 1) THEN g[k + W]
                                          ELSE IF k < W * H THEN Blank ELSE g[k]
  BY DEF ScrolledUp
<1>5. ASSUME NEW n \in Nat, n < W * H, Moving(f, g, n)
      PROVE  Moving([f EXCEPT ![n] = IF n < W * (H - 1) THEN f[n + W] ELSE Blank], g, n + 1)
  <2> DEFINE e == IF n < W * (H - 1) THEN f[n + W] ELSE Blank
             h == [f EXCEPT ![n] = e]
  <2>1. \A k \in Cells : f[k] = IF k < n THEN ScrolledUp(g)[k] ELSE g[k]
    BY <1>5 DEF Moving
  <2>2. n \in Cells /\ (n < W * (H - 1) => n + W \in Cells)
    BY <1>1, <1>5 DEF Cells
  <2>3. n < W * (H - 1) => f[n + W] = g[n + W]
    <3>1. ~(n + W < n)
      BY <1>1
    <3> QED
      BY <2>1, <2>2, <3>1
  <2>4. e = ScrolledUp(g)[n]
    BY <1>4, <1>5, <2>2, <2>3
  <2> HIDE DEF e
  <2>5. ASSUME NEW k \in Cells PROVE h[k] = IF k < n + 1 THEN ScrolledUp(g)[k] ELSE g[k]
    <3>1. h[k] = IF k = n THEN e ELSE f[k]
      BY <1>2, <2>2
    <3>2. k \in Nat
      BY <1>1
    <3> HIDE DEF h
    <3>3. CASE k = n
      BY <2>4, <3>1, <3>2, <3>3
    <3>4. CASE k < n
      <4>1. k < n + 1 /\ k # n
        BY <3>2, <3>4
      <4> QED
        BY <2>1, <3>1, <3>4, <4>1
    <3>5. CASE k > n
      <4>1. ~(k < n + 1) /\ k # n /\ ~(k < n)
        BY <3>2, <3>5
      <4> QED
        BY <2>1, <3>1, <4>1
    <3> QED
      BY <3>2, <3>3, <3>4, <3>5
  <2>6. h = [k \in Cells |-> h[k]]
    BY <1>2
  <2> HIDE DEF h
  <2>7. Moving(h, g, n + 1)
    BY <2>5, <2>6, Zenon DEF Moving
  <2> QED
    BY <2>7 DEF h, e
<1>6. ASSUME Moving(f, g, W * H) PROVE f = ScrolledUp(g)
  <2>1. \A k \in Cells : f[k] = IF k < W * H THEN ScrolledUp(g)[k] ELSE g[k]
    BY <1>6 DEF Moving
  <2>2. ASSUME NEW k \in Cells PROVE f[k] = ScrolledUp(g)[k]
    <3>1. ~(k < W * H) => ~(k < W * (H - 1))
      BY <1>1
    <3> QED
      BY <1>4, <2>1, <3>1
  <2>3. ScrolledUp(g) = [k \in Cells |-> ScrolledUp(g)[k]]
    BY DEF ScrolledUp
  <2> QED
    BY <1>2, <2>2, <2>3
<1> QED
  BY <1>3, <1>5, <1>6

(* Outside WriteChar, and the loads in it: nothing is written. *)
LEMMA TailRests ==
    ASSUME MainInv, CursorInv, TailInv, clean,
           \/ EndText \/ SelectLow \/ WriteLow \/ SelectHigh \/ WriteHigh \/ SkipEscape
           \/ LoadRow \/ LoadColumn \/ LoadX \/ LoadTab \/ LoadY
    PROVE  TailInv'
<1>0. main \in Threads /\ x \in Nat /\ y \in Nat /\ W \in Nat /\ main.reg \in Nat
      /\ y * W \in Nat /\ y * W + x \in Nat /\ main.reg + x \in Nat
  <2>1. main \in Threads /\ x \in Nat /\ y \in Nat /\ W \in Nat /\ main.reg \in Nat
    BY NowIs, Screen DEF MainInv, CursorInv, Threads
  <2> QED
    BY <2>1
<1>1. Stage(main.at, x, y, fb, main.reg, page, Current)
  BY DEF TailInv
<1>2. UNCHANGED <<x, y, fb, page>>
  BY DEF EndText, SelectLow, WriteLow, SelectHigh, WriteHigh, SkipEscape,
         LoadRow, LoadColumn, LoadX, LoadTab, LoadY, Computing, ghosts
<1> SUFFICES Stage(main'.at, x, y, fb, main'.reg, page, Current')
  <2>1. Stage(main'.at, x', y', fb', main'.reg, page', Current')
    BY <1>2
  <2> QED
    BY <2>1, TailPrimed
<1>3. CASE EndText \/ SelectLow \/ WriteLow \/ SelectHigh \/ WriteHigh \/ SkipEscape
  <2>1. main'.at \in Outer
    <3>1. CASE EndText
      BY <1>0, <3>1, LoadIs DEF EndText, Outer
    <3>2. CASE SelectLow \/ WriteLow \/ SelectHigh
      BY <1>0, <3>2, GotoIs DEF SelectLow, WriteLow, SelectHigh, Outer
    <3>3. CASE WriteHigh
      BY <3>3 DEF WriteHigh, Idle, Outer
    <3>4. CASE SkipEscape
      BY <1>0, <3>4 DEF SkipEscape, Threads, Outer
    <3> QED
      BY <1>3, <3>1, <3>2, <3>3, <3>4
  <2>2. main.at \in Outer
    BY <1>3 DEF EndText, SelectLow, WriteLow, SelectHigh, WriteHigh, SkipEscape, Outer
  <2>3. Mirrors(x, y, fb, page)
    BY <1>1, <2>2 DEF Stage
  <2> QED
    BY <2>1, <2>3 DEF Stage, Outer
<1>4. CASE LoadRow
  <2>1. main.at = "row" /\ main'.at = "col" /\ main'.reg = y * W
    BY <1>0, <1>4, LoadIs DEF LoadRow, Inner
  <2> QED
    BY <1>1, <2>1 DEF Stage, Outer
<1>5. CASE LoadColumn
  <2>1. main.at = "col" /\ main'.at = "cell" /\ main'.reg = main.reg + x
    BY <1>0, <1>5, LoadIs DEF LoadColumn, Inner
  <2> QED
    BY <1>1, <2>1 DEF Stage, Outer
<1>6. CASE LoadX
  <2>1. main.at = "loadX" /\ main'.at = "storeX" /\ main'.reg = x /\ Current' = Current
    BY <1>0, <1>6, LoadIs DEF LoadX, Inner
  <2> QED
    BY <1>1, <2>1 DEF Stage, Outer
<1>7. CASE LoadTab
  <2>1. main.at = "loadTab" /\ main'.at = "storeTab" /\ main'.reg = x /\ Current' = Current
    BY <1>0, <1>7, LoadIs DEF LoadTab, Inner
  <2> QED
    BY <1>1, <2>1 DEF Stage, Outer
<1>8. CASE LoadY
  <2>1. main.at = "loadY" /\ main'.at = "storeY" /\ main'.reg = y /\ Current' = Current
    BY <1>0, <1>8, LoadIs DEF LoadY, Inner
  <2> QED
    BY <1>1, <2>1 DEF Stage, Outer
<1> QED
  BY <1>3, <1>4, <1>5, <1>6, <1>7, <1>8

(* The switch of WriteChar, and the cursor moved along the row. *)
LEMMA TailMoves ==
    ASSUME MainInv, CursorInv, TailInv, clean,
           \/ Char \/ StoreCell \/ StoreX \/ StoreTab \/ TabWraps
    PROVE  TailInv'
<1>0. main \in Threads /\ x \in Nat /\ y \in Nat /\ fb \in Frame /\ W \in Nat
      /\ TabStop \in Nat /\ main.reg \in Nat
  BY NowIs, Screen DEF MainInv, CursorInv, Threads
<1>1. Stage(main.at, x, y, fb, main.reg, page, Current)
  BY DEF TailInv
<1>2. UNCHANGED <<y, page>>
  BY DEF Char, StoreCell, StoreX, StoreTab, TabWraps, Computing
<1> SUFFICES Stage(main'.at, x', y, fb', main'.reg, page, Current')
  <2>1. Stage(main'.at, x', y', fb', main'.reg, page', Current')
    BY <1>2
  <2> QED
    BY <2>1, TailPrimed
<1>3. ASSUME NEW c, Drawn(y, fb, page, c) PROVE page \in Sheets /\ page.col < W /\ page.col \in Nat
  BY <1>3 DEF Drawn, Leaves, Sheets
<1>4. CASE Char
  <2>1. main.at = "char" /\ UNCHANGED fb /\ main.i =< Len(main.text) /\ Current # Escape
    BY <1>4 DEF Char
  <2>2. Current \in Chars \cup {Newline, Tab}
    BY <1>0, <2>1 DEF Threads, Current, Glyphs
  <2>3. Mirrors(x, y, fb, page)
    BY <1>1, <2>1 DEF Stage, Outer
  <2>4. page \in Sheets /\ page.col < W
    BY <2>3 DEF Mirrors
  <2>5. x = page.col /\ (Current \notin Chars => Drawn(y, fb, page, Current))
    BY <1>0, <2>2, <2>3, DrawnIs
  <2>6. CASE Current = Newline
    <3>1. x' = 0 /\ IncrementY("wrap") /\ Current \notin Chars
      BY <1>4, <2>6, ScreenAssumption DEF Char, Newline, Tab
    <3>2. main'.at = "loadY" /\ Current' = Current
      BY <1>0, <3>1, IncrementIs
    <3>3. To(page, Current) = W
      BY <2>4, <2>6, ToIs
    <3> QED
      BY <2>1, <2>5, <3>1, <3>2, <3>3 DEF Stage, Outer
  <2>7. CASE Current = Tab
    <3>1. Goto("loadX") /\ UNCHANGED x /\ Current \notin Chars
      BY <1>4, <2>7, ScreenAssumption DEF Char, Newline, Tab
    <3>2. main'.at = "loadX" /\ Current' = Current
      BY <1>0, <3>1, GotoIs DEF Inner
    <3> QED
      BY <2>1, <2>5, <3>1, <3>2 DEF Stage, Outer
  <2>8. CASE Current \in Chars
    <3>1. Goto("row") /\ UNCHANGED x
      BY <1>4, <2>8, ScreenAssumption DEF Char
    <3>2. main'.at = "row"
      BY <1>0, <3>1, GotoIs DEF Inner
    <3> QED
      BY <2>1, <2>3, <3>1, <3>2 DEF Stage, Outer
  <2> QED
    BY <2>2, <2>6, <2>7, <2>8
<1>5. CASE StoreCell
  <2>1. main.at = "cell" /\ fb' = [fb EXCEPT ![main.reg] = Current] /\ Goto("loadX")
        /\ UNCHANGED x /\ Current \in Chars
    BY <1>5 DEF StoreCell, MainInv
  <2>2. main'.at = "loadX" /\ Current' = Current
    BY <1>0, <2>1, GotoIs DEF Inner
  <2>3. Mirrors(x, y, fb, page) /\ main.reg = y * W + x
    BY <1>1, <2>1 DEF Stage
  <2>4. x = page.col /\ Drawn(y, fb', page, Current)
    BY <1>0, <2>1, <2>3, DrawnIs
  <2> QED
    BY <2>1, <2>2, <2>4 DEF Stage, Outer
<1>6. CASE StoreX
  <2>1. main.at = "storeX" /\ UNCHANGED fb /\ Current \in Chars \cup {Tab}
    BY <1>6 DEF StoreX, MainInv
  <2>2. Drawn(y, fb, page, Current) /\ main.reg = page.col
    BY <1>1, <2>1 DEF Stage
  <2>3. CASE Current = Tab
    <3>1. x' = main.reg + TabStop /\ Goto("loadTab")
      BY <1>6, <2>3 DEF StoreX
    <3>2. main'.at = "loadTab" /\ Current' = Current
      BY <1>0, <3>1, GotoIs DEF Inner
    <3> QED
      BY <2>1, <2>2, <3>1, <3>2 DEF Stage, Outer
  <2>4. CASE Current # Tab
    <3>1. x' = main.reg + 1 /\ Goto("wrap")
      BY <1>6, <2>4 DEF StoreX
    <3>2. main'.at = "wrap" /\ Current' = Current
      BY <1>0, <3>1, GotoIs DEF Inner
    <3>3. To(page, Current) = page.col + 1
      BY <1>3, <2>1, <2>2, <2>4, ToIs
    <3> QED
      BY <2>1, <2>2, <3>1, <3>2, <3>3 DEF Stage, Outer
  <2> QED
    BY <2>3, <2>4
<1>7. CASE StoreTab
  <2>1. main.at = "storeTab" /\ x' = Align(main.reg) /\ Goto("tab") /\ UNCHANGED fb
        /\ Current = Tab
    BY <1>7 DEF StoreTab, MainInv
  <2>2. main'.at = "tab" /\ Current' = Current
    BY <1>0, <2>1, GotoIs DEF Inner
  <2>3. Drawn(y, fb, page, Current) /\ main.reg = page.col + TabStop
    BY <1>1, <2>1 DEF Stage
  <2>4. x' = To(page, Current)
    BY <1>3, <2>1, <2>3, ToIs
  <2> QED
    BY <2>1, <2>2, <2>3, <2>4 DEF Stage, Outer
<1>8. CASE TabWraps
  <2>1. main.at = "tab" /\ UNCHANGED fb /\ x =< W
    BY <1>8 DEF TabWraps, CursorInv
  <2>2. UNCHANGED x /\ Goto("wrap")
    BY <1>0, <1>8, <2>1 DEF TabWraps
  <2>3. main'.at = "wrap" /\ Current' = Current
    BY <1>0, <2>2, GotoIs DEF Inner
  <2>4. Drawn(y, fb, page, Current) /\ x = To(page, Current)
    BY <1>1, <2>1 DEF Stage
  <2> QED
    BY <2>1, <2>2, <2>3, <2>4 DEF Stage, Outer
<1> QED
  BY <1>4, <1>5, <1>6, <1>7, <1>8

(* The wrap, the next row and Scroll. *)
LEMMA TailWraps ==
    ASSUME MainInv, CursorInv, TailInv, clean,
           \/ Wrap \/ StoreY \/ Bottom \/ Scroll \/ ScrollEnds
    PROVE  TailInv'
<1>0. main \in Threads /\ x \in Nat /\ y \in Nat /\ fb \in Frame /\ W \in Nat \ {0}
      /\ H \in Nat /\ main.reg \in Nat
  BY NowIs, Screen DEF MainInv, CursorInv, Threads
<1>1. Stage(main.at, x, y, fb, main.reg, page, Current)
  BY DEF TailInv
<1> DEFINE q == Place(page, Current)
<1> SUFFICES Stage(main'.at, x', y', fb', main'.reg, page', Current')
  BY TailPrimed
<1>2. CASE Wrap
  <2>1. main.at = "wrap" /\ UNCHANGED <<y, fb, page>> /\ x =< W
    BY <1>2 DEF Wrap, Computing, CursorInv
  <2>2. \/ Drawn(y, fb, page, Current) /\ x = To(page, Current)
        \/ Pending(x, y, fb, page, q)
    BY <1>1, <2>1 DEF Stage
  <2>3. CASE x >= W
    <3>1. x' = 0 /\ IncrementY("bottom")
      BY <1>2, <2>3 DEF Wrap
    <3>2. main'.at = "loadY" /\ Current' = Current
      BY <1>0, <3>1, IncrementIs
    <3>3. ~Pending(x, y, fb, page, q)
      BY <1>0, <2>3 DEF Pending
    <3>4. To(page, Current) = W
      BY <1>0, <2>1, <2>2, <2>3, <3>3
    <3> QED
      BY <2>1, <2>2, <3>1, <3>2, <3>3, <3>4 DEF Stage, Outer
  <2>4. CASE ~(x >= W)
    <3>1. UNCHANGED x /\ Goto("bottom")
      BY <1>2, <2>4 DEF Wrap
    <3>2. main'.at = "bottom" /\ Current' = Current
      BY <1>0, <3>1, GotoIs DEF Inner
    <3>3. Pending(x, y, fb, page, q)
      BY <1>0, <2>2, <2>4, DrawnPends
    <3> QED
      BY <2>1, <3>1, <3>2, <3>3 DEF Stage, Outer
  <2> QED
    BY <2>3, <2>4
<1>3. CASE StoreY
  <2>1. main.at = "storeY" /\ y' = main.reg + 1 /\ Goto(main.then) /\ UNCHANGED <<x, fb, page>>
    BY <1>3 DEF StoreY, Computing
  <2>2. main.then \in {"wrap", "bottom"}
    BY <1>0, <2>1 DEF MainInv, Threads
  <2>3. main'.at = main.then /\ Current' = Current
    BY <1>0, <2>1, <2>2, GotoIs DEF Inner
  <2>4. Drawn(y, fb, page, Current) /\ x = 0 /\ To(page, Current) = W /\ main.reg = y
    BY <1>1, <2>1 DEF Stage
  <2>5. Pending(0, y + 1, fb, page, q)
    BY <1>0, <2>4, DrawnPends
  <2> QED
    BY <2>1, <2>2, <2>3, <2>4, <2>5 DEF Stage, Outer
<1>4. CASE Bottom
  <2>1. main.at = "bottom" /\ UNCHANGED <<x, y, fb>>
    BY <1>4 DEF Bottom
  <2>2. Pending(x, y, fb, page, q)
    BY <1>1, <2>1 DEF Stage
  <2>3. CASE y >= H
    <3>1. Load(0, "scroll") /\ UNCHANGED page
      BY <1>4, <2>3 DEF Bottom
    <3>2. main'.at = "scroll" /\ main'.reg = 0 /\ Current' = Current
      BY <1>0, <3>1, LoadIs DEF Inner
    <3>3. Scrolling(x, y, fb, 0, page, q)
      <4>1. Moving(fb, fb, 0)
        BY <1>0, ScrollMoves
      <4> QED
        BY <1>0, <2>2, <2>3, <4>1 DEF Scrolling
    <3> QED
      BY <2>1, <3>1, <3>2, <3>3 DEF Stage, Outer
  <2>4. CASE ~(y >= H)
    <3>1. NextChar
      BY <1>4, <2>4 DEF Bottom
    <3>2. main'.at = "char" /\ page' = q
      BY <1>0, <3>1, NextCharIs
    <3>3. y < H
      BY <1>0, <2>4
    <3>4. Mirrors(x, y, fb, q)
      BY <1>0, <2>2, <3>3, BottomMirrors
    <3> QED
      BY <2>1, <3>2, <3>4 DEF Stage, Outer
  <2> QED
    BY <2>3, <2>4
<1>5. CASE Scroll
  <2> DEFINE e == [fb EXCEPT ![main.reg] =
                      IF main.reg < W * (H - 1) THEN fb[main.reg + W] ELSE Blank]
  <2>1. main.at = "scroll" /\ main.reg < W * H /\ Load(main.reg + 1, "scroll")
        /\ UNCHANGED <<x, y, page>> /\ fb' = e /\ main.reg + 1 \in Nat
    BY <1>0, <1>5 DEF Scroll, Computing
  <2>2. main'.at = "scroll" /\ main'.reg = main.reg + 1 /\ Current' = Current
    BY <1>0, <2>1, LoadIs DEF Inner
  <2>3. PICK g \in Frame : Pending(x, y, g, page, q) /\ y >= H /\ Moving(fb, g, main.reg)
    BY <1>1, <2>1 DEF Stage, Scrolling
  <2>4. Moving(e, g, main.reg + 1)
    BY <1>0, <2>1, <2>3, ScrollMoves
  <2> HIDE DEF e
  <2>5. Scrolling(x, y, e, main.reg + 1, page, q)
    BY <2>3, <2>4 DEF Scrolling
  <2> QED
    BY <2>1, <2>2, <2>5 DEF Stage, Outer
<1>6. CASE ScrollEnds
  <2>1. main.at = "scroll" /\ main.reg = W * H /\ y' = H - 1 /\ NextChar /\ UNCHANGED <<x, fb>>
    BY <1>6 DEF ScrollEnds
  <2>2. main'.at = "char" /\ page' = q
    BY <1>0, <2>1, NextCharIs
  <2>3. PICK g \in Frame : Pending(x, y, g, page, q) /\ y >= H /\ Moving(fb, g, W * H)
    BY <1>1, <2>1 DEF Stage, Scrolling
  <2>4. fb = ScrolledUp(g)
    BY <1>0, <2>3, ScrollMoves
  <2>5. Mirrors(x, H - 1, fb, q)
    BY <2>3, <2>4, ScrolledMirrors
  <2> QED
    BY <2>1, <2>2, <2>5 DEF Stage, Outer
<1> QED
  BY <1>2, <1>3, <1>4, <1>5, <1>6

(* A line of a handler that does not come inside a WriteChar. *)
LEMMA TailPrints ==
    ASSUME MainInv, CursorInv, TailInv, NEW line \in Seq(Glyphs), PrintLine(line),
           UNCHANGED main
    PROVE  TailInv'
<1> SUFFICES ASSUME clean'
             PROVE  Stage(main'.at, x', y', fb', main'.reg, page', Current')
  BY TailPrimed
<1> DEFINE t == WriteVGA(Now, line)
<1>1. clean /\ main.at \in {"idle", "char"}
  BY DEF PrintLine, Inside
<1>2. Mirrors(x, y, fb, page)
  BY <1>1 DEF TailInv, Stage, Outer
<1>3. Now \in Screens /\ Now.x = x /\ Now.y = y /\ Now.fb = fb
  BY DEF CursorInv, Near, Now
<1>4. Mirrors(t.x, t.y, t.fb, PlaceAll(page, line))
  BY <1>2, <1>3, LineMirrors
<1>5. x' = t.x /\ y' = t.y /\ fb' = t.fb /\ page' = PlaceAll(page, line)
  BY DEF PrintLine, Now
<1> HIDE DEF t
<1>6. Mirrors(x', y', fb', page')
  BY <1>4, <1>5
<1> QED
  BY <1>1, <1>6 DEF Stage, Outer

(* The page is empty at first, and so is the screen. *)
LEMMA TailInit == ASSUME Init PROVE TailInv /\ CrtcInv
<1>1. x = 0 /\ y = 0 /\ fb = [k \in Cells |-> Blank] /\ page = EmptyPage /\ main = Idle
      /\ written = 0 /\ crtc \in [index : {"low"}, low : {0, ByteSize - 1}, high : {ByteSize - 1}]
  BY DEF Init
<1>2. H \in Nat \ {0} /\ W \in Nat \ {0} /\ ByteSize \in Nat \ {0}
  BY Screen, ScreenAssumption
<1>3. page.row = 0 /\ page.col = 0 /\ DOMAIN page.cells = {}
  BY <1>1 DEF EmptyPage
<1>4. page \in Sheets
  <2>1. [rc \in {} |-> Blank] \in [{} -> Chars] /\ {} \in SUBSET (Nat \X Nat)
    OBVIOUS
  <2>2. [rc \in {} |-> Blank] \in UNION {[d -> Chars] : d \in SUBSET (Nat \X Nat)}
    BY <2>1
  <2> QED
    BY <1>1, <2>2 DEF Sheets, EmptyPage
<1>5. Top(page) = 0 /\ Filled(page, page.row)
  BY <1>2, <1>3 DEF Top, Filled
<1>6. Shows(fb, page, Top(page))
  <2>1. ASSUME NEW r \in 0..(H - 1), NEW k \in 0..(W - 1) PROVE fb[r * W + k] = Blank
    <3>1. r * W + k \in Cells
      BY CellOf
    <3> QED
      BY <1>1, <3>1
  <2>2. \A r, k : Shown(page, r, k) = Blank
    BY <1>3 DEF Shown
  <2> QED
    BY <2>1, <2>2 DEF Shows
<1>7. Mirrors(x, y, fb, page)
  BY <1>1, <1>2, <1>3, <1>4, <1>5, <1>6 DEF Mirrors
<1>8. TailInv
  BY <1>1, <1>7 DEF TailInv, Stage, Outer, Idle
<1>9. CrtcInv
  BY <1>1, <1>2 DEF CrtcInv, Idle
<1> QED
  BY <1>8, <1>9

(* A position in two bytes. *)
LEMMA Bytes ==
    ASSUME NEW n \in Nat
    PROVE  /\ n % ByteSize \in Nat /\ n \div ByteSize \in Nat
           /\ (n \div ByteSize) * ByteSize + (n % ByteSize) = n
<1>1. ByteSize \in Nat \ {0}
  BY ScreenAssumption
<1>2. n \div ByteSize \in Nat /\ n % ByteSize \in 0..(ByteSize - 1)
      /\ n = ByteSize * (n \div ByteSize) + (n % ByteSize)
  BY <1>1, DivisionSplits
<1>3. \A k \in Nat : k * ByteSize = ByteSize * k
  BY <1>1
<1> QED
  BY <1>1, <1>2, <1>3

(* update_cursor by the main thread and by handlers. *)
LEMMA CrtcStep ==
    ASSUME MainInv, CursorInv, CrtcInv, [Next]_vars
    PROVE  CrtcInv'
<1>0. main \in Threads /\ x \in Nat /\ y \in Nat /\ main.reg \in Nat /\ y * W + x \in Nat
      /\ crtc \in [index : {"low", "high"}, low : Nat, high : Nat]
  <2>1. main \in Threads /\ x \in Nat /\ y \in Nat /\ main.reg \in Nat /\ W \in Nat
    BY NowIs, Screen DEF MainInv, CursorInv, Threads
  <2>2. y * W + x \in Nat
    BY <2>1
  <2> QED
    BY <2>1, <2>2 DEF CrtcInv
<1>1. /\ main.reg % ByteSize \in Nat /\ main.reg \div ByteSize \in Nat
      /\ (main.reg \div ByteSize) * ByteSize + (main.reg % ByteSize) = main.reg
  BY <1>0, Bytes
<1>2. ASSUME main'.at \in Inner \cup {"char"}, UNCHANGED crtc PROVE CrtcInv'
  BY <1>0, <1>2 DEF CrtcInv, Inner
<1>3. ASSUME UNCHANGED <<crtc, main, x, y, clean, written>> PROVE CrtcInv'
  BY <1>3 DEF CrtcInv
<1>4. CASE EndText
  <2>1. main'.at = "selectLow" /\ main'.reg = y * W + x
    BY <1>0, <1>4, LoadIs DEF EndText, Outer
  <2>2. UNCHANGED <<crtc, x, y>>
    BY <1>4 DEF EndText, Computing
  <2> QED
    BY <1>0, <2>1, <2>2 DEF CrtcInv
<1>5. CASE SelectLow
  <2>1. main.at = "selectLow" /\ main'.at = "writeLow" /\ main'.reg = main.reg
    BY <1>0, <1>5, GotoIs DEF SelectLow, Outer
  <2>2. UNCHANGED <<x, y, clean>> /\ crtc' = [crtc EXCEPT !.index = "low"]
    BY <1>5 DEF SelectLow, ghosts
  <2> QED
    BY <1>0, <2>1, <2>2 DEF CrtcInv
<1>6. CASE WriteLow
  <2>1. main.at = "writeLow" /\ main'.at = "selectHigh" /\ main'.reg = main.reg
    BY <1>0, <1>6, GotoIs DEF WriteLow, Outer
  <2>2. UNCHANGED <<x, y, clean>> /\ crtc' = [crtc EXCEPT ![crtc.index] = main.reg % ByteSize]
    BY <1>6 DEF WriteLow, ghosts
  <2>3. crtc' \in [index : {"low", "high"}, low : Nat, high : Nat]
        /\ (crtc.index = "low" => crtc'.low = main.reg % ByteSize)
    BY <1>0, <1>1, <2>2
  <2> QED
    BY <2>1, <2>2, <2>3 DEF CrtcInv
<1>7. CASE SelectHigh
  <2>1. main.at = "selectHigh" /\ main'.at = "writeHigh" /\ main'.reg = main.reg
    BY <1>0, <1>7, GotoIs DEF SelectHigh, Outer
  <2>2. UNCHANGED <<x, y, clean>> /\ crtc' = [crtc EXCEPT !.index = "high"]
    BY <1>7 DEF SelectHigh, ghosts
  <2> QED
    BY <1>0, <2>1, <2>2 DEF CrtcInv
<1>8. CASE WriteHigh
  <2>1. main.at = "writeHigh" /\ main'.at = "idle"
    BY <1>8 DEF WriteHigh, Idle
  <2>2. UNCHANGED <<x, y, clean>> /\ crtc' = [crtc EXCEPT ![crtc.index] = main.reg \div ByteSize]
    BY <1>8 DEF WriteHigh, ghosts
  <2>3. crtc' \in [index : {"low", "high"}, low : Nat, high : Nat]
        /\ (crtc.index = "high" => crtc'.high = main.reg \div ByteSize /\ crtc'.low = crtc.low)
    BY <1>0, <1>1, <2>2
  <2> QED
    BY <1>1, <2>1, <2>2, <2>3 DEF CrtcInv
<1>9. ASSUME NEW line \in Seq(Glyphs), PrintLine(line), UNCHANGED main PROVE CrtcInv'
  <2> DEFINE pos == y' * W + x'
  <2>1. x' \in Nat /\ y' \in Nat
    <3>1. CursorInv'
      BY <1>9, PrintKeeps
    <3> QED
      BY <3>1 DEF CursorInv, Near, Now, Screens
  <2>2. pos \in Nat
    <3>1. \A a, b \in Nat : b * W + a \in Nat
      BY Screen
    <3> QED
      BY <2>1, <3>1
  <2>3. crtc' = UpdateCursor(pos) /\ (clean' => main.at \in {"idle", "char"})
    BY <1>9 DEF PrintLine, Inside
  <2>4. crtc' = [index |-> "high", low |-> pos % ByteSize, high |-> pos \div ByteSize]
    BY <2>3 DEF UpdateCursor
  <2>5. pos % ByteSize \in Nat /\ pos \div ByteSize \in Nat
        /\ (pos \div ByteSize) * ByteSize + (pos % ByteSize) = pos
    BY <2>2, Bytes
  <2> QED
    BY <1>9, <2>3, <2>4, <2>5 DEF CrtcInv
<1>10. CASE Writing
  <2>1. ASSUME Char \/ LoadRow \/ LoadColumn \/ StoreCell \/ LoadX \/ StoreX
               \/ LoadTab \/ StoreTab \/ TabWraps \/ Wrap \/ LoadY \/ StoreY
               \/ Bottom \/ Scroll \/ ScrollEnds \/ SkipEscape
        PROVE  main'.at \in Inner \cup {"char"} /\ UNCHANGED crtc
    <3>1. UNCHANGED crtc
      BY <2>1 DEF Char, LoadRow, LoadColumn, StoreCell, LoadX, StoreX, LoadTab, StoreTab,
                  TabWraps, Wrap, LoadY, StoreY, Bottom, Scroll, ScrollEnds, SkipEscape, Computing
    <3>2. main = [main EXCEPT !.at = main.at] /\ main.then \in {"none", "wrap", "bottom"}
      BY <1>0 DEF Threads
    <3>3. main'.at \in Inner \cup {"char"}
      <4>1. CASE Char
        BY <1>0, <4>1 DEF Char, Goto, IncrementY, Threads, Inner
      <4>2. CASE LoadRow \/ LoadColumn \/ LoadX \/ LoadTab \/ LoadY \/ Scroll
        BY <1>0, <4>2 DEF LoadRow, LoadColumn, LoadX, LoadTab, LoadY, Scroll, Load, Threads, Inner
      <4>3. CASE StoreCell \/ StoreX \/ StoreTab \/ TabWraps \/ Wrap
        BY <1>0, <4>3 DEF StoreCell, StoreX, StoreTab, TabWraps, Wrap, Goto, IncrementY, Threads,
                          Inner
      <4>4. CASE StoreY
        <5>1. main.then \in {"wrap", "bottom"}
          BY <1>0, <4>4 DEF StoreY, MainInv, Threads
        <5> QED
          BY <1>0, <4>4, <5>1 DEF StoreY, Goto, Threads, Inner
      <4>5. CASE Bottom \/ ScrollEnds
        BY <1>0, <4>5 DEF Bottom, ScrollEnds, Load, NextChar, Threads, Inner
      <4>6. CASE SkipEscape
        BY <1>0, <4>6 DEF SkipEscape, Threads, Inner
      <4> QED
        BY <2>1, <4>1, <4>2, <4>3, <4>4, <4>5, <4>6
    <3> QED
      BY <3>1, <3>3
  <2> QED
    BY <1>2, <1>4, <1>5, <1>6, <1>7, <1>8, <1>10, <2>1 DEF Writing
<1>11. ASSUME NEW text \in Texts, StartText(text) PROVE CrtcInv'
  <2>1. main'.at = "char" /\ UNCHANGED crtc
    BY <1>11 DEF StartText, Idle
  <2> QED
    BY <1>2, <2>1
<1>12. CASE Tick
  <2>1. UNCHANGED <<main, written>>
        /\ (PrintLine(TickLine) \/ UNCHANGED <<x, y, crtc, clean>>)
    BY <1>12 DEF Tick, ghosts
  <2> QED
    BY <1>3, <1>9, <2>1, TextGlyphs
<1>13. CASE Spurious
  BY <1>9, <1>13, TextGlyphs DEF Spurious
<1>14. CASE Halted \/ UNCHANGED vars
  BY <1>3, <1>14 DEF Halted, vars, ghosts
<1> QED
  BY <1>10, <1>11, <1>12, <1>13, <1>14 DEF Next

(* The screen at every step of the kernel. *)
LEMMA TailStep ==
    ASSUME MainInv, CursorInv, TailInv, [Next]_vars
    PROVE  TailInv'
<1>1. ASSUME NEW text \in Texts, StartText(text) PROVE TailInv'
  <2>1. main.at = "idle" /\ main'.at = "char" /\ UNCHANGED <<x, y, fb, page, clean>>
    BY <1>1 DEF StartText, ghosts, Idle
  <2>2. clean => Mirrors(x', y', fb', page')
    BY <2>1 DEF TailInv, Stage, Outer
  <2>3. clean' => Stage(main'.at, x', y', fb', main'.reg, page', Current')
    BY <2>1, <2>2 DEF Stage, Outer
  <2> QED
    BY <2>3, TailPrimed
<1>2. CASE Writing
  <2>1. clean' = clean
    BY <1>2 DEF Writing, Char, LoadRow, LoadColumn, StoreCell, LoadX, StoreX, LoadTab, StoreTab,
                TabWraps, Wrap, LoadY, StoreY, Bottom, Scroll, ScrollEnds, SkipEscape, Computing,
                EndText, SelectLow, WriteLow, SelectHigh, WriteHigh, ghosts
  <2>2. CASE clean
    BY <1>2, <2>2, TailRests, TailMoves, TailWraps DEF Writing
  <2>3. CASE ~clean
    BY <2>1, <2>3 DEF TailInv
  <2> QED
    BY <2>2, <2>3
<1>3. ASSUME UNCHANGED <<main, x, y, fb, page, clean>> PROVE TailInv'
  <2>1. Current' = Current
    BY <1>3 DEF Current
  <2>2. clean' => Stage(main'.at, x', y', fb', main'.reg, page', Current')
    BY <1>3, <2>1 DEF TailInv
  <2> QED
    BY <2>2, TailPrimed
<1>4. CASE Tick
  <2>1. UNCHANGED main /\ (PrintLine(TickLine) \/ UNCHANGED <<x, y, fb, page, clean>>)
    BY <1>4 DEF Tick, ghosts
  <2> QED
    BY <1>3, <2>1, TailPrints, TextGlyphs
<1>5. CASE Spurious
  BY <1>5, TailPrints, TextGlyphs DEF Spurious
<1>6. CASE Halted \/ UNCHANGED vars
  BY <1>3, <1>6 DEF Halted, vars, ghosts
<1> QED
  BY <1>1, <1>2, <1>4, <1>5, <1>6 DEF Next

(* Whatever is printed, and with interrupts that print between characters, *)
(* the screen is a window on the last rows of the page and the cursor that *)
(* is shown is where the next character will go.                           *)
THEOREM ScreenIsTail == Spec => []ScreenShowsTail
<1>1. MainInv /\ TailInv /\ CrtcInv => ScreenShowsTail
  <2> SUFFICES ASSUME MainInv, TailInv, CrtcInv, clean, ~Inside PROVE ScreenShowsTail
    BY DEF ScreenShowsTail
  <2>1. main.at \in {"idle", "char"}
    BY DEF Inside
  <2>2. Mirrors(x, y, fb, page)
    BY <2>1 DEF TailInv, Stage, Outer
  <2>3. main = Idle /\ written > 0 => crtc.high * ByteSize + crtc.low = y * W + x
    BY DEF CrtcInv, Idle
  <2> QED
    BY <2>2, <2>3 DEF ScreenShowsTail, Mirrors, Shows, Top
<1> QED
  BY <1>1, ConsoleInit, ConsoleStep, TailInit, TailStep, CrtcStep, PTL DEF Spec
=============================================================================
