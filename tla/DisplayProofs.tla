--------------------------- MODULE DisplayProofs ---------------------------
(***************************************************************************)
(* Proofs about what is shown: clipping (module Render), the text screen   *)
(* (module Terminal) and the windows (module WindowServer), each for every *)
(* value of its constants.                                                 *)
(***************************************************************************)
EXTENDS Display, TLAPS

-----------------------------------------------------------------------------
(* Clipping: what a call writes is what is visible of it.  First one axis, *)
(* which is linear arithmetic, then the flat array, which needs            *)
(* distributivity and nothing else.                                        *)

(* A clipped axis that is not empty lies inside the buffer and the image,  *)
(* and a place of the buffer gets the place of the image that is there.    *)
LEMMA ClipInside ==
    ASSUME NEW x \in Int, NEW wd \in Nat, NEW width \in Nat,
           Clip(x, wd, width).n > 0
    PROVE  LET c == Clip(x, wd, width)
           IN  /\ c.at \in Nat /\ c.from \in Nat /\ c.n \in Nat
               /\ c.at + c.n <= width
               /\ c.from + c.n <= wd
               /\ c.at = x + c.from
BY DEF Clip

(* A visible place of an ordinary axis is among those left by clipping,    *)
(* and then the axis is not outside.                                       *)
LEMMA ClipCovers ==
    ASSUME NEW x \in Int, NEW wd \in Nat, NEW width \in Nat,
           Ordinary(x, wd, width),
           NEW a \in 0 .. wd - 1, x + a \in 0 .. width - 1
    PROVE  /\ ~Outside(x, wd, width)
           /\ Clip(x, wd, width).n \in Nat
           /\ Clip(x, wd, width).from \in Nat
           /\ Clip(x, wd, width).n > 0
           /\ a - Clip(x, wd, width).from \in 0 .. Clip(x, wd, width).n - 1
BY DEF Clip, Outside, Ordinary

(* Multiplication distributes over addition.                               *)
LEMMA Distribute ==
    ASSUME NEW k \in Int, NEW a \in Int, NEW b \in Int
    PROVE  k * (a + b) = k * a + k * b
OBVIOUS

(* The index of row q + row and column o + j, as the loops reach it.       *)
LEMMA FlatIndex ==
    ASSUME NEW k \in Int, NEW o \in Int, NEW q \in Int, NEW row \in Int, NEW j \in Int
    PROVE  (o + k * q) + k * row + j = (o + j) + k * (q + row)
<1>1. k * (q + row) = k * q + k * row  BY Distribute
<1>2. k * q \in Int /\ k * row \in Int  OBVIOUS
<1> QED  BY <1>1, <1>2

(* Nothing but visible pixels is written.                                  *)
LEMMA RowsVisible ==
    ASSUME NEW x \in Int, NEW y \in Int, NEW wd \in Nat, NEW h \in Nat,
           Clip(x, wd, Width).n > 0, Clip(y, h, Height).n > 0
    PROVE  Rows(Clip(x, wd, Width), Clip(y, h, Height), wd) \subseteq Visible(x, y, wd, h)
<1> DEFINE c == Clip(x, wd, Width)
           r == Clip(y, h, Height)
<1>c. /\ c.at \in Nat /\ c.from \in Nat /\ c.n \in Nat
      /\ c.at + c.n <= Width /\ c.from + c.n <= wd /\ c.at = x + c.from
    BY ClipInside, BufferAssumption
<1>r. /\ r.at \in Nat /\ r.from \in Nat /\ r.n \in Nat
      /\ r.at + r.n <= Height /\ r.from + r.n <= h /\ r.at = y + r.from
    BY ClipInside, BufferAssumption
<1> HIDE DEF c, r
<1> SUFFICES ASSUME NEW p \in Rows(c, r, wd) PROVE p \in Visible(x, y, wd, h)
    BY DEF c, r
<1>p. PICK row \in 0 .. r.n - 1, j \in 0 .. c.n - 1 :
          p = << (c.at + Width * r.at) + Width * row + j, (r.from * wd + c.from) + wd * row + j >>
    BY DEF Rows
<1> DEFINE a == c.from + j
           b == r.from + row
<1>i. row \in Nat /\ j \in Nat  BY <1>c, <1>r
<1>1. /\ (c.at + Width * r.at) + Width * row + j = x + a + Width * (y + b)
      /\ (r.from * wd + c.from) + wd * row + j = a + wd * b
    <2>1. (c.at + Width * r.at) + Width * row + j = (c.at + j) + Width * (r.at + row)
        BY <1>c, <1>r, <1>i, BufferAssumption, FlatIndex
    <2>2. c.at + j = x + a /\ r.at + row = y + b  BY <1>c, <1>r, <1>i
    <2>3. (c.from + wd * r.from) + wd * row + j = (c.from + j) + wd * (r.from + row)
        BY <1>c, <1>r, <1>i, FlatIndex
    <2>4. wd * r.from = r.from * wd /\ r.from * wd \in Int  BY <1>c, <1>r, <1>i
    <2>5. r.from * wd + c.from = c.from + wd * r.from  BY <1>c, <1>r, <1>i, <2>4
    <2>6. c.from + j = a /\ r.from + row = b  BY <1>c, <1>r, <1>i
    <2> QED  BY <2>1, <2>2, <2>3, <2>5, <2>6
<1>2. a \in 0 .. wd - 1 /\ x + a \in 0 .. Width - 1  BY <1>c, BufferAssumption
<1>3. b \in 0 .. h - 1 /\ y + b \in 0 .. Height - 1  BY <1>r, BufferAssumption
<1> HIDE DEF a, b
<1>4. << x + a + Width * (y + b), a + wd * b >> \in Visible(x, y, wd, h)
    BY <1>2, <1>3 DEF Visible, Seen
<1> QED  BY <1>p, <1>1, <1>4

(* Of an ordinary call every visible pixel is written.                     *)
LEMMA VisibleRows ==
    ASSUME NEW x \in Int, NEW y \in Int, NEW wd \in Nat, NEW h \in Nat,
           Ordinary(x, wd, Width), Ordinary(y, h, Height),
           NEW p \in Visible(x, y, wd, h)
    PROVE  /\ ~Outside(x, wd, Width) /\ ~Outside(y, h, Height)
           /\ Clip(x, wd, Width).n > 0 /\ Clip(y, h, Height).n > 0
           /\ p \in Rows(Clip(x, wd, Width), Clip(y, h, Height), wd)
<1> DEFINE c == Clip(x, wd, Width)
           r == Clip(y, h, Height)
<1> HIDE DEF c, r
<1>0. PICK a \in Seen(x, wd, Width), b \in Seen(y, h, Height) :
          p = << x + a + Width * (y + b), a + wd * b >>
    BY DEF Visible
<1>1. /\ a \in 0 .. wd - 1 /\ x + a \in 0 .. Width - 1
      /\ b \in 0 .. h - 1 /\ y + b \in 0 .. Height - 1
    BY DEF Seen
<1> USE DEF c, r
<1>c. /\ ~Outside(x, wd, Width) /\ c.n > 0 /\ c.n \in Nat
      /\ a - c.from \in 0 .. c.n - 1
    BY <1>1, ClipCovers, BufferAssumption
<1>r. /\ ~Outside(y, h, Height) /\ r.n > 0 /\ r.n \in Nat
      /\ b - r.from \in 0 .. r.n - 1
    BY <1>1, ClipCovers, BufferAssumption
<1>d. /\ c.at \in Nat /\ c.from \in Nat /\ c.at = x + c.from
      /\ r.at \in Nat /\ r.from \in Nat /\ r.at = y + r.from
    BY <1>c, <1>r, ClipInside, BufferAssumption
<1> HIDE DEF c, r
<1> DEFINE row == b - r.from
           j == a - c.from
<1>2. row \in Nat /\ j \in Nat /\ a = c.from + j /\ b = r.from + row
    BY <1>1, <1>c, <1>r, <1>d
<1>i. row \in 0 .. r.n - 1 /\ j \in 0 .. c.n - 1  BY <1>c, <1>r
<1> HIDE DEF row, j
<1>3. /\ (c.at + Width * r.at) + Width * row + j = x + a + Width * (y + b)
      /\ (r.from * wd + c.from) + wd * row + j = a + wd * b
    <2>1. (c.at + Width * r.at) + Width * row + j = (c.at + j) + Width * (r.at + row)
        BY <1>d, <1>2, BufferAssumption, FlatIndex
    <2>2. c.at + j = x + a /\ r.at + row = y + b  BY <1>d, <1>2
    <2>3. (c.from + wd * r.from) + wd * row + j = (c.from + j) + wd * (r.from + row)
        BY <1>d, <1>2, FlatIndex
    <2>4. wd * r.from = r.from * wd /\ r.from * wd \in Int  BY <1>d, <1>2
    <2>5. r.from * wd + c.from = c.from + wd * r.from  BY <1>d, <1>2, <2>4
    <2>6. c.from + j = a /\ r.from + row = b  BY <1>d, <1>2
    <2> QED  BY <2>1, <2>2, <2>3, <2>5, <2>6
<1>4. p = << (c.at + Width * r.at) + Width * row + j, (r.from * wd + c.from) + wd * row + j >>
    BY <1>0, <1>3
<1>5. p \in Rows(c, r, wd)  BY <1>4, <1>i DEF Rows
<1> QED  BY <1>c, <1>r, <1>5 DEF c, r

(* The pixels the call writes are the right ones: the step of the theorem. *)
LEMMA DrawRight ==
    ASSUME NEW x \in Int, NEW y \in Int, NEW wd \in Nat, NEW h \in Nat, NEW P,
           P = IF \/ Outside(x, wd, Width) \/ Outside(y, h, Height)
                  \/ Clip(y, h, Height).n <= 0 \/ Clip(x, wd, Width).n <= 0
               THEN {} ELSE Rows(Clip(x, wd, Width), Clip(y, h, Height), wd)
    PROVE  /\ P \subseteq Visible(x, y, wd, h)
           /\ (Ordinary(x, wd, Width) /\ Ordinary(y, h, Height)) => P = Visible(x, y, wd, h)
<1>0. Clip(x, wd, Width).n \in Int /\ Clip(y, h, Height).n \in Int
    BY BufferAssumption DEF Clip
<1>1. P \subseteq Visible(x, y, wd, h)
    <2>1. CASE Clip(x, wd, Width).n > 0 /\ Clip(y, h, Height).n > 0
        BY <2>1, RowsVisible
    <2>2. CASE ~(Clip(x, wd, Width).n > 0 /\ Clip(y, h, Height).n > 0)
        <3>1. P = {}  BY <2>2, <1>0
        <3> QED  BY <3>1
    <2> QED  BY <2>1, <2>2
<1>2. ASSUME Ordinary(x, wd, Width), Ordinary(y, h, Height)
      PROVE  Visible(x, y, wd, h) \subseteq P
    <2> SUFFICES ASSUME NEW p \in Visible(x, y, wd, h) PROVE p \in P
        OBVIOUS
    <2>1. /\ ~Outside(x, wd, Width) /\ ~Outside(y, h, Height)
          /\ Clip(x, wd, Width).n > 0 /\ Clip(y, h, Height).n > 0
          /\ p \in Rows(Clip(x, wd, Width), Clip(y, h, Height), wd)
        BY <1>2, VisibleRows
    <2> QED  BY <2>1, <1>0
<1> QED  BY <1>1, <1>2

(* Whatever is drawn, at whatever place and in whatever size, exactly the  *)
(* visible pixels of it are written (CHECK_IMAGE_BOUNDS, render.c).        *)
THEOREM DrawingIsClipped == DrawSpec => []DrawsVisible
<1>1. DrawInit => DrawsVisible
    <2> SUFFICES ASSUME DrawInit PROVE DrawsVisible
        OBVIOUS
    <2>1. Visible(call.x, call.y, call.w, call.h) = {}  BY DEF DrawInit, Visible, Seen
    <2> QED  BY <2>1 DEF DrawInit, DrawsVisible
<1>2. DrawsVisible /\ [DrawNext]_drawvars => DrawsVisible'
    <2> SUFFICES ASSUME DrawsVisible, [DrawNext]_drawvars PROVE DrawsVisible'
        OBVIOUS
    <2>1. CASE DrawNext
        <3>1. PICK x \in Places, y \in Places, wd \in Sizes, h \in Sizes : Draw(x, y, wd, h)
            BY <2>1 DEF DrawNext
        <3>2. x \in Int /\ y \in Int /\ wd \in Nat /\ h \in Nat  BY BufferAssumption
        <3>3. /\ call' = [x |-> x, y |-> y, w |-> wd, h |-> h]
              /\ px' = IF \/ Outside(x, wd, Width) \/ Outside(y, h, Height)
                          \/ Clip(y, h, Height).n <= 0 \/ Clip(x, wd, Width).n <= 0
                       THEN {} ELSE Rows(Clip(x, wd, Width), Clip(y, h, Height), wd)
            BY <3>1 DEF Draw
        <3>4. /\ px' \subseteq Visible(x, y, wd, h)
              /\ (Ordinary(x, wd, Width) /\ Ordinary(y, h, Height)) => px' = Visible(x, y, wd, h)
            BY <3>2, <3>3, DrawRight
        <3>5. call'.x = x /\ call'.y = y /\ call'.w = wd /\ call'.h = h  BY <3>3
        <3> QED  BY <3>4, <3>5 DEF DrawsVisible
    <2>2. CASE UNCHANGED drawvars
        BY <2>2 DEF drawvars, DrawsVisible
    <2> QED  BY <2>1, <2>2
<1> QED  BY <1>1, <1>2, PTL DEF DrawSpec

-----------------------------------------------------------------------------
(* The terminal: it never writes outside the screen, and it shows the last *)
(* lines of what was typed.                                                *)

(* The screen has at least one line.                                       *)
LEMMA ScreenNotEmpty == SIZE \in Nat /\ SIZE >= WIDTH
<1>1. PICK k \in Nat : HEIGHT = 1 + k  BY TerminalAssumption
<1>2. WIDTH * HEIGHT = WIDTH + WIDTH * k /\ WIDTH * k >= 0 /\ WIDTH * k \in Nat
    BY <1>1, TerminalAssumption
<1> QED  BY <1>2, TerminalAssumption DEF SIZE

(* A column is smaller than the width.                                     *)
LEMMA ModBounds ==
    ASSUME NEW a \in Nat, NEW b \in Nat \ {0}
    PROVE  a % b \in 0 .. b - 1
OBVIOUS

(* One scroll is enough when the position has moved by a line at most.     *)
LEMMA SettleInside ==
    ASSUME NEW b, NEW pos \in Nat, pos < SIZE + WIDTH, Settle(b, pos)
    PROVE  CursorInside'
<1>1. terminal_pos' \in 0 .. SIZE - 1
    BY ScreenNotEmpty, TerminalAssumption DEF Settle
<1> QED  BY <1>1 DEF Settle, CursorInside, SIZE

(* The position and the cursor registers stay on the screen, so that every *)
(* store of terminal_putc hits the text buffer.                            *)
THEOREM TerminalStaysInside == Spec => []CursorInside
<1>1. Init => CursorInside
    BY ScreenNotEmpty, TerminalAssumption DEF Init, CursorInside
<1>2. CursorInside /\ [Next]_vars => CursorInside'
    <2> SUFFICES ASSUME CursorInside, [Next]_vars PROVE CursorInside'
        OBVIOUS
    <2>p. terminal_pos \in Nat /\ terminal_pos < SIZE
        BY ScreenNotEmpty DEF CursorInside
    <2>m. terminal_pos % WIDTH \in 0 .. WIDTH - 1
        BY <2>p, ModBounds, TerminalAssumption
    <2>1. CASE NewLine
        <3>1. terminal_pos + WIDTH - (terminal_pos % WIDTH) \in Nat
              /\ terminal_pos + WIDTH - (terminal_pos % WIDTH) < SIZE + WIDTH
            BY <2>p, <2>m, ScreenNotEmpty, TerminalAssumption
        <3> QED  BY <2>1, <3>1, SettleInside DEF NewLine
    <2>2. CASE Tab
        <3>1. (terminal_pos % WIDTH) % TAB \in 0 .. TAB - 1
            <4>1. TAB \in Nat \ {0} /\ WIDTH \in Nat  BY TerminalAssumption
            <4> DEFINE col == terminal_pos % WIDTH
            <4>2. col \in Nat  BY <2>m, <4>1
            <4> HIDE DEF col
            <4>3. col % TAB \in 0 .. TAB - 1  BY <4>1, <4>2, ModBounds
            <4> QED  BY <4>3 DEF col
        <3>2. terminal_pos + TAB - ((terminal_pos % WIDTH) % TAB) \in Nat
              /\ terminal_pos + TAB - ((terminal_pos % WIDTH) % TAB) < SIZE + WIDTH
            BY <2>p, <3>1, ScreenNotEmpty, TerminalAssumption
        <3> QED  BY <2>2, <3>2, SettleInside DEF Tab
    <2>3. CASE Backspace
        <3> DEFINE pos == IF terminal_pos > 0 THEN terminal_pos - 1 ELSE terminal_pos
        <3>1. pos \in Nat /\ pos < SIZE + WIDTH
            BY <2>p, ScreenNotEmpty, TerminalAssumption
        <3>2. Settle([buf EXCEPT ![pos] = Blank], pos)
            BY <2>3 DEF Backspace
        <3> HIDE DEF pos
        <3> QED  BY <3>1, <3>2, SettleInside
    <2>4. CASE \E ch \in Chars : Printable(ch)
        <3>1. PICK ch \in Chars : Printable(ch)  BY <2>4
        <3>2. terminal_pos + 1 \in Nat /\ terminal_pos + 1 < SIZE + WIDTH
            BY <2>p, ScreenNotEmpty, TerminalAssumption
        <3> QED  BY <3>1, <3>2, SettleInside DEF Printable
    <2>5. CASE Clear
        BY <2>5, <2>p, ScreenNotEmpty, TerminalAssumption DEF Clear, CursorInside, SIZE
    <2>6. CASE UNCHANGED vars
        BY <2>6 DEF vars, CursorInside, SIZE
    <2> QED  BY <2>1, <2>2, <2>3, <2>4, <2>5, <2>6 DEF Next
<1> QED  BY <1>1, <1>2, PTL DEF Spec
-----------------------------------------------------------------------------
(* The screen and the endless sheet.                                       *)

Cells == Chars \cup {Blank}

SheetOK ==
    /\ buf \in [0 .. SIZE - 1 -> Cells]
    /\ page \in [Sheet -> Cells]
    /\ terminal_pos \in 0 .. SIZE - 1
    /\ at \in Nat
    /\ top \in Nat
    /\ top + HEIGHT <= MaxLines

(* Below the screen nothing has been typed yet.                            *)
BlankBelow == \A n \in Sheet : n >= SIZE + WIDTH * top => page[n] = Blank

TailInv == SheetOK /\ BlankBelow /\ ShowsTail

(* A quotient and its remainder, and that there is only one of each.       *)
LEMMA DivMod ==
    ASSUME NEW a \in Nat, NEW b \in Nat \ {0}
    PROVE  /\ a \div b \in Nat
           /\ a % b \in 0 .. b - 1
           /\ a = b * (a \div b) + (a % b)
BY Z3

(* A position has one line and one column.                                 *)
LEMMA DivUnique ==
    ASSUME NEW b \in Nat \ {0}, NEW q1 \in Nat, NEW q2 \in Nat,
           NEW r1 \in 0 .. b - 1, NEW r2 \in 0 .. b - 1, b * q1 + r1 = b * q2 + r2
    PROVE  q1 = q2 /\ r1 = r2
<1>1. ASSUME NEW x \in Nat, NEW y \in Nat, x < y PROVE b * x + b <= b * y
    <2>1. PICK d \in Nat : y = x + 1 + d
        <3>1. y - x - 1 \in Nat /\ y = x + 1 + (y - x - 1)  BY <1>1
        <3> QED  BY <3>1
    <2>2. b * (x + 1 + d) = b * x + b + b * d /\ b * d \in Nat  BY <2>1, Z3
    <2>3. b * x \in Nat  BY Z3
    <2> QED  BY <2>1, <2>2, <2>3
<1>2. b * q1 \in Nat /\ b * q2 \in Nat  BY Z3
<1>3. ~(q1 < q2)  BY <1>1, <1>2
<1>4. ~(q2 < q1)  BY <1>1, <1>2
<1>5. q1 = q2  BY <1>3, <1>4
<1> QED  BY <1>2, <1>5

(* Lines of the sheet as numbers.                                          *)
LEMMA Lines ==
    ASSUME NEW t \in Nat, t + HEIGHT <= MaxLines
    PROVE  /\ WIDTH * t \in Nat
           /\ WIDTH * (t + 1) = WIDTH * t + WIDTH
           /\ SIZE + WIDTH * t <= WIDTH * MaxLines
           /\ WIDTH * (t + HEIGHT) = SIZE + WIDTH * t
           /\ WIDTH * MaxLines \in Nat
<1>0. WIDTH \in Nat \ {0} /\ HEIGHT \in Nat /\ MaxLines \in Nat  BY TerminalAssumption
<1>1. WIDTH * t \in Nat /\ WIDTH * MaxLines \in Nat /\ WIDTH * (t + 1) = WIDTH * t + WIDTH
    BY <1>0, Z3
<1>2. WIDTH * (t + HEIGHT) = WIDTH * HEIGHT + WIDTH * t  BY <1>0, Z3
<1>3. PICK d \in Nat : MaxLines = t + HEIGHT + d
    <2>1. MaxLines - t - HEIGHT \in Nat /\ MaxLines = t + HEIGHT + (MaxLines - t - HEIGHT)
        BY <1>0
    <2> QED  BY <2>1
<1>4. WIDTH * (t + HEIGHT + d) = WIDTH * (t + HEIGHT) + WIDTH * d /\ WIDTH * d \in Nat
    BY <1>0, <1>3, Z3
<1>5. WIDTH * HEIGHT \in Nat  BY <1>0, Z3
<1> QED  BY <1>1, <1>2, <1>3, <1>4, <1>5 DEF SIZE

(* The carriage leaves the screen exactly when the position does.          *)
LEMMA LeavesScreen ==
    ASSUME NEW t \in Nat, t + HEIGHT <= MaxLines, NEW pos \in Nat
    PROVE  pos >= SIZE <=> (pos + WIDTH * t) \div WIDTH >= t + HEIGHT
<1> DEFINE c == pos + WIDTH * t
<1>0. WIDTH \in Nat \ {0} /\ HEIGHT \in Nat  BY TerminalAssumption
<1>1. WIDTH * t \in Nat /\ WIDTH * (t + HEIGHT) = SIZE + WIDTH * t /\ SIZE \in Nat
    BY Lines, ScreenNotEmpty
<1>2. c \in Nat  BY <1>1
<1>3. PICK q \in Nat, r \in Nat : q = c \div WIDTH /\ r < WIDTH /\ c = WIDTH * q + r
    <2> HIDE DEF c
    <2> QED  BY <1>0, <1>2, DivMod
<1>4. ASSUME q >= t + HEIGHT PROVE pos >= SIZE
    <2>1. PICK d \in Nat : q = t + HEIGHT + d
        <3>1. q - t - HEIGHT \in Nat /\ q = t + HEIGHT + (q - t - HEIGHT)  BY <1>0, <1>3, <1>4
        <3> QED  BY <3>1
    <2>2. WIDTH * (t + HEIGHT + d) = WIDTH * (t + HEIGHT) + WIDTH * d /\ WIDTH * d \in Nat
        BY <1>0, <2>1, Z3
    <2>3. c >= SIZE + WIDTH * t  BY <1>0, <1>1, <1>3, <2>1, <2>2
    <2> QED  BY <1>1, <2>3
<1>5. ASSUME q < t + HEIGHT PROVE pos < SIZE
    <2>1. PICK d \in Nat : t + HEIGHT = q + 1 + d
        <3>1. t + HEIGHT - q - 1 \in Nat /\ t + HEIGHT = q + 1 + (t + HEIGHT - q - 1)
            BY <1>0, <1>3, <1>5
        <3> QED  BY <3>1
    <2>2. WIDTH * (q + 1 + d) = WIDTH * q + WIDTH + WIDTH * d /\ WIDTH * d \in Nat
        BY <1>0, <1>3, <2>1, Z3
    <2>3. WIDTH * q \in Nat  BY <1>0, <1>3, Z3
    <2>4. c < SIZE + WIDTH * t  BY <1>0, <1>1, <1>3, <2>1, <2>2, <2>3
    <2> QED  BY <1>1, <2>4
<1>6. t + HEIGHT \in Nat  BY <1>0
<1> QED  BY <1>1, <1>3, <1>4, <1>5, <1>6

(* The end of terminal_putc keeps the screen in step with the sheet.       *)
LEMMA SettleShows ==
    ASSUME SheetOK, NEW b \in [0 .. SIZE - 1 -> Cells], NEW p \in [Sheet -> Cells],
           NEW pos \in Nat, pos < SIZE + WIDTH, NEW c, c = pos + WIDTH * top,
           \A n \in 0 .. SIZE - 1 : b[n] = p[n + WIDTH * top],
           \A n \in Sheet : n >= SIZE + WIDTH * top => p[n] = Blank,
           Settle(b, pos), Type(p, c)
    PROVE  TailInv'
<1>0. /\ WIDTH \in Nat \ {0} /\ HEIGHT \in Nat \ {0} /\ MaxLines \in Nat /\ SIZE \in Nat
      /\ SIZE >= WIDTH
    BY TerminalAssumption, ScreenNotEmpty
<1>1. /\ top \in Nat /\ top + HEIGHT <= MaxLines /\ WIDTH * top \in Nat
      /\ WIDTH * (top + 1) = WIDTH * top + WIDTH
      /\ SIZE + WIDTH * top <= WIDTH * MaxLines /\ WIDTH * MaxLines \in Nat
    BY Lines DEF SheetOK
<1>2. pos >= SIZE <=> c \div WIDTH >= top + HEIGHT
    BY <1>1, LeavesScreen
<1>3. page' = p /\ at' = c /\ c \in Nat
    BY <1>1 DEF Type
<1>4. CASE pos >= SIZE
    <2>1. /\ buf' = Scrolled(b) /\ terminal_pos' = pos - WIDTH /\ top' = top + 1
        BY <1>2, <1>4 DEF Settle, Type
    <2>2. top + 1 + HEIGHT <= MaxLines
        <3>1. c \div WIDTH \in Nat /\ c \div WIDTH < MaxLines  BY <1>0, <1>3, DivMod DEF Type
        <3> QED  BY <1>0, <1>1, <1>2, <1>4, <3>1
    <2>3. SIZE + WIDTH * (top + 1) <= WIDTH * MaxLines  BY <1>1, <2>2, Lines
    <2>4. Scrolled(b) \in [0 .. SIZE - 1 -> Cells]
        BY <1>0 DEF Scrolled, Cells
    <2>5. SheetOK'
        <3>1. pos - WIDTH \in 0 .. SIZE - 1 /\ top + 1 \in Nat  BY <1>0, <1>1, <1>4
        <3> QED  BY <1>3, <2>1, <2>2, <2>4, <3>1 DEF SheetOK
    <2>6. BlankBelow'
        <3> SUFFICES ASSUME NEW n \in Sheet, n >= SIZE + WIDTH * (top + 1) PROVE p[n] = Blank
            BY <1>3, <2>1 DEF BlankBelow, Sheet, SIZE
        <3>1. n \in Int  BY <1>1 DEF Sheet
        <3> QED  BY <1>0, <1>1, <3>1
    <2>7. ASSUME NEW n \in 0 .. SIZE - 1 PROVE Scrolled(b)[n] = p[n + WIDTH * (top + 1)]
        <3>1. n + WIDTH * (top + 1) = (n + WIDTH) + WIDTH * top  BY <1>0, <1>1
        <3>2. CASE n + WIDTH < SIZE
            <4>1. n + WIDTH \in 0 .. SIZE - 1  BY <1>0, <3>2
            <4>2. b[n + WIDTH] = p[(n + WIDTH) + WIDTH * top]  BY <4>1
            <4> QED  BY <3>1, <3>2, <4>2 DEF Scrolled
        <3>3. CASE ~(n + WIDTH < SIZE)
            <4>1. n + WIDTH * (top + 1) \in Sheet
                <5>1. n + WIDTH * (top + 1) \in 0 .. WIDTH * MaxLines - 1
                    BY <1>0, <1>1, <2>3
                <5> QED  BY <5>1 DEF Sheet
            <4>2. n + WIDTH * (top + 1) >= SIZE + WIDTH * top  BY <1>0, <1>1, <3>3
            <4>3. p[n + WIDTH * (top + 1)] = Blank  BY <4>1, <4>2
            <4> QED  BY <3>3, <4>3 DEF Scrolled
        <3> QED  BY <3>2, <3>3
    <2>8. pos - WIDTH = c - WIDTH * (top + 1)  BY <1>0, <1>1
    <2>9. ShowsTail'
        BY <1>3, <2>1, <2>7, <2>8 DEF ShowsTail, SIZE
    <2> QED  BY <2>5, <2>6, <2>9 DEF TailInv
<1>5. CASE ~(pos >= SIZE)
    <2>1. buf' = b /\ terminal_pos' = pos /\ top' = top
        BY <1>2, <1>5 DEF Settle, Type
    <2>2. SheetOK'
        BY <1>0, <1>1, <1>3, <1>5, <2>1 DEF SheetOK, SIZE, Sheet, Cells
    <2>3. BlankBelow'
        BY <1>3, <2>1 DEF BlankBelow, Sheet, SIZE
    <2>4. pos = c - WIDTH * top  BY <1>1
    <2>5. ShowsTail'
        BY <1>3, <2>1, <2>4 DEF ShowsTail, SIZE
    <2> QED  BY <2>2, <2>3, <2>5 DEF TailInv
<1> QED  BY <1>4, <1>5

(* A column of the sheet is a column of the screen, and tabs stop at the   *)
(* same columns of both.                                                   *)
LEMMA SameColumn ==
    ASSUME NEW pos \in Nat, NEW t \in Nat, NEW a, a = pos + WIDTH * t
    PROVE  /\ WIDTH * (a \div WIDTH + 1) = (pos + WIDTH - (pos % WIDTH)) + WIDTH * t
           /\ TAB * (a \div TAB + 1) = (pos + TAB - ((pos % WIDTH) % TAB)) + WIDTH * t
<1>0. WIDTH \in Nat \ {0} /\ TAB \in Nat \ {0} /\ WIDTH % TAB = 0
    BY TerminalAssumption
<1>1. WIDTH * t \in Nat /\ a \in Nat  BY <1>0, Z3
<1>2. PICK q \in Nat, r \in 0 .. WIDTH - 1 : r = pos % WIDTH /\ pos = WIDTH * q + r
    <2>1. /\ pos \div WIDTH \in Nat /\ pos % WIDTH \in 0 .. WIDTH - 1
          /\ pos = WIDTH * (pos \div WIDTH) + (pos % WIDTH)
        BY <1>0, DivMod
    <2> QED  BY <2>1, Zenon
<1>3. PICK k \in Nat : WIDTH = TAB * k
    <2>1. WIDTH \div TAB \in Nat /\ WIDTH = TAB * (WIDTH \div TAB) + 0
        BY <1>0, DivMod
    <2>2. TAB * (WIDTH \div TAB) \in Nat  BY <1>0, <2>1, Z3
    <2>3. WIDTH = TAB * (WIDTH \div TAB)  BY <2>1, <2>2
    <2> QED  BY <2>1, <2>3
<1>4. WIDTH * (a \div WIDTH + 1) = (pos + WIDTH - (pos % WIDTH)) + WIDTH * t
    <2>1. PICK q1 \in Nat, r1 \in 0 .. WIDTH - 1 : q1 = a \div WIDTH /\ a = WIDTH * q1 + r1
        BY <1>0, <1>1, DivMod
    <2>2. WIDTH * (q + t) = WIDTH * q + WIDTH * t /\ WIDTH * q \in Nat /\ q + t \in Nat
        BY <1>0, <1>2, Z3
    <2>3. WIDTH * q1 + r1 = WIDTH * (q + t) + r  BY <1>1, <1>2, <2>1, <2>2
    <2>4. q1 = q + t
        <3> DEFINE u == q + t
        <3>1. u \in Nat /\ WIDTH * q1 + r1 = WIDTH * u + r  BY <2>2, <2>3
        <3>2. WIDTH \in Nat \ {0}  BY <1>0
        <3> HIDE DEF u
        <3>3. q1 = u  BY <3>1, <3>2, DivUnique
        <3> QED  BY <3>3 DEF u
    <2>5. WIDTH * (q1 + 1) = WIDTH * (q + t) + WIDTH  BY <1>0, <2>1, <2>4, Z3
    <2>6. WIDTH * (q1 + 1) = (pos + WIDTH - r) + WIDTH * t
        BY <1>0, <1>1, <1>2, <2>2, <2>5
    <2> QED  BY <1>2, <2>1, <2>6, Zenon
<1>5. TAB * (a \div TAB + 1) = (pos + TAB - (r % TAB)) + WIDTH * t
    <2>0. r \in Nat  BY <1>0, <1>2
    <2>1. PICK q2 \in Nat, r2 \in 0 .. TAB - 1 : r2 = r % TAB /\ r = TAB * q2 + r2
        <3>1. /\ r \div TAB \in Nat /\ r % TAB \in 0 .. TAB - 1
              /\ r = TAB * (r \div TAB) + (r % TAB)
            BY <1>0, <2>0, DivMod
        <3> QED  BY <3>1, Zenon
    <2>2. PICK q1 \in Nat, r1 \in 0 .. TAB - 1 : q1 = a \div TAB /\ a = TAB * q1 + r1
        BY <1>0, <1>1, DivMod
    <2> DEFINE m == k * q + k * t + q2
    <2>3. m \in Nat /\ TAB * m = TAB * (k * q) + TAB * (k * t) + TAB * q2
        BY <1>0, <1>2, <1>3, <2>1, Z3
    <2>4. (TAB * k) * q = TAB * (k * q) /\ (TAB * k) * t = TAB * (k * t)
        BY <1>0, <1>2, <1>3, Z3
    <2>5. TAB * (k * q) \in Nat /\ TAB * (k * t) \in Nat /\ TAB * q2 \in Nat
        BY <1>0, <1>2, <1>3, <2>1, Z3
    <2> HIDE DEF m
    <2>6. a = TAB * m + r2 /\ TAB * m \in Nat
        <3>1. WIDTH * q = TAB * (k * q) /\ WIDTH * t = TAB * (k * t)  BY <1>3, <2>4
        <3>2. a = TAB * (k * q) + r + TAB * (k * t)  BY <1>1, <1>2, <3>1
        <3>3. r \in Nat /\ r2 \in Nat /\ r = TAB * q2 + r2  BY <1>0, <2>0, <2>1
        <3> QED  BY <2>3, <2>5, <3>2, <3>3
    <2>7. q1 = m  BY <1>0, <2>1, <2>2, <2>3, <2>6, DivUnique
    <2>8. TAB * (q1 + 1) = TAB * q1 + TAB  BY <1>0, <2>2, Z3
    <2>9. TAB * (q1 + 1) = a - r2 + TAB  BY <1>0, <1>1, <2>1, <2>6, <2>7, <2>8
    <2> QED  BY <1>0, <1>1, <2>1, <2>2, <2>9
<1> QED  BY <1>2, <1>4, <1>5

(* The text screen always shows the last lines of what was typed since it  *)
(* was cleared, and the position is where typing goes on: for every width, *)
(* height and tab, scrolling neither loses nor repeats nor leaves over     *)
(* anything (terminal_putc, terminal_clear).                               *)
THEOREM TerminalShowsTail == Spec => []ShowsTail
<1>0. /\ WIDTH \in Nat \ {0} /\ HEIGHT \in Nat \ {0} /\ MaxLines \in Nat /\ SIZE \in Nat
      /\ TAB \in Nat \ {0} /\ TAB <= WIDTH /\ SIZE >= WIDTH /\ 0 + HEIGHT <= MaxLines
    BY TerminalAssumption, ScreenNotEmpty
<1>z. /\ WIDTH * 0 = 0 /\ SIZE <= WIDTH * MaxLines /\ WIDTH * MaxLines \in Nat
    <2>1. SIZE + WIDTH * 0 <= WIDTH * MaxLines /\ WIDTH * MaxLines \in Nat  BY <1>0, Lines
    <2>2. WIDTH * 0 = 0  BY <1>0, Z3
    <2> QED  BY <1>0, <2>1, <2>2
<1>b. \A n \in 0 .. SIZE - 1 : n + WIDTH * 0 \in Sheet
    BY <1>0, <1>z DEF Sheet
<1>1. Init => TailInv
    <2> SUFFICES ASSUME Init PROVE TailInv
        OBVIOUS
    <2>1. SheetOK  BY <1>0 DEF Init, SheetOK, Cells
    <2>2. BlankBelow  BY DEF Init, BlankBelow
    <2>3. ShowsTail  BY <1>z, <1>b DEF Init, ShowsTail
    <2> QED  BY <2>1, <2>2, <2>3 DEF TailInv
<1>2. TailInv /\ [Next]_vars => TailInv'
    <2> SUFFICES ASSUME TailInv, [Next]_vars PROVE TailInv'
        OBVIOUS
    <2>s. SheetOK  BY DEF TailInv
    <2>p. /\ terminal_pos \in Nat /\ terminal_pos < SIZE /\ top \in Nat /\ at \in Nat
          /\ WIDTH * top \in Nat /\ at = terminal_pos + WIDTH * top
          /\ SIZE + WIDTH * top <= WIDTH * MaxLines
          /\ buf \in [0 .. SIZE - 1 -> Cells] /\ page \in [Sheet -> Cells]
        BY <1>0, Lines DEF TailInv, SheetOK, ShowsTail
    <2>b. \A n \in 0 .. SIZE - 1 : buf[n] = page[n + WIDTH * top] /\ n + WIDTH * top \in Sheet
        BY <1>0, <1>z, <2>p, SMTT(20) DEF TailInv, ShowsTail, Sheet
    <2>c. \A n \in Sheet : n >= SIZE + WIDTH * top => page[n] = Blank
        BY DEF TailInv, BlankBelow
    <2>m. terminal_pos % WIDTH \in 0 .. WIDTH - 1
        BY <2>p, DivMod, <1>0
    (* A cell of the screen is written, and the same cell of the sheet.    *)
    <2>w. ASSUME NEW pos \in Nat, pos < SIZE, NEW ch \in Cells, NEW c, c = pos + WIDTH * top
          PROVE  /\ [buf EXCEPT ![pos] = ch] \in [0 .. SIZE - 1 -> Cells]
                 /\ [page EXCEPT ![c] = ch] \in [Sheet -> Cells]
                 /\ \A n \in 0 .. SIZE - 1 :
                      [buf EXCEPT ![pos] = ch][n] = [page EXCEPT ![c] = ch][n + WIDTH * top]
                 /\ \A n \in Sheet : n >= SIZE + WIDTH * top => [page EXCEPT ![c] = ch][n] = Blank
        <3>1. pos \in 0 .. SIZE - 1 /\ c \in Sheet  BY <1>0, <2>b, <2>w
        <3>2. \A n \in 0 .. SIZE - 1 : n = pos <=> n + WIDTH * top = c  BY <1>0, <2>p, <2>w
        <3>3. \A n \in 0 .. SIZE - 1 :
                [buf EXCEPT ![pos] = ch][n] = [page EXCEPT ![c] = ch][n + WIDTH * top]
            BY <2>b, <2>p, <3>1, <3>2
        <3>4. \A n \in Sheet : n >= SIZE + WIDTH * top => n # c
            BY <1>0, <2>p, <2>w
        <3> QED  BY <2>c, <2>p, <3>1, <3>3, <3>4
    <2>1. CASE NewLine
        <3> DEFINE pos == terminal_pos + WIDTH - (terminal_pos % WIDTH)
        <3>1. pos \in Nat /\ pos < SIZE + WIDTH  BY <1>0, <2>p, <2>m
        <3>2. WIDTH * (at \div WIDTH + 1) = pos + WIDTH * top  BY <2>p, SameColumn
        <3>3. Settle(buf, pos) /\ Type(page, WIDTH * (at \div WIDTH + 1))  BY <2>1 DEF NewLine
        <3> HIDE DEF pos
        <3> QED  BY <2>s, <2>p, <2>b, <2>c, <3>1, <3>2, <3>3, SettleShows
    <2>2. CASE Tab
        <3> DEFINE pos == terminal_pos + TAB - ((terminal_pos % WIDTH) % TAB)
                   col == terminal_pos % WIDTH
        <3>0. col % TAB \in 0 .. TAB - 1
            <4>1. col \in Nat  BY <1>0, <2>m
            <4> HIDE DEF col
            <4> QED  BY <1>0, <4>1, DivMod
        <3>1. pos \in Nat /\ pos < SIZE + WIDTH  BY <1>0, <2>p, <3>0
        <3>2. TAB * (at \div TAB + 1) = pos + WIDTH * top  BY <2>p, SameColumn
        <3>3. Settle(buf, pos) /\ Type(page, TAB * (at \div TAB + 1))  BY <2>2 DEF Tab
        <3> HIDE DEF pos
        <3> QED  BY <2>s, <2>p, <2>b, <2>c, <3>1, <3>2, <3>3, SettleShows
    <2>3. CASE Backspace
        <3> DEFINE pos == IF terminal_pos > 0 THEN terminal_pos - 1 ELSE terminal_pos
                   c   == IF at > WIDTH * top THEN at - 1 ELSE at
        <3>1. pos \in Nat /\ pos < SIZE /\ pos < SIZE + WIDTH /\ c = pos + WIDTH * top
            BY <1>0, <2>p
        <3>2. Settle([buf EXCEPT ![pos] = Blank], pos) /\ Type([page EXCEPT ![c] = Blank], c)
            BY <2>3 DEF Backspace
        <3>3. Blank \in Cells  BY DEF Cells
        <3> HIDE DEF pos, c
        <3> DEFINE b == [buf EXCEPT ![pos] = Blank]
                   p == [page EXCEPT ![c] = Blank]
        <3>4. /\ b \in [0 .. SIZE - 1 -> Cells] /\ p \in [Sheet -> Cells]
              /\ \A n \in 0 .. SIZE - 1 : b[n] = p[n + WIDTH * top]
              /\ \A n \in Sheet : n >= SIZE + WIDTH * top => p[n] = Blank
            BY <2>w, <3>1, <3>3
        <3>5. Settle(b, pos) /\ Type(p, c)  BY <3>2
        <3> HIDE DEF b, p
        <3> QED  BY <2>s, <3>1, <3>4, <3>5, SettleShows
    <2>4. CASE \E ch \in Chars : Printable(ch)
        <3>1. PICK ch \in Chars : Printable(ch)  BY <2>4
        <3>2. ch \in Cells  BY DEF Cells
        <3> DEFINE b == [buf EXCEPT ![terminal_pos] = ch]
                   p == [page EXCEPT ![at] = ch]
        <3>3. /\ b \in [0 .. SIZE - 1 -> Cells] /\ p \in [Sheet -> Cells]
              /\ \A n \in 0 .. SIZE - 1 : b[n] = p[n + WIDTH * top]
              /\ \A n \in Sheet : n >= SIZE + WIDTH * top => p[n] = Blank
            BY <2>w, <2>p, <3>2
        <3>4. Settle(b, terminal_pos + 1) /\ Type(p, at + 1)  BY <3>1 DEF Printable
        <3>5. /\ terminal_pos + 1 \in Nat /\ terminal_pos + 1 < SIZE + WIDTH
              /\ at + 1 = (terminal_pos + 1) + WIDTH * top
            BY <1>0, <2>p
        <3> HIDE DEF b, p
        <3> QED  BY <2>s, <3>3, <3>4, <3>5, SettleShows
    <2>5. CASE Clear
        <3>1. /\ buf' = [n \in 0 .. SIZE - 1 |-> Blank] /\ page' = [n \in Sheet |-> Blank]
              /\ terminal_pos' = 0 /\ at' = 0 /\ top' = 0
            BY <2>5 DEF Clear
        <3>2. SheetOK'  BY <1>0, <3>1 DEF SheetOK, Cells
        <3>3. BlankBelow'  BY <3>1 DEF BlankBelow
        <3>4. ShowsTail'  BY <1>z, <1>b, <3>1 DEF ShowsTail
        <3> QED  BY <3>2, <3>3, <3>4 DEF TailInv
    <2>6. CASE UNCHANGED vars
        BY <2>6 DEF vars, TailInv, SheetOK, BlankBelow, ShowsTail
    <2> QED  BY <2>1, <2>2, <2>3, <2>4, <2>5, <2>6 DEF Next
<1>3. TailInv => ShowsTail
    BY DEF TailInv
<1> QED  BY <1>1, <1>2, <1>3, PTL DEF Spec

-----------------------------------------------------------------------------
(* The windows.  The invariant has three parts: which windows there are,   *)
(* where the server is in its loops, and, for passes without a report of   *)
(* the mouse, what each place of a pass knows about the drag.              *)

AtWindow == {"hit", "click", "draw", "press", "grab", "release"}
Windows == [id : 0 .. N, y : Int, dragged : BOOLEAN]

WinTypeOK ==
    /\ mouse_y \in Int /\ mouse_left \in BOOLEAN
    /\ w \in [0 .. N - 1 -> Windows]
    /\ win_count \in {0, N}
    /\ client \in 0 .. N + 1
    /\ pc \in AtWindow \cup {"move", "end", "sleep"}
    /\ i \in Nat
    /\ drag_y \in Int /\ drag_wy \in Int
    /\ focus \in Nat
    /\ seen \in [y : Int, left : BOOLEAN]
    /\ torn \in BOOLEAN

(* The client fills the windows in order and shows them afterwards.        *)
Filled ==
    /\ win_count = N <=> client = N + 1
    /\ client <= N => \A k \in 0 .. N - 1 : w[k].id = IF k < client THEN k + 1 ELSE 0
    /\ client = N + 1 => \A k \in 0 .. N - 1 : w[k].id \in 1 .. N

(* No window is lost; of three or more, raising the last one loses some.   *)
Kept ==
    (N <= 2 /\ client = N + 1) => \A m \in 1 .. N : \E k \in 0 .. N - 1 : w[k].id = m

InLoop ==
    /\ pc \in AtWindow => i < win_count
    /\ pc = "move" => i <= win_count

HeaderAt(y, at_y) == y - HEADER <= at_y /\ at_y < y

(* At most the first window is dragged, and its header was under the mouse *)
(* when that began.                                                        *)
FirstDragged ==
    /\ \A k \in 1 .. N - 1 : ~w[k].dragged
    /\ w[0].dragged => win_count = N /\ focus = 0 /\ HeaderAt(drag_wy, drag_y)

(* The first loop: no window before this one is under the mouse, and a     *)
(* window that is dragged has followed the mouse.                          *)
FirstLoop ==
    /\ pc \in {"move", "hit", "click"} =>
         /\ w[0].dragged => i = 0
         /\ \A k \in 0 .. N - 1 : k < i => ~W!InBounds(w[k], mouse_y)
    /\ pc = "click" => W!InBounds(w[i], mouse_y)
    /\ (pc \in AtWindow \cup {"end"} /\ w[0].dragged) => HeaderAt(w[0].y, mouse_y)

(* The second loop: with the button down the focus is on the first window, *)
(* or no window is under the mouse.                                        *)
SecondLoop ==
    /\ pc \in {"draw", "press", "grab", "release"} =>
         \/ mouse_left => focus = 0
         \/ \A k \in 0 .. N - 1 : ~W!InBounds(w[k], mouse_y)
    /\ pc \in {"press", "grab", "release"} => i = focus
    /\ pc \in {"press", "grab"} => HeaderAt(w[i].y, mouse_y)
    /\ pc = "grab" => mouse_left /\ ~w[0].dragged
    /\ (pc = "end" /\ w[0].dragged) => mouse_left
    /\ (pc = "sleep" /\ w[0].dragged) => seen.left /\ HeaderAt(w[0].y, seen.y)

WinInv ==
    /\ WinTypeOK /\ Filled /\ Kept /\ InLoop
    /\ ~torn => FirstDragged /\ FirstLoop /\ SecondLoop

(* The constants.                                                          *)
LEMMA WinConstants ==
    /\ N \in Nat \ {0} /\ HEADER \in Nat /\ Top \in Int /\ Screen \subseteq Int
    /\ WinHeight \in [1 .. N -> Nat]
    /\ 0 \in 0 .. N - 1
<1>1. /\ N \in Nat \ {0} /\ HEADER \in Nat /\ Top \in Int /\ Screen \subseteq Int
      /\ WinHeight \in [1 .. N -> Nat]
  BY WindowsAssumption DEF W!WindowAssumption
<1>. QED BY <1>1

(* The server's test of the header, and what it says of the whole window.  *)
LEMMA InHeaderAt ==
    ASSUME NEW v, v.y \in Int, NEW a \in Int
    PROVE  /\ W!InHeader(v, a) <=> HeaderAt(v.y, a)
           /\ (v.id \in 1 .. N /\ HeaderAt(v.y, a)) => W!InBounds(v, a)
<1>1. W!InHeader(v, a) <=> HeaderAt(v.y, a)
  BY WinConstants DEF W!InHeader, W!rect_contains, HeaderAt
<1>2. ASSUME v.id \in 1 .. N, HeaderAt(v.y, a) PROVE W!InBounds(v, a)
  <2>1. WinHeight[v.id] \in Nat
    BY <1>2, WinConstants
  <2>. QED BY <1>2, <2>1, WinConstants, SMTT(20) DEF W!InBounds, W!rect_contains, HeaderAt
<1>. QED BY <1>1, <1>2

(* Bounds depend on the place and on which window it is.                   *)
LEMMA SameBounds ==
    ASSUME NEW u, NEW v, u.id = v.id, u.y = v.y, NEW a
    PROVE  W!InBounds(u, a) <=> W!InBounds(v, a)
BY DEF W!InBounds, W!rect_contains

(* What the server knows at a window.                                      *)
LEMMA AtWindowFacts ==
    ASSUME WinInv, pc \in AtWindow
    PROVE  /\ win_count = N /\ client = N + 1
           /\ i \in 0 .. N - 1 /\ i \in Nat
           /\ w[i] \in Windows /\ w[i].id \in 1 .. N /\ w[i].y \in Int
           /\ w[0] \in Windows /\ w[0].id \in 1 .. N /\ w[0].y \in Int
<1>1. i \in Nat /\ i < win_count /\ win_count \in {0, N}
  BY DEF WinInv, InLoop, WinTypeOK
<1>2. win_count = N /\ i \in 0 .. N - 1
  BY <1>1, WinConstants
<1>3. client = N + 1 /\ w \in [0 .. N - 1 -> Windows]
  BY <1>2 DEF WinInv, Filled, WinTypeOK
<1>4. w[i] \in Windows /\ w[0] \in Windows
  BY <1>2, <1>3, WinConstants
<1>5. w[i].id \in 1 .. N /\ w[0].id \in 1 .. N
  BY <1>2, <1>3, WinConstants DEF WinInv, Filled
<1>. QED BY <1>1, <1>2, <1>3, <1>4, <1>5 DEF Windows

(* g is f with y of window j set to v.                                     *)
SetYIn(f, j, v, g) ==
    /\ g \in [0 .. N - 1 -> Windows]
    /\ g[j].id = f[j].id /\ g[j].dragged = f[j].dragged /\ g[j].y = v
    /\ \A k \in 0 .. N - 1 : k # j => g[k] = f[k]

(* [f EXCEPT ![j].y = v] changes y of window j only.                       *)
LEMMA SetY ==
    ASSUME NEW f \in [0 .. N - 1 -> Windows], NEW j \in 0 .. N - 1, NEW v \in Int
    PROVE  SetYIn(f, j, v, [f EXCEPT ![j].y = v])
<1>. DEFINE g == [f EXCEPT ![j].y = v]
<1>. DEFINE a == f[j]
            b == [a EXCEPT !.y = v]
<1>1. a \in Windows
  OBVIOUS
<1>2. g = [f EXCEPT ![j] = b]
  OBVIOUS
<1>3. b \in Windows /\ b.id = a.id /\ b.dragged = a.dragged /\ b.y = v
  <2>. HIDE DEF a
  <2>. QED BY <1>1 DEF Windows
<1>. HIDE DEF b
<1>4. g = [f EXCEPT ![j] = b]
  BY <1>2
<1>. HIDE DEF g
<1>5. SetYIn(f, j, v, g)
  BY <1>3, <1>4 DEF SetYIn
<1>. QED BY <1>5 DEF g

(* g is f with dragged of window j set to v.                               *)
SetDraggedIn(f, j, v, g) ==
    /\ g \in [0 .. N - 1 -> Windows]
    /\ g[j].id = f[j].id /\ g[j].y = f[j].y /\ (g[j].dragged <=> v)
    /\ \A k \in 0 .. N - 1 : k # j => g[k] = f[k]

(* [f EXCEPT ![j].dragged = v] changes dragged of window j only.           *)
LEMMA SetDragged ==
    ASSUME NEW f \in [0 .. N - 1 -> Windows], NEW j \in 0 .. N - 1, NEW v \in BOOLEAN
    PROVE  SetDraggedIn(f, j, v, [f EXCEPT ![j].dragged = v])
<1>. DEFINE g == [f EXCEPT ![j].dragged = v]
<1>. DEFINE a == f[j]
            b == [a EXCEPT !.dragged = v]
<1>1. a \in Windows
  OBVIOUS
<1>2. g = [f EXCEPT ![j] = b]
  OBVIOUS
<1>3. b \in Windows /\ b.id = a.id /\ b.y = a.y /\ (b.dragged <=> v)
  <2>. HIDE DEF a
  <2>. QED BY <1>1 DEF Windows
<1>. HIDE DEF b
<1>4. g = [f EXCEPT ![j] = b]
  BY <1>2
<1>. HIDE DEF g
<1>5. SetDraggedIn(f, j, v, g)
  BY <1>3, <1>4 DEF SetDraggedIn
<1>. QED BY <1>5 DEF g

(* Which windows there are does not depend on where they are.              *)
LEMMA SameIds ==
    ASSUME WinInv, UNCHANGED <<win_count, client>>,
           \A k \in 0 .. N - 1 : w'[k].id = w[k].id
    PROVE  Filled' /\ Kept'
BY DEF WinInv, Filled, Kept

-----------------------------------------------------------------------------
(* The mouse and the client.                                               *)

(* A report in the middle of a pass ends what is known of the drag.        *)
LEMMA MouseReportsInv ==
    ASSUME WinInv, W!MouseReports
    PROVE  WinInv'
<1>1. /\ UNCHANGED <<w, win_count, client, pc, i, drag_y, drag_wy, focus, seen>>
      /\ mouse_y' \in Screen /\ mouse_left' \in BOOLEAN
      /\ torn' = (torn \/ pc # "sleep")
  BY DEF W!MouseReports, W!locals
<1>2. WinTypeOK'
  BY <1>1, WinConstants DEF WinInv, WinTypeOK
<1>3. Filled' /\ Kept'
  BY <1>1, SameIds
<1>4. InLoop'
  BY <1>1 DEF WinInv, InLoop
<1>5. ASSUME ~torn' PROVE FirstDragged' /\ FirstLoop' /\ SecondLoop'
  <2>1. ~torn /\ pc = "sleep"
    BY <1>1, <1>5
  <2>. QED BY <1>1, <2>1 DEF WinInv, FirstDragged, FirstLoop, SecondLoop, AtWindow, HeaderAt
<1>. QED BY <1>2, <1>3, <1>4, <1>5 DEF WinInv

(* The client fills a window that the server does not see yet.             *)
LEMMA ClientFillsInv ==
    ASSUME WinInv, W!ClientFills
    PROVE  WinInv'
<1>. DEFINE new == [id |-> client', y |-> Top, dragged |-> FALSE]
<1>1. /\ UNCHANGED <<mouse_y, mouse_left, torn, win_count, pc, i, drag_y, drag_wy, focus, seen>>
      /\ client < N /\ client' = client + 1
      /\ w' = [w EXCEPT ![client] = new]
  BY DEF W!ClientFills, W!mouse, W!locals
<1>2. client \in 0 .. N - 1 /\ client \in Nat /\ client + 1 \in 1 .. N
  BY <1>1, WinConstants DEF WinInv, WinTypeOK
<1>3. new \in Windows /\ new.id = client + 1 /\ new.dragged = FALSE
  BY <1>1, <1>2, WinConstants DEF Windows
<1>. HIDE DEF new
<1>4. /\ w' \in [0 .. N - 1 -> Windows] /\ w'[client] = new
      /\ \A k \in 0 .. N - 1 : k # client => w'[k] = w[k]
  BY <1>1, <1>2, <1>3 DEF WinInv, WinTypeOK
<1>5. win_count = 0
  BY <1>1, <1>2, WinConstants DEF WinInv, Filled, WinTypeOK
<1>6. WinTypeOK'
  BY <1>1, <1>2, <1>4, WinConstants DEF WinInv, WinTypeOK
<1>7. client' # N + 1 /\ client' <= N
  BY <1>1, <1>2, WinConstants
<1>8. Filled'
  <2>1. ASSUME NEW k \in 0 .. N - 1 PROVE w'[k].id = IF k < client' THEN k + 1 ELSE 0
    <3>1. CASE k = client
      BY <1>1, <1>2, <1>3, <1>4, <3>1
    <3>2. CASE k # client
      <4>1. w'[k] = w[k] /\ w[k].id = IF k < client THEN k + 1 ELSE 0
        BY <1>1, <1>2, <1>4, <3>2, WinConstants DEF WinInv, Filled
      <4>. QED BY <1>1, <1>2, <3>2, <4>1
    <3>. QED BY <3>1, <3>2
  <2>2. win_count' # N
    BY <1>1, <1>5, WinConstants
  <2>. QED BY <1>7, <2>1, <2>2 DEF Filled
<1>9. Kept'
  BY <1>7 DEF Kept
<1>10. InLoop' /\ (pc = "move" => i = 0) /\ pc \notin AtWindow
  BY <1>1, <1>5 DEF WinInv, InLoop, WinTypeOK
<1>11. ASSUME ~torn' PROVE FirstDragged' /\ FirstLoop' /\ SecondLoop'
  <2>1. FirstDragged /\ FirstLoop /\ SecondLoop
    BY <1>1, <1>11 DEF WinInv
  <2>2. ~w[0].dragged /\ \A k \in 1 .. N - 1 : ~w[k].dragged
    BY <1>5, <2>1, WinConstants DEF FirstDragged
  <2>3. ~w'[0].dragged /\ \A k \in 1 .. N - 1 : ~w'[k].dragged
    <3>1. \A k \in 0 .. N - 1 : ~w[k].dragged
      BY <2>2, WinConstants
    <3>2. \A k \in 0 .. N - 1 : ~w'[k].dragged
      BY <1>3, <1>4, <3>1
    <3>. QED BY <3>2, WinConstants
  <2>. QED BY <1>1, <1>10, <2>3 DEF FirstDragged, FirstLoop, SecondLoop, AtWindow
<1>. QED BY <1>6, <1>8, <1>9, <1>10, <1>11 DEF WinInv

(* All windows are filled when the client shows them.                      *)
LEMMA ClientShowsInv ==
    ASSUME WinInv, W!ClientShows
    PROVE  WinInv'
<1>1. /\ UNCHANGED <<mouse_y, mouse_left, torn, w, pc, i, drag_y, drag_wy, focus, seen>>
      /\ client = N /\ client' = N + 1 /\ win_count' = N
  BY DEF W!ClientShows, W!mouse, W!locals
<1>2. win_count = 0
  BY <1>1, WinConstants DEF WinInv, Filled, WinTypeOK
<1>3. WinTypeOK'
  BY <1>1, WinConstants DEF WinInv, WinTypeOK
<1>4. \A k \in 0 .. N - 1 : w'[k].id = k + 1
  BY <1>1, WinConstants DEF WinInv, Filled
<1>5. Filled'
  <2>1. \A k \in 0 .. N - 1 : w'[k].id \in 1 .. N
    BY <1>4, WinConstants
  <2>. QED BY <1>1, <2>1, WinConstants DEF Filled
<1>6. Kept'
  <2>1. ASSUME NEW m \in 1 .. N PROVE \E k \in 0 .. N - 1 : w'[k].id = m
    <3>1. m - 1 \in 0 .. N - 1 /\ (m - 1) + 1 = m
      BY WinConstants
    <3>. QED BY <1>4, <3>1
  <2>. QED BY <2>1 DEF Kept
<1>7. pc \notin AtWindow /\ (pc = "move" => i = 0)
  BY <1>2 DEF WinInv, InLoop, WinTypeOK
<1>8. InLoop'
  BY <1>1, <1>7, WinConstants DEF InLoop
<1>9. ASSUME ~torn' PROVE FirstDragged' /\ FirstLoop' /\ SecondLoop'
  BY <1>1, <1>2, <1>7, <1>9 DEF WinInv, FirstDragged, FirstLoop, SecondLoop, AtWindow
<1>. QED BY <1>3, <1>5, <1>6, <1>8, <1>9 DEF WinInv

-----------------------------------------------------------------------------
(* The server.                                                             *)

(* A step that only moves the server on keeps the windows and the locals.  *)
StillWindows == UNCHANGED <<mouse_y, mouse_left, torn, w, win_count, client, drag_y, drag_wy>>

(* Such a step keeps which windows there are.                              *)
LEMMA StillKept ==
    ASSUME WinInv, StillWindows
    PROVE  Filled' /\ Kept'
<1>1. UNCHANGED <<win_count, client>> /\ \A k \in 0 .. N - 1 : w'[k].id = w[k].id
  BY DEF StillWindows
<1>. QED BY <1>1, SameIds

(* At the end of the first loop the second one starts, if there is any     *)
(* window.                                                                 *)
LEMMA ToDrawGoes ==
    ASSUME WinInv, W!ToDraw
    PROVE  \/ win_count = N /\ pc' = "draw" /\ i' = N - 1 /\ i' \in Nat
           \/ win_count = 0 /\ pc' = "end" /\ i' = 0
<1>1. win_count \in {0, N}
  BY DEF WinInv, WinTypeOK
<1>. QED BY <1>1, WinConstants DEF W!ToDraw, W!Goto

(* The second loop goes on, or ends after the first window.                *)
LEMMA DrawNextGoes ==
    ASSUME WinInv, W!DrawNext
    PROVE  \/ i > 0 /\ pc' = "draw" /\ i' = i - 1 /\ i' \in Nat
           \/ i = 0 /\ pc' = "end" /\ i' = 0
<1>1. i \in Nat
  BY DEF WinInv, WinTypeOK
<1>. QED BY <1>1 DEF W!DrawNext, W!Goto

(* A window that is dragged follows the mouse with its header.             *)
LEMMA MoveInv ==
    ASSUME WinInv, W!Move
    PROVE  WinInv'
<1>1. /\ pc = "move"
      /\ UNCHANGED <<mouse_y, mouse_left, torn, win_count, client, drag_y, drag_wy, focus, seen>>
  BY DEF W!Move, W!mouse, W!locals
<1>2. i \in Nat /\ i <= win_count /\ win_count \in {0, N} /\ w \in [0 .. N - 1 -> Windows]
  BY <1>1 DEF WinInv, InLoop, WinTypeOK
<1>3. CASE i < win_count
  <2>. DEFINE new == drag_wy + (mouse_y - drag_y)
  <2>1. /\ pc' = "hit" /\ i' = i
        /\ w' = IF w[i].dragged THEN [w EXCEPT ![i].y = new] ELSE w
    BY <1>1, <1>3 DEF W!Move, W!Goto
  <2>2. new \in Int
    BY DEF WinInv, WinTypeOK
  <2>3. win_count = N /\ i \in 0 .. N - 1
    BY <1>2, <1>3, WinConstants
  <2>. HIDE DEF new
  <2>4. /\ w' \in [0 .. N - 1 -> Windows]
        /\ w'[i].id = w[i].id /\ w'[i].dragged = w[i].dragged
        /\ w[i].dragged => w'[i].y = new
        /\ ~w[i].dragged => w' = w
        /\ \A k \in 0 .. N - 1 : k # i => w'[k] = w[k]
    <3>1. CASE w[i].dragged
      <4>1. w' = [w EXCEPT ![i].y = new]
        BY <2>1, <3>1
      <4>2. SetYIn(w, i, new, [w EXCEPT ![i].y = new])
        BY <1>2, <2>2, <2>3, SetY
      <4>3. SetYIn(w, i, new, w')
        BY <4>1, <4>2
      <4>. QED BY <3>1, <4>3 DEF SetYIn
    <3>2. CASE ~w[i].dragged
      BY <1>2, <2>1, <3>2
    <3>. QED BY <3>1, <3>2
  <2>5. \A k \in 0 .. N - 1 : w'[k].id = w[k].id
    BY <2>4
  <2>6. WinTypeOK'
    BY <1>1, <2>1, <2>4 DEF WinInv, WinTypeOK, AtWindow
  <2>7. Filled' /\ Kept'
    BY <1>1, <2>5, SameIds
  <2>8. InLoop'
    BY <1>1, <1>3, <2>1 DEF InLoop
  <2>9. ASSUME ~torn' PROVE FirstDragged' /\ FirstLoop' /\ SecondLoop'
    <3>1. FirstDragged /\ FirstLoop
      BY <1>1, <2>9 DEF WinInv
    <3>2. \A k \in 0 .. N - 1 : w'[k].dragged = w[k].dragged
      BY <2>4
    <3>3. FirstDragged'
      BY <1>1, <3>1, <3>2, WinConstants DEF FirstDragged, HeaderAt
    <3>4. w[0].dragged => i = 0
      BY <1>1, <3>1 DEF FirstLoop
    <3>5. ASSUME NEW k \in 0 .. N - 1, k < i PROVE ~W!InBounds(w'[k], mouse_y)
      <4>1. w'[k] = w[k] /\ ~W!InBounds(w[k], mouse_y)
        BY <1>1, <2>4, <3>1, <3>5 DEF FirstLoop
      <4>. QED BY <4>1
    <3>6. ASSUME w'[0].dragged PROVE HeaderAt(w'[0].y, mouse_y)
      <4>1. w[0].dragged
        BY <3>2, <3>6, WinConstants
      <4>2. i = 0 /\ w'[0].y = new /\ HeaderAt(drag_wy, drag_y)
        BY <2>4, <3>1, <3>4, <4>1 DEF FirstDragged
      <4>3. drag_wy \in Int /\ drag_y \in Int /\ mouse_y \in Int
        BY DEF WinInv, WinTypeOK
      <4>. QED BY <4>2, <4>3, WinConstants DEF HeaderAt, new
    <3>7. FirstLoop'
      <4>1. w'[0].dragged => i' = 0
        BY <2>1, <3>2, <3>4, WinConstants
      <4>2. \A k \in 0 .. N - 1 : k < i' => ~W!InBounds(w'[k], mouse_y')
        BY <1>1, <2>1, <3>5
      <4>3. w'[0].dragged => HeaderAt(w'[0].y, mouse_y')
        BY <1>1, <3>6
      <4>. QED BY <2>1, <4>1, <4>2, <4>3 DEF FirstLoop, HeaderAt
    <3>. QED BY <2>1, <3>3, <3>7 DEF SecondLoop
  <2>. QED BY <2>6, <2>7, <2>8, <2>9 DEF WinInv
<1>4. CASE ~(i < win_count)
  <2>1. w' = w /\ W!ToDraw /\ i = win_count
    BY <1>1, <1>2, <1>4, WinConstants DEF W!Move
  <2>2. \/ win_count = N /\ pc' = "draw" /\ i' = N - 1 /\ i' \in Nat
        \/ win_count = 0 /\ pc' = "end" /\ i' = 0
    BY <2>1, ToDrawGoes
  <2>3. WinTypeOK'
    BY <1>1, <2>1, <2>2 DEF WinInv, WinTypeOK, AtWindow
  <2>4. Filled' /\ Kept'
    BY <1>1, <2>1, StillKept DEF StillWindows
  <2>5. InLoop'
    BY <1>1, <2>2, WinConstants DEF InLoop, AtWindow
  <2>6. ASSUME ~torn' PROVE FirstDragged' /\ FirstLoop' /\ SecondLoop'
    <3>1. FirstDragged /\ FirstLoop
      BY <1>1, <2>6 DEF WinInv
    <3>2. ~w[0].dragged
      <4>1. SUFFICES ASSUME w[0].dragged PROVE FALSE
        OBVIOUS
      <4>2. i = 0 /\ win_count = N
        BY <1>1, <3>1, <4>1 DEF FirstDragged, FirstLoop
      <4>. QED BY <2>1, <4>2, WinConstants
    <3>3. FirstDragged'
      BY <1>1, <2>1, <3>1, <3>2 DEF FirstDragged
    <3>4. FirstLoop'
      BY <2>1, <2>2, <3>2 DEF FirstLoop
    <3>5. pc' = "draw" => \A k \in 0 .. N - 1 : ~W!InBounds(w'[k], mouse_y')
      <4>1. SUFFICES ASSUME pc' = "draw", NEW k \in 0 .. N - 1
                     PROVE  ~W!InBounds(w'[k], mouse_y')
        OBVIOUS
      <4>2. k < i
        BY <2>1, <2>2, <4>1, WinConstants
      <4>. QED BY <1>1, <2>1, <3>1, <4>2 DEF FirstLoop
    <3>6. SecondLoop'
      BY <2>1, <2>2, <3>2, <3>5 DEF SecondLoop
    <3>. QED BY <3>3, <3>4, <3>6
  <2>. QED BY <2>3, <2>4, <2>5, <2>6 DEF WinInv
<1>. QED BY <1>3, <1>4

(* A window whose header is under the mouse is hit.                        *)
LEMMA HitInv ==
    ASSUME WinInv, W!Hit
    PROVE  WinInv'
<1>1. /\ pc = "hit"
      /\ UNCHANGED <<mouse_y, mouse_left, torn, w, win_count, client, drag_y, drag_wy, focus, seen>>
      /\ \/ W!InBounds(w[i], mouse_y) /\ pc' = "click" /\ i' = i
         \/ ~W!InBounds(w[i], mouse_y) /\ pc' = "move" /\ i' = i + 1
  BY DEF W!Hit, W!mouse, W!locals, W!Goto
<1>2. /\ win_count = N /\ i \in 0 .. N - 1 /\ i \in Nat
      /\ w[0].id \in 1 .. N /\ w[0].y \in Int
  BY <1>1, AtWindowFacts DEF AtWindow
<1>3. WinTypeOK'
  <2>1. i' \in Nat /\ pc' \in AtWindow \cup {"move", "end", "sleep"}
    BY <1>1, <1>2 DEF AtWindow
  <2>. QED BY <1>1, <2>1 DEF WinInv, WinTypeOK
<1>4. Filled' /\ Kept'
  BY <1>1, StillKept DEF StillWindows
<1>5. InLoop'
  BY <1>1, <1>2, WinConstants DEF InLoop, AtWindow
<1>6. ASSUME ~torn' PROVE FirstDragged' /\ FirstLoop' /\ SecondLoop'
  <2>1. FirstDragged /\ FirstLoop
    BY <1>1, <1>6 DEF WinInv
  <2>2. FirstDragged'
    BY <1>1, <2>1 DEF FirstDragged, HeaderAt
  <2>3. /\ w[0].dragged => i = 0 /\ HeaderAt(w[0].y, mouse_y)
        /\ \A k \in 0 .. N - 1 : k < i => ~W!InBounds(w[k], mouse_y)
    BY <1>1, <2>1 DEF FirstLoop, AtWindow
  <2>4. w[0].dragged => W!InBounds(w[i], mouse_y)
    <3>1. mouse_y \in Int
      BY DEF WinInv, WinTypeOK
    <3>. QED BY <1>2, <2>3, <3>1, InHeaderAt
  <2>5. CASE W!InBounds(w[i], mouse_y)
    <3>1. pc' = "click" /\ i' = i
      BY <1>1, <2>5
    <3>2. W!InBounds(w[i], mouse_y)'
      BY <1>1, <2>5, <3>1
    <3>3. \A k \in 0 .. N - 1 : k < i' => ~W!InBounds(w'[k], mouse_y')
      BY <1>1, <2>3, <3>1
    <3>4. FirstLoop'
      BY <1>1, <2>3, <3>1, <3>2, <3>3 DEF FirstLoop, HeaderAt
    <3>. QED BY <2>2, <3>1, <3>4 DEF SecondLoop
  <2>6. CASE ~W!InBounds(w[i], mouse_y)
    <3>1. pc' = "move" /\ i' = i + 1 /\ ~w[0].dragged
      BY <1>1, <2>4, <2>6
    <3>2. \A k \in 0 .. N - 1 : k < i' => ~W!InBounds(w'[k], mouse_y')
      <4>1. SUFFICES ASSUME NEW k \in 0 .. N - 1, k < i + 1
                     PROVE  ~W!InBounds(w[k], mouse_y)
        BY <1>1, <3>1
      <4>2. k < i \/ k = i
        BY <1>2, <4>1, WinConstants
      <4>. QED BY <2>3, <2>6, <4>2
    <3>3. FirstLoop'
      BY <1>1, <3>1, <3>2 DEF FirstLoop, AtWindow
    <3>. QED BY <2>2, <3>1, <3>3 DEF SecondLoop
  <2>. QED BY <2>5, <2>6
<1>. QED BY <1>3, <1>4, <1>5, <1>6 DEF WinInv

(* Raising the first window changes nothing; raising the second exchanges  *)
(* the two.                                                                *)
LEMMA RaisedKeeps ==
    ASSUME WinInv, pc \in AtWindow, w' = W!Raised(i)
    PROVE  /\ w' \in [0 .. N - 1 -> Windows]
           /\ w'[0] = w[i]
           /\ \A k \in 0 .. N - 1 : \E j \in 0 .. N - 1 : w'[k] = w[j]
           /\ i = 0 => w' = w
           /\ N <= 2 => \A k \in 0 .. N - 1 : \E j \in 0 .. N - 1 : w'[j] = w[k]
<1>1. w \in [0 .. N - 1 -> Windows] /\ i \in 0 .. N - 1 /\ i \in Nat /\ N \in Nat \ {0}
  BY AtWindowFacts, WinConstants DEF WinInv, WinTypeOK
<1>2. w' = [j \in 0 .. N - 1 |-> IF j = 0 THEN w[i] ELSE IF j <= i THEN w[0] ELSE w[j]]
  BY <1>1 DEF W!Raised
<1>3. w' \in [0 .. N - 1 -> Windows] /\ w'[0] = w[i]
  BY <1>1, <1>2, WinConstants
<1>4. \A k \in 0 .. N - 1 : \E j \in 0 .. N - 1 : w'[k] = w[j]
  BY <1>1, <1>2, WinConstants
<1>5. ASSUME i = 0 PROVE w' = w
  <2>1. \A k \in 0 .. N - 1 : w'[k] = w[k]
    BY <1>1, <1>2, <1>5
  <2>. QED BY <1>1, <1>3, <2>1
<1>6. ASSUME N <= 2, NEW k \in 0 .. N - 1 PROVE \E j \in 0 .. N - 1 : w'[j] = w[k]
  <2>1. CASE i = 0
    BY <1>5, <2>1
  <2>2. CASE i # 0
    <3>1. i = 1 /\ N = 2 /\ (k = 0 \/ k = 1)
      BY <1>1, <1>6, <2>2
    <3>2. w'[0] = w[1] /\ w'[1] = w[0]
      BY <1>1, <1>2, <3>1
    <3>3. 0 \in 0 .. N - 1 /\ 1 \in 0 .. N - 1
      BY <3>1
    <3>. QED BY <3>1, <3>2, <3>3
  <2>. QED BY <2>1, <2>2
<1>. QED BY <1>3, <1>4, <1>5, <1>6

(* The window under the mouse is raised, or gets the focus.                *)
LEMMA ClickInv ==
    ASSUME WinInv, W!Click
    PROVE  WinInv'
<1>1. /\ pc = "click" /\ pc \in AtWindow
      /\ UNCHANGED <<mouse_y, mouse_left, torn, win_count, client, drag_y, drag_wy, seen>>
      /\ W!ToDraw
      /\ IF mouse_left THEN w' = W!Raised(i) /\ focus' = 0 ELSE focus' = i /\ w' = w
  BY DEF W!Click, W!mouse, W!locals, AtWindow
<1>2. /\ win_count = N /\ client = N + 1
      /\ i \in 0 .. N - 1 /\ i \in Nat
  BY <1>1, AtWindowFacts
<1>3. pc' = "draw" /\ i' = N - 1 /\ i' \in Nat
  BY <1>1, <1>2, ToDrawGoes, WinConstants
<1>4. /\ w' \in [0 .. N - 1 -> Windows]
      /\ \A k \in 0 .. N - 1 : \E j \in 0 .. N - 1 : w'[k] = w[j]
      /\ i = 0 => w' = w
      /\ N <= 2 => \A k \in 0 .. N - 1 : \E j \in 0 .. N - 1 : w'[j] = w[k]
  <2>1. CASE mouse_left
    BY <1>1, <2>1, RaisedKeeps
  <2>2. CASE ~mouse_left
    BY <1>1, <2>2 DEF WinInv, WinTypeOK
  <2>. QED BY <2>1, <2>2
<1>5. focus' \in Nat
  BY <1>1, <1>2
<1>6. WinTypeOK'
  BY <1>1, <1>3, <1>4, <1>5 DEF WinInv, WinTypeOK, AtWindow
<1>7. Filled'
  <2>1. \A k \in 0 .. N - 1 : w[k].id \in 1 .. N
    BY <1>2 DEF WinInv, Filled
  <2>2. \A k \in 0 .. N - 1 : w'[k].id \in 1 .. N
    BY <1>4, <2>1
  <2>. QED BY <1>1, <1>2, <2>2, WinConstants DEF Filled
<1>8. Kept'
  <2>1. SUFFICES ASSUME N <= 2, NEW m \in 1 .. N
                 PROVE  \E k \in 0 .. N - 1 : w'[k].id = m
    BY DEF Kept
  <2>2. PICK k \in 0 .. N - 1 : w[k].id = m
    BY <1>2, <2>1 DEF WinInv, Kept
  <2>. QED BY <1>4, <2>1, <2>2
<1>9. InLoop'
  BY <1>1, <1>2, <1>3, WinConstants DEF InLoop
<1>10. ASSUME ~torn' PROVE FirstDragged' /\ FirstLoop' /\ SecondLoop'
  <2>1. FirstDragged /\ FirstLoop
    BY <1>1, <1>10 DEF WinInv
  <2>2. /\ w[0].dragged => i = 0 /\ focus = 0 /\ HeaderAt(w[0].y, mouse_y) /\ HeaderAt(drag_wy, drag_y)
        /\ \A k \in 1 .. N - 1 : ~w[k].dragged
    BY <1>1, <2>1 DEF FirstLoop, FirstDragged
  <2>3. CASE i = 0
    <3>1. w' = w /\ focus' = 0
      BY <1>1, <1>4, <2>3
    <3>2. FirstDragged'
      BY <1>1, <1>2, <2>2, <3>1 DEF FirstDragged, HeaderAt
    <3>3. FirstLoop'
      BY <1>1, <1>3, <2>2, <3>1 DEF FirstLoop, HeaderAt
    <3>4. SecondLoop'
      BY <1>3, <3>1 DEF SecondLoop
    <3>. QED BY <3>2, <3>3, <3>4
  <2>4. CASE i # 0
    <3>1. \A k \in 0 .. N - 1 : ~w[k].dragged
      BY <2>2, <2>4, WinConstants
    <3>2. \A k \in 0 .. N - 1 : ~w'[k].dragged
      BY <1>4, <3>1
    <3>3. ~w'[0].dragged /\ \A k \in 1 .. N - 1 : ~w'[k].dragged
      BY <3>2, WinConstants
    <3>4. mouse_left' => focus' = 0
      BY <1>1
    <3>. QED BY <1>3, <3>3, <3>4 DEF FirstDragged, FirstLoop, SecondLoop
  <2>. QED BY <2>3, <2>4
<1>. QED BY <1>6, <1>7, <1>8, <1>9, <1>10 DEF WinInv

(* The invariant after a step of the second loop that only moves on.       *)
LEMMA LoopStep ==
    ASSUME WinInv, pc \in {"draw", "press", "grab", "release"},
           StillWindows, UNCHANGED <<focus, seen>>,
           i' \in Nat, i' <= i, pc' \in {"draw", "press", "grab", "release", "end"},
           ~torn => SecondLoop'
    PROVE  WinInv'
<1>1. pc \in AtWindow
  BY DEF AtWindow
<1>2. win_count = N /\ i \in 0 .. N - 1 /\ i \in Nat
  BY <1>1, AtWindowFacts
<1>3. WinTypeOK'
  BY DEF WinInv, WinTypeOK, AtWindow, StillWindows
<1>4. InLoop'
  BY <1>2, WinConstants DEF InLoop, StillWindows
<1>5. ASSUME ~torn' PROVE FirstDragged' /\ FirstLoop' /\ SecondLoop'
  <2>1. FirstDragged /\ FirstLoop /\ ~torn
    BY <1>5 DEF WinInv, StillWindows
  <2>2. FirstDragged'
    BY <2>1 DEF FirstDragged, StillWindows, HeaderAt
  <2>3. FirstLoop'
    BY <1>1, <2>1 DEF FirstLoop, StillWindows, HeaderAt
  <2>. QED BY <2>1, <2>2, <2>3
<1>. QED BY <1>3, <1>4, <1>5, StillKept DEF WinInv

(* Only the window with the focus looks at the mouse.                      *)
LEMMA DrawInv ==
    ASSUME WinInv, W!Draw
    PROVE  WinInv'
<1>1. /\ pc = "draw" /\ pc \in AtWindow
      /\ StillWindows /\ UNCHANGED <<focus, seen>>
      /\ \/ i # focus /\ W!DrawNext
         \/ i = focus /\ W!InHeader(w[i], mouse_y) /\ pc' = "press" /\ i' = i
         \/ i = focus /\ ~W!InHeader(w[i], mouse_y) /\ pc' = "release" /\ i' = i
  BY DEF W!Draw, W!mouse, W!locals, W!Goto, AtWindow, StillWindows
<1>2. i \in Nat /\ w[i].y \in Int /\ mouse_y \in Int
  BY <1>1, AtWindowFacts DEF WinInv, WinTypeOK
<1>3. i' \in Nat /\ i' <= i /\ pc' \in {"draw", "press", "grab", "release", "end"}
  BY <1>1, <1>2, DrawNextGoes
<1>4. ASSUME ~torn PROVE SecondLoop'
  <2>1. FirstDragged /\ SecondLoop
    BY <1>4 DEF WinInv
  <2>2. \/ mouse_left' => focus' = 0
        \/ \A k \in 0 .. N - 1 : ~W!InBounds(w'[k], mouse_y')
    BY <1>1, <2>1 DEF SecondLoop, StillWindows
  <2>3. pc' \in {"press", "release"} => i' = focus'
    BY <1>1, DrawNextGoes
  <2>4. pc' = "press" => HeaderAt(w'[i'].y, mouse_y')
    <3>1. SUFFICES ASSUME pc' = "press" PROVE HeaderAt(w[i].y, mouse_y)
      BY <1>1, DrawNextGoes DEF StillWindows, HeaderAt
    <3>2. W!InHeader(w[i], mouse_y)
      BY <1>1, <3>1, DrawNextGoes
    <3>. QED BY <1>2, <3>2, InHeaderAt
  <2>5. pc' # "grab" /\ pc' # "sleep"
    BY <1>1, DrawNextGoes
  <2>6. pc' = "end" => ~w'[0].dragged
    <3>1. SUFFICES ASSUME pc' = "end" PROVE ~w[0].dragged
      BY <1>1 DEF StillWindows
    <3>2. i = 0 /\ focus # 0
      BY <1>1, <3>1, DrawNextGoes
    <3>. QED BY <2>1, <3>2 DEF FirstDragged
  <2>. QED BY <2>2, <2>3, <2>4, <2>5, <2>6 DEF SecondLoop, HeaderAt
<1>. QED BY <1>1, <1>3, <1>4, LoopStep

(* A drag begins with the button down, unless one is under way.            *)
LEMMA PressInv ==
    ASSUME WinInv, W!Press
    PROVE  WinInv'
<1>1. /\ pc = "press" /\ pc \in AtWindow
      /\ StillWindows /\ UNCHANGED <<focus, seen>> /\ i' = i
      /\ \/ mouse_left /\ ~w[0].dragged /\ pc' = "grab"
         \/ ~(mouse_left /\ ~w[0].dragged) /\ pc' = "release"
  BY DEF W!Press, W!mouse, W!locals, W!Goto, AtWindow, StillWindows
<1>2. i' \in Nat /\ i' <= i
  BY <1>1, AtWindowFacts
<1>3. ASSUME ~torn PROVE SecondLoop'
  <2>1. SecondLoop
    BY <1>3 DEF WinInv
  <2>. QED BY <1>1, <2>1 DEF SecondLoop, StillWindows, HeaderAt
<1>. QED BY <1>1, <1>2, <1>3, LoopStep

(* The window that is grabbed has its header under the mouse, so it is the *)
(* one that was raised.                                                    *)
LEMMA GrabInv ==
    ASSUME WinInv, W!Grab
    PROVE  WinInv'
<1>1. /\ pc = "grab" /\ pc \in AtWindow
      /\ UNCHANGED <<mouse_y, mouse_left, torn, win_count, client, focus, seen>>
      /\ w' = [w EXCEPT ![i].dragged = TRUE]
      /\ drag_y' = mouse_y /\ drag_wy' = w[i].y
      /\ W!DrawNext
  BY DEF W!Grab, W!mouse, AtWindow
<1>2. /\ win_count = N /\ i \in 0 .. N - 1 /\ i \in Nat
      /\ w[i].id \in 1 .. N /\ w[i].y \in Int
      /\ w \in [0 .. N - 1 -> Windows] /\ mouse_y \in Int
  BY <1>1, AtWindowFacts DEF WinInv, WinTypeOK
<1>3. SetDraggedIn(w, i, TRUE, [w EXCEPT ![i].dragged = TRUE])
  BY <1>2, SetDragged
<1>4. SetDraggedIn(w, i, TRUE, w')
  BY <1>1, <1>3
<1>5. /\ w' \in [0 .. N - 1 -> Windows]
      /\ w'[i].id = w[i].id /\ w'[i].y = w[i].y
      /\ \A k \in 0 .. N - 1 : k # i => w'[k] = w[k]
  BY <1>4 DEF SetDraggedIn
<1>6. i' \in Nat /\ i' <= i /\ pc' \in {"draw", "end"} /\ (pc' = "end" <=> i = 0)
  BY <1>1, <1>2, DrawNextGoes
<1>7. WinTypeOK'
  BY <1>1, <1>2, <1>5, <1>6 DEF WinInv, WinTypeOK, AtWindow
<1>8. Filled' /\ Kept'
  <2>1. \A k \in 0 .. N - 1 : w'[k].id = w[k].id
    BY <1>5
  <2>. QED BY <1>1, <2>1, SameIds
<1>9. InLoop'
  BY <1>1, <1>2, <1>6, WinConstants DEF InLoop
<1>10. ASSUME ~torn' PROVE FirstDragged' /\ FirstLoop' /\ SecondLoop'
  <2>1. FirstDragged /\ SecondLoop
    BY <1>1, <1>10 DEF WinInv
  <2>2. mouse_left /\ i = focus /\ HeaderAt(w[i].y, mouse_y)
    BY <1>1, <2>1 DEF SecondLoop
  <2>3. W!InBounds(w[i], mouse_y)
    BY <1>2, <2>2, InHeaderAt
  <2>4. i = 0 /\ focus = 0
    BY <1>1, <1>2, <2>1, <2>2, <2>3 DEF SecondLoop
  <2>5. \A k \in 1 .. N - 1 : ~w'[k].dragged
    <3>1. \A k \in 1 .. N - 1 : ~w[k].dragged /\ w'[k] = w[k]
      BY <1>5, <2>1, <2>4, WinConstants DEF FirstDragged
    <3>. QED BY <3>1
  <2>6. FirstDragged'
    BY <1>1, <1>2, <2>2, <2>4, <2>5 DEF FirstDragged, HeaderAt
  <2>7. HeaderAt(w'[0].y, mouse_y')
    BY <1>1, <1>5, <2>2, <2>4 DEF HeaderAt
  <2>8. FirstLoop'
    BY <1>6, <2>4, <2>7 DEF FirstLoop, HeaderAt
  <2>9. SecondLoop'
    BY <1>1, <1>6, <2>2, <2>4 DEF SecondLoop
  <2>. QED BY <2>6, <2>8, <2>9
<1>. QED BY <1>7, <1>8, <1>9, <1>10 DEF WinInv

(* Without the button the window with the focus is dragged no more.        *)
LEMMA ReleaseInv ==
    ASSUME WinInv, W!Release
    PROVE  WinInv'
<1>1. /\ pc = "release" /\ pc \in AtWindow
      /\ UNCHANGED <<mouse_y, mouse_left, torn, win_count, client, drag_y, drag_wy, focus, seen>>
      /\ w' = IF mouse_left THEN w ELSE [w EXCEPT ![i].dragged = FALSE]
      /\ W!DrawNext
  BY DEF W!Release, W!mouse, W!locals, AtWindow
<1>2. /\ win_count = N /\ i \in 0 .. N - 1 /\ i \in Nat
      /\ w \in [0 .. N - 1 -> Windows] /\ mouse_left \in BOOLEAN
  BY <1>1, AtWindowFacts DEF WinInv, WinTypeOK
<1>3. i' \in Nat /\ i' <= i /\ pc' \in {"draw", "end"} /\ (pc' = "end" <=> i = 0)
  BY <1>1, <1>2, DrawNextGoes
<1>4. CASE mouse_left
  <2>1. StillWindows /\ UNCHANGED <<focus, seen>>
    BY <1>1, <1>4 DEF StillWindows
  <2>2. ASSUME ~torn PROVE SecondLoop'
    <3>1. SecondLoop
      BY <2>2 DEF WinInv
    <3>. QED BY <1>1, <1>3, <1>4, <2>1, <3>1 DEF SecondLoop, StillWindows
  <2>. QED BY <1>1, <1>3, <2>1, <2>2, LoopStep
<1>5. CASE ~mouse_left
  <2>1. SetDraggedIn(w, i, FALSE, [w EXCEPT ![i].dragged = FALSE])
    BY <1>2, SetDragged
  <2>2. SetDraggedIn(w, i, FALSE, w')
    BY <1>1, <1>5, <2>1
  <2>3. /\ w' \in [0 .. N - 1 -> Windows]
        /\ w'[i].id = w[i].id /\ w'[i].y = w[i].y /\ ~w'[i].dragged
        /\ \A k \in 0 .. N - 1 : k # i => w'[k] = w[k]
    BY <2>2 DEF SetDraggedIn
  <2>4. WinTypeOK'
    BY <1>1, <1>3, <2>3 DEF WinInv, WinTypeOK, AtWindow
  <2>5. Filled' /\ Kept'
    <3>1. \A k \in 0 .. N - 1 : w'[k].id = w[k].id
      BY <2>3
    <3>. QED BY <1>1, <3>1, SameIds
  <2>6. InLoop'
    BY <1>1, <1>2, <1>3, WinConstants DEF InLoop
  <2>7. ASSUME ~torn' PROVE FirstDragged' /\ FirstLoop' /\ SecondLoop'
    <3>1. FirstDragged /\ SecondLoop
      BY <1>1, <2>7 DEF WinInv
    <3>2. i = focus
      BY <1>1, <3>1 DEF SecondLoop
    <3>3. ~w'[0].dragged
      <4>1. CASE i = 0
        BY <2>3, <4>1
      <4>2. CASE i # 0
        BY <2>3, <3>1, <3>2, <4>2, WinConstants DEF FirstDragged
      <4>. QED BY <4>1, <4>2
    <3>4. \A k \in 1 .. N - 1 : ~w'[k].dragged
      <4>1. \A k \in 1 .. N - 1 : ~w[k].dragged /\ k \in 0 .. N - 1
        BY <3>1, WinConstants DEF FirstDragged
      <4>. QED BY <2>3, <4>1
    <3>. QED BY <1>1, <1>3, <1>5, <3>3, <3>4 DEF FirstDragged, FirstLoop, SecondLoop
  <2>. QED BY <2>4, <2>5, <2>6, <2>7 DEF WinInv
<1>. QED BY <1>2, <1>4, <1>5

(* The end of a pass notes where the mouse is.                             *)
LEMMA EndPassInv ==
    ASSUME WinInv, W!EndPass
    PROVE  WinInv'
<1>1. /\ pc = "end" /\ pc' = "sleep" /\ i' = 0
      /\ UNCHANGED <<mouse_y, mouse_left, torn, w, win_count, client, drag_y, drag_wy, focus>>
      /\ seen' = [y |-> mouse_y, left |-> mouse_left]
  BY DEF W!EndPass, W!mouse, W!locals, W!Goto
<1>2. seen' \in [y : Int, left : BOOLEAN] /\ seen'.y = mouse_y /\ seen'.left = mouse_left
  BY <1>1 DEF WinInv, WinTypeOK
<1>3. WinTypeOK'
  BY <1>1, <1>2 DEF WinInv, WinTypeOK
<1>4. Filled' /\ Kept'
  BY <1>1, StillKept DEF StillWindows
<1>5. InLoop'
  BY <1>1 DEF InLoop, AtWindow
<1>6. ASSUME ~torn' PROVE FirstDragged' /\ FirstLoop' /\ SecondLoop'
  <2>1. FirstDragged /\ FirstLoop /\ SecondLoop
    BY <1>1, <1>6 DEF WinInv
  <2>2. FirstDragged'
    BY <1>1, <2>1 DEF FirstDragged, HeaderAt
  <2>3. FirstLoop'
    BY <1>1 DEF FirstLoop, AtWindow
  <2>4. w[0].dragged => mouse_left /\ HeaderAt(w[0].y, mouse_y)
    BY <1>1, <2>1 DEF FirstLoop, SecondLoop
  <2>5. w'[0].dragged => seen'.left /\ HeaderAt(w'[0].y, seen'.y)
    BY <1>1, <1>2, <2>4 DEF HeaderAt
  <2>6. SecondLoop'
    BY <1>1, <2>5 DEF SecondLoop, HeaderAt
  <2>. QED BY <2>2, <2>3, <2>6
<1>. QED BY <1>3, <1>4, <1>5, <1>6 DEF WinInv

(* The next pass starts at the first window.                               *)
LEMMA WakeInv ==
    ASSUME WinInv, W!Wake
    PROVE  WinInv'
<1>1. /\ pc = "sleep" /\ pc' = "move" /\ i' = 0
      /\ UNCHANGED <<mouse_y, mouse_left, torn, w, win_count, client, drag_y, drag_wy, focus, seen>>
  BY DEF W!Wake, W!mouse, W!locals, W!Goto
<1>2. WinTypeOK'
  BY <1>1 DEF WinInv, WinTypeOK
<1>3. Filled' /\ Kept'
  BY <1>1, StillKept DEF StillWindows
<1>4. InLoop'
  <2>1. win_count \in Nat
    BY WinConstants DEF WinInv, WinTypeOK
  <2>. QED BY <1>1, <2>1 DEF InLoop, AtWindow
<1>5. ASSUME ~torn' PROVE FirstDragged' /\ FirstLoop' /\ SecondLoop'
  <2>1. FirstDragged
    BY <1>1, <1>5 DEF WinInv
  <2>2. FirstDragged'
    BY <1>1, <2>1 DEF FirstDragged, HeaderAt
  <2>3. \A k \in 0 .. N - 1 : ~(k < i')
    BY <1>1, WinConstants
  <2>4. FirstLoop'
    BY <1>1, <2>3 DEF FirstLoop, AtWindow
  <2>. QED BY <1>1, <2>2, <2>4 DEF SecondLoop
<1>. QED BY <1>2, <1>3, <1>4, <1>5 DEF WinInv

(* Before the client has filled a window nothing is dragged.               *)
LEMMA WindowsInit ==
    ASSUME W!Init
    PROVE  WinInv
<1>. DEFINE none == [id |-> 0, y |-> 0, dragged |-> FALSE]
<1>1. /\ mouse_y \in Screen /\ mouse_left = FALSE
      /\ w = [k \in 0 .. N - 1 |-> none]
      /\ win_count = 0 /\ client = 0 /\ pc = "move" /\ i = 0
      /\ drag_y = 0 /\ drag_wy = 0 /\ focus = 0
      /\ seen = [y |-> 0, left |-> FALSE] /\ torn = FALSE
  BY DEF W!Init
<1>2. none \in Windows /\ none.id = 0 /\ none.dragged = FALSE
  BY WinConstants DEF Windows
<1>. HIDE DEF none
<1>3. w \in [0 .. N - 1 -> Windows] /\ \A k \in 0 .. N - 1 : w[k].id = 0 /\ ~w[k].dragged
  BY <1>1, <1>2
<1>4. WinTypeOK
  <2>1. seen \in [y : Int, left : BOOLEAN]
    BY <1>1
  <2>2. mouse_y \in Int /\ client \in 0 .. N + 1 /\ i \in Nat /\ focus \in Nat
    BY <1>1, WinConstants
  <2>3. pc \in AtWindow \cup {"move", "end", "sleep"} /\ win_count \in {0, N}
    BY <1>1
  <2>. QED BY <1>1, <1>3, <2>1, <2>2, <2>3 DEF WinTypeOK
<1>5. Filled /\ Kept /\ InLoop
  <2>1. win_count # N /\ client # N + 1 /\ client <= N
    BY <1>1, WinConstants
  <2>2. \A k \in 0 .. N - 1 : ~(k < client)
    BY <1>1, WinConstants
  <2>. QED BY <1>1, <1>3, <2>1, <2>2 DEF Filled, Kept, InLoop, AtWindow
<1>6. ~w[0].dragged /\ \A k \in 1 .. N - 1 : ~w[k].dragged
  BY <1>3, WinConstants
<1>7. \A k \in 0 .. N - 1 : ~(k < i)
  BY <1>1, WinConstants
<1>8. FirstDragged /\ FirstLoop /\ SecondLoop
  BY <1>1, <1>6, <1>7 DEF FirstDragged, FirstLoop, SecondLoop, AtWindow
<1>. QED BY <1>4, <1>5, <1>8 DEF WinInv

(* A step of the other parts of the display.                               *)
LEMMA OthersStep ==
    ASSUME WinInv, UNCHANGED wvars
    PROVE  WinInv'
<1>1. UNCHANGED <<mouse_y, mouse_left, w, win_count, client, pc, i, drag_y, drag_wy, focus, seen, torn>>
  BY DEF wvars
<1>2. WinTypeOK' /\ InLoop'
  BY <1>1 DEF WinInv, WinTypeOK, InLoop
<1>3. Filled' /\ Kept'
  BY <1>1, StillKept DEF StillWindows
<1>4. ~torn' => FirstDragged' /\ FirstLoop' /\ SecondLoop'
  BY <1>1 DEF WinInv, FirstDragged, FirstLoop, SecondLoop, HeaderAt
<1>. QED BY <1>2, <1>3, <1>4 DEF WinInv

(* Whatever is shown, and whenever the mouse reports, the server's loops   *)
(* stay among the windows that the client has filled, and a drag keeps to  *)
(* the places above (proc_wserver, proc_wclient).                          *)
THEOREM WindowsInvariant == DisplaySpec => []WinInv
<1>1. DisplayInit => WinInv
  BY WindowsInit DEF DisplayInit
<1>2. WinInv /\ [DisplayNext]_displayvars => WinInv'
  <2>. SUFFICES ASSUME WinInv, [DisplayNext]_displayvars PROVE WinInv'
    OBVIOUS
  <2>1. CASE ServerRuns
    <3>1. W!Server
      BY <2>1 DEF ServerRuns
    <3>. QED BY <3>1, MoveInv, HitInv, ClickInv, DrawInv, PressInv, GrabInv, ReleaseInv,
                EndPassInv, WakeInv DEF W!Server
  <2>2. CASE ClientRuns
    BY <2>2, ClientFillsInv, ClientShowsInv DEF ClientRuns, W!Client
  <2>3. CASE MouseReports
    BY <2>3, MouseReportsInv DEF MouseReports
  <2>4. CASE UNCHANGED wvars
    BY <2>4, OthersStep
  <2>5. \/ ServerRuns \/ ClientRuns \/ MouseReports \/ UNCHANGED wvars
    BY DEF DisplayNext, DrawOnce, displayvars
  <2>. QED BY <2>1, <2>2, <2>3, <2>4, <2>5
<1>. QED BY <1>1, <1>2, PTL DEF DisplaySpec

(* With one or two windows (the client makes two) raising one neither      *)
(* loses nor doubles the other, and the server never looks at a window     *)
(* that is not filled (proc_wserver, proc_wclient).                        *)
THEOREM WindowsAlwaysKept == N <= 2 => (DisplaySpec => []WindowsKept)
<1>1. ASSUME N <= 2 PROVE WinInv => WindowsKept
  <2>. SUFFICES ASSUME WinInv PROVE WindowsKept
    OBVIOUS
  <2>1. ASSUME pc \in AtWindow PROVE w[i].id # 0
    <3>1. w[i].id \in 1 .. N
      BY <2>1, AtWindowFacts
    <3>. QED BY <3>1, WinConstants
  <2>2. ASSUME win_count = N PROVE {w[k].id : k \in DOMAIN w} = 1 .. N
    <3>1. DOMAIN w = 0 .. N - 1
      BY DEF WinInv, WinTypeOK
    <3>2. client = N + 1
      BY <2>2 DEF WinInv, Filled
    <3>3. \A k \in 0 .. N - 1 : w[k].id \in 1 .. N
      BY <3>2 DEF WinInv, Filled
    <3>4. \A m \in 1 .. N : \E k \in 0 .. N - 1 : w[k].id = m
      BY <1>1, <3>2 DEF WinInv, Kept
    <3>. QED BY <3>1, <3>3, <3>4
  <2>. QED BY <2>1, <2>2 DEF WindowsKept, W!WindowsKept, AtWindow
<1>2. SUFFICES ASSUME N <= 2 PROVE DisplaySpec => []WindowsKept
  OBVIOUS
<1>3. WinInv => WindowsKept
  BY <1>1, <1>2
<1>. QED BY <1>3, WindowsInvariant, PTL

(* However many windows there are: while the mouse reports between passes  *)
(* only, at the end of a pass at most the first window is dragged, with    *)
(* the button down and its header under the mouse (proc_wserver).          *)
THEOREM DragAlwaysFollows == DisplaySpec => []DragFollows
<1>1. WinInv => DragFollows
  <2>. SUFFICES ASSUME WinInv, pc = "sleep", ~torn, NEW k \in DOMAIN w, w[k].dragged
                PROVE  k = 0 /\ focus = 0 /\ seen.left /\ W!InHeader(w[0], seen.y)
    BY DEF DragFollows, W!DragFollows
  <2>1. w \in [0 .. N - 1 -> Windows] /\ seen \in [y : Int, left : BOOLEAN]
    BY DEF WinInv, WinTypeOK
  <2>2. k \in 0 .. N - 1 /\ w[0] \in Windows /\ w[0].y \in Int /\ seen.y \in Int
    BY <2>1, WinConstants DEF Windows
  <2>3. FirstDragged /\ SecondLoop
    BY DEF WinInv
  <2>4. k = 0
    BY <2>2, <2>3, WinConstants DEF FirstDragged
  <2>5. focus = 0 /\ seen.left /\ HeaderAt(w[0].y, seen.y)
    BY <2>3, <2>4 DEF FirstDragged, SecondLoop
  <2>. QED BY <2>2, <2>4, <2>5, InHeaderAt
<1>. QED BY <1>1, WindowsInvariant, PTL
-----------------------------------------------------------------------------
(* The whole display does what its parts do: a step of one part leaves the *)
(* others alone, so the text screen behaves by the terminal's own          *)
(* specification and the frame buffer by that of drawing.                  *)
THEOREM DisplayKeepsParts == DisplaySpec => Spec /\ DrawSpec
<1>1. DisplayInit => Init /\ DrawInit
  BY DEF DisplayInit
<1>2. [DisplayNext]_displayvars => [Next]_vars
  BY DEF DisplayNext, DrawOnce, ServerRuns, ClientRuns, MouseReports, displayvars
<1>3. [DisplayNext]_displayvars => [DrawNext]_drawvars
  BY DEF DisplayNext, DrawOnce, ServerRuns, ClientRuns, MouseReports, displayvars
<1>. QED BY <1>1, <1>2, <1>3, PTL DEF DisplaySpec, Spec, DrawSpec

(* So what is proved of the terminal and of drawing holds of the display.  *)
THEOREM DisplayShowsRight == DisplaySpec => [](CursorInside /\ ShowsTail /\ DrawsVisible)
BY DisplayKeepsParts, TerminalStaysInside, TerminalShowsTail, DrawingIsClipped, PTL
=============================================================================
