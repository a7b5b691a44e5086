------------------------------ MODULE Terminal ------------------------------
(***************************************************************************)
(* The text terminal (drivers/terminal.c): terminal_putc and               *)
(* terminal_clear.  terminal_puts, terminal_write and terminal_printf are  *)
(* runs of terminal_putc.  Colours are left out.                           *)
(*                                                                         *)
(* page, at and top are history: what has been typed on an endless sheet   *)
(* of WIDTH columns, where its carriage is, and which of its lines is the  *)
(* first one on the screen.                                                *)
(***************************************************************************)
EXTENDS Integers

CONSTANTS
    WIDTH, HEIGHT,   \* TERMINAL_WIDTH, TERMINAL_HEIGHT
    TAB,             \* TAB_SIZE
    Chars,           \* the printable characters
    MaxLines         \* bound: lines of the sheet

Blank == 0

ASSUME TerminalAssumption ==
    /\ WIDTH \in Nat \ {0}
    /\ HEIGHT \in Nat \ {0}
    /\ TAB \in 1 .. WIDTH
    /\ WIDTH % TAB = 0
    /\ MaxLines \in Nat
    /\ MaxLines >= HEIGHT
    /\ Blank \notin Chars

SIZE == WIDTH * HEIGHT

VARIABLES
    buf,            \* TERMINAL_BUF
    terminal_pos,
    cursor,         \* the cursor registers of the display
    page, at, top

vars == <<buf, terminal_pos, cursor, page, at, top>>

Sheet == 0 .. WIDTH * MaxLines - 1

Init ==
    /\ buf = [i \in 0 .. SIZE - 1 |-> Blank]
    /\ terminal_pos = 0
    /\ cursor = 0
    /\ page = [i \in Sheet |-> Blank]
    /\ at = 0
    /\ top = 0

(* Mutant: the line that comes in at the bottom is not cleared. *)
ScrolledOnly(b) ==
    [i \in 0 .. SIZE - 1 |-> IF i + WIDTH < SIZE THEN b[i + WIDTH] ELSE b[i]]

(* mmove16 and mset16: every line goes up by one, the last one is blank.   *)
Scrolled(b) ==
    [i \in 0 .. SIZE - 1 |-> IF i + WIDTH < SIZE THEN b[i + WIDTH] ELSE Blank]

(* The end of terminal_putc: pos >= TERMINAL_SIZE scrolls by a line, and   *)
(* the display is told the position.                                       *)
Settle(b, pos) ==
    /\ buf' = IF pos >= SIZE THEN Scrolled(b) ELSE b
    /\ terminal_pos' = IF pos >= SIZE THEN pos - WIDTH ELSE pos
    /\ cursor' = terminal_pos'

(* The sheet: the carriage stands at c, and a line is shown that was not   *)
(* when it has left the screen.                                            *)
Type(p, c) ==
    /\ c \div WIDTH < MaxLines
    /\ page' = p
    /\ at' = c
    /\ top' = IF c \div WIDTH >= top + HEIGHT THEN top + 1 ELSE top

NewLine ==
    /\ Settle(buf, terminal_pos + WIDTH - (terminal_pos % WIDTH))
    /\ Type(page, WIDTH * (at \div WIDTH + 1))

Tab ==
    /\ Settle(buf, terminal_pos + TAB - ((terminal_pos % WIDTH) % TAB))
    /\ Type(page, TAB * (at \div TAB + 1))

(* '\b' blanks the cell before, or the first cell when there is none.      *)
Backspace ==
    LET pos == IF terminal_pos > 0 THEN terminal_pos - 1 ELSE terminal_pos
        c   == IF at > WIDTH * top THEN at - 1 ELSE at
    IN  /\ Settle([buf EXCEPT ![pos] = Blank], pos)
        /\ Type([page EXCEPT ![c] = Blank], c)

Printable(ch) ==
    /\ Settle([buf EXCEPT ![terminal_pos] = ch], terminal_pos + 1)
    /\ Type([page EXCEPT ![at] = ch], at + 1)

(* terminal_clear does not tell the display the new position.              *)
Clear ==
    /\ buf' = [i \in 0 .. SIZE - 1 |-> Blank]
    /\ terminal_pos' = 0
    /\ page' = [i \in Sheet |-> Blank]
    /\ at' = 0
    /\ top' = 0
    /\ UNCHANGED cursor

Next == NewLine \/ Tab \/ Backspace \/ (\E ch \in Chars : Printable(ch)) \/ Clear

Spec == Init /\ [][Next]_vars

-----------------------------------------------------------------------------
(* Properties.                                                             *)

(* The position and the cursor never leave the screen, whatever is printed *)
(* at its last cell: one scroll is always enough (terminal_putc).          *)
CursorInside == terminal_pos \in 0 .. SIZE - 1 /\ cursor \in 0 .. SIZE - 1

(* The screen shows the last lines of what was typed, with the position    *)
(* where the carriage is: scrolling neither loses nor repeats nor leaves   *)
(* over anything, tabs and backspaces around the end included.             *)
ShowsTail ==
    /\ terminal_pos = at - WIDTH * top
    /\ \A i \in 0 .. SIZE - 1 : buf[i] = page[i + WIDTH * top]
=============================================================================
