---------------------------- MODULE WindowServer ----------------------------
(***************************************************************************)
(* The processes wserver and wclient (kernel.c).  The client fills two     *)
(* windows and then shows them; the server raises, focuses and drags       *)
(* windows in passes, reading the mouse's position and button again and    *)
(* again while the mouse's interrupts change them.  Both axes are treated  *)
(* alike by the code; the model has the vertical one, on which the header  *)
(* lies.  Drawing is in module Render.                                     *)
(***************************************************************************)
EXTENDS Integers, Sequences

CONSTANTS
    N,          \* windows; the client makes 2
    Top,        \* where the client puts them
    Height,     \* of each window, a function on 1 .. N
    HEADER,     \* height of the header (20)
    Screen,     \* positions of the mouse
    MaxInput    \* bound: reports of the mouse

WindowAssumption ==
    /\ N \in Nat \ {0}
    /\ Top \in Int
    /\ Height \in [1 .. N -> Nat]
    /\ HEADER \in Nat
    /\ Screen \subseteq Int
    /\ MaxInput \in Nat

VARIABLES
    mouse_y, mouse_left,      \* written by the mouse's interrupt handler
    w, win_count,             \* w[i]: which window, where, whether dragged
    client,                   \* windows the client has filled, then N + 1
    pc, i,                    \* where the server is in its pass
    drag_y, drag_wy, focus,   \* its locals
    input,                    \* reports so far
    seen,                     \* the mouse at the end of the last pass
    torn                      \* a report has come in the middle of a pass

vars == <<mouse_y, mouse_left, w, win_count, client, pc, i, drag_y, drag_wy,
          focus, input, seen, torn>>
mouse == <<mouse_y, mouse_left, input, torn>>
locals == <<drag_y, drag_wy>>

Init ==
    /\ mouse_y \in Screen
    /\ mouse_left = FALSE
    /\ w = [k \in 0 .. N - 1 |-> [id |-> 0, y |-> 0, dragged |-> FALSE]]
    /\ win_count = 0
    /\ client = 0
    /\ pc = "move"
    /\ i = 0
    /\ drag_y = 0
    /\ drag_wy = 0
    /\ focus = 0
    /\ input = 0
    /\ seen = [y |-> 0, left |-> FALSE]
    /\ torn = FALSE

-----------------------------------------------------------------------------
(* The mouse's handler and the client.                                     *)

MouseReports ==
    /\ input < MaxInput
    /\ input' = input + 1
    /\ mouse_y' \in Screen
    /\ mouse_left' \in BOOLEAN
    /\ torn' = (torn \/ pc # "sleep")
    /\ UNCHANGED <<w, win_count, client, pc, i, locals, focus, seen>>

ClientFills ==
    /\ client < N
    /\ client' = client + 1
    /\ w' = [w EXCEPT ![client] = [id |-> client', y |-> Top, dragged |-> FALSE]]
    /\ UNCHANGED <<mouse, win_count, pc, i, locals, focus, seen>>

(* Mutant: win_count is set before the last window is filled. *)
ClientShowsEarly ==
    /\ client = N - 1
    /\ win_count' = N
    /\ UNCHANGED <<mouse, w, client, pc, i, locals, focus, seen>>

(* win_count is set when all windows are filled; from then on the client   *)
(* draws into them.                                                        *)
ClientShows ==
    /\ client = N
    /\ client' = N + 1
    /\ win_count' = N
    /\ UNCHANGED <<mouse, w, pc, i, locals, focus, seen>>

-----------------------------------------------------------------------------
(* A pass of the server.                                                   *)

rect_contains(y, h, at) == at >= y /\ at < y + h
InBounds(win, at) == rect_contains(win.y - HEADER, HEADER + Height[win.id] + 2, at)
InHeader(win, at) == rect_contains(win.y - HEADER, HEADER, at)

Goto(p, k) == pc' = p /\ i' = k

(* To the second loop, or to its end when there is no window.              *)
ToDraw == IF win_count > 0 THEN Goto("draw", win_count - 1) ELSE Goto("end", 0)
DrawNext == IF i > 0 THEN Goto("draw", i - 1) ELSE Goto("end", 0)

(* The first loop's test; a window that is dragged follows the mouse.      *)
Move ==
    /\ pc = "move"
    /\ IF i < win_count
       THEN /\ w' = IF w[i].dragged THEN [w EXCEPT ![i].y = drag_wy + (mouse_y - drag_y)] ELSE w
            /\ Goto("hit", i)
       ELSE /\ ToDraw
            /\ UNCHANGED w
    /\ UNCHANGED <<mouse, win_count, client, locals, focus, seen>>

Hit ==
    /\ pc = "hit"
    /\ IF InBounds(w[i], mouse_y) THEN Goto("click", i) ELSE Goto("move", i + 1)
    /\ UNCHANGED <<mouse, w, win_count, client, locals, focus, seen>>

(* w[1 .. k] become w[0 .. k - 1], copied in ascending order by mmove8,    *)
(* then the window that was w[k] becomes w[0].                             *)
Raised(k) ==
    [j \in DOMAIN w |-> IF j = 0 THEN w[k] ELSE IF j <= k THEN w[0] ELSE w[j]]

(* Mutant: the loop goes on after it has raised a window. *)
ClickGoesOn ==
    /\ pc = "click"
    /\ IF mouse_left
       THEN /\ w' = Raised(i)
            /\ focus' = 0
            /\ Goto("move", i + 1)
       ELSE /\ focus' = i
            /\ UNCHANGED w
            /\ ToDraw
    /\ UNCHANGED <<mouse, win_count, client, locals, seen>>

(* The window under the mouse is raised, or gets the focus; the loop ends. *)
Click ==
    /\ pc = "click"
    /\ IF mouse_left
       THEN w' = Raised(i) /\ focus' = 0
       ELSE focus' = i /\ UNCHANGED w
    /\ ToDraw
    /\ UNCHANGED <<mouse, win_count, client, locals, seen>>

(* The second loop, from the last window to the first: only the one with   *)
(* the focus looks at the mouse.                                           *)
Draw ==
    /\ pc = "draw"
    /\ IF i # focus THEN DrawNext
       ELSE IF InHeader(w[i], mouse_y) THEN Goto("press", i) ELSE Goto("release", i)
    /\ UNCHANGED <<mouse, w, win_count, client, locals, focus, seen>>

Press ==
    /\ pc = "press"
    /\ IF mouse_left /\ ~w[0].dragged THEN Goto("grab", i) ELSE Goto("release", i)
    /\ UNCHANGED <<mouse, w, win_count, client, locals, focus, seen>>

Grab ==
    /\ pc = "grab"
    /\ w' = [w EXCEPT ![i].dragged = TRUE]
    /\ drag_y' = mouse_y
    /\ drag_wy' = w[i].y
    /\ DrawNext
    /\ UNCHANGED <<mouse, win_count, client, focus, seen>>

(* Mutant: the drag does not end with the button. *)
ReleaseForgotten ==
    /\ pc = "release"
    /\ DrawNext
    /\ UNCHANGED <<mouse, w, win_count, client, locals, focus, seen>>

Release ==
    /\ pc = "release"
    /\ w' = IF mouse_left THEN w ELSE [w EXCEPT ![i].dragged = FALSE]
    /\ DrawNext
    /\ UNCHANGED <<mouse, win_count, client, locals, focus, seen>>

(* The cursor and the copy to the screen; proc_sleep_msec(16).             *)
EndPass ==
    /\ pc = "end"
    /\ Goto("sleep", 0)
    /\ seen' = [y |-> mouse_y, left |-> mouse_left]
    /\ UNCHANGED <<mouse, w, win_count, client, locals, focus>>

Wake ==
    /\ pc = "sleep"
    /\ Goto("move", 0)
    /\ UNCHANGED <<mouse, w, win_count, client, locals, focus, seen>>

Server == Move \/ Hit \/ Click \/ Draw \/ Press \/ Grab \/ Release \/ EndPass \/ Wake
Client == ClientFills \/ ClientShows

Next == MouseReports \/ Client \/ Server

(* Both processes are scheduled again and again (module Proc).             *)
Spec == Init /\ [][Next]_vars /\ WF_vars(Server) /\ WF_vars(Client)

-----------------------------------------------------------------------------
(* Properties.                                                             *)

(* Every window the server looks at has been filled by the client, and     *)
(* raising one neither loses nor doubles another.                          *)
WindowsKept ==
    /\ pc \in {"hit", "click", "draw", "press", "grab", "release"} => w[i].id # 0
    /\ win_count = N => {w[k].id : k \in DOMAIN w} = 1 .. N

(* As long as the mouse reports only between passes, at the end of a pass  *)
(* at most the first window is dragged, the button is down, the window has *)
(* the focus and its header is still under the mouse.                      *)
DragFollows ==
    (pc = "sleep" /\ ~torn) =>
      \A k \in DOMAIN w : w[k].dragged =>
        /\ k = 0
        /\ focus = 0
        /\ seen.left
        /\ InHeader(w[0], seen.y)

(* However reports fall into passes, when they stop the windows and the    *)
(* focus come to rest: no window goes on changing places with another.     *)
Settles == <>[][UNCHANGED <<w, focus>>]_vars
=============================================================================
