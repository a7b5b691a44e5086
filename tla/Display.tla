------------------------------ MODULE Display ------------------------------
(***************************************************************************)
(* What is shown: the text screen of the terminal's driver (module         *)
(* Terminal), the frame buffer into which images are drawn (module Render),*)
(* or the windows that the server lays out on it (module WindowServer).    *)
(* These share no state: a behaviour is one of the three.                  *)
(***************************************************************************)
EXTENDS Render, Terminal

CONSTANTS N, Top, WinHeight, HEADER, Screen, MaxInput

VARIABLES
    shown,      \* "text", "drawing", "drawn" or "windows"
    mouse_y, mouse_left, w, win_count, client, pc, i, drag_y, drag_wy, focus, input,
    seen, torn

W == INSTANCE WindowServer WITH Height <- WinHeight

ASSUME WindowsAssumption == W!WindowAssumption

wvars == <<mouse_y, mouse_left, w, win_count, client, pc, i, drag_y, drag_wy, focus,
           input, seen, torn>>
displayvars == <<shown, drawvars, vars, wvars>>

DisplayInit ==
    /\ shown \in {"text", "drawing", "windows"}
    /\ DrawInit
    /\ Init
    /\ W!Init

(* A call of render.c keeps nothing that the next one uses: one is enough. *)
DrawOnce == shown = "drawing" /\ shown' = "drawn" /\ DrawNext /\ UNCHANGED <<vars, wvars>>

ServerRuns == shown = "windows" /\ W!Server /\ UNCHANGED <<shown, drawvars, vars>>
ClientRuns == shown = "windows" /\ W!Client /\ UNCHANGED <<shown, drawvars, vars>>
MouseReports == shown = "windows" /\ W!MouseReports /\ UNCHANGED <<shown, drawvars, vars>>

DisplayNext ==
    \/ shown = "text" /\ Next /\ UNCHANGED <<shown, drawvars, wvars>>
    \/ DrawOnce
    \/ MouseReports \/ ClientRuns \/ ServerRuns

(* Both processes are scheduled again and again (module Proc).             *)
DisplaySpec ==
    /\ DisplayInit
    /\ [][DisplayNext]_displayvars
    /\ WF_displayvars(ServerRuns)
    /\ WF_displayvars(ClientRuns)

-----------------------------------------------------------------------------
(* Properties, beside those of Render and Terminal.                        *)

(* The server looks at filled windows only, and raising one neither loses  *)
(* nor doubles another (proc_wserver, proc_wclient).                       *)
WindowsKept == W!WindowsKept

(* A window is dragged only with the button down and its header under the  *)
(* mouse (proc_wserver).                                                   *)
DragFollows == W!DragFollows

(* When the mouse stops, windows and focus come to rest (proc_wserver).    *)
Settles == <>[][UNCHANGED <<w, focus>>]_displayvars
=============================================================================
