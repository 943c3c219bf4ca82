---------------------------- MODULE DesktopStage ----------------------------
(***************************************************************************)
(* Where the windows of the desktop lie (pixel-desktop.tsx): a window is   *)
(* placed inside the stage, moved by keys or dragged by a pointer, while   *)
(* the stage changes its size, windows are closed under the pointer, and   *)
(* the observer reports the new size some time after it.                   *)
(*                                                                         *)
(* One coordinate stands for both, measured so that 0 is the near edge of  *)
(* the stage and "room" the last place at which a window still fits.       *)
(***************************************************************************)
EXTENDS Naturals, Functions

CONSTANTS
    Titles,         \* the applications
    Rooms,          \* the sizes of the stage
    Pointers        \* pointer ids

ASSUME StageAssumption == Rooms \subseteq Nat /\ Rooms # {}

VARIABLES
    place,          \* where every open window lies
    maximized,      \* the windows that fill the stage
    room, fitted,   \* the stage, and whether its observer has seen its size
    drag            \* dragRef

stageVars == <<place, maximized, room, fitted, drag>>

NoDrag == [id |-> "none", pointer |-> "none", x |-> 0, max |-> 0]
Places == UNION {0..r : r \in Rooms}

StageTypeOK ==
    /\ DOMAIN place \subseteq Titles /\ Range(place) \subseteq Places
    /\ maximized \subseteq DOMAIN place
    /\ room \in Rooms /\ fitted \in BOOLEAN
    /\ drag \in [id: Titles, pointer: Pointers, x: Places, max: Rooms] \cup {NoDrag}

StageInit ==
    /\ place = [t \in {} |-> 0] /\ maximized = {}
    /\ room \in Rooms /\ fitted = FALSE
    /\ drag = NoDrag

Clip(x, max) == IF x < max THEN x ELSE max

\* openApp, for an application without a window
PlaceWindow(t) ==
    /\ t \notin DOMAIN place
    /\ \E x \in Places :
          place' = [u \in DOMAIN place \cup {t} |-> IF u = t THEN Clip(x, room)
                                                             ELSE place[u]]
    /\ UNCHANGED <<maximized, room, fitted, drag>>

\* closeWindow, or the mode taking its window away; a drag is not told.
RemoveWindow(t) ==
    /\ t \in DOMAIN place
    /\ place' = Restrict(place, DOMAIN place \ {t})
    /\ maximized' = maximized \ {t}
    /\ UNCHANGED <<room, fitted, drag>>

\* maximizeWindow: the button, or a double click on the title
MaximizeWindow(t) ==
    /\ t \in DOMAIN place
    /\ maximized' = IF t \in maximized THEN maximized \ {t} ELSE maximized \cup {t}
    /\ UNCHANGED <<place, room, fitted, drag>>

\* moveWindow: an arrow key on the title
MoveWindow(t) ==
    /\ t \in DOMAIN place \ maximized
    /\ \E x \in {place[t] + 1} \cup {p \in Places : p + 1 = place[t]} :
          place' = [place EXCEPT ![t] = Clip(x, room)]
    /\ UNCHANGED <<maximized, room, fitted, drag>>

\* Only the primary pointer begins a drag.
BeginDrag(t, p) ==
    /\ t \in DOMAIN place \ maximized
    /\ drag' = [id |-> t, pointer |-> p, x |-> place[t], max |-> room]
    /\ UNCHANGED <<place, maximized, room, fitted>>

\* The title that hears the pointer need not be the one that is dragged.
UpdateDrag(p) ==
    /\ drag.pointer = p
    /\ \E x \in 0..drag.max : drag' = [drag EXCEPT !.x = x]
    /\ UNCHANGED <<place, maximized, room, fitted>>

\* finishDrag: released, or cancelled
FinishDrag(commit) ==
    /\ drag # NoDrag
    /\ drag' = NoDrag
    /\ place' = IF commit /\ drag.id \in DOMAIN place
                THEN [place EXCEPT ![drag.id] = drag.x] ELSE place
    /\ UNCHANGED <<maximized, room, fitted>>

ResizeStage(r) ==
    /\ r # room
    /\ room' = r /\ fitted' = FALSE
    /\ UNCHANGED <<place, maximized, drag>>

\* Slip: a drag survives the new size.
FitsAndDragsOn ==
    /\ ~fitted
    /\ fitted' = TRUE
    /\ place' = [t \in DOMAIN place |-> Clip(place[t], room)]
    /\ UNCHANGED <<maximized, room, drag>>

\* fitWindows, when the ResizeObserver reports: it cancels a drag.
FitWindows ==
    /\ ~fitted
    /\ fitted' = TRUE
    /\ drag' = NoDrag
    /\ place' = [t \in DOMAIN place |-> Clip(place[t], room)]
    /\ UNCHANGED <<maximized, room>>

StageNext ==
    \/ \E t \in Titles :
          \/ PlaceWindow(t) \/ RemoveWindow(t) \/ MaximizeWindow(t) \/ MoveWindow(t)
          \/ \E p \in Pointers : BeginDrag(t, p)
    \/ \E p \in Pointers : UpdateDrag(p)
    \/ \E commit \in BOOLEAN : FinishDrag(commit)
    \/ \E r \in Rooms : ResizeStage(r)
    \/ FitWindows

StageSpec == StageInit /\ [][StageNext]_stageVars

-----------------------------------------------------------------------------
(* Properties.                                                             *)

\* Once the stage's size is known every window lies inside it, whatever was
\* dragged, opened or closed while it changed.
WindowsInStage == fitted => \A t \in DOMAIN place : place[t] <= room

\* A drag that is still on when the size is known respects that size.
DragInStage == fitted /\ drag # NoDrag => drag.max <= room

StageSound == StageTypeOK /\ WindowsInStage /\ DragInStage
=============================================================================
