---------------------------- MODULE PlayerOverlay ----------------------------
(***************************************************************************)
(* Where the music player lies (geometry.ts, music-session.tsx): the one   *)
(* iframe of the page never moves in the document; it is laid over the     *)
(* slot that is registered, cut to what the slot's ancestors let show.     *)
(* The place is computed one frame after anything moved, so what is on the *)
(* screen may be of an earlier moment.                                     *)
(***************************************************************************)
EXTENDS Integers, FiniteSetsExt, SequencesExt

CONSTANTS
    Edges,          \* where an edge of an element can be
    PlayerSlots,    \* the elements that hold the player
    MaxMoves        \* bound: changes of the layout

Nowhere == "nowhere"

ASSUME OverlayAssumption ==
    /\ Edges \subseteq Int /\ Edges # {}
    /\ Nowhere \notin PlayerSlots /\ MaxMoves \in Nat

\* Elements by their edges; one that is not displayed has no extent.
Rects == {r \in [left: Edges, right: Edges, top: Edges, bottom: Edges] :
             r.left <= r.right /\ r.top <= r.bottom}
IsValidRect(r) == r.left < r.right /\ r.top < r.bottom

Hidden == [left |-> 0, right |-> 0, top |-> 0, bottom |-> 0]

\* Slip: the far edges are the farthest.
ReachesFarthest(rects) ==
    [left |-> Max({r.left : r \in rects}), right |-> Max({r.right : r \in rects}),
     top |-> Max({r.top : r \in rects}), bottom |-> Max({r.bottom : r \in rects})]

\* What the clips leave of a rect, one after the other, whatever their order.
Common(rects) ==
    [left |-> Max({r.left : r \in rects}), right |-> Min({r.right : r \in rects}),
     top |-> Max({r.top : r \in rects}), bottom |-> Min({r.bottom : r \in rects})]

\* null is Hidden: what has no extent after a clip has none after the next.
ClipPlayerRect(frame, cuts) ==
    LET rects == {frame} \cup Range(cuts)
    IN IF IsValidRect(Common(rects)) /\ \A r \in rects : IsValidRect(r)
       THEN Common(rects) ELSE Hidden

-----------------------------------------------------------------------------
VARIABLES
    rect, clips,    \* where every slot lies, and its ancestors that cut
    over,           \* the slot that is registered, or nowhere
    hasItem,        \* current: there is something to show
    geometry,       \* what was computed last
    scheduled,      \* an update is due in the next frame
    moves           \* what MaxMoves counts

overlayVars == <<rect, clips, over, hasItem, geometry, scheduled, moves>>

OverlayTypeOK ==
    /\ rect \in [PlayerSlots -> Rects]
    /\ \A s \in PlayerSlots : clips[s] \in Seq(Rects)
    /\ over \in PlayerSlots \cup {Nowhere} /\ hasItem \in BOOLEAN
    /\ geometry \in Rects \cup {Hidden} /\ scheduled \in BOOLEAN
    /\ moves \in 0..MaxMoves

Corner == [left |-> CHOOSE e \in Edges : TRUE, right |-> CHOOSE e \in Edges : TRUE,
           top |-> CHOOSE e \in Edges : TRUE, bottom |-> CHOOSE e \in Edges : TRUE]

OverlayInit ==
    /\ rect = [s \in PlayerSlots |-> Corner] /\ clips = [s \in PlayerSlots |-> <<>>]
    /\ over = Nowhere /\ hasItem = FALSE
    /\ geometry = Hidden /\ scheduled = FALSE /\ moves = 0

Moved == moves < MaxMoves /\ moves' = moves + 1

\* The effect of a new slot or a new item: what was scheduled is cancelled, and
\* the new observers begin with an update.
Observes == scheduled' = (over' # Nowhere /\ hasItem')

\* Slip: the observers of the slot that lies below are kept.
KeepsPlace(s) ==
    /\ over' = s
    /\ scheduled' = (s # Nowhere /\ (scheduled \/ (over = Nowhere /\ hasItem)))
    /\ UNCHANGED <<rect, clips, hasItem, geometry, moves>>

\* registerSlot, or its cleanup
PlaceOver(s) ==
    /\ over' = s
    /\ UNCHANGED <<rect, clips, hasItem, geometry, moves>>
    /\ IF s = over THEN UNCHANGED scheduled ELSE Observes

PlayOrStop ==
    /\ hasItem' = ~hasItem
    /\ UNCHANGED <<rect, clips, over, geometry, moves>>
    /\ Observes

\* The slot's element or an ancestor is moved, resized or scrolled.  The
\* observers of the slot that is registered hear of it.
LayoutMoves(s) ==
    /\ Moved
    /\ \E r \in Rects :
          \/ rect' = [rect EXCEPT ![s] = r] /\ UNCHANGED clips
          \/ clips' = [clips EXCEPT ![s] = Append(@, r)] /\ UNCHANGED rect
    /\ scheduled' = (scheduled \/ (over = s /\ hasItem))
    /\ UNCHANGED <<over, hasItem, geometry>>

\* update, in the animation frame
Update ==
    /\ scheduled
    /\ scheduled' = FALSE
    /\ geometry' = ClipPlayerRect(rect[over], clips[over])
    /\ UNCHANGED <<rect, clips, over, hasItem, moves>>

OverlayNext ==
    \/ \E s \in PlayerSlots \cup {Nowhere} : PlaceOver(s)
    \/ \E s \in PlayerSlots : LayoutMoves(s)
    \/ PlayOrStop \/ Update

OverlaySpec == OverlayInit /\ [][OverlayNext]_overlayVars

-----------------------------------------------------------------------------
(* Properties.                                                             *)

Covers(r, x, y) == r.left <= x /\ x < r.right /\ r.top <= y /\ y < r.bottom

\* Once the frame has come, a point shows the player exactly if it lies in the
\* slot and in everything that cuts the slot.
ShownIsSlot ==
    over # Nowhere /\ hasItem /\ ~scheduled =>
       \A x, y \in Edges :
          Covers(geometry, x, y) <=>
             /\ Covers(rect[over], x, y)
             /\ \A i \in DOMAIN clips[over] : Covers(clips[over][i], x, y)

OverlaySound == OverlayTypeOK /\ ShownIsSlot
=============================================================================
