-------------------------- MODULE RelationshipMode --------------------------
(***************************************************************************)
(* The relationship mode of the desktop: the provider that keeps it in the *)
(* page (relationship-mode.tsx), and the cookie the server sets when it    *)
(* accepts an unlock proof (relationship-unlock/route.ts).  The provider   *)
(* reads the cookie once, when the page loads: its two fetches may answer  *)
(* at any time after that.                                                 *)
(***************************************************************************)
EXTENDS Naturals

CONSTANT HasCookie  \* the browser was unlocked by an earlier visit

ASSUME CookieAssumption == HasCookie \in BOOLEAN

VARIABLES
    mode,       \* ModeState of the provider: [unlocked, active]
    content,    \* the private content is loaded
    initial,    \* the load at mount: "status", "content" or "done"
    cookie      \* the browser holds a valid relationship cookie

modeVars == <<mode, content, initial, cookie>>

ModeTypeOK ==
    /\ mode \in [unlocked: BOOLEAN, active: BOOLEAN]
    /\ content \in BOOLEAN
    /\ initial \in {"status", "content", "done"}
    /\ cookie \in BOOLEAN

\* A page just loaded: locked until the status says otherwise.
Locked == [unlocked |-> FALSE, active |-> FALSE]

ModeMounts ==
    /\ mode' = Locked
    /\ content' = FALSE
    /\ initial' = "status"

ModeInit ==
    /\ mode = Locked
    /\ content = FALSE
    /\ cookie = HasCookie
    /\ initial = IF cookie THEN "content" ELSE "done"

Activate ==
    /\ mode' = [unlocked |-> TRUE, active |-> TRUE]
    /\ content' = TRUE

\* /api/relationship/status answers with what the cookie says.
InitialStatus ==
    /\ initial = "status"
    /\ initial' = IF cookie THEN "content" ELSE "done"
    /\ UNCHANGED <<mode, content, cookie>>

\* /api/relationship/content answers: the server wants the cookie.
InitialContent ==
    /\ initial = "content"
    /\ cookie
    /\ Activate
    /\ initial' = "done"
    /\ UNCHANGED cookie

\* A fetch of the load at mount fails: locked is the safe fallback.
InitialFails ==
    /\ initial # "done"
    /\ initial' = "done"
    /\ UNCHANGED <<mode, content, cookie>>

\* isGirlfriend
IsShown == mode.unlocked /\ mode.active

Leave ==
    /\ IsShown
    /\ mode' = [mode EXCEPT !.active = FALSE]
    /\ UNCHANGED <<content, initial, cookie>>

\* The route sets the cookie when the proof is genuine and fresh and belongs
\* to the nonce of the session.
SetCookie == cookie' = TRUE

ModeNext == InitialStatus \/ InitialContent \/ InitialFails \/ Leave
=============================================================================
