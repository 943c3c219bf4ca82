------------------------- MODULE ProgressivePanorama -------------------------
(***************************************************************************)
(* The panorama behind the home page (page-layout.tsx) and the component   *)
(* that loads and draws it (panorama-background.tsx).  A still image comes *)
(* first; when the browser is idle, and the device is up to it or the      *)
(* visitor asks, the panorama is fetched and decoded, and replaces it once *)
(* a frame is painted.  Any failure, or fifteen seconds, leave the still   *)
(* image and a button to try again.                                        *)
(*                                                                         *)
(* A step of the page takes its effects along: React runs them right after *)
(* the state they look at changed.                                         *)
(***************************************************************************)
EXTENDS Naturals

CONSTANTS
    MaxAttempts,    \* bound: how often the visitor asks for it
    MaxToggles      \* bound: how often the page is hidden or shown

ASSUME PanoramaAssumption == MaxAttempts \in Nat /\ MaxToggles \in Nat

VARIABLES
    modest,         \* lowPower, reduced motion or saveData
    visible, posterReady, requested, started, ready, gaveUp,    \* gaveUp: "failed"
    attempt,
    loadChain,      \* the start that waits: "none", "fonts" or "idle"
    limit,          \* the timer of fifteen seconds is armed
    loader,         \* the loading effect: "none", "fetch", "decode", "decoded"
    deadLoads,      \* where aborted loads wait for an answer
    bitmap,         \* the decoded image of the mounted component is held
    painted,        \* the canvas that is mounted has painted
    leaked,         \* ghost: an image was left to nobody
    toggles         \* what MaxToggles counts

panoramaVars == <<modest, visible, posterReady, requested, started, ready, gaveUp,
                  attempt, loadChain, limit, loader, deadLoads, bitmap, painted, leaked,
                  toggles>>
loadVars == <<loader, deadLoads, bitmap, painted, leaked>>

PanoramaTypeOK ==
    /\ {modest, visible, posterReady, requested, started, ready, gaveUp, limit,
        bitmap, painted, leaked} \subseteq BOOLEAN
    /\ attempt \in 0..MaxAttempts /\ toggles \in 0..MaxToggles
    /\ loadChain \in {"none", "fonts", "idle"}
    /\ loader \in {"none", "fetch", "decode", "decoded"}
    /\ deadLoads \subseteq {"fetch", "decode"}

PanoramaInit ==
    /\ modest \in BOOLEAN /\ visible \in BOOLEAN
    /\ posterReady = FALSE /\ requested = FALSE /\ started = FALSE
    /\ ready = FALSE /\ gaveUp = FALSE /\ attempt = 0
    /\ loadChain = "none" /\ limit = FALSE
    /\ loader = "none" /\ deadLoads = {} /\ bitmap = FALSE /\ painted = FALSE
    /\ leaked = FALSE /\ toggles = 0

-----------------------------------------------------------------------------
(* The effects.                                                            *)

\* The effect that starts: a change of what it looks at cancels the chain and
\* begins another if it still should.
StartDeps == <<started, posterReady, visible, modest, requested>>
StartWanted == ~started /\ posterReady /\ visible /\ (requested \/ ~modest)
StartEffect == loadChain' = IF StartDeps' = StartDeps THEN loadChain
                        ELSE IF StartWanted' THEN "fonts" ELSE "none"

\* Slip: the timer of the last attempt is not replaced.
LimitOnce == limit' = (started' /\ ~ready' /\ ~gaveUp' /\ visible' /\ (limit \/ attempt' = 0))

\* The effect that gives up: the timer starts anew with every attempt.
LimitEffect == limit' = (started' /\ ~ready' /\ ~gaveUp' /\ visible')

\* The component is mounted while a start has not failed; an attempt mounts it
\* anew.  Its cleanup aborts the load and releases what is decoded.
IsMounted == started /\ ~gaveUp
Unmounts ==
    /\ deadLoads' = deadLoads \cup ({loader} \ {"none", "decoded"})
    /\ bitmap' = FALSE /\ painted' = FALSE
MountEffect ==
    IF IsMounted /\ (~IsMounted' \/ attempt' # attempt)
    THEN /\ Unmounts
         /\ loader' = IF IsMounted' THEN "fetch" ELSE "none"
         /\ UNCHANGED leaked
    ELSE IF ~IsMounted /\ IsMounted'
    THEN loader' = "fetch" /\ UNCHANGED <<deadLoads, bitmap, painted, leaked>>
    ELSE UNCHANGED loadVars

Effects == StartEffect /\ LimitEffect /\ MountEffect

-----------------------------------------------------------------------------
(* The page.                                                               *)

VisibilityTurns ==
    /\ toggles < MaxToggles /\ toggles' = toggles + 1
    /\ visible' = ~visible
    /\ UNCHANGED <<modest, posterReady, requested, started, ready, gaveUp, attempt>>
    /\ Effects

PreferencesTurn ==
    /\ toggles < MaxToggles /\ toggles' = toggles + 1
    /\ modest' = ~modest
    /\ UNCHANGED <<visible, posterReady, requested, started, ready, gaveUp, attempt>>
    /\ Effects

PosterLoaded ==
    /\ ~posterReady
    /\ posterReady' = TRUE
    /\ UNCHANGED <<modest, visible, requested, started, ready, gaveUp, attempt, toggles>>
    /\ Effects

\* A gesture on the still image; the button is requestPanorama.
PosterTouched ==
    /\ ~started /\ ~gaveUp /\ ~requested
    /\ requested' = TRUE
    /\ UNCHANGED <<modest, visible, posterReady, started, ready, gaveUp, attempt, toggles>>
    /\ Effects

\* Slip: trying again forgets that the last attempt was ready.
AsksButStaysReady ==
    /\ ~started \/ gaveUp
    /\ attempt < MaxAttempts /\ attempt' = attempt + 1
    /\ gaveUp' = FALSE /\ requested' = TRUE /\ ready' = started
    /\ UNCHANGED <<modest, visible, posterReady, started, toggles>>
    /\ Effects

RequestPanorama ==
    /\ ~started \/ gaveUp
    /\ attempt < MaxAttempts /\ attempt' = attempt + 1
    /\ gaveUp' = FALSE /\ ready' = FALSE /\ requested' = TRUE
    /\ UNCHANGED <<modest, visible, posterReady, started, toggles>>
    /\ Effects

\* The fonts and two frames; then an idle gap.
FontsReady ==
    /\ loadChain = "fonts"
    /\ loadChain' = "idle"
    /\ UNCHANGED <<modest, visible, posterReady, requested, started, ready, gaveUp,
                   attempt, limit, loadVars, toggles>>
StartsIdle ==
    /\ loadChain = "idle"
    /\ started' = TRUE
    /\ UNCHANGED <<modest, visible, posterReady, requested, ready, gaveUp, attempt,
                   toggles>>
    /\ Effects

\* reportError: the fifteen seconds, a chunk or an image that does not come,
\* a canvas that loses its context.
Fails ==
    /\ gaveUp' = TRUE /\ ready' = FALSE
    /\ UNCHANGED <<modest, visible, posterReady, requested, started, attempt, toggles>>
    /\ Effects
TimesOut == limit /\ Fails
LoadFailed == IsMounted /\ Fails

-----------------------------------------------------------------------------
(* The component that loads.                                               *)

Loading == UNCHANGED <<modest, visible, posterReady, requested, started, ready, gaveUp,
                       attempt, loadChain, limit, deadLoads, leaked, toggles>>

FetchedImage == loader = "fetch" /\ loader' = "decode" /\ UNCHANGED <<bitmap, painted>> /\ Loading
DecodedImage == loader = "decode" /\ loader' = "decoded" /\ bitmap' = TRUE /\ UNCHANGED painted /\ Loading

\* Slip: an image that was decoded for nobody stays.
LateDecodeStays ==
    \E step \in deadLoads :
       /\ deadLoads' = deadLoads \ {step}
       /\ leaked' = (leaked \/ step = "decode")
       /\ UNCHANGED <<modest, visible, posterReady, requested, started, ready, gaveUp,
                      attempt, loadChain, limit, loader, bitmap, painted, toggles>>

\* A load that was aborted resumes: after a fetch it stops, after a decode it
\* closes what it got.
LateAnswer ==
    \E step \in deadLoads :
       /\ deadLoads' = deadLoads \ {step}
       /\ UNCHANGED <<modest, visible, posterReady, requested, started, ready, gaveUp,
                      attempt, loadChain, limit, loader, bitmap, painted, leaked, toggles>>

\* The canvas, which is created only on a visible page, paints its first frame.
Paints ==
    /\ bitmap /\ visible /\ ~painted
    /\ painted' = TRUE
    /\ ready' = TRUE
    /\ UNCHANGED <<modest, visible, posterReady, requested, started, gaveUp, attempt,
                   loader, deadLoads, bitmap, leaked, toggles>>
    /\ StartEffect /\ LimitEffect

PanoramaNext ==
    \/ VisibilityTurns \/ PreferencesTurn \/ PosterLoaded \/ PosterTouched
    \/ RequestPanorama \/ FontsReady \/ StartsIdle \/ TimesOut \/ LoadFailed
    \/ FetchedImage \/ DecodedImage \/ LateAnswer \/ Paints

\* The browser's own part: fonts settle, an idle gap comes, a timer fires
\* unless it is cleared.  What the network does is up to it.
PanoramaFairness ==
    /\ WF_panoramaVars(FontsReady) /\ WF_panoramaVars(StartsIdle)
    /\ WF_panoramaVars(TimesOut)

PanoramaSpec == PanoramaInit /\ [][PanoramaNext]_panoramaVars /\ PanoramaFairness

-----------------------------------------------------------------------------
(* Properties.                                                             *)

\* The still image is replaced only by a panorama that is mounted and has
\* painted, and what failed is not called ready.
ReadyMeansPainted == ready <=> (IsMounted /\ painted)

\* Every decoded image belongs to the component that is mounted.
ImagesReleased == ~leaked /\ (bitmap => IsMounted)

\* Nothing waits to start a panorama that has started or is not wanted.
NoIdleStart == loadChain # "none" => StartWanted

PanoramaSound ==
    PanoramaTypeOK /\ ReadyMeansPainted /\ ImagesReleased /\ NoIdleStart

\* A page that stays visible is not left opening the panorama: it is there,
\* or the still image and the button are.
PanoramaSettles ==
    (started /\ visible) ~> (ready \/ gaveUp \/ ~visible)
=============================================================================
