----------------------------- MODULE MusicPlayer -----------------------------
(***************************************************************************)
(* The one music player of a page (music-session.tsx): the item that is    *)
(* loaded, the iframe that shows it, the progress the page displays, and   *)
(* the slot of the layout the iframe is placed over.  An iframe lives as   *)
(* long as its key: the embed URL with the revision.                       *)
(***************************************************************************)
EXTENDS Naturals

CONSTANTS
    Items,          \* what a link can resolve to
    Slots,          \* the elements that can hold the player
    MaxLoads        \* bound: items loaded, players reloaded or stopped

None == "none"

ASSUME ItemsAssumption ==
    Items # {} /\ None \notin Items /\ None \notin Slots /\ MaxLoads \in Nat

VARIABLES
    current, revision,
    progress,       \* playerProgress: [key, status]
    frame,          \* the mounted iframe: "none", "opening" or "open"
    slowTimer,      \* the twelve-second timer of this iframe is armed
    mounted,        \* the slots in the document
    slot,           \* the slot that is registered
    loads           \* what MaxLoads counts

playerVars == <<current, revision, progress, frame, slowTimer, mounted, slot, loads>>

NoKey == <<None, 0>>
PlayerKeys == (Items \X (0..MaxLoads)) \cup {NoKey}

PlayerKey == IF current = None THEN NoKey ELSE <<current, revision>>

PlayerTypeOK ==
    /\ current \in Items \cup {None}
    /\ revision \in 0..MaxLoads /\ loads \in 0..MaxLoads
    /\ progress \in [key: PlayerKeys, status: {"idle", "loaded", "slow"}]
    /\ frame \in {"none", "opening", "open"} /\ slowTimer \in BOOLEAN
    /\ mounted \subseteq Slots /\ slot \in Slots \cup {None}

PlayerInit ==
    /\ current = None /\ revision = 0 /\ loads = 0
    /\ progress = [key |-> NoKey, status |-> "idle"]
    /\ frame = "none" /\ slowTimer = FALSE
    /\ mounted = {} /\ slot = None

\* playerStatus, as the page shows it.
Status ==
    IF current = None THEN "idle"
    ELSE IF progress.key = PlayerKey THEN progress.status ELSE "loading"

\* Slip: the effect depends on the item alone.
MountsByItem ==
    /\ frame' = IF current' = None THEN "none"
                ELSE IF PlayerKey' = PlayerKey THEN frame ELSE "opening"
    /\ slowTimer' = IF current' = current THEN slowTimer ELSE current' # None

\* A commit with a new key replaces the iframe; the effect clears the timer
\* and arms the next.  Clicks are discrete events: React runs the effects
\* they cause before anything else happens.
Mounts ==
    IF PlayerKey' = PlayerKey THEN UNCHANGED <<frame, slowTimer>>
    ELSE IF current' = None THEN frame' = "none" /\ slowTimer' = FALSE
    ELSE frame' = "opening" /\ slowTimer' = TRUE

Counted == loads < MaxLoads /\ loads' = loads + 1

Load(i) ==
    /\ Counted
    /\ current' = i
    /\ UNCHANGED <<revision, progress, mounted, slot>>
    /\ Mounts

Stop ==
    /\ current # None       \* who shows the button
    /\ Counted
    /\ current' = None
    /\ revision' = revision + 1
    /\ UNCHANGED <<progress, mounted, slot>>
    /\ Mounts

\* Offered while the player is slow.
ReloadPlayer ==
    /\ Status = "slow"
    /\ Counted
    /\ revision' = revision + 1
    /\ UNCHANGED <<current, progress, mounted, slot>>
    /\ Mounts

\* The iframe reports its load.
PlayerLoaded ==
    /\ frame = "opening"
    /\ frame' = "open"
    /\ progress' = [key |-> PlayerKey, status |-> "loaded"]
    /\ UNCHANGED <<current, revision, slowTimer, mounted, slot, loads>>

\* Slip: the timer does not look at what was reported.
SlowAnyway ==
    /\ slowTimer
    /\ slowTimer' = FALSE
    /\ progress' = [key |-> PlayerKey, status |-> "slow"]
    /\ UNCHANGED <<current, revision, frame, mounted, slot, loads>>

SlowTimer ==
    /\ slowTimer
    /\ slowTimer' = FALSE
    /\ progress' = IF progress = [key |-> PlayerKey, status |-> "loaded"]
                   THEN progress ELSE [key |-> PlayerKey, status |-> "slow"]
    /\ UNCHANGED <<current, revision, frame, mounted, slot, loads>>

\* A place for the player appears, or changes its layer and registers anew:
\* the panel's or the desktop window's.
RegisterSlot(s) ==
    /\ mounted' = mounted \cup {s}
    /\ slot' = s
    /\ UNCHANGED <<current, revision, progress, frame, slowTimer, loads>>

\* Slip: whoever leaves takes the registration along.
LeaveForAll(s) ==
    /\ s \in mounted
    /\ mounted' = mounted \ {s}
    /\ slot' = None
    /\ UNCHANGED <<current, revision, progress, frame, slowTimer, loads>>

\* It goes: the cleanup leaves a newer registration alone.
UnregisterSlot(s) ==
    /\ s \in mounted
    /\ mounted' = mounted \ {s}
    /\ slot' = IF slot = s THEN None ELSE slot
    /\ UNCHANGED <<current, revision, progress, frame, slowTimer, loads>>

PlayerNext ==
    \/ \E i \in Items : Load(i)
    \/ Stop \/ ReloadPlayer \/ PlayerLoaded \/ SlowTimer
    \/ \E s \in Slots : RegisterSlot(s) \/ UnregisterSlot(s)

\* A browser timer fires, unless the visitor replaces the player first; what
\* the platform's page does is up to it.
PlayerFairness == WF_playerVars(SlowTimer)

PlayerSpec == PlayerInit /\ [][PlayerNext]_playerVars /\ PlayerFairness

-----------------------------------------------------------------------------
(* Properties.                                                             *)

\* Once loaded, a player is never called slow; and the newest place the page
\* offers keeps the player until that very place goes.
LoadedIsNotSlow == frame = "open" => Status = "loaded"
SlotIsMounted == slot # None => slot \in mounted
NewestKeepsSlot ==
    [][\A s \in Slots : slot = s /\ s \in mounted' => slot' # None]_playerVars

PlayerSound == PlayerTypeOK /\ LoadedIsNotSlow /\ SlotIsMounted

\* A visitor is never left looking at "opening": the page reports the load or
\* offers a retry.
OpeningEnds == (Status = "loading") ~> (Status # "loading")

\* The page shows the loading state of the official player (README.md:47):
\* "loaded" is shown only of an iframe that has loaded.  It fails: load() leaves
\* the revision as it is, so an item that is loaded again after another has its
\* old key, and the report of its earlier iframe.
LoadedMeansLoaded == Status = "loaded" => frame = "open"
=============================================================================
