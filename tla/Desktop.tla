------------------------------- MODULE Desktop -------------------------------
(***************************************************************************)
(* The desktop of My World (pixel-desktop.tsx) with the panel of the other *)
(* pages (site-music.tsx): which windows are open and in what order, what  *)
(* the relationship mode and a launch URL open and close, and the music    *)
(* that plays on while the visitor moves between the pages.  Where the     *)
(* windows lie is DesktopStage's part.                                     *)
(***************************************************************************)
EXTENDS RelationshipMode, Sequences, SequencesExt

CONSTANTS
    Others,         \* applications without a part of their own here
    MaxZ            \* bound: openings and focusings of one visit

Apps == {"agent", "music", "our-space"} \cup Others
NoQuery == "none"
Queries == {NoQuery, "music"} \cup Others      \* the ?app= of the URL
Panels == {"closed", "agent", "music"}

ASSUME DesktopAssumption ==
    /\ MaxZ \in Nat /\ MaxZ >= 2
    /\ Others \cap {"agent", "music", "our-space", NoQuery} = {}

VARIABLES
    page,           \* "desktop" or "site"
    windows,        \* in the order of the task bar
    zTop,           \* zRef
    previousMode,   \* previousModeRef: "unset", TRUE or FALSE
    query, launched,\* the query of the URL and lastLaunchQuery
    panel,          \* what the panel of the other pages shows
    playing,        \* currentMusic is there
    dismissed,      \* ghost: closed by the visitor, and nothing has asked for it since
    front           \* ghost: the window last brought to the front

desktopVars == <<modeVars, page, windows, zTop,
                 previousMode, query, launched, panel, playing, dismissed, front>>
urlVars == <<query, launched>>

Window == [id: Apps, z: 0..MaxZ, minimized: BOOLEAN]
NewWindow(id, z) ==
    [id |-> id, z |-> z, minimized |-> FALSE]

DesktopTypeOK ==
    /\ ModeTypeOK
    /\ page \in {"desktop", "site"} /\ panel \in Panels
    /\ windows \in Seq(Window) /\ zTop \in 0..MaxZ
    /\ previousMode \in {"unset", "shown", "hidden"}
    /\ query \in Queries /\ launched \in Queries \cup {"unset"}
    /\ playing \in BOOLEAN /\ dismissed \subseteq Apps
    /\ front \in Apps \cup {"none"}

\* Slip: a desktop that is mounted does not ask what plays.
OnlyAgentWindow == <<NewWindow("agent", 1)>>

InitialWindows ==
    IF playing
    THEN <<NewWindow("agent", 1), NewWindow("music", 2)>>
    ELSE <<NewWindow("agent", 1)>>

DesktopInit ==
    /\ ModeInit
    /\ page = "desktop" /\ playing = FALSE /\ panel = "closed"
    /\ windows = InitialWindows
    /\ zTop = 1 /\ front = "agent"
    /\ previousMode = "unset"
    /\ query \in Queries /\ launched = "unset"
    /\ dismissed = {}

-----------------------------------------------------------------------------
(* What the page derives.                                                  *)

IsOpen(id) == \E i \in DOMAIN windows : windows[i].id = id
Change(id, change(_)) ==
    [i \in DOMAIN windows |-> IF windows[i].id = id THEN change(windows[i])
                                                    ELSE windows[i]]

\* filter by the id: an application has one window
Without(id) ==
    IF IsOpen(id) THEN RemoveAt(windows, CHOOSE i \in DOMAIN windows : windows[i].id = id)
                  ELSE windows

\* modeWindows, then visible: what the visitor sees.
ModeWindows == {w \in ToSet(windows) : IsShown \/ w.id # "our-space"}
Visible == {w \in ModeWindows : ~w.minimized}
IsActive(w) == w \in Visible /\ \A v \in Visible : v.z <= w.z

Raises == zTop < MaxZ /\ zTop' = zTop + 1

\* relationshipReady
Ready == initial = "done"
ModeSeen == IF IsShown THEN "shown" ELSE "hidden"
ModeEffectDue == page = "desktop" /\ Ready /\ previousMode # ModeSeen

\* What an effect that has not run will open.
Owed == (IF launched # query THEN {query} ELSE {})
        \cup (IF previousMode # "shown" THEN {"our-space"} ELSE {})

-----------------------------------------------------------------------------
(* The visitor.                                                            *)

OnDesktop == page = "desktop" /\ UNCHANGED <<modeVars, page, panel, previousMode>>

\* focusWindow: from the task bar also a minimized window.
FocusWindow(id) ==
    /\ OnDesktop
    /\ \E w \in ModeWindows : w.id = id /\ ~IsActive(w)
    /\ Raises
    /\ windows' = Change(id, LAMBDA w : [w EXCEPT !.z = zTop', !.minimized = FALSE])
    /\ front' = id
    /\ UNCHANGED <<urlVars, playing, dismissed>>

\* Slip: an application that is open gets a second window.
OpensAnother(id) ==
    /\ zTop' = zTop + 1
    /\ windows' = Append(windows, NewWindow(id, zTop'))
    /\ front' = id

\* openApp: raise its window, or place a new one inside the stage.
Opened(id) ==
    /\ zTop' = zTop + 1
    /\ windows' = IF IsOpen(id)
                  THEN Change(id, LAMBDA w : [w EXCEPT !.z = zTop', !.minimized = FALSE])
                  ELSE Append(windows, NewWindow(id, zTop'))
    /\ front' = id

\* An icon of the desktop or an entry of the start menu.
OpenApp(id) ==
    /\ OnDesktop
    /\ id = "our-space" => IsShown
    /\ zTop < MaxZ /\ Opened(id)
    /\ dismissed' = dismissed \ {id}
    /\ UNCHANGED <<urlVars, playing>>

MinimizeWindow(id) ==
    /\ OnDesktop
    /\ \E w \in Visible : w.id = id
    /\ windows' = Change(id, LAMBDA w : [w EXCEPT !.minimized = TRUE])
    /\ front' = IF front = id THEN "none" ELSE front
    /\ UNCHANGED <<zTop, urlVars, playing, dismissed>>

ShowDesktop ==
    /\ OnDesktop
    /\ windows' = [i \in DOMAIN windows |-> [windows[i] EXCEPT !.minimized = TRUE]]
    /\ front' = "none"
    /\ UNCHANGED <<zTop, urlVars, playing, dismissed>>

\* Slip: closing the music leaves it playing.
CloseOnly(id) ==
    /\ OnDesktop
    /\ \E w \in Visible : w.id = id
    /\ windows' = Without(id)
    /\ dismissed' = dismissed \cup ({id} \ Owed)
    /\ front' = IF front = id THEN "none" ELSE front
    /\ UNCHANGED <<zTop, urlVars, playing>>

CloseWindow(id) ==
    /\ OnDesktop
    /\ \E w \in Visible : w.id = id
    /\ windows' = Without(id)
    /\ playing' = (playing /\ id # "music")
    /\ dismissed' = dismissed \cup ({id} \ Owed)
    /\ front' = IF front = id THEN "none" ELSE front
    /\ UNCHANGED <<zTop, urlVars>>

\* The music application, in its window or in the panel: load and stop.
PlayMusic ==
    /\ \/ page = "desktop" /\ \E w \in Visible : w.id = "music"
       \/ page = "site" /\ panel = "music"
    /\ playing' = TRUE
    /\ UNCHANGED <<modeVars, page, panel, windows, zTop, previousMode,
                   urlVars, dismissed, front>>
StopMusic ==
    /\ page = "site" \/ \E w \in Visible : w.id = "music"
    /\ playing
    /\ playing' = FALSE
    /\ UNCHANGED <<modeVars, page, panel, windows, zTop, previousMode,
                   urlVars, dismissed, front>>

-----------------------------------------------------------------------------
(* The effects, the mode and the pages.                                    *)

\* The effect of a change of the mode: it owns the window of our space only.
ModeEffect ==
    /\ ModeEffectDue
    /\ previousMode' = ModeSeen
    /\ IF IsShown
       THEN /\ Raises
            /\ windows' = Append([i \in DOMAIN Without("our-space") |->
                   [Without("our-space")[i] EXCEPT
                       !.minimized = @ \/ Without("our-space")[i].id = "agent"]],
                   NewWindow("our-space", zTop'))
            /\ front' = "our-space"
       ELSE /\ windows' = Without("our-space")
            /\ front' = IF front = "our-space" THEN "none" ELSE front
            /\ UNCHANGED zTop
    /\ UNCHANGED <<modeVars, page, panel, urlVars, playing, dismissed>>

\* Slip: the effect runs again whenever openApp is a new function.
LaunchAgain ==
    /\ page = "desktop" /\ Ready /\ ~ModeEffectDue
    /\ launched' = query
    /\ IF query = NoQuery THEN UNCHANGED <<windows, zTop, front>>
       ELSE zTop < MaxZ /\ Opened(query)
    /\ UNCHANGED <<modeVars, page, panel, previousMode, query,
                   playing, dismissed>>

\* The launch URL opens its application once.
LaunchEffect ==
    /\ page = "desktop" /\ Ready /\ ~ModeEffectDue
    /\ launched # query
    /\ launched' = query
    /\ IF query = NoQuery THEN UNCHANGED <<windows, zTop, front>>
       ELSE zTop < MaxZ /\ Opened(query)
    /\ UNCHANGED <<modeVars, page, panel, previousMode, query,
                   playing, dismissed>>

\* A link inside the page changes the query.
QueryChanges(q) ==
    /\ OnDesktop
    /\ q # query
    /\ query' = q
    /\ dismissed' = dismissed \ {q}
    /\ UNCHANGED <<windows, zTop, launched, playing, front>>

\* The provider of the mode, and the agent whose reply unlocks it.  React runs
\* the effects of one render before it renders again.
ModeChanges ==
    /\ ~ModeEffectDue
    /\ \/ ModeNext
       \/ SetCookie /\ initial = "done" /\ Activate /\ UNCHANGED initial
    /\ dismissed' = IF IsShown' THEN dismissed ELSE dismissed \ {"our-space"}
    /\ UNCHANGED <<page, panel, windows, zTop, previousMode, urlVars,
                   playing, front>>

\* A link to another page: the desktop unmounts, the music plays on.
GoToSite ==
    /\ page = "desktop"
    /\ page' = "site"
    /\ windows' = <<>> /\ zTop' = 0 /\ front' = "none" /\ dismissed' = {}
    /\ previousMode' = "unset" /\ launched' = "unset"
    /\ UNCHANGED <<modeVars, panel, query, playing>>

GoToDesktop(q) ==
    /\ page = "site"
    /\ page' = "desktop"
    /\ windows' = InitialWindows
    /\ zTop' = Len(InitialWindows)
    /\ front' = IF playing THEN "music" ELSE "agent"
    /\ query' = q
    /\ UNCHANGED <<modeVars, panel, previousMode, launched, playing,
                   dismissed>>

\* site-music.tsx: the launcher, the shortcut, the tabs and the collapse.
ShowPanel(p) ==
    /\ page = "site"
    /\ p # panel
    /\ panel' = p
    /\ UNCHANGED <<modeVars, page, windows, zTop, previousMode, urlVars,
                   playing, dismissed, front>>

DesktopNext ==
    \/ \E id \in Apps :
          \/ FocusWindow(id) \/ OpenApp(id) \/ MinimizeWindow(id)
          \/ CloseWindow(id)
    \/ ShowDesktop \/ PlayMusic \/ StopMusic
    \/ ModeEffect \/ LaunchEffect \/ ModeChanges
    \/ \E q \in Queries : QueryChanges(q) \/ GoToDesktop(q)
    \/ GoToSite \/ \E p \in Panels : ShowPanel(p)

DesktopSpec == DesktopInit /\ [][DesktopNext]_desktopVars

-----------------------------------------------------------------------------
(* Properties.                                                             *)

\* An application has one window; heights differ, so one window is active.
WindowsDistinct ==
    \A i, j \in DOMAIN windows :
        i # j => windows[i].id # windows[j].id /\ windows[i].z # windows[j].z

\* What was brought to the front is in front until it is put away.
FrontIsActive ==
    \A w \in Visible : w.id = front => IsActive(w)

\* The window of our space exists in its mode only, once the effect has run.
PrivateWindowGoes ==
    page = "desktop" /\ Ready /\ ~ModeEffectDue /\ ~IsShown => ~IsOpen("our-space")

\* A window the visitor closed stays closed until it is asked for again:
\* neither the mode nor the launch URL brings it back on its own.
ClosedStaysClosed == \A w \in ToSet(windows) : w.id \notin dismissed

\* On the desktop, music that plays has its window, and with it the button
\* that stops it; elsewhere the dock has one.
MusicHasWindow == page = "desktop" /\ playing => IsOpen("music")

DesktopSound ==
    /\ DesktopTypeOK /\ WindowsDistinct /\ FrontIsActive /\ PrivateWindowGoes
    /\ ClosedStaysClosed /\ MusicHasWindow
=============================================================================
