------------------------------- MODULE Pages --------------------------------
(***************************************************************************)
(* The applications on the desktop and the pages.  In the browser they are *)
(* instances of their own that share no state, so a behaviour exercises    *)
(* one of them, the one "part" names.                                      *)
(***************************************************************************)
EXTENDS PlayerOverlay, MusicLibrary, Desktop, DesktopStage, SponsorTransfer,
        VisitorSession, SiteBrowser, ChatActivity, WishList, RelationshipDates

VARIABLE part

vars == <<part, overlayVars, libraryVars, desktopVars, stageVars, sponsorVars,
          visitorVars, browserVars, activityVars, wishVars, datesVars>>

\* What a part that is not exercised begins with is fixed.
Resting(p, first) == part = p \/ first

Init ==
    /\ part \in {"overlay", "library", "desktop", "stage", "sponsor",
                 "visitor", "browser", "activity", "wishes", "dates"}
    /\ OverlayInit
    /\ LibraryInit
    /\ DesktopInit /\ Resting("desktop", query = NoQuery)
    /\ StageInit /\ Resting("stage", room = CHOOSE r \in Rooms : TRUE)
    /\ SponsorInit /\ Resting("sponsor", walletChain = "main" /\ walletAccount =
                                            CHOOSE a \in Accounts : TRUE)
    /\ VisitorInit
    /\ BrowserInit /\ Resting("browser", history = <<"about">>)
    /\ ActivityInit
    /\ WishInit /\ Resting("wishes", wishStore = Absent)
    /\ DatesInit /\ Resting("dates", startDate = <<0, 1>>)

\* A step of a part leaves the variables of the others alone.
Only(p) ==
    /\ UNCHANGED part
    /\ p # "overlay" => UNCHANGED overlayVars
    /\ p # "library" => UNCHANGED libraryVars
    /\ p # "desktop" => UNCHANGED desktopVars
    /\ p # "stage" => UNCHANGED stageVars
    /\ p # "sponsor" => UNCHANGED sponsorVars
    /\ p # "visitor" => UNCHANGED visitorVars
    /\ p # "browser" => UNCHANGED browserVars
    /\ p # "activity" => UNCHANGED activityVars
    /\ p # "wishes" => UNCHANGED wishVars
    /\ p # "dates" => UNCHANGED datesVars

Next ==
    \/ part = "overlay" /\ OverlayNext /\ Only("overlay")
    \/ part = "library" /\ LibraryNext /\ Only("library")
    \/ part = "desktop" /\ DesktopNext /\ Only("desktop")
    \/ part = "stage" /\ StageNext /\ Only("stage")
    \/ part = "sponsor" /\ SponsorNext /\ Only("sponsor")
    \/ part = "visitor" /\ VisitorNext /\ Only("visitor")
    \/ part = "browser" /\ BrowserNext /\ Only("browser")
    \/ part = "activity" /\ ActivityNext /\ Only("activity")
    \/ part = "wishes" /\ WishNext /\ Only("wishes")
    \/ part = "dates" /\ DatesNext /\ Only("dates")

Spec == Init /\ [][Next]_vars

-----------------------------------------------------------------------------
\* The player covers exactly what is visible of its slot, and two tabs agree on
\* the collection and can read back what they stored.
MusicSound == OverlaySound /\ LibrarySound

\* The windows on the desktop, the stage they are fitted to, the history of the
\* browser in one of them and the wishes kept by another are sound.
DesktopPartsSound == DesktopSound /\ StageSound /\ BrowserSound /\ WishesSound
=============================================================================
