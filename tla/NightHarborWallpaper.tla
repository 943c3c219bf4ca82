------------------------ MODULE NightHarborWallpaper ------------------------
(***************************************************************************)
(* The animated wallpaper of the desktop (night-harbor-wallpaper.tsx): one *)
(* run of its effect.  The animation is loaded when the browser is idle,   *)
(* drawn by a chain of timers while the page is shown, and given up when   *)
(* the preferences of the visitor forbid it.  A load suspends at its       *)
(* fetches and at the decode of the atlas; release() moves the generation  *)
(* on, and a load of an older one must notice when it resumes.             *)
(***************************************************************************)
EXTENDS Naturals

CONSTANT MaxReleases    \* bound: how often the preferences take it away

ASSUME WallpaperAssumption == MaxReleases \in Nat

VARIABLES
    allowed,        \* allowsHarborMotion: what the preferences say
    hidden, suspended, poster,      \* document.hidden, pagehide, the still image
    enabled, failed, loading,
    idle,           \* an idle callback or its substitute is pending
    job,            \* where the load of this generation waits
    older,          \* where loads of older generations wait
    url, atlas, manifest,           \* what is held: object URL, image, patches
    timer,          \* the next tick is pending
    disposed, releases

wallpaperVars == <<allowed, hidden, suspended, poster, enabled, failed, loading,
                   idle, job, older, url, atlas, manifest, timer, disposed, releases>>
pageVars == <<allowed, hidden, suspended, poster>>
heldVars == <<url, atlas, manifest>>

WallpaperTypeOK ==
    /\ {allowed, hidden, suspended, poster, enabled, failed, loading, idle, url,
        atlas, manifest, timer, disposed} \subseteq BOOLEAN
    /\ job \in {"none", "fetch", "decode"} /\ older \subseteq {"fetch", "decode"}
    /\ releases \in 0..MaxReleases + 1

WallpaperInit ==
    /\ allowed \in BOOLEAN /\ hidden \in BOOLEAN /\ poster \in BOOLEAN
    /\ suspended = FALSE /\ enabled = FALSE /\ failed = FALSE /\ loading = FALSE
    /\ job = "none" /\ older = {}
    /\ url = FALSE /\ atlas = FALSE /\ manifest = FALSE
    /\ timer = FALSE /\ disposed = FALSE /\ releases = 0
    /\ idle = FALSE

\* release()
Release ==
    /\ timer' = FALSE /\ idle' = FALSE /\ loading' = FALSE
    /\ older' = older \cup ({job} \ {"none"})
    /\ job' = "none"
    /\ url' = FALSE /\ atlas' = FALSE /\ manifest' = FALSE
    /\ releases' = releases + 1

Shown == ~hidden' /\ ~suspended' /\ poster'

\* The end of refresh(), for an animation that is enabled: stop the clock of a
\* page that is not shown, go on drawing, or load what is missing.
Resume(has, busy, broken, ticking, waiting) ==
    IF ~Shown THEN timer' = FALSE /\ idle' = FALSE
    ELSE IF has THEN timer' = TRUE /\ idle' = waiting
    ELSE timer' = ticking /\ idle' = (waiting \/ (~broken /\ ~busy))

\* refresh()
Redraw ==
    IF disposed THEN UNCHANGED <<enabled, failed, loading, idle, job, older, heldVars,
                                 timer, releases>>
    ELSE
    /\ enabled' = allowed'
    /\ failed' = (failed /\ enabled = allowed')
    /\ IF enabled /\ ~allowed' THEN Release
       ELSE /\ UNCHANGED <<loading, job, older, heldVars, releases>>
            /\ IF allowed' THEN Resume(manifest /\ atlas, loading, failed', timer, idle)
               ELSE UNCHANGED <<timer, idle>>

\* Slip: coming back to a page does not look for a load that was cut short.
OnlyRedraws ==
    /\ hidden' = ~hidden
    /\ UNCHANGED <<allowed, suspended, poster, disposed>>
    /\ IF manifest THEN Redraw
       ELSE /\ idle' = (idle /\ ~hidden')
            /\ UNCHANGED <<enabled, failed, loading, job, older, heldVars, timer, releases>>

VisibilityChanges ==
    /\ hidden' = ~hidden
    /\ UNCHANGED <<allowed, suspended, poster, disposed>>
    /\ Redraw

PreferencesChange ==
    /\ releases < MaxReleases
    /\ allowed' = ~allowed
    /\ UNCHANGED <<hidden, suspended, poster, disposed>>
    /\ Redraw

\* The still image is there, and whoever looks before its event sees it, too.
PosterLoads ==
    /\ ~poster
    /\ poster' = TRUE
    /\ UNCHANGED <<allowed, hidden, suspended, disposed>>
    /\ Redraw

\* The refresh() at the end of the effect, or another event that changes nothing.
Looks ==
    /\ UNCHANGED <<pageVars, disposed>>
    /\ Redraw

PageHide ==
    /\ ~suspended
    /\ suspended' = TRUE
    /\ timer' = FALSE /\ idle' = FALSE
    /\ UNCHANGED <<allowed, hidden, poster, enabled, failed, loading, job, older,
                   heldVars, disposed, releases>>

PageShow ==
    /\ suspended
    /\ suspended' = FALSE
    /\ UNCHANGED <<allowed, hidden, poster, disposed>>
    /\ Redraw

\* load(), from the idle callback
StartLoad ==
    /\ idle
    /\ idle' = FALSE
    /\ IF enabled /\ ~hidden /\ ~suspended
       THEN loading' = TRUE /\ job' = "fetch" ELSE UNCHANGED <<loading, job>>
    /\ UNCHANGED <<pageVars, enabled, failed, older, heldVars, timer, disposed, releases>>

\* The manifest and the atlas are there: the image is decoded.
Fetched ==
    /\ job = "fetch"
    /\ job' = "decode"
    /\ url' = TRUE /\ atlas' = TRUE
    /\ UNCHANGED <<pageVars, enabled, failed, loading, idle, older, manifest, timer,
                   disposed, releases>>

Decoded ==
    /\ job = "decode"
    /\ job' = "none"
    /\ url' = FALSE /\ manifest' = TRUE /\ loading' = FALSE
    /\ UNCHANGED <<pageVars, enabled, failed, older, atlas, disposed, releases>>
    /\ Resume(TRUE, FALSE, failed, timer, idle)

\* A fetch, the decode or the manifest fails: no more until the preferences
\* change.
LoadFails ==
    /\ job # "none"
    /\ failed' = TRUE
    /\ Release
    /\ UNCHANGED <<pageVars, enabled, disposed>>

\* Slip: a load that was fetched does not look at the generation.
OldGoesOn ==
    \E step \in older :
       /\ older' = older \ {step}
       /\ IF step = "fetch" THEN url' = TRUE /\ atlas' = TRUE /\ UNCHANGED manifest
          ELSE UNCHANGED heldVars
       /\ UNCHANGED <<pageVars, enabled, failed, loading, idle, job, timer,
                      disposed, releases>>

\* A load of an older generation resumes, or fails, and leaves everything alone.
OldGivesUp ==
    \E step \in older :
       /\ older' = older \ {step}
       /\ UNCHANGED <<pageVars, enabled, failed, loading, idle, job, heldVars, timer,
                      disposed, releases>>

\* One tick: the next is pending, or drawing has failed.
WallpaperTick ==
    /\ timer
    /\ enabled /\ ~hidden /\ ~suspended /\ manifest /\ atlas
    /\ \/ UNCHANGED <<failed, loading, idle, job, older, heldVars, timer, releases>>
       \/ failed' = TRUE /\ Release
    /\ UNCHANGED <<pageVars, enabled, disposed>>

\* The effect is cleaned up: another wallpaper, another setting, another page.
Dispose ==
    /\ ~disposed
    /\ disposed' = TRUE
    /\ Release
    /\ UNCHANGED <<pageVars, enabled, failed>>

WallpaperNext ==
    /\ releases <= MaxReleases
    /\ \/ VisibilityChanges \/ PreferencesChange \/ PosterLoads \/ Looks
       \/ ~disposed /\ (PageHide \/ PageShow)
       \/ StartLoad \/ Fetched \/ Decoded \/ LoadFails \/ OldGivesUp
       \/ WallpaperTick \/ Dispose

WallpaperSpec == WallpaperInit /\ [][WallpaperNext]_wallpaperVars

-----------------------------------------------------------------------------
(* Properties.                                                             *)

\* No way of hiding, resuming, forbidding and allowing loses the animation:
\* where it may run it runs, is being loaded, or has failed.
NeverForgotten ==
    enabled /\ ~disposed /\ ~hidden /\ ~suspended /\ poster /\ ~failed
       => timer \/ loading \/ idle

\* What is not shown costs nothing: no timer, no idle callback.
QuietWhenHidden ==
    disposed \/ ~enabled \/ hidden \/ suspended => ~timer /\ ~idle

\* What is forbidden, or whose effect is over, holds no image and no URL,
\* and a load that resumes late brings none back; a URL lives only as long
\* as the decode that needs it.
NothingHeld ==
    /\ disposed \/ ~enabled => ~url /\ ~atlas /\ ~manifest
    /\ url => job = "decode"

\* The loading flag is true exactly while a load of this generation is on.
LoadingMeansLoading == loading <=> job # "none"

WallpaperSound ==
    /\ WallpaperTypeOK /\ NeverForgotten /\ QuietWhenHidden /\ NothingHeld
    /\ LoadingMeansLoading
=============================================================================
