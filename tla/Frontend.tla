------------------------------ MODULE Frontend ------------------------------
(***************************************************************************)
(* The parts of the frontend around the desktop.  On its server: the       *)
(* attempt limiter, one request through the chat route, and the tools the  *)
(* agent calls for what it says about the site.  On the page: the music    *)
(* player, the panorama behind it, the wallpaper and its clock.  They      *)
(* share no state -- the route takes one verdict from the limiter and      *)
(* goes on or answers 429 -- so a behaviour exercises one of them, the     *)
(* one "part" names.                                                       *)
(***************************************************************************)
EXTENDS ChatAttemptLimiter, ChatProxy, WebsiteTools, MusicPlayer,
        ProgressivePanorama, NightHarborWallpaper, HarborClock

VARIABLE part

vars == <<part, limiterVars, proxyVars, toolVars, playerVars, panoramaVars,
          wallpaperVars, clockVars>>

\* What a part that is not exercised begins with is fixed.
Resting(p, first) == part = p \/ first

Init ==
    /\ part \in {"limiter", "proxy", "tools", "player", "panorama",
                 "wallpaper", "clock"}
    /\ LimiterInit
    /\ ProxyInit
    /\ ToolsInit /\ Resting("tools", configured = {})
    /\ PlayerInit
    /\ PanoramaInit /\ Resting("panorama", ~modest /\ visible)
    /\ WallpaperInit /\ Resting("wallpaper", allowed /\ ~hidden /\ poster)
    /\ ClockInit /\ Resting("clock",
          \A r \in DOMAIN regions :
             /\ regions[r].offset = CHOOSE o \in Offsets : TRUE
             /\ regions[r].frames = <<CHOOSE d \in Durations : TRUE>>)

\* A step of a part leaves the variables of the others alone.
Only(p) ==
    /\ UNCHANGED part
    /\ p # "limiter" => UNCHANGED limiterVars
    /\ p # "proxy" => UNCHANGED proxyVars
    /\ p # "tools" => UNCHANGED toolVars
    /\ p # "player" => UNCHANGED playerVars
    /\ p # "panorama" => UNCHANGED panoramaVars
    /\ p # "wallpaper" => UNCHANGED wallpaperVars
    /\ p # "clock" => UNCHANGED clockVars

Next ==
    \/ part = "limiter" /\ LimiterNext /\ Only("limiter")
    \/ part = "proxy" /\ ProxyNext /\ Only("proxy")
    \/ part = "tools" /\ ToolsNext /\ Only("tools")
    \/ part = "player" /\ PlayerNext /\ Only("player")
    \/ part = "panorama" /\ PanoramaNext /\ Only("panorama")
    \/ part = "wallpaper" /\ WallpaperNext /\ Only("wallpaper")
    \/ part = "clock" /\ ClockNext /\ Only("clock")

\* What rests has no fair step enabled.
Spec ==
    /\ Init /\ [][Next]_vars
    /\ ProxyFairness /\ PlayerFairness /\ PanoramaFairness

-----------------------------------------------------------------------------
\* What the server does for a request is done once and told truly: the chat
\* route and the tools of the agent.
ServerSound == ProxySound /\ ToolsSound

\* A loaded player is not called slow and fills a mounted slot, and what lies
\* behind the page is there in time and released once: the panorama and the
\* wallpaper.  The frames the wallpaper shows are ClockSound's.
PageSound == PlayerSound /\ PanoramaSound /\ WallpaperSound

\* Nothing on the page stays in between: an opening player loads or is called
\* slow, and a panorama that was asked for is shown or given up.
PageSettles == OpeningEnds /\ PanoramaSettles
=============================================================================
