----------------------------- MODULE HarborClock -----------------------------
(***************************************************************************)
(* The frames of the animated wallpaper (night-harbor-animation.ts and the *)
(* clock of night-harbor-wallpaper.tsx): every region of the image loops   *)
(* through frames that last differently long, one timer draws them all and *)
(* waits for the earliest change, and the clock stands still while the     *)
(* page is not shown.  When the animation may run is NightHarborWallpaper's*)
(* part.  Durations are whole milliseconds here.                           *)
(***************************************************************************)
EXTENDS Integers, Sequences

CONSTANTS
    Durations, Offsets,     \* of the frames and regions of a manifest
    MaxFrames,              \* 256
    MaxTicks                \* bound: milliseconds observed

ASSUME ClockAssumption ==
    /\ Durations \subseteq Nat \ {0} /\ Offsets \subseteq Int
    /\ MaxFrames \in Nat \ {0} /\ MaxTicks \in Nat

VARIABLES
    regions,        \* of the manifest
    patches,        \* the frame drawn for every region
    elapsed,        \* shown time before startedAt
    startedAt,      \* NotStarted, or when the clock was started
    frameNow,       \* performance.now()
    due,            \* NoTimer, or when the timer fires
    shownFor        \* ghost: how long the page was shown

clockVars == <<regions, patches, elapsed, startedAt, frameNow, due, shownFor>>

NotStarted == 0 - 1
NoTimer == 0 - 1

Frames == UNION {[1..n -> Durations] : n \in 1..MaxFrames}

\* The time from the start of a loop to the end of its first n frames.
EndOf(frames, n) ==
    LET sum[i \in 0..n] == IF i = 0 THEN 0 ELSE sum[i - 1] + frames[i] IN sum[n]
Loop(frames) == EndOf(frames, Len(frames))

ClockTypeOK ==
    /\ DOMAIN patches = DOMAIN regions
    /\ \A r \in DOMAIN regions : patches[r] \in DOMAIN regions[r].frames
    /\ elapsed \in 0..MaxTicks /\ frameNow \in 0..MaxTicks /\ shownFor \in 0..MaxTicks
    /\ startedAt \in 0..MaxTicks \cup {NotStarted} /\ due \in Int

\* harborFrameAt: what is left of the loop after every frame, and how long the
\* frame it ends in lasts.  (The remainder is taken twice in the code, since
\* there it keeps the sign.)
HarborFrameAt(region, time) ==
    LET cursor == (time + region.offset) % Loop(region.frames)
        index == CHOOSE i \in DOMAIN region.frames :
                    /\ cursor < EndOf(region.frames, i)
                    /\ \A j \in 1..i - 1 : cursor >= EndOf(region.frames, j)
    IN [index |-> index, delay |-> EndOf(region.frames, index) - cursor]

Time == elapsed + IF startedAt = NotStarted THEN 0 ELSE frameNow - startedAt

\* Slip: the timer waits for the last region.
WaitsForLast(time) == HarborFrameAt(regions[Len(regions)], time).delay

NextChange(time) ==
    CHOOSE d \in {HarborFrameAt(regions[r], time).delay : r \in DOMAIN regions} :
       \A r \in DOMAIN regions : d <= HarborFrameAt(regions[r], time).delay

\* tick
Draw(time) ==
    /\ patches' = [r \in DOMAIN regions |-> HarborFrameAt(regions[r], time).index]
    /\ due' = frameNow + NextChange(time)

\* The wallpaper is decoded and drawn for the first time.
ClockInit ==
    /\ regions \in [1..2 -> [frames: Frames, offset: Offsets]]
    /\ elapsed = 0 /\ startedAt = 0 /\ frameNow = 0 /\ shownFor = 0
    /\ patches = [r \in DOMAIN regions |-> HarborFrameAt(regions[r], 0).index]
    /\ due = NextChange(0)

\* A timer may be late.
TimePasses ==
    /\ frameNow < MaxTicks /\ frameNow' = frameNow + 1
    /\ shownFor' = IF startedAt = NotStarted THEN shownFor ELSE shownFor + 1
    /\ UNCHANGED <<regions, patches, elapsed, startedAt, due>>

TimerDue ==
    /\ due # NoTimer /\ frameNow >= due
    /\ Draw(Time)
    /\ UNCHANGED <<regions, elapsed, startedAt, frameNow, shownFor>>

\* Slip: the time is added again by the next event that stops the clock.
StopAgain ==
    /\ due' = NoTimer
    /\ elapsed' = IF Time <= MaxTicks THEN Time ELSE MaxTicks
    /\ UNCHANGED <<regions, patches, startedAt, frameNow, shownFor>>

\* stopClock, by each event that finds the page hidden: there may be several.
StopClock ==
    /\ due' = NoTimer
    /\ elapsed' = Time
    /\ startedAt' = NotStarted
    /\ UNCHANGED <<regions, patches, frameNow, shownFor>>

\* refresh, by each event that finds the page shown
RefreshClock ==
    /\ IF due = NoTimer THEN startedAt' = frameNow /\ Draw(elapsed)
       ELSE UNCHANGED <<startedAt, patches, due>>
    /\ UNCHANGED <<regions, elapsed, frameNow, shownFor>>

ClockNext == TimePasses \/ TimerDue \/ StopClock \/ RefreshClock

ClockSpec == ClockInit /\ [][ClockNext]_clockVars

-----------------------------------------------------------------------------
(* Properties.                                                             *)

\* The frame a region should show: a round begins where the offset says and
\* every loop after and before that, and its frames follow one another.
Proper(region, time) ==
    CHOOSE i \in DOMAIN region.frames :
       \E began \in time - Loop(region.frames) + 1..time :
          /\ (began + region.offset) % Loop(region.frames) = 0
          /\ EndOf(region.frames, i - 1) <= time - began
          /\ time - began < EndOf(region.frames, i)

\* As long as its timer is not late, a wallpaper that runs shows the frames of
\* this moment, every one of them; one that is stopped, of the moment it stopped
\* or was last drawn.
FramesTimely ==
    due # NoTimer /\ frameNow < due =>
       \A r \in DOMAIN regions : patches[r] = Proper(regions[r], Time)

\* A timer never fires to no purpose: some frame ends when it is due.
DueAtChange ==
    due # NoTimer =>
       \E r \in DOMAIN regions :
          (Time + due - frameNow + regions[r].offset) % Loop(regions[r].frames)
             \in {EndOf(regions[r].frames, i) : i \in 0..Len(regions[r].frames)}

\* The clock counts the time the page was shown, whatever events tell of it.
ClockCountsShown == Time = shownFor

ClockSound == ClockTypeOK /\ FramesTimely /\ DueAtChange /\ ClockCountsShown
=============================================================================
