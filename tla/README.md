# Formal models of nekovccat_web

TLA+ models of the nekovccat web site's own logic, checked with TLC and, where a
property should hold for every configuration, proved with TLAPS. The models are
translated from the sources under `src/`; `PROJECT.json` maps every definition to
the lines it stands for.

Run from this directory:

    tlc -workers 2 -config <run>.cfg <module>      # one model-checking run
    tlapm <module>Proofs.tla                       # one proof module

## The system

A browser (React) shows a pixel desktop with its applications, a music player, a
panorama and a chat with an agent. It talks to the Next.js routes of
`frontend/src/app/api`, which forward a chat turn to the Go backend
(`backend-go`). The backend admits the turn, charges it against a quota, starts a
`dsh` child process that runs the agent, and streams its progress back as
server-sent events. The agent calls the site's own tools (`agent/website-tools.mjs`).

    desktop, applications, music, backdrop          (page state, localStorage, wallet)
    agent session -> Next.js: attempt limiter -> chat proxy
       -> backend Wrap: attempt guard -> admission gate -> quota -> chat handler
          -> Service.Stream -> runtime manager -> dsh child -> website tools
                 |  worker goroutine fills StreamBuffer
                 +- handler drains it into the response

Redis holds the shared admission state, PostgreSQL the journal of turns and the
accounts, SQLite the visitors' data and login failures; the browser keeps the
conversation, the music and the wishes in `localStorage` and two cookies (visitor,
relationship). A Python backend is kept as a rollback path.

### Components, their state, and what makes them correct

| Component | State | Hard behaviour | Correctness |
| --- | --- | --- | --- |
| Admission gate over Redis (`admission/distributed_limiter.go`, `middleware.go`) | one key per identity, sorted sets of waiters and of slots; each request's ticket | instances interleave between round trips; lost replies; crashes; expiry; disconnects | bounded execution, first come first served, one request per source, clean-up, everybody answered |
| Admission gate in one process (`admission/limiter.go`) | maps of active and waiting tickets, the line, ready channels, a mutex | a promotion races a timeout or a cancellation; sends under the mutex; old tickets beside new ones | line and map agree, no idle slot beside a waiter, no deadlock, a slot belongs to one ticket |
| Usage quota (`admission/quota.go`) | time stamps of executed requests | windows of three lengths share rows; rows out of order; keys that expire; lost replies | never more than the limit in any window; a rejected request does not count; the retry time is right to the second |
| Chat stream (`agent/service.go`, `agent/stream.go`) | buffer with limits, terminal result, wake channel | two goroutines, a one-slot wake channel, a slow reader, timeouts, cleanup that gives up | no lost wake-up, the final reply once and last, the worker ends |
| Runtime manager (`agent/manager.go`, `Start` and `Close` of `harness/client.go`) | prepared files, leases, closing | shutdown against starting workers; leases outliving their handler | children bounded, files removed after the last lease, shutdown ends |
| Chat proxy (`api/chat/route.ts`, `chat-security.ts`, `chat-attempt-limiter.ts`) | timers, abort, reader and stream of a request; the map of attempts | timers, abort, consumer and backend end a request at once; a bounded map that forgets | ends once, truly told, nothing left armed or running; the limit holds although states are swept |
| Agent session (`agent-session.tsx`, `chat-request.ts`, `chat-stream.ts`, `chat-reply-buffer.ts`, `chat-history.ts`, `chat-activity.ts`) | messages, the active run, buffered text, stored history, activities | late answers of stopped runs; a text waiting for its frame when the run ends; reload and crash | an event changes only its own run; received text is kept; what is stored follows what is shown |
| Relationship mode (`relationship-mode.tsx`, `relationship-unlock/route.ts`) | mode, content, cookie | a cookie set before the reply is complete | only completed replies change the desktop |
| Desktop (`pixel-desktop.tsx`, `site-music.tsx`) | windows with heights and places, the drag | effects of mode and URL; a stage that shrinks during a drag | closed windows stay closed, windows lie inside the stage |
| Music (`music-session.tsx`, `geometry.ts`) | item, iframe, timer, slots, measured place; the library of each tab | slots that come and go, late frames, storage events between tabs | the newest slot keeps the player, it covers exactly its slot, tabs agree |
| Sponsor window (`sponsor-app.tsx`, `wallet.ts`) | account, chain, review, request, transfer | the wallet changes while a request is open; answers late, never, or after the window closed | asked only for what was reviewed, never twice while one is open |
| Visitor mode (`visitor-app.tsx`, `api/visitor`) | cookie, list, selected application | lists that arrive after a logout or another login | the applications shown are those of who is logged in |
| Our space, browser, tools (`our-space.tsx`, `relationship-dates.ts`, `neko-browser.tsx`, `website-tools.mjs`) | wishes in storage, computed dates, history, a call | short months, forgotten history, generated arguments | the next anniversary, two stacks, the quiz reveals and unlocks nothing early |
| Backdrop (`page-layout.tsx`, `panorama-background.tsx`, `night-harbor-wallpaper.tsx`, `night-harbor-animation.ts`) | loads, bitmaps, URLs, timers, generations | loads that finish after they were given up; hidden pages | nothing leaks, nothing is forgotten, the clock is right |
| Attempt guard (`admission/attempt.go`, `distributed_attempt.go`) | the bucket of the site and of each identity, the order of the map, cooldowns | eviction and expiry of buckets that still matter; clocks out of order | nobody is let through more than burst and refill; a cooldown is kept |
| Harness client (`harness/client.go`, `queue.go`) | pending requests, the process and its pipes, the notification queue | three goroutines and a Close at any time; a process that dies, floods or goes deaf | a turn is told the truth in order, nobody waits for a dead process, Close ends |
| Progressive reply, turn journal, visitor throttle and storage | | secrets split over deltas, instances migrating together, check then record | not modelled yet, see Plan |

`PROJECT.json` lists every component with its status, and the hazards of this
code, each at its line, with the properties that would catch it.

## The modules

One module per component. Small components that share no state are put together
in one module that is run: `Quota`, `ChatTurn`, `Frontend` and `Pages` EXTEND their
parts (or instantiate them), and a variable that never changes (`asked`, `store`,
`part`) says which one a behaviour exercises. The others rest in a fixed state and
fairness asks nothing of them, so the run checks the union of its parts and not
their product.

| Module | Models | Composed with |
| --- | --- | --- |
| `AdmissionGate` | the abstract gate: requests come, wait, execute while fewer than `MaxExecuting` do, and leave | refined by both limiters |
| `DistributedLimiter`, `LocalLimiter` | the gate over Redis and in one process, with `Wrap` around it | refine `AdmissionGate` |
| `MemoryQuota`, `RedisQuota` | the rolling windows in memory and in the Lua script | `Quota` |
| `AttemptBuckets` | the attempt guard in either store | `Quota` |
| `ChatStream` | one streamed turn: worker, `StreamBuffer`, handler, clocks, client | `ChatTurn`; its worker's lease is the subject of `RuntimeManager` |
| `HarnessClient` | one child process of a turn with its requests, goroutines and queue | `ChatTurn` |
| `RuntimeManager` | leases and child processes of all turns, their slots at the gate, `Lease.Close`, `Client.Start` and `Close`, the end of `main` | contains the gate as a count of running handlers |
| `AttemptGuard`, `BrowserHistory` | what the frontend's limiter, and the buttons of a browser, promise | refined by `ChatAttemptLimiter` and `SiteBrowser` |
| `RelationshipMode` | the provider of the mode and the cookie the server sets | extended by `AgentSession` and `Desktop` |
| `AgentSession` | the conversation: runs, replies, frames, persistence, reloads | |
| `Frontend` | `ChatAttemptLimiter`, `ChatProxy`, `WebsiteTools`, `MusicPlayer`, `ProgressivePanorama`, `NightHarborWallpaper`, `HarborClock` | |
| `Pages` | `PlayerOverlay`, `MusicLibrary`, `Desktop`, `DesktopStage`, `SponsorTransfer`, `VisitorSession`, `SiteBrowser`, `ChatActivity`, `WishList`, `RelationshipDates` | |
| `MC...` | the instances of the modules whose constants are functions or have a symmetry | |
| `...Proofs` | theorems about `DistributedLimiter`, `LocalLimiter`, `Quota` with its parts, `ChatTurn` with its parts, `RuntimeManager`, `AgentSession`, `Frontend` with its parts, `Pages` with its parts | |

### How state and actions correspond to the code

**`DistributedLimiter`.** A process is an HTTP request, its `pc` the place in
`Wrap`, `Enter`, `Wait` or `Release`. Each Redis round trip is an action
(`ClaimIdentity` is SETNX, `CheckRoom` ZCARD, `Join` ZADD, `FirstAttempt` and
`Poll` the script, `GiveUp`, `CancelEnter`, `CancelWait` and `Release` the
pipelines), because requests of several backend instances interleave between
them; the script is one action, because Redis runs it alone. Keys carry their
expiry, entries of the active set their lease end. `RedisFault` fails any
command, before or after Redis applied it; `Crash` stops all requests of one
instance; `Disconnect` cancels a context; `Tick` moves the clock. `authorize`,
`clientIdentity` and `readChatBody` appear as the branch they decide.

**`LocalLimiter`.** The sections under `Limiter.mu` are the steps of the request
that holds `mutex`, and `promoteLocked` takes one step per turn of its loop, so
that its sends on the `ready` channels (of capacity one) can be seen to block or
not. The two selects of `Wait` choose among what is ready, as Go does.

**`MemoryQuota`, `RedisQuota`.** The middleware reads the clock (`Call`) and only
then waits for the mutex or the script (`Consume`), so rows can be written out of
order by up to `Skew`. In memory the rows are sequences in append order and
`Prune` drops a prefix, up to the first row that still counts, as the loop of
`quota.go:87` does; in Redis they are sets of members by score, with a key expiry
of their own. A second is `Second` ticks, and each store rounds the wait up to whole
seconds in its own way: in memory to at least one (`RetryOf`), in Redis with 60 in
place of none (`RetryAfter`). `RedisFault` loses a command or its
reply. `Quota` starts with one of the two, as `Stack` does.

**`AttemptBuckets`.** `Check` is one step under the mutex, or one script, with the
clock its request has read. Tokens are counted in seconds of refill. In memory
`Stale` evicts from the head of the order and `touch` moves to its end; in Redis
`SecondPasses` forgets the keys that have expired. `passed`, `slack` and `promised`
are history: what was let through, how far a bucket's clock was set back, and the
cooldown an identity was told of.

**`ChatStream`.** A section under the buffer's mutex is one step. `Publish`,
`Finish` and `Stop` send on the wake channel after they unlock; this `Signal` is a
step of its own, owed by the goroutine that unlocked. `Get` is its section under
the mutex, then a `select` that `Woken`, `ContextDone` or `TimerFires` leaves. The
worker's stages are those of the goroutine in `Stream`, ending in the deferred
`CloseLease` and `StopWorker`; the handler's are the loop of `Stream`, the last
frames, the deferred `StopHandler` with `Join` or `CleanupTimeout`, and `Answer`,
the error frame of `api.go`. An event is its number and its kind; one event is one
byte of the limits, so a merged item has as many bytes as events.

**`HarnessClient`.** The turn's goroutine, `readLoop`, `waitLoop` and `Close` are
the actors, the child the environment. A request is registered, takes `writeMu`,
writes to the pipe and waits (`Registers`, `TakesPen`, `WriteLands`, `Answered`); a
write to a pipe that nobody reads has no time limit, and the next request waits
behind it. `Start` has three steps: its first look at `closed`, `cmd.Start` outside
the mutex (`Spawns`), and the second look (`Records`), after which it discards the
process if a `Close` came between (`Discards`); that `Close` has found no process and
may have returned. `readLoop` looks an answer up under the mutex and sends it afterwards
(`found`). The queue's signal comes after its unlock (`owed`), and its reader lets
the mutex go before it listens (`Sleeps`). `Wait` closes the pipes, so that lines in
them may be lost (`ReadFails`). A notification is its kind and its number in what
the child says (`Scripts`).

**`RuntimeManager`.** A turn has a handler and a worker. `Prepare` is one step
under the manager's mutex, with its three outcomes; `Acquire` the next section.
`Start`, `Spawn` and `Record` are the first look at `closed`, `cmd.Start` and the
second look in `Client.Start`. `CloseLease` and `ShutdownClose` enter
`Lease.once` and mark the client closed; `Reap` is the end of the process, by the
shutdown request, the closed stdin, SIGTERM or SIGKILL; `Release` gives the lease
back and removes the files if it was the last. `main` closes the leases of its
snapshot one after the other. `Return` and `CleanupTimeout` give the admission
slot back. For a turn that is not streamed the handler does the worker's steps
and can only `Return`.

**`ChatAttemptLimiter`.** `take` is synchronous and one step, with the sweep it may
begin with; the clock moves between attempts. The refinement reads the map through
the clock: a state whose stamps have left the window is the absence of one.

**`ChatProxy`.** `POST` is cut at its awaits: the body, the fetch, the discarded
error body, each read and each cancel. A timer is its being armed. `answered` is the
status of the backend's headers: an event stream or JSON is passed on with it, and
anything else is discarded and answered with it too, or with 502 if it was a success. `finish` and
`finishStream` are operators of the steps that call them, so whoever comes second
meets what the first one left. The stream is the backend's response, its reader,
and the stream handed to the browser with its queue of one.

**`AgentSession`.** A *run* is one call of `runReply`, with its phase between two
awaits; a run that was stopped keeps its phase and resumes. The decoder's snapshots
are the texts 0, 1, ... of a reply; the buffer holds one until its frame
(`requestAnimationFrame`) or until the run ends. Effects of React that follow a
change are `dirty` until `Effect` runs them; the persistence timer, `pagehide`, a
reload and a crash are actions. `RelationshipMode` has the two requests of an
unlock; the server's half (the cookie) happens at any time between them.
`ChatActivity` has the list beside a reply: one report of a tool or a stage is one
step, the end of the reply another: `InterruptActivity` at an error and at Stop,
`CompleteReply`, which leaves the items as they are, at a completion. `UnderWay` is
what the page then says of an item.

**`Desktop`, `DesktopStage`.** A visitor's action is a step with the render it
causes; the effects that depend on the mode and on the launch URL are steps of
their own, due until they run. `DesktopStage` has one coordinate, measured from the
near edge; the observer reports a size some time after it changed, and only then
are windows and the drag clipped (`fitted`).

**`MusicPlayer`, `PlayerOverlay`, `MusicLibrary`.** An iframe lives as long as its
key, the URL with the revision, and may report its load late. Slots register and
leave; the newest that is mounted has the player. The overlay is computed one frame
after anything moved, from rectangles that are intersected with what cuts them. In
the library each tab has its copy, writes are whole, and storage events queue per tab.

**`SponsorTransfer`.** The request that is open is a record with its step; the
component's `generation` is the flag `stale` of that record. The wallet changes
account or network at once and its events are delivered later. A closed window
leaves its request behind as `orphan`. `unsettled` counts the transactions the
wallet was asked for and whose fate no answer has told; it is history, no code.

**`VisitorSession`.** A fetch of the list is made for whom the cookie names when it
starts; its answer comes later, in any order. Logouts are counted, since their button
stays enabled while one is in flight. `raced` remembers that an answer was on its
way when the cookie changed, or that a logout did not reach the server.

**`SiteBrowser`, `WishList`, `RelationshipDates`, `WebsiteTools`.** The history is
the array with its index, cut at `MaxHistory`; the wishes are read at mount and
written whole; the dates are recomputed when the window opens, at its timer and when
the page is shown again, so they may be old by `MaxAsleep` days, and `together`
counts the days as they come, apart from the code's subtraction; a tool call is
whatever the agent generates, answered in one step.

**`ProgressivePanorama`, `NightHarborWallpaper`, `HarborClock`.** A load suspends
at its fetch and its decode, and resumes in a page that may have released it; what
it finds then (aborted, disposed, an older generation) decides. The clock counts
the time the page was shown; a region's frames have whole durations and an offset.

## What the runs show

A property of a run is a conjunction of named parts, each with a comment of its
own in its module. Every property has mutants, slips in the modelled code that TLC
finds under the same configuration (`PROJECT.json`, `mutants`). The slips stand in
the modules beside the definition they mutate, marked "Slip".

| Run | Shows |
| --- | --- |
| `redis_gate_faulty` | with a lost command or reply anywhere, at most `CHATMaxConcurrent` requests execute over two instances, and until something is lost every return path cleans up (`GateSound`); nobody overtakes an earlier request in the waiting set, and until something is lost the script turns nobody away while a slot is free (`LineKept`); the limiter implements `AdmissionGate` (`GateSpec`) |
| `redis_gate_crash` | with a crash anywhere, and a second visit of the source when the key and the slot of its first have expired (`CrashSurvived`): the identity key lets one request of a source through as long as no request of that source was cancelled (`ExclusiveUntilCancelled`), and the slot of a dead request comes back when its lease ends, so that whoever is turned away has somebody before it or finds every slot taken by a lease that still runs (`SlotsComeBack`); every request is answered (`Settles`) |
| `local_gate_line` | map and line agree, no free slot beside a waiting ticket, the line is bounded, promotion never blocks under the mutex (`LineSound`), and `GateSpec` |
| `local_gate_same_source` | with two requests of one source: a running request keeps its slot, one request per source, nothing is left behind by timeouts racing promotions (`SourcesSound`), every request is answered (`Settles`) |
| `quota` | no window of real time holds more than its limit although rows come out of order, and for Redis although replies are lost and keys expire; nobody executes uncharged (`QuotaSound`); `Retry-After` is right to the second: nobody of the source is charged a second or more before it, and nobody is rejected from then on unless somebody was charged meanwhile (`RetryWithinASecond`); the attempt guard lets no identity through more than burst and refill, keeps every cooldown though buckets are evicted and expire, and its order lists its map (`BucketsSound`) |
| `chat_turn` | the buffer keeps its limits, events arrive in order and without a gap, the reported reason is the real one (`StreamSound`); no lost wake-up, the handler always finds a terminal when the worker has left, the response has one ending (`EndingSound`); the harness client hands on a prefix of the turn's notifications without a gap and completes at its own idle status only, wakes its reader, leaves nobody to wait for a dead process, and a `Close` that is over leaves no process but one that `Start` holds and discards before it returns (`ClientSound`); the stream with its worker, and the client with its process, come to rest (`TurnSettles`) |
| `runtime_manager` | at most `CHATMaxConcurrent` children, none outlives its worker, the patch files are there while used and gone at the end (`RuntimeSound`); shutdown ends (`ShutdownEnds`) and so does every admitted turn (`TurnsEnd`) |
| `agent_session` | one reply grows, complete replies stand under their own question, what is posted holds no partial reply (`ConversationSound`); received text survives every way a run can end (`NothingReceivedIsLost`); the storage follows the page and a reset forgets for good (`StoredFollowsShown`); stopped runs change nothing (`StaleRunsAreSilent`); the desktop changes by a completed reply or a page load (`DesktopFollowsReplies`) |
| `frontend` | the attempt limiter with a map of two for three identities implements `AttemptGuard` with unbounded memory (`GuardSpec`), stays bounded, and its retry times suffice (`LimiterSound`); a proxied request ends once, with nothing armed or running, with the backend's status if its answer is passed on, and else with one that tells the outcome, and the quiz unlocks for five right answers and its results betray none (`ServerSound`); requests end at all (`RequestsEnd`); the player is not called slow when it is loaded and fills a mounted slot, panorama and wallpaper neither leak nor lag (`PageSound`), nor does the clock (`ClockSound`); the newest slot keeps the player (`NewestKeepsSlot`), and neither player nor panorama stays opening (`PageSettles`) |
| `pages` | windows, drags and the launch URL against the mode, a browser that shows its entry, wishes that are kept when it says so (`DesktopPartsSound`); the player covers exactly the visible part of its slot, and two tabs agree on the collection and can read it back (`MusicSound`); the wallet is asked for what was reviewed, and by an open window not again while the outcome of its last transfer is unknown (`SponsorSound`); the list shown is that of who is logged in, unless the cookie changed under a fetch (`VisitorSound`); activities keep their identity and none is called under way in a reply that is over (`ActivitiesSound`, `OverStaysOver`); the next anniversary is the first that is not over, and the days together are those that came, the first counted as one (`DatesTrue`); the history behaves as two stacks (`BehavesAsStacks`) |

Two runs end in a violation of a sentence of the repository. The counterexamples,
in words:

| Run | Sentence | What the code does |
| --- | --- | --- |
| `redis_two_per_source` | "One active or waiting request per source" (`deployment/agent-protection.md:14`) | Cancel deletes the identity key; the deferred Release of the same request deletes it again, by then the key of a later request |
| `agent_session_unlock` | "Failed, empty, aborted or incomplete replies must never change the desktop." (`frontend/src/lib/api/chat-stream.ts:184`) | the unlock request sets the cookie when the server handles it; if the reply is then stopped or its page lost, the next page opens the relationship desktop from the cookie |

### Observations without a run

What the models allow and no property above forbids; each follows from the
actions named.

- After a crash the head of the Redis line may be a request nobody polls for; those
  behind it time out beside free slots (`WaitsOnlyWhenOccupied` without its
  condition on faults).
- ZCARD and ZADD are separate round trips (`CheckRoom`, `Join`): arrivals that read
  the size together all join, and the waiting room over Redis exceeds
  `CHAT_QUEUE_MAX_SIZE`. In one process the section under the mutex prevents it
  (`FixedCapacity`).
- Over Redis every request passes through the waiting set and is refused by its size
  alone, so simultaneous arrivals are told `queue_full` while slots are free, and a
  size of 0, which the configuration accepts (`config.go:206`), admits nobody. The
  local limiter looks at the slots first.
- The errors of the pipelines of Cancel and of the deferred Release are ignored
  (`ReleasePipeline` under `RedisFault`), and the waiting set has no expiry: a member
  that neither removes stays, and is such a head.
- The quota script charges before its reply arrives: when the reply is lost the
  request is answered 503 and stays charged (`RedisFault` of `RedisQuota`).
- A prompt that is being written to a process that does not read holds `writeMu`
  without a limit; the shutdown request of `Close` waits behind it before any signal
  is sent (`Stuck` of `HarnessClient`).
- `cmd.Wait` runs beside `readLoop` and closes the pipe it reads: the last lines of a
  process that has ended may be lost, and the turn is then failed (`ReadFails`).
- The map `byIP` of the quota in memory never loses a key (`quota.go:70`).
- The handler of a turn gives its slot back after the cleanup timeout, the lease may
  take three times that; the next visitor is admitted, charged and refused
  (`AdmittedGetsRuntime` of `RuntimeManager`).
- `main` does not wait for the handlers, and may exit while a worker is between the
  start of its process and its second look at `closed` (`NoOrphan`).
- `load` of the music session leaves the revision as it is: after A, B, A the fresh
  iframe of A has the key of the first, and the page says "loaded" of it at once
  (`LoadedMeansLoaded`; `README.md:47`, `music-session.tsx:53-56, 87-97`).
- A list of applications that was on its way when the cookie changed is shown under
  the other visitor (`OnlyOwnApps`; `visitor-app.tsx:97`). The selected application
  survives a 401, and a logout whose request is lost leaves the cookie valid.
- Two tabs or windows that write at once overwrite each other's music or wishes.
- Closing the sponsor window forgets a pending transfer; `switchNetwork` may show a
  chain the wallet has left since.
- A late event of an identified tool call opens it again after it was over.
- A time-out while the proxy discards an error body is logged as a time-out and
  answered with the backend's status, or 502.
- An unfinished tool of a complete reply keeps its status: the page words it as ended
  (`UnderWay`), the list does not (`CompleteReply`; `agent-app.tsx:125`).
- `Retry-After` is rounded up in memory and in the script: a source may be let through
  some time before it, less than a second.

### Bounds

- Redis gate: three requests (four for `redis_two_per_source`), two of one source,
  on two instances; one slot and a waiting room of one, or two with a crash. Every
  hazard of the gate is between a request that runs, one that waits and one that
  comes or leaves; the source that comes back needs a fourth. `Lease`, `Wait`,
  `Grace` are a few ticks in the order the configuration gives them
  (`TimingAssumption`), and the clock runs until the leases and keys of the early
  arrivals could have expired beside a late one: with a crash, the first request of a
  source arrives by 1 and the second of it by 5 (`MCReturns`), leases last 2 ticks, and
  the clock runs to 6. One lost reply or one crash: `ExecutionBound`, `CrashSurvived`
  and `GateSpec` are proved for any number.
- Local gate: four visitors on one slot with a line of two, so that the loop of
  `promoteLocked` meets an expired head with somebody behind it, or three requests of
  two sources with a line of one. A tick is the whole wait (`wait = 0`): a ticket is
  in time at the reading of the clock at which it was taken and late at the next, and
  nothing in the code tells finer times apart. The visitors are interchangeable
  (`MCSymmetry`) in the run without liveness.
- Quotas: five requests of two sources in the process with a clock to 7, four over
  Redis with a clock to 6 and one lost reply; a second of 2 ticks,
  so that rounding up shows; windows of 2, 4 and 6 ticks, limits 1, 2, 3, one tick
  between reading the clock and the mutex or the script. The minute, and the day of
  the site or of the source, alone decide the retry time of some rejection, the hour
  only together with another; the clock reaches the end of all of them. Requests of
  one source are interchangeable.
- Attempt guard: two identities on a map of one, five checks over eight seconds, a
  bucket of one token that takes two seconds, cooldowns of three and six seconds and
  a cache time of four: a bucket outlives the cache time while its doubled
  cooldown still goes on, and must then be kept. The site's clock is set back by one second at most.
- Chat stream: a buffer of two items and three bytes, items of up to two, four
  events of notes and of two messages: the event limit, the byte limit and both
  reasons not to merge are all met.
- Harness client: a queue of two, a pipe of one line, and six notifications
  (`ChildScripts`): an idle status from before the prompt, an event of an unknown
  session, the receipt, the start of a subagent, its event, the last idle status.
  They overflow the queue when the turn is slow.
- Runtime manager: two streamed turns and one that is not, two slots, so that a
  third turn comes while one is closing.
- Agent session: two turns and two runs, so that a stopped run resumes beside its
  successor; a reply of one partial text and a final one; one reload or crash; the
  second run carries an unlock proof. The cookie is absent at the start.
- Frontend: three identities and a map of two, a limit of two in a window of two
  ticks with a longer quiet period, clock to 7, so that a state is swept and its
  identity comes back; two chunks through the proxy's queue of one; five questions,
  as the code has; two items, two slots and four loads (load A, B, A, reload);
  frames of 1 and 3 ticks with offsets 0 and 2, up to two of each region; three
  releases or toggles, so that a load of an old generation meets a new one.
- Pages: rectangles with edges 0 to 2, which decide every way two intervals can lie;
  two tabs and a collection of two out of three songs; two accounts, two wallet
  events and two requests, so that a stale request meets a fresh review; two fetches
  of two visitors and two logouts at a time; a history of four; a list of three activities and six reports, so
  that items are dropped; starts at the ends of long and short months in a common and
  a leap year and every day of 28 months.

Deadlock is not checked where a run comes to rest when its requests, turns or
bounded inputs are over. That nobody is stuck before is what the liveness
properties say. `agent_session` checks it: a visitor can always do something.

### Fairness

`DistributedLimiter` and `LocalLimiter` assume that time passes and that each
request's goroutine runs. For the local limiter this is strong fairness per
request, since the mutex is taken and given back in between and Go's mutex hands
itself to a goroutine that has waited. `ChatStream` assumes that goroutines run and
that the two deadlines pass; it owes nothing to the agent (which may never answer),
the client (which may never leave) or the network. A write that neither ends nor
fails does not occur, since `setWriteDeadline` bounds each. `HarnessClient` assumes
that goroutines run, timers and contexts end, a kill works and a child that reads
makes room for a write; it owes nothing to a child that does not read, answer or
exit. `RuntimeManager` assumes
that goroutines run, that a run ends (its context has a deadline) and that a process
ends under SIGKILL. In the browser and in Node, timers that are armed fire
(`TimerFires`, `SlowTimer`, `TimesOut`, and `BodySettles`, whose deadline settles
the body), an aborted fetch rejects, a stream that was read to its end or failed
tells so, a cancel settles, `document.fonts.ready` resolves and
`requestIdleCallback` runs. Nothing is assumed of
arrivals, of visitors, wallet, backend or platform, of cancellations, the cleanup
timeout, the signal to shut down or failures.

## What is proved

`tlapm` checks every step of the proof modules. Apart from the constants'
named assumptions there are no assumptions.

**`DistributedLimiterProofs`.** `TypeCorrect`; `Exclusive`; `CrashIsSurvived`; `Bounded`; `GateIsSound`;
`NobodyOvertakes`; `LineIsKept`; `ImplementsGate`: any number of requests, sources,
instances, faults and crashes.
- `Exclusive` rests on `KeyInv`: while no request of a source was cancelled and no
  command failed, each request between its SETNX and its Release keeps its source's
  key, with an expiry that the time it may take (`EntryMax`, `HoldMax`) does not
  reach; a crashed request's key still blocks its source. The property alone is
  not inductive: it does not say whose the key is.
- `Bounded` rests on `SlotInv`: every executing request is a member of the active
  set with a lease end in the future, as `HoldMax < Lease`. The set has at most
  `CHATMaxConcurrent` members after each purge, and the script adds to it only
  when it has fewer. A duplicate Release removes only its own member.
- `CrashIsSurvived` adds to `Exclusive` that slots come back. `SlotsManned`: while no
  command fails, whoever has not asked the script yet or is done holds no slot. With
  `SlotInv` each member the purge leaves is then of a request that is not done, dead
  perhaps, whose lease has not ended.
- `GateIsSound` adds what is left behind: while nothing was lost and nobody died,
  each member of a sorted set is of a request between its ZADD and its last
  pipeline, and each key of one between SETNX and Release. A failed command or a
  dead process breaks it, hence the condition.
- `LineIsKept` has two halves. `NobodyOvertakes` is the grant of the script, and holds
  whatever happens. That nobody is turned away beside a free slot holds while no
  process dies (`[](crashes = 0)`): what a dead one leaves at the head of the line
  holds everybody up. The head must be in service, which is what is left behind again.
- `ImplementsGate` maps each request to outside, waiting, executing or left by its
  `pc`; each action is one step of `AdmissionGate` or a stutter, and the grant needs
  `SlotInv` for the gate's guard.

**`LocalLimiterProofs`.** `SourcesAreSound`, `LineIsSound`, `ImplementsGate`, for
any requests and sources.
- `SourcesAreSound` rests on `Owned` (a slot or place belongs to a request of its
  identity that has entered and not released, and an identity has one of the two),
  `Told` (who was told of a slot and has not given it back has it) and `Locked`
  (while `Enter` holds the mutex nobody of its identity gets in).
- `LineIsSound` counts: `LineLength` is a bijection between the slice and the map
  of waiting tickets, without which "the line is bounded" does not follow from the
  guard, which looks at the slice only.
- `ImplementsGate` uses an injection from the requests the gate lets execute into the
  occupied slots (`RoomAtTheGate`).

**`QuotaProofs`.** `QuotaIsSound`, `RetryIsWithinASecond` and `BucketsAreSound`, for any
requests, sources, windows, limits, buckets and cooldowns that satisfy
`ConstantsOK` and the assumptions of `AttemptBuckets`, whatever replies are lost.
- Both quotas keep rows in their own way, so each has its invariant. `RedisInv`:
  every row that can still count is in a key that outlives it (`Remembered`), so
  that what the script counts contains what the window holds. `ProcessInv` describes
  a list of rows out of order by what is before and behind a place in it (`Cut`,
  `Many`), since `Prune` stops at the first row that still counts, behind which there may be
  older ones.
- `RetryWithinASecond` is of a rejected request: a second or more before the time it
  is told nobody of its source is charged, and from that time on nobody is rejected
  unless somebody was charged after it asked. What the stores round is a wait in
  ticks, for which the invariants hold to the tick; `RoundedUp` and `WaitsRound` carry
  them over. `AllCrowded` and `ProcessBlocked` give the half "not earlier" from the
  limit-th youngest row, `AllFreed` and `ProcessFreed` the half "not later".
- Of the buckets: what was let through since the bucket was full is at most what it
  has lost and what time gave back, however often it was evicted or had expired
  (`slack` pays for clocks that were set back); a cooldown that was promised is in
  the map, or it is over. The proof needs that a bucket is not stale before it is full
  again for a reader whose clock is ahead *and* a writer whose clock was behind: the
  cache time has to exceed the refill time by twice the skew.
- The least row of a list with a property comes from `NatLessThanWellFounded` and
  `WFMin`, which need no induction of their own (`Least`, `Greatest`).

**`ChatTurnProofs`.** Of the stream, for any limits and any number of events:
`WakeupKept`, `TerminalFound`, `OneEnding`, together `EndingIsSound`, and
`StreamIsSound`; of the harness client, for every script and any size of queue and
pipe, `ClientIsSound`; of the turn that TLC runs, `TurnIsSound`.
- `NoLostWakeup` is inductive as it stands; each step that makes the buffer
  non-empty or terminal owes a signal, and the merge that owes none needs an item
  that is there already.
- `Told` needs `StoppedInv` (a buffer is stopped under a looping handler only by an
  overflow, which leaves its own terminal, or after `Finish`) and `StageInv`.
- `EndsOnce` needs `EndInv`, which ties the frames written so far to the stage of
  the handler.
- `BufferBounded` and `InOrder` describe the items by a *division* of what they hold
  (`Cuts`): each item begins where the one before it ends. An append adds a last
  place to it, a merge moves the last one, `Get` drops the first and, for the byte
  count, shifts the rest; a concatenation of all items would need an induction over
  them at each step. `InOrder` needs `ShapeInv`: what is discarded is discarded for
  good, and the handler holds an item only between `Get` and the write.
- `VerdictTrue` needs `ReasonInv`: whoever carries an error (the worker's `failure`,
  the buffer's `terminal`) has its reason already. That a worker may report
  "cancelled" when it finds the buffer stopped is true because only a handler that
  has returned stops it under a worker that still publishes (`StoppedBy`).
- `ClientInv` follows a notification through three places. `PipeInv(r, s)`: those up
  to `s` were said, those up to `r` were read, the rest is in the pipe in order.
  `QueueInv(p, r)`: of those read, the ones up to `p` were popped and the queue holds
  the next ones, all of them unless it has its error. What was delivered is then
  the turn up to `p`, which is `RunTrue`. Before the prompt only idle statuses are
  said, so `Run` may reset the queue without losing anything.
- `CallInv`: a request on its way is pending or has its answer; when `waitLoop` or
  `Close` has answered the pending, whoever still waits has an answer. Its part `Held`
  says which process nobody but `Start` knows: between `cmd.Start` and the second look
  the client has none, so that a `Close` may be over by then.

**`RuntimeManagerProofs`.** For every set of turns and number of slots:
`TypeCorrect`, `Bounded`, `NoStray`, `Files`, together `RuntimeIsSound`. The
invariant `Inv` counts *claims*: the turns with a lease together with those still
inside a `Start` that began with one. Leases alone would not do: Shutdown may give
back the lease of a turn whose process appears a moment later. Claims never grow
once Shutdown has begun, and until then they are the leases, which `Acquire` bounds.
`ChildInv` says of every running process that its `Start` is still to look again or
that the client knows it and its lease is still held; `FilesInv` ties the files to
the leases.

**`AgentSessionProofs`.** `ConversationIsSound`, `NothingIsLost`, `StoredIsShown`,
`StaleAreSilent` and `DesktopFollows`, for any number of turns, runs, deltas, unlocking
runs and page loads.
- `Talk` says what any conversation is, shown or stored: every reply stands under the
  turn its run was asked about (`Under`), no message is there twice, a complete reply
  is of a completed run and is the only one under its turn. Both conversations need
  it, since a page load shows what was stored. `Prunes` covers every operation that
  loses or marks partial replies (`publish`, `interruptAssistant`,
  `restoreConversation`) in one lemma, `PrunedTalk`: an order-preserving map into the
  old conversation that leaves out no turn. The filters get that map from
  `KeptMessages`.
- `RunsInv` says who runs: a run that waits for the network is the active one or was
  aborted, and only the active one has a buffer in use. It makes `check()` after an
  await the same as `isCurrent` (`Current`), on which `StaleAreSilent` rests, and says
  that a completed run is never active again.
- `ActiveInv` is of the active run: the last text it handed over is in its message or
  is what waits for its frame, and no complete reply stands under its turn yet.
  `NothingReceivedIsLost` speaks of ended runs only and is not inductive without it;
  nor is `RepliesAnswerTheirTurn`, since a completion adds a complete reply.
- `StoredSoon` is inductive as it stands; that nothing from before a reset comes back
  is part of `Talk`.

**`FrontendProofs`.** `FrontendLimiter`, `FrontendGuard`, `FrontendServer`, `FrontendPage`,
`FrontendClock` and `FrontendSlot` are theorems of the specification TLC runs, for any
identities, answers, quizzes, places of the player, loads and frames; each rests on a
theorem of the part.
- The limiter: `LimiterInv` describes a window as a tail of the times the reference
  has kept, in ascending order, so that what `sweep` and `Check` drop is a prefix
  that no longer counts; `Fits` bounds the map. `ImplementsAttemptGuard` reads the
  map through the clock: the limited state an identity has for the guard is what
  its entry still says, and a missing entry says nothing that counts.
- The proxy: `StageInv` says what exists at each await of `POST`; `EndsInv` ties
  abort, outcome and the three ends of the stream together: an abort is an end and
  its reason the outcome, and before the first end the reader is held and the output
  open. Neither `StatusTellsOutcome` nor `StreamEndsOnce` is inductive without them,
  since the first to end a request decides for those that resume later. The status
  is that of the headers until an answer is made of it (`answered`).
- The tools need `ToolsInv`, the player `PlayerInv`, the panorama `PanoramaInv` and
  the wallpaper `WallpaperInv`, which name who owns each load, timer and frame.
- The clock: while a timer is set, `ClockInv` knows a moment, not after the present
  one, for which the patches were drawn, and that the timer is due when the first of
  the frames of that moment ends. Until then no cursor has left its frame or begun a
  new loop (`CursorMoves`), so the frames are those of the present too; when it is
  due, one cursor is at an end or at a new beginning. `ProperFrame` shows that the
  frame that is drawn is the one a region's loops, laid end to end from its offset,
  have at that moment. `EndOf` is recursive: `SumsExist` gives each of its values by
  a counterexample that would be the least, and `EndsAre` unfolds it.
- `PartsBegin` and `PartsMove` say that a behaviour of the whole is one of each part,
  the others at rest.

**`PagesProofs`.** `PagesDesktop`, `PagesMusic`, `PagesSponsor`, `PagesVisitor`,
`PagesActivities`, `PagesDates`, `PagesOver` and `PagesStacks`, composed from the parts in the same way.
- The desktop: `BarOK` (the windows have distinct applications and heights below
  `zTop`), `FrontOnTop` (the one brought to front has the greatest height, hidden
  windows included), `ModeInv` (the mode is shown only when the load at the mount is
  over) and `OpenInv`, about `OpenIds`, the windows the effects still owed would
  leave: they open nothing that was dismissed, and our space only while the mode is
  shown or its end is not yet seen. Stated of the windows that are there, none of
  this is inductive, since an effect runs after the step that causes it.
- The stage: a drag stays that of its window (`DragStays`) and within the bounds it
  began with. The browser: an array with an index into it and a bound on its length
  is mapped to two stacks; cutting its old end is a step of the stacks of its own
  (`StacksStep`).
- The sponsor window: `ReviewInv` (the review is of what the form holds, and a send
  that is not stale is of what was reviewed), `DoubtInv` (a send starts only when
  nothing is open in this window, and a transaction that was asked for is counted
  once, by the request or by the transfer that is pending), `WindowInv` (what outlives the window
  is stale). The visitor: an answer that is neither stale nor raced was asked for
  under the cookie that is still there, and the last logout to be done leaves the
  login form, however many are in flight.
- The activities: `ItemOK` (an id is built from the kind, the call and the order the
  item began with) and `Apart`; the list keeps its end when it is cut. That
  nothing is under way in a reply that is over needs `Current` of every report and
  what each end does: an interrupted reply has its tools marked, a complete one is
  over by its own status (`CompleteMoves`). `OverStaysOver`
  is proved action by action.
- The wishes: `WishInv` ties what a tab shows as kept to the storage.
- The music: `OverlayInv` says that what was shown last is right unless an update is
  due, and that one is due only while there is a slot and an item; `ClippedIs` that
  the rectangle computed from the greatest and least edges covers a point exactly
  when the slot and all that cuts it do. `LibraryInv` says that every copy, in the
  storage, in a tab or on its way, is a list without repetitions that fits
  (`SongLists`), and that until writes cross or fail a tab that has not the stored list
  has one event left, with that list. `RestoredAsSaved` is the round trip, which
  holds of such lists only.
- The dates: `DatesInv` keeps the dates real ones and the days counted so far the
  difference of two day numbers (`CountsOn`: the number of the day after is the next,
  at the ends of months as well); the weight is in `DatesAreTrue`, about the function
  itself: day numbers order dates as their months and days do
  (`DaysInOrder`), and two anniversaries are at most 31 days apart although their
  day is cut to the month. `DaysBefore` is recursive and treated as `EndOf` above
  (`Sums`, `DaysAddUp`).

Only model-checked: liveness under fairness (`Settles`, `TurnSettles`, `ShutdownEnds`,
`TurnsEnd`, `RequestsEnd`, `PageSettles`), which the prover does not do. Every
invariant and every other action property or refinement of a passing run is a theorem.

## What is left out

- `frontend/src/models/city.jsx` is generated geometry, four fifths of the
  JavaScript and TypeScript of the repository; no definition can stand for it. The
  components that only lay out, animate or draw (the loading screen, the video
  background and the retro computer, which no page imports; the city scene, its
  first-person controls and hints, behind a flag that is never set; icons, text
  pages, the error boundary, the development error filter) have no state whose
  order could go wrong. What is left of the frontend is modelled above, except for
  the points below; the Go backend, the other half of the logic, is not JavaScript.
- Browser and React: rendering is atomic with the step that causes it unless an
  effect is named; scroll positions, keyboard focus, the start menu, settings and
  the parser of the wallpaper's manifest are left out.
- The visitor cookie of an earlier visit: the browser starts without one.
- Of the harness client: the limit of the queue in bytes beside the one in events,
  standard error, and `stringField` and its like. `RuntimeManager` takes from it
  that `Close` ends, which `HarnessClient` shows but for a process that never reads a
  full pipe. A failing `Initialize` closes the client itself before the lease is
  closed; the model has this as the client part of the `Close` that follows.
- Sizes in bytes, texts, wording and the JSON of events; the bytes and lines of a
  stream are its events.
- Signatures: of cookies, of the unlock proof, of relationship proofs. Each is the
  branch it decides.
- Growth over the life of the process (`MemoryQuota.byIP`).
- The components with status `not_modelled` in `PROJECT.json`, with their reasons.

## Plan

What is next, in this order:

1. The turn journal: migrations of two instances that start together, `RecordTurn`
   in two statements, retention.
2. Progressive reply: the redactor and the phases as recursive functions, checked
   against a reference over bounded inputs.
3. Visitor throttle and storage: limits that are counted before they are used; the
   files of an application and the forwarding route of the frontend.
4. The abstract turn a browser sees, refined by `ChatStream`, and the abstract call
   (one answer or one error) refined by `HarnessClient`.
5. Proofs of what these add; of what the runs check now only liveness has no theorem.
