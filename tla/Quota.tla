-------------------------------- MODULE Quota --------------------------------
(***************************************************************************)
(* What a Stack allows (backend-go/internal/admission/stack.go): the quota *)
(* and the attempt guard, which Redis holds when REDIS_ENABLED, otherwise  *)
(* the process.  Either store answers the same calls, and what it promises *)
(* is the same: no window of real time holds more requests than its limit, *)
(* a retry time is right to the second, and buckets and cooldowns are      *)
(* kept.  Quota and guard share no row, so a behaviour exercises one:      *)
(* "asked" names it.                                                       *)
(***************************************************************************)
EXTENDS Integers, FiniteSets, AttemptBuckets

CONSTANTS
  LocalRequests, LocalSource, LocalClock,     \* what reaches the process
  SharedRequests, SharedSource, SharedClock,  \* what reaches Redis
  Sources, Second, Day, Hour, Minute,
  CHATDailyLimit, CHATIPMinuteLimit, CHATIPHourLimit, CHATIPDailyLimit,
  MaxFaults

VARIABLES
  asked,                        \* "quota" or "attempts"
  now, stamp, charged, retry,   \* the requests of either
  global, byIP,                 \* the rows of the process
  answer, rows, expiry, faults  \* Redis

InProcess == INSTANCE MemoryQuota
  WITH Requests <- LocalRequests, Source <- LocalSource, MaxClock <- LocalClock

InRedis == INSTANCE RedisQuota
  WITH Requests <- SharedRequests, Source <- SharedSource, MaxClock <- SharedClock

localVars == <<global, byIP>>
sharedVars == <<answer, rows, expiry, faults>>
quotaVars == <<now, stamp, charged, retry, localVars, sharedVars>>
vars == <<asked, quotaVars, bucketVars>>

\* What both quotas take of their constants: the windows grow, a delay is
\* shorter than each of them, a second has a tick, every limit lets somebody in,
\* and the key of the whole site is no source.
ASSUME ConstantsAssumption ==
  /\ IsFiniteSet(LocalRequests) /\ LocalSource \in [LocalRequests -> Sources]
  /\ IsFiniteSet(SharedRequests) /\ SharedSource \in [SharedRequests -> Sources]
  /\ {Minute, Hour, Day, Skew, LocalClock, SharedClock, MaxFaults} \subseteq Nat
  /\ Skew < Minute /\ Minute < Hour /\ Hour < Day
  /\ Second \in Nat \ {0}
  /\ {CHATDailyLimit, CHATIPMinuteLimit, CHATIPHourLimit, CHATIPDailyLimit}
       \subseteq Nat \ {0}
  /\ InRedis!Site \notin Sources

\* The rows of the store a stack does not have are never touched.
Init ==
  /\ asked \in {"quota", "attempts"}
  /\ BucketsInit
  /\ \/ /\ store = "process" /\ InProcess!Init
        /\ answer = <<>> /\ rows = <<>> /\ expiry = <<>> /\ faults = 0
     \/ /\ store = "redis" /\ InRedis!Init
        /\ global = <<>> /\ byIP = <<>>

QuotaNext ==
  \/ store = "process" /\ InProcess!Next /\ UNCHANGED sharedVars
  \/ store = "redis" /\ InRedis!Next /\ UNCHANGED localVars

Next ==
  \/ asked = "quota" /\ QuotaNext /\ UNCHANGED <<asked, bucketVars>>
  \/ asked = "attempts" /\ BucketsNext /\ UNCHANGED <<asked, quotaVars>>

Spec == Init /\ [][Next]_vars

-----------------------------------------------------------------------------
\* A quota keeps its allowances, in the process however late a call gets the
\* mutex, in Redis across lost replies, expiring keys and scripts that overtake
\* each other; and in Redis nobody executes uncharged.
QuotaSound ==
  /\ store = "process" => InProcess!TypeOK /\ InProcess!WithinAllowance
  /\ store = "redis" =>
       InRedis!TypeOK /\ InRedis!WithinAllowance /\ InRedis!AllowedAreCharged

\* The retry time of a rejection is right to the second, in either store.
RetryWithinASecond ==
  [][/\ store = "process" => InProcess!WithinASecond
     /\ store = "redis" => InRedis!WithinASecond]_vars
=============================================================================
