------------------------------ MODULE RedisQuota ------------------------------
(***************************************************************************)
(* The usage quota shared over Redis (backend-go/internal/admission/       *)
(* quota.go, redisQuota and redisQuotaLua).  The script is one step.  A    *)
(* row is the request it stands for, the member of the sorted sets; its    *)
(* score is the time the request read before it sent the script, at most   *)
(* Skew earlier.                                                           *)
(***************************************************************************)
EXTENDS Integers, FiniteSets

CONSTANTS
  Requests, Sources, Source,
  Second,              \* ticks of the clock in a second: time stamps are finer
  Day, Hour, Minute,   \* the lengths of the windows, in ticks
  CHATDailyLimit, CHATIPMinuteLimit, CHATIPHourLimit, CHATIPDailyLimit,
  Skew,                \* bound: from reading the clock to the script
  MaxClock,            \* bound: the clock stops here
  MaxFaults            \* bound: lost replies in a behaviour

Kinds == {"site", "minute", "hour", "day"}
Period == [site |-> Day, minute |-> Minute, hour |-> Hour, day |-> Day]
Limit == [site |-> CHATDailyLimit, minute |-> CHATIPMinuteLimit,
          hour |-> CHATIPHourLimit, day |-> CHATIPDailyLimit]

\* The owners of the keys: the whole site, and each source.
Site == "site"
Keys == {Site} \cup Sources

VARIABLES
  now,      \* the clock
  stamp,    \* the now argument of each request's Consume, 0 before the call
  answer,   \* "none", "allowed", "rejected" or "error"
  retry,    \* the RetryAfter of a rejection, in seconds
  charged,  \* when the script last wrote a request's rows, 0 if it never did
  rows,     \* members of the sorted set of each kind and owner
  expiry,   \* when each of these keys expires
  faults    \* lost replies so far

vars == <<now, stamp, answer, retry, charged, rows, expiry, faults>>

Init ==
  /\ now = 1
  /\ stamp = [r \in Requests |-> 0]
  /\ answer = [r \in Requests |-> "none"]
  /\ retry = [r \in Requests |-> 0]
  /\ charged = [r \in Requests |-> 0]
  /\ rows = [k \in Kinds |-> [o \in Keys |-> {}]]
  /\ expiry = [k \in Kinds |-> [o \in Keys |-> 0]]
  /\ faults = 0

\* KEYS of a request.
Owner(r, k) == IF k = "site" THEN Site ELSE Source[r]

\* Slip: the windows of a day are cut at the hour.
KeptAnHour(r, k) ==
  {m \in rows[k][Owner(r, k)] :
     /\ now < expiry[k][Owner(r, k)]
     /\ stamp[m] > stamp[r] - (IF k = "minute" THEN Minute ELSE Hour)}

\* What ZREMRANGEBYSCORE leaves of a key that has not expired.
Kept(r, k) ==
  {m \in rows[k][Owner(r, k)] :
     now < expiry[k][Owner(r, k)] /\ stamp[m] > stamp[r] - Period[k]}

Full(r) == {k \in Kinds : Cardinality(Kept(r, k)) >= Limit[k]}

\* Slip: the age of the oldest row instead of the time it has left.
TimesLeftOfAge(r) == {stamp[r] - stamp[m] : m \in UNION {Kept(r, k) : k \in Full(r)}}

\* The oldest row of each window of K.
Oldest(r, K) ==
  {p \in K \X Requests : /\ p[2] \in Kept(r, p[1])
                         /\ \A n \in Kept(r, p[1]) : stamp[p[2]] <= stamp[n]}

\* Slip: windows that are not full are counted too.
TimesLeftOfAll(r) ==
  {stamp[p[2]] + Period[p[1]] - stamp[r] : p \in Oldest(r, Kinds)}

\* The time left to the oldest row of each full window.
TimesLeft(r) ==
  {stamp[p[2]] + Period[p[1]] - stamp[r] : p \in Oldest(r, Full(r))}

Longest(r, t) == t \in TimesLeft(r) /\ \A u \in TimesLeft(r) : u <= t

\* Slip: a part of a second is dropped.
WholeSeconds(t) == t \div Second

\* math.ceil of the script.
Seconds(t) == -((-t) \div Second)

\* What Consume makes of the script's number.
RetryAfter(t) == IF Seconds(t) <= 0 THEN 60 ELSE Seconds(t)

\* The two ends of the script.
Charge(r) ==
  /\ Full(r) = {}
  /\ rows' = [k \in Kinds |-> [rows[k] EXCEPT ![Owner(r, k)] = Kept(r, k) \cup {r}]]
  /\ expiry' = [k \in Kinds |->
                  [expiry[k] EXCEPT ![Owner(r, k)] = now + Period[k]]]
  /\ charged' = [charged EXCEPT ![r] = now]

Refuse(r) ==
  /\ Full(r) # {}
  /\ rows' = [k \in Kinds |-> [rows[k] EXCEPT ![Owner(r, k)] = Kept(r, k)]]
  /\ UNCHANGED <<expiry, charged>>

Pending(r) == stamp[r] # 0 /\ answer[r] = "none"

\* The middleware reads the clock.
Call(r) ==
  /\ stamp[r] = 0
  /\ stamp' = [stamp EXCEPT ![r] = now]
  /\ UNCHANGED <<now, answer, retry, charged, rows, expiry, faults>>

\* The script runs and its reply arrives.
Consume(r) ==
  /\ Pending(r)
  /\ \/ /\ Charge(r)
        /\ answer' = [answer EXCEPT ![r] = "allowed"]
        /\ UNCHANGED retry
     \/ /\ Refuse(r)
        /\ answer' = [answer EXCEPT ![r] = "rejected"]
        /\ \E t \in TimesLeft(r) :
             Longest(r, t) /\ retry' = [retry EXCEPT ![r] = RetryAfter(t)]
  /\ UNCHANGED <<now, stamp, faults>>

\* Slip: a request whose script fails is let through.
RedisFaultOpen(r) ==
  /\ Pending(r) /\ faults < MaxFaults
  /\ Charge(r) \/ Refuse(r) \/ UNCHANGED <<charged, rows, expiry>>
  /\ answer' \in {answer, [answer EXCEPT ![r] = "allowed"]}
  /\ faults' = faults + 1
  /\ UNCHANGED <<now, stamp, retry>>

\* The reply is lost, or the script never runs: the client library sends it
\* again, or Consume returns the error and the middleware answers 503.
RedisFault(r) ==
  /\ Pending(r) /\ faults < MaxFaults
  /\ Charge(r) \/ Refuse(r) \/ UNCHANGED <<charged, rows, expiry>>
  /\ answer' \in {answer, [answer EXCEPT ![r] = "error"]}
  /\ faults' = faults + 1
  /\ UNCHANGED <<now, stamp, retry>>

Tick ==
  /\ now < MaxClock
  /\ \A r \in Requests : Pending(r) => now < stamp[r] + Skew
  /\ now' = now + 1
  /\ UNCHANGED <<stamp, answer, retry, charged, rows, expiry, faults>>

Next == (\E r \in Requests : Call(r) \/ Consume(r) \/ RedisFault(r)) \/ Tick

Spec == Init /\ [][Next]_vars

-----------------------------------------------------------------------------
\* Every variable keeps its kind of value.
TypeOK ==
  /\ now \in Nat
  /\ stamp \in [Requests -> Nat]
  /\ answer \in [Requests -> {"none", "allowed", "rejected", "error"}]
  /\ retry \in [Requests -> Nat]
  /\ charged \in [Requests -> Nat]
  /\ rows \in [Kinds -> [Keys -> SUBSET Requests]]
  /\ expiry \in [Kinds -> [Keys -> Nat]]
  /\ faults \in Nat

\* The requests that count for a key.
Belongs(r, k, o) == Owner(r, k) = o

\* The requests charged to a key in the period that begins at t.
During(k, o, t, period) ==
  {r \in Requests : /\ charged[r] # 0 /\ Belongs(r, k, o)
                    /\ t <= charged[r] /\ charged[r] < t + period}

\* No window of real time, wherever it begins, holds more charged requests than
\* its limit, up to the skew of the callers' clocks: neither the purge by score
\* nor the expiry of a key forgets a request too early, whatever replies are
\* lost and resent.
WithinAllowance ==
  \A k \in Kinds, o \in Keys, t \in 1..now :
    Cardinality(During(k, o, t, Period[k] - Skew)) <= Limit[k]

\* Nobody executes for free: a request that was let through has been charged.
AllowedAreCharged ==
  \A r \in Requests : answer[r] = "allowed" => charged[r] # 0

\* The retry time of a rejection is right to the second: the source is not let
\* through a second or more before it, and from then on it is, unless somebody
\* was let through in between, however calls overtake each other
\* at the script.  deployment/agent-protection.md: "Quota errors use the relevant
\* request expiry to report the next possible retry".
WithinASecond ==
  \A q, r \in Requests :
     Source[q] = Source[r] /\ answer[q] = "rejected" =>
       /\ charged'[r] # charged[r] => charged'[r] > stamp[q] + ((retry[q] - 1) * Second)
       /\ retry'[r] # retry[r] /\ stamp[r] >= stamp[q] + (retry[q] * Second) =>
            \E m \in Requests : charged[m] >= stamp[q]
=============================================================================
