------------------------------ MODULE MemoryQuota ------------------------------
(***************************************************************************)
(* The in-process usage quota (backend-go/internal/admission/quota.go,     *)
(* MemoryQuota): rolling windows over the times of the requests that were  *)
(* let through, for the whole site and for each source.                    *)
(*                                                                         *)
(* The middleware reads the clock when it calls Consume; Consume waits for *)
(* the mutex, so rows may be appended out of order, by at most Skew.       *)
(***************************************************************************)
EXTENDS Integers, Sequences, FiniteSets, SequencesExt

CONSTANTS
  Requests, Sources, Source,
  Second,              \* ticks of the clock in a second: time stamps are finer
  Day, Hour, Minute,   \* the lengths of the windows, in ticks
  CHATDailyLimit, CHATIPMinuteLimit, CHATIPHourLimit, CHATIPDailyLimit,
  Skew,                \* bound: the longest wait for the mutex
  MaxClock             \* bound: the clock stops here

VARIABLES
  now,       \* the clock
  stamp,     \* the now argument of each request's Consume, 0 before the call
  charged,   \* when Consume let the request through, 0 if it did not
  retry,     \* the RetryAfter of each rejection, in seconds, 0 if there is none
  global,    \* rows of the whole site, in the order of the calls
  byIP       \* rows of each source

vars == <<now, stamp, charged, retry, global, byIP>>

Init ==
  /\ now = 1
  /\ stamp = [r \in Requests |-> 0]
  /\ charged = [r \in Requests |-> 0]
  /\ retry = [r \in Requests |-> 0]
  /\ global = <<>>
  /\ byIP = [s \in Sources |-> <<>>]

\* Drops rows from the front, up to the first one that is young enough.
Prune(rows, cutoff) ==
  LET first == SelectInSeq(rows, LAMBDA t : t > cutoff)
  IN  IF first = 0 THEN <<>> ELSE SubSeq(rows, first, Len(rows))

\* Slip: the rows of the site are cut at the hour.
SiteOfAnHour(r) == Prune(global, stamp[r] - Hour)

Site(r) == Prune(global, stamp[r] - Day)

Own(r) == Prune(byIP[Source[r]], stamp[r] - Day)

Blocks(r) ==
  {[period |-> Day, limit |-> CHATDailyLimit, rows |-> Site(r)],
   [period |-> Minute, limit |-> CHATIPMinuteLimit,
    rows |-> Prune(Own(r), stamp[r] - Minute)],
   [period |-> Hour, limit |-> CHATIPHourLimit,
    rows |-> Prune(Own(r), stamp[r] - Hour)],
   [period |-> Day, limit |-> CHATIPDailyLimit, rows |-> Own(r)]}

Full(r) == {b \in Blocks(r) : Len(b.rows) >= b.limit}

\* Slip: a part of a second is dropped.
WholeSeconds(t) == t \div Second

\* math.Ceil.
Seconds(t) == -((-t) \div Second)

AtLeastOne(n) == IF n < 1 THEN 1 ELSE n

\* The row whose expiry leaves fewer than limit.
Freeing(b) == b.rows[Len(b.rows) - b.limit + 1]

\* Slip: the age of the row instead of the time it has left.
RetryOfAge(r, b) == AtLeastOne(Seconds(stamp[r] - Freeing(b)))

RetryOf(r, b) == AtLeastOne(Seconds(Freeing(b) + b.period - stamp[r]))

\* Slip: the first window to open decides.
RetryAfterEarliest(r) == Min({RetryOf(r, b) : b \in Full(r)})

RetryAfter(r) == Max({RetryOf(r, b) : b \in Full(r)})

\* The middleware reads the clock.
Call(r) ==
  /\ stamp[r] = 0
  /\ stamp' = [stamp EXCEPT ![r] = now]
  /\ UNCHANGED <<now, charged, retry, global, byIP>>

Pending(r) == stamp[r] # 0 /\ charged[r] = 0 /\ retry[r] = 0

\* Consume, under the mutex.
Consume(r) ==
  /\ Pending(r)
  /\ \/ /\ Full(r) # {}
        /\ retry' = [retry EXCEPT ![r] = RetryAfter(r)]
        /\ global' = Site(r)
        /\ byIP' = [byIP EXCEPT ![Source[r]] = Own(r)]
        /\ UNCHANGED charged
     \/ /\ Full(r) = {}
        /\ charged' = [charged EXCEPT ![r] = now]
        /\ global' = Append(Site(r), stamp[r])
        /\ byIP' = [byIP EXCEPT ![Source[r]] = Append(Own(r), stamp[r])]
        /\ UNCHANGED retry
  /\ UNCHANGED <<now, stamp>>

Tick ==
  /\ now < MaxClock
  /\ \A r \in Requests : Pending(r) => now < stamp[r] + Skew
  /\ now' = now + 1
  /\ UNCHANGED <<stamp, charged, retry, global, byIP>>

Next == (\E r \in Requests : Call(r) \/ Consume(r)) \/ Tick

Spec == Init /\ [][Next]_vars

-----------------------------------------------------------------------------
\* Every variable keeps its kind of value.
TypeOK ==
  /\ now \in Nat
  /\ stamp \in [Requests -> Nat]
  /\ charged \in [Requests -> Nat]
  /\ retry \in [Requests -> Nat]
  /\ global \in Seq(Nat)
  /\ byIP \in [Sources -> Seq(Nat)]

\* The requests of R that were let through during the period that begins at t.
During(R, t, period) ==
  {r \in R : charged[r] # 0 /\ t <= charged[r] /\ charged[r] < t + period}

Of(s) == {r \in Requests : Source[r] = s}

\* No window of real time, wherever it begins, holds more requests than its
\* limit, up to the wait for the mutex: rows written out of order are neither
\* lost early nor missed by the count.
WithinAllowance ==
  \A t \in 1..now :
    /\ Cardinality(During(Requests, t, Day - Skew)) <= CHATDailyLimit
    /\ \A s \in Sources :
         /\ Cardinality(During(Of(s), t, Minute - Skew)) <= CHATIPMinuteLimit
         /\ Cardinality(During(Of(s), t, Hour - Skew)) <= CHATIPHourLimit
         /\ Cardinality(During(Of(s), t, Day - Skew)) <= CHATIPDailyLimit

\* The retry time of a rejection is right to the second: the source is not let
\* through a second or more before it, and from then on it is, unless somebody
\* was let through in between, however calls overtake each other
\* at the mutex.  deployment/agent-protection.md: "Quota errors use the relevant
\* request expiry to report the next possible retry".
WithinASecond ==
  \A q, r \in Requests :
     Source[q] = Source[r] /\ retry[q] # 0 =>
       /\ charged'[r] # charged[r] => charged'[r] > stamp[q] + ((retry[q] - 1) * Second)
       /\ retry'[r] # retry[r] /\ stamp[r] >= stamp[q] + (retry[q] * Second) =>
            \E m \in Requests : charged[m] >= stamp[q]
=============================================================================
