--------------------------- MODULE AttemptBuckets ---------------------------
(***************************************************************************)
(* The attempt guard of the backend, which every request passes before it  *)
(* is queued: one bucket for the site and one for each identity, with      *)
(* cooldowns that double.  It keeps them in memory (backend-go/internal/   *)
(* admission/attempt.go) or in Redis, shared by the instances              *)
(* (distributed_attempt.go); a check is one step under the mutex or one    *)
(* script.                                                                 *)
(*                                                                         *)
(* The clock of a request is read before the check, so that checks may     *)
(* come out of order; clocks of two instances differ as well.  Tokens are  *)
(* counted in seconds of refill: CHATAttemptRefillSeconds make a token of  *)
(* an identity, and the site's refill is whole tokens.                     *)
(***************************************************************************)
EXTENDS Naturals, Sequences, FiniteSets, SequencesExt

CONSTANTS
  Identities,
  CHATAttemptBurst, CHATAttemptRefillSeconds,
  CHATAbuseCooldownSeconds, CHATAbuseMaxCooldownSeconds,
  CHATAttemptCacheSize, CHATAttemptCacheTTLSeconds,
  CHATGlobalAttemptBurst, CHATGlobalAttemptsPerSecond,
  Skew,       \* how far a request's clock may lie behind the latest
  MaxChecks,  \* bound: checks
  MaxSetBack, \* bound: seconds the clock of the site's bucket is set back
  LastSecond  \* bound: the clock

\* config.go has every one of them positive.  An identity that was away for the
\* time its bucket is kept has a full one, wherever the clocks of its first and
\* its next check lay: 1800 s against 4 tokens of 10 s each by the defaults.
ASSUME BucketsAssumption ==
  /\ IsFiniteSet(Identities)
  /\ {CHATAttemptBurst, CHATAttemptRefillSeconds, CHATAbuseCooldownSeconds,
      CHATAbuseMaxCooldownSeconds, CHATAttemptCacheSize, CHATAttemptCacheTTLSeconds,
      CHATGlobalAttemptBurst, CHATGlobalAttemptsPerSecond} \subseteq Nat \ {0}
  /\ {Skew, MaxChecks, MaxSetBack, LastSecond} \subseteq Nat /\ LastSecond # 0
  /\ CHATAttemptCacheTTLSeconds >= CHATAttemptBurst * CHATAttemptRefillSeconds + 2 * Skew
  /\ CHATAttemptCacheTTLSeconds * CHATGlobalAttemptsPerSecond >= CHATGlobalAttemptBurst
  /\ CHATAbuseCooldownSeconds <= CHATAbuseMaxCooldownSeconds

\* What is taken of the power a cooldown is doubled by.
ASSUME PowersAssumption == \A n \in 0..20 : 2 ^ n \in Nat

VARIABLES
  store,    \* NewStack: where the buckets are, "process" or "redis"
  second,   \* the latest clock
  site,     \* the bucket of the site: tokens, and when it was last seen
  kept,     \* the identities that have a bucket
  bucket,   \* their buckets
  order,    \* AttemptGuard.order
  keptUntil,\* when Redis forgets the bucket of an identity
  passed,   \* history: what each identity was let through
  passedAll,\* history: what the site's bucket let through
  slack,    \* history: how far the clock of each bucket was set back, in all
  slackAll,
  promised, \* history: the end of the last cooldown of each identity
  checks    \* how many checks there were

bucketVars == <<store, second, site, kept, bucket, order, keptUntil, passed, passedAll,
                slack, slackAll, promised, checks>>

Lesser(a, b) == IF a < b THEN a ELSE b
Greater(a, b) == IF a < b THEN b ELSE a
Gap(to, from) == IF to > from THEN to - from ELSE 0

FullBucket == CHATAttemptBurst * CHATAttemptRefillSeconds
FreshBucket(at) ==
  [tokens |-> FullBucket, updated |-> at, lastSeen |-> at, strikes |-> 0, until |-> 0]
NoBucket == FreshBucket(0)

BucketsInit ==
  /\ store \in {"process", "redis"}
  /\ second = 1 /\ checks = 0
  /\ site = [tokens |-> CHATGlobalAttemptBurst, seen |-> 1]
  /\ kept = {} /\ bucket = [i \in Identities |-> NoBucket] /\ order = <<>>
  /\ keptUntil = [i \in Identities |-> 0]
  /\ passed = [i \in Identities |-> 0] /\ slack = [i \in Identities |-> 0]
  /\ promised = [i \in Identities |-> 0] /\ passedAll = 0 /\ slackAll = 0

-----------------------------------------------------------------------------
(* The buckets *)

SiteTokens(at) ==
  Lesser(CHATGlobalAttemptBurst,
         site.tokens + Gap(at, site.seen) * CHATGlobalAttemptsPerSecond)

Tokens(b, at) == Lesser(FullBucket, b.tokens + Gap(at, b.updated))

Cooling(b, at) == b.until > at

\* Strike n cools down for twice as long as the one before, up to the maximum.
CooldownOf(strike) ==
  Lesser(CHATAbuseMaxCooldownSeconds, CHATAbuseCooldownSeconds * 2 ^ Lesser(strike - 1, 20))

\* What a strike leaves in the bucket: Redis drops the part of a token.
Remainder(tokens) == IF store = "redis" THEN 0 ELSE tokens

Struck(b, at) ==
  LET strike == Lesser(32, b.strikes + 1) IN
  [b EXCEPT !.tokens = Remainder(Tokens(b, at)), !.updated = at, !.strikes = strike,
            !.until = at + CooldownOf(strike)]

\* Slip: a token is taken, and the time of the refill is not noted.
SpentAgain(b, at) == [b EXCEPT !.tokens = Tokens(b, at) - CHATAttemptRefillSeconds]

Spent(b, at) == [b EXCEPT !.tokens = Tokens(b, at) - CHATAttemptRefillSeconds, !.updated = at]

\* The identity's part of a check: b is its bucket, there or fresh.
Judge(i, b, at) ==
  /\ bucket' = [j \in Identities |->
        IF j \notin kept' THEN NoBucket
        ELSE IF j # i THEN bucket[j]
        ELSE IF Cooling(b, at) THEN b
        ELSE IF Tokens(b, at) >= CHATAttemptRefillSeconds THEN Spent(b, at)
        ELSE Struck(b, at)]
  /\ IF Cooling(b, at)
     THEN UNCHANGED <<passed, slack, promised>>
     ELSE /\ slack' = [slack EXCEPT ![i] = @ + Gap(b.updated, at)]
          /\ IF Tokens(b, at) >= CHATAttemptRefillSeconds
             THEN passed' = [passed EXCEPT ![i] = @ + 1] /\ UNCHANGED promised
             ELSE promised' = [promised EXCEPT ![i] = bucket'[i].until] /\ UNCHANGED passed

-----------------------------------------------------------------------------
(* The map and its order in memory *)

\* Slip: a stale bucket is dropped after its TTL, though its cooldown goes on.
BucketTTLAlone == CHATAttemptCacheTTLSeconds

BucketTTL == Greater(CHATAttemptCacheTTLSeconds, CHATAbuseMaxCooldownSeconds)

MaxEvicted == 16

\* How many are dropped from the head of the order: those before the first whose
\* bucket is there and not stale.
Stale(at) ==
  LET Stays(i) == i \in kept /\ Gap(at, bucket[i].lastSeen) < BucketTTL
      first == SelectInSeq(order, Stays)
  IN  Lesser(MaxEvicted, IF first = 0 THEN Len(order) ELSE first - 1)

Evicted(at) == {order[k] : k \in 1..Stale(at)}
\* Slip: the order keeps what was evicted.
RestAll(at) == order

Rest(at) == SubSeq(order, Stale(at) + 1, Len(order))

\* A full map turns a new identity away, and keeps the site's token.
TurnsAway(i, at) ==
  /\ kept' = kept \ Evicted(at) /\ order' = Rest(at)
  /\ i \notin kept' /\ Cardinality(kept') >= CHATAttemptCacheSize
  /\ bucket' = [j \in Identities |-> IF j \in kept' THEN bucket[j] ELSE NoBucket]
  /\ UNCHANGED <<passed, slack, promised>>

Touches(i, at) ==
  LET left == kept \ Evicted(at) IN
  /\ i \in left \/ Cardinality(left) < CHATAttemptCacheSize
  /\ kept' = left \cup {i}
  /\ order' = Append(RemoveFirst(Rest(at), i), i)
  /\ Judge(i, IF i \in left THEN [bucket[i] EXCEPT !.lastSeen = at] ELSE FreshBucket(at), at)

-----------------------------------------------------------------------------
(* The check *)

\* The server's clock is the latest one; the key outlives every cooldown.
CheckInRedis(i, at) ==
  /\ kept' = kept \cup {i} /\ UNCHANGED order
  /\ keptUntil' = [keptUntil EXCEPT ![i] = second + BucketTTL]
  /\ Judge(i, IF i \in kept THEN bucket[i] ELSE FreshBucket(at), at)

CheckInMemory(i, at) ==
  /\ TurnsAway(i, at) \/ Touches(i, at)
  /\ UNCHANGED keptUntil

\* The site's bucket first: an attempt it refuses is counted nowhere else.
SiteRefuses(at) ==
  /\ SiteTokens(at) < 1
  /\ site' = [tokens |-> SiteTokens(at), seen |-> at]
  /\ UNCHANGED <<kept, bucket, order, keptUntil, passed, passedAll, slack, promised>>

SitePasses(i, at) ==
  /\ SiteTokens(at) >= 1
  /\ site' = [tokens |-> SiteTokens(at) - 1, seen |-> at]
  /\ passedAll' = passedAll + 1
  /\ \/ store = "process" /\ CheckInMemory(i, at)
     \/ store = "redis" /\ CheckInRedis(i, at)

CheckAttempt(i, at) ==
  /\ checks < MaxChecks /\ checks' = checks + 1
  /\ slackAll' = slackAll + Gap(site.seen, at) /\ slackAll' <= MaxSetBack
  /\ SiteRefuses(at) \/ SitePasses(i, at)
  /\ UNCHANGED <<store, second>>

\* The clock goes on, and Redis forgets what has expired.  The site's own key
\* may expire too, and is then as full as it was.
SecondPasses ==
  /\ second < LastSecond /\ second' = second + 1
  /\ kept' = IF store = "redis" THEN {i \in kept : keptUntil[i] > second'} ELSE kept
  /\ bucket' = [i \in Identities |-> IF i \in kept' THEN bucket[i] ELSE NoBucket]
  /\ UNCHANGED <<store, site, order, keptUntil, passed, passedAll, slack, slackAll, promised,
                 checks>>

BucketsNext ==
  \/ SecondPasses
  \/ \E i \in Identities, at \in Greater(1, Gap(second, Skew))..second : CheckAttempt(i, at)

-----------------------------------------------------------------------------
BucketsTypeOK ==
  /\ store \in {"process", "redis"} /\ second \in 1..LastSecond /\ checks \in 0..MaxChecks
  /\ site.tokens \in 0..CHATGlobalAttemptBurst /\ site.seen \in 1..LastSecond
  /\ kept \subseteq Identities /\ order \in Seq(Identities)
  /\ \A i \in Identities : bucket[i].tokens \in 0..FullBucket /\ bucket[i].strikes \in 0..32

\* The order lists every bucket in memory once, which is what lets stale ones be
\* found from its head; and the map stays within its size.
OrderMatches ==
  store = "process" =>
     /\ {order[k] : k \in 1..Len(order)} = kept /\ Len(order) = Cardinality(kept)
     /\ Cardinality(kept) <= CHATAttemptCacheSize

\* An identity is let through its burst and what time refills, wherever its bucket
\* was dropped and made again; a clock set back is the only thing that adds to it.
\* The same holds of the site.
AttemptsHeld ==
  /\ \A i \in Identities :
        passed[i] * CHATAttemptRefillSeconds <= FullBucket + (second - 1) + slack[i]
  /\ passedAll <= CHATGlobalAttemptBurst
                    + (second - 1 + slackAll) * CHATGlobalAttemptsPerSecond

\* A cooldown is kept to its end, but for the skew of the clocks, though buckets
\* are evicted and expire: the bucket that says so is still there.
CooldownHeld ==
  \A i \in Identities :
     second + Skew < promised[i] => i \in kept /\ bucket[i].until = promised[i]

BucketsSound == BucketsTypeOK /\ OrderMatches /\ AttemptsHeld /\ CooldownHeld
=============================================================================
