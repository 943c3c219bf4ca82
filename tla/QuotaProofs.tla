----------------------------- MODULE QuotaProofs -----------------------------
(***************************************************************************)
(* Proofs about Quota: its attempt guard, and its quota in either store,   *)
(* for any identities, requests, windows, limits and clocks.               *)
(***************************************************************************)
EXTENDS Quota, FiniteSetTheorems, SequenceTheorems, WellFoundedInduction, TLAPS

-----------------------------------------------------------------------------
(* Least numbers, and lists of distinct things *)

\* Every set of numbers that has a member has a least one.
LEMMA Least ==
    ASSUME NEW S \in SUBSET Nat, S # {}
    PROVE  \E n \in S : \A m \in S : n <= m
  <1> DEFINE Before == OpToRel(<, Nat)
  <1>1. IsWellFoundedOn(Before, Nat)
    BY NatLessThanWellFounded
  <1>2. \A a, b \in Nat : <<a, b>> \in Before <=> a < b
    BY DEF OpToRel
  <1> HIDE DEF Before
  <1>3. PICK n \in S : \A m \in S : ~(<<m, n>> \in Before)
    BY <1>1, WFMin
  <1>4. ASSUME NEW m \in S PROVE n <= m
    <2>1. m \in Nat /\ n \in Nat /\ ~(m < n)
      BY <1>2, <1>3
    <2> QED BY <2>1
  <1> QED BY <1>3, <1>4

\* What SelectInSeq returns is the first of the positions it looks for.
LEMMA FirstPosition ==
    ASSUME NEW n \in Nat, NEW I \in SUBSET (1..n), I # {}
    PROVE  Min(I) \in I /\ \A k \in I : Min(I) <= k
  <1>1. I \subseteq Nat
    OBVIOUS
  <1>2. \E k \in I : \A m \in I : k <= m
    BY <1>1, Least
  <1> QED BY <1>2 DEF Min

\* The sequence lists the members of the set, each of them once.
Lists(s, T) ==
  /\ \A k \in 1..Len(s) : s[k] \in T
  /\ \A i \in T : \E k \in 1..Len(s) : s[k] = i
  /\ \A j, k \in 1..Len(s) : s[j] = s[k] => j = k

LEMMA ListCounts ==
    ASSUME NEW S, NEW s \in Seq(S), NEW T, Lists(s, T)
    PROVE  IsFiniteSet(T) /\ Cardinality(T) = Len(s)
  <1>1. Len(s) \in Nat /\ s \in [1..Len(s) -> S]
    BY LenProperties
  <1>2. s \in Bijection(1..Len(s), T)
    <2>1. s \in [1..Len(s) -> T]
      BY <1>1 DEF Lists
    <2>2. s \in Injection(1..Len(s), T)
      BY <2>1 DEF Lists, Injection, IsInjective
    <2>3. s \in Surjection(1..Len(s), T)
      BY <2>1 DEF Lists, Surjection
    <2> QED BY <2>2, <2>3 DEF Bijection
  <1>3. ExistsBijection(1..Len(s), T)
    BY <1>2 DEF ExistsBijection
  <1>4. IsFiniteSet(1..Len(s)) /\ Cardinality(1..Len(s)) = Len(s)
    BY <1>1, FS_Interval
  <1> QED BY <1>3, <1>4, FS_Bijection

\* What is left of a list when n are dropped from its head.
LEMMA ListDropped ==
    ASSUME NEW S, NEW s \in Seq(S), NEW T, Lists(s, T), NEW n \in 0..Len(s)
    PROVE  LET t == SubSeq(s, n + 1, Len(s)) IN
           t \in Seq(S) /\ Len(t) = Len(s) - n /\ Lists(t, T \ {s[k] : k \in 1..n})
  <1> DEFINE t == SubSeq(s, n + 1, Len(s))
  <1>1. Len(s) \in Nat /\ \A k \in 1..Len(s) : s[k] \in S
    BY LenProperties, ElementOfSeq
  <1>2. \A k \in (n + 1)..Len(s) : s[k] \in S
    BY <1>1
  <1>3. /\ t \in Seq(S) /\ Len(t) = Len(s) - n
        /\ \A k \in 1..(Len(s) - n) : t[k] = s[k + n]
    <2>1. /\ t \in Seq(S) /\ Len(t) = IF n + 1 <= Len(s) THEN Len(s) - (n + 1) + 1 ELSE 0
          /\ \A k \in 1..(Len(s) - (n + 1) + 1) : t[k] = s[(n + 1) + k - 1]
      BY <1>1, <1>2, SubSeqProperties
    <2> QED BY <1>1, <2>1
  <1> HIDE DEF t
  <1>4. \A k \in 1..Len(t) : k + n \in 1..Len(s) /\ t[k] = s[k + n] /\ k + n \notin 1..n
    BY <1>1, <1>3
  <1>5. ASSUME NEW k \in 1..Len(t) PROVE t[k] \in T \ {s[m] : m \in 1..n}
    <2>1. k + n \in 1..Len(s) /\ t[k] = s[k + n] /\ k + n \notin 1..n
      BY <1>4
    <2>2. \A m \in 1..n : m \in 1..Len(s) /\ m # k + n
      BY <1>1, <2>1
    <2>3. \A m \in 1..n : s[m] # s[k + n]
      BY <2>1, <2>2 DEF Lists
    <2> QED BY <2>1, <2>3 DEF Lists
  <1>6. ASSUME NEW i \in T \ {s[m] : m \in 1..n} PROVE \E k \in 1..Len(t) : t[k] = i
    <2>1. PICK k \in 1..Len(s) : s[k] = i
      BY DEF Lists
    <2>2. k - n \in 1..Len(t) /\ (k - n) + n = k
      BY <1>1, <1>3, <1>6, <2>1
    <2> QED BY <1>4, <2>1, <2>2
  <1>7. \A j, k \in 1..Len(t) : t[j] = t[k] => j = k
    <2> SUFFICES ASSUME NEW j \in 1..Len(t), NEW k \in 1..Len(t), t[j] = t[k] PROVE j = k
      OBVIOUS
    <2>1. j + n = k + n
      BY <1>4 DEF Lists
    <2> QED BY <1>1, <1>3, <2>1
  <1>8. Lists(t, T \ {s[k] : k \in 1..n})
    BY <1>5, <1>6, <1>7 DEF Lists
  <1> QED BY <1>3, <1>8 DEF t

\* What is left of a list without one of its members, if it is one.
LEMMA ListRemoved ==
    ASSUME NEW S, NEW s \in Seq(S), NEW T, Lists(s, T), NEW i \in S
    PROVE  LET t == RemoveFirst(s, i) IN
           /\ t \in Seq(S) /\ Lists(t, T \ {i})
           /\ Len(t) = IF i \in T THEN Len(s) - 1 ELSE Len(s)
  <1> DEFINE t == RemoveFirst(s, i)
             I == {k \in 1..Len(s) : s[k] = i}
  <1>1. Len(s) \in Nat /\ \A k \in 1..Len(s) : s[k] \in S
    BY LenProperties, ElementOfSeq
  <1>2. CASE i \notin T
    <2>1. t = s
      BY <1>2 DEF RemoveFirst, Lists
    <2> QED BY <1>2, <2>1 DEF Lists
  <1>3. CASE i \in T
    <2>1. I # {} /\ I \in SUBSET (1..Len(s))
      BY <1>3 DEF Lists
    <2> DEFINE p == Min(I)
    <2>2. p \in 1..Len(s) /\ s[p] = i
      BY <1>1, <2>1, FirstPosition
    <2>3. t = SubSeq(s, 1, p - 1) \o SubSeq(s, p + 1, Len(s))
      BY <2>1 DEF RemoveFirst, RemoveAt, SelectInSeq
    <2> HIDE DEF p, t
    <2> DEFINE u == SubSeq(s, 1, p - 1)
               v == SubSeq(s, p + 1, Len(s))
    <2>4. u \in Seq(S) /\ Len(u) = p - 1 /\ \A k \in 1..(p - 1) : u[k] = s[k]
      <3>1. \A k \in 1..(p - 1) : s[k] \in S
        BY <1>1, <2>2
      <3>2. /\ u \in Seq(S) /\ Len(u) = IF 1 <= p - 1 THEN (p - 1) - 1 + 1 ELSE 0
            /\ \A k \in 1..((p - 1) - 1 + 1) : u[k] = s[1 + k - 1]
        BY <1>1, <2>2, <3>1, SubSeqProperties
      <3> QED BY <1>1, <2>2, <3>2
    <2>5. /\ v \in Seq(S) /\ Len(v) = Len(s) - p
          /\ \A k \in 1..(Len(s) - p) : v[k] = s[k + p]
      <3>1. \A k \in (p + 1)..Len(s) : s[k] \in S
        BY <1>1, <2>2
      <3>2. /\ v \in Seq(S) /\ Len(v) = IF p + 1 <= Len(s) THEN Len(s) - (p + 1) + 1 ELSE 0
            /\ \A k \in 1..(Len(s) - (p + 1) + 1) : v[k] = s[(p + 1) + k - 1]
        BY <1>1, <2>2, <3>1, SubSeqProperties
      <3> QED BY <1>1, <2>2, <3>2
    <2> HIDE DEF u, v
    <2>6. /\ t \in Seq(S) /\ Len(t) = Len(s) - 1
          /\ \A k \in 1..(Len(s) - 1) : t[k] = IF k < p THEN s[k] ELSE s[k + 1]
      <3>1. t = u \o v
        BY <2>3 DEF u, v
      <3>2. /\ t \in Seq(S) /\ Len(t) = Len(u) + Len(v)
            /\ \A k \in 1..(Len(u) + Len(v)) : t[k] = IF k <= Len(u) THEN u[k] ELSE v[k - Len(u)]
        BY <2>4, <2>5, <3>1, ConcatProperties
      <3>3. Len(u) + Len(v) = Len(s) - 1
        BY <1>1, <2>2, <2>4, <2>5
      <3>4. ASSUME NEW k \in 1..(Len(s) - 1)
            PROVE  t[k] = IF k < p THEN s[k] ELSE s[k + 1]
        <4>1. CASE k < p
          BY <1>1, <2>2, <2>4, <3>2, <3>3, <4>1
        <4>2. CASE ~(k < p)
          <5>1. k - Len(u) \in 1..(Len(s) - p) /\ (k - Len(u)) + p = k + 1
            BY <1>1, <2>2, <2>4, <4>2
          <5>2. t[k] = v[k - Len(u)]
            BY <1>1, <2>2, <2>4, <3>2, <3>3, <4>2
          <5> QED BY <2>5, <4>2, <5>1, <5>2
        <4> QED BY <4>1, <4>2
      <3> QED BY <3>2, <3>3, <3>4
    <2> DEFINE At(k) == IF k < p THEN k ELSE k + 1
    <2>7. \A k \in 1..Len(t) : At(k) \in 1..Len(s) /\ At(k) # p /\ t[k] = s[At(k)]
      BY <1>1, <2>2, <2>6
    <2>8. \A k \in 1..Len(t) : t[k] \in T \ {i}
      <3> SUFFICES ASSUME NEW k \in 1..Len(t) PROVE t[k] \in T /\ t[k] # i
        OBVIOUS
      <3> HIDE DEF At
      <3> QED BY <2>2, <2>7 DEF Lists
    <2>9. ASSUME NEW j \in T \ {i} PROVE \E k \in 1..Len(t) : t[k] = j
      <3>1. PICK k \in 1..Len(s) : s[k] = j
        BY DEF Lists
      <3>2. k # p
        BY <2>2, <3>1
      <3>3. CASE k < p
        BY <1>1, <2>2, <2>6, <3>1, <3>3
      <3>4. CASE k > p
        <4>1. k - 1 \in 1..Len(t) /\ ~(k - 1 < p) /\ (k - 1) + 1 = k
          BY <1>1, <2>2, <2>6, <3>4
        <4> QED BY <2>6, <3>1, <4>1
      <3> QED BY <1>1, <2>2, <3>2, <3>3, <3>4
    <2>10. \A j, k \in 1..Len(t) : t[j] = t[k] => j = k
      <3> SUFFICES ASSUME NEW j \in 1..Len(t), NEW k \in 1..Len(t), t[j] = t[k] PROVE j = k
        OBVIOUS
      <3>1. At(j) = At(k)
        <4>1. /\ At(j) \in 1..Len(s) /\ At(k) \in 1..Len(s) /\ s[At(j)] = s[At(k)]
          BY <2>7
        <4> HIDE DEF At
        <4> QED BY <4>1 DEF Lists
      <3> QED BY <1>1, <2>2, <2>6, <3>1
    <2>11. Lists(t, T \ {i})
      BY <2>8, <2>9, <2>10 DEF Lists
    <2> QED BY <1>3, <2>6, <2>11 DEF t
  <1> QED BY <1>2, <1>3

\* A new member at the end of a list.
LEMMA ListAppended ==
    ASSUME NEW S, NEW s \in Seq(S), NEW T, Lists(s, T), NEW i \in S \ T
    PROVE  Append(s, i) \in Seq(S) /\ Len(Append(s, i)) = Len(s) + 1
           /\ Lists(Append(s, i), T \cup {i})
  <1>1. Len(s) \in Nat
    BY LenProperties
  <1>2. /\ Append(s, i) \in Seq(S) /\ Len(Append(s, i)) = Len(s) + 1
        /\ \A k \in 1..Len(s) : Append(s, i)[k] = s[k]
        /\ Append(s, i)[Len(s) + 1] = i
    BY AppendProperties
  <1>3. \A k \in 1..(Len(s) + 1) : k \in 1..Len(s) \/ k = Len(s) + 1
    BY <1>1
  <1>4. Len(s) + 1 \in 1..(Len(s) + 1) /\ 1..Len(s) \subseteq 1..(Len(s) + 1)
    BY <1>1
  <1> DEFINE t == Append(s, i)
  <1> HIDE DEF t
  <1>5. /\ Len(t) = Len(s) + 1 /\ t[Len(s) + 1] = i
        /\ \A k \in 1..Len(s) : t[k] = s[k]
    BY <1>2 DEF t
  <1>6. \A k \in 1..Len(t) : t[k] \in T \cup {i}
    BY <1>3, <1>5 DEF Lists
  <1>7. \A j \in T \cup {i} : \E k \in 1..Len(t) : t[k] = j
    BY <1>4, <1>5 DEF Lists
  <1>8. \A j, k \in 1..Len(t) : t[j] = t[k] => j = k
    BY <1>3, <1>5 DEF Lists
  <1>9. Lists(t, T \cup {i})
    BY <1>6, <1>7, <1>8 DEF Lists
  <1> QED BY <1>2, <1>9 DEF t

-----------------------------------------------------------------------------
(* The attempt guard *)

BucketRecord ==
  [tokens : 0..FullBucket, updated : Nat, lastSeen : Nat, strikes : 0..32, until : Nat]

BucketsTyped ==
  /\ store \in {"process", "redis"} /\ second \in 1..LastSecond /\ checks \in 0..MaxChecks
  /\ site \in [tokens : 0..CHATGlobalAttemptBurst, seen : Nat]
  /\ kept \in SUBSET Identities /\ order \in Seq(Identities)
  /\ bucket \in [Identities -> BucketRecord] /\ keptUntil \in [Identities -> Nat]
  /\ passed \in [Identities -> Nat] /\ slack \in [Identities -> Nat]
  /\ promised \in [Identities -> Nat] /\ passedAll \in Nat /\ slackAll \in Nat

\* What the site was let through and what it has left is what it was given.
SiteCounted ==
  /\ site.seen \in 1..second
  /\ passedAll + site.tokens
       <= CHATGlobalAttemptBurst + (site.seen - 1 + slackAll) * CHATGlobalAttemptsPerSecond

\* The earliest clock a check may have.
Earliest == Greater(1, Gap(second, Skew))

\* The same of an identity: of its bucket if there is one, and otherwise of the
\* full one that its next check makes.
Counted(i, tokens, updated) ==
  passed[i] * CHATAttemptRefillSeconds + tokens <= FullBucket + (updated - 1) + slack[i]

AllCounted ==
  \A i \in Identities :
    /\ i \in kept => Counted(i, bucket[i].tokens, bucket[i].updated)
    /\ i \notin kept => Counted(i, FullBucket, Earliest)

\* A bucket outlives the cooldown it tells of.
Dated(b) ==
  b.updated \in 1..second /\ b.until <= b.updated + CHATAbuseMaxCooldownSeconds

AllDated ==
  \A i \in kept :
    /\ Dated(bucket[i])
    /\ store = "process" => bucket[i].updated <= bucket[i].lastSeen + Skew
    /\ store = "redis" => bucket[i].updated + BucketTTL <= keptUntil[i]

Listed == store = "process" => Lists(order, kept) /\ Len(order) <= CHATAttemptCacheSize

\* Whoever cools down beyond the skew of the clocks.
Cools(i) == second + Skew < promised[i]

BucketsInv ==
  BucketsTyped /\ SiteCounted /\ AllCounted /\ AllDated /\ Listed /\ CooldownHeld

\* The constants, taken apart.
LEMMA BucketConstants ==
    /\ CHATAttemptBurst \in Nat \ {0} /\ CHATAttemptRefillSeconds \in Nat \ {0}
    /\ CHATAbuseCooldownSeconds \in Nat \ {0} /\ CHATAbuseMaxCooldownSeconds \in Nat \ {0}
    /\ CHATAttemptCacheSize \in Nat \ {0} /\ CHATAttemptCacheTTLSeconds \in Nat \ {0}
    /\ CHATGlobalAttemptBurst \in Nat \ {0} /\ CHATGlobalAttemptsPerSecond \in Nat \ {0}
    /\ Skew \in Nat /\ MaxChecks \in Nat /\ MaxSetBack \in Nat /\ LastSecond \in Nat \ {0}
    /\ FullBucket \in Nat /\ BucketTTL \in Nat
    /\ BucketTTL >= FullBucket + 2 * Skew /\ BucketTTL >= CHATAbuseMaxCooldownSeconds
  <1>1. CHATAttemptBurst * CHATAttemptRefillSeconds \in Nat
    BY BucketsAssumption
  <1> QED BY <1>1, BucketsAssumption DEF FullBucket, BucketTTL, Greater

LEMMA EarliestIs ==
    ASSUME BucketsTyped
    PROVE  Earliest \in 1..second /\ second <= Earliest + Skew
  BY BucketConstants DEF BucketsTyped, Earliest, Greater, Gap

\* A cooldown is no longer than the maximum.
LEMMA CooldownBounded ==
    ASSUME NEW strike \in 1..32
    PROVE  CooldownOf(strike) \in 0..CHATAbuseMaxCooldownSeconds
  <1> DEFINE n == Lesser(strike - 1, 20)
             power == 2 ^ n
  <1>1. n \in 0..20
    BY DEF Lesser
  <1>2. power \in Nat
    BY <1>1, PowersAssumption
  <1> HIDE DEF power
  <1>3. CHATAbuseCooldownSeconds * power \in Nat
    BY <1>2, BucketConstants
  <1>4. CooldownOf(strike) =
          Lesser(CHATAbuseMaxCooldownSeconds, CHATAbuseCooldownSeconds * power)
    BY DEF CooldownOf, power
  <1> QED BY <1>3, <1>4, BucketConstants DEF Lesser

LEMMA BucketsBegin == BucketsInit => BucketsInv
  <1> SUFFICES ASSUME BucketsInit PROVE BucketsInv
    OBVIOUS
  <1> USE BucketConstants DEF BucketsInit
  <1>1. NoBucket \in BucketRecord
    BY DEF NoBucket, FreshBucket, BucketRecord
  <1>2. BucketsTyped
    BY <1>1 DEF BucketsTyped
  <1>3. SiteCounted
    BY DEF SiteCounted
  <1>4. AllCounted
    <2>1. Earliest \in 1..1
      BY <1>2, EarliestIs
    <2>2. 0 * CHATAttemptRefillSeconds = 0
      OBVIOUS
    <2> QED BY <2>1, <2>2 DEF AllCounted, Counted
  <1>5. AllDated /\ CooldownHeld
    BY DEF AllDated, CooldownHeld
  <1>6. Listed
    BY DEF Listed, Lists
  <1> QED BY <1>2, <1>3, <1>4, <1>5, <1>6 DEF BucketsInv

\* What a refill leaves.
LEMMA TokensAre ==
    ASSUME BucketsTyped, NEW b \in BucketRecord, NEW at \in Nat
    PROVE  Tokens(b, at) \in 0..FullBucket /\ Tokens(b, at) <= b.tokens + Gap(at, b.updated)
  BY BucketConstants DEF Tokens, Lesser, Gap, BucketRecord

\* The part of an identity that a check judges.
LEMMA JudgeKeeps ==
    ASSUME BucketsTyped, NEW i \in Identities, NEW at \in Earliest..second,
           NEW b \in BucketRecord, Judge(i, b, at), i \in kept', kept' \subseteq kept \cup {i},
           Counted(i, b.tokens, b.updated), Dated(b), Cools(i) => b.until = promised[i],
           UNCHANGED second
    PROVE  /\ bucket' \in [Identities -> BucketRecord]
           /\ \A j \in kept' \ {i} : bucket'[j] = bucket[j]
           /\ passed' \in [Identities -> Nat] /\ slack' \in [Identities -> Nat]
           /\ promised' \in [Identities -> Nat]
           /\ \A j \in Identities \ {i} : /\ passed'[j] = passed[j] /\ slack'[j] = slack[j]
                                          /\ promised'[j] = promised[j]
           /\ Counted(i, bucket[i].tokens, bucket[i].updated)' /\ Dated(bucket[i])'
           /\ Cools(i)' => bucket'[i].until = promised'[i]
           /\ bucket'[i].lastSeen = b.lastSeen
           /\ bucket'[i].updated = b.updated \/ bucket'[i].updated = at
  <1> DEFINE n == bucket'[i]
             t == Tokens(b, at)
  <1>1. /\ b.tokens \in 0..FullBucket /\ b.updated \in Nat /\ b.lastSeen \in Nat
        /\ b.strikes \in 0..32 /\ b.until \in Nat
    BY DEF BucketRecord
  <1>2. /\ at \in Nat /\ second \in Nat /\ at <= second /\ 1 <= at /\ second <= at + Skew
        /\ Skew \in Nat
    BY EarliestIs, BucketConstants DEF BucketsTyped
  <1>3. t \in 0..FullBucket /\ t <= b.tokens + Gap(at, b.updated)
    BY <1>2, TokensAre
  <1> HIDE DEF t
  <1>4. /\ n = IF Cooling(b, at) THEN b
               ELSE IF t >= CHATAttemptRefillSeconds THEN Spent(b, at) ELSE Struck(b, at)
        /\ \A j \in kept' \ {i} : bucket'[j] = bucket[j]
    BY DEF Judge, BucketsTyped, t
  <1>5. n \in BucketRecord
    <2>1. CASE Cooling(b, at)
      BY <1>4, <2>1
    <2>2. CASE ~Cooling(b, at) /\ t >= CHATAttemptRefillSeconds
      <3>1. n = [b EXCEPT !.tokens = t - CHATAttemptRefillSeconds, !.updated = at]
        BY <1>4, <2>2 DEF Spent, t
      <3>2. t - CHATAttemptRefillSeconds \in 0..FullBucket
        BY <1>3, <2>2, BucketConstants
      <3> QED BY <1>2, <3>1, <3>2 DEF BucketRecord
    <2>3. CASE ~Cooling(b, at) /\ ~(t >= CHATAttemptRefillSeconds)
      <3> DEFINE strike == Lesser(32, b.strikes + 1)
      <3>1. n = [b EXCEPT !.tokens = Remainder(t), !.updated = at, !.strikes = strike,
                          !.until = at + CooldownOf(strike)]
        BY <1>4, <2>3 DEF Struck, t
      <3>2. strike \in 1..32
        BY <1>1 DEF Lesser
      <3> HIDE DEF strike
      <3>3. at + CooldownOf(strike) \in Nat
        BY <1>2, <3>2, CooldownBounded, BucketConstants
      <3>4. Remainder(t) \in 0..FullBucket /\ strike \in 0..32
        BY <1>3, <3>2, BucketConstants DEF Remainder
      <3> QED BY <1>2, <3>1, <3>3, <3>4 DEF BucketRecord
    <2> QED BY <2>1, <2>2, <2>3
  <1>6. bucket' \in [Identities -> BucketRecord]
    <2>1. NoBucket \in BucketRecord
      BY BucketConstants DEF NoBucket, FreshBucket, BucketRecord
    <2>2. /\ bucket' = [j \in Identities |-> bucket'[j]]
          /\ \A j \in Identities \ {i} : bucket'[j] = NoBucket \/ bucket'[j] = bucket[j]
      BY DEF Judge
    <2> QED BY <1>5, <2>1, <2>2 DEF BucketsTyped
  <1>7. /\ passed[i] \in Nat /\ slack[i] \in Nat /\ promised[i] \in Nat
        /\ passed \in [Identities -> Nat] /\ slack \in [Identities -> Nat]
        /\ promised \in [Identities -> Nat] /\ Gap(b.updated, at) \in Nat
    <2>1. Gap(b.updated, at) \in Nat
      BY <1>1, <1>2 DEF Gap
    <2>2. /\ passed \in [Identities -> Nat] /\ slack \in [Identities -> Nat]
          /\ promised \in [Identities -> Nat]
      BY DEF BucketsTyped
    <2> QED BY <2>1, <2>2
  <1>8. CASE Cooling(b, at)
    <2>1. n = b /\ UNCHANGED <<passed, slack, promised>>
      BY <1>4, <1>8 DEF Judge
    <2>2. Counted(i, bucket[i].tokens, bucket[i].updated)'
      BY <2>1 DEF Counted, FullBucket
    <2>3. Dated(bucket[i])' /\ (Cools(i)' => bucket'[i].until = promised'[i])
      BY <2>1 DEF Dated, Cools
    <2> QED BY <1>4, <1>6, <1>7, <2>1, <2>2, <2>3
  <1>9. CASE ~Cooling(b, at) /\ t >= CHATAttemptRefillSeconds
    <2>1. /\ n = [b EXCEPT !.tokens = t - CHATAttemptRefillSeconds, !.updated = at]
          /\ slack' = [slack EXCEPT ![i] = @ + Gap(b.updated, at)]
          /\ passed' = [passed EXCEPT ![i] = @ + 1] /\ UNCHANGED promised
      BY <1>4, <1>9 DEF Judge, Spent, t
    <2>2. /\ n.tokens = t - CHATAttemptRefillSeconds /\ n.updated = at /\ n.until = b.until
          /\ n.lastSeen = b.lastSeen
      BY <2>1 DEF BucketRecord
    <2>3. /\ slack'[i] = slack[i] + Gap(b.updated, at) /\ passed'[i] = passed[i] + 1
          /\ slack' \in [Identities -> Nat] /\ passed' \in [Identities -> Nat]
      BY <1>7, <2>1
    <2>4. Counted(i, bucket[i].tokens, bucket[i].updated)'
      <3>1. (passed[i] + 1) * CHATAttemptRefillSeconds
               = passed[i] * CHATAttemptRefillSeconds + CHATAttemptRefillSeconds
            /\ passed[i] * CHATAttemptRefillSeconds \in Nat
        BY <1>7, BucketConstants
      <3>2. at + Gap(b.updated, at) = b.updated + Gap(at, b.updated)
            /\ Gap(b.updated, at) \in Nat /\ Gap(at, b.updated) \in Nat
        BY <1>1, <1>2 DEF Gap
      <3>3. passed[i] * CHATAttemptRefillSeconds + b.tokens
               <= FullBucket + (b.updated - 1) + slack[i]
        BY DEF Counted
      <3>4. passed[i] * CHATAttemptRefillSeconds + t
               <= FullBucket + (at - 1) + (slack[i] + Gap(b.updated, at))
        BY <1>1, <1>2, <1>3, <1>7, <3>1, <3>2, <3>3, BucketConstants
      <3>5. (passed[i] + 1) * CHATAttemptRefillSeconds + (t - CHATAttemptRefillSeconds)
               = passed[i] * CHATAttemptRefillSeconds + t
        BY <1>3, <3>1, BucketConstants
      <3> QED BY <2>2, <2>3, <3>4, <3>5 DEF Counted, FullBucket
    <2>5. Dated(bucket[i])'
      BY <1>1, <1>2, <1>9, <2>2, BucketConstants DEF Dated, Cooling
    <2> QED BY <1>4, <1>6, <2>1, <2>2, <2>3, <2>4, <2>5 DEF BucketsTyped, Cools
  <1>10. CASE ~Cooling(b, at) /\ ~(t >= CHATAttemptRefillSeconds)
    <2> DEFINE strike == Lesser(32, b.strikes + 1)
               cooldown == CooldownOf(strike)
    <2>1. /\ n = [b EXCEPT !.tokens = Remainder(t), !.updated = at, !.strikes = strike,
                           !.until = at + cooldown]
          /\ slack' = [slack EXCEPT ![i] = @ + Gap(b.updated, at)]
          /\ promised' = [promised EXCEPT ![i] = n.until] /\ UNCHANGED passed
      BY <1>4, <1>10 DEF Judge, Struck, t
    <2>2. cooldown \in 0..CHATAbuseMaxCooldownSeconds
      <3>1. strike \in 1..32
        BY <1>1 DEF Lesser
      <3> HIDE DEF strike
      <3> QED BY <3>1, CooldownBounded
    <2> HIDE DEF strike, cooldown
    <2>3. /\ n.tokens = Remainder(t) /\ n.updated = at /\ n.until = at + cooldown
          /\ n.lastSeen = b.lastSeen
      BY <2>1 DEF BucketRecord
    <2>4. at + cooldown \in Nat
      BY <1>2, <2>2, BucketConstants
    <2>5. /\ slack'[i] = slack[i] + Gap(b.updated, at) /\ slack' \in [Identities -> Nat]
          /\ promised'[i] = n.until /\ promised' \in [Identities -> Nat]
      BY <1>7, <2>1, <2>3, <2>4
    <2>6. Counted(i, bucket[i].tokens, bucket[i].updated)'
      <3>1. passed[i] * CHATAttemptRefillSeconds \in Nat
        BY <1>7, BucketConstants
      <3>2. at + Gap(b.updated, at) = b.updated + Gap(at, b.updated)
            /\ Gap(b.updated, at) \in Nat /\ Gap(at, b.updated) \in Nat
        BY <1>1, <1>2 DEF Gap
      <3>3. passed[i] * CHATAttemptRefillSeconds + b.tokens
               <= FullBucket + (b.updated - 1) + slack[i]
        BY DEF Counted
      <3>4. Remainder(t) \in 0..t
        BY <1>3 DEF Remainder
      <3>5. passed[i] * CHATAttemptRefillSeconds + Remainder(t)
               <= FullBucket + (at - 1) + (slack[i] + Gap(b.updated, at))
        BY <1>1, <1>2, <1>3, <1>7, <3>1, <3>2, <3>3, <3>4, BucketConstants
      <3> QED BY <2>1, <2>3, <2>5, <3>5 DEF Counted, FullBucket
    <2>7. Dated(bucket[i])'
      BY <1>2, <2>2, <2>3, BucketConstants DEF Dated
    <2> QED BY <1>4, <1>6, <2>1, <2>3, <2>5, <2>6, <2>7 DEF BucketsTyped, Cools
  <1> QED BY <1>8, <1>9, <1>10

\* What is evicted is stale.
LEMMA StaleIs ==
    ASSUME BucketsTyped, NEW at \in Nat
    PROVE  /\ Stale(at) \in 0..Len(order)
           /\ \A k \in 1..Stale(at) :
                order[k] \in kept => Gap(at, bucket[order[k]].lastSeen) >= BucketTTL
  <1> DEFINE Stays(i) == i \in kept /\ Gap(at, bucket[i].lastSeen) < BucketTTL
             I == {k \in 1..Len(order) : Stays(order[k])}
             first == IF I # {} THEN Min(I) ELSE 0
             last == IF first = 0 THEN Len(order) ELSE first - 1
  <1>1. Stale(at) = Lesser(MaxEvicted, last)
    BY DEF Stale, SelectInSeq
  <1>2. Len(order) \in Nat
    BY LenProperties DEF BucketsTyped
  <1>3. last \in 0..Len(order) /\ \A k \in 1..last : ~Stays(order[k])
    <2>1. CASE I = {}
      BY <1>2, <2>1
    <2>2. CASE I # {}
      <3>1. I \in SUBSET (1..Len(order))
        OBVIOUS
      <3>2. Min(I) \in I /\ \A k \in I : Min(I) <= k
        BY <1>2, <2>2, <3>1, FirstPosition
      <3>3. Min(I) \in 1..Len(order) /\ last = Min(I) - 1
        BY <1>2, <2>2, <3>1, <3>2
      <3>4. \A k \in 1..(Min(I) - 1) : k \in 1..Len(order) /\ ~(Min(I) <= k)
        BY <1>2, <3>3
      <3>5. \A k \in 1..(Min(I) - 1) : k \notin I
        BY <3>2, <3>4
      <3>6. last \in 0..Len(order)
        BY <1>2, <3>3
      <3>7. \A k \in 1..last : k \in 1..Len(order) /\ k \notin I
        BY <3>3, <3>4, <3>5
      <3> QED BY <3>6, <3>7
    <2> QED BY <2>1, <2>2
  <1> HIDE DEF last
  <1>4. Stale(at) \in 0..last
    BY <1>1, <1>2, <1>3 DEF Lesser, MaxEvicted
  <1>5. \A k \in 1..Stale(at) : ~Stays(order[k])
    BY <1>2, <1>3, <1>4
  <1>6. ASSUME NEW i \in kept, ~(Gap(at, bucket[i].lastSeen) < BucketTTL)
        PROVE  Gap(at, bucket[i].lastSeen) >= BucketTTL
    <2>1. bucket[i].lastSeen \in Nat
      BY DEF BucketsTyped, BucketRecord
    <2>2. Gap(at, bucket[i].lastSeen) \in Nat
      BY <2>1 DEF Gap
    <2> QED BY <1>6, <2>2, BucketConstants
  <1>7. Stale(at) \in 0..Len(order)
    BY <1>2, <1>3, <1>4
  <1> QED BY <1>5, <1>6, <1>7

\* An identity whose bucket has not been used for as long as it is kept has a full
\* one again, and no longer cools down.
LEMMA StaleIsFull ==
    ASSUME BucketsInv, NEW i \in kept, NEW at \in Earliest..second, store = "process",
           Gap(at, bucket[i].lastSeen) >= BucketTTL
    PROVE  Counted(i, FullBucket, Earliest) /\ ~Cools(i)
  <1> USE DEF BucketsInv
  <1>1. /\ bucket[i].tokens \in Nat /\ bucket[i].updated \in Nat /\ bucket[i].lastSeen \in Nat
        /\ bucket[i].until \in Nat
    BY DEF BucketsTyped, BucketRecord
  <1>2. /\ i \in Identities /\ passed[i] \in Nat /\ slack[i] \in Nat
        /\ promised[i] \in Nat /\ second \in Nat
    BY DEF BucketsTyped
  <1>3. /\ bucket[i].until <= bucket[i].updated + CHATAbuseMaxCooldownSeconds
        /\ bucket[i].updated <= bucket[i].lastSeen + Skew
    BY DEF AllDated, Dated
  <1>4. /\ Earliest \in Nat /\ at \in Nat /\ at <= second /\ second <= Earliest + Skew
    BY <1>2, EarliestIs
  <1>5. bucket[i].lastSeen + BucketTTL <= at
    BY <1>1, <1>4, BucketConstants DEF Gap
  <1>6. Counted(i, FullBucket, Earliest)
    <2>1. passed[i] * CHATAttemptRefillSeconds \in Nat
      BY <1>2, BucketConstants
    <2>2. passed[i] * CHATAttemptRefillSeconds + bucket[i].tokens
             <= FullBucket + (bucket[i].updated - 1) + slack[i]
      BY <1>2 DEF AllCounted, Counted
    <2>3. bucket[i].updated + FullBucket <= Earliest
      BY <1>1, <1>2, <1>3, <1>4, <1>5, BucketConstants
    <2> QED BY <1>1, <1>2, <1>4, <2>1, <2>2, <2>3, BucketConstants DEF Counted
  <1>7. ~Cools(i)
    <2> SUFFICES ASSUME second + Skew < promised[i] PROVE FALSE
      BY DEF Cools
    <2>1. bucket[i].until = promised[i]
      BY <1>2 DEF CooldownHeld
    <2> QED BY <1>1, <1>2, <1>3, <1>4, <1>5, <2>1, BucketConstants
  <1> QED BY <1>6, <1>7

\* What eviction leaves in the map and in its order.
LEMMA EvictionKeeps ==
    ASSUME BucketsInv, NEW at \in Earliest..second, store = "process"
    PROVE  /\ Rest(at) \in Seq(Identities) /\ Lists(Rest(at), kept \ Evicted(at))
           /\ Len(Rest(at)) <= CHATAttemptCacheSize
           /\ IsFiniteSet(kept \ Evicted(at))
           /\ Cardinality(kept \ Evicted(at)) = Len(Rest(at))
           /\ \A i \in kept \cap Evicted(at) : Counted(i, FullBucket, Earliest) /\ ~Cools(i)
  <1>1. at \in Nat /\ order \in Seq(Identities) /\ BucketsTyped
    BY EarliestIs DEF BucketsInv, BucketsTyped
  <1>2. /\ Stale(at) \in 0..Len(order)
        /\ \A k \in 1..Stale(at) :
             order[k] \in kept => Gap(at, bucket[order[k]].lastSeen) >= BucketTTL
    BY <1>1, StaleIs
  <1>3. Lists(order, kept) /\ Len(order) <= CHATAttemptCacheSize
    BY DEF BucketsInv, Listed
  <1>4. /\ Rest(at) \in Seq(Identities) /\ Len(Rest(at)) = Len(order) - Stale(at)
        /\ Lists(Rest(at), kept \ Evicted(at))
    BY <1>1, <1>2, <1>3, ListDropped DEF Rest, Evicted
  <1>5. Len(Rest(at)) <= CHATAttemptCacheSize
    <2>1. Len(order) \in Nat
      BY <1>1, LenProperties
    <2> QED BY <1>2, <1>3, <1>4, <2>1, BucketConstants
  <1>6. /\ IsFiniteSet(kept \ Evicted(at))
        /\ Cardinality(kept \ Evicted(at)) = Len(Rest(at))
    BY <1>4, ListCounts
  <1>7. \A i \in kept \cap Evicted(at) : Counted(i, FullBucket, Earliest) /\ ~Cools(i)
    BY <1>2, StaleIsFull DEF Evicted
  <1> QED BY <1>4, <1>5, <1>6, <1>7

\* The constants' operators do not change with the state.
LEMMA StepIsTimeless ==
    ASSUME UNCHANGED second
    PROVE  /\ Earliest' = Earliest
           /\ \A b : Dated(b)' <=> Dated(b)
  BY DEF Earliest, Dated, Greater, Gap

LEMMA MemoryKeeps ==
    ASSUME BucketsInv, NEW i \in Identities, NEW at \in Earliest..second, store = "process",
           CheckInMemory(i, at), UNCHANGED <<store, second>>
    PROVE  /\ kept' \in SUBSET Identities /\ order' \in Seq(Identities)
           /\ bucket' \in [Identities -> BucketRecord] /\ keptUntil' \in [Identities -> Nat]
           /\ passed' \in [Identities -> Nat] /\ slack' \in [Identities -> Nat]
           /\ promised' \in [Identities -> Nat]
           /\ AllCounted' /\ AllDated' /\ Listed' /\ CooldownHeld'
  <1> DEFINE left == kept \ Evicted(at)
  <1>1. BucketsTyped /\ AllCounted /\ AllDated /\ CooldownHeld
    BY DEF BucketsInv
  <1>2. /\ Rest(at) \in Seq(Identities) /\ Lists(Rest(at), left)
        /\ Len(Rest(at)) <= CHATAttemptCacheSize
        /\ Cardinality(left) = Len(Rest(at)) /\ Len(Rest(at)) \in Nat
        /\ \A j \in kept \cap Evicted(at) : Counted(j, FullBucket, Earliest) /\ ~Cools(j)
    BY EvictionKeeps, LenProperties
  <1>3. keptUntil' = keptUntil
    BY DEF CheckInMemory
  <1>4. kept \subseteq Identities
    BY <1>1 DEF BucketsTyped
  <1>5. \A j \in Identities : j \notin left => Counted(j, FullBucket, Earliest) /\ ~Cools(j)
    BY <1>1, <1>2 DEF AllCounted, CooldownHeld, Cools
  <1>6. NoBucket \in BucketRecord
    BY BucketConstants DEF NoBucket, FreshBucket, BucketRecord
  <1>7. CASE TurnsAway(i, at)
    <2>1. /\ kept' = left /\ order' = Rest(at)
          /\ bucket' = [j \in Identities |-> IF j \in left THEN bucket[j] ELSE NoBucket]
          /\ UNCHANGED <<passed, slack, promised>>
      BY <1>7 DEF TurnsAway
    <2>2. bucket' \in [Identities -> BucketRecord]
      BY <1>1, <1>6, <2>1 DEF BucketsTyped
    <2>3. \A j \in left : bucket'[j] = bucket[j]
      BY <1>4, <2>1
    <2>4. AllCounted'
      BY <1>1, <1>5, <2>1, <2>3, StepIsTimeless DEF AllCounted, Counted, FullBucket
    <2>5. AllDated'
      BY <1>1, <1>3, <2>1, <2>3 DEF AllDated, Dated, BucketTTL
    <2>6. CooldownHeld'
      BY <1>1, <1>5, <2>1, <2>3 DEF CooldownHeld, Cools
    <2>7. Listed'
      BY <1>2, <2>1 DEF Listed
    <2> QED BY <1>1, <1>2, <1>3, <1>4, <2>1, <2>2, <2>4, <2>5, <2>6, <2>7 DEF BucketsTyped
  <1>8. CASE Touches(i, at)
    <2> DEFINE b == IF i \in left THEN [bucket[i] EXCEPT !.lastSeen = at] ELSE FreshBucket(at)
    <2>1. /\ i \in left \/ Cardinality(left) < CHATAttemptCacheSize
          /\ kept' = left \cup {i}
          /\ order' = Append(RemoveFirst(Rest(at), i), i)
          /\ Judge(i, b, at)
      BY <1>8 DEF Touches
    <2>2. at \in Nat /\ at \in 1..second /\ second <= at + Skew /\ Earliest \in Nat
          /\ Earliest <= at /\ second \in Nat
      BY <1>1, EarliestIs, BucketConstants DEF BucketsTyped
    <2>3. b \in BucketRecord /\ b.lastSeen = at
      <3>1. FreshBucket(at) \in BucketRecord /\ FreshBucket(at).lastSeen = at
        BY <2>2, BucketConstants DEF FreshBucket, BucketRecord
      <3>2. bucket[i] \in BucketRecord
        BY <1>1 DEF BucketsTyped
      <3> QED BY <2>2, <3>1, <3>2 DEF BucketRecord
    <2>4. Counted(i, b.tokens, b.updated) /\ Dated(b) /\ (Cools(i) => b.until = promised[i])
      <3>1. CASE i \in left
        <4>1. b.tokens = bucket[i].tokens /\ b.updated = bucket[i].updated
              /\ b.until = bucket[i].until
          BY <1>1, <3>1 DEF BucketsTyped, BucketRecord
        <4> QED BY <1>1, <3>1, <4>1 DEF AllCounted, AllDated, Dated, CooldownHeld, Cools
      <3>2. CASE i \notin left
        <4>1. b.tokens = FullBucket /\ b.updated = at /\ b.until = 0
          BY <3>2 DEF FreshBucket
        <4>2. Counted(i, FullBucket, Earliest) /\ ~Cools(i)
          BY <1>5, <3>2
        <4>3. passed[i] * CHATAttemptRefillSeconds \in Nat /\ slack[i] \in Nat
          <5>1. passed[i] \in Nat /\ slack[i] \in Nat
            BY <1>1 DEF BucketsTyped
          <5> QED BY <5>1, BucketConstants
        <4>4. Counted(i, FullBucket, at)
          BY <2>2, <4>2, <4>3, BucketConstants DEF Counted
        <4> QED BY <2>2, <4>1, <4>2, <4>4, BucketConstants DEF Dated
      <3> QED BY <3>1, <3>2
    <2> HIDE DEF b
    <2>5. /\ bucket' \in [Identities -> BucketRecord]
          /\ \A j \in kept' \ {i} : bucket'[j] = bucket[j]
          /\ passed' \in [Identities -> Nat] /\ slack' \in [Identities -> Nat]
          /\ promised' \in [Identities -> Nat]
          /\ \A j \in Identities \ {i} : /\ passed'[j] = passed[j] /\ slack'[j] = slack[j]
                                         /\ promised'[j] = promised[j]
          /\ Counted(i, bucket[i].tokens, bucket[i].updated)' /\ Dated(bucket[i])'
          /\ Cools(i)' => bucket'[i].until = promised'[i]
          /\ bucket'[i].lastSeen = at
          /\ bucket'[i].updated = b.updated \/ bucket'[i].updated = at
      BY <1>1, <2>1, <2>3, <2>4, JudgeKeeps
    <2>6. AllCounted'
      BY <1>1, <1>5, <2>1, <2>5, StepIsTimeless DEF AllCounted, Counted, FullBucket
    <2>7. AllDated'
      <3>1. b.updated \in 1..second
        BY <2>4 DEF Dated
      <3>2. bucket'[i].updated <= bucket'[i].lastSeen + Skew
        BY <2>2, <2>5, <3>1, BucketConstants
      <3>3. \A j \in kept' \ {i} : j \in kept /\ bucket'[j] = bucket[j]
        BY <2>1, <2>5
      <3> QED BY <1>1, <2>5, <3>2, <3>3, StepIsTimeless DEF AllDated, Dated
    <2>8. CooldownHeld'
      <3>1. ASSUME NEW j \in Identities, Cools(j)'
            PROVE  j \in kept' /\ bucket'[j].until = promised'[j]
        <4>1. CASE j = i
          BY <2>1, <2>5, <3>1, <4>1
        <4>2. CASE j # i
          <5>1. Cools(j)
            BY <2>5, <3>1, <4>2 DEF Cools
          <5> QED BY <1>1, <1>5, <2>1, <2>5, <4>2, <5>1 DEF CooldownHeld, Cools
        <4> QED BY <4>1, <4>2
      <3> QED BY <3>1 DEF CooldownHeld, Cools
    <2>9. order' \in Seq(Identities) /\ Listed'
      <3> DEFINE r == RemoveFirst(Rest(at), i)
      <3>1. /\ r \in Seq(Identities) /\ Lists(r, left \ {i})
            /\ Len(r) = IF i \in left THEN Len(Rest(at)) - 1 ELSE Len(Rest(at))
        BY <1>2, ListRemoved
      <3> HIDE DEF r
      <3>2. /\ Append(r, i) \in Seq(Identities) /\ Len(Append(r, i)) = Len(r) + 1
            /\ Lists(Append(r, i), (left \ {i}) \cup {i})
        BY <3>1, ListAppended
      <3>3. (left \ {i}) \cup {i} = kept' /\ order' = Append(r, i)
        BY <2>1 DEF r
      <3>4. Len(order') <= CHATAttemptCacheSize
        BY <1>2, <2>1, <3>1, <3>2, <3>3, BucketConstants
      <3> QED BY <3>2, <3>3, <3>4 DEF Listed
    <2>10. kept' \in SUBSET Identities
      BY <1>4, <2>1
    <2> QED BY <1>1, <1>3, <2>5, <2>6, <2>7, <2>8, <2>9, <2>10 DEF BucketsTyped
  <1> QED BY <1>7, <1>8 DEF CheckInMemory

LEMMA RedisKeeps ==
    ASSUME BucketsInv, NEW i \in Identities, NEW at \in Earliest..second, store = "redis",
           CheckInRedis(i, at), UNCHANGED <<store, second>>
    PROVE  /\ kept' \in SUBSET Identities /\ order' \in Seq(Identities)
           /\ bucket' \in [Identities -> BucketRecord] /\ keptUntil' \in [Identities -> Nat]
           /\ passed' \in [Identities -> Nat] /\ slack' \in [Identities -> Nat]
           /\ promised' \in [Identities -> Nat]
           /\ AllCounted' /\ AllDated' /\ Listed' /\ CooldownHeld'
  <1> DEFINE b == IF i \in kept THEN bucket[i] ELSE FreshBucket(at)
  <1>1. BucketsTyped /\ AllCounted /\ AllDated /\ CooldownHeld
    BY DEF BucketsInv
  <1>2. /\ kept' = kept \cup {i} /\ order' = order
        /\ keptUntil' = [keptUntil EXCEPT ![i] = second + BucketTTL]
        /\ Judge(i, b, at)
    BY DEF CheckInRedis
  <1>3. /\ at \in Nat /\ at \in 1..second /\ Earliest \in Nat /\ Earliest <= at
        /\ second \in Nat /\ kept \subseteq Identities
    <2>1. second \in Nat /\ kept \subseteq Identities
      BY <1>1 DEF BucketsTyped
    <2>2. Earliest \in 1..second
      BY <1>1, EarliestIs
    <2> QED BY <2>1, <2>2
  <1>4. b \in BucketRecord
    <2>1. FreshBucket(at) \in BucketRecord
      BY <1>3, BucketConstants DEF FreshBucket, BucketRecord
    <2> QED BY <1>1, <2>1 DEF BucketsTyped
  <1>5. Counted(i, b.tokens, b.updated) /\ Dated(b) /\ (Cools(i) => b.until = promised[i])
    <2>1. CASE i \in kept
      BY <1>1, <2>1 DEF AllCounted, AllDated, CooldownHeld, Cools
    <2>2. CASE i \notin kept
      <3>1. b.tokens = FullBucket /\ b.updated = at /\ b.until = 0
        BY <2>2 DEF FreshBucket
      <3>2. Counted(i, FullBucket, Earliest) /\ ~Cools(i)
        BY <1>1, <2>2 DEF AllCounted, CooldownHeld, Cools
      <3>3. passed[i] * CHATAttemptRefillSeconds \in Nat /\ slack[i] \in Nat
        <4>1. passed[i] \in Nat /\ slack[i] \in Nat
          BY <1>1 DEF BucketsTyped
        <4> QED BY <4>1, BucketConstants
      <3>4. Counted(i, FullBucket, at)
        BY <1>3, <3>2, <3>3, BucketConstants DEF Counted
      <3> QED BY <1>3, <3>1, <3>2, <3>4, BucketConstants DEF Dated
    <2> QED BY <2>1, <2>2
  <1> HIDE DEF b
  <1>6. /\ bucket' \in [Identities -> BucketRecord]
        /\ \A j \in kept' \ {i} : bucket'[j] = bucket[j]
        /\ passed' \in [Identities -> Nat] /\ slack' \in [Identities -> Nat]
        /\ promised' \in [Identities -> Nat]
        /\ \A j \in Identities \ {i} : /\ passed'[j] = passed[j] /\ slack'[j] = slack[j]
                                       /\ promised'[j] = promised[j]
        /\ Counted(i, bucket[i].tokens, bucket[i].updated)' /\ Dated(bucket[i])'
        /\ Cools(i)' => bucket'[i].until = promised'[i]
        /\ bucket'[i].updated = b.updated \/ bucket'[i].updated = at
    BY <1>1, <1>2, <1>4, <1>5, JudgeKeeps
  <1>7. AllCounted'
    BY <1>1, <1>2, <1>6, StepIsTimeless DEF AllCounted, Counted, FullBucket
  <1>8. AllDated'
    <2>1. b.updated \in 1..second
      BY <1>5 DEF Dated
    <2>2. keptUntil'[i] = second + BucketTTL
      BY <1>1, <1>2 DEF BucketsTyped
    <2>3. bucket'[i].updated + BucketTTL <= keptUntil'[i]
      BY <1>3, <1>6, <2>1, <2>2, BucketConstants
    <2>4. \A j \in kept' \ {i} : /\ j \in kept /\ bucket'[j] = bucket[j]
                                 /\ keptUntil'[j] = keptUntil[j]
      BY <1>1, <1>2, <1>3, <1>6 DEF BucketsTyped
    <2>5. BucketTTL' = BucketTTL
      BY DEF BucketTTL
    <2> QED BY <1>1, <1>6, <2>3, <2>4, <2>5, StepIsTimeless DEF AllDated, Dated
  <1>9. CooldownHeld'
    <2>1. ASSUME NEW j \in Identities, Cools(j)'
          PROVE  j \in kept' /\ bucket'[j].until = promised'[j]
      <3>1. CASE j = i
        BY <1>2, <1>6, <2>1, <3>1
      <3>2. CASE j # i
        <4>1. Cools(j)
          BY <1>6, <2>1, <3>2 DEF Cools
        <4> QED BY <1>1, <1>2, <1>6, <3>2, <4>1 DEF CooldownHeld, Cools
      <3> QED BY <3>1, <3>2
    <2> QED BY <2>1 DEF CooldownHeld, Cools
  <1>10. keptUntil' \in [Identities -> Nat]
    BY <1>1, <1>2, <1>3, BucketConstants DEF BucketsTyped
  <1> QED BY <1>1, <1>2, <1>3, <1>6, <1>7, <1>8, <1>9, <1>10 DEF BucketsTyped, Listed

\* The site's bucket is counted like the others, in whole tokens.
LEMMA SiteKeeps ==
    ASSUME BucketsInv, NEW at \in Earliest..second, UNCHANGED second,
           slackAll' = slackAll + Gap(site.seen, at),
           \/ /\ site' = [tokens |-> SiteTokens(at), seen |-> at]
              /\ UNCHANGED passedAll
           \/ /\ SiteTokens(at) >= 1 /\ passedAll' = passedAll + 1
              /\ site' = [tokens |-> SiteTokens(at) - 1, seen |-> at]
    PROVE  /\ site' \in [tokens : 0..CHATGlobalAttemptBurst, seen : Nat]
           /\ passedAll' \in Nat /\ slackAll' \in Nat /\ SiteCounted'
  <1> DEFINE rate == CHATGlobalAttemptsPerSecond
             t == SiteTokens(at)
             gap == Gap(at, site.seen)
             back == Gap(site.seen, at)
  <1>1. BucketsTyped /\ SiteCounted
    BY DEF BucketsInv
  <1>2. /\ site.tokens \in 0..CHATGlobalAttemptBurst /\ site.seen \in Nat
        /\ passedAll \in Nat /\ slackAll \in Nat /\ second \in Nat
    BY <1>1 DEF BucketsTyped
  <1>3. at \in 1..second /\ rate \in Nat /\ CHATGlobalAttemptBurst \in Nat
    BY <1>1, EarliestIs, BucketConstants
  <1>4. gap \in Nat /\ back \in Nat /\ at + back = site.seen + gap
    BY <1>2, <1>3 DEF Gap
  <1> HIDE DEF gap, back
  <1>5. gap * rate \in Nat
    BY <1>3, <1>4
  <1>6. t = Lesser(CHATGlobalAttemptBurst, site.tokens + gap * rate)
    BY DEF SiteTokens, gap
  <1>7. t \in 0..CHATGlobalAttemptBurst /\ t <= site.tokens + gap * rate
    BY <1>2, <1>3, <1>5, <1>6 DEF Lesser
  <1> HIDE DEF t
  <1>8. passedAll + t <= CHATGlobalAttemptBurst + (at - 1 + slackAll') * rate
    <2>1. site.seen >= 1
          /\ passedAll + site.tokens
               <= CHATGlobalAttemptBurst + (site.seen - 1 + slackAll) * rate
      BY <1>1 DEF SiteCounted
    <2>2. at - 1 + slackAll' = (site.seen - 1 + slackAll) + gap
      BY <1>2, <1>3, <1>4 DEF back
    <2>3. site.seen - 1 + slackAll \in Nat
      BY <1>2, <2>1
    <2>4. \A a, b, c \in Nat : (a + b) * c = a * c + b * c
      OBVIOUS
    <2>5. (at - 1 + slackAll') * rate = (site.seen - 1 + slackAll) * rate + gap * rate
      BY <1>3, <1>4, <2>2, <2>3, <2>4
    <2>6. (site.seen - 1 + slackAll) * rate \in Nat
      BY <1>3, <2>3
    <2> QED BY <1>2, <1>3, <1>5, <1>7, <2>1, <2>5, <2>6
  <1>9. slackAll' \in Nat
    BY <1>2, <1>4 DEF back
  <1>10. CASE UNCHANGED passedAll /\ site' = [tokens |-> t, seen |-> at]
    BY <1>1, <1>2, <1>3, <1>7, <1>8, <1>9, <1>10 DEF SiteCounted
  <1>11. CASE /\ t >= 1 /\ passedAll' = passedAll + 1
              /\ site' = [tokens |-> t - 1, seen |-> at]
    <2>1. t - 1 \in 0..CHATGlobalAttemptBurst /\ passedAll' + (t - 1) = passedAll + t
      BY <1>2, <1>3, <1>7, <1>11
    <2> QED BY <1>2, <1>3, <1>8, <1>9, <1>11, <2>1 DEF SiteCounted
  <1> QED BY <1>10, <1>11 DEF t

LEMMA CheckKeeps ==
    ASSUME BucketsInv, NEW i \in Identities, NEW at \in Earliest..second, CheckAttempt(i, at)
    PROVE  BucketsInv'
  <1>1. /\ UNCHANGED <<store, second>> /\ checks < MaxChecks /\ checks' = checks + 1
        /\ slackAll' = slackAll + Gap(site.seen, at)
        /\ SiteRefuses(at) \/ SitePasses(i, at)
    BY DEF CheckAttempt
  <1>2. BucketsTyped /\ checks' \in 0..MaxChecks
    BY <1>1, BucketConstants DEF BucketsInv, BucketsTyped
  <1>3. /\ site' \in [tokens : 0..CHATGlobalAttemptBurst, seen : Nat]
        /\ passedAll' \in Nat /\ slackAll' \in Nat /\ SiteCounted'
    BY <1>1, SiteKeeps DEF SiteRefuses, SitePasses
  <1>4. /\ kept' \in SUBSET Identities /\ order' \in Seq(Identities)
        /\ bucket' \in [Identities -> BucketRecord] /\ keptUntil' \in [Identities -> Nat]
        /\ passed' \in [Identities -> Nat] /\ slack' \in [Identities -> Nat]
        /\ promised' \in [Identities -> Nat]
        /\ AllCounted' /\ AllDated' /\ Listed' /\ CooldownHeld'
    <2>1. CASE SiteRefuses(at)
      <3>1. UNCHANGED <<kept, bucket, order, keptUntil, passed, slack, promised>>
        BY <2>1 DEF SiteRefuses
      <3> QED BY <1>1, <1>2, <3>1, StepIsTimeless
              DEF BucketsInv, BucketsTyped, AllCounted, Counted, FullBucket, AllDated,
                  BucketTTL, Listed, CooldownHeld
    <2>2. CASE store = "process" /\ CheckInMemory(i, at)
      BY <1>1, <2>2, MemoryKeeps
    <2>3. CASE store = "redis" /\ CheckInRedis(i, at)
      BY <1>1, <2>3, RedisKeeps
    <2> QED BY <1>1, <2>1, <2>2, <2>3 DEF SitePasses
  <1> QED BY <1>1, <1>2, <1>3, <1>4 DEF BucketsInv, BucketsTyped

\* A row that lives that long is full again when it goes, on the slowest clock too.
LEMMA FullBefore ==
    ASSUME NEW updated \in Nat, NEW full \in Nat, NEW ttl \in Nat, NEW skew \in Nat,
           NEW at \in Nat, NEW slowest \in Nat, ttl >= full + skew + skew,
           at <= slowest + skew, updated + ttl <= at
    PROVE  updated + full <= slowest
  OBVIOUS

\* Redis forgets a bucket no earlier than a full one takes its place.
LEMMA SecondKeeps == ASSUME BucketsInv, SecondPasses PROVE BucketsInv'
  <1>1. BucketsTyped /\ SiteCounted /\ AllCounted /\ AllDated /\ Listed /\ CooldownHeld
    BY DEF BucketsInv
  <1>2. /\ second < LastSecond /\ second' = second + 1
        /\ kept' = IF store = "redis" THEN {i \in kept : keptUntil[i] > second'} ELSE kept
        /\ bucket' = [i \in Identities |-> IF i \in kept' THEN bucket[i] ELSE NoBucket]
        /\ UNCHANGED <<store, site, order, keptUntil, passed, passedAll, slack, slackAll,
                       promised, checks>>
    BY DEF SecondPasses
  <1>3. NoBucket \in BucketRecord
    BY BucketConstants DEF NoBucket, FreshBucket, BucketRecord
  <1>4. /\ kept' \subseteq kept /\ kept \subseteq Identities
        /\ \A i \in kept' : bucket'[i] = bucket[i]
    BY <1>1, <1>2 DEF BucketsTyped
  <1>5. BucketsTyped'
    <2>1. second' \in 1..LastSecond
      BY <1>1, <1>2, BucketConstants DEF BucketsTyped
    <2>2. bucket' \in [Identities -> BucketRecord]
      BY <1>1, <1>2, <1>3 DEF BucketsTyped
    <2>3. kept' \in SUBSET Identities
      BY <1>4
    <2> QED BY <1>1, <1>2, <2>1, <2>2, <2>3 DEF BucketsTyped
  <1>6. SiteCounted'
    BY <1>1, <1>2 DEF SiteCounted, BucketsTyped
  <1>7. /\ second \in Nat /\ second' \in Nat /\ Earliest \in Nat /\ Earliest' \in Nat
        /\ Earliest <= Earliest' /\ second' <= Earliest' + Skew /\ 1 <= Earliest
    <2>1. Earliest' \in 1..second' /\ second' <= Earliest' + Skew
      BY <1>1, <1>2, BucketConstants DEF BucketsTyped, Earliest, Greater, Gap
    <2> QED BY <1>1, <1>2, <2>1, EarliestIs, BucketConstants
            DEF BucketsTyped, Earliest, Greater, Gap
  <1>8. ASSUME NEW i \in kept, i \notin kept'
        PROVE  Counted(i, FullBucket, Earliest') /\ ~(second' + Skew < promised[i])
    <2>1. /\ store = "redis" /\ ~(keptUntil[i] > second') /\ i \in Identities
      BY <1>2, <1>4, <1>8
    <2>2. /\ bucket[i].tokens \in Nat /\ bucket[i].updated \in Nat /\ bucket[i].until \in Nat
          /\ keptUntil[i] \in Nat /\ passed[i] \in Nat /\ slack[i] \in Nat
          /\ promised[i] \in Nat
      BY <1>1, <2>1 DEF BucketsTyped, BucketRecord
    <2>3. /\ bucket[i].updated + BucketTTL <= keptUntil[i]
          /\ bucket[i].until <= bucket[i].updated + CHATAbuseMaxCooldownSeconds
      BY <1>1, <2>1 DEF AllDated, Dated
    <2>4. bucket[i].updated + BucketTTL <= second'
      BY <1>7, <2>1, <2>2, <2>3, BucketConstants
    <2>5. Counted(i, FullBucket, Earliest')
      <3>1. passed[i] * CHATAttemptRefillSeconds \in Nat
        BY <2>2, BucketConstants
      <3>2. passed[i] * CHATAttemptRefillSeconds + bucket[i].tokens
               <= FullBucket + (bucket[i].updated - 1) + slack[i]
        BY <1>1, <2>1 DEF AllCounted, Counted
      <3>3. bucket[i].updated + FullBucket <= Earliest'
        <4>1. /\ FullBucket \in Nat /\ BucketTTL \in Nat /\ Skew \in Nat
              /\ BucketTTL >= FullBucket + Skew + Skew
          BY BucketConstants
        <4>2. bucket[i].updated \in Nat /\ second' \in Nat /\ Earliest' \in Nat
          BY <1>7, <2>2
        <4>3. second' <= Earliest' + Skew /\ bucket[i].updated + BucketTTL <= second'
          BY <1>7, <2>4
        <4> QED BY <4>1, <4>2, <4>3, FullBefore
      <3> DEFINE spent == passed[i] * CHATAttemptRefillSeconds
      <3>4. /\ spent \in Nat /\ bucket[i].tokens \in Nat /\ bucket[i].updated \in Nat
            /\ slack[i] \in Nat /\ FullBucket \in Nat /\ Earliest' \in Nat
        BY <1>7, <2>2, <3>1, BucketConstants
      <3> HIDE DEF spent
      <3>5. spent + bucket[i].tokens <= FullBucket + (bucket[i].updated - 1) + slack[i]
        BY <3>2 DEF spent
      <3>6. spent + FullBucket <= FullBucket + (Earliest' - 1) + slack[i]
        BY <3>3, <3>4, <3>5
      <3> QED BY <3>6 DEF Counted, spent
    <2>6. ~(second' + Skew < promised[i])
      <3> SUFFICES ASSUME second' + Skew < promised[i] PROVE FALSE
        OBVIOUS
      <3>1. second + Skew < promised[i]
        BY <1>2, <1>7, <2>2, BucketConstants
      <3>2. bucket[i].until = promised[i]
        BY <1>1, <2>1, <3>1 DEF CooldownHeld
      <3> QED BY <1>7, <2>2, <2>3, <2>4, <3>2, BucketConstants
    <2> QED BY <2>5, <2>6
  <1>9. AllCounted'
    <2>1. ASSUME NEW i \in Identities, i \in kept'
          PROVE  Counted(i, bucket[i].tokens, bucket[i].updated)'
      BY <1>1, <1>2, <1>4, <2>1 DEF AllCounted, Counted, FullBucket
    <2>2. ASSUME NEW i \in Identities, i \notin kept'
          PROVE  Counted(i, FullBucket, Earliest)'
      <3>1. Counted(i, FullBucket, Earliest')
        <4>1. CASE i \in kept
          BY <1>8, <2>2, <4>1
        <4>2. CASE i \notin kept
          <5>1. Counted(i, FullBucket, Earliest)
            BY <1>1, <4>2 DEF AllCounted
          <5>2. passed[i] * CHATAttemptRefillSeconds \in Nat /\ slack[i] \in Nat
            <6>1. passed[i] \in Nat /\ slack[i] \in Nat
              BY <1>1 DEF BucketsTyped
            <6> QED BY <6>1, BucketConstants
          <5> QED BY <1>7, <5>1, <5>2, BucketConstants DEF Counted
        <4> QED BY <4>1, <4>2
      <3> QED BY <1>2, <3>1 DEF Counted, FullBucket
    <2> QED BY <2>1, <2>2 DEF AllCounted
  <1>10. AllDated'
    <2>1. ASSUME NEW i \in kept' PROVE Dated(bucket[i])'
      <3>1. Dated(bucket[i]) /\ bucket'[i] = bucket[i]
        BY <1>1, <1>4 DEF AllDated
      <3> QED BY <1>2, <1>7, <3>1 DEF Dated
    <2>2. BucketTTL' = BucketTTL
      BY DEF BucketTTL
    <2> QED BY <1>1, <1>2, <1>4, <2>1, <2>2 DEF AllDated
  <1>11. CooldownHeld'
    <2> SUFFICES ASSUME NEW i \in Identities, second' + Skew < promised[i]
                 PROVE  i \in kept' /\ bucket'[i].until = promised[i]
      BY <1>2 DEF CooldownHeld
    <2>1. promised[i] \in Nat
      BY <1>1 DEF BucketsTyped
    <2>2. second + Skew < promised[i]
      BY <1>2, <1>7, <2>1, BucketConstants
    <2>3. i \in kept /\ bucket[i].until = promised[i]
      BY <1>1, <2>2 DEF CooldownHeld
    <2> QED BY <1>4, <1>8, <2>3
  <1>12. Listed'
    BY <1>1, <1>2 DEF Listed
  <1> QED BY <1>5, <1>6, <1>9, <1>10, <1>11, <1>12 DEF BucketsInv

LEMMA BucketsStep == ASSUME BucketsInv, BucketsNext PROVE BucketsInv'
  <1>1. Earliest = Greater(1, Gap(second, Skew))
    BY DEF Earliest
  <1> QED BY <1>1, CheckKeeps, SecondKeeps DEF BucketsNext

LEMMA BucketsStay == ASSUME BucketsInv, UNCHANGED bucketVars PROVE BucketsInv'
  <1>1. UNCHANGED <<store, second, site, kept, bucket, order, keptUntil, passed, passedAll,
                    slack, slackAll, promised, checks>>
    BY DEF bucketVars
  <1> QED BY <1>1, StepIsTimeless
          DEF BucketsInv, BucketsTyped, SiteCounted, AllCounted, Counted, FullBucket,
              AllDated, BucketTTL, Listed, CooldownHeld

\* What is counted says what the run checks.
LEMMA BucketsInvIsSound == ASSUME BucketsInv PROVE BucketsSound
  <1>1. BucketsTyped /\ SiteCounted /\ AllCounted /\ AllDated /\ Listed /\ CooldownHeld
    BY DEF BucketsInv
  <1>2. BucketsTypeOK
    <2>1. site.tokens \in 0..CHATGlobalAttemptBurst /\ site.seen \in 1..LastSecond
      BY <1>1, BucketConstants DEF BucketsTyped, SiteCounted
    <2>2. \A i \in Identities : bucket[i].tokens \in 0..FullBucket /\ bucket[i].strikes \in 0..32
      BY <1>1 DEF BucketsTyped, BucketRecord
    <2> QED BY <1>1, <2>1, <2>2 DEF BucketsTypeOK, BucketsTyped
  <1>3. OrderMatches
    <2> SUFFICES ASSUME store = "process"
                 PROVE  /\ {order[k] : k \in 1..Len(order)} = kept
                        /\ Len(order) = Cardinality(kept)
                        /\ Cardinality(kept) <= CHATAttemptCacheSize
      BY DEF OrderMatches
    <2>1. Lists(order, kept) /\ Len(order) <= CHATAttemptCacheSize
      BY <1>1 DEF Listed
    <2>2. Cardinality(kept) = Len(order)
      BY <1>1, <2>1, ListCounts DEF BucketsTyped
    <2> QED BY <2>1, <2>2 DEF Lists
  <1>4. AttemptsHeld
    <2>1. ASSUME NEW i \in Identities
          PROVE  passed[i] * CHATAttemptRefillSeconds <= FullBucket + (second - 1) + slack[i]
      <3>1. /\ passed[i] * CHATAttemptRefillSeconds \in Nat /\ slack[i] \in Nat
            /\ second \in Nat
        <4>1. passed[i] \in Nat /\ slack[i] \in Nat /\ second \in Nat
          BY <1>1 DEF BucketsTyped
        <4> QED BY <4>1, BucketConstants
      <3>2. CASE i \in kept
        <4>1. bucket[i].tokens \in Nat /\ bucket[i].updated \in Nat
          BY <1>1 DEF BucketsTyped, BucketRecord
        <4>2. Counted(i, bucket[i].tokens, bucket[i].updated) /\ bucket[i].updated <= second
          BY <1>1, <3>1, <3>2 DEF AllCounted, AllDated, Dated
        <4> QED BY <3>1, <4>1, <4>2, BucketConstants DEF Counted
      <3>3. CASE i \notin kept
        <4>1. Counted(i, FullBucket, Earliest)
          BY <1>1, <3>3 DEF AllCounted
        <4>2. Earliest \in 1..second
          BY <1>1, EarliestIs
        <4> QED BY <3>1, <4>1, <4>2, BucketConstants DEF Counted
      <3> QED BY <3>2, <3>3
    <2>2. passedAll <= CHATGlobalAttemptBurst
                         + (second - 1 + slackAll) * CHATGlobalAttemptsPerSecond
      <3> DEFINE rate == CHATGlobalAttemptsPerSecond
                 seen == site.seen - 1 + slackAll
                 late == second - site.seen
      <3>1. /\ seen \in Nat /\ late \in Nat /\ rate \in Nat /\ site.tokens \in Nat
            /\ second - 1 + slackAll = seen + late /\ passedAll \in Nat
        <4>1. /\ second \in Nat /\ site.tokens \in Nat /\ site.seen \in 1..second
              /\ passedAll \in Nat /\ slackAll \in Nat
          BY <1>1 DEF BucketsTyped, SiteCounted
        <4> QED BY <4>1, BucketConstants
      <3>2. passedAll + site.tokens <= CHATGlobalAttemptBurst + seen * rate
        BY <1>1 DEF SiteCounted
      <3> HIDE DEF seen, late, rate
      <3>3. (seen + late) * rate = seen * rate + late * rate
            /\ seen * rate \in Nat /\ late * rate \in Nat
        BY <3>1
      <3>4. passedAll <= CHATGlobalAttemptBurst + (seen + late) * rate
        BY <3>1, <3>2, <3>3, BucketConstants
      <3> QED BY <3>1, <3>4 DEF rate
    <2> QED BY <2>1, <2>2 DEF AttemptsHeld
  <1> QED BY <1>1, <1>2, <1>3, <1>4 DEF BucketsSound

\* No identity, and not the site, is let through more than its burst and what time
\* refills, but for a clock that is set back; the order in memory lists every bucket
\* once, within its size; and a cooldown is kept to its end: in the process or in
\* Redis, for any identities, bursts, rates and cooldowns, however late a check comes
\* and whatever is evicted or expires.
THEOREM BucketsAreSound == Spec => []BucketsSound
  <1>1. Init => BucketsInv
    BY BucketsBegin DEF Init
  <1>2. BucketsInv /\ [Next]_vars => BucketsInv'
    <2>1. ASSUME BucketsInv, [Next]_vars PROVE BucketsInv'
      <3>1. CASE UNCHANGED bucketVars
        BY <2>1, <3>1, BucketsStay
      <3>2. CASE BucketsNext
        BY <2>1, <3>2, BucketsStep
      <3> QED BY <2>1, <3>1, <3>2 DEF Next, vars
    <2> QED BY <2>1
  <1>3. BucketsInv => BucketsSound
    BY BucketsInvIsSound
  <1> QED BY <1>1, <1>2, <1>3, PTL DEF Spec

-----------------------------------------------------------------------------
(* The quota in Redis *)

LEMMA QuotaConstants ==
    /\ IsFiniteSet(LocalRequests) /\ LocalSource \in [LocalRequests -> Sources]
    /\ IsFiniteSet(SharedRequests) /\ SharedSource \in [SharedRequests -> Sources]
    /\ Minute \in Nat /\ Hour \in Nat /\ Day \in Nat /\ Skew \in Nat
    /\ Second \in Nat \ {0}
    /\ Skew < Minute /\ Minute < Hour /\ Hour < Day
    /\ CHATDailyLimit \in Nat \ {0} /\ CHATIPMinuteLimit \in Nat \ {0}
    /\ CHATIPHourLimit \in Nat \ {0} /\ CHATIPDailyLimit \in Nat \ {0}
    /\ LocalClock \in Nat /\ SharedClock \in Nat /\ MaxFaults \in Nat
  BY ConstantsAssumption

\* Seconds to ticks.
LEMMA SecondsGrow ==
    ASSUME NEW m \in Int, NEW n \in Int, m <= n
    PROVE  (m * Second) <= (n * Second)
  BY QuotaConstants

LEMMA SecondsAre ==
    ASSUME NEW n \in Nat
    PROVE  (n * Second) \in Nat /\ n <= (n * Second)
  BY QuotaConstants

\* Ticks to seconds, rounded up: the last second is begun.
LEMMA DownTo ==
    ASSUME NEW u \in Int, NEW n, n = u \div Second
    PROVE  n \in Int /\ (n * Second) <= u /\ u < ((n + 1) * Second)
  <1>1. n \in Int /\ (n * Second) <= u
    BY QuotaConstants
  <1>2. u < ((n + 1) * Second)
    BY QuotaConstants
  <1> QED BY <1>1, <1>2

LEMMA RoundedUp ==
    ASSUME NEW t \in Int, NEW up, up = -((-t) \div Second)
    PROVE  up \in Int /\ t <= (up * Second) /\ ((up - 1) * Second) < t
  <1> DEFINE n == (-t) \div Second
  <1>1. n \in Int /\ (n * Second) <= -t /\ -t < ((n + 1) * Second) /\ up = -n
    BY DownTo
  <1> HIDE DEF n
  <1>2. t <= ((-n) * Second)
    BY <1>1, QuotaConstants
  <1>3. (((-n) - 1) * Second) < t
    BY <1>1, QuotaConstants
  <1> QED BY <1>1, <1>2, <1>3

\* A wait of at least a tick is at least a second when it is rounded up.
LEMMA WaitsRound ==
    ASSUME NEW t \in Nat \ {0}, NEW up, up = -((-t) \div Second)
    PROVE  /\ up \in Nat \ {0} /\ up <= t
           /\ ((up - 1) * Second) < t /\ t <= (up * Second)
  <1>1. up \in Int /\ t <= (up * Second) /\ ((up - 1) * Second) < t
    BY RoundedUp
  <1>2. up > 0
    <2> SUFFICES ASSUME up <= 0 PROVE FALSE
      BY <1>1
    <2>1. (up * Second) <= (0 * Second)
      BY <1>1, SecondsGrow
    <2>2. (0 * Second) = 0
      BY QuotaConstants
    <2>3. (up * Second) \in Int
      BY <1>1, QuotaConstants
    <2> QED BY <1>1, <2>1, <2>2, <2>3
  <1>3. up - 1 \in Nat /\ ((up - 1) * Second) \in Nat /\ up - 1 <= ((up - 1) * Second)
    BY <1>1, <1>2, SecondsAre
  <1> QED BY <1>1, <1>2, <1>3

LEMMA AtLeastASecond ==
    ASSUME NEW wait \in Int, NEW n, n = InProcess!AtLeastOne(InProcess!Seconds(wait)),
           NEW ticks, ticks = IF wait < 1 THEN 1 ELSE wait
    PROVE  /\ n \in Nat \ {0} /\ n <= ticks
           /\ ((n - 1) * Second) < ticks /\ wait <= (n * Second)
  <1> DEFINE up == -((-wait) \div Second)
  <1>1. /\ up \in Int /\ wait <= (up * Second) /\ ((up - 1) * Second) < wait
        /\ n = IF up < 1 THEN 1 ELSE up
    BY RoundedUp DEF InProcess!AtLeastOne, InProcess!Seconds
  <1> HIDE DEF up
  <1>2. CASE wait >= 1
    <2>1. wait \in Nat \ {0} /\ ticks = wait
      BY <1>2
    <2>2. up \in Nat \ {0} /\ up <= wait
      BY <2>1, WaitsRound DEF up
    <2>3. n = up
      BY <1>1, <2>2
    <2> QED BY <1>1, <2>1, <2>2, <2>3
  <1>3. CASE wait < 1
    <2>1. up < 2
      <3> SUFFICES ASSUME up >= 2 PROVE FALSE
        BY <1>1
      <3>1. up - 1 \in Nat /\ ((up - 1) * Second) \in Nat /\ up - 1 <= ((up - 1) * Second)
        BY <1>1, SecondsAre
      <3> QED BY <1>1, <1>3, <3>1
    <2>2. n = 1 /\ ticks = 1
      BY <1>1, <1>3, <2>1
    <2>3. ((n - 1) * Second) = 0 /\ (n * Second) = Second
      BY <2>2, QuotaConstants
    <2> QED BY <1>3, <2>2, <2>3, QuotaConstants
  <1> QED BY <1>2, <1>3

\* The module Quota instantiates counts as this one does.
LEMMA RedisCounts == \A S : InRedis!Cardinality(S) = Cardinality(S)
  BY DEF InRedis!Cardinality, Cardinality

LEMMA Smaller ==
    ASSUME NEW T, IsFiniteSet(T), NEW S \in SUBSET T
    PROVE  /\ IsFiniteSet(S) /\ Cardinality(S) <= Cardinality(T)
           /\ Cardinality(S) \in Nat /\ Cardinality(T) \in Nat
  BY FS_Subset, FS_CardinalityType

\* A script runs at most Skew after its request read the clock.
RedisTimes ==
  /\ now # 0
  /\ \A r \in SharedRequests :
       /\ stamp[r] <= now
       /\ stamp[r] = 0 => charged[r] = 0 /\ answer[r] = "none"
       /\ charged[r] # 0 =>
            stamp[r] <= charged[r] /\ charged[r] <= now /\ charged[r] <= stamp[r] + Skew
       /\ InRedis!Pending(r) => now <= stamp[r] + Skew

\* The rows that can still count are there, in keys that outlive them, and there
\* are none but of requests that were charged to the key.
Remembered ==
  /\ \A r \in SharedRequests, k \in InRedis!Kinds :
       charged[r] # 0 /\ stamp[r] + InRedis!Period[k] > now =>
         /\ r \in rows[k][InRedis!Owner(r, k)]
         /\ expiry[k][InRedis!Owner(r, k)] >= charged[r] + InRedis!Period[k]
  /\ \A k \in InRedis!Kinds, o \in InRedis!Keys : \A m \in rows[k][o] :
       charged[m] # 0 /\ InRedis!Owner(m, k) = o

\* The rows of a key that are younger than a time.
Younger(k, o, time) == {m \in rows[k][o] : stamp[m] > time}

\* When somebody was last charged to a key, its window was not more than full.
Crowded(k, o) ==
  rows[k][o] # {} =>
    \E l \in SharedRequests :
      /\ charged[l] # 0 /\ InRedis!Owner(l, k) = o
      /\ Cardinality(Younger(k, o, stamp[l] - InRedis!Period[k])) <= InRedis!Limit[k]

AllCrowded == \A k \in InRedis!Kinds, o \in InRedis!Keys : Crowded(k, o)

\* When a rejected request is told to come back, and the first tick of the second
\* that ends then.
ComesBack(q) == stamp[q] + (retry[q] * Second)
NotBefore(q) == stamp[q] + ((retry[q] - 1) * Second) + 1

\* Until that second one of the windows has no place.
Blocking(q, k) ==
  {m \in SharedRequests : /\ charged[m] # 0 /\ InRedis!Owner(m, k) = InRedis!Owner(q, k)
                          /\ stamp[m] + InRedis!Period[k] >= NotBefore(q)}

Blocked ==
  \A q \in SharedRequests : answer[q] = "rejected" =>
    \E k \in InRedis!Kinds : Cardinality(Blocking(q, k)) >= InRedis!Limit[k]

\* When it is over every window has one, unless somebody was charged meanwhile.
Freed(q, k) ==
  Cardinality(Younger(k, InRedis!Owner(q, k), ComesBack(q) - InRedis!Period[k]))
    < InRedis!Limit[k]

AllFreed ==
  \A q \in SharedRequests : answer[q] = "rejected" =>
    \/ \E m \in SharedRequests : charged[m] >= stamp[q]
    \/ \A k \in InRedis!Kinds : Freed(q, k)

RedisInv ==
  /\ InRedis!TypeOK /\ RedisTimes /\ Remembered
  /\ InRedis!WithinAllowance /\ InRedis!AllowedAreCharged
  /\ AllCrowded /\ Blocked /\ AllFreed

LEMMA KindsHave ==
    ASSUME NEW k \in InRedis!Kinds
    PROVE  /\ InRedis!Period[k] \in Nat /\ Skew < InRedis!Period[k]
           /\ InRedis!Limit[k] \in Nat \ {0}
  <1>1. Skew < Minute /\ Skew < Hour /\ Skew < Day
    BY QuotaConstants
  <1> QED BY <1>1, QuotaConstants DEF InRedis!Kinds, InRedis!Period, InRedis!Limit

LEMMA OwnerIsKey ==
    ASSUME NEW r \in SharedRequests, NEW k PROVE InRedis!Owner(r, k) \in InRedis!Keys
  BY QuotaConstants DEF InRedis!Owner, InRedis!Keys

LEMMA OwnersStay ==
    ASSUME NEW r, NEW k PROVE InRedis!Owner(r, k)' = InRedis!Owner(r, k)
  BY DEF InRedis!Owner

LEMMA RedisBegins == ASSUME InRedis!Init PROVE RedisInv
  <1>1. InRedis!TypeOK
    BY DEF InRedis!Init, InRedis!TypeOK
  <1>2. RedisTimes /\ Remembered /\ InRedis!AllowedAreCharged /\ AllCrowded
    BY DEF InRedis!Init, RedisTimes, Remembered, InRedis!AllowedAreCharged, InRedis!Pending,
           AllCrowded, Crowded
  <1>3. Blocked /\ AllFreed
    BY DEF InRedis!Init, Blocked, AllFreed
  <1>4. InRedis!WithinAllowance
    <2> SUFFICES ASSUME NEW k \in InRedis!Kinds, NEW o \in InRedis!Keys, NEW t \in 1..now
                 PROVE  Cardinality(InRedis!During(k, o, t, InRedis!Period[k] - Skew))
                          <= InRedis!Limit[k]
      BY RedisCounts DEF InRedis!WithinAllowance
    <2>1. InRedis!During(k, o, t, InRedis!Period[k] - Skew) = {}
      BY DEF InRedis!Init, InRedis!During
    <2>2. Cardinality(InRedis!During(k, o, t, InRedis!Period[k] - Skew)) = 0
      BY <2>1, FS_EmptySet
    <2>3. InRedis!Limit[k] \in Nat
      BY KindsHave
    <2> QED BY <2>2, <2>3
  <1> QED BY <1>1, <1>2, <1>3, <1>4 DEF RedisInv

LEMMA KeptIs ==
    ASSUME RedisInv, NEW r \in SharedRequests, NEW k \in InRedis!Kinds
    PROVE  /\ InRedis!Kept(r, k) \in SUBSET SharedRequests
           /\ InRedis!Kept(r, k) \subseteq rows[k][InRedis!Owner(r, k)]
           /\ IsFiniteSet(InRedis!Kept(r, k)) /\ Cardinality(InRedis!Kept(r, k)) \in Nat
           /\ k \in InRedis!Full(r) <=> Cardinality(InRedis!Kept(r, k)) >= InRedis!Limit[k]
           /\ \A m \in InRedis!Kept(r, k) :
                /\ charged[m] # 0 /\ InRedis!Owner(m, k) = InRedis!Owner(r, k)
                /\ stamp[m] > stamp[r] - InRedis!Period[k]
  <1>1. InRedis!Kept(r, k) \subseteq rows[k][InRedis!Owner(r, k)]
    BY DEF InRedis!Kept
  <1>2. rows[k][InRedis!Owner(r, k)] \in SUBSET SharedRequests
    BY OwnerIsKey DEF RedisInv, InRedis!TypeOK
  <1>3. InRedis!Kept(r, k) \in SUBSET SharedRequests
    BY <1>1, <1>2
  <1>4. IsFiniteSet(InRedis!Kept(r, k)) /\ Cardinality(InRedis!Kept(r, k)) \in Nat
    BY <1>3, QuotaConstants, Smaller
  <1>5. k \in InRedis!Full(r) <=> Cardinality(InRedis!Kept(r, k)) >= InRedis!Limit[k]
    BY RedisCounts DEF InRedis!Full
  <1>6. \A m \in InRedis!Kept(r, k) :
          /\ charged[m] # 0 /\ InRedis!Owner(m, k) = InRedis!Owner(r, k)
          /\ stamp[m] > stamp[r] - InRedis!Period[k]
    BY <1>1, OwnerIsKey DEF RedisInv, Remembered, InRedis!Kept
  <1> QED BY <1>1, <1>3, <1>4, <1>5, <1>6

\* A row that can still count survives the purge of any script.
LEMMA PurgeKeeps ==
    ASSUME InRedis!TypeOK, RedisTimes, Remembered,
           NEW r \in SharedRequests, NEW m \in SharedRequests, NEW k \in InRedis!Kinds,
           charged[m] # 0, stamp[m] + InRedis!Period[k] > now,
           InRedis!Owner(m, k) = InRedis!Owner(r, k)
    PROVE  m \in InRedis!Kept(r, k)
  <1>1. /\ m \in rows[k][InRedis!Owner(r, k)]
        /\ expiry[k][InRedis!Owner(r, k)] >= charged[m] + InRedis!Period[k]
    BY DEF Remembered
  <1>2. /\ stamp[m] \in Nat /\ stamp[r] \in Nat /\ charged[m] \in Nat /\ now \in Nat
        /\ InRedis!Period[k] \in Nat /\ expiry[k][InRedis!Owner(r, k)] \in Nat
    BY KindsHave, OwnerIsKey DEF InRedis!TypeOK
  <1>3. stamp[m] <= charged[m] /\ stamp[r] <= now
    BY DEF RedisTimes
  <1> QED BY <1>1, <1>2, <1>3 DEF InRedis!Kept

\* What a script writes.
LEMMA RowsAfterCharge ==
    ASSUME RedisInv, NEW r \in SharedRequests, InRedis!Charge(r)
    PROVE  /\ rows' \in [InRedis!Kinds -> [InRedis!Keys -> SUBSET SharedRequests]]
           /\ expiry' \in [InRedis!Kinds -> [InRedis!Keys -> Nat]]
           /\ charged' = [charged EXCEPT ![r] = now] /\ charged' \in [SharedRequests -> Nat]
           /\ charged'[r] = now /\ \A m \in SharedRequests \ {r} : charged'[m] = charged[m]
           /\ \A k \in InRedis!Kinds, o \in InRedis!Keys :
                rows'[k][o] = IF o = InRedis!Owner(r, k) THEN InRedis!Kept(r, k) \cup {r}
                              ELSE rows[k][o]
           /\ \A k \in InRedis!Kinds, o \in InRedis!Keys :
                expiry'[k][o] = IF o = InRedis!Owner(r, k) THEN now + InRedis!Period[k]
                                ELSE expiry[k][o]
  <1>1. InRedis!TypeOK
    BY DEF RedisInv
  <1>2. \A k \in InRedis!Kinds :
          InRedis!Kept(r, k) \in SUBSET SharedRequests /\ now + InRedis!Period[k] \in Nat
    BY <1>1, OwnerIsKey, KindsHave DEF InRedis!TypeOK, InRedis!Kept
  <1>3. /\ \A k \in InRedis!Kinds, o \in InRedis!Keys :
             rows'[k][o] = IF o = InRedis!Owner(r, k) THEN InRedis!Kept(r, k) \cup {r}
                           ELSE rows[k][o]
        /\ \A k \in InRedis!Kinds, o \in InRedis!Keys :
             expiry'[k][o] = IF o = InRedis!Owner(r, k) THEN now + InRedis!Period[k]
                             ELSE expiry[k][o]
    BY <1>1, OwnerIsKey DEF InRedis!Charge, InRedis!TypeOK
  <1>4. rows' \in [InRedis!Kinds -> [InRedis!Keys -> SUBSET SharedRequests]]
    BY <1>1, <1>2, OwnerIsKey DEF InRedis!Charge, InRedis!TypeOK
  <1>5. expiry' \in [InRedis!Kinds -> [InRedis!Keys -> Nat]]
    BY <1>1, <1>2, OwnerIsKey DEF InRedis!Charge, InRedis!TypeOK
  <1>6. charged' = [charged EXCEPT ![r] = now] /\ charged' \in [SharedRequests -> Nat]
        /\ charged'[r] = now /\ \A m \in SharedRequests \ {r} : charged'[m] = charged[m]
    BY <1>1 DEF InRedis!Charge, InRedis!TypeOK
  <1> QED BY <1>3, <1>4, <1>5, <1>6

LEMMA RowAfterCharge ==
    ASSUME RedisInv, NEW r \in SharedRequests, InRedis!Charge(r),
           NEW k \in InRedis!Kinds, NEW o \in InRedis!Keys
    PROVE  rows'[k][o] = IF o = InRedis!Owner(r, k) THEN InRedis!Kept(r, k) \cup {r}
                         ELSE rows[k][o]
  <1>1. \A l \in InRedis!Kinds, p \in InRedis!Keys :
          rows'[l][p] = IF p = InRedis!Owner(r, l) THEN InRedis!Kept(r, l) \cup {r}
                        ELSE rows[l][p]
    BY RowsAfterCharge
  <1> QED BY <1>1

LEMMA RowsAfterRefuse ==
    ASSUME RedisInv, NEW r \in SharedRequests, InRedis!Refuse(r)
    PROVE  /\ rows' \in [InRedis!Kinds -> [InRedis!Keys -> SUBSET SharedRequests]]
           /\ expiry' = expiry /\ charged' = charged
           /\ \A k \in InRedis!Kinds, o \in InRedis!Keys :
                rows'[k][o] = IF o = InRedis!Owner(r, k) THEN InRedis!Kept(r, k)
                              ELSE rows[k][o]
  <1>1. \A k \in InRedis!Kinds : InRedis!Kept(r, k) \in SUBSET SharedRequests
    BY KeptIs
  <1> QED BY <1>1, OwnerIsKey DEF InRedis!Refuse, RedisInv, InRedis!TypeOK

\* A script that charges finds each window with a place left.
LEMMA RoomForOne ==
    ASSUME RedisInv, NEW r \in SharedRequests, InRedis!Charge(r), NEW k \in InRedis!Kinds,
           NEW S \in SUBSET (InRedis!Kept(r, k) \cup {r})
    PROVE  Cardinality(S) <= InRedis!Limit[k] /\ IsFiniteSet(S)
  <1> DEFINE T == InRedis!Kept(r, k)
  <1>1. IsFiniteSet(T) /\ Cardinality(T) \in Nat /\ ~(Cardinality(T) >= InRedis!Limit[k])
    BY KeptIs DEF InRedis!Charge
  <1> HIDE DEF T
  <1>2. /\ IsFiniteSet(T \cup {r})
        /\ Cardinality(T \cup {r}) = IF r \in T THEN Cardinality(T) ELSE Cardinality(T) + 1
    BY <1>1, FS_AddElement
  <1>3. Cardinality(S) <= Cardinality(T \cup {r}) /\ Cardinality(S) \in Nat /\ IsFiniteSet(S)
    BY <1>2, Smaller DEF T
  <1> QED BY <1>1, <1>2, <1>3, KindsHave

\* A script that charges keeps every window within its limit: whatever the
\* window of now holds is still among the rows the script counted.
LEMMA ChargeWithin ==
    ASSUME RedisInv, NEW r \in SharedRequests, InRedis!Charge(r), UNCHANGED <<now, stamp>>
    PROVE  InRedis!WithinAllowance'
  <1> SUFFICES ASSUME NEW k \in InRedis!Kinds, NEW o \in InRedis!Keys, NEW t \in 1..now
               PROVE  Cardinality(InRedis!During(k, o, t, InRedis!Period[k] - Skew)')
                        <= InRedis!Limit[k]
    BY RedisCounts DEF InRedis!WithinAllowance
  <1> DEFINE period == InRedis!Period[k]
             W == InRedis!During(k, o, t, period - Skew)
  <1>1. /\ charged' = [charged EXCEPT ![r] = now] /\ charged \in [SharedRequests -> Nat]
        /\ stamp \in [SharedRequests -> Nat] /\ now \in Nat /\ t \in Nat
        /\ period \in Nat /\ Skew \in Nat /\ InRedis!Limit[k] \in Nat
        /\ IsFiniteSet(SharedRequests)
    BY KindsHave, QuotaConstants DEF InRedis!Charge, RedisInv, InRedis!TypeOK
  <1>2. W' = {m \in SharedRequests : /\ charged'[m] # 0 /\ InRedis!Owner(m, k) = o
                                     /\ t <= charged'[m] /\ charged'[m] < t + (period - Skew)}
    BY DEF InRedis!During, InRedis!Belongs, InRedis!Owner
  <1>3. CASE InRedis!Owner(r, k) = o /\ now < t + (period - Skew)
    <2>1. W' \subseteq InRedis!Kept(r, k) \cup {r}
      <3> SUFFICES ASSUME NEW m \in W', m # r PROVE m \in InRedis!Kept(r, k)
        OBVIOUS
      <3>1. /\ m \in SharedRequests /\ charged[m] # 0
            /\ InRedis!Owner(m, k) = InRedis!Owner(r, k) /\ t <= charged[m]
        BY <1>1, <1>2, <1>3
      <3>2. charged[m] <= stamp[m] + Skew
        BY <3>1 DEF RedisInv, RedisTimes
      <3>3. stamp[m] + period > now
        BY <1>1, <1>3, <3>1, <3>2
      <3> QED BY <3>1, <3>3, PurgeKeeps DEF RedisInv
    <2> QED BY <2>1, RoomForOne
  <1>4. CASE ~(InRedis!Owner(r, k) = o /\ now < t + (period - Skew))
    <2>1. W' \subseteq W
      <3>1. r \notin W'
        BY <1>1, <1>2, <1>4
      <3> QED BY <1>1, <1>2, <3>1 DEF InRedis!During, InRedis!Belongs
    <2>2. W \subseteq SharedRequests
      BY DEF InRedis!During
    <2>3. IsFiniteSet(W)
      BY <1>1, <2>2, Smaller
    <2>4. Cardinality(W') <= Cardinality(W) /\ Cardinality(W') \in Nat /\ Cardinality(W) \in Nat
      BY <2>1, <2>3, Smaller
    <2>5. Cardinality(W) <= InRedis!Limit[k]
      BY RedisCounts DEF RedisInv, InRedis!WithinAllowance
    <2> QED BY <1>1, <2>4, <2>5
  <1> QED BY <1>3, <1>4

LEMMA ChargeRemembers ==
    ASSUME RedisInv, NEW r \in SharedRequests, InRedis!Charge(r), UNCHANGED <<now, stamp>>
    PROVE  Remembered'
  <1>1. InRedis!TypeOK /\ RedisTimes /\ Remembered
    BY DEF RedisInv
  <1>2. /\ charged'[r] = now /\ \A m \in SharedRequests \ {r} : charged'[m] = charged[m]
        /\ \A k \in InRedis!Kinds, o \in InRedis!Keys :
             rows'[k][o] = IF o = InRedis!Owner(r, k) THEN InRedis!Kept(r, k) \cup {r}
                           ELSE rows[k][o]
        /\ \A k \in InRedis!Kinds, o \in InRedis!Keys :
             expiry'[k][o] = IF o = InRedis!Owner(r, k) THEN now + InRedis!Period[k]
                             ELSE expiry[k][o]
    BY RowsAfterCharge
  <1>3. ASSUME NEW m \in SharedRequests, NEW k \in InRedis!Kinds,
               charged'[m] # 0, stamp[m] + InRedis!Period[k] > now
        PROVE  /\ m \in rows'[k][InRedis!Owner(m, k)]
               /\ expiry'[k][InRedis!Owner(m, k)] >= charged'[m] + InRedis!Period[k]
    <2>1. InRedis!Owner(m, k) \in InRedis!Keys /\ now \in Nat /\ InRedis!Period[k] \in Nat
      BY <1>1, OwnerIsKey, KindsHave DEF InRedis!TypeOK
    <2>2. /\ rows'[k][InRedis!Owner(m, k)] =
               IF InRedis!Owner(m, k) = InRedis!Owner(r, k) THEN InRedis!Kept(r, k) \cup {r}
               ELSE rows[k][InRedis!Owner(m, k)]
          /\ expiry'[k][InRedis!Owner(m, k)] =
               IF InRedis!Owner(m, k) = InRedis!Owner(r, k) THEN now + InRedis!Period[k]
               ELSE expiry[k][InRedis!Owner(m, k)]
      BY <1>2, <2>1
    <2>3. CASE m = r
      BY <1>2, <2>1, <2>2, <2>3
    <2>4. CASE m # r
      <3>1. charged'[m] = charged[m] /\ charged[m] # 0 /\ charged[m] \in Nat
        BY <1>1, <1>2, <1>3, <2>4 DEF InRedis!TypeOK
      <3>2. CASE InRedis!Owner(m, k) = InRedis!Owner(r, k)
        <4>1. m \in InRedis!Kept(r, k)
          BY <1>1, <1>3, <3>1, <3>2, PurgeKeeps
        <4>2. charged[m] <= now
          BY <1>1, <3>1 DEF RedisTimes
        <4> QED BY <2>1, <2>2, <3>1, <3>2, <4>1, <4>2
      <3>3. CASE InRedis!Owner(m, k) # InRedis!Owner(r, k)
        BY <1>1, <1>3, <2>2, <3>1, <3>3 DEF Remembered
      <3> QED BY <3>2, <3>3
    <2> QED BY <2>3, <2>4
  <1>4. ASSUME NEW k \in InRedis!Kinds, NEW o \in InRedis!Keys, NEW m \in rows'[k][o]
        PROVE  charged'[m] # 0 /\ InRedis!Owner(m, k) = o
    <2>1. CASE m = r /\ o = InRedis!Owner(r, k)
      BY <1>1, <1>2, <2>1 DEF RedisTimes
    <2>2. CASE m \in rows[k][o]
      <3>1. charged[m] # 0 /\ InRedis!Owner(m, k) = o /\ m \in SharedRequests
        BY <1>1, <2>2 DEF Remembered, InRedis!TypeOK
      <3>2. charged'[m] # 0
        BY <1>1, <1>2, <3>1 DEF RedisTimes
      <3> QED BY <3>1, <3>2
    <2>3. m \in rows[k][o] \/ (m = r /\ o = InRedis!Owner(r, k))
      <3>1. rows'[k][o] = IF o = InRedis!Owner(r, k) THEN InRedis!Kept(r, k) \cup {r}
                          ELSE rows[k][o]
        BY <1>2
      <3> QED BY <1>4, <3>1, KeptIs
    <2> QED BY <2>1, <2>2, <2>3
  <1> QED BY <1>3, <1>4, OwnersStay DEF Remembered

LEMMA RefuseRemembers ==
    ASSUME RedisInv, NEW r \in SharedRequests, InRedis!Refuse(r), UNCHANGED <<now, stamp>>
    PROVE  Remembered'
  <1>1. InRedis!TypeOK /\ RedisTimes /\ Remembered
    BY DEF RedisInv
  <1>2. /\ expiry' = expiry /\ charged' = charged
        /\ \A k \in InRedis!Kinds, o \in InRedis!Keys :
             rows'[k][o] = IF o = InRedis!Owner(r, k) THEN InRedis!Kept(r, k) ELSE rows[k][o]
    BY RowsAfterRefuse
  <1>3. ASSUME NEW m \in SharedRequests, NEW k \in InRedis!Kinds,
               charged[m] # 0, stamp[m] + InRedis!Period[k] > now
        PROVE  m \in rows'[k][InRedis!Owner(m, k)]
    <2>1. InRedis!Owner(m, k) \in InRedis!Keys
      BY OwnerIsKey
    <2>2. CASE InRedis!Owner(m, k) = InRedis!Owner(r, k)
      BY <1>1, <1>2, <1>3, <2>1, <2>2, PurgeKeeps
    <2>3. CASE InRedis!Owner(m, k) # InRedis!Owner(r, k)
      BY <1>1, <1>2, <1>3, <2>1, <2>3 DEF Remembered
    <2> QED BY <2>2, <2>3
  <1>4. \A k \in InRedis!Kinds, o \in InRedis!Keys : rows'[k][o] \subseteq rows[k][o]
    BY <1>2, KeptIs
  <1> QED BY <1>1, <1>2, <1>3, <1>4, OwnersStay DEF Remembered

\* A script that charges was the last to find room; one that refuses takes rows
\* away from a key that was not more than full.
LEMMA ScriptCrowds ==
    ASSUME RedisInv, NEW r \in SharedRequests, InRedis!Charge(r) \/ InRedis!Refuse(r),
           UNCHANGED <<now, stamp>>
    PROVE  AllCrowded'
  <1> SUFFICES ASSUME NEW k \in InRedis!Kinds, NEW o \in InRedis!Keys PROVE Crowded(k, o)'
    BY DEF AllCrowded
  <1>1. InRedis!TypeOK /\ RedisTimes /\ Crowded(k, o)
    BY DEF RedisInv, AllCrowded
  <1>2. CASE InRedis!Charge(r) /\ o = InRedis!Owner(r, k)
    <2>1. charged'[r] # 0
      BY <1>1, <1>2, RowsAfterCharge DEF RedisTimes
    <2>2. rows'[k][o] = InRedis!Kept(r, k) \cup {r}
      BY <1>2, RowAfterCharge
    <2>3. Younger(k, o, stamp[r] - InRedis!Period[k])' \subseteq InRedis!Kept(r, k) \cup {r}
      BY <2>2 DEF Younger
    <2>4. Cardinality(Younger(k, o, stamp[r] - InRedis!Period[k])') <= InRedis!Limit[k]
      BY <1>2, <2>3, RoomForOne
    <2>5. InRedis!Limit[k]' = InRedis!Limit[k] /\ InRedis!Period[k]' = InRedis!Period[k]
      BY DEF InRedis!Limit, InRedis!Period
    <2> QED BY <1>2, <2>1, <2>4, <2>5, OwnersStay DEF Crowded
  <1>3. CASE /\ rows'[k][o] \subseteq rows[k][o]
             /\ \A m \in SharedRequests : charged[m] # 0 => charged'[m] # 0
    <2> SUFFICES ASSUME rows'[k][o] # {}
                 PROVE  \E l \in SharedRequests :
                          /\ charged'[l] # 0 /\ InRedis!Owner(l, k) = o
                          /\ Cardinality(Younger(k, o, stamp[l] - InRedis!Period[k])')
                               <= InRedis!Limit[k]
      BY OwnersStay DEF Crowded, InRedis!Limit, InRedis!Period
    <2>1. PICK l \in SharedRequests :
            /\ charged[l] # 0 /\ InRedis!Owner(l, k) = o
            /\ Cardinality(Younger(k, o, stamp[l] - InRedis!Period[k])) <= InRedis!Limit[k]
      BY <1>1, <1>3 DEF Crowded
    <2> DEFINE Y == Younger(k, o, stamp[l] - InRedis!Period[k])
    <2>2. Y' \subseteq Y /\ Y \subseteq SharedRequests
      BY <1>1, <1>3 DEF Younger, InRedis!TypeOK, InRedis!Period
    <2>3. IsFiniteSet(Y)
      BY <2>2, QuotaConstants, Smaller
    <2>4. /\ Cardinality(Y') <= Cardinality(Y) /\ Cardinality(Y') \in Nat
          /\ Cardinality(Y) \in Nat
      BY <2>2, <2>3, Smaller
    <2>5. Cardinality(Y') <= InRedis!Limit[k]
      BY <2>1, <2>4, KindsHave
    <2> QED BY <1>3, <2>1, <2>5
  <1>4. CASE ~(InRedis!Charge(r) /\ o = InRedis!Owner(r, k))
    <2>1. /\ rows'[k][o] \subseteq rows[k][o]
          /\ \A m \in SharedRequests : charged[m] # 0 => charged'[m] # 0
      <3>1. CASE InRedis!Charge(r)
        <4>1. o # InRedis!Owner(r, k)
          BY <1>4, <3>1
        <4>2. \A m \in SharedRequests : charged[m] # 0 => charged'[m] # 0
          BY <1>1, <3>1, RowsAfterCharge DEF RedisTimes
        <4>3. rows'[k][o] = rows[k][o]
          BY <3>1, <4>1, RowAfterCharge
        <4> QED BY <4>2, <4>3
      <3>2. CASE InRedis!Refuse(r)
        BY <3>2, RowsAfterRefuse, KeptIs
      <3> QED BY <3>1, <3>2
    <2> QED BY <1>3, <2>1
  <1> QED BY <1>2, <1>4

\* What is charged stays charged, and later than all that came before.
LEMMA ChargesGrow ==
    ASSUME RedisInv, NEW r \in SharedRequests,
           InRedis!Charge(r) \/ UNCHANGED charged, UNCHANGED <<now, stamp>>
    PROVE  /\ \A m \in SharedRequests : charged[m] # 0 => charged'[m] # 0
           /\ \A m \in SharedRequests : charged[m] <= charged'[m]
           /\ InRedis!Charge(r) => \A q \in SharedRequests : charged'[r] >= stamp[q]
  <1>1. /\ now \in Nat /\ now # 0 /\ charged \in [SharedRequests -> Nat]
        /\ \A q \in SharedRequests : stamp[q] <= now /\ stamp[q] \in Nat
        /\ \A q \in SharedRequests : charged[q] # 0 => charged[q] <= now
    BY DEF RedisInv, InRedis!TypeOK, RedisTimes
  <1>2. CASE UNCHANGED charged /\ ~InRedis!Charge(r)
    BY <1>1, <1>2
  <1>3. CASE InRedis!Charge(r)
    <2>1. /\ charged'[r] = now /\ charged' \in [SharedRequests -> Nat]
          /\ \A m \in SharedRequests \ {r} : charged'[m] = charged[m]
      BY <1>3, RowsAfterCharge
    <2>2. \A m \in SharedRequests : m = r \/ m \in SharedRequests \ {r}
      OBVIOUS
    <2>3. \A m \in SharedRequests : charged[m] <= now
      BY <1>1
    <2> QED BY <1>1, <2>1, <2>2, <2>3
  <1> QED BY <1>2, <1>3

\* Whoever was told to come back is still kept out until then, and finds a place
\* afterwards, however the step leaves the rows.
LEMMA PromisesStay ==
    ASSUME RedisInv, UNCHANGED stamp, NEW q \in SharedRequests,
           answer[q] = "rejected", retry'[q] = retry[q],
           \A m \in SharedRequests : charged[m] # 0 => charged'[m] # 0,
           \A m \in SharedRequests : charged[m] <= charged'[m],
           charged' \in [SharedRequests -> Nat],
           \/ \E m \in SharedRequests : charged'[m] >= stamp[q]
           \/ \A k \in InRedis!Kinds, o \in InRedis!Keys : rows'[k][o] \subseteq rows[k][o]
    PROVE  /\ \E k \in InRedis!Kinds : (Cardinality(Blocking(q, k)) >= InRedis!Limit[k])'
           /\ \/ \E m \in SharedRequests : charged'[m] >= stamp'[q]
              \/ \A k \in InRedis!Kinds : Freed(q, k)'
  <1>1. /\ stamp \in [SharedRequests -> Nat] /\ charged \in [SharedRequests -> Nat]
        /\ rows \in [InRedis!Kinds -> [InRedis!Keys -> SUBSET SharedRequests]]
    BY DEF RedisInv, InRedis!TypeOK
  <1>2. \E k \in InRedis!Kinds : (Cardinality(Blocking(q, k)) >= InRedis!Limit[k])'
    <2>1. PICK k \in InRedis!Kinds : Cardinality(Blocking(q, k)) >= InRedis!Limit[k]
      BY DEF RedisInv, Blocked
    <2>2. Blocking(q, k) \subseteq Blocking(q, k)'
      BY OwnersStay DEF Blocking, NotBefore, InRedis!Period
    <2>3. Blocking(q, k)' \subseteq SharedRequests
      BY DEF Blocking
    <2>4. IsFiniteSet(Blocking(q, k)')
      BY <2>3, QuotaConstants, Smaller
    <2>5. /\ Cardinality(Blocking(q, k)) <= Cardinality(Blocking(q, k)')
          /\ Cardinality(Blocking(q, k)) \in Nat /\ Cardinality(Blocking(q, k)') \in Nat
      BY <2>2, <2>4, Smaller
    <2>6. Cardinality(Blocking(q, k)') >= InRedis!Limit[k]
      BY <2>1, <2>5, KindsHave
    <2> QED BY <2>6 DEF InRedis!Limit
  <1>3. CASE \E m \in SharedRequests : charged'[m] >= stamp[q]
    BY <1>2, <1>3
  <1>4. CASE /\ ~\E m \in SharedRequests : charged'[m] >= stamp[q]
             /\ \A k \in InRedis!Kinds, o \in InRedis!Keys : rows'[k][o] \subseteq rows[k][o]
    <2>1. ~\E m \in SharedRequests : charged[m] >= stamp[q]
      <3> SUFFICES ASSUME NEW m \in SharedRequests, charged[m] >= stamp[q] PROVE FALSE
        OBVIOUS
      <3>1. /\ charged[m] \in Nat /\ charged'[m] \in Nat /\ stamp[q] \in Nat
            /\ charged[m] <= charged'[m]
        BY <1>1
      <3>2. charged'[m] >= stamp[q]
        BY <3>1
      <3> QED BY <1>4, <3>2
    <2>2. ASSUME NEW k \in InRedis!Kinds PROVE Freed(q, k)'
      <3> DEFINE Y == Younger(k, InRedis!Owner(q, k), ComesBack(q) - InRedis!Period[k])
      <3>1. Cardinality(Y) < InRedis!Limit[k]
        BY <2>1 DEF RedisInv, AllFreed, Freed
      <3>2. InRedis!Owner(q, k) \in InRedis!Keys
        BY OwnerIsKey
      <3>3. rows'[k][InRedis!Owner(q, k)] \subseteq rows[k][InRedis!Owner(q, k)]
        BY <1>4, <3>2
      <3>4. Y' \subseteq Y /\ Y \subseteq SharedRequests
        BY <1>1, <3>2, <3>3, OwnersStay DEF Younger, ComesBack, InRedis!Period
      <3>5. IsFiniteSet(Y)
        BY <3>4, QuotaConstants, Smaller
      <3>6. /\ Cardinality(Y') <= Cardinality(Y) /\ Cardinality(Y') \in Nat
            /\ Cardinality(Y) \in Nat
        BY <3>4, <3>5, Smaller
      <3>7. Cardinality(Y') < InRedis!Limit[k]
        BY <3>1, <3>6, KindsHave
      <3> QED BY <3>7 DEF Freed, InRedis!Limit
    <2> QED BY <1>2, <2>2
  <1> QED BY <1>3, <1>4

\* The oldest row of a window that is full.
LEMMA OldestIs ==
    ASSUME RedisInv, NEW r \in SharedRequests, NEW k \in InRedis!Full(r)
    PROVE  \E m \in InRedis!Kept(r, k) :
             /\ stamp[m] + InRedis!Period[k] - stamp[r] \in InRedis!TimesLeft(r)
             /\ \A n \in InRedis!Kept(r, k) : stamp[m] <= stamp[n]
  <1> DEFINE K == InRedis!Kept(r, k)
             S == {stamp[m] : m \in K}
  <1>1. k \in InRedis!Kinds
    BY DEF InRedis!Full
  <1>2. K \in SUBSET SharedRequests /\ IsFiniteSet(K) /\ Cardinality(K) >= InRedis!Limit[k]
    BY <1>1, KeptIs
  <1>3. K # {}
    <2> SUFFICES ASSUME K = {} PROVE FALSE
      OBVIOUS
    <2> HIDE DEF K
    <2>1. Cardinality(K) = 0
      BY FS_EmptySet
    <2> QED BY <1>1, <1>2, <2>1, KindsHave
  <1>4. stamp \in [SharedRequests -> Nat]
    BY DEF RedisInv, InRedis!TypeOK
  <1>5. S \in SUBSET Nat /\ S # {}
    BY <1>2, <1>3, <1>4
  <1>6. PICK s \in S : \A u \in S : s <= u
    BY <1>5, Least
  <1>7. PICK m \in K : s = stamp[m]
    BY <1>6
  <1>8. \A n \in K : stamp[m] <= stamp[n]
    BY <1>6, <1>7
  <1>9. <<k, m>> \in InRedis!Oldest(r, InRedis!Full(r))
    BY <1>2, <1>8 DEF InRedis!Oldest
  <1> QED BY <1>8, <1>9 DEF InRedis!TimesLeft

\* What a rejection promises is so when it is made.
LEMMA RejectionPromises ==
    ASSUME RedisInv, NEW r \in SharedRequests, InRedis!Refuse(r), UNCHANGED <<now, stamp>>,
           NEW t \in InRedis!TimesLeft(r), InRedis!Longest(r, t),
           retry'[r] = InRedis!RetryAfter(t)
    PROVE  /\ retry'[r] \in Nat
           /\ \E k \in InRedis!Kinds : (Cardinality(Blocking(r, k)) >= InRedis!Limit[k])'
           /\ \/ \E m \in SharedRequests : charged'[m] >= stamp'[r]
              \/ \A k \in InRedis!Kinds : Freed(r, k)'
  <1>1. /\ charged' = charged /\ charged \in [SharedRequests -> Nat]
        /\ stamp \in [SharedRequests -> Nat]
        /\ \A k \in InRedis!Kinds :
             rows'[k][InRedis!Owner(r, k)] = InRedis!Kept(r, k)
    BY RowsAfterRefuse, OwnerIsKey DEF RedisInv, InRedis!TypeOK
  <1>2. PICK k \in InRedis!Full(r), m \in SharedRequests :
          /\ m \in InRedis!Kept(r, k) /\ t = stamp[m] + InRedis!Period[k] - stamp[r]
          /\ \A n \in InRedis!Kept(r, k) : stamp[m] <= stamp[n]
    <2>1. PICK p \in InRedis!Oldest(r, InRedis!Full(r)) :
            t = stamp[p[2]] + InRedis!Period[p[1]] - stamp[r]
      BY DEF InRedis!TimesLeft
    <2> QED BY <2>1 DEF InRedis!Oldest
  <1>3. k \in InRedis!Kinds
    BY DEF InRedis!Full
  <1>4. t \in Nat \ {0} /\ stamp[r] + t = stamp[m] + InRedis!Period[k]
    <2>1. stamp[m] > stamp[r] - InRedis!Period[k]
      BY <1>2, <1>3, KeptIs
    <2>2. stamp[m] \in Nat /\ stamp[r] \in Nat /\ InRedis!Period[k] \in Nat
      BY <1>1, <1>3, KindsHave
    <2> QED BY <1>2, <2>1, <2>2
  <1>4a. /\ retry'[r] \in Nat /\ ComesBack(r)' \in Nat /\ NotBefore(r)' \in Nat
         /\ NotBefore(r)' <= stamp[r] + t /\ stamp[r] + t <= ComesBack(r)'
    <2> DEFINE up == -((-t) \div Second)
    <2>1. /\ up \in Nat \ {0} /\ ((up - 1) * Second) < t /\ t <= (up * Second)
          /\ up - 1 \in Nat
      BY <1>4, WaitsRound
    <2>2. retry'[r] = up
      <3>1. retry'[r] = IF up <= 0 THEN 60 ELSE up
        BY DEF InRedis!RetryAfter, InRedis!Seconds
      <3> HIDE DEF up
      <3> QED BY <2>1, <3>1
    <2> HIDE DEF up
    <2>3. (up * Second) \in Nat /\ ((up - 1) * Second) \in Nat
      BY <2>1, SecondsAre
    <2>4. /\ ComesBack(r)' = stamp[r] + (up * Second)
          /\ NotBefore(r)' = stamp[r] + ((up - 1) * Second) + 1
      BY <2>2 DEF ComesBack, NotBefore
    <2> QED BY <1>1, <1>4, <2>1, <2>2, <2>3, <2>4
  <1>5. (Cardinality(Blocking(r, k)) >= InRedis!Limit[k])'
    <2>1. InRedis!Kept(r, k) \subseteq Blocking(r, k)'
      <3> SUFFICES ASSUME NEW n \in InRedis!Kept(r, k)
                   PROVE  /\ n \in SharedRequests /\ charged[n] # 0
                          /\ InRedis!Owner(n, k) = InRedis!Owner(r, k)
                          /\ stamp[n] + InRedis!Period[k] >= NotBefore(r)'
        BY <1>1, OwnersStay DEF Blocking, NotBefore, InRedis!Period
      <3>1. /\ n \in SharedRequests /\ charged[n] # 0
            /\ InRedis!Owner(n, k) = InRedis!Owner(r, k)
        BY <1>3, KeptIs
      <3>2. stamp[n] \in Nat /\ stamp[m] \in Nat /\ stamp[m] <= stamp[n]
            /\ InRedis!Period[k] \in Nat
        BY <1>1, <1>2, <1>3, <3>1, KindsHave
      <3> QED BY <1>4, <1>4a, <3>1, <3>2
    <2>2. Blocking(r, k)' \subseteq SharedRequests
      BY DEF Blocking
    <2>3. IsFiniteSet(Blocking(r, k)')
      BY <2>2, QuotaConstants, Smaller
    <2>4. /\ Cardinality(InRedis!Kept(r, k)) <= Cardinality(Blocking(r, k)')
          /\ Cardinality(InRedis!Kept(r, k)) \in Nat /\ Cardinality(Blocking(r, k)') \in Nat
      BY <2>1, <2>3, Smaller
    <2>5. Cardinality(InRedis!Kept(r, k)) >= InRedis!Limit[k]
      BY <1>3, KeptIs
    <2>6. Cardinality(Blocking(r, k)') >= InRedis!Limit[k]
      BY <1>3, <2>4, <2>5, KindsHave
    <2> QED BY <2>6 DEF InRedis!Limit
  <1>6. CASE \E n \in SharedRequests : charged[n] >= stamp[r]
    BY <1>1, <1>3, <1>4a, <1>5, <1>6
  <1>7. CASE ~\E n \in SharedRequests : charged[n] >= stamp[r]
    <2>1. ASSUME NEW l \in InRedis!Kinds PROVE Freed(r, l)'
      <3> DEFINE K == InRedis!Kept(r, l)
                 Y == Younger(l, InRedis!Owner(r, l), ComesBack(r) - InRedis!Period[l])
      <3>1. Y' = {n \in K : stamp[n] > ComesBack(r)' - InRedis!Period[l]}
        <4> DEFINE o == InRedis!Owner(r, l)
        <4>1. \A n : n \in Y' <=> /\ n \in rows'[l][o]
                                   /\ stamp'[n] > ComesBack(r)' - InRedis!Period[l]
          BY OwnersStay DEF Younger, InRedis!Period
        <4>2. rows'[l][o] = K
          BY <1>1
        <4> HIDE DEF K, Y, o
        <4> QED BY <1>1, <4>1, <4>2
      <3>2. IsFiniteSet(K) /\ K \in SUBSET SharedRequests /\ Cardinality(K) \in Nat
            /\ (l \in InRedis!Full(r) <=> Cardinality(K) >= InRedis!Limit[l])
        BY KeptIs
      <3> HIDE DEF K, Y
      <3>3. CASE l \notin InRedis!Full(r)
        <4>1. Cardinality(Y') <= Cardinality(K) /\ Cardinality(Y') \in Nat
          BY <3>1, <3>2, Smaller
        <4> QED BY <3>2, <3>3, <4>1, KindsHave DEF Freed, InRedis!Limit, Y
      <3>4. CASE l \in InRedis!Full(r)
        <4>1. PICK n \in K : /\ stamp[n] + InRedis!Period[l] - stamp[r] \in InRedis!TimesLeft(r)
                             /\ \A u \in K : stamp[n] <= stamp[u]
          BY <3>4, OldestIs DEF K
        <4>2. stamp[n] + InRedis!Period[l] - stamp[r] <= t
          BY <4>1 DEF InRedis!Longest
        <4>3. n \notin Y'
          <5>1. stamp[n] \in Nat /\ stamp[r] \in Nat /\ InRedis!Period[l] \in Nat
            BY <1>1, <3>2, KindsHave
          <5> QED BY <1>4, <1>4a, <3>1, <4>2, <5>1
        <4>4. /\ IsFiniteSet(K \ {n}) /\ Cardinality(K \ {n}) = Cardinality(K) - 1
          BY <3>2, FS_RemoveElement
        <4>5. Cardinality(Y') <= Cardinality(K) - 1 /\ Cardinality(Y') \in Nat
          <5>1. Y' \subseteq K \ {n}
            BY <3>1, <4>3
          <5> QED BY <4>4, <5>1, Smaller
        <4>6. Cardinality(K) <= InRedis!Limit[l]
          <5> DEFINE o == InRedis!Owner(r, l)
          <5>1. o \in InRedis!Keys /\ K \subseteq rows[l][o]
            BY OwnerIsKey, KeptIs DEF K
          <5>2. PICK last \in SharedRequests :
                  /\ charged[last] # 0
                  /\ Cardinality(Younger(l, o, stamp[last] - InRedis!Period[l]))
                       <= InRedis!Limit[l]
            BY <4>1, <5>1 DEF RedisInv, AllCrowded, Crowded
          <5> DEFINE Z == Younger(l, o, stamp[last] - InRedis!Period[l])
          <5>3. stamp[last] <= stamp[r]
            <6>1. stamp[last] <= charged[last]
              BY <5>2 DEF RedisInv, RedisTimes
            <6>2. stamp[last] \in Nat /\ charged[last] \in Nat /\ stamp[r] \in Nat
                  /\ ~(charged[last] >= stamp[r])
              BY <1>1, <1>7
            <6> QED BY <6>1, <6>2
          <5>4. K \subseteq Z
            <6> SUFFICES ASSUME NEW u \in K
                         PROVE  u \in rows[l][o] /\ stamp[u] > stamp[last] - InRedis!Period[l]
              BY DEF Younger
            <6>1. stamp[u] > stamp[r] - InRedis!Period[l]
              BY KeptIs DEF K
            <6>2. /\ stamp[u] \in Nat /\ stamp[last] \in Nat /\ stamp[r] \in Nat
                  /\ InRedis!Period[l] \in Nat
              BY <1>1, <3>2, KindsHave
            <6> QED BY <5>1, <5>3, <6>1, <6>2
          <5>5. Z \subseteq SharedRequests
            BY <5>1 DEF Younger, RedisInv, InRedis!TypeOK
          <5>6. IsFiniteSet(Z)
            BY <5>5, QuotaConstants, Smaller
          <5>7. Cardinality(K) <= Cardinality(Z) /\ Cardinality(Z) \in Nat
            BY <5>4, <5>6, Smaller
          <5> QED BY <3>2, <5>2, <5>7, KindsHave
        <4>7. Cardinality(Y') < InRedis!Limit[l]
          BY <3>2, <4>5, <4>6, KindsHave
        <4> QED BY <4>7 DEF Freed, InRedis!Limit, Y
      <3> QED BY <3>3, <3>4
    <2> QED BY <1>3, <1>4a, <1>5, <2>1
  <1> QED BY <1>6, <1>7

\* What a script leaves behind, whichever way it ends.
LEMMA ScriptKeeps ==
    ASSUME RedisInv, NEW r \in SharedRequests, InRedis!Charge(r) \/ InRedis!Refuse(r),
           UNCHANGED <<now, stamp>>
    PROVE  /\ rows' \in [InRedis!Kinds -> [InRedis!Keys -> SUBSET SharedRequests]]
           /\ expiry' \in [InRedis!Kinds -> [InRedis!Keys -> Nat]]
           /\ charged' \in [SharedRequests -> Nat]
           /\ Remembered' /\ InRedis!WithinAllowance' /\ AllCrowded'
           /\ charged' = charged \/ charged' = [charged EXCEPT ![r] = now]
           /\ InRedis!Charge(r) => charged'[r] # 0
           /\ \/ InRedis!Charge(r)
              \/ /\ UNCHANGED charged
                 /\ \A k \in InRedis!Kinds, o \in InRedis!Keys : rows'[k][o] \subseteq rows[k][o]
  <1>1. AllCrowded'
    BY ScriptCrowds
  <1>2. CASE InRedis!Charge(r)
    BY <1>1, <1>2, RowsAfterCharge, ChargeRemembers, ChargeWithin DEF RedisInv, RedisTimes
  <1>3. CASE InRedis!Refuse(r)
    <2>1. InRedis!WithinAllowance'
      BY <1>3, RowsAfterRefuse
      DEF RedisInv, InRedis!WithinAllowance, InRedis!During, InRedis!Belongs
    <2>2. ~InRedis!Charge(r)
      BY <1>3 DEF InRedis!Charge, InRedis!Refuse
    <2>3. /\ rows' \in [InRedis!Kinds -> [InRedis!Keys -> SUBSET SharedRequests]]
          /\ expiry' = expiry /\ charged' = charged
          /\ \A k \in InRedis!Kinds, o \in InRedis!Keys :
               rows'[k][o] = IF o = InRedis!Owner(r, k) THEN InRedis!Kept(r, k) ELSE rows[k][o]
      BY <1>3, RowsAfterRefuse
    <2>4. \A k \in InRedis!Kinds : InRedis!Kept(r, k) \subseteq rows[k][InRedis!Owner(r, k)]
      BY KeptIs
    <2>5. \A k \in InRedis!Kinds, o \in InRedis!Keys : rows'[k][o] \subseteq rows[k][o]
      BY <2>3, <2>4
    <2>6. Remembered'
      BY <1>3, RefuseRemembers
    <2>7. charged \in [SharedRequests -> Nat]
          /\ expiry \in [InRedis!Kinds -> [InRedis!Keys -> Nat]]
      BY DEF RedisInv, InRedis!TypeOK
    <2> QED BY <1>1, <2>1, <2>2, <2>3, <2>5, <2>6, <2>7
  <1> QED BY <1>2, <1>3

\* Where nothing is written and no charged request's time moves, the windows stay.
LEMMA RowsStay ==
    ASSUME RedisInv, UNCHANGED <<now, charged, rows, expiry>>, stamp' \in [SharedRequests -> Nat],
           \A m \in SharedRequests : charged[m] # 0 => stamp'[m] = stamp[m]
    PROVE  Remembered' /\ InRedis!WithinAllowance' /\ AllCrowded'
  <1>1. Remembered'
    BY DEF RedisInv, Remembered, InRedis!Owner, InRedis!Period
  <1>2. InRedis!WithinAllowance'
    BY DEF RedisInv, InRedis!WithinAllowance, InRedis!During, InRedis!Belongs, InRedis!Owner
  <1>3. AllCrowded'
    <2> SUFFICES ASSUME NEW k \in InRedis!Kinds, NEW o \in InRedis!Keys PROVE Crowded(k, o)'
      BY DEF AllCrowded
    <2>1. \A m \in rows[k][o] : stamp'[m] = stamp[m]
      BY DEF RedisInv, Remembered, InRedis!TypeOK
    <2>2. ASSUME NEW l \in SharedRequests, charged[l] # 0
          PROVE  Younger(k, o, stamp[l] - InRedis!Period[k])'
                   = Younger(k, o, stamp[l] - InRedis!Period[k])
      BY <2>1, <2>2 DEF Younger, InRedis!Period
    <2>3. Crowded(k, o)
      BY DEF RedisInv, AllCrowded
    <2> QED BY <2>2, <2>3, OwnersStay DEF Crowded, InRedis!Limit
  <1> QED BY <1>1, <1>2, <1>3

LEMMA ConsumeKeeps ==
    ASSUME RedisInv, NEW r \in SharedRequests, InRedis!Consume(r) \/ InRedis!RedisFault(r)
    PROVE  RedisInv'
  <1>1. InRedis!Pending(r) /\ UNCHANGED <<now, stamp>>
    BY DEF InRedis!Consume, InRedis!RedisFault
  <1>2. /\ rows' \in [InRedis!Kinds -> [InRedis!Keys -> SUBSET SharedRequests]]
        /\ expiry' \in [InRedis!Kinds -> [InRedis!Keys -> Nat]]
        /\ charged' \in [SharedRequests -> Nat]
        /\ Remembered' /\ InRedis!WithinAllowance' /\ AllCrowded'
        /\ charged' = charged \/ charged' = [charged EXCEPT ![r] = now]
        /\ InRedis!Charge(r) => charged'[r] # 0
        /\ \/ InRedis!Charge(r)
           \/ /\ UNCHANGED charged
              /\ \A k \in InRedis!Kinds, o \in InRedis!Keys : rows'[k][o] \subseteq rows[k][o]
    <2>1. CASE InRedis!Charge(r) \/ InRedis!Refuse(r)
      BY <1>1, <2>1, ScriptKeeps
    <2>2. CASE UNCHANGED <<charged, rows, expiry>> /\ ~InRedis!Charge(r)
      <3>1. InRedis!TypeOK
        BY DEF RedisInv
      <3>2. stamp' \in [SharedRequests -> Nat]
        BY <1>1, <3>1 DEF InRedis!TypeOK
      <3>3. Remembered' /\ InRedis!WithinAllowance' /\ AllCrowded'
        BY <1>1, <2>2, <3>2, RowsStay
      <3> QED BY <2>2, <3>1, <3>3 DEF InRedis!TypeOK
    <2> QED BY <2>1, <2>2 DEF InRedis!Consume, InRedis!RedisFault
  <1>3. /\ \A m \in SharedRequests : m # r => answer'[m] = answer[m]
        /\ answer' \in [SharedRequests -> {"none", "allowed", "rejected", "error"}]
        /\ answer'[r] = "allowed" => charged'[r] # 0
        /\ faults' \in Nat
    <2>1. CASE InRedis!Consume(r)
      BY <1>2, <2>1 DEF InRedis!Consume, RedisInv, InRedis!TypeOK
    <2>2. CASE InRedis!RedisFault(r)
      BY <1>1, <2>2 DEF InRedis!RedisFault, InRedis!Pending, RedisInv, InRedis!TypeOK
    <2> QED BY <2>1, <2>2
  <1>4. /\ \A m \in SharedRequests : charged[m] # 0 => charged'[m] # 0
        /\ \A m \in SharedRequests : charged[m] <= charged'[m]
        /\ InRedis!Charge(r) => \A q \in SharedRequests : charged'[r] >= stamp[q]
    <2>1. InRedis!Charge(r) \/ UNCHANGED charged
      BY <1>2
    <2> QED BY <1>1, <2>1, ChargesGrow
  <1>5. /\ retry' \in [SharedRequests -> Nat]
        /\ \A m \in SharedRequests : m # r => retry'[m] = retry[m]
        /\ answer'[r] = "rejected" =>
             /\ \E k \in InRedis!Kinds : (Cardinality(Blocking(r, k)) >= InRedis!Limit[k])'
             /\ \/ \E m \in SharedRequests : charged'[m] >= stamp'[r]
                \/ \A k \in InRedis!Kinds : Freed(r, k)'
    <2>1. retry \in [SharedRequests -> Nat]
          /\ answer \in [SharedRequests -> {"none", "allowed", "rejected", "error"}]
      BY DEF RedisInv, InRedis!TypeOK
    <2>2. CASE retry' = retry /\ answer'[r] # "rejected"
      BY <2>1, <2>2
    <2>3. ASSUME InRedis!Refuse(r), NEW t \in InRedis!TimesLeft(r), InRedis!Longest(r, t),
                 retry' = [retry EXCEPT ![r] = InRedis!RetryAfter(t)]
          PROVE  /\ retry' \in [SharedRequests -> Nat]
                 /\ \A m \in SharedRequests : m # r => retry'[m] = retry[m]
                 /\ \E k \in InRedis!Kinds : (Cardinality(Blocking(r, k)) >= InRedis!Limit[k])'
                 /\ \/ \E m \in SharedRequests : charged'[m] >= stamp'[r]
                    \/ \A k \in InRedis!Kinds : Freed(r, k)'
      <3>1. retry'[r] = InRedis!RetryAfter(t) /\ \A m \in SharedRequests : m # r => retry'[m] = retry[m]
        BY <2>1, <2>3
      <3>2. /\ retry'[r] \in Nat
            /\ \E k \in InRedis!Kinds : (Cardinality(Blocking(r, k)) >= InRedis!Limit[k])'
            /\ \/ \E m \in SharedRequests : charged'[m] >= stamp'[r]
               \/ \A k \in InRedis!Kinds : Freed(r, k)'
        BY <1>1, <2>3, <3>1, RejectionPromises
      <3> QED BY <2>1, <2>3, <3>1, <3>2
    <2>4. CASE InRedis!Consume(r)
      <3>1. CASE InRedis!Charge(r) /\ answer' = [answer EXCEPT ![r] = "allowed"]
                 /\ UNCHANGED retry
        BY <2>1, <2>2, <3>1
      <3>2. CASE InRedis!Refuse(r)
                 /\ \E t \in InRedis!TimesLeft(r) :
                      InRedis!Longest(r, t) /\ retry' = [retry EXCEPT ![r] = InRedis!RetryAfter(t)]
        BY <2>3, <3>2
      <3> QED BY <2>4, <3>1, <3>2 DEF InRedis!Consume
    <2>5. CASE InRedis!RedisFault(r)
      <3>1. retry' = retry /\ answer'[r] # "rejected"
        BY <1>1, <2>1, <2>5 DEF InRedis!RedisFault, InRedis!Pending
      <3> QED BY <2>2, <3>1
    <2> QED BY <2>4, <2>5
  <1>6. InRedis!TypeOK'
    BY <1>1, <1>2, <1>3, <1>5 DEF RedisInv, InRedis!TypeOK
  <1>7. RedisTimes'
    <2>1. ASSUME NEW m \in SharedRequests PROVE InRedis!Pending(m)' => InRedis!Pending(m)
      BY <1>1, <1>3 DEF InRedis!Pending
    <2>2. charged'[r] # 0 => stamp[r] <= charged'[r] /\ charged'[r] <= now
                              /\ charged'[r] <= stamp[r] + Skew
      BY <1>1, <1>2 DEF RedisInv, InRedis!TypeOK, RedisTimes
    <2>3. \A m \in SharedRequests : m # r => charged'[m] = charged[m]
      BY <1>2 DEF RedisInv, InRedis!TypeOK
    <2>4. stamp[r] # 0
      BY <1>1 DEF InRedis!Pending
    <2> QED BY <1>1, <1>3, <2>1, <2>2, <2>3, <2>4 DEF RedisInv, RedisTimes
  <1>8. InRedis!AllowedAreCharged'
    <2>1. \A m \in SharedRequests : m # r => charged'[m] = charged[m]
      BY <1>2 DEF RedisInv, InRedis!TypeOK
    <2> QED BY <1>3, <2>1 DEF RedisInv, InRedis!AllowedAreCharged
  <1>9. ASSUME NEW q \in SharedRequests, answer'[q] = "rejected"
        PROVE  /\ \E k \in InRedis!Kinds : (Cardinality(Blocking(q, k)) >= InRedis!Limit[k])'
               /\ \/ \E m \in SharedRequests : charged'[m] >= stamp'[q]
                  \/ \A k \in InRedis!Kinds : Freed(q, k)'
    <2>1. CASE q = r
      BY <1>5, <1>9, <2>1
    <2>2. CASE q # r
      <3>1. answer[q] = "rejected" /\ retry'[q] = retry[q] /\ UNCHANGED stamp
        BY <1>1, <1>3, <1>5, <1>9, <2>2
      <3>2. \/ \E m \in SharedRequests : charged'[m] >= stamp[q]
            \/ \A k \in InRedis!Kinds, o \in InRedis!Keys : rows'[k][o] \subseteq rows[k][o]
        BY <1>2, <1>4
      <3> QED BY <1>2, <1>4, <3>1, <3>2, PromisesStay
    <2> QED BY <2>1, <2>2
  <1>10. Blocked'
    BY <1>9 DEF Blocked, InRedis!Kinds
  <1>11. AllFreed'
    BY <1>9 DEF AllFreed, InRedis!Kinds
  <1> QED BY <1>2, <1>6, <1>7, <1>8, <1>10, <1>11 DEF RedisInv

\* Where no request is answered or charged, promises stand.
LEMMA PromisesStand ==
    ASSUME RedisInv, UNCHANGED <<answer, retry, charged, rows>>,
           \A m \in SharedRequests : charged[m] # 0 => stamp'[m] = stamp[m],
           \A m \in SharedRequests : answer[m] = "rejected" => stamp'[m] = stamp[m]
    PROVE  Blocked' /\ AllFreed'
  <1>1. ASSUME NEW q \in SharedRequests, answer[q] = "rejected", NEW k \in InRedis!Kinds
        PROVE  /\ Blocking(q, k)' = Blocking(q, k)
               /\ Freed(q, k)' <=> Freed(q, k)
    <2>1. stamp'[q] = stamp[q] /\ ComesBack(q)' = ComesBack(q) /\ NotBefore(q)' = NotBefore(q)
      BY <1>1 DEF ComesBack, NotBefore
    <2>2. Blocking(q, k)' = Blocking(q, k)
      BY <2>1, OwnersStay DEF Blocking, InRedis!Period
    <2>3. InRedis!Owner(q, k) \in InRedis!Keys
      BY OwnerIsKey
    <2>4. \A m \in rows[k][InRedis!Owner(q, k)] : stamp'[m] = stamp[m]
      BY <2>3 DEF RedisInv, Remembered, InRedis!TypeOK
    <2>5. Younger(k, InRedis!Owner(q, k), ComesBack(q) - InRedis!Period[k])'
            = Younger(k, InRedis!Owner(q, k), ComesBack(q) - InRedis!Period[k])
      BY <2>1, <2>4, OwnersStay DEF Younger, InRedis!Period
    <2> QED BY <2>2, <2>5 DEF Freed, InRedis!Limit
  <1>2. Blocked'
    BY <1>1 DEF RedisInv, Blocked, InRedis!Kinds, InRedis!Limit
  <1>3. AllFreed'
    <2> SUFFICES ASSUME NEW q \in SharedRequests, answer'[q] = "rejected"
                 PROVE  \/ \E m \in SharedRequests : charged'[m] >= stamp'[q]
                        \/ \A k \in InRedis!Kinds : Freed(q, k)'
      BY DEF AllFreed, InRedis!Kinds
    <2>1. \/ \E m \in SharedRequests : charged[m] >= stamp[q]
          \/ \A k \in InRedis!Kinds : Freed(q, k)
      BY DEF RedisInv, AllFreed
    <2> QED BY <1>1, <2>1
  <1> QED BY <1>2, <1>3

LEMMA CallKeeps == ASSUME RedisInv, NEW r \in SharedRequests, InRedis!Call(r) PROVE RedisInv'
  <1>1. /\ stamp[r] = 0 /\ stamp' = [stamp EXCEPT ![r] = now]
        /\ UNCHANGED <<now, answer, retry, charged, rows, expiry, faults>>
    BY DEF InRedis!Call
  <1>2. InRedis!TypeOK'
    BY <1>1 DEF RedisInv, InRedis!TypeOK
  <1>3. RedisTimes'
    BY <1>1, QuotaConstants DEF RedisInv, InRedis!TypeOK, RedisTimes, InRedis!Pending
  <1>4. \A m \in SharedRequests : charged[m] # 0 => stamp'[m] = stamp[m]
    BY <1>1 DEF RedisInv, InRedis!TypeOK, RedisTimes
  <1>5. Remembered' /\ InRedis!WithinAllowance' /\ AllCrowded'
    BY <1>1, <1>2, <1>4, RowsStay DEF InRedis!TypeOK
  <1>6. InRedis!AllowedAreCharged'
    BY <1>1 DEF RedisInv, InRedis!AllowedAreCharged
  <1>7. \A q \in SharedRequests : answer[q] = "rejected" => stamp'[q] = stamp[q]
    BY <1>1 DEF RedisInv, InRedis!TypeOK, RedisTimes
  <1>8. Blocked' /\ AllFreed'
    BY <1>1, <1>4, <1>7, PromisesStand
  <1> QED BY <1>2, <1>3, <1>5, <1>6, <1>8 DEF RedisInv

LEMMA TickKeeps == ASSUME RedisInv, InRedis!Tick PROVE RedisInv'
  <1>1. /\ now' = now + 1
        /\ \A r \in SharedRequests : InRedis!Pending(r) => now < stamp[r] + Skew
        /\ UNCHANGED <<stamp, answer, retry, charged, rows, expiry, faults>>
    BY DEF InRedis!Tick
  <1>2. InRedis!TypeOK'
    BY <1>1 DEF RedisInv, InRedis!TypeOK
  <1>3. RedisTimes'
    BY <1>1, QuotaConstants DEF RedisInv, InRedis!TypeOK, RedisTimes, InRedis!Pending
  <1>4. Remembered'
    <2>1. ASSUME NEW r \in SharedRequests, NEW k \in InRedis!Kinds,
                 charged[r] # 0, stamp[r] + InRedis!Period[k] > now + 1
          PROVE  /\ r \in rows[k][InRedis!Owner(r, k)]
                 /\ expiry[k][InRedis!Owner(r, k)] >= charged[r] + InRedis!Period[k]
      <3>1. stamp[r] + InRedis!Period[k] > now
        BY <2>1, KindsHave DEF RedisInv, InRedis!TypeOK
      <3> QED BY <2>1, <3>1 DEF RedisInv, Remembered
    <2>2. \A k \in InRedis!Kinds, o \in InRedis!Keys : \A m \in rows[k][o] :
            charged[m] # 0 /\ InRedis!Owner(m, k) = o
      BY DEF RedisInv, Remembered
    <2> QED BY <1>1, <2>1, <2>2 DEF Remembered, InRedis!Owner, InRedis!Period, InRedis!Kinds,
                                    InRedis!Keys
  <1>5. InRedis!WithinAllowance'
    <2> SUFFICES ASSUME NEW k \in InRedis!Kinds, NEW o \in InRedis!Keys, NEW t \in 1..(now + 1)
                 PROVE  Cardinality(InRedis!During(k, o, t, InRedis!Period[k] - Skew))
                          <= InRedis!Limit[k]
      BY <1>1, RedisCounts
      DEF InRedis!WithinAllowance, InRedis!During, InRedis!Belongs, InRedis!Owner
    <2>1. CASE t \in 1..now
      BY <2>1, RedisCounts DEF RedisInv, InRedis!WithinAllowance
    <2>2. CASE t \notin 1..now
      <3>1. t > now
        BY <2>2 DEF RedisInv, InRedis!TypeOK
      <3>2. \A m \in SharedRequests : charged[m] # 0 => ~(t <= charged[m])
        BY <3>1 DEF RedisInv, InRedis!TypeOK, RedisTimes
      <3>3. InRedis!During(k, o, t, InRedis!Period[k] - Skew) = {}
        BY <3>2 DEF InRedis!During
      <3>4. Cardinality({}) = 0
        BY FS_EmptySet
      <3>5. InRedis!Limit[k] \in Nat
        BY KindsHave
      <3> QED BY <3>3, <3>4, <3>5
    <2> QED BY <2>1, <2>2
  <1>6. InRedis!AllowedAreCharged'
    BY <1>1 DEF RedisInv, InRedis!AllowedAreCharged
  <1>7. AllCrowded'
    <2> SUFFICES ASSUME NEW k \in InRedis!Kinds, NEW o \in InRedis!Keys PROVE Crowded(k, o)'
      BY DEF AllCrowded
    <2>1. Crowded(k, o)
      BY DEF RedisInv, AllCrowded
    <2> QED BY <1>1, <2>1 DEF Crowded, Younger, InRedis!Owner, InRedis!Period, InRedis!Limit
  <1>8. Blocked' /\ AllFreed'
    BY <1>1, PromisesStand
  <1> QED BY <1>2, <1>3, <1>4, <1>5, <1>6, <1>7, <1>8 DEF RedisInv

LEMMA RedisRests ==
    ASSUME RedisInv, UNCHANGED <<now, stamp, answer, retry, charged, rows, expiry, faults>>
    PROVE  RedisInv'
  <1>1. InRedis!TypeOK'
    BY DEF RedisInv, InRedis!TypeOK
  <1>2. Remembered' /\ InRedis!WithinAllowance' /\ AllCrowded'
    BY <1>1, RowsStay DEF InRedis!TypeOK
  <1>3. Blocked' /\ AllFreed'
    BY PromisesStand
  <1>4. RedisTimes' /\ InRedis!AllowedAreCharged'
    BY DEF RedisInv, RedisTimes, InRedis!Pending, InRedis!AllowedAreCharged
  <1> QED BY <1>1, <1>2, <1>3, <1>4 DEF RedisInv

LEMMA RedisStep == ASSUME RedisInv, InRedis!Next PROVE RedisInv'
  BY ConsumeKeeps, CallKeeps, TickKeeps DEF InRedis!Next

\* In Redis, a rejected request's time is right to the second: until the last one a
\* window is full of requests that no purge may drop, when it is over the rows that
\* survive the purge leave room in every window.
LEMMA RedisWithinASecond == ASSUME RedisInv, InRedis!Next PROVE InRedis!WithinASecond
  <1> SUFFICES ASSUME NEW q \in SharedRequests, NEW r \in SharedRequests,
                      SharedSource[q] = SharedSource[r], answer[q] = "rejected"
               PROVE  /\ charged'[r] # charged[r] =>
                           charged'[r] > stamp[q] + ((retry[q] - 1) * Second)
                      /\ retry'[r] # retry[r] /\ stamp[r] >= ComesBack(q) =>
                           \E m \in SharedRequests : charged[m] >= stamp[q]
    BY DEF InRedis!WithinASecond, ComesBack
  <1>0. /\ now \in Nat /\ stamp \in [SharedRequests -> Nat] /\ retry \in [SharedRequests -> Nat]
        /\ charged \in [SharedRequests -> Nat]
        /\ \A k \in InRedis!Kinds : InRedis!Owner(q, k) = InRedis!Owner(r, k)
    BY DEF RedisInv, InRedis!TypeOK, InRedis!Owner
  <1>0a. /\ ComesBack(q) \in Nat /\ NotBefore(q) \in Int
         /\ NotBefore(q) = stamp[q] + ((retry[q] - 1) * Second) + 1
         /\ ((retry[q] - 1) * Second) \in Int
    <2>1. /\ retry[q] \in Nat /\ stamp[q] \in Nat /\ (retry[q] * Second) \in Nat
          /\ ((retry[q] - 1) * Second) \in Int
      BY <1>0, QuotaConstants, SecondsAre
    <2> QED BY <2>1 DEF ComesBack, NotBefore
  <1>1. ASSUME charged'[r] # charged[r]
        PROVE  charged'[r] > stamp[q] + ((retry[q] - 1) * Second)
    <2>1. PICK p \in SharedRequests : InRedis!Charge(p)
      BY <1>1 DEF InRedis!Next, InRedis!Call, InRedis!Consume, InRedis!RedisFault,
                  InRedis!Tick, InRedis!Refuse
    <2>2. p = r /\ charged'[r] = now
      BY <1>1, <2>1, RowsAfterCharge
    <2>3. PICK k \in InRedis!Kinds : Cardinality(Blocking(q, k)) >= InRedis!Limit[k]
      BY DEF RedisInv, Blocked
    <2> SUFFICES ASSUME now < NotBefore(q) PROVE FALSE
      BY <1>0, <1>0a, <2>2
    <2>4. Blocking(q, k) \subseteq InRedis!Kept(r, k)
      <3> SUFFICES ASSUME NEW m \in Blocking(q, k) PROVE m \in InRedis!Kept(r, k)
        OBVIOUS
      <3>1. /\ m \in SharedRequests /\ charged[m] # 0
            /\ InRedis!Owner(m, k) = InRedis!Owner(r, k)
            /\ stamp[m] + InRedis!Period[k] >= NotBefore(q)
        BY <1>0 DEF Blocking
      <3>2. stamp[m] + InRedis!Period[k] > now
        BY <1>0, <1>0a, <3>1, KindsHave
      <3> QED BY <3>1, <3>2, PurgeKeeps DEF RedisInv
    <2>5. IsFiniteSet(InRedis!Kept(r, k)) /\ Cardinality(InRedis!Kept(r, k)) \in Nat
          /\ (k \in InRedis!Full(r) <=> Cardinality(InRedis!Kept(r, k)) >= InRedis!Limit[k])
      BY KeptIs
    <2>6. Cardinality(Blocking(q, k)) <= Cardinality(InRedis!Kept(r, k))
          /\ Cardinality(Blocking(q, k)) \in Nat
      BY <2>4, <2>5, Smaller
    <2>7. k \in InRedis!Full(r)
      BY <2>3, <2>5, <2>6, KindsHave
    <2> QED BY <2>1, <2>2, <2>7 DEF InRedis!Charge
  <1>2. ASSUME retry'[r] # retry[r], stamp[r] >= ComesBack(q)
        PROVE  \E m \in SharedRequests : charged[m] >= stamp[q]
    <2> SUFFICES ASSUME ~\E m \in SharedRequests : charged[m] >= stamp[q] PROVE FALSE
      OBVIOUS
    <2>1. PICK p \in SharedRequests : \E t :
            InRedis!Refuse(p) /\ retry' = [retry EXCEPT ![p] = t]
      <3>1. PICK p \in SharedRequests : InRedis!Consume(p)
        BY <1>2 DEF InRedis!Next, InRedis!Call, InRedis!RedisFault, InRedis!Tick
      <3>2. PICK t \in InRedis!TimesLeft(p) :
              InRedis!Refuse(p) /\ retry' = [retry EXCEPT ![p] = InRedis!RetryAfter(t)]
        BY <1>2, <3>1 DEF InRedis!Consume
      <3> QED BY <1>0, <3>1, <3>2
    <2>2. p = r
      BY <1>0, <1>2, <2>1
    <2>3. PICK k \in InRedis!Kinds : k \in InRedis!Full(r)
      BY <2>1, <2>2 DEF InRedis!Refuse, InRedis!Full
    <2> DEFINE Y == Younger(k, InRedis!Owner(q, k), ComesBack(q) - InRedis!Period[k])
    <2>4. Cardinality(Y) < InRedis!Limit[k]
      BY DEF RedisInv, AllFreed, Freed
    <2>5. Y \subseteq SharedRequests
      BY OwnerIsKey DEF Younger, RedisInv, InRedis!TypeOK
    <2>6. IsFiniteSet(Y)
      BY <2>5, QuotaConstants, Smaller
    <2>7. InRedis!Kept(r, k) \subseteq Y
      <3> SUFFICES ASSUME NEW m \in InRedis!Kept(r, k)
                   PROVE  m \in rows[k][InRedis!Owner(q, k)]
                          /\ stamp[m] > ComesBack(q) - InRedis!Period[k]
        BY DEF Younger
      <3>1. /\ m \in SharedRequests /\ m \in rows[k][InRedis!Owner(q, k)]
            /\ stamp[m] > stamp[r] - InRedis!Period[k]
        BY <1>0, KeptIs
      <3> QED BY <1>0, <1>0a, <1>2, <3>1, KindsHave
    <2>8. /\ Cardinality(InRedis!Kept(r, k)) <= Cardinality(Y) /\ Cardinality(Y) \in Nat
          /\ Cardinality(InRedis!Kept(r, k)) \in Nat
          /\ Cardinality(InRedis!Kept(r, k)) >= InRedis!Limit[k]
      BY <2>3, <2>6, <2>7, Smaller, KeptIs
    <2> HIDE DEF Y
    <2> QED BY <2>4, <2>8, KindsHave
  <1> QED BY <1>1, <1>2

-----------------------------------------------------------------------------
(* The quota in the process *)

LEMMA ProcessCounts == \A S : InProcess!Cardinality(S) = Cardinality(S)
  BY DEF InProcess!Cardinality, Cardinality

\* Every set of numbers that has a member and a bound has a greatest one.
LEMMA Greatest ==
    ASSUME NEW S \in SUBSET Nat, S # {}, NEW bound \in Nat, \A x \in S : x <= bound
    PROVE  \E n \in S : \A m \in S : n >= m
  <1> DEFINE D == {bound - x : x \in S}
  <1>1. D \in SUBSET Nat /\ D # {}
    <2>1. \A x \in S : bound - x \in Nat
      OBVIOUS
    <2> QED BY <2>1
  <1>2. PICK d \in D : \A e \in D : d <= e
    <2> HIDE DEF D
    <2> QED BY <1>1, Least
  <1>3. PICK n \in S : d = bound - n
    BY <1>2
  <1>4. ASSUME NEW m \in S PROVE n >= m
    <2>1. bound - n <= bound - m /\ n \in Nat /\ m \in Nat
      BY <1>2, <1>3
    <2> QED BY <2>1
  <1> QED BY <1>4

\* cut is what is left of rows when those up to a time are dropped in front.
Cut(list, time, cut) ==
  \E d \in 0..Len(list) :
    /\ Len(cut) = Len(list) - d
    /\ \A i \in 1..Len(cut) : cut[i] = list[d + i]
    /\ \A j \in 1..d : list[j] <= time
    /\ d < Len(list) => list[d + 1] > time

\* From some row on that is younger than a time, there are n or more.
Many(list, n, time) ==
  \E j \in 1..Len(list) : list[j] > time /\ Len(list) - j + 1 >= n

LEMMA PruneCuts ==
    ASSUME NEW list \in Seq(Nat), NEW time \in Int
    PROVE  /\ InProcess!Prune(list, time) \in Seq(Nat)
           /\ Cut(list, time, InProcess!Prune(list, time))
  <1> DEFINE I == {j \in 1..Len(list) : list[j] > time}
             cut == InProcess!Prune(list, time)
  <1>1. Len(list) \in Nat /\ \A j \in 1..Len(list) : list[j] \in Nat
    OBVIOUS
  <1>2. InProcess!SelectInSeq(list, LAMBDA t : t > time)
          = IF I # {} THEN InProcess!Min(I) ELSE 0
    BY DEF InProcess!SelectInSeq
  <1>3. CASE I = {}
    <2>1. cut = <<>>
      BY <1>2, <1>3 DEF InProcess!Prune
    <2>2. \A j \in 1..Len(list) : list[j] <= time
      BY <1>1, <1>3
    <2> QED BY <1>1, <2>1, <2>2 DEF Cut
  <1>4. CASE I # {}
    <2>1. InProcess!Min(I) \in I /\ \A k \in I : InProcess!Min(I) <= k
      <3>1. I \subseteq Nat
        OBVIOUS
      <3>2. \E k \in I : \A m \in I : k <= m
        BY <1>4, <3>1, Least
      <3> HIDE DEF I
      <3> QED BY <3>2 DEF InProcess!Min
    <2>2. PICK first \in I : first = InProcess!Min(I) /\ \A k \in I : first <= k
      BY <2>1
    <2>3. cut = SubSeq(list, first, Len(list)) /\ first \in 1..Len(list)
      <3>1. first \in 1..Len(list) /\ first # 0
        OBVIOUS
      <3> HIDE DEF I
      <3> QED BY <1>2, <1>4, <2>2, <3>1 DEF InProcess!Prune
    <2>4. ASSUME NEW j \in 1..(first - 1) PROVE list[j] <= time
      <3>1. j \in 1..Len(list) /\ j < first
        BY <1>1, <2>3
      <3>2. ~(list[j] > time)
        <4>1. list[j] > time => j \in I
          BY <3>1
        <4>2. j \in I => first <= j
          <5> HIDE DEF I
          <5> QED BY <2>2
        <4>3. first \in Nat /\ j \in Nat
          BY <1>1, <2>3
        <4> QED BY <3>1, <4>1, <4>2, <4>3
      <3> QED BY <1>1, <3>1, <3>2
    <2>5. list[first] > time
      OBVIOUS
    <2> HIDE DEF I, cut
    <2>6. /\ cut \in Seq(Nat) /\ Len(cut) = Len(list) - (first - 1)
          /\ \A i \in 1..Len(cut) : cut[i] = list[(first - 1) + i]
      BY <1>1, <2>3
    <2>7. /\ first - 1 \in 0..Len(list) /\ (first - 1) + 1 = first
      BY <1>1, <2>3
    <2> QED BY <2>4, <2>5, <2>6, <2>7 DEF Cut, cut
  <1> QED BY <1>3, <1>4

LEMMA CutTwice ==
    ASSUME NEW list \in Seq(Nat), NEW t \in Int, NEW u \in Int, t <= u,
           NEW c \in Seq(Nat), NEW e \in Seq(Nat), Cut(list, t, c), Cut(c, u, e)
    PROVE  Cut(list, u, e)
  <1>1. PICK d \in 0..Len(list) :
          /\ Len(c) = Len(list) - d
          /\ \A i \in 1..Len(c) : c[i] = list[d + i]
          /\ \A j \in 1..d : list[j] <= t
    BY DEF Cut
  <1>2. PICK f \in 0..Len(c) :
          /\ Len(e) = Len(c) - f
          /\ \A i \in 1..Len(e) : e[i] = c[f + i]
          /\ \A j \in 1..f : c[j] <= u
          /\ f < Len(c) => c[f + 1] > u
    BY DEF Cut
  <1>0. /\ Len(list) \in Nat /\ Len(c) \in Nat /\ Len(e) \in Nat /\ d \in Nat /\ f \in Nat
        /\ \A i \in 1..Len(list) : list[i] \in Nat
    OBVIOUS
  <1>3. /\ d + f \in 0..Len(list) /\ Len(e) = Len(list) - (d + f)
        /\ \A i \in 1..Len(list) : list[i] \in Nat
    <2>1. d + f <= Len(list) /\ d + f \in Nat /\ Len(e) = Len(list) - (d + f)
      BY <1>0, <1>1, <1>2
    <2> QED BY <1>0, <2>1
  <1>4. ASSUME NEW i \in 1..Len(e) PROVE e[i] = list[(d + f) + i]
    <2>1. f + i \in 1..Len(c) /\ d + (f + i) = (d + f) + i
      BY <1>0, <1>2
    <2>2. e[i] = c[f + i] /\ c[f + i] = list[d + (f + i)]
      BY <1>1, <1>2, <2>1
    <2> QED BY <2>1, <2>2
  <1>5. ASSUME NEW j \in 1..(d + f) PROVE list[j] <= u
    <2>1. CASE j \in 1..d
      BY <1>1, <1>3, <2>1
    <2>2. CASE j \notin 1..d
      <3>1. j - d \in 1..f /\ j - d \in 1..Len(c) /\ d + (j - d) = j
        BY <1>1, <1>2, <2>2
      <3> QED BY <1>1, <1>2, <3>1
    <2> QED BY <2>1, <2>2
  <1>6. ASSUME d + f < Len(list) PROVE list[(d + f) + 1] > u
    <2>1. f < Len(c) /\ f + 1 \in 1..Len(c) /\ d + (f + 1) = (d + f) + 1
      BY <1>0, <1>1, <1>6
    <2>2. c[f + 1] > u /\ c[f + 1] = list[d + (f + 1)]
      BY <1>1, <1>2, <2>1
    <2> QED BY <2>1, <2>2
  <1> QED BY <1>3, <1>4, <1>5, <1>6 DEF Cut

\* The length of what is left says whether there were that many.
LEMMA CutCounts ==
    ASSUME NEW list \in Seq(Nat), NEW t \in Int, NEW c \in Seq(Nat), Cut(list, t, c),
           NEW n \in Nat \ {0}
    PROVE  Len(c) >= n <=> Many(list, n, t)
  <1>1. PICK d \in 0..Len(list) :
          /\ Len(c) = Len(list) - d
          /\ \A j \in 1..d : list[j] <= t
          /\ d < Len(list) => list[d + 1] > t
    BY DEF Cut
  <1>2. \A i \in 1..Len(list) : list[i] \in Nat
    OBVIOUS
  <1>3. ASSUME Len(c) >= n PROVE Many(list, n, t)
    <2>1. d + 1 \in 1..Len(list) /\ list[d + 1] > t /\ Len(list) - (d + 1) + 1 >= n
      BY <1>1, <1>3
    <2> QED BY <2>1 DEF Many
  <1>4. ASSUME NEW j \in 1..Len(list), list[j] > t, Len(list) - j + 1 >= n PROVE Len(c) >= n
    <2>1. j \notin 1..d
      BY <1>1, <1>2, <1>4
    <2> QED BY <1>1, <1>4, <2>1
  <1> QED BY <1>3, <1>4 DEF Many

\* What is dropped never mattered to a later time.
LEMMA CutMany ==
    ASSUME NEW list \in Seq(Nat), NEW t \in Int, NEW c \in Seq(Nat), Cut(list, t, c),
           NEW n \in Nat, NEW u \in Int
    PROVE  /\ Many(c, n, u) => Many(list, n, u)
           /\ t <= u /\ Many(list, n, u) => Many(c, n, u)
  <1>1. PICK d \in 0..Len(list) :
          /\ Len(c) = Len(list) - d
          /\ \A i \in 1..Len(c) : c[i] = list[d + i]
          /\ \A j \in 1..d : list[j] <= t
    BY DEF Cut
  <1>2. \A i \in 1..Len(list) : list[i] \in Nat
    OBVIOUS
  <1>3. ASSUME NEW j \in 1..Len(c), c[j] > u, Len(c) - j + 1 >= n PROVE Many(list, n, u)
    <2>1. /\ Len(list) \in Nat /\ Len(c) \in Nat /\ d \in Nat /\ j \in Nat
          /\ j >= 1 /\ j <= Len(c) /\ Len(c) = Len(list) - d
      BY <1>1
    <2>2. d + j \in 1..Len(list) /\ Len(list) - (d + j) + 1 >= n
      BY <1>3, <2>1
    <2>3. list[d + j] > u
      BY <1>1, <1>3
    <2> QED BY <2>2, <2>3 DEF Many
  <1>4. ASSUME NEW j \in 1..Len(list), list[j] > u, Len(list) - j + 1 >= n, t <= u
        PROVE  Many(c, n, u)
    <2>1. j \notin 1..d
      BY <1>1, <1>2, <1>4
    <2>2. j - d \in 1..Len(c) /\ d + (j - d) = j /\ Len(c) - (j - d) + 1 >= n
      BY <1>1, <1>4, <2>1
    <2>3. c[j - d] > u
      BY <1>1, <1>4, <2>2
    <2> QED BY <2>2, <2>3 DEF Many
  <1> QED BY <1>3, <1>4 DEF Many

LEMMA AppendMany ==
    ASSUME NEW list \in Seq(Nat), NEW s \in Nat, NEW n \in Nat, NEW t \in Int
    PROVE  /\ Many(list, n, t) => Many(Append(list, s), n, t)
           /\ s > t /\ (n = 0 \/ Many(list, n, t)) => Many(Append(list, s), n + 1, t)
           /\ n # 0 /\ Many(Append(list, s), n + 1, t) => Many(list, n, t)
  <1>1. /\ Len(Append(list, s)) = Len(list) + 1 /\ Len(list) \in Nat
        /\ \A j \in 1..Len(list) : Append(list, s)[j] = list[j]
        /\ Append(list, s)[Len(list) + 1] = s
    OBVIOUS
  <1> DEFINE more == Append(list, s)
  <1> HIDE DEF more
  <1>2. ASSUME NEW j \in 1..Len(list), list[j] > t, Len(list) - j + 1 >= n
        PROVE  Many(more, n, t) /\ Many(more, n + 1, t)
    <2>1. /\ j \in 1..Len(more) /\ more[j] > t
          /\ Len(more) - j + 1 >= n /\ Len(more) - j + 1 >= n + 1
      BY <1>1, <1>2 DEF more
    <2> QED BY <2>1 DEF Many
  <1>3. ASSUME s > t, n = 0 PROVE Many(more, n + 1, t)
    <2>1. /\ Len(list) + 1 \in 1..Len(more) /\ more[Len(list) + 1] > t
          /\ Len(more) - (Len(list) + 1) + 1 >= n + 1
      BY <1>1, <1>3 DEF more
    <2> QED BY <2>1 DEF Many
  <1>4. ASSUME NEW j \in 1..Len(more), more[j] > t, Len(more) - j + 1 >= n + 1, n # 0
        PROVE  Many(list, n, t)
    <2>1. j \in 1..Len(list) /\ list[j] > t /\ Len(list) - j + 1 >= n
      BY <1>1, <1>4 DEF more
    <2> QED BY <2>1 DEF Many
  <1> QED BY <1>2, <1>3, <1>4 DEF Many, more

LEMMA ManyLess ==
    ASSUME NEW list \in Seq(Nat), NEW n \in Nat, NEW m \in Nat, m <= n,
           NEW t \in Int, NEW u \in Int, u <= t, Many(list, n, t)
    PROVE  Many(list, m, u)
  <1>1. PICK j \in 1..Len(list) : list[j] > t /\ Len(list) - j + 1 >= n
    BY DEF Many
  <1>2. list[j] \in Nat
    OBVIOUS
  <1>3. list[j] > u /\ Len(list) - j + 1 >= m
    BY <1>1, <1>2
  <1> QED BY <1>3 DEF Many

LEMMA ManyLast ==
    ASSUME NEW list \in Seq(Nat), NEW n, NEW t, Many(list, n, t)
    PROVE  list # <<>> /\ Len(list) \in 1..Len(list) /\ list[Len(list)] \in Nat
  <1>1. PICK j \in 1..Len(list) : TRUE
    BY DEF Many
  <1>2. Len(list) \in Nat /\ Len(list) \in 1..Len(list)
    BY <1>1
  <1> QED BY <1>1, <1>2

\* The list of the rows that count for a window of a request.
List(r, k) == IF k = "site" THEN global ELSE byIP[LocalSource[r]]

\* Whether a request counts in that window of another one.
Counts(m, r, k) == k = "site" \/ LocalSource[m] = LocalSource[r]

\* What Consume leaves of that list to count.
Left(r, k) ==
  IF k = "site" THEN InProcess!Site(r)
  ELSE IF k = "day" THEN InProcess!Own(r)
  ELSE InProcess!Prune(InProcess!Own(r), stamp[r] - InRedis!Period[k])

BlockOf(r, k) ==
  [period |-> InRedis!Period[k], limit |-> InRedis!Limit[k], rows |-> Left(r, k)]

\* Consume gets the mutex at most Skew after its request read the clock.
ProcessTimes ==
  /\ now # 0
  /\ \A r \in LocalRequests :
       /\ stamp[r] <= now
       /\ stamp[r] = 0 => charged[r] = 0 /\ retry[r] = 0
       /\ charged[r] # 0 =>
            stamp[r] <= charged[r] /\ charged[r] <= now /\ charged[r] <= stamp[r] + Skew
       /\ InProcess!Pending(r) => now <= stamp[r] + Skew

Later(r, k, time) ==
  {m \in LocalRequests : charged[m] # 0 /\ Counts(m, r, k) /\ stamp[m] > time}

\* The list holds as many rows younger than a time, from some row on, as there
\* are charged requests.
InList ==
  \A r \in LocalRequests, k \in InRedis!Kinds, time \in Int :
    time >= now - Day =>
      \/ Cardinality(Later(r, k, time)) = 0
      \/ Many(List(r, k), Cardinality(Later(r, k, time)), time)

\* No row is younger than the last charge.
FromCharged ==
  \A r \in LocalRequests, k \in InRedis!Kinds : \A j \in 1..Len(List(r, k)) :
    \E m \in LocalRequests : charged[m] >= List(r, k)[j]

\* When the last row of a list was written, its window was not more than full.
InTurn(list, k) ==
  list # <<>> => ~Many(list, InRedis!Limit[k] + 1, list[Len(list)] - InRedis!Period[k])

AllInTurn == \A r \in LocalRequests, k \in InRedis!Kinds : InTurn(List(r, k), k)

\* Until a rejected request may come back one of its windows has no place.
ProcessBlocked ==
  \A q \in LocalRequests : retry[q] # 0 =>
    \/ now >= NotBefore(q)
    \/ \E k \in InRedis!Kinds :
         Many(List(q, k), InRedis!Limit[k], NotBefore(q) - InRedis!Period[k] - 1)

\* When it is over every window has one, unless somebody was charged meanwhile.
ProcessFreed ==
  \A q \in LocalRequests : retry[q] # 0 =>
    \/ \E m \in LocalRequests : charged[m] >= stamp[q]
    \/ \A k \in InRedis!Kinds :
         ~Many(List(q, k), InRedis!Limit[k], ComesBack(q) - InRedis!Period[k])

ProcessInv ==
  /\ InProcess!TypeOK /\ ProcessTimes /\ InList /\ FromCharged
  /\ InProcess!WithinAllowance
  /\ AllInTurn /\ ProcessBlocked /\ ProcessFreed

LEMMA KindsWithinDay ==
    ASSUME NEW k \in InRedis!Kinds
    PROVE  /\ InRedis!Period[k] \in Nat /\ InRedis!Period[k] <= Day
           /\ Day \in Nat /\ Skew \in Nat
           /\ InRedis!Limit[k] \in Nat \ {0}
  <1>1. InRedis!Limit[k] \in Nat \ {0} /\ InRedis!Period[k] \in Nat
    BY KindsHave
  <1> QED BY <1>1, QuotaConstants DEF InRedis!Kinds, InRedis!Period

LEMMA ListIs ==
    ASSUME InProcess!TypeOK, NEW r \in LocalRequests, NEW k
    PROVE  /\ List(r, k) \in Seq(Nat) /\ stamp[r] \in Nat /\ LocalSource[r] \in Sources
           /\ Len(List(r, k)) \in Nat
           /\ \A j \in 1..Len(List(r, k)) : List(r, k)[j] \in Nat
  BY QuotaConstants DEF InProcess!TypeOK, List

LEMMA CutoffsAre ==
    ASSUME InProcess!TypeOK, NEW r \in LocalRequests, NEW k \in InRedis!Kinds
    PROVE  /\ stamp[r] - Day \in Int /\ stamp[r] - InRedis!Period[k] \in Int
           /\ stamp[r] - Day <= stamp[r] - InRedis!Period[k]
  <1>1. stamp[r] \in Nat
    BY DEF InProcess!TypeOK
  <1>2. InRedis!Period[k] \in Nat /\ InRedis!Period[k] <= Day /\ Day \in Nat
    BY KindsWithinDay
  <1> QED BY <1>1, <1>2

LEMMA LeftCuts ==
    ASSUME InProcess!TypeOK, NEW r \in LocalRequests, NEW k \in InRedis!Kinds
    PROVE  /\ Left(r, k) \in Seq(Nat)
           /\ Cut(List(r, k), stamp[r] - InRedis!Period[k], Left(r, k))
  <1>1. /\ List(r, k) \in Seq(Nat) /\ stamp[r] \in Nat /\ stamp[r] - Day \in Int
        /\ stamp[r] - InRedis!Period[k] \in Int
        /\ stamp[r] - Day <= stamp[r] - InRedis!Period[k]
    BY ListIs, CutoffsAre
  <1>2. InRedis!Period["site"] = Day /\ InRedis!Period["day"] = Day
    BY DEF InRedis!Period
  <1>3. CASE k = "site"
    <2>1. List(r, k) = global /\ Left(r, k) = InProcess!Prune(global, stamp[r] - Day)
      BY <1>3 DEF List, Left, InProcess!Site
    <2> QED BY <1>1, <1>2, <1>3, <2>1, PruneCuts
  <1>4. CASE k # "site"
    <2> DEFINE own == InProcess!Own(r)
    <2>1. List(r, k) = byIP[LocalSource[r]] /\ own = InProcess!Prune(List(r, k), stamp[r] - Day)
      BY <1>4 DEF List, InProcess!Own
    <2>2. own \in Seq(Nat) /\ Cut(List(r, k), stamp[r] - Day, own)
      BY <1>1, <2>1, PruneCuts
    <2>3. CASE k = "day"
      <3>1. Left(r, k) = own
        BY <2>3 DEF Left
      <3> QED BY <1>2, <2>2, <2>3, <3>1
    <2>4. CASE k # "day"
      <3> DEFINE rest == InProcess!Prune(own, stamp[r] - InRedis!Period[k])
      <3>1. Left(r, k) = rest
        BY <1>4, <2>4 DEF Left
      <3>2. rest \in Seq(Nat) /\ Cut(own, stamp[r] - InRedis!Period[k], rest)
        BY <1>1, <2>2, PruneCuts
      <3> HIDE DEF rest, own
      <3>3. Cut(List(r, k), stamp[r] - InRedis!Period[k], rest)
        BY <1>1, <2>2, <3>2, CutTwice
      <3> QED BY <3>1, <3>2, <3>3
    <2> QED BY <2>3, <2>4
  <1> QED BY <1>3, <1>4

LEMMA BlocksAre ==
    ASSUME NEW r PROVE InProcess!Blocks(r) = {BlockOf(r, k) : k \in InRedis!Kinds}
  BY DEF InProcess!Blocks, BlockOf, Left, InRedis!Kinds, InRedis!Period, InRedis!Limit

\* A window is full when its list has that many young rows.
LEMMA FullIs ==
    ASSUME InProcess!TypeOK, NEW r \in LocalRequests
    PROVE  /\ InProcess!Full(r) =
                {BlockOf(r, k) : k \in {l \in InRedis!Kinds : Len(Left(r, l)) >= InRedis!Limit[l]}}
           /\ \A k \in InRedis!Kinds :
                /\ Len(Left(r, k)) >= InRedis!Limit[k] <=>
                     Many(List(r, k), InRedis!Limit[k], stamp[r] - InRedis!Period[k])
                /\ Many(List(r, k), InRedis!Limit[k], stamp[r] - InRedis!Period[k]) =>
                     InProcess!Full(r) # {}
  <1>1. InProcess!Full(r) =
          {BlockOf(r, k) : k \in {l \in InRedis!Kinds : Len(Left(r, l)) >= InRedis!Limit[l]}}
    BY BlocksAre DEF InProcess!Full, BlockOf
  <1>2. ASSUME NEW k \in InRedis!Kinds
        PROVE  Len(Left(r, k)) >= InRedis!Limit[k] <=>
                 Many(List(r, k), InRedis!Limit[k], stamp[r] - InRedis!Period[k])
    <2>1. /\ List(r, k) \in Seq(Nat) /\ stamp[r] - InRedis!Period[k] \in Int
          /\ InRedis!Limit[k] \in Nat \ {0}
      BY ListIs, CutoffsAre, KindsWithinDay
    <2>2. Left(r, k) \in Seq(Nat) /\ Cut(List(r, k), stamp[r] - InRedis!Period[k], Left(r, k))
      BY LeftCuts
    <2> QED BY <2>1, <2>2, CutCounts
  <1> QED BY <1>1, <1>2

\* What Consume does to the lists.
LEMMA ListSteps ==
    ASSUME InProcess!TypeOK, NEW p \in LocalRequests, InProcess!Consume(p),
           NEW r \in LocalRequests, NEW k \in InRedis!Kinds
    PROVE  IF Counts(p, r, k)
           THEN \E cut \in Seq(Nat) :
                  /\ Cut(List(r, k), stamp[p] - Day, cut)
                  /\ List(r, k)' = IF InProcess!Full(p) = {} THEN Append(cut, stamp[p]) ELSE cut
           ELSE List(r, k)' = List(r, k)
  <1>1. /\ global' = IF InProcess!Full(p) = {} THEN Append(InProcess!Site(p), stamp[p])
                     ELSE InProcess!Site(p)
        /\ byIP' = [byIP EXCEPT ![LocalSource[p]] =
                      IF InProcess!Full(p) = {} THEN Append(InProcess!Own(p), stamp[p])
                      ELSE InProcess!Own(p)]
    BY DEF InProcess!Consume
  <1>2. /\ stamp[p] - Day \in Int /\ List(r, k) \in Seq(Nat)
        /\ LocalSource[p] \in Sources /\ LocalSource[r] \in Sources
        /\ DOMAIN byIP = Sources
    <2>1. stamp[p] - Day \in Int
      BY CutoffsAre
    <2>2. List(r, k) \in Seq(Nat) /\ LocalSource[p] \in Sources /\ LocalSource[r] \in Sources
      BY ListIs
    <2>3. DOMAIN byIP = Sources
      BY DEF InProcess!TypeOK
    <2> QED BY <2>1, <2>2, <2>3
  <1>3. CASE k = "site"
    <2>1. List(r, k) = global /\ List(r, k)' = global' /\ Counts(p, r, k)
      BY <1>3 DEF List, Counts
    <2>2. /\ InProcess!Site(p) \in Seq(Nat)
          /\ Cut(List(r, k), stamp[p] - Day, InProcess!Site(p))
      BY <1>2, <2>1, PruneCuts DEF InProcess!Site
    <2> QED BY <1>1, <2>1, <2>2
  <1>4. CASE k # "site" /\ LocalSource[p] = LocalSource[r]
    <2>1. /\ List(r, k) = byIP[LocalSource[p]] /\ List(r, k)' = byIP'[LocalSource[p]]
          /\ Counts(p, r, k)
      BY <1>4 DEF List, Counts
    <2>2. /\ InProcess!Own(p) \in Seq(Nat)
          /\ Cut(List(r, k), stamp[p] - Day, InProcess!Own(p))
      BY <1>2, <2>1, PruneCuts DEF InProcess!Own
    <2>3. byIP'[LocalSource[p]] =
            IF InProcess!Full(p) = {} THEN Append(InProcess!Own(p), stamp[p])
            ELSE InProcess!Own(p)
      BY <1>1, <1>2
    <2> QED BY <2>1, <2>2, <2>3
  <1>5. CASE k # "site" /\ LocalSource[p] # LocalSource[r]
    BY <1>1, <1>2, <1>5 DEF List, Counts
  <1> QED BY <1>3, <1>4, <1>5

\* The retry time of a rejection is that of one of its full windows, and no less
\* than that of any other.
LEMMA RetryIs ==
    ASSUME ProcessInv, NEW p \in LocalRequests, InProcess!Full(p) # {}
    PROVE  /\ InProcess!RetryAfter(p) \in Nat \ {0}
           /\ \E k \in InRedis!Kinds :
                /\ Len(Left(p, k)) >= InRedis!Limit[k]
                /\ InProcess!RetryAfter(p) = InProcess!RetryOf(p, BlockOf(p, k))
           /\ \A k \in InRedis!Kinds : Len(Left(p, k)) >= InRedis!Limit[k] =>
                /\ InProcess!RetryAfter(p) >= InProcess!RetryOf(p, BlockOf(p, k))
  <1> DEFINE F == {l \in InRedis!Kinds : Len(Left(p, l)) >= InRedis!Limit[l]}
             R(k) == InProcess!RetryOf(p, BlockOf(p, k))
             S == {R(k) : k \in F}
  <1>1. InProcess!TypeOK
    BY DEF ProcessInv
  <1>2. InProcess!Full(p) = {BlockOf(p, k) : k \in F}
    BY <1>1, FullIs
  <1>3. {InProcess!RetryOf(p, b) : b \in InProcess!Full(p)} = S
    BY <1>2
  <1>4. now \in Nat /\ stamp[p] \in Nat /\ Day \in Nat
    BY <1>1, QuotaConstants DEF InProcess!TypeOK
  <1>5. ASSUME NEW k \in F
        PROVE  R(k) \in Nat \ {0} /\ R(k) <= now + Day + 1
    <2> DEFINE rest == Left(p, k)
               at == Len(rest) - InRedis!Limit[k] + 1
    <2>1. /\ rest \in Seq(Nat) /\ InRedis!Limit[k] \in Nat \ {0} /\ InRedis!Period[k] \in Nat
          /\ InRedis!Period[k] <= Day /\ Len(rest) >= InRedis!Limit[k]
      BY <1>1, LeftCuts, KindsWithinDay
    <2>2. R(k) = InProcess!AtLeastOne(
                   InProcess!Seconds(rest[at] + InRedis!Period[k] - stamp[p]))
      BY DEF InProcess!RetryOf, InProcess!Freeing, BlockOf
    <2>3. at \in 1..Len(rest)
      <3> HIDE DEF rest
      <3> QED BY <2>1
    <2>4. rest[at] \in Nat /\ rest[at] <= now
      <3>1. rest[at] \in Nat
        BY <2>1, <2>3
      <3>2. PICK d \in 0..Len(List(p, k)) :
              /\ Len(rest) = Len(List(p, k)) - d
              /\ \A i \in 1..Len(rest) : rest[i] = List(p, k)[d + i]
        BY <1>1, LeftCuts DEF Cut
      <3>3. rest[at] = List(p, k)[d + at] /\ d + at \in 1..Len(List(p, k))
        <4>1. Len(List(p, k)) \in Nat
          BY <1>1, ListIs
        <4> HIDE DEF rest, at
        <4> QED BY <2>3, <3>2, <4>1
      <3>4. PICK m \in LocalRequests : charged[m] >= List(p, k)[d + at]
        BY <3>3 DEF ProcessInv, FromCharged
      <3>5. charged[m] \in Nat /\ charged[m] <= now
        BY <1>1 DEF InProcess!TypeOK, ProcessInv, ProcessTimes
      <3> HIDE DEF rest, at
      <3> QED BY <1>4, <3>1, <3>3, <3>4, <3>5
    <2> HIDE DEF rest, at, R
    <2> DEFINE wait == rest[at] + InRedis!Period[k] - stamp[p]
    <2>5. wait \in Int /\ wait <= now + Day
      BY <1>4, <2>1, <2>4
    <2>6. R(k) = InProcess!AtLeastOne(InProcess!Seconds(wait))
      BY <2>2
    <2> HIDE DEF wait
    <2>7. R(k) \in Nat \ {0} /\ R(k) <= IF wait < 1 THEN 1 ELSE wait
      BY <2>5, <2>6, AtLeastASecond
    <2> QED BY <1>4, <2>5, <2>7
  <1>6. S \in SUBSET Nat /\ S # {} /\ \A x \in S : x <= now + Day + 1
    BY <1>2, <1>5
  <1>7. \E n \in S : \A m \in S : n >= m
    <2> HIDE DEF S
    <2>1. now + Day + 1 \in Nat
      BY <1>4
    <2> QED BY <1>6, <2>1, Greatest
  <1>8. /\ InProcess!RetryAfter(p) = InProcess!Max(S)
        /\ InProcess!Max(S) \in S /\ \A x \in S : InProcess!Max(S) >= x
    <2> HIDE DEF S
    <2> QED BY <1>3, <1>7 DEF InProcess!RetryAfter, InProcess!Max
  <1>9. PICK k \in F : InProcess!RetryAfter(p) = R(k)
    BY <1>8
  <1> QED BY <1>5, <1>8, <1>9

\* Consume leaves no trace of the rows that no window counts any more.
LEMMA ListsMany ==
    ASSUME ProcessInv, NEW p \in LocalRequests, InProcess!Consume(p),
           NEW r \in LocalRequests, NEW k \in InRedis!Kinds, NEW n \in Nat, NEW time \in Int
    PROVE  /\ stamp[p] - Day <= time /\ Many(List(r, k), n, time) => Many(List(r, k)', n, time)
           /\ InProcess!Full(p) # {} /\ Many(List(r, k)', n, time) => Many(List(r, k), n, time)
           /\ /\ InProcess!Full(p) = {} /\ Counts(p, r, k)
              /\ stamp[p] > time /\ stamp[p] - Day <= time
              /\ n = 0 \/ Many(List(r, k), n, time)
              => Many(List(r, k)', n + 1, time)
  <1>1. InProcess!TypeOK
    BY DEF ProcessInv
  <1>2. List(r, k) \in Seq(Nat) /\ stamp[p] \in Nat /\ stamp[p] - Day \in Int
    BY <1>1, ListIs, CutoffsAre
  <1>3. CASE ~Counts(p, r, k)
    <2>1. List(r, k)' = List(r, k)
      BY <1>1, <1>3, ListSteps
    <2> QED BY <1>3, <2>1
  <1>4. CASE Counts(p, r, k)
    <2>1. PICK cut \in Seq(Nat) :
            /\ Cut(List(r, k), stamp[p] - Day, cut)
            /\ List(r, k)' = IF InProcess!Full(p) = {} THEN Append(cut, stamp[p]) ELSE cut
      BY <1>1, <1>4, ListSteps
    <2>2. /\ Many(cut, n, time) => Many(List(r, k), n, time)
          /\ stamp[p] - Day <= time /\ Many(List(r, k), n, time) => Many(cut, n, time)
      BY <1>2, <2>1, CutMany
    <2>3. /\ Many(cut, n, time) => Many(Append(cut, stamp[p]), n, time)
          /\ stamp[p] > time /\ (n = 0 \/ Many(cut, n, time)) =>
               Many(Append(cut, stamp[p]), n + 1, time)
      BY <1>2, AppendMany
    <2> QED BY <2>1, <2>2, <2>3
  <1> QED BY <1>3, <1>4

\* What Consume changes of a request's record.
LEMMA ProcessCharges ==
    ASSUME ProcessInv, NEW p \in LocalRequests, InProcess!Consume(p)
    PROVE  /\ UNCHANGED <<now, stamp>> /\ stamp[p] # 0 /\ charged[p] = 0 /\ retry[p] = 0
           /\ charged' = IF InProcess!Full(p) = {} THEN [charged EXCEPT ![p] = now] ELSE charged
           /\ retry' = IF InProcess!Full(p) = {} THEN retry
                       ELSE [retry EXCEPT ![p] = InProcess!RetryAfter(p)]
           /\ charged' \in [LocalRequests -> Nat] /\ retry' \in [LocalRequests -> Nat]
           /\ \A m \in LocalRequests \ {p} : charged'[m] = charged[m]
           /\ \A m \in LocalRequests \ {p} : retry'[m] = retry[m]
           /\ charged'[p] = IF InProcess!Full(p) = {} THEN now ELSE 0
           /\ retry'[p] = IF InProcess!Full(p) = {} THEN 0 ELSE InProcess!RetryAfter(p)
           /\ now \in Nat \ {0}
  <1>1. /\ charged \in [LocalRequests -> Nat] /\ retry \in [LocalRequests -> Nat]
        /\ now \in Nat \ {0}
    BY DEF ProcessInv, InProcess!TypeOK, ProcessTimes
  <1>2. InProcess!Full(p) # {} => InProcess!RetryAfter(p) \in Nat
    BY RetryIs
  <1>3. /\ UNCHANGED <<now, stamp>> /\ stamp[p] # 0 /\ charged[p] = 0 /\ retry[p] = 0
        /\ charged' = IF InProcess!Full(p) = {} THEN [charged EXCEPT ![p] = now] ELSE charged
        /\ retry' = IF InProcess!Full(p) = {} THEN retry
                    ELSE [retry EXCEPT ![p] = InProcess!RetryAfter(p)]
    BY DEF InProcess!Consume, InProcess!Pending
  <1> QED BY <1>1, <1>2, <1>3

LEMMA ProcessTypes ==
    ASSUME ProcessInv, NEW p \in LocalRequests, InProcess!Consume(p)
    PROVE  InProcess!TypeOK' /\ ProcessTimes'
  <1>1. InProcess!TypeOK
    BY DEF ProcessInv
  <1>2. global' \in Seq(Nat)
    <2>1. PICK cut \in Seq(Nat) :
            List(p, "site")' = IF InProcess!Full(p) = {} THEN Append(cut, stamp[p]) ELSE cut
      BY <1>1, ListSteps DEF Counts, InRedis!Kinds
    <2>2. stamp[p] \in Nat
      BY <1>1, ListIs
    <2> QED BY <2>1, <2>2 DEF List
  <1>3. byIP' \in [Sources -> Seq(Nat)]
    <2>1. PICK cut \in Seq(Nat) :
            List(p, "day")' = IF InProcess!Full(p) = {} THEN Append(cut, stamp[p]) ELSE cut
      BY <1>1, ListSteps DEF Counts, InRedis!Kinds
    <2>2. stamp[p] \in Nat /\ LocalSource[p] \in Sources /\ byIP \in [Sources -> Seq(Nat)]
      BY <1>1, ListIs DEF InProcess!TypeOK
    <2>3. List(p, "day")' = byIP'[LocalSource[p]] /\ List(p, "day")' \in Seq(Nat)
      <3>1. List(p, "day")' = byIP'[LocalSource[p]]
        BY DEF List
      <3>2. Append(cut, stamp[p]) \in Seq(Nat)
        BY <2>2
      <3> QED BY <2>1, <3>1, <3>2
    <2>4. \E list : byIP' = [byIP EXCEPT ![LocalSource[p]] = list]
      BY DEF InProcess!Consume
    <2> QED BY <2>2, <2>3, <2>4
  <1>4. InProcess!TypeOK'
    BY <1>1, <1>2, <1>3, ProcessCharges DEF InProcess!TypeOK
  <1>5. ProcessTimes'
    <2>1. /\ now # 0 /\ stamp[p] <= now /\ stamp[p] # 0
          /\ now <= stamp[p] + Skew
      BY DEF ProcessInv, ProcessTimes, InProcess!Consume, InProcess!Pending
    <2>2. ASSUME NEW m \in LocalRequests, m # p PROVE InProcess!Pending(m)' => InProcess!Pending(m)
      BY <2>2, ProcessCharges DEF InProcess!Pending
    <2>3. ~InProcess!Pending(p)'
      BY ProcessCharges, RetryIs DEF InProcess!Pending
    <2>4. ASSUME NEW m \in LocalRequests
          PROVE  /\ stamp'[m] <= now'
                 /\ stamp'[m] = 0 => charged'[m] = 0 /\ retry'[m] = 0
                 /\ charged'[m] # 0 => /\ stamp'[m] <= charged'[m] /\ charged'[m] <= now'
                                       /\ charged'[m] <= stamp'[m] + Skew
                 /\ InProcess!Pending(m)' => now' <= stamp'[m] + Skew
      <3>1. CASE m = p
        BY <2>1, <2>3, <3>1, ProcessCharges
      <3>2. CASE m # p
        BY <2>2, <3>2, ProcessCharges DEF ProcessInv, ProcessTimes
      <3> QED BY <3>1, <3>2
    <2> QED BY <2>1, <2>4, ProcessCharges DEF ProcessTimes
  <1> QED BY <1>4, <1>5

\* Whoever is charged is one of the young rows of the list from now on.
LEMMA InListStays ==
    ASSUME ProcessInv, NEW p \in LocalRequests, InProcess!Consume(p)
    PROVE  InList'
  <1> SUFFICES ASSUME NEW r \in LocalRequests, NEW k \in InRedis!Kinds, NEW time \in Int,
                      time >= now - Day
               PROVE  \/ Cardinality(Later(r, k, time)') = 0
                      \/ Many(List(r, k)', Cardinality(Later(r, k, time)'), time)
    BY ProcessCharges DEF InList, InRedis!Kinds
  <1> DEFINE L == Later(r, k, time)
  <1>1. /\ L \subseteq LocalRequests /\ IsFiniteSet(LocalRequests)
        /\ stamp[p] \in Nat /\ now \in Nat /\ Day \in Nat /\ stamp[p] <= now
    BY QuotaConstants DEF Later, ProcessInv, InProcess!TypeOK, ProcessTimes
  <1>2. IsFiniteSet(L) /\ Cardinality(L) \in Nat
    BY <1>1, Smaller
  <1>3. \/ Cardinality(L) = 0
        \/ Many(List(r, k), Cardinality(L), time)
    BY DEF ProcessInv, InList
  <1>4. stamp[p] - Day <= time
    BY <1>1
  <1>5. p \notin L /\ charged[p] = 0
    BY ProcessCharges DEF Later
  <1>6. L' = {m \in LocalRequests : charged'[m] # 0 /\ Counts(m, r, k) /\ stamp[m] > time}
    BY ProcessCharges DEF Later, Counts
  <1>7. CASE InProcess!Full(p) = {} /\ Counts(p, r, k) /\ stamp[p] > time
    <2>1. L' = L \cup {p}
      BY <1>6, <1>7, ProcessCharges DEF Later
    <2>2. Cardinality(L') = Cardinality(L) + 1
      <3> HIDE DEF L
      <3> QED BY <1>2, <1>5, <2>1, FS_AddElement
    <2> HIDE DEF L
    <2>3. Many(List(r, k)', Cardinality(L) + 1, time)
      BY <1>2, <1>3, <1>4, <1>7, ListsMany
    <2> QED BY <2>2, <2>3 DEF L
  <1>8. CASE ~(InProcess!Full(p) = {} /\ Counts(p, r, k) /\ stamp[p] > time)
    <2>1. L' = L
      BY <1>5, <1>6, <1>8, ProcessCharges DEF Later
    <2> HIDE DEF L
    <2>2. Many(List(r, k), Cardinality(L), time) => Many(List(r, k)', Cardinality(L), time)
      BY <1>2, <1>4, ListsMany
    <2> QED BY <1>3, <2>1, <2>2 DEF L
  <1> QED BY <1>7, <1>8

LEMMA FromChargedStays ==
    ASSUME ProcessInv, NEW p \in LocalRequests, InProcess!Consume(p)
    PROVE  FromCharged'
  <1> SUFFICES ASSUME NEW r \in LocalRequests, NEW k \in InRedis!Kinds,
                      NEW j \in 1..Len(List(r, k)')
               PROVE  \E m \in LocalRequests : charged'[m] >= List(r, k)'[j]
    BY DEF FromCharged, InRedis!Kinds
  <1>1. InProcess!TypeOK /\ charged \in [LocalRequests -> Nat]
    BY DEF ProcessInv, InProcess!TypeOK
  <1>2. \A m \in LocalRequests : charged'[m] >= charged[m]
    BY <1>1, ProcessCharges
  <1>3. ASSUME NEW i \in 1..Len(List(r, k)), List(r, k)'[j] = List(r, k)[i]
        PROVE  \E m \in LocalRequests : charged'[m] >= List(r, k)'[j]
    <2>1. PICK m \in LocalRequests : charged[m] >= List(r, k)[i]
      BY DEF ProcessInv, FromCharged
    <2>2. charged[m] \in Nat /\ charged'[m] \in Nat /\ List(r, k)[i] \in Nat
      BY <1>1, ListIs, ProcessCharges
    <2> QED BY <1>2, <1>3, <2>1, <2>2
  <1>4. CASE ~Counts(p, r, k)
    <2>1. List(r, k)' = List(r, k)
      BY <1>1, <1>4, ListSteps
    <2> QED BY <1>3, <2>1
  <1>5. CASE Counts(p, r, k)
    <2>1. PICK cut \in Seq(Nat) :
            /\ Cut(List(r, k), stamp[p] - Day, cut)
            /\ List(r, k)' = IF InProcess!Full(p) = {} THEN Append(cut, stamp[p]) ELSE cut
      BY <1>1, <1>5, ListSteps
    <2>2. PICK d \in 0..Len(List(r, k)) :
            /\ Len(cut) = Len(List(r, k)) - d
            /\ \A i \in 1..Len(cut) : cut[i] = List(r, k)[d + i]
      BY <2>1 DEF Cut
    <2>3. Len(List(r, k)) \in Nat /\ stamp[p] \in Nat
      BY <1>1, ListIs
    <2>4. ASSUME NEW i \in 1..Len(cut)
          PROVE  d + i \in 1..Len(List(r, k)) /\ cut[i] = List(r, k)[d + i]
      BY <2>2, <2>3
    <2>5. CASE InProcess!Full(p) # {}
      BY <1>3, <2>1, <2>4, <2>5
    <2>6. CASE InProcess!Full(p) = {}
      <3>1. /\ Len(Append(cut, stamp[p])) = Len(cut) + 1
            /\ \A i \in 1..Len(cut) : Append(cut, stamp[p])[i] = cut[i]
            /\ Append(cut, stamp[p])[Len(cut) + 1] = stamp[p]
        BY <2>3
      <3>2. CASE j \in 1..Len(cut)
        BY <1>3, <2>1, <2>4, <2>6, <3>1, <3>2
      <3>3. CASE j \notin 1..Len(cut)
        <4>1. j = Len(cut) + 1
          BY <2>1, <2>6, <3>1, <3>3
        <4>2. List(r, k)'[j] = stamp[p] /\ charged'[p] = now
          BY <2>1, <2>6, <3>1, <4>1, ProcessCharges
        <4>3. stamp[p] <= now /\ now \in Nat
          BY DEF ProcessInv, ProcessTimes, InProcess!TypeOK
        <4> QED BY <2>3, <4>2, <4>3
      <3> QED BY <3>2, <3>3
    <2> QED BY <2>5, <2>6
  <1> QED BY <1>4, <1>5

\* A request that is charged was not one too many.
LEMMA InTurnStays ==
    ASSUME ProcessInv, NEW p \in LocalRequests, InProcess!Consume(p)
    PROVE  AllInTurn'
  <1> SUFFICES ASSUME NEW r \in LocalRequests, NEW k \in InRedis!Kinds
               PROVE  InTurn(List(r, k)', k)
    BY DEF AllInTurn, InTurn, InRedis!Kinds, InRedis!Period, InRedis!Limit
  <1>1. InProcess!TypeOK /\ InTurn(List(r, k), k)
    BY DEF ProcessInv, AllInTurn
  <1>2. /\ List(r, k) \in Seq(Nat) /\ stamp[p] \in Nat /\ stamp[p] - Day \in Int
        /\ InRedis!Limit[k] \in Nat \ {0} /\ InRedis!Period[k] \in Nat
    BY <1>1, ListIs, CutoffsAre, KindsWithinDay
  <1>3. CASE ~Counts(p, r, k)
    <2>1. List(r, k)' = List(r, k)
      BY <1>1, <1>3, ListSteps
    <2> QED BY <1>1, <2>1
  <1>4. CASE Counts(p, r, k)
    <2>1. PICK cut \in Seq(Nat) :
            /\ Cut(List(r, k), stamp[p] - Day, cut)
            /\ List(r, k)' = IF InProcess!Full(p) = {} THEN Append(cut, stamp[p]) ELSE cut
      BY <1>1, <1>4, ListSteps
    <2>2. CASE InProcess!Full(p) # {}
      <3> SUFFICES ASSUME cut # <<>>,
                          Many(cut, InRedis!Limit[k] + 1, cut[Len(cut)] - InRedis!Period[k])
                   PROVE  FALSE
        BY <2>1, <2>2 DEF InTurn
      <3>1. /\ List(r, k) # <<>> /\ cut[Len(cut)] = List(r, k)[Len(List(r, k))]
            /\ cut[Len(cut)] \in Nat
        <4>1. PICK d \in 0..Len(List(r, k)) :
                /\ Len(cut) = Len(List(r, k)) - d
                /\ \A i \in 1..Len(cut) : cut[i] = List(r, k)[d + i]
          BY <2>1 DEF Cut
        <4>2. Len(cut) \in 1..Len(cut) /\ Len(cut) \in Nat /\ Len(List(r, k)) \in Nat
          BY <1>2
        <4>3. d + Len(cut) = Len(List(r, k)) /\ Len(List(r, k)) # 0
          BY <4>1, <4>2
        <4> QED BY <4>1, <4>2, <4>3
      <3>2. Many(List(r, k), InRedis!Limit[k] + 1, cut[Len(cut)] - InRedis!Period[k])
        <4>1. InRedis!Limit[k] + 1 \in Nat /\ cut[Len(cut)] - InRedis!Period[k] \in Int
          <5>1. InRedis!Limit[k] \in Nat /\ InRedis!Period[k] \in Nat
            BY <1>2
          <5>2. cut[Len(cut)] \in Nat
            BY <3>1
          <5> QED BY <5>1, <5>2
        <4> QED BY <1>2, <2>1, <4>1, CutMany
      <3> QED BY <1>1, <3>1, <3>2 DEF InTurn
    <2>3. CASE InProcess!Full(p) = {}
      <3> DEFINE time == stamp[p] - InRedis!Period[k]
                 more == Append(cut, stamp[p])
      <3>1. more # <<>> /\ more[Len(more)] = stamp[p] /\ List(r, k)' = more
        BY <1>2, <2>1, <2>3
      <3> SUFFICES ASSUME Many(more, InRedis!Limit[k] + 1, time) PROVE FALSE
        BY <3>1 DEF InTurn
      <3>2. time \in Int
        BY <1>2
      <3>3. Many(cut, InRedis!Limit[k], time)
        <4> HIDE DEF time
        <4> QED BY <1>2, <3>2, AppendMany
      <3>4. Many(List(r, k), InRedis!Limit[k], time)
        <4> HIDE DEF time
        <4> QED BY <1>2, <2>1, <3>2, <3>3, CutMany
      <3>5. List(r, k) = List(p, k)
        BY <1>4 DEF List, Counts
      <3>6. InProcess!Full(p) # {}
        BY <1>1, <3>4, <3>5, FullIs
      <3> QED BY <2>3, <3>6
    <2> QED BY <2>2, <2>3
  <1> QED BY <1>3, <1>4

LEMMA PromisedTimes ==
    ASSUME ProcessInv, NEW p \in LocalRequests, InProcess!Consume(p), NEW q \in LocalRequests
    PROVE  /\ ComesBack(q)' \in Nat /\ NotBefore(q)' \in Int
           /\ retry'[q] # 0 => NotBefore(q)' > stamp[q]
  <1>1. stamp' = stamp /\ stamp[q] \in Nat /\ retry'[q] \in Nat
    BY ProcessCharges DEF ProcessInv, InProcess!TypeOK
  <1>2. /\ (retry'[q] * Second) \in Nat /\ ((retry'[q] - 1) * Second) \in Int
        /\ retry'[q] # 0 => ((retry'[q] - 1) * Second) \in Nat
    <2>1. retry'[q] # 0 => retry'[q] - 1 \in Nat
      BY <1>1
    <2>2. ((retry'[q] - 1) * Second) \in Int
      BY <1>1, QuotaConstants
    <2> QED BY <1>1, <2>1, <2>2, SecondsAre
  <1>3. /\ ComesBack(q)' = stamp[q] + (retry'[q] * Second)
        /\ NotBefore(q)' = stamp[q] + ((retry'[q] - 1) * Second) + 1
    BY <1>1 DEF ComesBack, NotBefore
  <1> QED BY <1>1, <1>2, <1>3

\* Whoever was told to come back is kept out until the second before.
LEMMA BlockedStays ==
    ASSUME ProcessInv, NEW p \in LocalRequests, InProcess!Consume(p)
    PROVE  ProcessBlocked'
  <1>1. InProcess!TypeOK /\ UNCHANGED <<now, stamp>>
    BY ProcessCharges DEF ProcessInv
  <1>2. stamp[p] \in Nat /\ now \in Nat /\ stamp[p] <= now
    BY <1>1 DEF InProcess!TypeOK, ProcessInv, ProcessTimes
  <1> SUFFICES ASSUME NEW q \in LocalRequests, retry'[q] # 0, now < NotBefore(q)'
               PROVE  \E k \in InRedis!Kinds :
                        Many(List(q, k)', InRedis!Limit[k], NotBefore(q)' - InRedis!Period[k] - 1)
    <2>1. \A q \in LocalRequests : NotBefore(q)' \in Int
      BY <1>1, PromisedTimes
    <2> QED BY <1>1, <1>2, <2>1
            DEF ProcessBlocked, InRedis!Kinds, InRedis!Limit, InRedis!Period
  <1>3. NotBefore(q)' \in Int /\ NotBefore(q)' > stamp[q]
    BY <1>1, PromisedTimes
  \* A window that is short of places before the step is so after it.
  <1>4. ASSUME NEW k \in InRedis!Kinds,
               Many(List(q, k), InRedis!Limit[k], NotBefore(q)' - InRedis!Period[k] - 1)
        PROVE  Many(List(q, k)', InRedis!Limit[k], NotBefore(q)' - InRedis!Period[k] - 1)
    <2> DEFINE time == NotBefore(q)' - InRedis!Period[k] - 1
    <2>1. /\ time \in Int /\ stamp[p] - Day <= time
      BY <1>2, <1>3, KindsWithinDay
    <2> HIDE DEF time
    <2>2. InRedis!Limit[k] \in Nat
      BY KindsWithinDay
    <2> QED BY <1>4, <2>1, <2>2, ListsMany DEF time
  <1>5. CASE q # p
    <2>1. retry'[q] = retry[q] /\ NotBefore(q)' = NotBefore(q)
      BY <1>1, <1>5, ProcessCharges DEF NotBefore
    <2>2. ~(now >= NotBefore(q))
      BY <1>2, <1>3, <2>1
    <2>3. PICK k \in InRedis!Kinds :
            Many(List(q, k), InRedis!Limit[k], NotBefore(q) - InRedis!Period[k] - 1)
      BY <2>1, <2>2 DEF ProcessInv, ProcessBlocked
    <2> QED BY <1>4, <2>1, <2>3
  <1>6. CASE q = p
    <2>1. InProcess!Full(p) # {} /\ retry'[p] = InProcess!RetryAfter(p)
      BY <1>6, ProcessCharges
    <2>2. PICK k \in InRedis!Kinds :
            /\ Len(Left(p, k)) >= InRedis!Limit[k]
            /\ InProcess!RetryAfter(p) = InProcess!RetryOf(p, BlockOf(p, k))
      BY <2>1, RetryIs
    <2> DEFINE rest == Left(p, k)
               at == Len(rest) - InRedis!Limit[k] + 1
               time == NotBefore(p)' - InRedis!Period[k] - 1
               wait == rest[at] + InRedis!Period[k] - stamp[p]
    <2>3. /\ List(p, k) \in Seq(Nat) /\ rest \in Seq(Nat)
          /\ stamp[p] - InRedis!Period[k] \in Int
          /\ Cut(List(p, k), stamp[p] - InRedis!Period[k], rest)
          /\ InRedis!Limit[k] \in Nat \ {0} /\ InRedis!Period[k] \in Nat
      BY <1>1, ListIs, CutoffsAre, LeftCuts, KindsWithinDay
    <2>4. InProcess!RetryAfter(p) = InProcess!AtLeastOne(InProcess!Seconds(wait))
      BY <2>2 DEF InProcess!RetryOf, InProcess!Freeing, BlockOf
    <2>5. NotBefore(p)' = stamp[p] + ((InProcess!RetryAfter(p) - 1) * Second) + 1
      BY <1>1, <2>1 DEF NotBefore
    <2>6. at \in 1..Len(rest) /\ Len(rest) - at + 1 >= InRedis!Limit[k]
      <3> HIDE DEF rest
      <3> QED BY <2>2, <2>3 DEF rest
    <2> HIDE DEF rest, at
    <2>7. rest[at] \in Nat
      BY <2>3, <2>6
    <2>7a. /\ NotBefore(p)' <= stamp[p] + (IF wait < 1 THEN 1 ELSE wait)
           /\ wait \in Int
      <3>1. wait \in Int
        BY <1>2, <2>3, <2>7
      <3> HIDE DEF wait
      <3>2. /\ ((InProcess!RetryAfter(p) - 1) * Second) < IF wait < 1 THEN 1 ELSE wait
            /\ InProcess!RetryAfter(p) \in Nat
        BY <2>4, <3>1, AtLeastASecond
      <3>3. ((InProcess!RetryAfter(p) - 1) * Second) \in Int
        BY <3>2, QuotaConstants
      <3> QED BY <1>2, <2>5, <3>1, <3>2, <3>3
    <2>8. CASE wait < 1
      <3>1. time <= stamp[p] - InRedis!Period[k] /\ time \in Int
        BY <1>2, <1>3, <1>6, <2>3, <2>7a, <2>8
      <3> HIDE DEF time
      <3>2. Many(List(p, k), InRedis!Limit[k], stamp[p] - InRedis!Period[k])
        BY <2>2, <2>3, CutCounts DEF rest
      <3>3. Many(List(p, k), InRedis!Limit[k], time)
        BY <2>3, <3>1, <3>2, ManyLess
      <3> QED BY <1>4, <1>6, <3>3 DEF time
    <2>9. CASE ~(wait < 1)
      <3>1. time <= rest[at] - 1 /\ time \in Int
        <4>1. NotBefore(p)' \in Int /\ NotBefore(p)' <= stamp[p] + wait /\ wait \in Int
          BY <1>3, <1>6, <2>7a, <2>9
        <4>2. stamp[p] + wait = rest[at] + InRedis!Period[k]
          BY <1>2, <2>3, <2>7
        <4> HIDE DEF wait
        <4>3. NotBefore(p)' <= rest[at] + InRedis!Period[k]
          BY <4>1, <4>2
        <4> QED BY <2>3, <2>7, <4>1, <4>3
      <3>2. rest[at] > time
        BY <2>7, <3>1
      <3> HIDE DEF time
      <3>3. Many(rest, InRedis!Limit[k], time)
        BY <2>6, <3>2 DEF Many
      <3>4. Many(List(p, k), InRedis!Limit[k], time)
        BY <2>3, <3>1, <3>3, CutMany
      <3> QED BY <1>4, <1>6, <3>4 DEF time
    <2> QED BY <2>8, <2>9
  <1> QED BY <1>5, <1>6

\* And he finds a place afterwards.
LEMMA FreedStays ==
    ASSUME ProcessInv, NEW p \in LocalRequests, InProcess!Consume(p)
    PROVE  ProcessFreed'
  <1>1. InProcess!TypeOK /\ UNCHANGED <<now, stamp>>
    BY ProcessCharges DEF ProcessInv
  <1>2. \A q \in LocalRequests : stamp[q] \in Nat /\ now \in Nat /\ stamp[q] <= now
    BY <1>1 DEF InProcess!TypeOK, ProcessInv, ProcessTimes
  <1>3. CASE InProcess!Full(p) = {}
    <2>1. charged'[p] = now
      BY <1>3, ProcessCharges
    <2>2. \A q \in LocalRequests : charged'[p] >= stamp'[q]
      BY <1>1, <1>2, <2>1
    <2> QED BY <2>2 DEF ProcessFreed
  <1>4. CASE InProcess!Full(p) # {}
    <2>1. charged' = charged
      BY <1>4, ProcessCharges
    <2> SUFFICES ASSUME NEW q \in LocalRequests, retry'[q] # 0,
                        ~\E m \in LocalRequests : charged[m] >= stamp[q],
                        NEW k \in InRedis!Kinds,
                        Many(List(q, k)', InRedis!Limit[k], ComesBack(q)' - InRedis!Period[k])
                 PROVE  FALSE
      BY <1>1, <2>1 DEF ProcessFreed, InRedis!Kinds, InRedis!Limit, InRedis!Period
    <2> DEFINE time == ComesBack(q)' - InRedis!Period[k]
    <2>2. ComesBack(q)' \in Nat
      BY PromisedTimes
    <2>3. /\ time \in Int /\ InRedis!Limit[k] \in Nat \ {0} /\ InRedis!Period[k] \in Nat
      BY <2>2, KindsWithinDay
    <2>4. Many(List(q, k), InRedis!Limit[k], time)
      <3> HIDE DEF time
      <3> QED BY <1>4, <2>3, ListsMany DEF time
    <2>5. CASE q # p
      <3>1. retry'[q] = retry[q] /\ ComesBack(q)' = ComesBack(q)
        BY <1>1, <2>5, ProcessCharges DEF ComesBack
      <3> QED BY <2>4, <3>1 DEF ProcessInv, ProcessFreed
    <2>6. CASE q = p
      <3> DEFINE rest == Left(p, k)
                 at == Len(rest) - InRedis!Limit[k] + 1
                 list == List(p, k)
      <3>1. /\ list \in Seq(Nat) /\ rest \in Seq(Nat)
            /\ stamp[p] - InRedis!Period[k] \in Int
            /\ Cut(list, stamp[p] - InRedis!Period[k], rest)
        BY <1>1, ListIs, CutoffsAre, LeftCuts
      <3>2. /\ ComesBack(p)' = stamp[p] + (InProcess!RetryAfter(p) * Second)
            /\ InProcess!RetryAfter(p) \in Nat /\ (InProcess!RetryAfter(p) * Second) \in Nat
        BY <1>1, <1>4, RetryIs, SecondsAre, ProcessCharges DEF ComesBack
      <3>3. stamp[p] - InRedis!Period[k] <= time
        BY <1>2, <2>3, <2>6, <3>2
      <3>4. Many(list, InRedis!Limit[k], stamp[p] - InRedis!Period[k])
        <4>1. InRedis!Limit[k] \in Nat
          BY <2>3
        <4> HIDE DEF time, list
        <4> QED BY <2>3, <2>4, <2>6, <3>1, <3>3, <4>1, ManyLess DEF list
      <3>5. Len(rest) >= InRedis!Limit[k]
        BY <1>1, <3>4, FullIs
      <3>6. /\ at \in 1..Len(rest) /\ Len(rest) - at + 1 = InRedis!Limit[k]
            /\ Len(rest) \in Nat
        <4> HIDE DEF rest
        <4> QED BY <2>3, <3>1, <3>5
      <3>7. rest[at] \in Nat
        <4> HIDE DEF rest, at
        <4> QED BY <3>1, <3>6
      <3>8. rest[at] <= time
        <4> DEFINE wait == rest[at] + InRedis!Period[k] - stamp[p]
               this == InProcess!AtLeastOne(InProcess!Seconds(wait))
        <4>1. InProcess!RetryAfter(p) >= this
          BY <1>4, <3>5, RetryIs DEF InProcess!RetryOf, InProcess!Freeing, BlockOf
        <4> HIDE DEF rest, at
        <4>2. wait \in Int
          BY <1>2, <2>3, <3>7
        <4> HIDE DEF wait
        <4>3. this \in Nat /\ wait <= (this * Second)
          BY <4>2, AtLeastASecond
        <4> HIDE DEF this
        <4>4. (this * Second) <= (InProcess!RetryAfter(p) * Second) /\ (this * Second) \in Nat
          BY <3>2, <4>1, <4>3, SecondsGrow, SecondsAre
        <4>5. (InProcess!RetryAfter(p) * Second) >= wait
          BY <3>2, <4>2, <4>3, <4>4
        <4> USE DEF wait
        <4> QED BY <1>2, <2>3, <2>6, <3>2, <3>7, <4>5
      <3>9. Many(rest, InRedis!Limit[k], time)
        <4> HIDE DEF time, rest, list
        <4> QED BY <2>3, <2>4, <2>6, <3>1, <3>3, CutMany DEF list
      <3> HIDE DEF time, rest, at, list
      <3>10. PICK j \in 1..Len(rest) : rest[j] > time /\ Len(rest) - j + 1 >= InRedis!Limit[k]
        BY <3>9 DEF Many
      <3>11. j # at /\ j <= at
        <4>1. j # at
          BY <2>3, <3>7, <3>8, <3>10
        <4>2. j <= at
          BY <2>3, <3>6, <3>10 DEF at
        <4> QED BY <4>1, <4>2
      <3>12. Many(rest, InRedis!Limit[k] + 1, time)
        <4>1. Len(rest) - j + 1 >= InRedis!Limit[k] + 1
          BY <2>3, <3>6, <3>11
        <4> QED BY <3>10, <4>1 DEF Many
      <3>13. InRedis!Limit[k] + 1 \in Nat
        BY <2>3
      <3>14. Many(list, InRedis!Limit[k] + 1, time)
        BY <2>3, <3>1, <3>12, <3>13, CutMany
      <3>15. /\ list # <<>> /\ Len(list) \in 1..Len(list) /\ list[Len(list)] \in Nat
        BY <3>1, <3>14, ManyLast
      <3>16. list[Len(list)] < stamp[p]
        <4>1. PICK m \in LocalRequests : charged[m] >= list[Len(list)]
          BY <3>15 DEF ProcessInv, FromCharged, list
        <4>2. charged[m] \in Nat /\ ~(charged[m] >= stamp[p])
          BY <1>1, <2>6 DEF InProcess!TypeOK
        <4> QED BY <1>2, <3>15, <4>1, <4>2
      <3>17. /\ list[Len(list)] - InRedis!Period[k] \in Int
             /\ list[Len(list)] - InRedis!Period[k] <= time
        <4>1. /\ list[Len(list)] \in Nat /\ stamp[p] \in Nat /\ InRedis!Period[k] \in Nat
              /\ time \in Int
          BY <1>2, <2>3, <3>15
        <4>2. list[Len(list)] - InRedis!Period[k] <= stamp[p] - InRedis!Period[k]
          BY <3>16, <4>1
        <4> QED BY <3>3, <4>1, <4>2
      <3>18. Many(list, InRedis!Limit[k] + 1, list[Len(list)] - InRedis!Period[k])
        BY <2>3, <3>1, <3>13, <3>14, <3>17, ManyLess
      <3> QED BY <3>15, <3>18 DEF ProcessInv, AllInTurn, InTurn, list
    <2> QED BY <2>5, <2>6
  <1> QED BY <1>3, <1>4

\* The windows of a request are those of its source, and of the whole site.
LEMMA WindowsHold ==
    ASSUME InProcess!WithinAllowance, NEW r \in LocalRequests, NEW k \in InRedis!Kinds,
           NEW t \in 1..now
    PROVE  Cardinality({m \in LocalRequests :
                          /\ charged[m] # 0 /\ Counts(m, r, k)
                          /\ t <= charged[m] /\ charged[m] < t + (InRedis!Period[k] - Skew)})
             <= InRedis!Limit[k]
  <1> DEFINE W(length) == {m \in LocalRequests :
                             /\ charged[m] # 0 /\ Counts(m, r, k)
                             /\ t <= charged[m] /\ charged[m] < t + length}
             s == LocalSource[r]
  <1>1. s \in Sources
    BY QuotaConstants
  <1>2. /\ Cardinality(InProcess!During(LocalRequests, t, Day - Skew)) <= CHATDailyLimit
        /\ Cardinality(InProcess!During(InProcess!Of(s), t, Minute - Skew)) <= CHATIPMinuteLimit
        /\ Cardinality(InProcess!During(InProcess!Of(s), t, Hour - Skew)) <= CHATIPHourLimit
        /\ Cardinality(InProcess!During(InProcess!Of(s), t, Day - Skew)) <= CHATIPDailyLimit
    BY <1>1, ProcessCounts DEF InProcess!WithinAllowance
  <1>3. CASE k = "site"
    <2>1. W(Day - Skew) = InProcess!During(LocalRequests, t, Day - Skew)
      BY <1>3 DEF Counts, InProcess!During
    <2> QED BY <1>2, <1>3, <2>1 DEF InRedis!Period, InRedis!Limit
  <1>4. CASE k # "site"
    <2>1. \A length : W(length) = InProcess!During(InProcess!Of(s), t, length)
      BY <1>4 DEF Counts, InProcess!During, InProcess!Of
    <2>2. /\ InRedis!Period["minute"] = Minute /\ InRedis!Limit["minute"] = CHATIPMinuteLimit
          /\ InRedis!Period["hour"] = Hour /\ InRedis!Limit["hour"] = CHATIPHourLimit
          /\ InRedis!Period["day"] = Day /\ InRedis!Limit["day"] = CHATIPDailyLimit
      BY DEF InRedis!Period, InRedis!Limit
    <2>3. k = "minute" \/ k = "hour" \/ k = "day"
      BY <1>4 DEF InRedis!Kinds
    <2> HIDE DEF W
    <2>4. Cardinality(W(InRedis!Period[k] - Skew)) <= InRedis!Limit[k]
      BY <1>2, <2>1, <2>2, <2>3
    <2> QED BY <2>4 DEF W
  <1> QED BY <1>3, <1>4

\* They are all the windows there are.
LEMMA AllWindowsHold ==
    ASSUME NEW c \in [LocalRequests -> Nat], NEW t \in Nat,
           \A r \in LocalRequests, k \in InRedis!Kinds :
             Cardinality({m \in LocalRequests :
                            /\ c[m] # 0 /\ Counts(m, r, k)
                            /\ t <= c[m] /\ c[m] < t + (InRedis!Period[k] - Skew)})
               <= InRedis!Limit[k]
    PROVE  /\ Cardinality({m \in LocalRequests : /\ c[m] # 0 /\ t <= c[m]
                                                 /\ c[m] < t + (Day - Skew)})
                <= CHATDailyLimit
           /\ \A s \in Sources :
                /\ Cardinality({m \in InProcess!Of(s) : /\ c[m] # 0 /\ t <= c[m]
                                                        /\ c[m] < t + (Minute - Skew)})
                     <= CHATIPMinuteLimit
                /\ Cardinality({m \in InProcess!Of(s) : /\ c[m] # 0 /\ t <= c[m]
                                                        /\ c[m] < t + (Hour - Skew)})
                     <= CHATIPHourLimit
                /\ Cardinality({m \in InProcess!Of(s) : /\ c[m] # 0 /\ t <= c[m]
                                                        /\ c[m] < t + (Day - Skew)})
                     <= CHATIPDailyLimit
  <1> DEFINE All(length) == {m \in LocalRequests : c[m] # 0 /\ t <= c[m] /\ c[m] < t + length}
             From(s, length) ==
               {m \in InProcess!Of(s) : c[m] # 0 /\ t <= c[m] /\ c[m] < t + length}
             W(r, k, length) ==
               {m \in LocalRequests : /\ c[m] # 0 /\ Counts(m, r, k)
                                      /\ t <= c[m] /\ c[m] < t + length}
  <1>1. Cardinality({}) = 0
    BY FS_EmptySet
  <1>2. /\ CHATDailyLimit \in Nat /\ CHATIPMinuteLimit \in Nat
        /\ CHATIPHourLimit \in Nat /\ CHATIPDailyLimit \in Nat
    BY QuotaConstants
  <1>3. Cardinality(All(Day - Skew)) <= CHATDailyLimit
    <2>1. CASE LocalRequests = {}
      <3>1. All(Day - Skew) = {}
        BY <2>1
      <3> HIDE DEF All
      <3> QED BY <1>1, <1>2, <3>1
    <2>2. ASSUME NEW r \in LocalRequests PROVE Cardinality(All(Day - Skew)) <= CHATDailyLimit
      <3>1. All(Day - Skew) = W(r, "site", Day - Skew)
        BY DEF Counts
      <3>2. Cardinality(W(r, "site", Day - Skew)) <= CHATDailyLimit
        BY DEF InRedis!Period, InRedis!Limit, InRedis!Kinds
      <3> QED BY <3>1, <3>2
    <2> QED BY <2>1, <2>2
  <1>4. ASSUME NEW s \in Sources
        PROVE  /\ Cardinality(From(s, Minute - Skew)) <= CHATIPMinuteLimit
               /\ Cardinality(From(s, Hour - Skew)) <= CHATIPHourLimit
               /\ Cardinality(From(s, Day - Skew)) <= CHATIPDailyLimit
    <2>1. CASE InProcess!Of(s) = {}
      <3>1. \A length : From(s, length) = {}
        BY <2>1
      <3> HIDE DEF From
      <3> QED BY <1>1, <1>2, <3>1
    <2>2. ASSUME NEW r \in InProcess!Of(s)
          PROVE  /\ Cardinality(From(s, Minute - Skew)) <= CHATIPMinuteLimit
                 /\ Cardinality(From(s, Hour - Skew)) <= CHATIPHourLimit
                 /\ Cardinality(From(s, Day - Skew)) <= CHATIPDailyLimit
      <3>1. r \in LocalRequests /\ LocalSource[r] = s
        BY DEF InProcess!Of
      <3>2. \A length : /\ From(s, length) = W(r, "minute", length)
                        /\ From(s, length) = W(r, "hour", length)
                        /\ From(s, length) = W(r, "day", length)
        BY <3>1 DEF Counts, InProcess!Of
      <3>3. /\ Cardinality(W(r, "minute", Minute - Skew)) <= CHATIPMinuteLimit
            /\ Cardinality(W(r, "hour", Hour - Skew)) <= CHATIPHourLimit
            /\ Cardinality(W(r, "day", Day - Skew)) <= CHATIPDailyLimit
        BY <3>1 DEF InRedis!Period, InRedis!Limit, InRedis!Kinds
      <3> HIDE DEF From, W
      <3> QED BY <3>2, <3>3
    <2> QED BY <2>1, <2>2
  <1> QED BY <1>3, <1>4

\* Whoever Consume lets through finds every window with a place left: all that
\* were charged in the last period are among the rows it counted.
LEMMA ProcessChargeWithin ==
    ASSUME ProcessInv, NEW p \in LocalRequests, InProcess!Consume(p),
           NEW r \in LocalRequests, NEW k \in InRedis!Kinds, NEW t \in 1..now
    PROVE  Cardinality({m \in LocalRequests :
                          /\ charged'[m] # 0 /\ Counts(m, r, k)
                          /\ t <= charged'[m] /\ charged'[m] < t + (InRedis!Period[k] - Skew)})
             <= InRedis!Limit[k]
  <1> DEFINE period == InRedis!Period[k]
             limit == InRedis!Limit[k]
             W == {m \in LocalRequests : /\ charged[m] # 0 /\ Counts(m, r, k)
                                         /\ t <= charged[m] /\ charged[m] < t + (period - Skew)}
             N == {m \in LocalRequests :
                     /\ charged'[m] # 0 /\ Counts(m, r, k)
                     /\ t <= charged'[m] /\ charged'[m] < t + (period - Skew)}
  <1>1. /\ stamp[p] \in Nat /\ now \in Nat /\ stamp[p] <= now
        /\ \A m \in LocalRequests : stamp[m] \in Nat /\ charged[m] \in Nat
    BY DEF ProcessInv, InProcess!TypeOK, ProcessTimes
  <1>2. limit \in Nat \ {0} /\ period \in Nat /\ period <= Day /\ Skew \in Nat /\ Day \in Nat
    BY KindsWithinDay
  <1>3. IsFiniteSet(LocalRequests) /\ W \subseteq LocalRequests /\ N \subseteq LocalRequests
    BY QuotaConstants
  <1>4. Cardinality(W) <= limit
    <2>1. InProcess!WithinAllowance
      BY DEF ProcessInv
    <2> QED BY <2>1, WindowsHold
  <1>5. CASE N \subseteq W
    <2> HIDE DEF N, W, limit
    <2>1. Cardinality(N) <= Cardinality(W) /\ Cardinality(N) \in Nat /\ Cardinality(W) \in Nat
      BY <1>3, <1>5, Smaller
    <2>2. Cardinality(N) <= limit
      BY <1>2, <1>4, <2>1
    <2> QED BY <2>2 DEF N, limit
  <1>6. CASE ~(N \subseteq W)
    <2>1. p \in N /\ \A m \in N \ {p} : m \in W
      BY <1>6, ProcessCharges
    <2>2. /\ InProcess!Full(p) = {} /\ charged'[p] = now /\ Counts(p, r, k)
          /\ now < t + (period - Skew)
      BY <2>1, ProcessCharges
    <2> DEFINE L == Later(p, k, now - period)
    <2>3. N \ {p} \subseteq L
      <3> SUFFICES ASSUME NEW m \in N \ {p} PROVE m \in L
        OBVIOUS
      <3>1. /\ m \in LocalRequests /\ charged[m] # 0 /\ Counts(m, r, k) /\ t <= charged[m]
        BY <2>1
      <3>2. charged[m] <= stamp[m] + Skew
        BY <3>1 DEF ProcessInv, ProcessTimes
      <3>3. stamp[m] > now - period
        <4>1. stamp[m] \in Nat /\ charged[m] \in Nat /\ t \in Nat
          BY <1>1, <3>1
        <4> HIDE DEF period
        <4> QED BY <1>1, <1>2, <2>2, <3>1, <3>2, <4>1
      <3>4. Counts(m, p, k)
        BY <2>2, <3>1 DEF Counts
      <3> QED BY <3>1, <3>3, <3>4 DEF Later
    <2>4. L \subseteq LocalRequests
      BY DEF Later
    <2>5. IsFiniteSet(L) /\ Cardinality(L) \in Nat
      BY <1>3, <2>4, Smaller
    <2>6. Cardinality(L) < limit
      <3> SUFFICES ASSUME Cardinality(L) >= limit PROVE FALSE
        <4> HIDE DEF L, limit
        <4> QED BY <1>2, <2>5
      <3>1. now - period \in Int /\ now - period >= now - Day
        <4> HIDE DEF period
        <4> QED BY <1>1, <1>2
      <3>2. Many(List(p, k), Cardinality(L), now - period)
        <4>1. Cardinality(L) # 0
          <5> HIDE DEF L, limit
          <5> QED BY <1>2, <2>5
        <4> QED BY <3>1, <4>1 DEF ProcessInv, InList
      <3>3. /\ List(p, k) \in Seq(Nat) /\ stamp[p] - period \in Int
            /\ stamp[p] - period <= now - period
        <4>1. List(p, k) \in Seq(Nat)
          BY ListIs DEF ProcessInv
        <4> HIDE DEF period
        <4> QED BY <1>1, <1>2, <4>1
      <3>4. Many(List(p, k), limit, stamp[p] - period)
        <4> HIDE DEF L, limit, period
        <4> QED BY <1>2, <2>5, <3>1, <3>2, <3>3, ManyLess
      <3> QED BY <2>2, <3>4, FullIs DEF ProcessInv
    <2> HIDE DEF L, N, limit
    <2>7. /\ IsFiniteSet(N \ {p}) /\ Cardinality(N \ {p}) <= Cardinality(L)
          /\ Cardinality(N \ {p}) \in Nat
      BY <2>3, <2>5, Smaller
    <2>8. IsFiniteSet(N) /\ Cardinality(N) \in Nat
      BY <1>3, Smaller
    <2>9. Cardinality(N \ {p}) = Cardinality(N) - 1
      BY <2>1, <2>8, FS_RemoveElement
    <2>10. Cardinality(N) <= limit
      BY <1>2, <2>5, <2>6, <2>7, <2>8, <2>9
    <2> QED BY <2>10 DEF N, limit
  <1> QED BY <1>5, <1>6

LEMMA ProcessConsume ==
    ASSUME ProcessInv, NEW p \in LocalRequests, InProcess!Consume(p)
    PROVE  ProcessInv'
  <1>1. InProcess!TypeOK' /\ ProcessTimes'
    BY ProcessTypes
  <1>2. /\ charged' \in [LocalRequests -> Nat] /\ now' = now /\ now \in Nat
    BY ProcessCharges
  <1>3. InProcess!WithinAllowance'
    <2>1. ASSUME NEW t \in 1..now
          PROVE  /\ Cardinality({m \in LocalRequests : /\ charged'[m] # 0 /\ t <= charged'[m]
                                                       /\ charged'[m] < t + (Day - Skew)})
                      <= CHATDailyLimit
                 /\ \A s \in Sources :
                      /\ Cardinality({m \in InProcess!Of(s) :
                                        /\ charged'[m] # 0 /\ t <= charged'[m]
                                        /\ charged'[m] < t + (Minute - Skew)})
                           <= CHATIPMinuteLimit
                      /\ Cardinality({m \in InProcess!Of(s) :
                                        /\ charged'[m] # 0 /\ t <= charged'[m]
                                        /\ charged'[m] < t + (Hour - Skew)})
                           <= CHATIPHourLimit
                      /\ Cardinality({m \in InProcess!Of(s) :
                                        /\ charged'[m] # 0 /\ t <= charged'[m]
                                        /\ charged'[m] < t + (Day - Skew)})
                           <= CHATIPDailyLimit
      <3>1. t \in Nat
        BY <1>2
      <3>2. \A r \in LocalRequests, k \in InRedis!Kinds :
              Cardinality({m \in LocalRequests :
                             /\ charged'[m] # 0 /\ Counts(m, r, k)
                             /\ t <= charged'[m]
                             /\ charged'[m] < t + (InRedis!Period[k] - Skew)})
                <= InRedis!Limit[k]
        BY ProcessChargeWithin
      <3> QED BY <1>2, <3>1, <3>2, AllWindowsHold
    <2> QED BY <1>2, <2>1, ProcessCounts
            DEF InProcess!WithinAllowance, InProcess!During, InProcess!Of
  <1> QED BY <1>1, <1>3, InListStays, FromChargedStays, InTurnStays, BlockedStays, FreedStays
          DEF ProcessInv

LEMMA StillLater ==
    ASSUME NEW a \in Nat, NEW b \in Nat, NEW d \in Nat, NEW t \in Int, b >= a, t >= b - d
    PROVE  t >= a - d
  OBVIOUS

\* Where no list changes and no charged or rejected request's time moves.
LEMMA ProcessStands ==
    ASSUME ProcessInv, UNCHANGED <<charged, retry, global, byIP>>,
           InProcess!TypeOK', now' >= now, ProcessTimes',
           \A m \in LocalRequests : charged[m] # 0 => stamp'[m] = stamp[m],
           \A m \in LocalRequests : retry[m] # 0 => stamp'[m] = stamp[m]
    PROVE  ProcessInv'
  <1>1. /\ now \in Nat /\ now' \in Nat /\ Day \in Nat /\ charged \in [LocalRequests -> Nat]
        /\ stamp' \in [LocalRequests -> Nat] /\ stamp \in [LocalRequests -> Nat]
        /\ retry \in [LocalRequests -> Nat]
    BY QuotaConstants DEF ProcessInv, InProcess!TypeOK
  <1>2. \A r \in LocalRequests : \A k : List(r, k)' = List(r, k)
    BY DEF List
  <1>3. InList'
    <2> SUFFICES ASSUME NEW r \in LocalRequests, NEW k \in InRedis!Kinds, NEW time \in Int,
                        time >= now' - Day
                 PROVE  \/ Cardinality(Later(r, k, time)') = 0
                        \/ Many(List(r, k)', Cardinality(Later(r, k, time)'), time)
      BY DEF InList, InRedis!Kinds
    <2>1. Later(r, k, time)' = Later(r, k, time)
      BY DEF Later, Counts
    <2>2. time >= now - Day
      <3>1. now \in Nat /\ now' \in Nat /\ Day \in Nat /\ now' >= now /\ time >= now' - Day
        BY <1>1
      <3> QED BY <3>1, StillLater
    <2> QED BY <1>2, <2>1, <2>2 DEF ProcessInv, InList
  <1>4. FromCharged'
    BY <1>2 DEF ProcessInv, FromCharged, InRedis!Kinds
  <1>5. AllInTurn'
    BY <1>2 DEF ProcessInv, AllInTurn, InTurn, InRedis!Kinds, InRedis!Period, InRedis!Limit
  <1>6. \A q \in LocalRequests : retry'[q] # 0 =>
          stamp'[q] = stamp[q] /\ ComesBack(q)' = ComesBack(q) /\ NotBefore(q)' = NotBefore(q)
    BY DEF ComesBack, NotBefore
  <1>7. ProcessBlocked'
    <2> SUFFICES ASSUME NEW q \in LocalRequests, retry'[q] # 0, ~(now' >= NotBefore(q)')
                 PROVE  \E k \in InRedis!Kinds :
                          Many(List(q, k)', InRedis!Limit[k], NotBefore(q)' - InRedis!Period[k] - 1)
      BY DEF ProcessBlocked, InRedis!Kinds, InRedis!Period, InRedis!Limit
    <2>1. NotBefore(q) \in Int
      <3>1. stamp[q] \in Nat /\ retry[q] \in Nat /\ ((retry[q] - 1) * Second) \in Int
        BY <1>1, QuotaConstants
      <3> QED BY <3>1 DEF NotBefore
    <2>2. ~(now >= NotBefore(q))
      BY <1>1, <1>6, <2>1
    <2> QED BY <1>2, <1>6, <2>2 DEF ProcessInv, ProcessBlocked
  <1>8. ProcessFreed'
    <2> SUFFICES ASSUME NEW q \in LocalRequests, retry'[q] # 0
                 PROVE  \/ \E m \in LocalRequests : charged'[m] >= stamp'[q]
                        \/ \A k \in InRedis!Kinds :
                             ~Many(List(q, k)', InRedis!Limit[k], ComesBack(q)' - InRedis!Period[k])
      BY DEF ProcessFreed, InRedis!Kinds, InRedis!Period, InRedis!Limit
    <2> QED BY <1>2, <1>6 DEF ProcessInv, ProcessFreed
  <1>9. InProcess!WithinAllowance'
    <2>1. ASSUME NEW t \in 1..now', t \notin 1..now, NEW R \in SUBSET LocalRequests, NEW length
          PROVE  InProcess!During(R, t, length) = {}
      <3>1. t > now
        BY <1>1, <2>1
      <3>2. \A m \in LocalRequests : charged[m] # 0 => ~(t <= charged[m])
        BY <1>1, <3>1 DEF ProcessInv, ProcessTimes
      <3> QED BY <3>2 DEF InProcess!During
    <2>2. /\ CHATDailyLimit \in Nat /\ CHATIPMinuteLimit \in Nat
          /\ CHATIPHourLimit \in Nat /\ CHATIPDailyLimit \in Nat /\ Cardinality({}) = 0
      BY QuotaConstants, FS_EmptySet
    <2>3. ASSUME NEW t \in 1..now'
          PROVE  /\ Cardinality(InProcess!During(LocalRequests, t, Day - Skew)) <= CHATDailyLimit
                 /\ \A s \in Sources :
                      /\ Cardinality(InProcess!During(InProcess!Of(s), t, Minute - Skew))
                           <= CHATIPMinuteLimit
                      /\ Cardinality(InProcess!During(InProcess!Of(s), t, Hour - Skew))
                           <= CHATIPHourLimit
                      /\ Cardinality(InProcess!During(InProcess!Of(s), t, Day - Skew))
                           <= CHATIPDailyLimit
      <3>1. CASE t \in 1..now
        BY <3>1, ProcessCounts DEF ProcessInv, InProcess!WithinAllowance
      <3>2. CASE t \notin 1..now
        <4>1. \A s \in Sources : InProcess!Of(s) \in SUBSET LocalRequests
          BY DEF InProcess!Of
        <4>2. \A R \in SUBSET LocalRequests : \A length : InProcess!During(R, t, length) = {}
          BY <2>1, <3>2
        <4>3. InProcess!During(LocalRequests, t, Day - Skew) = {}
          BY <4>2
        <4>4. ASSUME NEW s \in Sources, NEW length
              PROVE  InProcess!During(InProcess!Of(s), t, length) = {}
          BY <4>1, <4>2
        <4>5. Cardinality(InProcess!During(LocalRequests, t, Day - Skew)) = 0
          BY <2>2, <4>3
        <4>6. \A s \in Sources :
                /\ Cardinality(InProcess!During(InProcess!Of(s), t, Minute - Skew)) = 0
                /\ Cardinality(InProcess!During(InProcess!Of(s), t, Hour - Skew)) = 0
                /\ Cardinality(InProcess!During(InProcess!Of(s), t, Day - Skew)) = 0
          BY <2>2, <4>4
        <4> QED BY <2>2, <4>5, <4>6
      <3> QED BY <3>1, <3>2
    <2> QED BY <2>3, ProcessCounts
            DEF InProcess!WithinAllowance, InProcess!During, InProcess!Of
  <1> QED BY <1>3, <1>4, <1>5, <1>7, <1>8, <1>9 DEF ProcessInv

LEMMA ProcessStep ==
    ASSUME ProcessInv, \/ InProcess!Next
                       \/ UNCHANGED <<now, stamp, charged, retry, global, byIP>>
    PROVE  ProcessInv'
  <1>1. /\ InProcess!TypeOK /\ ProcessTimes /\ now \in Nat /\ Skew \in Nat
        /\ stamp \in [LocalRequests -> Nat]
    BY QuotaConstants DEF ProcessInv, InProcess!TypeOK
  <1>2. ASSUME NEW r \in LocalRequests, InProcess!Call(r) PROVE ProcessInv'
    <2>1. /\ stamp[r] = 0 /\ stamp' = [stamp EXCEPT ![r] = now]
          /\ UNCHANGED <<now, charged, retry, global, byIP>>
      BY <1>2 DEF InProcess!Call
    <2>2. InProcess!TypeOK'
      BY <1>1, <2>1 DEF InProcess!TypeOK
    <2>3. ProcessTimes'
      BY <1>1, <2>1 DEF ProcessTimes, InProcess!Pending
    <2>4. /\ \A m \in LocalRequests : charged[m] # 0 => stamp'[m] = stamp[m]
          /\ \A m \in LocalRequests : retry[m] # 0 => stamp'[m] = stamp[m]
          /\ now' >= now
      BY <1>1, <2>1 DEF ProcessTimes
    <2> QED BY <2>1, <2>2, <2>3, <2>4, ProcessStands
  <1>3. ASSUME InProcess!Tick PROVE ProcessInv'
    <2>1. /\ now' = now + 1 /\ now' >= now
          /\ \A r \in LocalRequests : InProcess!Pending(r) => now < stamp[r] + Skew
          /\ UNCHANGED <<stamp, charged, retry, global, byIP>>
      BY <1>1, <1>3 DEF InProcess!Tick
    <2>2. InProcess!TypeOK'
      BY <1>1, <2>1 DEF InProcess!TypeOK
    <2>3. ProcessTimes'
      BY <1>1, <2>1, QuotaConstants DEF InProcess!TypeOK, ProcessTimes, InProcess!Pending
    <2> QED BY <2>1, <2>2, <2>3, ProcessStands
  <1>4. CASE UNCHANGED <<now, stamp, charged, retry, global, byIP>>
    <2>1. InProcess!TypeOK' /\ ProcessTimes' /\ now' >= now
      BY <1>1, <1>4 DEF InProcess!TypeOK, ProcessTimes, InProcess!Pending
    <2> QED BY <1>4, <2>1, ProcessStands
  <1> QED BY <1>2, <1>3, <1>4, ProcessConsume DEF InProcess!Next

LEMMA ProcessBegins == ASSUME InProcess!Init PROVE ProcessInv
  <1>1. /\ now = 1 /\ stamp = [r \in LocalRequests |-> 0]
        /\ charged = [r \in LocalRequests |-> 0] /\ retry = [r \in LocalRequests |-> 0]
        /\ global = <<>> /\ byIP = [s \in Sources |-> <<>>]
    BY DEF InProcess!Init
  <1>2. \A r \in LocalRequests : \A k : List(r, k) = <<>>
    BY <1>1, QuotaConstants DEF List
  <1>3. InProcess!TypeOK /\ ProcessTimes
    BY <1>1 DEF InProcess!TypeOK, ProcessTimes, InProcess!Pending
  <1>4. FromCharged /\ AllInTurn /\ ProcessBlocked /\ ProcessFreed
    BY <1>1, <1>2 DEF FromCharged, AllInTurn, InTurn, ProcessBlocked, ProcessFreed
  <1>5. Cardinality({}) = 0
    BY FS_EmptySet
  <1>6. InList
    <2>1. \A r \in LocalRequests : \A k, time : Later(r, k, time) = {}
      BY <1>1 DEF Later
    <2> QED BY <1>5, <2>1 DEF InList
  <1>7. InProcess!WithinAllowance
    <2>1. ASSUME NEW R \in SUBSET LocalRequests, NEW t, NEW length
          PROVE  InProcess!During(R, t, length) = {}
      BY <1>1 DEF InProcess!During
    <2>2. ASSUME NEW s PROVE InProcess!Of(s) \in SUBSET LocalRequests
      BY DEF InProcess!Of
    <2>3. /\ \A t, length : InProcess!During(LocalRequests, t, length) = {}
          /\ \A s, t, length : InProcess!During(InProcess!Of(s), t, length) = {}
      BY <2>1, <2>2
    <2>4. /\ \A t, length : InProcess!Cardinality(InProcess!During(LocalRequests, t, length)) = 0
          /\ \A s, t, length :
               InProcess!Cardinality(InProcess!During(InProcess!Of(s), t, length)) = 0
      BY <1>5, <2>3, ProcessCounts
    <2>5. /\ CHATDailyLimit \in Nat /\ CHATIPMinuteLimit \in Nat
          /\ CHATIPHourLimit \in Nat /\ CHATIPDailyLimit \in Nat
      BY QuotaConstants
    <2> QED BY <2>4, <2>5 DEF InProcess!WithinAllowance
  <1> QED BY <1>3, <1>4, <1>6, <1>7 DEF ProcessInv

\* In the process, a rejected request's time is right to the second.
LEMMA ProcessWithinASecond ==
    ASSUME ProcessInv, \/ InProcess!Next
                       \/ UNCHANGED <<now, stamp, charged, retry, global, byIP>>
    PROVE  InProcess!WithinASecond
  <1> SUFFICES ASSUME NEW q \in LocalRequests, NEW r \in LocalRequests,
                      LocalSource[q] = LocalSource[r], retry[q] # 0
               PROVE  /\ charged'[r] # charged[r] =>
                           charged'[r] > stamp[q] + ((retry[q] - 1) * Second)
                      /\ retry'[r] # retry[r] /\ stamp[r] >= ComesBack(q) =>
                           \E m \in LocalRequests : charged[m] >= stamp[q]
    BY DEF InProcess!WithinASecond, ComesBack
  <1> SUFFICES ASSUME charged'[r] # charged[r] \/ retry'[r] # retry[r]
               PROVE  /\ charged'[r] # charged[r] =>
                           charged'[r] > stamp[q] + ((retry[q] - 1) * Second)
                      /\ retry'[r] # retry[r] /\ stamp[r] >= ComesBack(q) =>
                           \E m \in LocalRequests : charged[m] >= stamp[q]
    OBVIOUS
  <1>1. PICK p \in LocalRequests : InProcess!Consume(p)
    BY DEF InProcess!Next, InProcess!Call, InProcess!Tick
  <1>2. p = r
    BY <1>1, ProcessCharges
  <1>3. /\ InProcess!TypeOK /\ now \in Nat /\ stamp[r] \in Nat /\ stamp[r] <= now
        /\ stamp[q] \in Nat /\ retry[q] \in Nat
    BY DEF ProcessInv, InProcess!TypeOK, ProcessTimes
  <1>3a. /\ ComesBack(q) \in Nat /\ NotBefore(q) \in Int
         /\ NotBefore(q) = stamp[q] + ((retry[q] - 1) * Second) + 1
         /\ ((retry[q] - 1) * Second) \in Int
    <2>1. (retry[q] * Second) \in Nat /\ ((retry[q] - 1) * Second) \in Int
      BY <1>3, QuotaConstants, SecondsAre
    <2> QED BY <1>3, <2>1 DEF ComesBack, NotBefore
  <1>4. \A k : List(q, k) = List(r, k)
    BY DEF List
  <1>5. ASSUME charged'[r] # charged[r]
        PROVE  charged'[r] > stamp[q] + ((retry[q] - 1) * Second)
    <2>1. charged'[r] = now /\ InProcess!Full(r) = {}
      BY <1>1, <1>2, <1>5, ProcessCharges
    <2> SUFFICES ASSUME now < NotBefore(q) PROVE FALSE
      BY <1>3, <1>3a, <2>1
    <2>2. PICK k \in InRedis!Kinds :
            Many(List(r, k), InRedis!Limit[k], NotBefore(q) - InRedis!Period[k] - 1)
      BY <1>3, <1>3a, <1>4 DEF ProcessInv, ProcessBlocked
    <2> DEFINE before == NotBefore(q) - InRedis!Period[k] - 1
               cutoff == stamp[r] - InRedis!Period[k]
    <2>3. InRedis!Period[k] \in Nat /\ InRedis!Limit[k] \in Nat
      BY KindsWithinDay
    <2>4. before \in Int /\ cutoff \in Int /\ cutoff <= before
      BY <1>3, <1>3a, <2>3
    <2>5. List(r, k) \in Seq(Nat)
      BY <1>3, ListIs
    <2>6. Many(List(r, k), InRedis!Limit[k], cutoff)
      <3>1. Many(List(r, k), InRedis!Limit[k], before)
        BY <2>2
      <3> HIDE DEF before, cutoff
      <3> QED BY <2>3, <2>4, <2>5, <3>1, ManyLess
    <2> QED BY <1>3, <2>1, <2>6, FullIs
  <1>6. ASSUME retry'[r] # retry[r], stamp[r] >= ComesBack(q),
               ~\E m \in LocalRequests : charged[m] >= stamp[q]
        PROVE  FALSE
    <2>1. InProcess!Full(r) # {}
      BY <1>1, <1>2, <1>6, ProcessCharges
    <2>2. PICK k \in InRedis!Kinds :
            Many(List(r, k), InRedis!Limit[k], stamp[r] - InRedis!Period[k])
      BY <1>3, <2>1, FullIs
    <2> DEFINE after == ComesBack(q) - InRedis!Period[k]
               cutoff == stamp[r] - InRedis!Period[k]
    <2>3. InRedis!Period[k] \in Nat /\ InRedis!Limit[k] \in Nat
      BY KindsWithinDay
    <2>4. after \in Int /\ cutoff \in Int /\ after <= cutoff
      BY <1>3, <1>3a, <1>6, <2>3
    <2>5. List(r, k) \in Seq(Nat)
      BY <1>3, ListIs
    <2>6. Many(List(q, k), InRedis!Limit[k], after)
      <3>1. Many(List(r, k), InRedis!Limit[k], cutoff)
        BY <2>2
      <3> HIDE DEF after, cutoff
      <3> QED BY <1>4, <2>3, <2>4, <2>5, <3>1, ManyLess
    <2> QED BY <1>6, <2>6 DEF ProcessInv, ProcessFreed
  <1> QED BY <1>5, <1>6

-----------------------------------------------------------------------------
(* Either store *)

\* What holds of the quota, whichever store the stack has.
QuotaInv ==
  /\ store \in {"process", "redis"}
  /\ store = "process" => ProcessInv
  /\ store = "redis" => RedisInv

LEMMA StoreStays == ASSUME BucketsNext PROVE store' = store
  BY DEF BucketsNext, SecondPasses, CheckAttempt

LEMMA QuotaSteps ==
    ASSUME QuotaInv, [Next]_vars
    PROVE  /\ store' = store
           /\ store = "process" => \/ InProcess!Next
                                   \/ UNCHANGED <<now, stamp, charged, retry, global, byIP>>
           /\ store = "redis" =>
                \/ InRedis!Next
                \/ UNCHANGED <<now, stamp, answer, retry, charged, rows, expiry, faults>>
  <1>1. CASE asked = "quota" /\ QuotaNext /\ UNCHANGED <<asked, bucketVars>>
    BY <1>1 DEF QuotaNext, bucketVars
  <1>2. CASE asked = "attempts" /\ BucketsNext /\ UNCHANGED <<asked, quotaVars>>
    <2>1. UNCHANGED <<now, stamp, charged, retry, global, byIP, answer, rows, expiry, faults>>
      BY <1>2 DEF quotaVars, localVars, sharedVars
    <2>2. store' = store
      BY <1>2, StoreStays
    <2> QED BY <2>1, <2>2
  <1>3. CASE UNCHANGED vars
    BY <1>3 DEF vars, quotaVars, localVars, sharedVars, bucketVars
  <1> QED BY <1>1, <1>2, <1>3 DEF Next

LEMMA QuotaStep == ASSUME QuotaInv, [Next]_vars PROVE QuotaInv'
  BY QuotaSteps, ProcessStep, RedisStep, RedisRests DEF QuotaInv

LEMMA QuotaBegins == ASSUME Init PROVE QuotaInv
  <1>1. store \in {"process", "redis"}
    BY DEF Init, BucketsInit
  <1> QED BY <1>1, ProcessBegins, RedisBegins DEF Init, QuotaInv

\* For any requests, sources, windows and limits, whichever store counts them: no
\* window of real time holds more charged requests than its limit, up to the delay
\* of a call, and in Redis nobody is let through uncharged, whatever replies are
\* lost and scripts sent again.
THEOREM QuotaIsSound == Spec => []QuotaSound
  <1>1. Init => QuotaInv
    BY QuotaBegins
  <1>2. QuotaInv /\ [Next]_vars => QuotaInv'
    BY QuotaStep
  <1>3. QuotaInv => QuotaSound
    BY DEF QuotaInv, QuotaSound, ProcessInv, RedisInv
  <1> QED BY <1>1, <1>2, <1>3, PTL DEF Spec

\* A rejected source is told when to come back, right to the second: nobody from it
\* is let through more than a second before, and nobody rejected from then on, unless
\* somebody was charged after it asked; however calls overtake each other, in either
\* store.
THEOREM RetryIsWithinASecond == Spec => RetryWithinASecond
  <1>1. Init => QuotaInv
    BY QuotaBegins
  <1>2. QuotaInv /\ [Next]_vars => QuotaInv'
    BY QuotaStep
  <1>3. QuotaInv /\ [Next]_vars =>
          [/\ store = "process" => InProcess!WithinASecond
           /\ store = "redis" => InRedis!WithinASecond]_vars
    <2> SUFFICES ASSUME QuotaInv, [Next]_vars
                 PROVE  \/ /\ store = "process" => InProcess!WithinASecond
                           /\ store = "redis" => InRedis!WithinASecond
                        \/ UNCHANGED vars
      OBVIOUS
    <2>1. store = "process" => InProcess!WithinASecond
      BY QuotaSteps, ProcessWithinASecond DEF QuotaInv
    <2>2. store = "redis" => InRedis!WithinASecond
      <3>1. UNCHANGED <<charged, retry>> => InRedis!WithinASecond
        BY DEF InRedis!WithinASecond
      <3> QED BY <3>1, QuotaSteps, RedisWithinASecond DEF QuotaInv
    <2> QED BY <2>1, <2>2
  <1> QED BY <1>1, <1>2, <1>3, PTL DEF Spec, RetryWithinASecond
=============================================================================
