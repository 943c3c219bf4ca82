----------------------- MODULE DistributedLimiterProofs -----------------------
(***************************************************************************)
(* What holds of the Redis limiter for any number of requests, sources,    *)
(* instances, slots and faults.                                            *)
(***************************************************************************)
EXTENDS DistributedLimiter, FiniteSetTheorems, TLAPS

USE ConstantsAssumption DEF ConstantsAssumption, Absent

-----------------------------------------------------------------------------
(* Type correctness                                                        *)

LEMMA TryAcquireType ==
  ASSUME TypeOK, NEW r \in Requests,
         NEW gate \in {"acquired", "timedOut", "missing", "waiting"},
         TryAcquire(r, gate)
  PROVE  /\ granted' \in [Requests -> Nat]
         /\ identityKey' \in [Sources -> Nat]
         /\ queue' \in SUBSET Requests
         /\ active' \in [Requests -> Nat]
<1>1. Purged \in [Requests -> Nat]
  BY DEF TypeOK, Purged
<1>2. now + Lease \in Nat /\ now + Lease + Grace \in Nat
  BY DEF TypeOK
<1>3. active' \in [Requests -> Nat]
  BY <1>1, <1>2 DEF TryAcquire
<1>4. granted' \in [Requests -> Nat]
  BY DEF TypeOK, TryAcquire
<1>5. identityKey' \in [Sources -> Nat]
  BY <1>2 DEF TypeOK, TryAcquire
<1>6. queue' \in SUBSET Requests
  BY DEF TypeOK, TryAcquire
<1>7. QED
  BY <1>3, <1>4, <1>5, <1>6

LEMMA CommandType ==
  ASSUME TypeOK, NEW r \in Requests, Command(r)
  PROVE  /\ granted' \in [Requests -> Nat]
         /\ identityKey' \in [Sources -> Nat]
         /\ queue' \in SUBSET Requests
         /\ active' \in [Requests -> Nat]
<1>1. CASE SetIdentity(r)
  BY <1>1 DEF TypeOK, SetIdentity
<1>2. CASE AddToQueue(r)
  BY <1>2 DEF TypeOK, AddToQueue
<1>3. CASE DelIdentity(r)
  BY <1>3 DEF TypeOK, DelIdentity
<1>4. ASSUME NEW n \in 1..3, ReleasePipeline(r, n)
      PROVE  /\ granted' \in [Requests -> Nat]
             /\ identityKey' \in [Sources -> Nat]
             /\ queue' \in SUBSET Requests
             /\ active' \in [Requests -> Nat]
  BY <1>4 DEF TypeOK, ReleasePipeline
<1>5. QED
  BY <1>1, <1>2, <1>3, <1>4, TryAcquireType DEF Command

LEMMA TypeInit == Init => TypeOK
BY DEF Init, TypeOK, Places, Verdicts

LEMMA TypeStep == TypeOK /\ [Next]_vars => TypeOK'
<1> SUFFICES ASSUME TypeOK, [Next]_vars PROVE TypeOK'
  OBVIOUS
<1> USE DEF TypeOK, Places, Verdicts, Goto, Answer, count, store
<1>1. ASSUME NEW r \in Requests, Arrive(r) PROVE TypeOK'
  BY <1>1 DEF Arrive
<1>2. ASSUME NEW r \in Requests, ClaimIdentity(r) PROVE TypeOK'
  BY <1>2 DEF ClaimIdentity, SetIdentity
<1>3. ASSUME NEW r \in Requests, CheckRoom(r) PROVE TypeOK'
  BY <1>3 DEF CheckRoom
<1>4. ASSUME NEW r \in Requests, GiveUp(r) PROVE TypeOK'
  BY <1>4 DEF GiveUp, DelIdentity
<1>5. ASSUME NEW r \in Requests, Join(r) PROVE TypeOK'
  BY <1>5 DEF Join, AddToQueue
<1>6. ASSUME NEW r \in Requests, FirstAttempt(r) PROVE TypeOK'
  BY <1>6, TryAcquireType DEF FirstAttempt
<1>7. ASSUME NEW r \in Requests, CancelEnter(r) PROVE TypeOK'
  BY <1>7 DEF CancelEnter, ReleasePipeline
<1>8. ASSUME NEW r \in Requests, ReadBody(r) PROVE TypeOK'
  BY <1>8 DEF ReadBody
<1>9. ASSUME NEW r \in Requests, Poll(r) PROVE TypeOK'
  BY <1>9, TryAcquireType DEF Poll
<1>10. ASSUME NEW r \in Requests, Rest(r) PROVE TypeOK'
  BY <1>10 DEF Rest
<1>11. ASSUME NEW r \in Requests, CancelWait(r) PROVE TypeOK'
  BY <1>11 DEF CancelWait, ReleasePipeline
<1>12. ASSUME NEW r \in Requests, Serve(r) PROVE TypeOK'
  BY <1>12 DEF Serve
<1>13. ASSUME NEW r \in Requests, Release(r) PROVE TypeOK'
  BY <1>13 DEF Release, ReleasePipeline
<1>14. ASSUME NEW r \in Requests, Disconnect(r) PROVE TypeOK'
  BY <1>14 DEF Disconnect
<1>15. ASSUME NEW r \in Requests, RedisFault(r) PROVE TypeOK'
  <2>1. /\ granted' \in [Requests -> Nat]
        /\ identityKey' \in [Sources -> Nat]
        /\ queue' \in SUBSET Requests
        /\ active' \in [Requests -> Nat]
    BY <1>15, CommandType DEF RedisFault
  <2>2. pc' \in [Requests -> Places]
    BY <1>15 DEF RedisFault, AfterError
  <2>3. verdict' \in [Requests -> Verdicts]
    BY <1>15 DEF RedisFault
  <2>4. QED
    BY <1>15, <2>1, <2>2, <2>3 DEF RedisFault
<1>16. ASSUME NEW i \in Instances, Crash(i) PROVE TypeOK'
  BY <1>16 DEF Crash
<1>17. CASE Tick
  BY <1>17 DEF Tick
<1>18. CASE UNCHANGED vars
  BY <1>18 DEF vars
<1>19. QED
  BY <1>1, <1>2, <1>3, <1>4, <1>5, <1>6, <1>7, <1>8, <1>9, <1>10, <1>11, <1>12,
     <1>13, <1>14, <1>15, <1>16, <1>17, <1>18 DEF Next, Step

\* Every variable keeps its kind of value, whatever fails or crashes.
THEOREM TypeCorrect == Spec => []TypeOK
BY TypeInit, TypeStep, PTL DEF Spec

-----------------------------------------------------------------------------
(* The invariant behind exclusivity and the execution bound                *)

\* No failed command, and no request of s that ended by a Cancel.
Clean(s) ==
  /\ faults = 0
  /\ \A q \in Requests : Source[q] = s => verdict[q] \notin CancelCodes

\* A request is granted nothing before it has its identity key.
Untouched == \A r \in Requests : pc[r] \in {"idle", "setnx"} => granted[r] = Absent

\* The clock has not passed what the code's own timeouts allow.
OnTime == now >= 1 /\ \A r \in Live : stamp[r] <= now /\ now <= Due(r)

\* Until it leaves the wait, a request has no verdict, so none is overwritten.
Unanswered ==
  \A r \in Requests :
    pc[r] \in {"idle", "setnx", "zcard", "zadd", "try", "read", "readQueued",
               "poll", "rest", "run"} => verdict[r] = "none"

\* Cancel runs for the codes that stand for it.
CancelsAnswered ==
  \A r \in Requests :
    pc[r] \in {"cancelEnter", "cancelWait"} => verdict[r] \in CancelCodes

\* The identity key outlives the request that holds it.
KeyOutlives ==
  \A r \in Ticketed :
    Clean(Source[r]) => identityKey[Source[r]] > Due(r)

OneTicket ==
  \A r, m \in Ticketed : Source[r] = Source[m] /\ Clean(Source[r]) => r = m

KeyInv == /\ TypeOK /\ Untouched /\ OnTime /\ Unanswered /\ CancelsAnswered
          /\ KeyOutlives /\ OneTicket

\* A slot carries the lease of the grant that made it.
SlotScores ==
  \A r \in Slots : granted[r] # Absent /\ active[r] = granted[r] + Lease

\* Whoever executes holds a slot, and there are at most CHATMaxConcurrent.
SlotInv == /\ SlotScores
           /\ Executing \subseteq Slots
           /\ Cardinality(Slots) <= CHATMaxConcurrent

-----------------------------------------------------------------------------
(* KeyInv is inductive                                                     *)

\* A step of r that leaves the keys and the clock alone, and moves r on.
LEMMA KeyQuiet ==
  ASSUME KeyInv, TypeOK', NEW r \in Requests,
         UNCHANGED <<now, stamp, identityKey, granted, count>>,
         pc[r] \notin {"idle", "setnx", "done", "dead"},
         pc' = [pc EXCEPT ![r] = pc'[r]],
         pc'[r] \notin {"idle", "setnx"},
         \/ UNCHANGED verdict
         \/ /\ verdict[r] = "none"
            /\ verdict' = [verdict EXCEPT ![r] = verdict'[r]]
            /\ pc'[r] \in {"giveUp", "cancelEnter", "cancelWait", "release"},
         pc'[r] \in {"zcard", "zadd", "try", "read", "readQueued", "poll", "rest",
                    "run"}
           => verdict'[r] = "none",
         pc'[r] \in {"cancelEnter", "cancelWait"} => verdict'[r] \in CancelCodes
  PROVE  KeyInv'
<1> USE DEF KeyInv, TypeOK, store, count
<1>1. \A q \in Requests : verdict[q] \in CancelCodes => verdict'[q] \in CancelCodes
  BY DEF CancelCodes
<1>2. \A s \in Sources : Clean(s)' => Clean(s)
  BY <1>1 DEF Clean
<1>3. Live' \subseteq Live /\ Ticketed' \subseteq Ticketed
  BY DEF Live, Ticketed
<1>4. Untouched'
  BY DEF Untouched
<1>5. OnTime'
  BY <1>3 DEF OnTime, Due
<1>6. Unanswered' /\ CancelsAnswered'
  BY DEF Unanswered, CancelsAnswered
<1>7. KeyOutlives'
  BY <1>2, <1>3 DEF KeyOutlives, Due, Ticketed, Live
<1>8. OneTicket'
  BY <1>2, <1>3 DEF OneTicket, Ticketed, Live
<1>9. QED
  BY <1>4, <1>5, <1>6, <1>7, <1>8

\* A step of r that deletes the identity key: r leaves, or its source has seen
\* a Cancel.
LEMMA KeyErase ==
  ASSUME KeyInv, TypeOK', NEW r \in Requests, r \in Ticketed,
         UNCHANGED <<now, stamp, verdict, granted, count>>,
         identityKey' = [identityKey EXCEPT ![Source[r]] = Absent],
         pc' = [pc EXCEPT ![r] = pc'[r]],
         \/ pc'[r] = "done"
         \/ pc'[r] = "release" /\ verdict[r] \in CancelCodes
  PROVE  KeyInv'
<1> USE DEF KeyInv, TypeOK, count
<1>1. \A s \in Sources : Clean(s)' => Clean(s)
  BY DEF Clean
<1>2. Live' \subseteq Live /\ Ticketed' \subseteq Ticketed
  BY DEF Live, Ticketed
<1>3. Untouched'
  BY DEF Untouched
<1>4. OnTime'
  BY <1>2 DEF OnTime, Due, Live, Ticketed
<1>5. Unanswered' /\ CancelsAnswered'
  BY DEF Unanswered, CancelsAnswered
<1>6. KeyOutlives'
  <2> SUFFICES ASSUME NEW m \in Ticketed', Clean(Source[m])'
               PROVE  identityKey'[Source[m]] > Due(m)'
    BY DEF KeyOutlives
  <2>1. m \in Ticketed /\ m \in Requests /\ Clean(Source[m]) /\ Source[m] \in Sources
    BY <1>1, <1>2 DEF Ticketed, Live
  <2>2. Source[m] # Source[r]
    <3> SUFFICES ASSUME Source[m] = Source[r] PROVE FALSE
      OBVIOUS
    <3>1. m = r
      BY <2>1 DEF OneTicket
    <3>2. pc'[r] # "done"
      BY <3>1 DEF Ticketed, Live
    <3>3. QED
      BY <2>1, <3>1, <3>2 DEF Clean
  <2>3. QED
    BY <2>1, <2>2 DEF KeyOutlives, Due
<1>7. OneTicket'
  BY <1>1, <1>2 DEF OneTicket, Ticketed, Live
<1>8. QED
  BY <1>3, <1>4, <1>5, <1>6, <1>7

\* The script grants a slot: the identity key is still there, and its new TTL
\* covers the lease.
LEMMA KeyGrant ==
  ASSUME KeyInv, TypeOK', NEW r \in Requests, pc[r] \in {"try", "poll"},
         UNCHANGED <<now, stamp, verdict, count>>,
         granted' = [granted EXCEPT ![r] = now],
         identityKey' = [identityKey EXCEPT ![Source[r]] =
                           IF @ > now THEN now + Lease + Grace ELSE @],
         pc' = [pc EXCEPT ![r] = pc'[r]], pc'[r] \in {"read", "run"}
  PROVE  KeyInv'
<1> USE TimingAssumption DEF TimingAssumption, KeyInv, TypeOK, count
<1>1. \A s \in Sources : Clean(s)' => Clean(s)
  BY DEF Clean
<1>2. Live' = Live /\ Ticketed' = Ticketed /\ r \in Ticketed
  BY DEF Live, Ticketed
<1>3. Untouched'
  BY DEF Untouched
<1>4. now >= 1 /\ Due(r)' = now + HoldMax
  BY DEF Due, OnTime
<1>5. \A m \in Live : m # r => Due(m)' = Due(m)
  BY DEF Due, Live
<1>6. OnTime'
  BY <1>2, <1>4, <1>5 DEF OnTime
<1>7. Unanswered' /\ CancelsAnswered'
  BY DEF Unanswered, CancelsAnswered
<1>8. KeyOutlives'
  <2> SUFFICES ASSUME NEW m \in Ticketed, Clean(Source[m])
               PROVE  identityKey'[Source[m]] > Due(m)'
    BY <1>1, <1>2 DEF KeyOutlives, Ticketed, Live
  <2>0. m \in Requests /\ m \in Live /\ Source[m] \in Sources
        /\ Source[r] \in Sources
    BY DEF Ticketed, Live
  <2>1. CASE Source[m] = Source[r]
    <3>1. m = r
      BY <1>2, <2>1 DEF OneTicket
    <3>2. identityKey[Source[r]] > now
      BY <1>2, <2>0, <3>1 DEF KeyOutlives, OnTime, Due
    <3>3. QED
      BY <1>4, <2>0, <3>1, <3>2
  <2>2. CASE Source[m] # Source[r]
    BY <1>5, <2>0, <2>2 DEF KeyOutlives
  <2>3. QED
    BY <2>1, <2>2
<1>9. OneTicket'
  BY <1>1, <1>2 DEF OneTicket, Ticketed, Live
<1>10. QED
  BY <1>3, <1>6, <1>7, <1>8, <1>9

\* The script turns r away: from now on its source has seen a Cancel.
LEMMA KeyTimeout ==
  ASSUME KeyInv, TypeOK', NEW r \in Requests, pc[r] \in {"try", "poll"},
         UNCHANGED <<now, stamp, granted, count>>,
         identityKey' = [identityKey EXCEPT ![Source[r]] = Absent],
         pc' = [pc EXCEPT ![r] = pc'[r]],
         pc'[r] \in {"cancelEnter", "cancelWait"},
         verdict' = [verdict EXCEPT ![r] = "queue_timeout"]
  PROVE  KeyInv'
<1> USE DEF KeyInv, TypeOK, count
<1>1. verdict[r] = "none"
  BY DEF Unanswered
<1>2. \A s \in Sources : Clean(s)' => Clean(s) /\ s # Source[r]
  BY <1>1 DEF Clean, CancelCodes
<1>3. Live' = Live /\ Ticketed' = Ticketed
  BY DEF Live, Ticketed
<1>4. Untouched'
  BY DEF Untouched
<1>5. OnTime'
  BY <1>3 DEF OnTime, Due, Live
<1>6. Unanswered' /\ CancelsAnswered'
  BY DEF Unanswered, CancelsAnswered, CancelCodes
<1>7. KeyOutlives'
  BY <1>2, <1>3 DEF KeyOutlives, Due, Ticketed, Live
<1>8. OneTicket'
  BY <1>2, <1>3 DEF OneTicket, Ticketed, Live
<1>9. QED
  BY <1>4, <1>5, <1>6, <1>7, <1>8

\* SETNX succeeds only if nobody of a clean source holds a ticket.
LEMMA KeyClaim ==
  ASSUME KeyInv, TypeOK', NEW r \in Requests, ClaimIdentity(r)
  PROVE  KeyInv'
<1> USE TimingAssumption
    DEF TimingAssumption, KeyInv, TypeOK, count, Goto, Answer
<1>0. /\ pc[r] = "setnx" /\ verdict[r] = "none" /\ granted[r] = Absent
      /\ r \in Live /\ Source[r] \in Sources
  BY DEF ClaimIdentity, Unanswered, Untouched, Live
<1>1. CASE KeyExists(Source[r])
  <2>1. /\ UNCHANGED <<now, stamp, granted, count>>
        /\ pc' = [pc EXCEPT ![r] = "done"]
        /\ verdict' = [verdict EXCEPT ![r] = "concurrency"]
        /\ identityKey' = identityKey
    BY <1>0, <1>1 DEF ClaimIdentity, SetIdentity, KeyExists
  <2>2. \A s \in Sources : Clean(s)' => Clean(s)
    BY <1>0, <2>1 DEF Clean, CancelCodes
  <2>3. Live' \subseteq Live /\ Ticketed' \subseteq Ticketed
    BY <1>0, <2>1 DEF Live, Ticketed
  <2>4. Untouched' /\ Unanswered' /\ CancelsAnswered'
    BY <1>0, <2>1 DEF Untouched, Unanswered, CancelsAnswered
  <2>5. OnTime'
    BY <2>1, <2>3 DEF OnTime, Due
  <2>6. KeyOutlives'
    BY <2>1, <2>2, <2>3 DEF KeyOutlives, Due, Ticketed, Live
  <2>7. OneTicket'
    BY <2>1, <2>2, <2>3 DEF OneTicket, Ticketed, Live
  <2>8. QED
    BY <2>4, <2>5, <2>6, <2>7
<1>2. CASE ~KeyExists(Source[r])
  <2>1. /\ UNCHANGED <<now, stamp, verdict, granted, count>>
        /\ pc' = [pc EXCEPT ![r] = "zcard"]
        /\ identityKey' = [identityKey EXCEPT ![Source[r]] =
                             now + Wait + Lease + Grace]
    BY <1>0, <1>2 DEF ClaimIdentity, SetIdentity, KeyExists
  <2>2. \A s \in Sources : Clean(s)' <=> Clean(s)
    BY <2>1 DEF Clean
  <2>3. Live' = Live /\ Ticketed' = Ticketed \cup {r} /\ r \notin Ticketed
    BY <1>0, <2>1 DEF Live, Ticketed
  <2>4. Untouched' /\ Unanswered' /\ CancelsAnswered'
    BY <1>0, <2>1 DEF Untouched, Unanswered, CancelsAnswered
  <2>5. OnTime'
    BY <2>1, <2>3 DEF OnTime, Due
  <2>6. \A m \in Ticketed : Clean(Source[m]) => Source[m] # Source[r]
    <3> SUFFICES ASSUME NEW m \in Ticketed, Clean(Source[m]),
                        Source[m] = Source[r]
                 PROVE  FALSE
      OBVIOUS
    <3>1. now <= Due(m) /\ identityKey[Source[m]] > Due(m) /\ m \in Requests
      BY DEF KeyOutlives, OnTime, Ticketed, Live
    <3>2. QED
      BY <1>0, <1>2, <3>1 DEF KeyExists, Due
  <2>7. KeyOutlives'
    <3> SUFFICES ASSUME NEW m \in Ticketed', Clean(Source[m])
                 PROVE  identityKey'[Source[m]] > Due(m)'
      BY <2>1, <2>2, <2>3 DEF KeyOutlives, Ticketed, Live
    <3>1. CASE m = r
      <4>1. stamp[r] <= now /\ Due(r)' = stamp[r] + EntryMax
        BY <1>0, <2>1 DEF OnTime, Due
      <4>2. identityKey'[Source[r]] = now + Wait + Lease + Grace
        BY <1>0, <2>1
      <4>3. now \in Nat /\ stamp[r] \in Nat
        OBVIOUS
      <4>4. now + Wait + Lease + Grace > stamp[r] + EntryMax
        BY <4>1, <4>3
      <4>5. QED
        BY <3>1, <4>1, <4>2, <4>4
    <3>2. CASE m # r
      <4>1. m \in Ticketed /\ m \in Requests /\ Source[m] \in Sources
        BY <2>3, <3>2 DEF Ticketed, Live
      <4>2. Source[m] # Source[r]
        BY <2>6, <4>1
      <4>3. QED
        BY <1>0, <2>1, <4>1, <4>2 DEF KeyOutlives, Due
    <3>3. QED
      BY <3>1, <3>2
  <2>8. OneTicket'
    BY <2>1, <2>2, <2>3, <2>6 DEF OneTicket, Ticketed, Live
  <2>9. QED
    BY <2>4, <2>5, <2>7, <2>8
<1>3. QED
  BY <1>1, <1>2

\* After a failed command no source is clean.
LEMMA KeyFault ==
  ASSUME KeyInv, TypeOK', NEW r \in Requests, RedisFault(r)
  PROVE  KeyInv'
<1> USE DEF KeyInv, TypeOK, count, Goto, Answer
<1>1. \A s \in Sources : ~Clean(s)'
  BY DEF RedisFault, Clean
<1>2. KeyOutlives' /\ OneTicket'
  BY <1>1 DEF KeyOutlives, OneTicket, Ticketed, Live
<1>3. /\ pc[r] \in DOMAIN AfterError
      /\ UNCHANGED <<now, stamp, gone>>
      /\ \/ UNCHANGED <<pc, verdict>>
         \/ pc' = [pc EXCEPT ![r] = AfterError[pc[r]]]
      /\ \A m \in Requests : m # r => verdict'[m] = verdict[m]
  BY DEF RedisFault
<1>4. /\ \A m \in Requests : m # r => granted'[m] = granted[m]
      /\ granted'[r] = granted[r]
         \/ (pc[r] \in {"try", "poll"} /\ granted'[r] = now)
  <2>1. CASE UNCHANGED store
    BY <2>1 DEF store
  <2>2. CASE Command(r)
    BY <2>2 DEF Command, SetIdentity, AddToQueue, DelIdentity, ReleasePipeline,
                TryAcquire
  <2>3. QED
    BY <2>1, <2>2 DEF RedisFault
<1>5. r \in Live /\ Live' \subseteq Live
  BY <1>3 DEF Live, AfterError
<1>6. Untouched'
  BY <1>3, <1>4 DEF Untouched, AfterError
<1>7. OnTime'
  <2> SUFFICES ASSUME NEW m \in Live'
               PROVE  stamp'[m] <= now' /\ now' <= Due(m)'
    BY <1>3 DEF OnTime
  <2>1. m \in Live /\ m \in Requests
    BY <1>5 DEF Live
  <2>2. granted'[m] = granted[m] \/ granted'[m] = now
    BY <1>4, <2>1
  <2>3. CASE granted'[m] = granted[m]
    BY <1>3, <2>1, <2>3 DEF OnTime, Due
  <2>4. CASE granted'[m] = now
    BY <1>3, <2>1, <2>4 DEF OnTime, Due
  <2>5. QED
    BY <2>2, <2>3, <2>4
<1>8. Unanswered'
  BY <1>3 DEF Unanswered, RedisFault, AfterError
<1>9. CancelsAnswered'
  BY <1>3 DEF CancelsAnswered, RedisFault, AfterError, CancelCodes
<1>10. QED
  BY <1>2, <1>6, <1>7, <1>8, <1>9

LEMMA KeyInitially == Init => KeyInv
<1> SUFFICES ASSUME Init PROVE KeyInv
  OBVIOUS
<1>1. TypeOK
  BY TypeInit
<1>2. Live = {} /\ Ticketed = {}
  BY DEF Init, Live, Ticketed
<1>3. Untouched /\ OnTime /\ Unanswered /\ CancelsAnswered
  BY <1>2 DEF Init, Untouched, OnTime, Unanswered, CancelsAnswered
<1>4. KeyOutlives /\ OneTicket
  BY <1>2 DEF KeyOutlives, OneTicket
<1>5. QED
  BY <1>1, <1>3, <1>4 DEF KeyInv

LEMMA KeyStep == KeyInv /\ [Next]_vars => KeyInv'
<1> SUFFICES ASSUME KeyInv, [Next]_vars PROVE KeyInv'
  OBVIOUS
<1>0. TypeOK /\ TypeOK'
  BY TypeStep DEF KeyInv
<1> USE <1>0 DEF Goto, Answer
<1>1. ASSUME NEW r \in Requests, Arrive(r) PROVE KeyInv'
  <2> USE DEF KeyInv, TypeOK
  <2>1. /\ UNCHANGED <<now, verdict, identityKey, granted, faults>>
        /\ pc[r] = "idle" /\ pc' = [pc EXCEPT ![r] = "setnx"]
        /\ stamp' = [stamp EXCEPT ![r] = now]
    BY <1>1 DEF Arrive, store, count
  <2>2. Live' = Live \cup {r} /\ Ticketed' = Ticketed /\ r \notin Ticketed
    BY <2>1 DEF Live, Ticketed
  <2>3. Untouched' /\ Unanswered' /\ CancelsAnswered'
    BY <2>1 DEF Untouched, Unanswered, CancelsAnswered
  <2>4. OnTime'
    BY <2>1, <2>2 DEF OnTime, Due, Untouched
  <2>5. KeyOutlives' /\ OneTicket'
    BY <2>1, <2>2 DEF KeyOutlives, OneTicket, Clean, Due, Ticketed, Live
  <2>6. QED
    BY <2>3, <2>4, <2>5
<1>2. ASSUME NEW r \in Requests, ClaimIdentity(r) PROVE KeyInv'
  BY <1>2, KeyClaim
<1>3. ASSUME NEW r \in Requests, CheckRoom(r) PROVE KeyInv'
  <2>1. verdict[r] = "none"
    BY <1>3 DEF CheckRoom, KeyInv, Unanswered
  <2>2. QED
    BY <1>3, <2>1, KeyQuiet DEF CheckRoom, store, TypeOK
<1>4. ASSUME NEW r \in Requests, GiveUp(r) PROVE KeyInv'
  <2>1. r \in Ticketed
    BY <1>4 DEF GiveUp, Ticketed, Live
  <2>2. QED
    BY <1>4, <2>1, KeyErase DEF GiveUp, DelIdentity, TypeOK
<1>5. ASSUME NEW r \in Requests, Join(r) PROVE KeyInv'
  <2>1. verdict[r] = "none"
    BY <1>5 DEF Join, KeyInv, Unanswered
  <2>2. QED
    BY <1>5, <2>1, KeyQuiet DEF Join, AddToQueue, TypeOK
<1>6. ASSUME NEW r \in Requests, ReadBody(r) \/ Rest(r) \/ Serve(r)
      PROVE KeyInv'
  <2>1. verdict[r] = "none"
    BY <1>6 DEF ReadBody, Rest, Serve, KeyInv, Unanswered
  <2>2. CASE ReadBody(r)
    BY <2>2, <2>1, KeyQuiet DEF ReadBody, store, TypeOK
  <2>3. CASE Rest(r)
    BY <2>3, <2>1, KeyQuiet DEF Rest, store, TypeOK, CancelCodes
  <2>4. CASE Serve(r)
    BY <2>4, <2>1, KeyQuiet DEF Serve, store, TypeOK
  <2>5. QED
    BY <1>6, <2>2, <2>3, <2>4
<1>7. ASSUME NEW r \in Requests, FirstAttempt(r) \/ Poll(r) PROVE KeyInv'
  <2>1. /\ pc[r] \in {"try", "poll"} /\ verdict[r] = "none"
        /\ UNCHANGED <<now, stamp, count>>
    BY <1>7 DEF FirstAttempt, Poll, KeyInv, Unanswered
  <2>2. CASE /\ UNCHANGED <<identityKey, granted>>
             /\ \/ /\ UNCHANGED verdict
                   /\ \E place \in {"read", "readQueued", "rest", "run"} :
                        Goto(r, place)
                \/ /\ verdict' = [verdict EXCEPT ![r] = "queue_timeout"]
                   /\ \E place \in {"release", "cancelEnter", "cancelWait"} :
                        Goto(r, place)
    BY <2>1, <2>2, KeyQuiet DEF TypeOK, CancelCodes
  <2>3. CASE /\ UNCHANGED verdict
             /\ Goto(r, "read") \/ Goto(r, "run")
             /\ granted' = [granted EXCEPT ![r] = now]
             /\ identityKey' = [identityKey EXCEPT ![Source[r]] =
                                  IF @ > now THEN now + Lease + Grace ELSE @]
    BY <2>1, <2>3, KeyGrant DEF TypeOK
  <2>4. CASE /\ verdict' = [verdict EXCEPT ![r] = "queue_timeout"]
             /\ Goto(r, "cancelEnter") \/ Goto(r, "cancelWait")
             /\ UNCHANGED granted
             /\ identityKey' = [identityKey EXCEPT ![Source[r]] = Absent]
    BY <2>1, <2>4, KeyTimeout DEF TypeOK
  <2>5. QED
    BY <1>7, <2>2, <2>3, <2>4 DEF FirstAttempt, Poll, TryAcquire, store
<1>8. ASSUME NEW r \in Requests,
             CancelEnter(r) \/ CancelWait(r) \/ Release(r)
      PROVE KeyInv'
  <2>1. r \in Ticketed
    BY <1>8 DEF CancelEnter, CancelWait, Release, Ticketed, Live
  <2>2. pc[r] = "cancelWait" => verdict[r] \in CancelCodes
    BY DEF KeyInv, CancelsAnswered
  <2>3. QED
    BY <1>8, <2>1, <2>2, KeyErase
    DEF CancelEnter, CancelWait, Release, ReleasePipeline, TypeOK
<1>9. ASSUME NEW r \in Requests, Disconnect(r) PROVE KeyInv'
  BY <1>9 DEF Disconnect, store, count, KeyInv, Untouched, OnTime, Unanswered,
              CancelsAnswered, KeyOutlives, OneTicket, Clean, Due, Ticketed, Live
<1>10. ASSUME NEW r \in Requests, RedisFault(r) PROVE KeyInv'
  BY <1>10, KeyFault
<1>11. ASSUME NEW i \in Instances, Crash(i) PROVE KeyInv'
  <2> USE DEF KeyInv, TypeOK
  <2>1. /\ UNCHANGED <<now, stamp, verdict, identityKey, granted, faults>>
        /\ \A r \in Requests : pc'[r] = pc[r] \/ pc'[r] = "dead"
    BY <1>11 DEF Crash, store
  <2>2. Live' \subseteq Live /\ Ticketed' \subseteq Ticketed
    BY <2>1 DEF Live, Ticketed
  <2>3. Untouched' /\ Unanswered' /\ CancelsAnswered'
    BY <2>1 DEF Untouched, Unanswered, CancelsAnswered
  <2>4. OnTime'
    BY <2>1, <2>2 DEF OnTime, Due
  <2>5. KeyOutlives' /\ OneTicket'
    BY <2>1, <2>2 DEF KeyOutlives, OneTicket, Clean, Due
  <2>6. QED
    BY <2>3, <2>4, <2>5
<1>12. CASE Tick
  <2> USE DEF KeyInv, TypeOK
  <2>1. /\ UNCHANGED <<pc, stamp, verdict, identityKey, granted, faults>>
        /\ now' = now + 1
        /\ \A r \in Live : now < Due(r)
    BY <1>12 DEF Tick, store, count
  <2>2. Live' = Live /\ Ticketed' = Ticketed
    BY <2>1 DEF Live, Ticketed
  <2>3. OnTime'
    BY <2>1, <2>2 DEF OnTime, Due, Live
  <2>4. Untouched' /\ Unanswered' /\ CancelsAnswered'
    BY <2>1 DEF Untouched, Unanswered, CancelsAnswered
  <2>5. KeyOutlives' /\ OneTicket'
    BY <2>1, <2>2 DEF KeyOutlives, OneTicket, Clean, Due
  <2>6. QED
    BY <2>3, <2>4, <2>5
<1>13. CASE UNCHANGED vars
  BY <1>13 DEF vars, KeyInv, TypeOK, Untouched, OnTime, Unanswered,
              CancelsAnswered, KeyOutlives, OneTicket, Clean, Due, Ticketed, Live
<1>14. QED
  BY <1>1, <1>2, <1>3, <1>4, <1>5, <1>6, <1>7, <1>8, <1>9, <1>10, <1>11, <1>12,
     <1>13 DEF Next, Step

\* While no command fails and no request of a source ends by a Cancel, at most
\* one request of that source is between its SETNX and its Release.
THEOREM Exclusive == Spec => []ExclusiveUntilCancelled
<1>1. KeyInv => ExclusiveUntilCancelled
  <2> SUFFICES ASSUME KeyInv, NEW r \in Ticketed, NEW m \in Ticketed,
                      Source[r] = Source[m], r # m, ~(faults > 0)
               PROVE  \E q \in Requests :
                        Source[q] = Source[r] /\ verdict[q] \in CancelCodes
    BY DEF ExclusiveUntilCancelled
  <2>1. faults = 0
    BY DEF KeyInv, TypeOK
  <2>2. ~Clean(Source[r])
    BY DEF KeyInv, OneTicket
  <2>3. QED
    BY <2>1, <2>2 DEF Clean
<1>2. QED
  BY <1>1, KeyInitially, KeyStep, PTL DEF Spec

-----------------------------------------------------------------------------
(* The execution bound                                                     *)

\* A lease outlives the work it covers: no purge takes an executing request.
LEMMA Covered ==
  ASSUME KeyInv, SlotInv
  PROVE  Executing \subseteq SlotsAfterPurge /\ SlotsAfterPurge \subseteq Slots
<1> USE TimingAssumption DEF TimingAssumption, KeyInv, TypeOK, SlotInv
<1>1. ASSUME NEW r \in Executing PROVE r \in SlotsAfterPurge
  <2>1. r \in Requests /\ r \in Live /\ r \in Slots
    BY DEF Executing, Live
  <2>2. granted[r] # Absent /\ active[r] = granted[r] + Lease
    BY <2>1 DEF SlotScores
  <2>3. now <= granted[r] + HoldMax
    BY <2>1, <2>2 DEF OnTime, Due
  <2>4. active[r] > now
    BY <2>1, <2>2, <2>3
  <2>5. QED
    BY <2>1, <2>4 DEF SlotsAfterPurge
<1>2. SlotsAfterPurge \subseteq Slots
  BY DEF SlotsAfterPurge, Slots
<1>3. QED
  BY <1>1, <1>2

LEMMA SlotsFinite == IsFiniteSet(Requests) => /\ IsFiniteSet(Slots)
                                              /\ IsFiniteSet(SlotsAfterPurge)
                                              /\ IsFiniteSet(Executing)
<1>1. /\ Slots \subseteq Requests /\ SlotsAfterPurge \subseteq Requests
      /\ Executing \subseteq Requests
  BY DEF Slots, SlotsAfterPurge, Executing
<1>2. QED
  BY <1>1, FS_Subset

\* A step that makes no grant: slots may go, those that stay keep their lease.
LEMMA SlotKeep ==
  ASSUME KeyInv, SlotInv, TypeOK',
         \A m \in Requests : active'[m] \in {active[m], Absent},
         \A m \in Slots' : granted'[m] = granted[m],
         Executing' \subseteq Slots'
  PROVE  SlotInv'
<1> USE DEF KeyInv, TypeOK, SlotInv
<1>1. Slots' \subseteq Slots /\ \A m \in Slots' : active'[m] = active[m]
  BY DEF Slots
<1>2. SlotScores'
  BY <1>1 DEF SlotScores
<1>3. Cardinality(Slots') <= CHATMaxConcurrent
  <2>1. IsFiniteSet(Slots)
    BY SlotsFinite
  <2>2. /\ Cardinality(Slots) \in Nat /\ Cardinality(Slots') \in Nat
        /\ Cardinality(Slots') <= Cardinality(Slots)
    BY <1>1, <2>1, FS_Subset, FS_CardinalityType
  <2>3. QED
    BY <2>2
<1>4. QED
  BY <1>2, <1>3

\* The script grants r a slot because a slot is free.
LEMMA SlotGrant ==
  ASSUME KeyInv, SlotInv, TypeOK', NEW r \in Requests,
         r \notin SlotsAfterPurge, Admissible(r),
         active' = [Purged EXCEPT ![r] = now + Lease],
         granted' = [granted EXCEPT ![r] = now],
         Executing' \subseteq Executing \cup {r}
  PROVE  SlotInv'
<1> USE DEF KeyInv, TypeOK, SlotInv
<1>1. now >= 1 /\ now + Lease # Absent
  BY DEF OnTime
<1>2. Slots' = SlotsAfterPurge \cup {r}
  <2>1. active'[r] # Absent
    BY <1>1
  <2>2. \A m \in Requests \ {r} : active'[m] # Absent <=> active[m] > now
    BY DEF Purged
  <2>3. QED
    BY <2>1, <2>2 DEF Slots, SlotsAfterPurge
<1>3. SlotScores'
  <2> SUFFICES ASSUME NEW m \in Slots'
               PROVE  granted'[m] # Absent /\ active'[m] = granted'[m] + Lease
    BY DEF SlotScores
  <2>1. CASE m = r
    BY <1>1, <2>1
  <2>2. CASE m # r
    <3>1. m \in SlotsAfterPurge /\ m \in Slots /\ m \in Requests
      BY <1>2, <2>2, Covered DEF SlotsAfterPurge
    <3>2. active'[m] = active[m] /\ granted'[m] = granted[m]
      BY <2>2, <3>1 DEF Purged, SlotsAfterPurge
    <3>3. QED
      BY <3>1, <3>2 DEF SlotScores
  <2>3. QED
    BY <2>1, <2>2
<1>4. Executing' \subseteq Slots'
  BY <1>2, Covered
<1>5. Cardinality(Slots') <= CHATMaxConcurrent
  <2>1. IsFiniteSet(SlotsAfterPurge)
    BY SlotsFinite
  <2>2. /\ Cardinality(SlotsAfterPurge) \in Nat
        /\ Cardinality(Slots') = Cardinality(SlotsAfterPurge) + 1
    BY <1>2, <2>1, FS_AddElement, FS_CardinalityType
  <2>3. Cardinality(SlotsAfterPurge) < CHATMaxConcurrent
    BY DEF Admissible
  <2>4. QED
    BY <2>2, <2>3
<1>6. QED
  BY <1>3, <1>4, <1>5

\* The script, whatever it answers: r may execute afterwards only if it was
\* told so.
LEMMA SlotScript ==
  ASSUME KeyInv, SlotInv, TypeOK', NEW r \in Requests,
         NEW gate \in {"acquired", "timedOut", "missing", "waiting"},
         TryAcquire(r, gate),
         IF gate = "acquired" THEN Executing' \subseteq Executing \cup {r}
                              ELSE Executing' \subseteq Executing
  PROVE  SlotInv'
<1> USE DEF KeyInv, TypeOK, SlotInv
<1>1. CASE /\ r \in queue \ SlotsAfterPurge /\ Admissible(r)
           /\ active' = [Purged EXCEPT ![r] = now + Lease]
           /\ granted' = [granted EXCEPT ![r] = now]
           /\ gate = "acquired"
  BY <1>1, SlotGrant
<1>2. CASE /\ active' = Purged /\ UNCHANGED granted
           /\ gate = "acquired" => r \in SlotsAfterPurge
  <2>1. \A m \in Requests : active'[m] \in {active[m], Absent}
    BY <1>2 DEF Purged
  <2>2. Slots' = SlotsAfterPurge
    <3>1. \A m \in Requests : active'[m] # Absent <=> active[m] > now
      BY <1>2 DEF Purged
    <3>2. QED
      BY <3>1 DEF Slots, SlotsAfterPurge
  <2>3. Executing' \subseteq Slots'
    <3>1. Executing' \subseteq Executing \cup SlotsAfterPurge
      BY <1>2
    <3>2. QED
      BY <2>2, <3>1, Covered
  <2>4. \A m \in Slots' : granted'[m] = granted[m]
    BY <1>2
  <2>5. QED
    BY <2>1, <2>3, <2>4, SlotKeep
<1>3. QED
  BY <1>1, <1>2 DEF TryAcquire

\* The pipeline of Release removes the slot of a request that has left.
LEMMA SlotRelease ==
  ASSUME KeyInv, SlotInv, TypeOK', NEW r \in Requests, NEW n \in 1..3,
         ReleasePipeline(r, n), r \notin Executing, Executing' \subseteq Executing
  PROVE  SlotInv'
<1> USE DEF KeyInv, TypeOK, SlotInv
<1>1. active' = [active EXCEPT ![r] = Absent] /\ granted' = granted
  BY DEF ReleasePipeline
<1>2. Slots' = Slots \ {r}
  BY <1>1 DEF Slots
<1>3. Executing' \subseteq Slots'
  BY <1>2
<1>4. QED
  BY <1>1, <1>3, SlotKeep

\* A step that touches no slot and lets nobody through.
LEMMA SlotQuiet ==
  ASSUME KeyInv, SlotInv, TypeOK', UNCHANGED <<active, granted>>,
         Executing' \subseteq Executing
  PROVE  SlotInv'
<1> USE DEF KeyInv, TypeOK, SlotInv
<1>1. Slots' = Slots
  BY DEF Slots
<1>2. QED
  BY <1>1, SlotKeep

LEMMA SlotInitially == Init => SlotInv
<1> SUFFICES ASSUME Init PROVE SlotInv
  OBVIOUS
<1>1. Slots = {} /\ Executing = {}
  BY DEF Init, Slots, Executing
<1>2. Cardinality(Slots) = 0
  BY <1>1, FS_EmptySet
<1>3. QED
  BY <1>1, <1>2 DEF SlotInv, SlotScores

LEMMA SlotStep == KeyInv /\ SlotInv /\ [Next]_vars => SlotInv'
<1> SUFFICES ASSUME KeyInv, SlotInv, [Next]_vars PROVE SlotInv'
  OBVIOUS
<1>0. TypeOK /\ TypeOK'
  BY TypeStep DEF KeyInv
<1> USE <1>0 DEF Goto
<1>1. ASSUME NEW r \in Requests,
             \/ Arrive(r) \/ ClaimIdentity(r) \/ CheckRoom(r) \/ GiveUp(r)
             \/ Join(r) \/ ReadBody(r) \/ Rest(r) \/ Serve(r) \/ Disconnect(r)
      PROVE  SlotInv'
  <2>1. UNCHANGED <<active, granted>>
    BY <1>1 DEF Arrive, ClaimIdentity, CheckRoom, GiveUp, Join, ReadBody, Rest,
                Serve, Disconnect, SetIdentity, DelIdentity, AddToQueue, store
  <2>2. Executing' \subseteq Executing
    BY <1>1 DEF Arrive, ClaimIdentity, CheckRoom, GiveUp, Join, ReadBody, Rest,
                Serve, Disconnect, Executing, TypeOK
  <2>3. QED
    BY <2>1, <2>2, SlotQuiet
<1>2. ASSUME NEW r \in Requests, FirstAttempt(r) PROVE SlotInv'
  <2>1. PICK gate \in {"acquired", "timedOut", "missing", "waiting"} :
          /\ TryAcquire(r, gate)
          /\ gate = "acquired" => Goto(r, "read")
          /\ gate # "acquired" => Goto(r, "cancelEnter") \/ Goto(r, "readQueued")
    BY <1>2 DEF FirstAttempt
  <2>2. IF gate = "acquired" THEN Executing' \subseteq Executing \cup {r}
                             ELSE Executing' \subseteq Executing
    BY <2>1 DEF Executing, TypeOK
  <2>3. QED
    BY <2>1, <2>2, SlotScript
<1>3. ASSUME NEW r \in Requests, Poll(r) PROVE SlotInv'
  <2>1. CASE r \in gone
    <3>1. UNCHANGED <<active, granted>> /\ Executing' \subseteq Executing
      BY <1>3, <2>1 DEF Poll, store, Executing, TypeOK
    <3>2. QED
      BY <3>1, SlotQuiet
  <2>2. CASE r \notin gone
    <3>1. PICK gate \in {"acquired", "timedOut", "missing", "waiting"} :
            /\ TryAcquire(r, gate)
            /\ gate = "acquired" => Goto(r, "run")
            /\ gate # "acquired" => Goto(r, "cancelWait") \/ Goto(r, "rest")
      BY <1>3, <2>2 DEF Poll
    <3>2. IF gate = "acquired" THEN Executing' \subseteq Executing \cup {r}
                               ELSE Executing' \subseteq Executing
      BY <3>1 DEF Executing, TypeOK
    <3>3. QED
      BY <3>1, <3>2, SlotScript
  <2>3. QED
    BY <2>1, <2>2
<1>4. ASSUME NEW r \in Requests,
             CancelEnter(r) \/ CancelWait(r) \/ Release(r)
      PROVE  SlotInv'
  <2>1. ReleasePipeline(r, 3) /\ r \notin Executing /\ Executing' \subseteq Executing
    BY <1>4 DEF CancelEnter, CancelWait, Release, Executing, TypeOK
  <2>2. QED
    BY <2>1, SlotRelease
<1>5. ASSUME NEW r \in Requests, RedisFault(r) PROVE SlotInv'
  <2>1. r \notin Executing /\ Executing' \subseteq Executing
    BY <1>5 DEF RedisFault, AfterError, Executing, TypeOK
  <2>2. CASE UNCHANGED <<active, granted>>
    BY <2>1, <2>2, SlotQuiet
  <2>3. CASE \E gate \in {"acquired", "timedOut", "missing", "waiting"} :
               TryAcquire(r, gate)
    <3>1. PICK gate \in {"acquired", "timedOut", "missing", "waiting"} :
            TryAcquire(r, gate)
      BY <2>3
    <3>2. IF gate = "acquired" THEN Executing' \subseteq Executing \cup {r}
                               ELSE Executing' \subseteq Executing
      BY <2>1
    <3>3. QED
      BY <3>1, <3>2, SlotScript
  <2>4. CASE \E n \in 1..3 : ReleasePipeline(r, n)
    BY <2>1, <2>4, SlotRelease
  <2>5. QED
    BY <1>5, <2>2, <2>3, <2>4
    DEF RedisFault, Command, SetIdentity, AddToQueue, DelIdentity, store
<1>6. ASSUME NEW i \in Instances, Crash(i) PROVE SlotInv'
  <2>1. UNCHANGED <<active, granted>> /\ Executing' \subseteq Executing
    BY <1>6 DEF Crash, store, Executing
  <2>2. QED
    BY <2>1, SlotQuiet
<1>7. CASE Tick \/ UNCHANGED vars
  <2>1. UNCHANGED <<active, granted>> /\ Executing' \subseteq Executing
    BY <1>7 DEF Tick, vars, store, Executing
  <2>2. QED
    BY <2>1, SlotQuiet
<1>8. QED
  BY <1>1, <1>2, <1>3, <1>4, <1>5, <1>6, <1>7 DEF Next, Step

\* At most CHATMaxConcurrent requests execute over all instances, whatever
\* fails, crashes or is cancelled: who executes holds a slot whose lease has not
\* ended, and the script makes no grant while CHATMaxConcurrent slots are taken.
THEOREM Bounded == Spec => []ExecutionBound
<1>1. KeyInv /\ SlotInv => ExecutionBound
  <2> SUFFICES ASSUME KeyInv, SlotInv PROVE ExecutionBound
    OBVIOUS
  <2>1. IsFiniteSet(Slots) /\ Executing \subseteq Slots
    BY SlotsFinite DEF SlotInv
  <2>2. /\ Cardinality(Executing) \in Nat /\ Cardinality(Slots) \in Nat
        /\ Cardinality(Executing) <= Cardinality(Slots)
    BY <2>1, FS_Subset, FS_CardinalityType
  <2>3. QED
    BY <2>2 DEF SlotInv, ExecutionBound
<1>2. QED
  BY <1>1, KeyInitially, KeyStep, SlotInitially, SlotStep, PTL DEF Spec

-----------------------------------------------------------------------------
(* Nothing stays behind                                                    *)

Undisturbed == faults = 0 /\ crashes = 0

\* Where a request has its ticket.
Inside(r) == pc[r] \notin {"idle", "setnx", "done", "dead"}

\* While nothing fails: who is in a sorted set has its ticket, who has not
\* joined is not in the line, and who waits has been granted nothing.
TidyRequests ==
  Undisturbed =>
    \A r \in Requests :
      /\ r \in queue \/ active[r] # Absent => Inside(r)
      /\ pc[r] \in {"zcard", "zadd", "giveUp"} => r \notin queue
      /\ pc[r] \in {"idle", "setnx", "zcard", "zadd", "giveUp", "try",
                    "readQueued", "poll", "rest"}
           => granted[r] = Absent /\ active[r] = Absent

\* While nothing fails, an identity key that was not deleted has a request of
\* its source inside, expired or not.
TidyKeys ==
  Undisturbed =>
    \A s \in Sources :
      identityKey[s] # Absent => \E r \in Requests : Inside(r) /\ Source[r] = s

TidyInv == TidyRequests /\ TidyKeys

\* Redis after a step of r: the other requests lose at most their slot, and
\* their keys are as they were.
Aside(r) ==
  /\ pc' = [pc EXCEPT ![r] = pc'[r]]
  /\ \A m \in Requests \ {r} :
       /\ active'[m] \in {active[m], Absent}
       /\ m \in queue' <=> m \in queue
       /\ granted'[m] = granted[m]
  /\ \A s \in Sources \ {Source[r]} : identityKey'[s] = identityKey[s]

\* A step of r keeps Redis tidy if it keeps what concerns r tidy.
LEMMA TidyMove ==
  ASSUME TypeOK, TypeOK', TidyInv, NEW r \in Requests, Aside(r),
         UNCHANGED count,
         Undisturbed =>
           /\ r \in queue' \/ active'[r] # Absent => Inside(r)'
           /\ pc'[r] \in {"zcard", "zadd", "giveUp"} => r \notin queue'
           /\ pc'[r] \in {"idle", "setnx", "zcard", "zadd", "giveUp", "try",
                          "readQueued", "poll", "rest"}
                => granted'[r] = Absent /\ active'[r] = Absent
           /\ \/ Inside(r)'
              \/ identityKey'[Source[r]] = Absent
              \/ ~Inside(r) /\ identityKey' = identityKey
  PROVE  TidyInv'
<1>1. Undisturbed' <=> Undisturbed
  BY DEF Undisturbed, count
<1>2. \A m \in Requests : m # r => (Inside(m)' <=> Inside(m)) /\ pc'[m] = pc[m]
  BY DEF Aside, Inside, TypeOK
<1>3. TidyRequests'
  BY <1>1, <1>2 DEF TidyInv, TidyRequests, Aside
<1>4. TidyKeys'
  <2> SUFFICES ASSUME Undisturbed, NEW s \in Sources, identityKey'[s] # Absent
               PROVE  \E m \in Requests : Inside(m)' /\ Source[m] = s
    BY <1>1 DEF TidyKeys
  <2>1. CASE s # Source[r] \/ (~Inside(r) /\ identityKey' = identityKey)
    <3>1. identityKey[s] # Absent
      BY <2>1 DEF Aside
    <3>2. PICK m \in Requests : Inside(m) /\ Source[m] = s
      BY <3>1 DEF TidyInv, TidyKeys
    <3>3. m # r
      BY <2>1, <3>2
    <3>4. QED
      BY <1>2, <3>2, <3>3
  <2>2. CASE s = Source[r] /\ Inside(r)'
    BY <2>2
  <2>3. QED
    BY <2>1, <2>2
<1>5. QED
  BY <1>3, <1>4 DEF TidyInv

\* What a script of r does, it does to r, but for the purge.
LEMMA ScriptAside ==
  ASSUME TypeOK, TypeOK', NEW r \in Requests,
         NEW gate \in {"acquired", "timedOut", "missing", "waiting"},
         TryAcquire(r, gate), pc' = [pc EXCEPT ![r] = pc'[r]]
  PROVE  Aside(r)
<1>1. \A m \in Requests \ {r} : active'[m] \in {active[m], Absent}
  BY DEF TryAcquire, Purged, TypeOK
<1>2. \A m \in Requests \ {r} : (m \in queue' <=> m \in queue) /\ granted'[m] = granted[m]
  BY DEF TryAcquire, TypeOK
<1>3. \A s \in Sources \ {Source[r]} : identityKey'[s] = identityKey[s]
  BY DEF TryAcquire, TypeOK
<1>4. QED
  BY <1>1, <1>2, <1>3 DEF Aside

LEMMA TidyInitially == Init => TidyInv
BY DEF Init, TidyInv, TidyRequests, TidyKeys, Inside

LEMMA TidyStep == TypeOK /\ TidyInv /\ [Next]_vars => TidyInv'
<1> SUFFICES ASSUME TypeOK, TidyInv, [Next]_vars PROVE TidyInv'
  OBVIOUS
<1>0. TypeOK /\ TypeOK'
  BY TypeStep
<1> USE <1>0 DEF Goto, store
<1>1. ASSUME NEW r \in Requests,
             \/ Arrive(r) \/ CheckRoom(r) \/ ReadBody(r) \/ Rest(r) \/ Serve(r)
             \/ Disconnect(r)
      PROVE  TidyInv'
  <2>1. /\ UNCHANGED <<identityKey, queue, active, granted, count>>
        /\ pc' = [pc EXCEPT ![r] = pc'[r]]
    BY <1>1 DEF Arrive, CheckRoom, ReadBody, Rest, Serve, Disconnect, count, TypeOK
  <2>2. Aside(r)
    BY <2>1 DEF Aside
  <2>3. \/ pc[r] = "idle" /\ pc'[r] = "setnx"
        \/ pc[r] = "zcard" /\ pc'[r] \in {"zadd", "giveUp"}
        \/ pc[r] \in {"read", "readQueued", "poll", "rest", "run"}
           /\ pc'[r] \in {"run", "poll", "rest", "release", "cancelWait"}
           /\ (pc'[r] \in {"poll", "rest"} => pc[r] \in {"readQueued", "poll", "rest"})
    BY <1>1 DEF Arrive, CheckRoom, ReadBody, Rest, Serve, Disconnect, TypeOK
  <2>4. QED
    BY <2>1, <2>2, <2>3, TidyMove DEF TidyInv, TidyRequests, Inside
<1>2. ASSUME NEW r \in Requests, ClaimIdentity(r) PROVE TidyInv'
  <2>1. /\ UNCHANGED <<queue, active, granted, count>> /\ pc[r] = "setnx"
        /\ pc' = [pc EXCEPT ![r] = pc'[r]]
        /\ \/ pc'[r] = "zcard"
           \/ pc'[r] = "done" /\ identityKey' = identityKey
    BY <1>2 DEF ClaimIdentity, SetIdentity, KeyExists, TypeOK
  <2>2. Aside(r)
    BY <1>2, <2>1 DEF Aside, ClaimIdentity, SetIdentity, TypeOK
  <2>3. QED
    BY <2>1, <2>2, TidyMove DEF TidyInv, TidyRequests, Inside
<1>3. ASSUME NEW r \in Requests, GiveUp(r) PROVE TidyInv'
  <2>1. /\ UNCHANGED <<queue, active, granted, count>> /\ pc[r] = "giveUp"
        /\ pc' = [pc EXCEPT ![r] = "done"]
        /\ identityKey' = [identityKey EXCEPT ![Source[r]] = Absent]
    BY <1>3 DEF GiveUp, DelIdentity
  <2>2. Aside(r) /\ pc'[r] = "done" /\ identityKey'[Source[r]] = Absent
    BY <2>1 DEF Aside, TypeOK
  <2>3. QED
    BY <2>1, <2>2, TidyMove DEF TidyInv, TidyRequests, Inside
<1>4. ASSUME NEW r \in Requests, Join(r) PROVE TidyInv'
  <2>1. /\ UNCHANGED <<identityKey, active, granted, count>> /\ pc[r] = "zadd"
        /\ pc' = [pc EXCEPT ![r] = "try"] /\ queue' = queue \cup {r}
    BY <1>4 DEF Join, AddToQueue
  <2>2. Aside(r) /\ pc'[r] = "try"
    BY <2>1 DEF Aside, TypeOK
  <2>3. QED
    BY <2>1, <2>2, TidyMove DEF TidyInv, TidyRequests, Inside
<1>5. ASSUME NEW r \in Requests, FirstAttempt(r) \/ Poll(r) PROVE TidyInv'
  <2>1. /\ UNCHANGED count /\ pc[r] \in {"try", "poll"}
        /\ pc' = [pc EXCEPT ![r] = pc'[r]]
        /\ pc'[r] \in {"read", "run", "readQueued", "rest", "release",
                       "cancelEnter", "cancelWait"}
    BY <1>5 DEF FirstAttempt, Poll, TypeOK
  <2>2. Inside(r) /\ Inside(r)'
    BY <2>1 DEF Inside
  <2>3. CASE UNCHANGED store
    <3>1. Aside(r)
      BY <2>1, <2>3 DEF Aside
    <3>2. QED
      BY <2>1, <2>2, <2>3, <3>1, TidyMove DEF TidyInv, TidyRequests
  <2>4. CASE ~UNCHANGED store
    <3>1. PICK gate \in {"acquired", "timedOut", "missing", "waiting"} :
            /\ TryAcquire(r, gate)
            /\ gate = "acquired" => pc'[r] \in {"read", "run"}
      BY <1>5, <2>4 DEF FirstAttempt, Poll, TypeOK
    <3>2. Aside(r)
      BY <2>1, <3>1, ScriptAside
    <3>3. gate # "acquired" =>
            granted'[r] = granted[r] /\ active'[r] \in {active[r], Absent}
      BY <3>1 DEF TryAcquire, Purged, TypeOK
    <3>4. pc'[r] \in {"readQueued", "rest"} /\ Undisturbed =>
            granted'[r] = Absent /\ active'[r] = Absent
      BY <2>1, <3>1, <3>3 DEF TidyInv, TidyRequests
    <3>5. QED
      BY <2>1, <2>2, <3>2, <3>4, TidyMove
  <2>5. QED
    BY <2>3, <2>4
<1>6. ASSUME NEW r \in Requests,
             CancelEnter(r) \/ CancelWait(r) \/ Release(r)
      PROVE  TidyInv'
  <2>1. /\ ReleasePipeline(r, 3) /\ UNCHANGED count
        /\ pc' = [pc EXCEPT ![r] = pc'[r]] /\ pc'[r] \in {"done", "release"}
    BY <1>6 DEF CancelEnter, CancelWait, Release, TypeOK
  <2>2. /\ active' = [active EXCEPT ![r] = Absent] /\ queue' = queue \ {r}
        /\ identityKey' = [identityKey EXCEPT ![Source[r]] = Absent]
        /\ UNCHANGED granted
    BY <2>1 DEF ReleasePipeline
  <2>3. Aside(r) /\ identityKey'[Source[r]] = Absent /\ active'[r] = Absent
    BY <2>1, <2>2 DEF Aside, TypeOK
  <2>4. QED
    BY <2>1, <2>2, <2>3, TidyMove
<1>7. ASSUME NEW r \in Requests, RedisFault(r) PROVE TidyInv'
  <2>1. ~Undisturbed'
    BY <1>7 DEF RedisFault, Undisturbed, TypeOK
  <2>2. QED
    BY <2>1 DEF TidyInv, TidyRequests, TidyKeys
<1>8. ASSUME NEW i \in Instances, Crash(i) PROVE TidyInv'
  <2>1. ~Undisturbed'
    BY <1>8 DEF Crash, Undisturbed, TypeOK
  <2>2. QED
    BY <2>1 DEF TidyInv, TidyRequests, TidyKeys
<1>9. CASE Tick \/ UNCHANGED vars
  <2>1. UNCHANGED <<pc, identityKey, queue, active, granted, count>>
    BY <1>9 DEF Tick, vars, count
  <2>2. QED
    BY <2>1 DEF TidyInv, TidyRequests, TidyKeys, Undisturbed, Inside, count
<1>10. QED
  BY <1>1, <1>2, <1>3, <1>4, <1>5, <1>6, <1>7, <1>8, <1>9 DEF Next, Step

LEMMA TidyMeansNothingLeft == TypeOK /\ TidyInv => NothingLeftBehind
<1> SUFFICES ASSUME TypeOK, TidyInv, Undisturbed
             PROVE  /\ queue \cup Slots \subseteq Ticketed
                    /\ \A s \in Sources :
                         KeyExists(s) => \E r \in Ticketed : Source[r] = s
  BY DEF NothingLeftBehind, Undisturbed
<1>1. \A r \in Requests : Inside(r) <=> r \in Ticketed
  BY DEF Inside, Ticketed, Live
<1>2. queue \cup Slots \subseteq Ticketed
  BY <1>1 DEF TidyInv, TidyRequests, Slots, TypeOK
<1>3. \A s \in Sources : KeyExists(s) => identityKey[s] # Absent
  BY DEF KeyExists, TypeOK
<1>4. QED
  BY <1>1, <1>2, <1>3 DEF TidyInv, TidyKeys, Ticketed, Live

\* What Redis holds of the gate is sound, for any number of requests, sources,
\* instances, slots, faults and crashes: the slots are bounded whatever fails,
\* and without a failure no member of a sorted set and no identity key outlives
\* the request that made it.
THEOREM GateIsSound == Spec => []GateSound
<1>1. TypeOK /\ TidyInv => TypeOK /\ NothingLeftBehind
  BY TidyMeansNothingLeft
<1>2. Spec => [](TypeOK /\ NothingLeftBehind)
  BY <1>1, TypeInit, TypeStep, TidyInitially, TidyStep, PTL DEF Spec
<1>3. TypeOK /\ NothingLeftBehind /\ ExecutionBound => GateSound
  BY DEF GateSound
<1>4. QED
  BY <1>2, <1>3, Bounded, PTL

-----------------------------------------------------------------------------
(* The line                                                                *)

\* A step that grants r a slot is a script of r that found it first in line.
LEMMA GrantIsScript ==
  ASSUME TypeOK, [Next]_vars, NEW q \in Requests, granted'[q] # granted[q]
  PROVE  /\ \A m \in queue \ {q} : Before(q, m)
         /\ Cardinality(SlotsAfterPurge) < CHATMaxConcurrent
<1> DEFINE First == /\ \A m \in queue \ {q} : Before(q, m)
                    /\ Cardinality(SlotsAfterPurge) < CHATMaxConcurrent
<1>1. ASSUME NEW r \in Requests,
             NEW gate \in {"acquired", "timedOut", "missing", "waiting"},
             TryAcquire(r, gate)
      PROVE  First
  BY <1>1 DEF TryAcquire, Admissible, TypeOK
<1>2. ASSUME NEW r \in Requests, Arrive(r) \/ Step(r) \/ Disconnect(r)
      PROVE  First
  <2>1. \E gate \in {"acquired", "timedOut", "missing", "waiting"} : TryAcquire(r, gate)
    BY <1>2 DEF Arrive, Step, Disconnect, ClaimIdentity, CheckRoom, GiveUp, Join,
                FirstAttempt, CancelEnter, ReadBody, Poll, Rest, CancelWait, Serve,
                Release, SetIdentity, DelIdentity, AddToQueue, ReleasePipeline, store
  <2>2. QED
    BY <1>1, <2>1
<1>3. ASSUME NEW r \in Requests, RedisFault(r) PROVE First
  <2>1. Command(r)
    BY <1>3 DEF RedisFault, store
  <2>2. \E gate \in {"acquired", "timedOut", "missing", "waiting"} : TryAcquire(r, gate)
    BY <2>1 DEF Command, SetIdentity, AddToQueue, DelIdentity, ReleasePipeline
  <2>3. QED
    BY <1>1, <2>2
<1>4. QED
  BY <1>2, <1>3 DEF Next, Crash, Tick, vars, store

\* Slots go to whoever entered first, for any number of requests and in any
\* order of their commands, lost replies and crashes included.
THEOREM NobodyOvertakes == Spec => NoOvertaking
<1>1. ASSUME TypeOK, [Next]_vars, NEW r \in Requests, granted'[r] # granted[r],
             NEW m \in queue
      PROVE  stamp[r] <= stamp[m]
  BY <1>1, GrantIsScript DEF Before, TypeOK
<1>2. TypeOK /\ [Next]_vars =>
        [\A r \in Requests : granted'[r] # granted[r] =>
           \A m \in queue : stamp[r] <= stamp[m]]_vars
  BY <1>1
<1>3. QED
  BY <1>2, TypeCorrect, PTL DEF Spec, NoOvertaking

\* One turned away at its deadline, while nothing has failed and nobody has died:
\* the slots are all taken, or a request in service stands before it.
LEMMA TurnedAwayOccupied ==
  ASSUME TypeOK, KeyInv, SlotInv, TidyInv, crashes = 0, [Next]_vars,
         NEW r \in queue \ queue', pc[r] \in {"try", "poll"},
         granted'[r] = granted[r], faults' = 0
  PROVE  \/ Cardinality(SlotsAfterPurge) = CHATMaxConcurrent
         \/ \E m \in queue \cap Ticketed : Before(m, r)
<1>0. r \in Requests /\ ~UNCHANGED queue
  BY DEF TypeOK
<1>1. ~Tick /\ ~UNCHANGED vars /\ \A i \in Instances : ~Crash(i)
  BY <1>0 DEF Tick, vars, Crash, store
<1>2. \A q \in Requests : ~RedisFault(q)
  BY DEF RedisFault, TypeOK
<1>3. \A q \in Requests : ~Arrive(q) /\ ~Disconnect(q)
  BY <1>0 DEF Arrive, Disconnect, store
<1>4. PICK q \in Requests : Step(q)
  BY <1>1, <1>2, <1>3 DEF Next
<1>5. FirstAttempt(r) \/ Poll(r)
  BY <1>0, <1>4
  DEF Step, ClaimIdentity, CheckRoom, GiveUp, Join, FirstAttempt, CancelEnter,
      ReadBody, Poll, Rest, CancelWait, Serve, Release, SetIdentity, DelIdentity,
      AddToQueue, ReleasePipeline, TryAcquire, store
<1>6. Undisturbed
  BY <1>5 DEF Undisturbed, FirstAttempt, Poll, count
<1>7. PICK gate \in {"acquired", "timedOut", "missing", "waiting"} : TryAcquire(r, gate)
  BY <1>0, <1>5 DEF FirstAttempt, Poll, store
<1>8. granted[r] = Absent /\ now # Absent
  BY <1>0, <1>6 DEF TidyInv, TidyRequests, KeyInv, OnTime
<1>9. ~Admissible(r)
  BY <1>0, <1>7, <1>8 DEF TryAcquire, TypeOK
<1>10. CASE ~(Cardinality(SlotsAfterPurge) < CHATMaxConcurrent)
  <2>1. /\ IsFiniteSet(Slots) /\ IsFiniteSet(SlotsAfterPurge)
        /\ SlotsAfterPurge \subseteq Slots
    BY SlotsFinite, Covered
  <2>2. /\ Cardinality(SlotsAfterPurge) \in Nat /\ Cardinality(Slots) \in Nat
        /\ Cardinality(SlotsAfterPurge) <= Cardinality(Slots)
    BY <2>1, FS_Subset, FS_CardinalityType
  <2>3. QED
    BY <1>10, <2>2 DEF SlotInv
<1>11. CASE ~(\A m \in queue \ {r} : Before(r, m))
  <2>1. PICK m \in queue \ {r} : ~Before(r, m)
    BY <1>11
  <2>2. m \in Requests /\ m \in Nat /\ r \in Nat
    BY <1>0 DEF TypeOK
  <2>3. Before(m, r)
    BY <1>0, <2>1, <2>2 DEF Before, TypeOK
  <2>4. m \in Ticketed
    BY <1>6, <2>2 DEF TidyInv, TidyRequests, Inside, Ticketed, Live
  <2>5. QED
    BY <2>1, <2>3, <2>4
<1>12. QED
  BY <1>9, <1>10, <1>11 DEF Admissible

\* While no command fails, who has not asked the script or is done holds no slot,
\* whoever dies.
SlotsManned ==
  faults = 0 =>
    \A r \in Requests :
      pc[r] \in {"idle", "setnx", "zcard", "zadd", "giveUp", "done"} => active[r] = Absent

LEMMA MannedInitially == Init => SlotsManned
  BY DEF Init, SlotsManned

LEMMA MannedStep == TypeOK /\ SlotsManned /\ [Next]_vars => SlotsManned'
<1> SUFFICES ASSUME TypeOK, SlotsManned, [Next]_vars, faults' = 0
             PROVE  \A r \in Requests :
                      pc'[r] \in {"idle", "setnx", "zcard", "zadd", "giveUp", "done"}
                        => active'[r] = Absent
  BY DEF SlotsManned
<1>1. CASE UNCHANGED vars
  BY <1>1 DEF vars, SlotsManned
<1>2. CASE Tick
  BY <1>2 DEF Tick, store, count, SlotsManned
<1>3. CASE \E i \in Instances : Crash(i)
  <2>1. PICK i \in Instances : Crash(i)
    BY <1>3
  <2>2. active' = active /\ faults' = faults
    BY <2>1 DEF Crash, store
  <2>3. ASSUME NEW r \in Requests,
               pc'[r] \in {"idle", "setnx", "zcard", "zadd", "giveUp", "done"}
        PROVE  pc[r] = pc'[r]
    BY <2>1, <2>3 DEF Crash, TypeOK
  <2>4. QED
    BY <2>2, <2>3 DEF SlotsManned
<1>4. ASSUME NEW r \in Requests, Arrive(r) \/ Disconnect(r)
      PROVE  SlotsManned'
  BY <1>4 DEF Arrive, Disconnect, store, count, Goto, SlotsManned, TypeOK
<1>5. ASSUME NEW r \in Requests, RedisFault(r) PROVE FALSE
  BY <1>5 DEF RedisFault, TypeOK
<1>6. ASSUME NEW r \in Requests, Step(r) PROVE SlotsManned'
  <2> USE DEF Goto, Answer, store, count, TypeOK
  <2>1. faults = 0 /\ (\A m \in Requests :
          pc[m] \in {"idle", "setnx", "zcard", "zadd", "giveUp", "done"} => active[m] = Absent)
    <3>1. faults' = faults
      BY <1>6 DEF Step, ClaimIdentity, CheckRoom, GiveUp, Join, FirstAttempt, CancelEnter,
                  ReadBody, Poll, Rest, CancelWait, Serve, Release
    <3>2. QED
      BY <3>1 DEF SlotsManned
  <2>2. ASSUME NEW m \in Requests \ {r} PROVE pc'[m] = pc[m]
    BY <1>6 DEF Step, ClaimIdentity, CheckRoom, GiveUp, Join, FirstAttempt, CancelEnter,
                ReadBody, Poll, Rest, CancelWait, Serve, Release
  <2>3. CASE ClaimIdentity(r) \/ CheckRoom(r) \/ GiveUp(r) \/ Join(r) \/ ReadBody(r)
             \/ Rest(r) \/ Serve(r)
    <3>1. active' = active
      BY <2>3 DEF ClaimIdentity, CheckRoom, GiveUp, Join, ReadBody, Rest, Serve,
                  SetIdentity, DelIdentity, AddToQueue
    <3>2. pc'[r] \in {"idle", "setnx", "zcard", "zadd", "giveUp", "done"} =>
            pc[r] \in {"idle", "setnx", "zcard", "zadd", "giveUp", "done"}
      BY <2>3 DEF ClaimIdentity, CheckRoom, GiveUp, Join, ReadBody, Rest, Serve
    <3>3. QED
      BY <2>1, <2>2, <3>1, <3>2 DEF SlotsManned
  <2>4. CASE CancelEnter(r) \/ CancelWait(r) \/ Release(r)
    <3>1. active' = [active EXCEPT ![r] = Absent]
      BY <2>4 DEF CancelEnter, CancelWait, Release, ReleasePipeline
    <3>2. QED
      BY <2>1, <2>2, <3>1 DEF SlotsManned
  <2>5. CASE FirstAttempt(r) \/ Poll(r)
    <3>1. pc'[r] \notin {"idle", "setnx", "zcard", "zadd", "giveUp", "done"}
      BY <2>5 DEF FirstAttempt, Poll
    <3>2. ASSUME NEW m \in Requests \ {r} PROVE active'[m] \in {active[m], Absent}
      BY <2>5 DEF FirstAttempt, Poll, TryAcquire, Purged
    <3>3. QED
      BY <2>1, <2>2, <3>1, <3>2 DEF SlotsManned
  <2>6. QED
    BY <1>6, <2>3, <2>4, <2>5 DEF Step
<1>7. QED
  BY <1>1, <1>2, <1>3, <1>4, <1>5, <1>6 DEF Next, SlotsManned

\* One turned away at its deadline, while no command has failed: somebody stands
\* before it, or every slot is held by somebody alive or by a dead one's lease.
LEMMA TurnedAwayHeld ==
  ASSUME TypeOK, SlotInv, SlotsManned, KeyInv, [Next]_vars,
         NEW r \in queue \ queue', pc[r] \in {"try", "poll"},
         active'[r] = Absent, faults' = 0
  PROVE  \/ Cardinality({m \in Requests : SlotHeld(m)}) >= CHATMaxConcurrent
         \/ \E m \in queue : Before(m, r)
<1>0. r \in Requests /\ ~UNCHANGED queue
  BY DEF TypeOK
<1>1. ~Tick /\ ~UNCHANGED vars /\ \A i \in Instances : ~Crash(i)
  BY <1>0 DEF Tick, vars, Crash, store
<1>2. \A q \in Requests : ~RedisFault(q)
  BY DEF RedisFault, TypeOK
<1>3. \A q \in Requests : ~Arrive(q) /\ ~Disconnect(q)
  BY <1>0 DEF Arrive, Disconnect, store
<1>4. PICK q \in Requests : Step(q)
  BY <1>1, <1>2, <1>3 DEF Next
<1>5. FirstAttempt(r) \/ Poll(r)
  BY <1>0, <1>4
  DEF Step, ClaimIdentity, CheckRoom, GiveUp, Join, FirstAttempt, CancelEnter,
      ReadBody, Poll, Rest, CancelWait, Serve, Release, SetIdentity, DelIdentity,
      AddToQueue, ReleasePipeline, TryAcquire, store
<1>6. faults = 0
  BY <1>5 DEF FirstAttempt, Poll, count
<1>7. PICK gate \in {"acquired", "timedOut", "missing", "waiting"} : TryAcquire(r, gate)
  BY <1>0, <1>5 DEF FirstAttempt, Poll, store
<1>8. ~Admissible(r)
  <2>1. now + Lease # Absent
    BY DEF TypeOK
  <2>2. QED
    BY <1>0, <1>7, <2>1 DEF TryAcquire, TypeOK, Purged
<1>9. CASE ~(Cardinality(SlotsAfterPurge) < CHATMaxConcurrent)
  <2> DEFINE Held == {m \in Requests : SlotHeld(m)}
  <2>1. SlotsAfterPurge \subseteq Held
    <3> SUFFICES ASSUME NEW m \in Requests, active[m] > now PROVE SlotHeld(m)
      BY DEF SlotsAfterPurge
    <3>1. active[m] # Absent
      BY DEF Absent, TypeOK
    <3>2. granted[m] # Absent /\ active[m] = granted[m] + Lease
      BY <3>1 DEF SlotInv, SlotScores, Slots
    <3>3. pc[m] # "done"
      BY <1>6, <3>1 DEF SlotsManned
    <3>4. QED
      BY <3>2, <3>3 DEF SlotHeld
  <2>2. IsFiniteSet(Held)
    BY FS_Subset
  <2>3. /\ Cardinality(SlotsAfterPurge) \in Nat /\ Cardinality(Held) \in Nat
        /\ Cardinality(SlotsAfterPurge) <= Cardinality(Held)
    BY <2>1, <2>2, FS_Subset, FS_CardinalityType
  <2>4. QED
    BY <1>9, <2>3
<1>10. CASE ~(\A m \in queue \ {r} : Before(r, m))
  <2>1. PICK m \in queue \ {r} : ~Before(r, m)
    BY <1>10
  <2>2. m \in Requests /\ m \in Nat /\ r \in Nat
    BY <1>0 DEF TypeOK
  <2>3. Before(m, r)
    BY <1>0, <2>1, <2>2 DEF Before, TypeOK
  <2>4. QED
    BY <2>1, <2>3
<1>11. QED
  BY <1>8, <1>9, <1>10 DEF Admissible

\* What a process that dies leaves behind: its keys keep out a second request of the
\* source, and its slots come back when their leases end.
THEOREM CrashIsSurvived == Spec => CrashSurvived
<1> DEFINE Inv == TypeOK /\ KeyInv /\ SlotInv /\ SlotsManned
           Back == \A r \in queue \ queue' :
             pc[r] \in {"try", "poll"} /\ active'[r] = Absent /\ faults' = 0 =>
               \/ Cardinality({m \in Requests : SlotHeld(m)}) >= CHATMaxConcurrent
               \/ \E m \in queue : Before(m, r)
<1>1. Spec => []Inv
  BY TypeInit, TypeStep, KeyInitially, KeyStep, SlotInitially, SlotStep,
     MannedInitially, MannedStep, PTL DEF Spec
<1>2. Inv /\ [Next]_vars => [Back]_vars
  BY TurnedAwayHeld
<1>3. Spec => SlotsComeBack
  BY <1>1, <1>2, PTL DEF Spec, SlotsComeBack
<1>4. QED
  BY <1>3, Exclusive DEF CrashSurvived

\* The line is kept at its head and at its end, for any number of requests and
\* slots, in every behaviour in which no process dies with a ticket: a member
\* that a dead process leaves at the head does hold everybody up.
THEOREM LineIsKept == Spec /\ [](crashes = 0) => LineKept
<1> DEFINE Inv == TypeOK /\ KeyInv /\ SlotInv /\ TidyInv
           Occupied == \A r \in queue \ queue' :
             pc[r] \in {"try", "poll"} /\ granted'[r] = granted[r] /\ faults' = 0 =>
               \/ Cardinality(SlotsAfterPurge) = CHATMaxConcurrent
               \/ \E m \in queue \cap Ticketed : Before(m, r)
<1>1. Spec => []Inv
  BY TypeInit, TypeStep, KeyInitially, KeyStep, SlotInitially, SlotStep,
     TidyInitially, TidyStep, PTL DEF Spec
<1>2. Inv /\ crashes = 0 /\ [Next]_vars => [Occupied]_vars
  BY TurnedAwayOccupied
<1>3. Spec /\ [](crashes = 0) => WaitsOnlyWhenOccupied
  BY <1>1, <1>2, PTL DEF Spec, WaitsOnlyWhenOccupied
<1>4. QED
  BY <1>3, NobodyOvertakes DEF LineKept

-----------------------------------------------------------------------------
(* The limiter implements the gate                                         *)

PlaceOf == [r \in Requests |-> Place(r)]

\* A step of r in which it neither comes, nor is let through, nor leaves.
LEMMA PlaceStutter ==
  ASSUME TypeOK, TypeOK', NEW r \in Requests,
         pc' = [pc EXCEPT ![r] = pc'[r]], Place(r)' = Place(r)
  PROVE  PlaceOf' = PlaceOf
<1>1. \A m \in Requests : m # r => pc'[m] = pc[m]
  BY DEF TypeOK
<1>2. \A m \in Requests : Place(m)' = Place(m)
  BY <1>1 DEF Place
<1>3. QED
  BY <1>2 DEF PlaceOf

\* How one request's step changes its place.
LEMMA PlaceMoves ==
  ASSUME TypeOK, TypeOK', NEW r \in Requests, pc' = [pc EXCEPT ![r] = pc'[r]]
  PROVE  PlaceOf' = [PlaceOf EXCEPT ![r] = Place(r)']
<1>1. \A m \in Requests : m # r => Place(m)' = Place(m)
  BY DEF TypeOK, Place
<1>2. QED
  BY <1>1 DEF PlaceOf

LEMMA GateApproach ==
  ASSUME TypeOK, TypeOK', NEW r \in Requests, pc' = [pc EXCEPT ![r] = pc'[r]],
         Place(r) = "outside", Place(r)' = "waiting"
  PROVE  Gate!Next
<1>1. PlaceOf' = [PlaceOf EXCEPT ![r] = "waiting"] /\ PlaceOf[r] = "outside"
  BY PlaceMoves DEF PlaceOf
<1>2. QED
  BY <1>1 DEF PlaceOf, Gate!Next, Gate!Approach, Gate!Outside, Gate!Waiting

LEMMA GateLeave ==
  ASSUME TypeOK, TypeOK', NEW r \in Requests, pc' = [pc EXCEPT ![r] = pc'[r]],
         Place(r) \in {"waiting", "executing"}, Place(r)' = "left"
  PROVE  Gate!Next
<1>1. PlaceOf' = [PlaceOf EXCEPT ![r] = "left"]
  BY PlaceMoves
<1>2. PlaceOf' = [m \in Requests |-> IF m \in {r} THEN "left" ELSE PlaceOf[m]]
  BY <1>1 DEF PlaceOf
<1>3. PlaceOf[r] \in {"waiting", "executing"}
  BY DEF PlaceOf
<1>4. Gate!Leave({r})
  BY <1>2, <1>3 DEF Gate!Leave, Gate!Left, Gate!Waiting, Gate!Running, PlaceOf
<1>5. QED
  BY <1>4 DEF Gate!Next

LEMMA GateAdmit ==
  ASSUME TypeOK, TypeOK', NEW r \in Requests, pc' = [pc EXCEPT ![r] = pc'[r]],
         Place(r) = "waiting", Place(r)' = "executing",
         Cardinality(Executing) < CHATMaxConcurrent
  PROVE  Gate!Next
<1>1. PlaceOf' = [PlaceOf EXCEPT ![r] = "executing"] /\ PlaceOf[r] = "waiting"
  BY PlaceMoves DEF PlaceOf
<1>2. {m \in Requests : PlaceOf[m] = "executing"} = Executing
  BY DEF PlaceOf, Place, Executing
<1>3. Gate!Cardinality(Executing) = Cardinality(Executing)
  BY DEF Gate!Cardinality, Cardinality
<1>4. QED
  BY <1>1, <1>2, <1>3
  DEF PlaceOf, Gate!Next, Gate!Admit, Gate!At, Gate!Waiting, Gate!Running

\* When the script answers that r has a slot, a slot was free for it.
LEMMA RoomForAcquired ==
  ASSUME KeyInv, SlotInv, NEW r \in Requests, TryAcquire(r, "acquired"),
         r \notin Executing
  PROVE  Cardinality(Executing) < CHATMaxConcurrent
<1> USE DEF KeyInv, TypeOK, SlotInv
<1>1. /\ IsFiniteSet(Slots) /\ IsFiniteSet(SlotsAfterPurge)
      /\ Executing \subseteq SlotsAfterPurge /\ SlotsAfterPurge \subseteq Slots
  BY SlotsFinite, Covered
<1>2. CASE Admissible(r)
  <2>1. /\ Cardinality(Executing) \in Nat /\ Cardinality(SlotsAfterPurge) \in Nat
        /\ Cardinality(Executing) <= Cardinality(SlotsAfterPurge)
    BY <1>1, FS_Subset, FS_CardinalityType
  <2>2. QED
    BY <1>2, <2>1 DEF Admissible
<1>3. CASE r \in SlotsAfterPurge
  <2>1. /\ IsFiniteSet(Executing) /\ Executing \cup {r} \subseteq Slots
    BY <1>1, <1>3, FS_Subset
  <2>2. /\ IsFiniteSet(Executing \cup {r})
        /\ Cardinality(Executing \cup {r}) = Cardinality(Executing) + 1
    BY <2>1, FS_AddElement
  <2>3. /\ Cardinality(Executing) \in Nat /\ Cardinality(Slots) \in Nat
        /\ Cardinality(Executing \cup {r}) <= Cardinality(Slots)
    BY <1>1, <2>1, FS_Subset, FS_CardinalityType
  <2>4. QED
    BY <2>2, <2>3
<1>4. QED
  BY <1>2, <1>3 DEF TryAcquire

LEMMA GateStep ==
  ASSUME KeyInv, SlotInv, [Next]_vars
  PROVE  Gate!Next \/ PlaceOf' = PlaceOf
<1>0. TypeOK /\ TypeOK'
  BY TypeStep DEF KeyInv
<1> USE <1>0 DEF Goto
<1>1. ASSUME NEW r \in Requests, Arrive(r) PROVE Gate!Next
  <2>1. Place(r) = "outside" /\ Place(r)' = "waiting"
        /\ pc' = [pc EXCEPT ![r] = pc'[r]]
    BY <1>1 DEF Arrive, Place, TypeOK
  <2>2. QED
    BY <2>1, GateApproach
<1>2. ASSUME NEW r \in Requests,
             FirstAttempt(r) \/ Poll(r), pc'[r] \in {"read", "run"}
      PROVE  Gate!Next
  <2>1. /\ pc[r] \in {"try", "poll"} /\ pc' = [pc EXCEPT ![r] = pc'[r]]
        /\ TryAcquire(r, "acquired")
    BY <1>2 DEF FirstAttempt, Poll, TypeOK
  <2>2. r \notin Executing /\ Place(r) = "waiting" /\ Place(r)' = "executing"
    BY <1>2, <2>1 DEF Executing, Place
  <2>3. QED
    BY <2>1, <2>2, RoomForAcquired, GateAdmit
<1>3. ASSUME NEW r \in Requests, pc' = [pc EXCEPT ![r] = pc'[r]],
             \/ Place(r)' = Place(r)
             \/ Place(r) \in {"waiting", "executing"} /\ Place(r)' = "left"
      PROVE  Gate!Next \/ PlaceOf' = PlaceOf
  BY <1>3, PlaceStutter, GateLeave
<1>4. ASSUME NEW r \in Requests, Step(r) \/ Disconnect(r),
             ~ (/\ FirstAttempt(r) \/ Poll(r)
                /\ pc'[r] \in {"read", "run"})
      PROVE  Gate!Next \/ PlaceOf' = PlaceOf
  <2>1. pc' = [pc EXCEPT ![r] = pc'[r]]
    BY <1>4 DEF Step, ClaimIdentity, CheckRoom, GiveUp, Join, FirstAttempt,
                CancelEnter, ReadBody, Poll, Rest, CancelWait, Serve, Release,
                Disconnect, TypeOK
  <2>2. \/ Place(r)' = Place(r)
        \/ Place(r) \in {"waiting", "executing"} /\ Place(r)' = "left"
    BY <1>4 DEF Step, ClaimIdentity, CheckRoom, GiveUp, Join, FirstAttempt,
                CancelEnter, ReadBody, Poll, Rest, CancelWait, Serve, Release,
                Disconnect, Place, TypeOK
  <2>3. QED
    BY <1>3, <2>1, <2>2
<1>5. ASSUME NEW r \in Requests, RedisFault(r)
      PROVE  Gate!Next \/ PlaceOf' = PlaceOf
  <2>1. pc' = pc \/ pc' = [pc EXCEPT ![r] = AfterError[pc[r]]]
    BY <1>5 DEF RedisFault
  <2>2. pc' = [pc EXCEPT ![r] = pc'[r]]
    BY <2>1 DEF TypeOK
  <2>3. \/ Place(r)' = Place(r)
        \/ Place(r) \in {"waiting", "executing"} /\ Place(r)' = "left"
    BY <1>5, <2>1 DEF RedisFault, AfterError, Place, TypeOK
  <2>4. QED
    BY <1>3, <2>2, <2>3
<1>6. ASSUME NEW i \in Instances, Crash(i) PROVE Gate!Next
  <2> DEFINE S == {r \in Requests : /\ r \in Live /\ Instance[r] = i
                                    /\ Place(r) \in {"waiting", "executing"}}
  <2>1. \A r \in Requests : pc'[r] = IF r \in Live /\ Instance[r] = i
                                     THEN "dead" ELSE pc[r]
    BY <1>6 DEF Crash
  <2>2. \A r \in Requests : Place(r)' = IF r \in S THEN "left" ELSE Place(r)
    BY <2>1 DEF Place, Live, TypeOK, Places
  <2>3. PlaceOf' = [r \in Requests |-> IF r \in S THEN "left" ELSE PlaceOf[r]]
    BY <2>2 DEF PlaceOf
  <2>4. \A r \in S : PlaceOf[r] \in {"waiting", "executing"}
    BY DEF PlaceOf
  <2>5. Gate!Leave(S)
    BY <2>3, <2>4 DEF Gate!Leave, Gate!Left, Gate!Waiting, Gate!Running, PlaceOf
  <2>6. S \in SUBSET Requests
    OBVIOUS
  <2>7. QED
    BY <2>5, <2>6 DEF Gate!Next
<1>7. CASE Tick \/ UNCHANGED vars
  <2>1. pc' = pc
    BY <1>7 DEF Tick, vars
  <2>2. QED
    BY <2>1 DEF PlaceOf, Place
<1>8. QED
  BY <1>1, <1>2, <1>4, <1>5, <1>6, <1>7 DEF Next

\* The limiter over Redis is an admission gate for any number of requests and
\* slots, lost replies and crashes included: it lets a request through only
\* while fewer than CHATMaxConcurrent execute, and a request that has left does
\* not come back.
THEOREM ImplementsGate == Spec => GateSpec
<1>1. Init => Gate!Init
  <2>1. ASSUME Init
        PROVE  [r \in Requests |-> Place(r)] = [r \in Requests |-> "outside"]
    <3>1. \A r \in Requests : Place(r) = "outside"
      BY <2>1 DEF Init, Place
    <3>2. QED
      BY <3>1
  <2>2. QED
    BY <2>1 DEF Gate!Init, Gate!Outside
<1>2. KeyInv /\ SlotInv /\ [Next]_vars
        => [Gate!Next]_([r \in Requests |-> Place(r)])
  BY GateStep DEF PlaceOf
<1>3. QED
  BY <1>1, <1>2, KeyInitially, KeyStep, SlotInitially, SlotStep, PTL
  DEF Spec, GateSpec, Gate!Spec
=============================================================================
