------------------------- MODULE ChatAttemptLimiter -------------------------
(***************************************************************************)
(* ChatAttemptLimiter of the frontend (chat-attempt-limiter.ts): the burst *)
(* limit in front of the chat, session and unlock routes.  It keeps one    *)
(* state per identity in a bounded map; expired states are swept at most   *)
(* once per interval, by the attempt that finds the sweep due.  take() is  *)
(* synchronous, so an attempt is one step.                                 *)
(***************************************************************************)
EXTENDS Naturals, Sequences, FiniteSets, Functions

CONSTANTS
    Keys,           \* identities: addresses, IPv6 ones by their /64
    Limit, Window, Cooldown,
    SweepEvery,     \* 10 s, the longest time between two sweeps
    MaxKeys,        \* most states kept
    MaxTime         \* bound on the clock

ASSUME PolicyAssumption ==
    /\ Limit \in Nat \ {0} /\ Window \in Nat \ {0}
    /\ SweepEvery \in Nat \ {0} /\ MaxKeys \in Nat /\ MaxTime \in Nat
    /\ Cooldown \in Nat /\ Cooldown >= Window   \* in all three policies

VARIABLES
    now,        \* the clock
    states,     \* the map: identity to its state
    nextSweep,
    told        \* what the last attempt was told, by identity

limiterVars == <<now, states, nextSweep, told>>

State == [timestamps: Seq(Nat), blockedUntil: Nat, expiresAt: Nat]
Allowed == [allowed |-> TRUE, retryAt |-> 0]
Answer == [allowed: BOOLEAN, retryAt: Nat]

LimiterTypeOK ==
    /\ now \in 0..MaxTime /\ nextSweep \in Nat
    /\ DOMAIN states \subseteq Keys
    /\ \A k \in DOMAIN states : states[k] \in State
    /\ told \in [Keys -> Answer]

LimiterInit ==
    /\ now = 0 /\ nextSweep = 0
    /\ states = [k \in {} |-> <<>>]
    /\ told = [k \in Keys |-> Allowed]

Lesser(a, b) == IF a < b THEN a ELSE b
Greater(a, b) == IF a < b THEN b ELSE a

\* timestamps.filter: they ascend, so the attempts the window has left behind
\* come first, and what it keeps is the rest.
LeftBehind(ts, t) ==
    CHOOSE n \in 0..Len(ts) : \A i \in 1..Len(ts) : ts[i] + Window <= t <=> i <= n
InWindow(ts, t) == SubSeq(ts, LeftBehind(ts, t) + 1, Len(ts))

\* Slip: states are dropped when the window is over, blocked or not.
SweepTooEarly ==
    IF now >= nextSweep
    THEN Restrict(states, {k \in DOMAIN states :
             InWindow(states[k].timestamps, now) # <<>>})
    ELSE states

\* The map after the sweep, when one is due.
Swept ==
    IF now >= nextSweep
    THEN Restrict(states, {k \in DOMAIN states : states[k].expiresAt > now})
    ELSE states

NewState == [timestamps |-> <<>>, blockedUntil |-> 0, expiresAt |-> now + Window]

StateOf(k) == IF k \in DOMAIN Swept THEN Swept[k] ELSE NewState

\* Slip: a full map does not count.
RoomAlways(k) == TRUE

HasRoom(k) == k \in DOMAIN Swept \/ Cardinality(DOMAIN Swept) < MaxKeys

Blocked(k) ==
    \/ StateOf(k).blockedUntil > now
    \/ Len(InWindow(StateOf(k).timestamps, now)) >= Limit

\* Slip: the answer names the end of the window.
RetryAtWindow == now + Window

RetryAt == now + Cooldown

\* take(k)
Take(k) ==
    LET kept == InWindow(StateOf(k).timestamps, now)
        put(s) == [j \in DOMAIN Swept \cup {k} |-> IF j = k THEN s ELSE Swept[j]]
        blocked == [timestamps |-> kept, blockedUntil |-> now + Cooldown,
                    expiresAt |-> Greater(now + Cooldown, now + Window)]
        admitted == [timestamps |-> Append(kept, now),
                     blockedUntil |-> StateOf(k).blockedUntil,
                     expiresAt |-> now + Window]
    IN
    /\ nextSweep' = IF now >= nextSweep THEN now + Lesser(Window, SweepEvery)
                                        ELSE nextSweep
    /\ \/ /\ ~HasRoom(k)
          /\ states' = Swept
          /\ told' = told
       \/ /\ HasRoom(k) /\ Blocked(k)
          /\ states' = put(blocked)
          /\ told' = [told EXCEPT ![k] = [allowed |-> FALSE, retryAt |-> RetryAt]]
       \/ /\ HasRoom(k) /\ ~Blocked(k)
          /\ states' = put(admitted)
          /\ told' = [told EXCEPT ![k] = Allowed]
    /\ UNCHANGED now

Tick ==
    /\ now < MaxTime
    /\ now' = now + 1
    /\ UNCHANGED <<states, nextSweep, told>>

LimiterNext == Tick \/ \E k \in Keys : Take(k)

LimiterSpec == LimiterInit /\ [][LimiterNext]_limiterVars

-----------------------------------------------------------------------------
(* Properties.                                                             *)

\* The map never holds more states than it may, also under a stream of new
\* identities.
MapBounded == Cardinality(DOMAIN states) <= MaxKeys

\* Whoever was told to come back at a time and did not ask before it is let
\* in then, unless the map is full: the window has emptied by the end of the
\* quiet period.
RetryAfterIsEnough ==
    \A k \in Keys : ~told[k].allowed /\ now >= told[k].retryAt => ~Blocked(k)

LimiterSound == LimiterTypeOK /\ MapBounded /\ RetryAfterIsEnough

\* Sweeping forgets nothing that matters: seen through the clock, the map is
\* the limiter with unbounded memory, and a full map only turns new
\* identities away.
Guard == INSTANCE AttemptGuard WITH
    recent <- [k \in Keys |-> IF k \in DOMAIN states
                  THEN InWindow(states[k].timestamps, now) ELSE <<>>],
    quietUntil <- [k \in Keys |-> IF k \in DOMAIN states /\ states[k].blockedUntil > now
                      THEN states[k].blockedUntil ELSE 0]
GuardSpec == Guard!Spec
=============================================================================
