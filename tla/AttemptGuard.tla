---------------------------- MODULE AttemptGuard ----------------------------
(***************************************************************************)
(* What the attempt limiter of the frontend promises each identity, with   *)
(* no memory to save: at most Limit attempts in a rolling window, and once *)
(* one was refused, a quiet period that every further attempt restarts.    *)
(* A limiter that is full may turn an attempt away without remembering it. *)
(***************************************************************************)
EXTENDS Naturals, Sequences

CONSTANTS Keys, Limit, Window, Cooldown, MaxTime

VARIABLES
    now,
    recent,     \* the admissions of each identity in the current window
    quietUntil  \* when its quiet period ends, 0 when it has none

vars == <<now, recent, quietUntil>>

\* What a window that has moved on to t keeps of the admissions in it, the
\* earliest of which come first.
LeftBehind(ts, t) ==
    CHOOSE n \in 0..Len(ts) : \A i \in 1..Len(ts) : ts[i] + Window <= t <=> i <= n
InWindow(ts, t) == SubSeq(ts, LeftBehind(ts, t) + 1, Len(ts))

Init ==
    /\ now = 0
    /\ recent = [k \in Keys |-> <<>>]
    /\ quietUntil = [k \in Keys |-> 0]

Admit(k) ==
    /\ quietUntil[k] = 0 /\ Len(recent[k]) < Limit
    /\ recent' = [recent EXCEPT ![k] = Append(@, now)]
    /\ UNCHANGED <<now, quietUntil>>

Refuse(k) ==
    /\ quietUntil[k] # 0 \/ Len(recent[k]) >= Limit
    /\ quietUntil' = [quietUntil EXCEPT ![k] = now + Cooldown]
    /\ UNCHANGED <<now, recent>>

\* Time passes: admissions leave the window, quiet periods end.
Tick ==
    /\ now < MaxTime
    /\ now' = now + 1
    /\ recent' = [k \in Keys |-> InWindow(recent[k], now + 1)]
    /\ quietUntil' = [k \in Keys |-> IF quietUntil[k] > now + 1 THEN quietUntil[k] ELSE 0]

Next == Tick \/ \E k \in Keys : Admit(k) \/ Refuse(k)

Spec == Init /\ [][Next]_vars
=============================================================================
