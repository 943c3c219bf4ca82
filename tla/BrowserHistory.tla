--------------------------- MODULE BrowserHistory ---------------------------
(***************************************************************************)
(* What a browser promises of "back" and "forward": two stacks of pages    *)
(* around the one it shows.                                                *)
(***************************************************************************)
EXTENDS Naturals, Sequences

CONSTANTS
    Documents,
    MaxKept         \* pages remembered, the one shown included

VARIABLES back, shown, forward

historyVars == <<back, shown, forward>>

HistoryInit == back = <<>> /\ shown \in Documents /\ forward = <<>>

\* Another page: what was ahead is forgotten, and what lies too far back.
Visit(d) ==
    /\ d # shown
    /\ shown' = d /\ forward' = <<>>
    /\ LET stack == Append(back, shown) IN
       back' = IF Len(stack) < MaxKept THEN stack ELSE Tail(stack)

GoBack ==
    /\ back # <<>>
    /\ shown' = back[Len(back)]
    /\ back' = SubSeq(back, 1, Len(back) - 1)
    /\ forward' = <<shown>> \o forward

GoForward ==
    /\ forward # <<>>
    /\ shown' = Head(forward)
    /\ forward' = Tail(forward)
    /\ back' = Append(back, shown)

\* A link of the desktop opens a page as if the browser had just been started.
StartAt(d) == back' = <<>> /\ shown' = d /\ forward' = <<>>

HistoryNext ==
    \/ \E d \in Documents : Visit(d) \/ StartAt(d)
    \/ GoBack \/ GoForward

HistorySpec == HistoryInit /\ [][HistoryNext]_historyVars
=============================================================================
