---------------------------- MODULE ChatActivity ----------------------------
(***************************************************************************)
(* The execution summary of a reply (chat-activity.ts): what the stream's  *)
(* progress and tool events leave on the page.  A tool reports twice or    *)
(* more, under its call id if the backend gives one, else under its name;  *)
(* the list is bounded, and what is shown is keyed by ids made up here.    *)
(* The session records events while the reply is current, interrupts what  *)
(* is unfinished when the reply fails or is stopped (agent-session.tsx),   *)
(* and leaves it as it is when the reply is complete.                      *)
(***************************************************************************)
EXTENDS Naturals, SequencesExt

CONSTANTS
    Stages,         \* what a progress event can say
    Tools,          \* names
    Calls,          \* call ids: opaque, never a number
    MaxActivities,  \* 32
    MaxReports      \* bound: events of a reply

NoCall == "none"

ASSUME ActivityAssumption ==
    NoCall \notin Calls /\ MaxActivities \in Nat \ {0} /\ MaxReports \in Nat

VARIABLES
    activities, reports,
    replyStatus     \* of the message that holds the reply

activityVars == <<activities, reports, replyStatus>>

Statuses == {"running", "completed", "interrupted", "observed"}
IsFinished(item) == item.status \in {"completed", "interrupted"}

Activity == [id: {"progress", "tool"} \X (0..MaxReports) \X (Calls \cup {NoCall}),
             kind: {"progress", "tool"}, name: Stages \cup Tools,
             status: Statuses, call: Calls \cup {NoCall}, order: 1..MaxReports]

ActivityTypeOK ==
    /\ activities \in Seq(Activity) /\ Len(activities) <= MaxActivities
    /\ reports \in 0..MaxReports /\ replyStatus \in {"streaming", "complete", "interrupted"}

ActivityInit == activities = <<>> /\ reports = 0 /\ replyStatus = "streaming"

Orders == {activities[i].order : i \in DOMAIN activities}

\* Slip: numbered by what is kept.
OrderByLength == Len(activities) + 1

NextOrder == IF activities = <<>> THEN 1 ELSE 1 + CHOOSE o \in Orders : \A p \in Orders : p <= o

\* .slice(-32)
Keep(list) ==
    IF Len(list) > MaxActivities THEN SubSeq(list, Len(list) - MaxActivities + 1, Len(list))
                                 ELSE list

\* Slip: events of a reply that was stopped are recorded as well.
CurrentOrNot == TRUE

\* isCurrent()
Current == replyStatus = "streaming"

Reported == Current /\ reports < MaxReports /\ reports' = reports + 1

RecordProgress(s) ==
    /\ Reported
    /\ activities' =
          IF activities # <<>> /\ Last(activities).kind = "progress" /\ Last(activities).name = s
          THEN activities
          ELSE Keep(Append(activities,
                  [id |-> <<"progress", NextOrder, NoCall>>, kind |-> "progress", name |-> s,
                   status |-> "observed", call |-> NoCall, order |-> NextOrder]))
    /\ UNCHANGED replyStatus

\* Slip: the last of the name, whether it is over or not.
LastOfName(tool, call) ==
    {i \in DOMAIN activities :
       /\ activities[i].kind = "tool" /\ activities[i].call = call
       /\ call = NoCall => activities[i].name = tool}

\* The items an event can be about: of its call, or unfinished, unidentified
\* and of its name.
Candidates(tool, call) ==
    {i \in DOMAIN activities :
       /\ activities[i].kind = "tool" /\ activities[i].call = call
       /\ call = NoCall => activities[i].name = tool /\ ~IsFinished(activities[i])}

\* findIndex for a call, findLastIndex for a name
Chosen(items, call) ==
    CHOOSE i \in items : \A j \in items : IF call = NoCall THEN j <= i ELSE i <= j

RecordTool(tool, call, status) ==
    /\ Reported
    /\ LET items == Candidates(tool, call)
           entry == [id |-> <<"tool", IF call = NoCall THEN NextOrder ELSE 0, call>>,
                     kind |-> "tool", name |-> tool, status |-> status, call |-> call,
                     order |-> NextOrder] IN
       activities' = IF items = {} THEN Keep(Append(activities, entry))
                     ELSE LET i == Chosen(items, call) IN
                          [activities EXCEPT ![i] = [entry EXCEPT !.id = activities[i].id]]
    /\ UNCHANGED replyStatus

\* The reply fails or is stopped.
InterruptActivity ==
    /\ Current /\ replyStatus' = "interrupted"
    /\ activities' = [i \in DOMAIN activities |->
          IF activities[i].kind = "tool" /\ ~IsFinished(activities[i])
          THEN [activities[i] EXCEPT !.status = "interrupted"] ELSE activities[i]]
    /\ UNCHANGED reports

\* The reply is complete; a tool that has not reported its end keeps its status.
CompleteReply ==
    /\ Current /\ replyStatus' = "complete"
    /\ UNCHANGED <<activities, reports>>

ActivityNext ==
    \/ \E s \in Stages : RecordProgress(s)
    \/ \E t \in Tools, c \in Calls \cup {NoCall}, status \in {"running", "completed"} :
          RecordTool(t, c, status)
    \/ InterruptActivity \/ CompleteReply

ActivitySpec == ActivityInit /\ [][ActivityNext]_activityVars

-----------------------------------------------------------------------------
(* Properties.                                                             *)

\* Every item has an id of its own, a call has one item, and no two items are
\* equally recent -- also when old items were dropped and others moved on.
IdsDistinct ==
    \A i, j \in DOMAIN activities : i # j =>
       /\ activities[i].id # activities[j].id
       /\ activities[i].order # activities[j].order
       /\ activities[i].call # NoCall => activities[i].call # activities[j].call

\* A tool the page calls under way: unfinished, in a reply that is not complete
\* (agent-app.tsx, ExecutionProgress).
UnderWay(item) == item.kind = "tool" /\ ~IsFinished(item) /\ replyStatus # "complete"

\* The page calls no tool under way in a reply that is over, however it ended and
\* whatever comes of it afterwards.
OverIsOver == replyStatus # "streaming" => \A i \in DOMAIN activities : ~UnderWay(activities[i])

ActivitiesSound == ActivityTypeOK /\ IdsDistinct /\ OverIsOver

\* A tool the backend does not identify is over once it is over: the next event
\* of its name begins an item of its own.
OverStaysOver ==
    [][\A i \in DOMAIN activities :
          activities[i].kind = "tool" /\ activities[i].call = NoCall /\ IsFinished(activities[i])
             => \A j \in DOMAIN activities' :
                   activities'[j].id = activities[i].id => activities'[j] = activities[i]]_activityVars
=============================================================================
