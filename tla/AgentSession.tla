---------------------------- MODULE AgentSession ----------------------------
(***************************************************************************)
(* The conversation with the agent in the browser: AgentSessionProvider    *)
(* (agent-session.tsx), the request it runs (chat-request.ts), the decoder *)
(* of its stream (chat-stream.ts), the buffer that paints at most once per *)
(* frame (chat-reply-buffer.ts) and the copy kept in localStorage          *)
(* (chat-history.ts).                                                      *)
(*                                                                         *)
(* A run is one call of runReply.  Runs are async functions: stopping one  *)
(* does not end it, it resumes when the network answers and has to find    *)
(* out that it is no longer current.  The user, the network, the frames,   *)
(* the effects of React and the timer of the persistence interleave.       *)
(*                                                                         *)
(* The text of a reply is the number of the snapshot it comes from, 0 for  *)
(* blank text; the greeting, timestamps and activity summaries are left    *)
(* out.                                                                    *)
(***************************************************************************)
EXTENDS RelationshipMode, Integers, Sequences, FiniteSets

CONSTANTS
    MaxTurns,       \* bound on the messages of the user
    MaxRuns,        \* bound on the replies asked for
    MaxDeltas,      \* bound on the content events of a reply before its final text
    Unlocking,      \* the runs whose reply may bring an unlock proof
    MaxReloads      \* bound on the page loads after the first

ASSUME BoundsAssumption ==
    /\ MaxTurns \in Nat /\ MaxRuns \in Nat /\ MaxReloads \in Nat
    /\ MaxDeltas \in Nat \ {0}
    /\ Unlocking \subseteq 1..MaxRuns

Runs == 1..MaxRuns
Texts == 0..(MaxDeltas + 1)
NoText == -1
NoRun == 0

VARIABLES
    messages,   \* messagesRef.current: what the page shows
    active,     \* activeRequest.current: a run or NoRun
    aborted,    \* the runs whose controller is aborted
    loading,    \* isLoading
    alert,      \* errorMessage and notice, of which one at most is set
    hydrated,   \* isHydrated
    phase,      \* where each run waits
    reply,      \* what the decoder of each run has received
    captured,   \* activateGirlfriend as the run closed over it: already unlocked
    history,    \* the history each run posts
    buffer,     \* the reply buffer of each run
    unlock,     \* the unlock request of each run, as the server sees it
    stored,     \* the conversation in localStorage
    timer,      \* persistenceTimer is set
    dirty,      \* an effect on messages, isLoading or isHydrated is due
    turns, runs, reloads,   \* ids handed out, page loads
    completed,  \* history variable: the runs whose reply was completed
    got,        \* history variable: last text the request handed over
    answers,    \* history variable: the turn each run answers
    forgotten,  \* history variable: the turns handed out before the last reset
    lived       \* history variable: the runs of this page load since the reset

page == <<messages, active, aborted, loading, alert, hydrated>>
work == <<phase, reply, captured, history, buffer, unlock>>
disk == <<stored, timer, dirty>>
counts == <<turns, runs, reloads>>
past == <<completed, got, answers, forgotten, lived>>
vars == <<page, work, disk, counts, past, modeVars>>

Message == [role: {"user", "assistant"}, id: Nat, text: Texts,
            status: {"complete", "streaming", "interrupted"}]
Reply == [kind: {"none", "legacy", "deltas", "final"}, text: Texts,
          seen: Texts, proof: BOOLEAN]
Buffer == [frame: BOOLEAN, pending: Texts \cup {NoText}, disposed: BOOLEAN]

Nothing == [kind |-> "none", text |-> 0, seen |-> 0, proof |-> FALSE]
Disposed == [frame |-> FALSE, pending |-> NoText, disposed |-> TRUE]
Fresh == [frame |-> FALSE, pending |-> NoText, disposed |-> FALSE]

Waiting == {"session", "post", "stream", "json", "closing", "unlock", "content"}

TypeOK ==
    /\ ModeTypeOK
    /\ messages \in Seq(Message) /\ stored \in Seq(Message)
    /\ active \in Runs \cup {NoRun} /\ aborted \in SUBSET Runs
    /\ loading \in BOOLEAN /\ alert \in {"none", "error", "notice"}
    /\ hydrated \in BOOLEAN /\ timer \in BOOLEAN /\ dirty \in BOOLEAN
    /\ phase \in [Runs -> Waiting \cup {"over"}]
    /\ reply \in [Runs -> Reply]
    /\ captured \in SUBSET Runs
    /\ history \in [Runs -> Seq(Message)]
    /\ buffer \in [Runs -> Buffer]
    /\ unlock \in [Runs -> {"none", "sent", "accepted"}]
    /\ turns \in 0..MaxTurns /\ runs \in 0..MaxRuns /\ reloads \in 0..MaxReloads
    /\ got \in [Runs -> Texts] /\ answers \in [Runs -> 0..MaxTurns]
    /\ completed \in SUBSET Runs
    /\ forgotten \in 0..MaxTurns /\ lived \in SUBSET Runs

\* A page without a stored conversation that has learnt whether there is a
\* cookie; the races of the rest of a page load are those of PageLoads.
Init ==
    /\ ModeInit
    /\ messages = <<>> /\ stored = <<>>
    /\ active = NoRun /\ aborted = {}
    /\ loading = FALSE /\ alert = "none" /\ hydrated = TRUE
    /\ phase = [r \in Runs |-> "over"]
    /\ reply = [r \in Runs |-> Nothing]
    /\ captured = {}
    /\ history = [r \in Runs |-> <<>>]
    /\ buffer = [r \in Runs |-> Disposed]
    /\ unlock = [r \in Runs |-> "none"]
    /\ timer = FALSE /\ dirty = FALSE
    /\ turns = 0 /\ runs = 0 /\ reloads = 0
    /\ got = [r \in Runs |-> 0] /\ answers = [r \in Runs |-> 0]
    /\ forgotten = 0 /\ lived = {} /\ completed = {}

-----------------------------------------------------------------------------
(* Conversations: chat-history.ts and the helpers of chat-request.ts.      *)

User(u) == [role |-> "user", id |-> u, text |-> 1, status |-> "complete"]
Assistant(r) == [role |-> "assistant", id |-> r, text |-> 0, status |-> "streaming"]

OfRun(m, r) == m.role = "assistant" /\ m.id = r

Put(msgs, r, t) ==
    [i \in DOMAIN msgs |-> IF OfRun(msgs[i], r) THEN [msgs[i] EXCEPT !.text = t]
                                                ELSE msgs[i]]

\* A user turn is unanswered while no complete reply stands behind it.
RetryableIndex(msgs) ==
    LET asked == {i \in DOMAIN msgs : msgs[i].role = "user"}
        last == CHOOSE i \in asked : \A j \in asked : j <= i
        answered == \E i \in DOMAIN msgs :
            i > last /\ msgs[i].role = "assistant" /\ msgs[i].status = "complete"
    IN IF asked = {} THEN 0 ELSE IF answered THEN 0 ELSE last

\* filter: the messages at the places of keep, in their order.
Kept(msgs, keep) ==
    [k \in 1..Cardinality(keep) |->
        msgs[CHOOSE i \in keep : Cardinality({j \in keep : j <= i}) = k]]

Texted(msgs) == {i \in DOMAIN msgs : msgs[i].text # 0}

ToChatHistory(msgs) ==
    Kept(msgs, {i \in Texted(msgs) : msgs[i].status = "complete"})

\* Slip: a reply that was still growing comes back as a complete one.
RestoreAsComplete(saved) ==
    LET kept == Kept(saved, Texted(saved))
    IN [i \in DOMAIN kept |-> [kept[i] EXCEPT !.status =
           IF @ = "streaming" THEN "complete" ELSE @]]

RestoreConversation(saved) ==
    LET kept == Kept(saved, Texted(saved))
    IN [i \in DOMAIN kept |->
           IF kept[i].status = "streaming" THEN [kept[i] EXCEPT !.status = "interrupted"]
                                           ELSE kept[i]]

InterruptAssistant(msgs, r) ==
    LET kept == Kept(msgs, {i \in DOMAIN msgs : ~OfRun(msgs[i], r)} \cup Texted(msgs))
    IN [i \in DOMAIN kept |->
           IF OfRun(kept[i], r) THEN [kept[i] EXCEPT !.status = "interrupted"]
                                ELSE kept[i]]

-----------------------------------------------------------------------------
(* The reply buffer.                                                       *)

\* Slip: asks whether a reply is running instead of whether this one is.
IsAnyCurrent(r) == active # NoRun

IsCurrent(r) == active = r /\ r \notin aborted

\* What the page shows once the buffer of r has been flushed.
Flush(r) ==
    IF ~buffer[r].disposed /\ buffer[r].pending # NoText /\ IsCurrent(r)
    THEN Put(messages, r, buffer[r].pending)
    ELSE messages

Flushed(b) ==
    [frame |-> FALSE, disposed |-> b.disposed,
     pending |-> IF b.disposed THEN b.pending ELSE NoText]

\* buffer.push from onContent: a delta waits for the frame, a final text not.
Push(r, t, final) ==
    IF ~IsCurrent(r) \/ buffer[r].disposed
    THEN UNCHANGED <<messages, buffer, dirty>>
    ELSE IF final
    THEN /\ messages' = Put(messages, r, t)
         /\ buffer' = [buffer EXCEPT ![r] = Flushed([@ EXCEPT !.pending = t])]
         /\ dirty' = TRUE
    ELSE /\ buffer' = [buffer EXCEPT ![r].pending = t, ![r].frame = TRUE]
         /\ UNCHANGED <<messages, dirty>>

\* The animation frame fires.
Frame(r) ==
    /\ buffer[r].frame
    /\ messages' = Flush(r)
    /\ buffer' = [buffer EXCEPT ![r] = Flushed(@)]
    /\ dirty' = (dirty \/ messages' # messages)
    /\ UNCHANGED <<active, aborted, loading, alert, hydrated, phase, reply, captured,
                   history, unlock, stored, timer, counts, past, modeVars>>

-----------------------------------------------------------------------------
(* runReply and requestChatReply.                                          *)

\* finally of runReply, for a run that is still current or not.
Over(r) ==
    /\ phase' = [phase EXCEPT ![r] = "over"]
    /\ reply' = [reply EXCEPT ![r] = Nothing]
    /\ history' = [history EXCEPT ![r] = <<>>]
    /\ captured' = captured \ {r}
    /\ IF IsCurrent(r) THEN active' = NoRun /\ loading' = FALSE /\ dirty' = TRUE
                       ELSE UNCHANGED <<active, loading, dirty>>

\* The run starts: posted is the history for the model, display what the
\* page shows under the new reply.
RunReply(u, posted, display) ==
    LET r == runs + 1 IN
    /\ hydrated /\ active = NoRun
    /\ runs < MaxRuns
    /\ runs' = r
    /\ active' = r
    /\ messages' = Append(display, Assistant(r))
    /\ loading' = TRUE /\ alert' = "none" /\ dirty' = TRUE
    /\ phase' = [phase EXCEPT ![r] = "session"]
    /\ buffer' = [buffer EXCEPT ![r] = Fresh]
    /\ history' = [history EXCEPT ![r] = ToChatHistory(posted)]
    /\ captured' = IF mode.unlocked /\ content THEN captured \cup {r} ELSE captured
    /\ answers' = [answers EXCEPT ![r] = u]
    /\ lived' = lived \cup {r}
    /\ UNCHANGED <<aborted, hydrated, reply, unlock, stored, timer, reloads, got,
                   completed, forgotten, modeVars>>

\* handleSendMessage.
Send ==
    /\ turns < MaxTurns
    /\ turns' = turns + 1
    /\ LET asked == Append(messages, User(turns + 1))
       IN RunReply(turns + 1, asked, asked)

\* handleRetryReply: earlier partial replies stay visible and are not posted.
Retry ==
    LET i == RetryableIndex(messages) IN
    /\ i # 0
    /\ RunReply(messages[i].id, SubSeq(messages, 1, i), messages)
    /\ UNCHANGED turns

\* Every await is followed by check(): a run goes on when it is not aborted.
Resumes(r, p) == phase[r] = p /\ r \notin aborted

\* /api/chat/session and then the POST answer.
SessionAnswers(r) ==
    /\ Resumes(r, "session")
    /\ phase' = [phase EXCEPT ![r] = "post"]
    /\ UNCHANGED <<page, reply, captured, history, buffer, unlock, disk, counts, past,
                   modeVars>>

PostAnswers(r) ==
    /\ Resumes(r, "post")
    /\ \E p \in {"stream", "json"} : phase' = [phase EXCEPT ![r] = p]
    /\ history' = [history EXCEPT ![r] = <<>>]
    /\ UNCHANGED <<page, reply, captured, buffer, unlock, disk, counts, past, modeVars>>

\* An event of the stream hands text over: onContent.
Deliver(r, kind, t, final) ==
    /\ reply' = [reply EXCEPT ![r].kind = kind, ![r].text = t, ![r].seen = @ + 1]
    /\ got' = [got EXCEPT ![r] = t]
    /\ Push(r, t, final)
    /\ UNCHANGED <<active, aborted, loading, alert, hydrated, phase, captured, history,
                   unlock, stored, timer, counts, completed, answers, forgotten, lived, modeVars>>

Next1(r) == reply[r].seen + 1

\* A reply event with a delta, of the same message or of a new one.
Delta(r) ==
    /\ Resumes(r, "stream")
    /\ reply[r].kind # "final" /\ reply[r].seen < MaxDeltas
    /\ Deliver(r, "deltas", Next1(r), FALSE)

\* The authoritative text, which may be blank.
Final(r) ==
    /\ Resumes(r, "stream")
    /\ reply[r].kind # "final"
    /\ \E t \in {0, Next1(r)} : Deliver(r, "final", t, TRUE)

\* A content event of the first protocol.
LegacyContent(r) ==
    /\ Resumes(r, "stream")
    /\ reply[r].kind \in {"none", "legacy"} /\ reply[r].seen < MaxDeltas
    /\ Deliver(r, "legacy", Next1(r), FALSE)

\* The service sends the proof between the last text and done.
Desktop(r) ==
    /\ Resumes(r, "stream")
    /\ r \in Unlocking /\ ~reply[r].proof
    /\ reply[r].kind \in {"final", "legacy"}
    /\ reply' = [reply EXCEPT ![r].proof = TRUE]
    /\ UNCHANGED <<page, phase, captured, history, buffer, unlock, disk, counts, past,
                   modeVars>>

\* done: a progressive reply must have had its final text.
Done(r) ==
    /\ Resumes(r, "stream")
    /\ reply[r].kind # "deltas"
    /\ phase' = [phase EXCEPT ![r] = "closing"]
    /\ UNCHANGED <<page, reply, captured, history, buffer, unlock, disk, counts, past,
                   modeVars>>

\* The whole reply as one JSON body.
JsonAnswers(r) ==
    /\ Resumes(r, "json")
    /\ \E t \in {0, 1}, p \in {FALSE, (r \in Unlocking)} :
          reply' = [reply EXCEPT ![r] = [kind |-> "legacy", text |-> t, seen |-> t, proof |-> p]]
    /\ phase' = [phase EXCEPT ![r] = "closing"]
    /\ UNCHANGED <<page, captured, history, buffer, unlock, disk, counts, past, modeVars>>

\* The run returns its content: the reply is complete.
Complete(r) ==
    /\ messages' = IF IsCurrent(r)
         THEN [i \in DOMAIN messages |-> IF OfRun(messages[i], r)
                  THEN [messages[i] EXCEPT !.text = reply[r].text, !.status = "complete"]
                  ELSE messages[i]]
         ELSE messages
    /\ got' = [got EXCEPT ![r] = reply[r].text]
    /\ completed' = completed \cup {r}
    /\ buffer' = [buffer EXCEPT ![r] = Disposed]
    /\ Over(r)
    /\ UNCHANGED <<aborted, alert, hydrated, stored, timer, counts, answers, forgotten,
                   lived>>

HasText(r) == reply[r].text # 0

\* The stream is closed or the body read.  Without a proof the reply is
\* complete; so it is with one when the page was unlocked as the run began.
Closes(r) ==
    /\ Resumes(r, "closing") /\ HasText(r)
    /\ \/ ~reply[r].proof /\ UNCHANGED modeVars
       \/ reply[r].proof /\ r \in captured /\ Activate /\ UNCHANGED <<initial, cookie>>
    /\ Complete(r)
    /\ UNCHANGED unlock

\* Otherwise the final text is shown while the proof is exchanged.
AsksUnlock(r) ==
    /\ Resumes(r, "closing") /\ HasText(r)
    /\ reply[r].proof /\ r \notin captured
    /\ phase' = [phase EXCEPT ![r] = "unlock"]
    /\ unlock' = [unlock EXCEPT ![r] = "sent"]
    /\ IF reply[r].kind = "final"
       THEN UNCHANGED <<messages, buffer, dirty, got>>
       ELSE Push(r, reply[r].text, TRUE) /\ got' = [got EXCEPT ![r] = reply[r].text]
    /\ UNCHANGED <<active, aborted, loading, alert, hydrated, reply, captured, history,
                   stored, timer, counts, completed, answers, forgotten, lived, modeVars>>

\* The route handles the POST, whatever became of the run by then.
ServerUnlocks(r) ==
    /\ unlock[r] = "sent"
    /\ \/ /\ SetCookie
          /\ unlock' = [unlock EXCEPT ![r] =
                           IF phase[r] = "unlock" THEN "accepted" ELSE "none"]
       \/ UNCHANGED cookie /\ unlock' = [unlock EXCEPT ![r] = "none"]
    /\ UNCHANGED <<page, phase, reply, captured, history, buffer, disk, counts, past, mode,
                   content, initial>>

UnlockAnswers(r) ==
    /\ Resumes(r, "unlock")
    /\ unlock[r] = "accepted"
    /\ phase' = [phase EXCEPT ![r] = "content"]
    /\ unlock' = [unlock EXCEPT ![r] = "none"]
    /\ UNCHANGED <<page, reply, captured, history, buffer, disk, counts, past, modeVars>>

\* Slip: the signal is not looked at after the last fetch.
ContentAnswersLate(r) ==
    /\ phase[r] = "content"
    /\ cookie
    /\ Activate
    /\ Complete(r)
    /\ UNCHANGED <<unlock, initial, cookie>>

ContentAnswers(r) ==
    /\ Resumes(r, "content")
    /\ cookie
    /\ Activate
    /\ Complete(r)
    /\ UNCHANGED <<unlock, initial, cookie>>

\* An await throws: aborted, a network or protocol error, a refusal, a reply
\* without text.  Only a current run may say so.
Throws(r) ==
    /\ phase[r] \in Waiting
    /\ phase[r] = "closing" => r \in aborted \/ ~HasText(r)
    /\ IF IsCurrent(r)
       THEN /\ messages' = InterruptAssistant(Flush(r), r)
            /\ alert' = "error"
       ELSE UNCHANGED <<messages, alert>>
    /\ buffer' = [buffer EXCEPT ![r] = Disposed]
    /\ Over(r)
    /\ UNCHANGED <<aborted, hydrated, unlock, stored, timer, counts, past, modeVars>>

-----------------------------------------------------------------------------
(* The user stops a reply or starts a new conversation.                    *)

\* Slip: the buffer is dropped without a flush.
StopUnflushed ==
    /\ active # NoRun
    /\ messages' = InterruptAssistant(messages, active)
    /\ buffer' = [buffer EXCEPT ![active] = Disposed]
    /\ aborted' = aborted \cup {active}
    /\ active' = NoRun /\ loading' = FALSE /\ alert' = "notice" /\ dirty' = TRUE
    /\ UNCHANGED <<hydrated, phase, reply, captured, history, unlock, stored, timer,
                   counts, past, modeVars>>

Stop ==
    /\ active # NoRun
    /\ messages' = InterruptAssistant(Flush(active), active)
    /\ buffer' = [buffer EXCEPT ![active] = Disposed]
    /\ aborted' = aborted \cup {active}
    /\ active' = NoRun /\ loading' = FALSE /\ alert' = "notice" /\ dirty' = TRUE
    /\ UNCHANGED <<hydrated, phase, reply, captured, history, unlock, stored, timer,
                   counts, past, modeVars>>

Reset ==
    /\ hydrated /\ messages # <<>>
    /\ IF active = NoRun THEN UNCHANGED <<buffer, aborted>>
                         ELSE /\ buffer' = [buffer EXCEPT ![active] = Disposed]
                              /\ aborted' = aborted \cup {active}
    /\ messages' = <<>> /\ stored' = <<>>
    /\ active' = NoRun /\ loading' = FALSE /\ alert' = "none" /\ dirty' = TRUE
    /\ forgotten' = turns /\ lived' = {}
    /\ got' = [r \in Runs |-> 0] /\ answers' = [r \in Runs |-> 0]
    /\ UNCHANGED <<hydrated, phase, reply, captured, history, unlock, timer, counts,
                   completed, modeVars>>

-----------------------------------------------------------------------------
(* The copy in localStorage.                                               *)

\* persistMessages, called with the effect still due or not.
PersistMessages(due) ==
    /\ hydrated
    /\ messages' = IF active = NoRun THEN messages ELSE Flush(active)
    /\ buffer' = IF active = NoRun THEN buffer
                 ELSE [buffer EXCEPT ![active] = Flushed(@)]
    /\ stored' = messages'
    /\ timer' = FALSE
    /\ dirty' = (due \/ messages' # messages)
    /\ UNCHANGED <<active, aborted, loading, alert, hydrated, phase, reply, captured,
                   history, unlock, counts, past, modeVars>>

\* Slip: a reply that is running is not given a timer.
EffectAfterReply ==
    /\ dirty
    /\ \/ ~loading /\ PersistMessages(FALSE)
       \/ /\ loading \/ ~hydrated
          /\ dirty' = FALSE
          /\ UNCHANGED <<page, work, stored, timer, counts, past, modeVars>>

\* The effect on messages, isHydrated and isLoading: at once when no reply is
\* running, 800 ms later when one is.
Effect ==
    /\ dirty
    /\ \/ ~loading /\ PersistMessages(FALSE)
       \/ /\ loading \/ ~hydrated
          /\ dirty' = FALSE
          /\ timer' = (timer \/ hydrated)
          /\ UNCHANGED <<page, work, stored, counts, past, modeVars>>

TimerFires == timer /\ PersistMessages(dirty)

\* pagehide, or the page becomes hidden.
Hide == PersistMessages(dirty)

\* The mount effect restores what was stored.
Hydrate ==
    /\ ~hydrated
    /\ messages' = RestoreConversation(stored)
    /\ hydrated' = TRUE /\ dirty' = TRUE
    /\ UNCHANGED <<active, aborted, loading, alert, work, stored, timer, counts, past,
                   modeVars>>

\* The page is loaded again, after a pagehide or after a crash of the tab.
\* Requests already sent go on at the server.
PageLoads ==
    /\ reloads < MaxReloads
    /\ reloads' = reloads + 1
    /\ stored' \in {stored} \cup
          (IF hydrated THEN {IF active = NoRun THEN messages ELSE Flush(active)} ELSE {})
    /\ messages' = <<>>
    /\ active' = NoRun /\ aborted' = {} /\ loading' = FALSE /\ alert' = "none"
    /\ hydrated' = FALSE /\ timer' = FALSE /\ dirty' = TRUE
    /\ phase' = [r \in Runs |-> "over"]
    /\ reply' = [r \in Runs |-> Nothing]
    /\ captured' = {}
    /\ history' = [r \in Runs |-> <<>>]
    /\ buffer' = [r \in Runs |-> Disposed]
    /\ lived' = {}
    /\ ModeMounts
    /\ UNCHANGED <<unlock, turns, runs, completed, got, answers, forgotten, cookie>>

-----------------------------------------------------------------------------
(* The specification.                                                      *)

ModeSteps == ModeNext /\ UNCHANGED <<page, work, disk, counts, past>>

\* What the network and the runtime do for run r.
Answers(r) ==
    \/ SessionAnswers(r) \/ PostAnswers(r) \/ JsonAnswers(r)
    \/ Closes(r) \/ AsksUnlock(r) \/ UnlockAnswers(r) \/ ContentAnswers(r)
    \/ Done(r) \/ Throws(r)

Events(r) == Delta(r) \/ Final(r) \/ LegacyContent(r) \/ Desktop(r)

Next ==
    \/ Send \/ Retry \/ Stop \/ Reset \/ Hide \/ PageLoads
    \/ Hydrate \/ Effect \/ TimerFires \/ ModeSteps
    \/ \E r \in Runs : Answers(r) \/ Events(r) \/ Frame(r) \/ ServerUnlocks(r)

Spec == Init /\ [][Next]_vars

-----------------------------------------------------------------------------
(* Properties.                                                             *)

Shown(msgs) == {msgs[i] : i \in DOMAIN msgs}
AnsweredTurn(msgs, i) ==
    LET before == {j \in 1..(i - 1) : msgs[j].role = "user"}
    IN IF before = {} THEN 0 ELSE msgs[CHOOSE j \in before : \A k \in before : k <= j].id

\* Only the active run has a reply that still grows, and while there is one
\* the page says it is working (runReply, stopReply and the finally).
OneReplyGrows ==
    /\ loading = (active # NoRun)
    /\ \A m \in Shown(messages) : m.status = "streaming" => m.id = active
    /\ \A i, j \in DOMAIN messages :
          messages[i] = messages[j] /\ messages[i].role = "assistant" => i = j

\* A complete reply stands behind the turn its run was asked about, with no
\* other turn and no other complete reply between: late answers of stopped
\* runs never settle under a question they were not given.
RepliesAnswerTheirTurn ==
    \A i \in DOMAIN messages :
        /\ messages[i].role = "assistant" /\ messages[i].status = "complete"
        => /\ messages[i].id \in completed
           /\ AnsweredTurn(messages, i) = answers[messages[i].id]
           /\ \A j \in DOMAIN messages :
                 /\ messages[j].role = "assistant" /\ messages[j].status = "complete"
                 /\ AnsweredTurn(messages, j) = AnsweredTurn(messages, i)
                 => i = j

\* What is posted ends with the turn that is asked about and holds no partial
\* reply, also when an interrupted reply is retried (retryHistory).
PostedHistoryIsClean ==
    \A r \in Runs : IsCurrent(r) /\ phase[r] \in {"session", "post"} =>
        /\ history[r] # <<>>
        /\ history[r][Len(history[r])] = User(answers[r])
        /\ \A m \in Shown(history[r]) :
              m.role = "assistant" => m.id \in completed /\ m.text = got[m.id]

\* The conversation as a whole.
ConversationSound ==
    TypeOK /\ OneReplyGrows /\ RepliesAnswerTheirTurn /\ PostedHistoryIsClean

\* Text that arrived is never lost when a run ends, by completion, by an error
\* or by Stop ("the received content is kept"): the page shows the last text
\* its request handed over, unless that one was blank.
NothingReceivedIsLost ==
    \A r \in lived : r # active =>
        IF \E m \in Shown(messages) : OfRun(m, r)
        THEN \A m \in Shown(messages) : OfRun(m, r) => m.text = got[r]
        ELSE got[r] = 0

\* Between renders, what is stored is what is shown; while a reply grows the
\* timer that will store it is set.  After a reset neither ever holds a turn
\* from before it.
StoredFollowsShown ==
    /\ hydrated /\ ~dirty => IF loading THEN timer \/ stored = messages
                                        ELSE stored = messages
    /\ \A m \in Shown(messages) \cup Shown(stored) :
          IF m.role = "user" THEN m.id > forgotten ELSE answers[m.id] > forgotten

\* A run that was stopped, reset or left behind changes nothing of the page,
\* the storage or the desktop when it resumes (isCurrent and check).
StaleRunsAreSilent ==
    [][\A r \in Runs :
          phase[r] # phase'[r] /\ ~IsCurrent(r) /\ reloads' = reloads /\ runs' = runs
          => UNCHANGED <<messages, active, loading, alert, stored, mode, content>>]_vars

\* The page becomes the relationship desktop when it loads with the cookie or
\* by a reply that completes in the same step.
DesktopFollowsReplies ==
    [][~IsShown /\ IsShown' =>
          \/ initial = "content"
          \/ \E m \in Shown(messages') : m.status = "complete" /\ OfRun(m, active)
                /\ active' = NoRun]_vars

\* chat-stream.ts:184: "Failed, empty, aborted or incomplete replies must never
\* change the desktop."
OnlyACompletedReplyUnlocks == IsShown => completed # {}
=============================================================================
