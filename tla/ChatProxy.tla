------------------------------ MODULE ChatProxy ------------------------------
(***************************************************************************)
(* One request through the chat route of the frontend (api/chat/route.ts): *)
(* the checks at the entry, the bounded read of the body                   *)
(* (chat-security.ts), the fetch to the backend under a header and a total *)
(* timeout, and the stream passed on under an idle timeout.                *)
(*                                                                         *)
(* A timer is its being armed: an armed timer may fire at any time, and    *)
(* the clocks are left out.  Whoever ends the request -- the end of the    *)
(* stream, an error, a timer, the browser, the consumer of the response -- *)
(* may come while a read or a cancel is under way.                         *)
(***************************************************************************)
EXTENDS Naturals

CONSTANT MaxChunks      \* bound on the chunks of the response

ASSUME ChunksAssumption == MaxChunks \in Nat

VARIABLES
    at,         \* where POST stands
    response,   \* the status it answered with: 0 while it has not
    answered,   \* the status the backend answered with
    browser,    \* the browser is still there (request.signal not aborted)
    timers,     \* the timers that are armed
    listening,  \* onBrowserAbort is registered
    outcome,    \* what finish() was called with first
    abortReason,
    aborted,    \* upstream is aborted
    source,     \* the response body of the backend
    reader,     \* its reader
    output,     \* the stream of the response
    pulling,    \* pull() awaits a read
    produced, passed, queued,   \* chunks: sent, handed on, not yet consumed
    misused     \* a stream that has ended was written to, closed or failed

endVars == <<timers, listening, outcome>>
streamVars == <<source, reader, output, pulling, produced, passed, queued, misused>>
proxyVars == <<at, response, answered, browser, endVars, abortReason, aborted, streamVars>>

Timers == {"body", "total", "header", "idle"}
Reasons == {"cancelled", "timeout"}
RouteStatuses == {400, 403, 408, 413, 415, 422, 429, 499, 502, 503, 504}
\* What the backend may answer with: a success, and errors that the route has too.
BackendStatuses == {200, 429, 502, 503, 504}
Outcomes == Reasons \cup {"completed", "upstream_error", "invalid_response", "unavailable"}

ProxyTypeOK ==
    /\ at \in {"entry", "body", "fetch", "discard", "done"}
    /\ response \in {0} \cup RouteStatuses \cup BackendStatuses
    /\ answered \in {0} \cup BackendStatuses
    /\ browser \in BOOLEAN /\ listening \in BOOLEAN /\ aborted \in BOOLEAN
    /\ misused \in BOOLEAN /\ pulling \in BOOLEAN
    /\ timers \subseteq Timers
    /\ outcome \in Outcomes \cup {"none"} /\ abortReason \in Reasons \cup {"none"}
    /\ source \in {"none", "open", "ended", "failed", "cancelled"}
    /\ reader \in {"none", "held", "cancelling", "released"}
    /\ output \in {"none", "open", "closed", "errored", "cancelled"}
    /\ produced \in 0..MaxChunks /\ passed \in 0..MaxChunks /\ queued \in 0..1

ProxyInit ==
    /\ at = "entry" /\ response = 0 /\ answered = 0
    /\ browser = TRUE /\ timers = {} /\ listening = FALSE
    /\ outcome = "none" /\ abortReason = "none" /\ aborted = FALSE
    /\ source = "none" /\ reader = "none" /\ output = "none" /\ pulling = FALSE
    /\ produced = 0 /\ passed = 0 /\ queued = 0 /\ misused = FALSE

Finished == outcome # "none"

Respond(code) == at' = "done" /\ response' = code

\* finish(): the first caller wins, the timers and the listener go.
Finish(how) ==
    IF Finished THEN UNCHANGED endVars
    ELSE outcome' = how /\ timers' = {} /\ listening' = FALSE

\* A stream that is not open any more cannot be written to, closed or failed.
OutputGoes(state) ==
    /\ output' = IF output = "open" THEN state ELSE output
    /\ misused' = (misused \/ output # "open")

\* Aborting the fetch ends its body too.
SourceStops == source' = IF source = "open" THEN "cancelled" ELSE source

\* cancelReader(): releases the reader when the cancel settles.
ReaderGoes == reader' = IF reader = "held" THEN "cancelling" ELSE reader

\* abort(reason)
Abort(reason) ==
    IF Finished
    THEN UNCHANGED <<endVars, abortReason, aborted, streamVars>>
    ELSE /\ abortReason' = reason
         /\ aborted' = TRUE
         /\ SourceStops /\ ReaderGoes
         /\ IF output = "none" THEN UNCHANGED <<output, misused>> ELSE OutputGoes("errored")
         /\ Finish(reason)
         /\ UNCHANGED <<pulling, produced, passed, queued>>

-----------------------------------------------------------------------------
(* The entry.                                                              *)

\* Address, burst limit, session, nonce and content type.
Turned ==
    /\ at = "entry"
    /\ \E code \in {403, 429, 503, 415} : Respond(code)
    /\ UNCHANGED <<answered, browser, endVars, abortReason, aborted, streamVars>>

\* readChatBody starts, with its own deadline and listener.
ReadBody ==
    /\ at = "entry"
    /\ at' = "body"
    /\ timers' = {"body"} /\ listening' = TRUE
    /\ UNCHANGED <<response, answered, browser, outcome, abortReason, aborted, streamVars>>

\* The body is too slow, or the browser goes while it is read: the reader is
\* cancelled and nothing is asked of the backend.
BodyRefused ==
    /\ at = "body"
    /\ \E code \in {400, 413, 408, 422} \cup (IF browser THEN {} ELSE {499}) : Respond(code)
    /\ timers' = {} /\ listening' = FALSE
    /\ UNCHANGED <<answered, browser, outcome, abortReason, aborted, streamVars>>

\* The body is read.  The browser may have gone with its last byte.
BodyRead ==
    /\ at = "body"
    /\ at' = "fetch"
    /\ IF browser
       THEN /\ timers' = {"total", "header"} /\ listening' = TRUE
            /\ UNCHANGED <<outcome, abortReason, aborted>>
       ELSE /\ timers' = {} /\ listening' = FALSE
            /\ outcome' = "cancelled" /\ abortReason' = "cancelled" /\ aborted' = TRUE
    /\ UNCHANGED <<response, answered, browser, streamVars>>

-----------------------------------------------------------------------------
(* The fetch.                                                              *)

\* The headers arrive.
HeadersCome == at = "fetch" /\ ~aborted /\ \E code \in BackendStatuses : answered' = code

\* Slip: whatever is passed on looks like a success.
PassedOnAsSuccess == 200

PassedOn == answered'

\* Slip: all timers go with the headers.
FetchStreamsUntimed ==
    /\ HeadersCome /\ Respond(PassedOn)
    /\ source' = "open" /\ reader' = "held" /\ output' = "open"
    /\ timers' = {}
    /\ UNCHANGED <<browser, listening, outcome, abortReason, aborted, pulling, produced,
                   passed, queued, misused>>

\* An event stream of a success is passed on, and JSON with whatever status.
FetchStreams ==
    /\ HeadersCome /\ Respond(PassedOn)
    /\ source' = "open" /\ reader' = "held" /\ output' = "open"
    /\ timers' = (timers \ {"header"}) \cup {"idle"}
    /\ UNCHANGED <<browser, listening, outcome, abortReason, aborted, pulling, produced,
                   passed, queued, misused>>

\* Anything else is discarded first.
FetchInvalid ==
    /\ HeadersCome
    /\ at' = "discard"
    /\ \E s \in {"open", "none"} : source' = s
    /\ timers' = timers \ {"header"}
    /\ UNCHANGED <<response, browser, listening, outcome, abortReason, aborted, reader,
                   output, pulling, produced, passed, queued, misused>>

\* Slip: an answer that was discarded keeps its status, a success too.
StatusOfAny == answered

\* What was discarded is no success; the status of an error is kept.
StatusOfDiscarded == IF answered = 200 THEN 502 ELSE answered

Discarded ==
    /\ at = "discard"
    /\ source' = IF source = "open" THEN "cancelled" ELSE source
    /\ Finish("invalid_response")
    /\ Respond(StatusOfDiscarded)
    /\ UNCHANGED <<answered, browser, abortReason, aborted, reader, output, pulling, produced,
                   passed, queued, misused>>

\* The fetch, or the cancel of a body, throws: aborted or not.
Caught ==
    /\ at \in {"fetch", "discard"}
    /\ Finish(IF abortReason = "none" THEN "unavailable" ELSE abortReason)
    /\ Respond(IF abortReason = "cancelled" \/ ~browser THEN 499
               ELSE IF abortReason = "timeout" THEN 504 ELSE 503)
    /\ source' = IF source = "open" THEN "failed" ELSE source
    /\ UNCHANGED <<answered, browser, abortReason, aborted, reader, output, pulling, produced,
                   passed, queued, misused>>

-----------------------------------------------------------------------------
(* The stream.                                                             *)

\* The consumer has room: pull() starts a read.
Pull ==
    /\ output = "open" /\ ~pulling /\ queued = 0
    /\ pulling' = ~Finished
    /\ UNCHANGED <<at, response, answered, browser, endVars, abortReason, aborted, source, reader,
                   output, produced, passed, queued, misused>>

\* The backend sends a chunk, ends its answer or breaks off.
Produce ==
    /\ source = "open" /\ output # "none" /\ produced < MaxChunks
    /\ produced' = produced + 1
    /\ UNCHANGED <<at, response, answered, browser, endVars, abortReason, aborted, source, reader,
                   output, pulling, passed, queued, misused>>

SourceEnds ==
    /\ source = "open" /\ output # "none"
    /\ \E s \in {"ended", "failed"} : source' = s
    /\ UNCHANGED <<at, response, answered, browser, endVars, abortReason, aborted, reader, output,
                   pulling, produced, passed, queued, misused>>

\* Slip: a chunk is passed on although the request was finished meanwhile.
ReadsUnchecked ==
    /\ pulling /\ passed < produced /\ source # "failed"
    /\ pulling' = FALSE
    /\ timers' = timers \cup {"idle"}
    /\ passed' = passed + 1 /\ queued' = 1
    /\ misused' = (misused \/ output # "open")
    /\ UNCHANGED <<at, response, answered, browser, listening, outcome, abortReason, aborted,
                   source, reader, output, produced>>

\* A read yields a chunk.
Reads ==
    /\ pulling /\ passed < produced /\ source # "failed"
    /\ pulling' = FALSE
    /\ IF Finished
       THEN UNCHANGED <<timers, passed, queued, misused>>
       ELSE /\ timers' = timers \cup {"idle"}
            /\ passed' = passed + 1 /\ queued' = 1
            /\ misused' = (misused \/ output # "open")
    /\ UNCHANGED <<at, response, answered, browser, listening, outcome, abortReason, aborted,
                   source, reader, output, produced>>

\* A read yields the end, of the answer or of a reader that was cancelled.
ReadsEnd ==
    /\ pulling
    /\ \/ source = "ended" /\ passed = produced
       \/ source = "cancelled" \/ reader \in {"cancelling", "released"}
    /\ pulling' = FALSE
    /\ Finish("completed")
    /\ IF Finished THEN UNCHANGED <<reader, output, misused>>
                   ELSE reader' = "released" /\ OutputGoes("closed")
    /\ UNCHANGED <<at, response, answered, browser, abortReason, aborted, source, produced, passed,
                   queued>>

\* A read throws.
ReadFails ==
    /\ pulling
    /\ source \in {"failed", "cancelled"}
    /\ pulling' = FALSE
    /\ IF Finished THEN UNCHANGED <<endVars, aborted, reader, output, misused>>
       ELSE /\ aborted' = TRUE
            /\ ReaderGoes
            /\ Finish("upstream_error")
            /\ OutputGoes("errored")
    /\ UNCHANGED <<at, response, answered, browser, abortReason, source, produced, passed, queued>>

Consume ==
    /\ queued = 1
    /\ queued' = 0
    /\ UNCHANGED <<at, response, answered, browser, endVars, abortReason, aborted, source, reader,
                   output, pulling, produced, passed, misused>>

\* cancel(): the consumer of the response has lost interest.
ConsumerCancels ==
    /\ output = "open"
    /\ output' = "cancelled"
    /\ aborted' = TRUE
    /\ Finish("cancelled")
    /\ SourceStops /\ ReaderGoes
    /\ UNCHANGED <<at, response, answered, browser, abortReason, pulling, produced, passed, queued,
                   misused>>

\* reader.cancel() settles: releaseLock.
CancelSettles ==
    /\ reader = "cancelling"
    /\ reader' = "released"
    /\ UNCHANGED <<at, response, answered, browser, endVars, abortReason, aborted, source, output,
                   pulling, produced, passed, queued, misused>>

-----------------------------------------------------------------------------
(* The browser and the timers.                                             *)

BrowserLeaves ==
    /\ browser
    /\ browser' = FALSE
    /\ IF listening /\ at # "body" THEN Abort("cancelled")
       ELSE UNCHANGED <<endVars, abortReason, aborted, streamVars>>
    /\ UNCHANGED <<at, response, answered>>

\* An armed timer fires; one that was left armed finds the request finished.
TimerFires ==
    /\ \E t \in timers \ {"body"} :
          IF Finished
          THEN /\ timers' = timers \ {t}
               /\ UNCHANGED <<listening, outcome, abortReason, aborted, streamVars>>
          ELSE Abort("timeout")
    /\ UNCHANGED <<at, response, answered, browser>>

-----------------------------------------------------------------------------
(* The specification.                                                      *)

Entry == Turned \/ ReadBody \/ BodyRefused \/ BodyRead
Fetch == FetchStreams \/ FetchInvalid \/ Discarded \/ Caught
Stream == Pull \/ Reads \/ ReadsEnd \/ ReadFails \/ CancelSettles
Outside == Produce \/ SourceEnds \/ Consume \/ ConsumerCancels \/ BrowserLeaves

ProxyNext == Entry \/ Fetch \/ Stream \/ Outside \/ TimerFires

\* Timers fire in the end, a body is read or refused by its deadline, a fetch
\* that was aborted throws, reads and cancels of a stopped source settle.
\* Nothing is assumed of the backend, the browser or the consumer.
BodySettles == BodyRefused \/ BodyRead
ProxyFairness ==
    /\ WF_proxyVars(BodySettles)
    /\ WF_proxyVars(TimerFires)
    /\ WF_proxyVars(aborted /\ Caught)
    /\ WF_proxyVars(ReadsEnd \/ ReadFails)
    /\ WF_proxyVars(CancelSettles)

ProxySpec == ProxyInit /\ [][ProxyNext]_proxyVars
ProxyFairSpec == ProxySpec /\ ProxyFairness

-----------------------------------------------------------------------------
(* Properties.                                                             *)

\* Once the request is over no timer and no listener of it remains
\* (finish() and the checks of finished after an await).
NothingArmedAfterEnd == Finished => timers = {} /\ ~listening

\* A request that has ended leaves nothing running at the backend: its answer
\* was read to the end, cancelled or aborted.
BackendReleased == Finished => source # "open"

\* The stream of the response ends once: nobody writes to it, closes or fails
\* it after that, whoever comes first.
StreamEndsOnce == ~misused

\* A stream that closes as complete carried all that the backend sent, and a
\* request that timed out or was cut short never looks complete.
CompleteMeansAll ==
    /\ output = "closed" <=> outcome = "completed"
    /\ output = "closed" => source = "ended" /\ passed = produced

\* The status of an answer that is passed on is the backend's, whatever becomes
\* of the stream (tests/chat-proxy.test.ts: "backend JSON errors retain their
\* status").  Without one it tells the outcome: no success, the backend's error
\* if it answered, and else 504 for a timeout, 499 for a browser that left and
\* 503 for a backend that failed.
StatusTellsOutcome ==
    at = "done" /\ Finished =>
       \/ output # "none" /\ response = answered
       \/ /\ output = "none"
          /\ \/ /\ answered # 0 /\ response # 200
                /\ answered # 200 => response = answered
                /\ outcome \in Reasons \cup {"invalid_response"}
             \/ response = 504 /\ outcome = "timeout"
             \/ response = 499 /\ ~browser
             \/ response = 503 /\ outcome = "unavailable"

ProxySound ==
    /\ ProxyTypeOK
    /\ NothingArmedAfterEnd /\ BackendReleased
    /\ StreamEndsOnce /\ CompleteMeansAll /\ StatusTellsOutcome

\* Every request whose body was asked for is answered, and its stream ends,
\* whatever backend, browser and consumer do or fail to do: the timers bound
\* it (the "bounded upstream lifetime" of the comment above POST).
Over == at = "done" /\ output # "open" /\ reader \in {"none", "released"}
RequestsEnd == at = "body" ~> Over
=============================================================================
