--------------------------- MODULE SponsorTransfer ---------------------------
(***************************************************************************)
(* The sponsor application (sponsor-app.tsx, wallet.ts): one visitor, one  *)
(* wallet of the browser.  Every request to the wallet is answered later;  *)
(* meanwhile the wallet may change its account or its network, whose       *)
(* events arrive later still, and the visitor may close the window.  The   *)
(* generation that a request compares with is modelled by the request: it  *)
(* is "stale" from the moment the generation moves on.                     *)
(***************************************************************************)
EXTENDS Naturals, Sequences

CONSTANTS
    Accounts, Amounts,
    MaxEvents,      \* bound: changes the wallet makes on its own
    MaxRequests,    \* bound: transactions asked for
    MaxPolls        \* 90: how often a receipt is asked for

Nobody == "nobody"

ASSUME SponsorAssumption ==
    /\ Nobody \notin Accounts /\ Amounts # {}
    /\ MaxEvents \in Nat /\ MaxRequests \in Nat /\ MaxPolls \in Nat

Chains == {"main", "other"}
NoChain == "no chain"

VARIABLES
    walletAccount, walletChain,     \* the wallet
    events, changes,                \* its events on their way; what MaxEvents counts
    open,                           \* the window is mounted
    listening,                      \* a wallet is set: its events are heard
    account, chain,                 \* what the application knows
    amount, review, uncertain, transfer, polls,
    op,                             \* the request of this window in flight
    orphan,                         \* the request of a window closed meanwhile
    reviewed,                       \* ghost: what the visitor saw and nothing revoked
    requests,                       \* what MaxRequests counts
    unsettled,                      \* ghost: requests of this window, outcome unknown
    asReviewed                      \* ghost: the last request was what was reviewed

linkVars == <<listening, account, chain>>
walletVars == <<walletAccount, walletChain, events, changes>>
formVars == <<amount, review, uncertain, transfer, polls>>
ghostVars == <<reviewed, requests, unsettled, asReviewed>>
sponsorVars == <<walletVars, open, linkVars, formVars, op, orphan, ghostVars>>

\* step: the answer that is awaited; from and value: what the closure holds.
Idle == [kind |-> "none", step |-> "none", from |-> Nobody,
         value |-> CHOOSE a \in Amounts : TRUE, same |-> TRUE, stale |-> FALSE]
Ops == [kind: {"none", "connect", "switch", "send"},
        step: {"none", "accounts", "chain", "hash"},
        from: Accounts \cup {Nobody}, value: Amounts, same: BOOLEAN, stale: BOOLEAN]
Nothing == <<>>

SponsorTypeOK ==
    /\ walletAccount \in Accounts \cup {Nobody} /\ walletChain \in Chains
    /\ changes \in 0..MaxEvents /\ Len(events) <= MaxEvents
    /\ open \in BOOLEAN /\ listening \in BOOLEAN /\ account \in Accounts \cup {Nobody}
    /\ chain \in Chains \cup {NoChain}
    /\ amount \in Amounts /\ review \in BOOLEAN /\ uncertain \in BOOLEAN
    /\ transfer \in {"none", "pending", "confirmed", "failed"}
    /\ polls \in 0..MaxPolls /\ op \in Ops /\ orphan \in Ops
    /\ reviewed \in {Nothing} \cup (Accounts \X Amounts)
    /\ requests \in 0..MaxRequests /\ asReviewed \in BOOLEAN

Fresh ==
    /\ listening' = FALSE /\ account' = Nobody /\ chain' = NoChain
    /\ amount' = Idle.value /\ review' = FALSE /\ uncertain' = FALSE
    /\ transfer' = "none" /\ polls' = 0 /\ op' = Idle
    /\ reviewed' = Nothing /\ unsettled' = 0

SponsorInit ==
    /\ walletAccount \in Accounts /\ walletChain \in Chains
    /\ events = <<>> /\ changes = 0
    /\ open = TRUE /\ listening = FALSE /\ account = Nobody /\ chain = NoChain
    /\ amount = Idle.value /\ review = FALSE /\ uncertain = FALSE
    /\ transfer = "none" /\ polls = 0 /\ op = Idle /\ orphan = Idle
    /\ reviewed = Nothing /\ requests = 0 /\ unsettled = 0 /\ asReviewed = TRUE

Busy == op.kind # "none"

-----------------------------------------------------------------------------
(* The wallet.                                                             *)

\* The visitor switches the account or the network in the wallet, or locks it,
\* or the wallet loses its connection.
WalletChanges ==
    /\ changes < MaxEvents /\ changes' = changes + 1
    /\ \/ /\ \E a \in Accounts \cup {Nobody} :
                /\ a # walletAccount /\ walletAccount' = a
                /\ events' = Append(events, <<"account", a>>)
          /\ UNCHANGED walletChain
       \/ /\ \E c \in Chains :
                /\ c # walletChain /\ walletChain' = c
                /\ events' = Append(events, <<"chain", c>>)
          /\ UNCHANGED walletAccount
       \/ /\ events' = Append(events, <<"disconnect", Nobody>>)
          /\ UNCHANGED <<walletAccount, walletChain>>
    /\ UNCHANGED <<open, linkVars, formVars, op, orphan, ghostVars>>

Heard(name, value) ==
    /\ account' = CASE name = "account" -> value
                    [] name = "disconnect" -> Nobody
                    [] OTHER -> account
    /\ chain' = CASE name = "chain" -> value
                  [] name = "disconnect" -> NoChain
                  [] OTHER -> chain

\* Slip: an event updates what is shown and leaves requests their generation.
EventMovesNothing ==
    /\ events # <<>>
    /\ events' = Tail(events)
    /\ IF listening
       THEN /\ Heard(Head(events)[1], Head(events)[2])
            /\ review' = FALSE /\ reviewed' = Nothing
       ELSE UNCHANGED <<account, chain, review, reviewed>>
    /\ UNCHANGED <<walletAccount, walletChain, changes, open, listening, amount, uncertain, op,
                   transfer, polls, orphan, requests, unsettled, asReviewed>>

\* accountsChanged, chainChanged and disconnect, once a wallet is set.  The review
\* is taken back and requests in flight become stale.
WalletEvent ==
    /\ events # <<>>
    /\ events' = Tail(events)
    /\ IF listening
       THEN /\ Heard(Head(events)[1], Head(events)[2])
            /\ op' = [op EXCEPT !.stale = Busy]
            /\ review' = FALSE /\ reviewed' = Nothing
       ELSE UNCHANGED <<account, chain, op, review, reviewed>>
    /\ UNCHANGED <<walletAccount, walletChain, changes, open, listening, amount, uncertain,
                   transfer, polls, orphan, requests, unsettled, asReviewed>>

-----------------------------------------------------------------------------
(* Connecting, switching the network, and the form.                        *)

Starts(kind, step) == op' = [Idle EXCEPT !.kind = kind, !.step = step]

Connect ==
    /\ open /\ account = Nobody /\ ~Busy
    /\ Starts("connect", "accounts")
    /\ UNCHANGED <<walletVars, open, linkVars, formVars, orphan, ghostVars>>

\* eth_requestAccounts, then eth_chainId: dropped when stale.
ConnectAnswered ==
    /\ op.kind = "connect"
    /\ \/ /\ op.step = "accounts"
          /\ op' = [op EXCEPT !.step = "chain", !.from = walletAccount]
          /\ UNCHANGED linkVars
       \/ /\ op.step = "chain"
          /\ op' = Idle
          /\ IF ~op.stale /\ op.from # Nobody
             THEN listening' = TRUE /\ account' = op.from /\ chain' = walletChain
             ELSE UNCHANGED linkVars
       \/ op' = Idle /\ UNCHANGED linkVars        \* the wallet refuses
    /\ UNCHANGED <<walletVars, open, formVars, orphan, ghostVars>>

\* The site forgets the account; not offered while a transfer is pending.
DisconnectSite ==
    /\ open /\ account # Nobody /\ ~Busy /\ transfer # "pending"
    /\ listening' = FALSE /\ account' = Nobody /\ chain' = NoChain
    /\ review' = FALSE /\ reviewed' = Nothing
    /\ UNCHANGED <<walletVars, open, amount, uncertain, transfer, polls, op, orphan,
                   requests, unsettled, asReviewed>>

SwitchNetwork ==
    /\ open /\ account # Nobody /\ chain # "main" /\ ~Busy
    /\ Starts("switch", "chain")
    /\ UNCHANGED <<walletVars, open, linkVars, formVars, orphan, ghostVars>>

\* The wallet switched, or not; then the network is read, however old the
\* answer is by the time it is applied.
SwitchAnswered ==
    /\ op.kind = "switch"
    /\ op' = Idle
    /\ chain' \in Chains \cup {chain}
    /\ UNCHANGED <<walletVars, open, listening, account, formVars, orphan, ghostVars>>

EditAmount(a) ==
    /\ open /\ account # Nobody /\ chain = "main"
    /\ ~Busy /\ ~review /\ transfer # "pending"
    /\ amount' = a
    /\ UNCHANGED <<walletVars, open, linkVars, review, uncertain, transfer,
                   polls, op, orphan, ghostVars>>

Review ==
    /\ open /\ account # Nobody /\ chain = "main"
    /\ ~Busy /\ ~review /\ transfer # "pending"
    /\ review' = TRUE /\ reviewed' = <<account, amount>>
    /\ UNCHANGED <<walletVars, open, linkVars, amount, uncertain, transfer,
                   polls, op, orphan, requests, unsettled, asReviewed>>

BackToForm ==
    /\ open /\ review /\ ~Busy
    /\ review' = FALSE /\ reviewed' = Nothing
    /\ UNCHANGED <<walletVars, open, linkVars, amount, uncertain, transfer,
                   polls, op, orphan, requests, unsettled, asReviewed>>

-----------------------------------------------------------------------------
(* The transfer.                                                           *)

\* Slip: only a transfer that is known to be pending holds back the next.
SendDespiteDoubt ==
    /\ open /\ account # Nobody /\ review /\ ~Busy /\ transfer # "pending"
    /\ op' = [Idle EXCEPT !.kind = "send", !.step = "accounts",
                          !.from = account, !.value = amount]
    /\ UNCHANGED <<walletVars, open, linkVars, formVars, orphan, ghostVars>>

\* send
Send ==
    /\ open /\ account # Nobody /\ review /\ ~Busy /\ ~uncertain
    /\ transfer # "pending"
    /\ op' = [Idle EXCEPT !.kind = "send", !.step = "accounts",
                          !.from = account, !.value = amount]
    /\ UNCHANGED <<walletVars, open, linkVars, formVars, orphan, ghostVars>>

\* submitSponsor reads the account ...
ReadAccounts(o) == [o EXCEPT !.step = "chain", !.same = walletAccount = o.from]

\* ... and the network, and asks for the transaction if all is as it was.
MayRequest(o) == ~o.stale /\ walletChain = "main" /\ o.same

Request(o) ==
    /\ requests < MaxRequests /\ requests' = requests + 1
    /\ asReviewed' = (open /\ reviewed = <<o.from, o.value>>)
    /\ unsettled' = unsettled + 1
    /\ UNCHANGED reviewed

SendProceeds ==
    /\ op.kind = "send"
    /\ \/ /\ op.step = "accounts"
          /\ op' = ReadAccounts(op)
          /\ UNCHANGED <<uncertain, ghostVars>>
       \/ /\ op.step = "chain" /\ MayRequest(op)
          /\ op' = [op EXCEPT !.step = "hash"]
          /\ Request(op)
          /\ UNCHANGED uncertain
       \/ /\ op.step = "chain" /\ ~MayRequest(op)       \* "Wallet changed"
          /\ op' = Idle
          /\ UNCHANGED <<uncertain, ghostVars>>
       \/ /\ op.step # "hash"       \* a read fails: a refusal, or anything else
          /\ op' = Idle
          /\ uncertain' \in {uncertain, TRUE}
          /\ UNCHANGED ghostVars
    /\ UNCHANGED <<walletVars, open, linkVars, amount, review, transfer, polls,
                   orphan>>

SendAnswered ==
    /\ op.kind = "send" /\ op.step = "hash"
    /\ op' = Idle
    /\ \/ /\ transfer' = "pending" /\ polls' = 0 /\ review' = FALSE
          /\ reviewed' = Nothing
          /\ UNCHANGED <<uncertain, unsettled>>
       \/ /\ unsettled' = unsettled - 1                 \* 4001, -32002: refused
          /\ UNCHANGED <<review, reviewed, uncertain, transfer, polls>>
       \/ /\ uncertain' = TRUE      \* another error, or no valid hash
          /\ UNCHANGED <<review, reviewed, transfer, polls, unsettled>>
    /\ UNCHANGED <<walletVars, open, linkVars, amount, orphan, requests,
                   asReviewed>>

\* One poll of the receipt: nothing yet, the wrong network, or the outcome.
Poll ==
    /\ open /\ listening /\ transfer = "pending" /\ polls < MaxPolls
    /\ polls' = polls + 1
    /\ \/ UNCHANGED <<transfer, unsettled>>
       \/ /\ walletChain = "main"
          /\ transfer' \in {"confirmed", "failed"}
          /\ unsettled' = unsettled - 1
    /\ UNCHANGED <<walletVars, open, linkVars, amount, review, uncertain, op,
                   orphan, reviewed, requests, asReviewed>>

-----------------------------------------------------------------------------
(* The window.                                                             *)

\* Slip: the cleanup removes the listeners and keeps the generation.
CloseKeepsGeneration ==
    /\ open /\ orphan = Idle
    /\ open' = FALSE
    /\ orphan' = IF op.kind = "send" THEN op ELSE Idle
    /\ Fresh
    /\ UNCHANGED <<walletVars, requests, asReviewed>>

\* A send in flight goes on without its window, and is stale.  One such send
\* at a time is a bound.
CloseSponsor ==
    /\ open /\ orphan = Idle
    /\ open' = FALSE
    /\ orphan' = IF op.kind = "send" THEN [op EXCEPT !.stale = TRUE] ELSE Idle
    /\ Fresh
    /\ UNCHANGED <<walletVars, requests, asReviewed>>

OpenSponsor ==
    /\ ~open
    /\ open' = TRUE
    /\ UNCHANGED <<walletVars, linkVars, formVars, op, orphan, ghostVars>>

OrphanProceeds ==
    /\ orphan # Idle
    /\ \/ /\ orphan.step = "accounts"
          /\ orphan' = ReadAccounts(orphan)
          /\ UNCHANGED ghostVars
       \/ /\ orphan.step = "chain" /\ MayRequest(orphan)
          /\ orphan' = [orphan EXCEPT !.step = "hash"]
          /\ Request(orphan)
       \/ /\ orphan.step = "hash" \/ ~MayRequest(orphan)
          /\ orphan' = Idle
          /\ UNCHANGED ghostVars
    /\ UNCHANGED <<walletVars, open, linkVars, formVars, op>>

SponsorNext ==
    \/ WalletChanges \/ WalletEvent
    \/ Connect \/ ConnectAnswered \/ DisconnectSite \/ SwitchNetwork \/ SwitchAnswered
    \/ \E a \in Amounts : EditAmount(a)
    \/ Review \/ BackToForm \/ Send \/ SendProceeds \/ SendAnswered \/ Poll
    \/ CloseSponsor \/ OpenSponsor \/ OrphanProceeds

SponsorSpec == SponsorInit /\ [][SponsorNext]_sponsorVars

-----------------------------------------------------------------------------
(* Properties.                                                             *)

\* The wallet is asked for a transaction only while another of this window
\* cannot be under way: not after an answer that leaves its fate open, either.
NoSecondTransfer == unsettled <= 1

\* What the wallet is asked for is what the visitor last reviewed, in the
\* window that is open, and no change of the wallet has revoked it since.
RequestedAsReviewed == asReviewed

\* A transaction whose fate is open is on the page: as pending, as a warning,
\* or as the request that is awaited.
DoubtIsShown ==
    unsettled > 0 => transfer = "pending" \/ uncertain \/ op.step = "hash"

SponsorSound ==
    SponsorTypeOK /\ NoSecondTransfer /\ RequestedAsReviewed /\ DoubtIsShown
=============================================================================
