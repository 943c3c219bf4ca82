--------------------------- MODULE VisitorSession ---------------------------
(***************************************************************************)
(* Visitor mode: the application (visitor-app.tsx) with the routes it      *)
(* calls (api/visitor) and the cookie they keep in the browser.  A list of *)
(* applications is fetched as whoever the cookie names when the fetch      *)
(* starts, and is shown when the answer comes; answers may come in any     *)
(* order, also after a logout.                                             *)
(***************************************************************************)
EXTENDS Naturals

CONSTANTS
    Visitors,
    Fetches,        \* bound: lists of applications fetched at the same time
    MaxLogins,      \* bound: logins
    MaxLogouts      \* bound: logouts in flight at the same time

NoVisitor == "nobody"

ASSUME VisitorAssumption ==
    NoVisitor \notin Visitors /\ MaxLogins \in Nat /\ MaxLogouts \in Nat

VARIABLES
    sessionCookie,  \* who neko-visitor-access names
    status,         \* "loading", "login" or "ready"
    owner,          \* whose name and applications the page holds
    selected,       \* whose application runs, if one does
    login,          \* the login in flight: its step and who logs in
    asked,          \* logouts the route has not answered yet
    answered,       \* logouts it has answered, before the page goes on
    fetches,        \* every fetch of the list: unused, or as whom
    logins,
    known,          \* ghost: who has passed a login of this browser
    raced           \* ghost: the cookie changed under a fetch, or a logout
                    \* did not reach the server

visitorVars == <<sessionCookie, status, owner, selected, login, asked, answered, fetches,
                 logins, known, raced>>

NoLogin == [step |-> "none", who |-> NoVisitor]
Unused == [active |-> FALSE, as |-> NoVisitor, forLogin |-> FALSE]

VisitorTypeOK ==
    /\ sessionCookie \in Visitors \cup {NoVisitor}
    /\ status \in {"loading", "login", "ready"}
    /\ owner \in Visitors \cup {NoVisitor} /\ selected \in Visitors \cup {NoVisitor}
    /\ login \in [step: {"none", "session", "verify", "list"},
                  who: Visitors \cup {NoVisitor}]
    /\ asked \in 0..MaxLogouts /\ answered \in 0..MaxLogouts
    /\ asked + answered <= MaxLogouts
    /\ fetches \in [Fetches -> [active: BOOLEAN, as: Visitors \cup {NoVisitor},
                                forLogin: BOOLEAN]]
    /\ logins \in 0..MaxLogins /\ known \subseteq Visitors /\ raced \in BOOLEAN

Started(forLogin) == [active |-> TRUE, as |-> sessionCookie', forLogin |-> forLogin]

VisitorInit ==
    /\ sessionCookie = NoVisitor /\ status = "loading"
    /\ owner = NoVisitor /\ selected = NoVisitor
    /\ login = NoLogin /\ asked = 0 /\ answered = 0 /\ logins = 0
    /\ fetches = [f \in Fetches |->
          IF f = CHOOSE g \in Fetches : TRUE
          THEN [active |-> TRUE, as |-> NoVisitor, forLogin |-> FALSE] ELSE Unused]
    /\ known = {} /\ raced = FALSE

InFlight == {f \in Fetches : fetches[f].active}

\* The answer of a fetch that was answered ends the login that waits for it.
Ends(f) ==
    /\ fetches' = [fetches EXCEPT ![f] = Unused]
    /\ login' = IF fetches[f].forLogin THEN NoLogin ELSE login

\* The button "refresh"; loadApps starts.
Refresh(f) ==
    /\ status = "ready" /\ ~fetches[f].active
    /\ UNCHANGED sessionCookie
    /\ fetches' = [fetches EXCEPT ![f] = Started(FALSE)]
    /\ UNCHANGED <<status, owner, selected, login, asked, answered, logins, known, raced>>

\* The proxy serves the visitor of the cookie.
ListAnswered(f) ==
    /\ fetches[f].active
    /\ fetches[f].as # NoVisitor
    /\ Ends(f)
    /\ owner' = fetches[f].as
    /\ status' = "ready"
    /\ UNCHANGED <<sessionCookie, selected, asked, answered, logins, known, raced>>

\* 401, an error of the backend or none at all: the login form.
ListRefused(f) ==
    /\ fetches[f].active
    /\ Ends(f)
    /\ status' = "login"
    /\ UNCHANGED <<sessionCookie, owner, selected, asked, answered, logins, known, raced>>

LogIn(v) ==
    /\ status = "login" /\ login = NoLogin
    /\ logins < MaxLogins /\ logins' = logins + 1
    /\ login' = [step |-> "session", who |-> v]
    /\ UNCHANGED <<sessionCookie, status, owner, selected, asked, answered, fetches, known,
                   raced>>

\* The chat session gives its token, or the login ends.
SessionAnswered ==
    /\ login.step = "session"
    /\ login' \in {[login EXCEPT !.step = "verify"], NoLogin}
    /\ UNCHANGED <<sessionCookie, status, owner, selected, asked, answered, fetches,
                   logins, known, raced>>

\* Slip: the route takes the backend's word without its proof.
AcceptsUnproven ==
    /\ login.step = "verify"
    /\ \E f \in Fetches :
          /\ ~fetches[f].active
          /\ sessionCookie' = login.who
          /\ known' \in {known, known \cup {login.who}}
          /\ login' = [login EXCEPT !.step = "list"]
          /\ fetches' = [fetches EXCEPT ![f] = Started(TRUE)]
    /\ raced' = (raced \/ (InFlight # {} /\ sessionCookie' # sessionCookie))
    /\ UNCHANGED <<status, owner, selected, asked, answered, logins>>

\* The route: the backend accepted the password and proves it for this
\* session; the cookie is set, and the page fetches the list.
LoginAccepted ==
    /\ login.step = "verify"
    /\ \E f \in Fetches :
          /\ ~fetches[f].active
          /\ sessionCookie' = login.who
          /\ known' = known \cup {login.who}
          /\ login' = [login EXCEPT !.step = "list"]
          /\ fetches' = [fetches EXCEPT ![f] = Started(TRUE)]
    /\ raced' = (raced \/ (InFlight # {} /\ sessionCookie' # sessionCookie))
    /\ UNCHANGED <<status, owner, selected, asked, answered, logins>>

\* Too many attempts, a wrong password, no proof, no backend.
LoginRefused ==
    /\ login.step = "verify"
    /\ login' = NoLogin
    /\ UNCHANGED <<sessionCookie, status, owner, selected, asked, answered, fetches,
                   logins, known, raced>>

SelectApp ==
    /\ status = "ready" /\ selected = NoVisitor
    /\ selected' = owner
    /\ UNCHANGED <<sessionCookie, status, owner, login, asked, answered, fetches,
                   logins, known, raced>>

BackToList ==
    /\ status = "ready" /\ selected # NoVisitor
    /\ selected' = NoVisitor
    /\ UNCHANGED <<sessionCookie, status, owner, login, asked, answered, fetches,
                   logins, known, raced>>

LoggingOut == asked + answered > 0

\* The button stays enabled: another logout may start while one is in flight.
LogOut ==
    /\ status = "ready" /\ asked + answered < MaxLogouts
    /\ asked' = asked + 1
    /\ UNCHANGED <<sessionCookie, status, owner, selected, login, answered, fetches, logins,
                   known, raced>>

\* The route drops the cookie; or the request is lost, which the page
\* takes for a logout as well.
LogoutAnswered ==
    /\ asked > 0
    /\ asked' = asked - 1 /\ answered' = answered + 1
    /\ \/ sessionCookie' = NoVisitor /\ raced' = (raced \/ InFlight # {})
       \/ UNCHANGED sessionCookie /\ raced' = TRUE
    /\ UNCHANGED <<status, owner, selected, login, fetches, logins, known>>

LogoutDone ==
    /\ answered > 0
    /\ answered' = answered - 1
    /\ status' = "login" /\ owner' = NoVisitor /\ selected' = NoVisitor
    /\ UNCHANGED <<sessionCookie, login, asked, fetches, logins, known, raced>>

VisitorNext ==
    \/ \E f \in Fetches : Refresh(f) \/ ListAnswered(f) \/ ListRefused(f)
    \/ \E v \in Visitors : LogIn(v)
    \/ SessionAnswered \/ LoginAccepted \/ LoginRefused
    \/ SelectApp \/ BackToList
    \/ LogOut \/ LogoutAnswered \/ LogoutDone

VisitorSpec == VisitorInit /\ [][VisitorNext]_visitorVars

-----------------------------------------------------------------------------
(* Properties.                                                             *)

\* The cookie names only who has passed a login of this browser.
CookieIsEarned == sessionCookie # NoVisitor => sessionCookie \in known

\* Unless an answer was on its way when the cookie changed, the applications on
\* the page are those of the visitor who is logged in.  (While a logout is
\* answered the page still shows the one who leaves, and while a login fetches
\* its list, who was there before.)
ShownIsLoggedIn ==
    status = "ready" /\ ~raced /\ ~LoggingOut /\ login = NoLogin => owner = sessionCookie

VisitorSound == VisitorTypeOK /\ CookieIsEarned /\ ShownIsLoggedIn

\* Once logged in, a visitor sees only the applications granted to them
\* (visitor-app.tsx:97), whatever answers are late.
OnlyOwnApps ==
    status = "ready" /\ sessionCookie # NoVisitor /\ ~LoggingOut /\ login = NoLogin
       => owner = sessionCookie
=============================================================================
