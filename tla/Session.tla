------------------------------ MODULE Session ------------------------------
(***************************************************************************)
(* The session of one browser tab (frontend/src/App.jsx, lib/api.js,       *)
(* lib/auth-api.js) and the tokens of the backend it lives on              *)
(* (services/auth_service.py, middleware/auth.py).                         *)
(*                                                                         *)
(* Three places say who is logged in: the token in api.js (mirrored in     *)
(* sessionStorage), React's `user`, and sessionStorage.userData, which the *)
(* exam timer reads.  They are written by logins, logouts, the idle timer, *)
(* the restore after a reload, and by every call that is answered 401,     *)
(* whichever session had sent it.                                          *)
(***************************************************************************)
EXTENDS Integers, Sequences

CONSTANTS
  User,
  Call,       \* places for calls to the backend
  MaxTokens,  \* bound on the tokens minted in a behaviour
  None

ASSUME SessionAssumption ==
  /\ MaxTokens \in Nat
  /\ None \notin User /\ None \notin Nat

VARIABLES
  issued,    \* the backend: whom each token was minted for
  expired,   \* tokens past their expiry
  inactive,  \* deactivated accounts
  token,     \* api.js: _token and sessionStorage.jwt_token
  user,      \* App: user
  userData,  \* sessionStorage.userData
  loading,   \* what App's isLoading waits for: "session", "database" or "nothing"
  modal,     \* App: showLoginModal
  timer,     \* the idle timer: "off", "armed" or "warning"
  call,      \* the calls in flight
  crossed    \* history: did a session begin while a call of another was in flight?

server == <<issued, expired, inactive>>

vars == <<issued, expired, inactive, token, user, userData, loading, modal, timer,
          call, crossed>>

Token == 1 .. MaxTokens

NoCall == [kind |-> "none", user |-> None, token |-> None, status |-> "sent",
           mounted |-> FALSE]

Init ==
  /\ issued = <<>> /\ expired = {} /\ inactive = {}
  /\ token = None /\ user = None /\ userData = None
  /\ loading = "session"
  /\ modal = FALSE
  /\ timer = "off"
  /\ call = [c \in Call |-> NoCall]
  /\ crossed = FALSE

Free(c) == call[c].kind = "none"

Post(c, kind, u, t) ==
  /\ Free(c)
  /\ call' = [call EXCEPT ![c] = [NoCall EXCEPT !.kind = kind, !.user = u, !.token = t,
                                                !.mounted = TRUE]]

Ends(c) == call' = [call EXCEPT ![c] = NoCall]

-----------------------------------------------------------------------------
(* The backend.                                                            *)

\* get_current_user.
Accepts(t) == t \notin expired /\ issued[t] \notin inactive

\* A call is handled; what it decides is on its way to the tab.
Serve(c) ==
  /\ call[c].kind \in {"me", "api"} /\ call[c].status = "sent"
  /\ call' = [call EXCEPT ![c].status =
                IF call[c].token = None THEN "forbidden"
                ELSE IF Accepts(call[c].token) THEN "accepted" ELSE "rejected"]
  /\ UNCHANGED <<server, token, user, userData, loading, modal, timer, crossed>>

\* Mutant: the token handed out is not the one minted.
ServeLogin_Unminted(c) ==
  /\ call[c].kind = "login" /\ call[c].status = "sent"
  /\ \/ /\ call[c].user \notin inactive
        /\ Len(issued) < MaxTokens
        /\ call' = [call EXCEPT ![c].status = "accepted", ![c].token = Len(issued) + 1]
        /\ UNCHANGED issued
     \/ /\ call' = [call EXCEPT ![c].status = "rejected"]
        /\ UNCHANGED issued
  /\ UNCHANGED <<expired, inactive, token, user, userData, loading, modal, timer, crossed>>

\* login and register mint a token; a wrong password or a deactivated account
\* is refused.
ServeLogin(c) ==
  /\ call[c].kind = "login" /\ call[c].status = "sent"
  /\ \/ /\ call[c].user \notin inactive
        /\ Len(issued) < MaxTokens
        /\ issued' = Append(issued, call[c].user)
        /\ call' = [call EXCEPT ![c].status = "accepted", ![c].token = Len(issued) + 1]
     \/ /\ call' = [call EXCEPT ![c].status = "rejected"]
        /\ UNCHANGED issued
  /\ UNCHANGED <<expired, inactive, token, user, userData, loading, modal, timer, crossed>>

Expire(t) ==
  /\ t \in 1 .. Len(issued) /\ t \notin expired
  /\ expired' = expired \cup {t}
  /\ UNCHANGED <<issued, inactive, token, user, userData, loading, modal, timer, call, crossed>>

\* An administrator deactivates an account, or takes that back.
Deactivate(u) ==
  /\ inactive' = IF u \in inactive THEN inactive \ {u} ELSE inactive \cup {u}
  /\ UNCHANGED <<issued, expired, token, user, userData, loading, modal, timer, call, crossed>>

-----------------------------------------------------------------------------
(* The three records of the session, and its timer.                        *)

ClearAuth == token' = None /\ userData' = None

\* setUser; the effect on isLoggedIn re-arms or stops the idle timer.
SetUser(u) ==
  /\ user' = u
  /\ timer' = IF u = None THEN "off" ELSE "armed"

LogIn(u, t) == token' = t /\ userData' = u /\ SetUser(u)

\* A session begins by call c while another session's call is in flight.
Crosses(c) == crossed' = (crossed \/ \E d \in Call \ {c} : call[d].kind = "api")

\* restoreSession without a stored token.
Restore ==
  /\ loading = "session" /\ token = None
  /\ loading' = "database"
  /\ ClearAuth
  /\ UNCHANGED <<server, user, modal, timer, call, crossed>>

\* restoreSession with one asks the backend whose it is.
AskMe(c) ==
  /\ loading = "session" /\ token # None
  /\ \A d \in Call : call[d].kind # "me"
  /\ Post(c, "me", None, token)
  /\ UNCHANGED <<server, token, user, userData, loading, modal, timer, crossed>>

MeAnswered(c) ==
  /\ call[c].kind = "me" /\ call[c].status = "accepted"
  /\ LogIn(issued[call[c].token], token)
  /\ loading' = "database"
  /\ Ends(c)
  /\ UNCHANGED <<server, modal, crossed>>

\* 401, no network, or no answer within 15 s.
MeFails(c) ==
  /\ call[c].kind = "me"
  /\ ClearAuth /\ SetUser(None)
  /\ loading' = "database"
  /\ Ends(c)
  /\ UNCHANGED <<server, modal, crossed>>

\* The database has loaded, or has failed to: the page is shown.
Loaded ==
  /\ loading = "database"
  /\ loading' = "nothing"
  /\ UNCHANGED <<server, token, user, userData, modal, timer, call, crossed>>

\* The tab is reloaded: sessionStorage stays, calls in flight are dropped.
Reload ==
  /\ loading' = "session"
  /\ SetUser(None)
  /\ modal' = FALSE
  /\ call' = [c \in Call |-> NoCall]
  /\ UNCHANGED <<server, token, userData, crossed>>

-----------------------------------------------------------------------------
(* Logging in and out.                                                     *)

OpenLogin ==
  /\ loading = "nothing" /\ user = None /\ ~modal
  /\ modal' = TRUE
  /\ UNCHANGED <<server, token, user, userData, loading, timer, call, crossed>>

\* The form goes; a login it has sent goes on.
CloseLogin ==
  /\ modal /\ user = None
  /\ modal' = FALSE
  /\ call' = [c \in Call |-> [call[c] EXCEPT !.mounted = FALSE]]
  /\ UNCHANGED <<server, token, user, userData, loading, timer, crossed>>

Busy == \E c \in Call : call[c].kind = "login" /\ call[c].mounted

SubmitLogin(c, u) ==
  /\ modal /\ user = None /\ ~Busy
  /\ Post(c, "login", u, None)
  /\ UNCHANGED <<server, token, user, userData, loading, modal, timer, crossed>>

\* The caller of login is told even when its form is gone.
LoginAnswered(c) ==
  /\ call[c].kind = "login" /\ call[c].status = "accepted"
  /\ LogIn(call[c].user, call[c].token)
  /\ modal' = FALSE
  /\ call' = [d \in Call |-> IF d = c THEN NoCall ELSE [call[d] EXCEPT !.mounted = FALSE]]
  /\ Crosses(c)
  /\ UNCHANGED <<server, loading>>

\* Refused, or no network: auth-api.js does not clear a session for it.
LoginFails(c) ==
  /\ call[c].kind = "login"
  /\ Ends(c)
  /\ UNCHANGED <<server, token, user, userData, loading, modal, timer, crossed>>

\* Mutant: a logout forgets the user but not the token.
Logout_KeepsToken ==
  /\ loading = "nothing" /\ user # None
  /\ SetUser(None) /\ userData' = None
  /\ UNCHANGED <<server, token, loading, modal, call, crossed>>

Logout ==
  /\ loading = "nothing" /\ user # None
  /\ ClearAuth /\ SetUser(None)
  /\ UNCHANGED <<server, loading, modal, call, crossed>>

IdleWarns ==
  /\ timer = "armed"
  /\ timer' = "warning"
  /\ UNCHANGED <<server, token, user, userData, loading, modal, call, crossed>>

\* Any movement, or "Stay Connected".
Activity ==
  /\ timer = "warning"
  /\ timer' = "armed"
  /\ UNCHANGED <<server, token, user, userData, loading, modal, call, crossed>>

IdleEnds ==
  /\ timer = "warning"
  /\ ClearAuth /\ SetUser(None)
  /\ UNCHANGED <<server, loading, modal, call, crossed>>

-----------------------------------------------------------------------------
(* Every other call (apiFetch).                                            *)

ApiFetch(c) ==
  /\ loading = "nothing" /\ user # None
  /\ Post(c, "api", user, token)
  /\ UNCHANGED <<server, token, user, userData, loading, modal, timer, crossed>>

\* Mutant: any refusal ends the session.
ApiFails_Clears(c) ==
  /\ call[c].kind = "api"
  /\ ClearAuth
  /\ Ends(c)
  /\ UNCHANGED <<server, user, loading, modal, timer, crossed>>

\* Answered, refused otherwise than by 401, or the answer is lost.
ApiFails(c) ==
  /\ call[c].kind = "api"
  /\ Ends(c)
  /\ UNCHANGED <<server, token, user, userData, loading, modal, timer, crossed>>

\* 401 clears whatever session the tab has by now, and tells React nothing.
ApiUnauthorized(c) ==
  /\ call[c].kind = "api" /\ call[c].status = "rejected"
  /\ ClearAuth
  /\ Ends(c)
  /\ UNCHANGED <<server, user, loading, modal, timer, crossed>>

-----------------------------------------------------------------------------
Next ==
  \/ Restore \/ Loaded \/ Reload \/ OpenLogin \/ CloseLogin \/ Logout
  \/ IdleWarns \/ Activity \/ IdleEnds
  \/ \E c \in Call : AskMe(c) \/ MeAnswered(c) \/ MeFails(c)
                     \/ LoginAnswered(c) \/ LoginFails(c)
                     \/ ApiFetch(c) \/ ApiFails(c) \/ ApiUnauthorized(c)
                     \/ Serve(c) \/ ServeLogin(c)
  \/ \E c \in Call, u \in User : SubmitLogin(c, u)
  \/ \E t \in Token : Expire(t)
  \/ \E u \in User : Deactivate(u)

Spec == Init /\ [][Next]_vars

-----------------------------------------------------------------------------
(* Properties.                                                             *)

CallType ==
  [kind : {"none", "me", "login", "api"}, user : User \cup {None}, token : Token \cup {None},
   status : {"sent", "accepted", "rejected", "forbidden"}, mounted : BOOLEAN]

TypeOK ==
  /\ issued \in Seq(User) /\ Len(issued) <= MaxTokens
  /\ expired \subseteq 1 .. Len(issued)
  /\ inactive \subseteq User
  /\ token \in (1 .. Len(issued)) \cup {None}
  /\ user \in User \cup {None} /\ userData \in User \cup {None}
  /\ loading \in {"session", "database", "nothing"} /\ modal \in BOOLEAN
  /\ timer \in {"off", "armed", "warning"}
  /\ call \in [Call -> CallType]
  /\ crossed \in BOOLEAN

\* However logins, logouts, restores and late answers interleave, the records of
\* the session never name two people, a page that shows nobody logged in holds
\* no token, and the idle timer runs exactly while somebody is
\* (App.jsx:40-44, 104-130, 176-187; api.js:20-37).
SessionAgrees ==
  loading # "session" =>
    /\ token # None => user = issued[token]
    /\ userData # None => user = userData
    /\ timer = "off" <=> user = None

\* Under a page that shows a user, a session is dropped only by the answer to a
\* call that carried its own token, or when a session began while a call of
\* another was still in flight (api.js:66-70).
DroppedByOwnAnswer ==
  [][token # None /\ token' = None /\ user' = user /\ user # None =>
       \E c \in Call : /\ call[c].kind = "api" /\ call[c].status = "rejected"
                       /\ call[c].token = token \/ crossed]_vars
=============================================================================
