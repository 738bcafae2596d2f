--------------------------- MODULE SessionProofs ---------------------------
(***************************************************************************)
(* Proofs about Session.  What the records say depends on what a call in   *)
(* flight carries, so the invariant adds to the properties what each kind  *)
(* of call stands for, and that while a session is being restored no other *)
(* kind is in flight.                                                      *)
(***************************************************************************)
EXTENDS Session, TLAPS

\* While a session is being restored, nobody is shown logged in, no form is
\* open, and the only call in flight asks whose the stored token is.
RestoreInv ==
  /\ loading = "session" => user = None /\ timer = "off"
  /\ modal => loading = "nothing"
  /\ \A c \in Call :
       /\ call[c].kind \in {"login", "api"} => loading # "session"
       /\ call[c].kind = "me" =>
            /\ loading = "session" /\ token # None /\ call[c].token = token
            /\ \A d \in Call : call[d].kind = "me" => d = c

\* A login that is granted brings its own user's token; an answered 401 is
\* about a token, which is the tab's own or the tab has none, unless sessions
\* have crossed.
AnswerInv ==
  \A c \in Call :
    /\ call[c].kind = "login" => call[c].user \in User
    /\ call[c].kind = "login" /\ call[c].status = "accepted" =>
         call[c].token \in 1 .. Len(issued) /\ issued[call[c].token] = call[c].user
    /\ call[c].kind = "api" =>
         /\ call[c].token = None => call[c].status \in {"sent", "forbidden"}
         /\ ~crossed /\ call[c].token # None => token \in {None, call[c].token}

SessionInv == TypeOK /\ SessionAgrees /\ RestoreInv /\ AnswerInv

USE SessionAssumption

\* What calls may become is again a call.
LEMMA CallsTyped ==
  /\ NoCall \in CallType
  /\ \A r \in CallType : [r EXCEPT !.mounted = FALSE] \in CallType
  /\ \A r \in CallType, s \in {"sent", "accepted", "rejected", "forbidden"}, t \in Token \cup {None} :
       [r EXCEPT !.status = s, !.token = t] \in CallType
BY DEF NoCall, CallType

LEMMA InitInv == Init => SessionInv
<1> SUFFICES ASSUME Init PROVE SessionInv
  OBVIOUS
<1>1. TypeOK
  <2>1. NoCall \in CallType
    BY DEF NoCall, CallType
  <2>2. <<>> \in Seq(User) /\ Len(<<>>) = 0
    OBVIOUS
  <2>3. call \in [Call -> CallType]
    BY <2>1 DEF Init
  <2>4. /\ issued \in Seq(User) /\ Len(issued) <= MaxTokens
        /\ expired \subseteq 1 .. Len(issued) /\ inactive \subseteq User
    BY <2>2 DEF Init
  <2> QED  BY <2>3, <2>4 DEF Init, TypeOK
<1>2. SessionAgrees /\ RestoreInv /\ AnswerInv
  BY DEF Init, NoCall, SessionAgrees, RestoreInv, AnswerInv
<1> QED  BY <1>1, <1>2 DEF SessionInv

\* The user's acts, the timer and the page's own steps, which answer no call.
LEMMA PageKeeps ==
  ASSUME SessionInv,
         Restore \/ Loaded \/ Reload \/ OpenLogin \/ CloseLogin \/ Logout
           \/ IdleWarns \/ Activity \/ IdleEnds
  PROVE  SessionInv'
<1> USE DEF SessionInv, TypeOK, CallType, SessionAgrees, RestoreInv, AnswerInv, server
<1>1. CASE Restore
  BY <1>1 DEF Restore, ClearAuth
<1>2. CASE Loaded
  BY <1>2 DEF Loaded
<1>3. CASE Reload
  BY <1>3 DEF Reload, SetUser, NoCall
<1>4. CASE OpenLogin
  BY <1>4 DEF OpenLogin
<1>5. CASE CloseLogin
  <2>1. TypeOK'
    <3>1. call' \in [Call -> CallType]
      <4> HIDE DEF CallType
      <4> QED  BY <1>5, CallsTyped DEF CloseLogin
    <3> QED  BY <1>5, <3>1 DEF CloseLogin
  <2>2. SessionAgrees'
    BY <1>5 DEF CloseLogin
  <2>3. RestoreInv'
    BY <1>5 DEF CloseLogin
  <2>4. AnswerInv'
    BY <1>5 DEF CloseLogin
  <2> QED  BY <2>1, <2>2, <2>3, <2>4 DEF SessionInv
<1>6. CASE Logout
  BY <1>6 DEF Logout, ClearAuth, SetUser
<1>7. CASE IdleWarns \/ Activity
  <2>1. TypeOK'
    BY <1>7 DEF IdleWarns, Activity
  <2>2. SessionAgrees'
    BY <1>7 DEF IdleWarns, Activity
  <2>3. RestoreInv'
    BY <1>7 DEF IdleWarns, Activity
  <2>4. AnswerInv'
    BY <1>7 DEF IdleWarns, Activity
  <2> QED  BY <2>1, <2>2, <2>3, <2>4 DEF SessionInv
<1>8. CASE IdleEnds
  BY <1>8 DEF IdleEnds, ClearAuth, SetUser
<1> QED  BY <1>1, <1>2, <1>3, <1>4, <1>5, <1>6, <1>7, <1>8

\* The backend's steps.
LEMMA ServerKeeps ==
  ASSUME SessionInv,
         \/ \E c \in Call : Serve(c) \/ ServeLogin(c)
         \/ \E t \in Token : Expire(t)
         \/ \E u \in User : Deactivate(u)
  PROVE  SessionInv'
<1> USE DEF SessionInv, TypeOK, CallType, SessionAgrees, RestoreInv, AnswerInv, server
<1>1. ASSUME NEW c \in Call, Serve(c) PROVE SessionInv'
  BY <1>1 DEF Serve
<1>2. ASSUME NEW c \in Call, ServeLogin(c) PROVE SessionInv'
  <2>0. /\ issued' \in Seq(User) /\ Len(issued') \in Len(issued) .. MaxTokens
        /\ \A t \in 1 .. Len(issued) : issued'[t] = issued[t]
        /\ call'[c].status = "accepted" =>
             call'[c].token \in 1 .. Len(issued') /\ issued'[call'[c].token] = call[c].user
    <3>1. CASE issued' = issued /\ call'[c].status = "rejected"
      BY <3>1
    <3>2. CASE /\ Len(issued) < MaxTokens /\ issued' = Append(issued, call[c].user)
               /\ call'[c].token = Len(issued) + 1 /\ call[c].user \in User
      BY <3>2
    <3> QED  BY <1>2, <3>1, <3>2 DEF ServeLogin
  <2>e. /\ \E s \in {"accepted", "rejected"}, t \in Token \cup {None} :
             call' = [call EXCEPT ![c].status = s, ![c].token = t]
        /\ call[c].kind = "login"
        /\ UNCHANGED <<expired, inactive, token, user, userData, loading, modal, timer, crossed>>
    BY <1>2 DEF ServeLogin, Token
  <2> HIDE DEF SessionAgrees, RestoreInv, AnswerInv
  <2>1. TypeOK'
    <3>1. call' \in [Call -> CallType]
      <4> HIDE DEF CallType
      <4>1. PICK s \in {"accepted", "rejected"}, t \in Token \cup {None} :
              call' = [call EXCEPT ![c].status = s, ![c].token = t]
        BY <2>e
      <4>2. [call[c] EXCEPT !.status = s, !.token = t] \in CallType
        BY CallsTyped
      <4>3. call' = [call EXCEPT ![c] = [call[c] EXCEPT !.status = s, !.token = t]]
        BY <4>1
      <4> QED  BY <4>2, <4>3
    <3> QED  BY <2>0, <2>e, <3>1
  <2>2. SessionAgrees'
    BY <2>0, <2>e DEF SessionAgrees
  <2>3. RestoreInv'
    BY <2>e DEF RestoreInv
  <2>4. AnswerInv'
    BY <2>0, <2>e DEF AnswerInv
  <2> QED  BY <2>1, <2>2, <2>3, <2>4 DEF SessionInv
<1>3. ASSUME NEW t \in Token, Expire(t) PROVE SessionInv'
  BY <1>3 DEF Expire, Token
<1>4. ASSUME NEW u \in User, Deactivate(u) PROVE SessionInv'
  BY <1>4 DEF Deactivate
<1> QED  BY <1>1, <1>2, <1>3, <1>4

\* The calls: sent by a page in the state to send them, and answered in
\* whatever state it is by then.
LEMMA CallKeeps ==
  ASSUME SessionInv, NEW c \in Call,
         \/ AskMe(c) \/ MeAnswered(c) \/ MeFails(c)
         \/ LoginAnswered(c) \/ LoginFails(c) \/ (\E u \in User : SubmitLogin(c, u))
         \/ ApiFetch(c) \/ ApiFails(c) \/ ApiUnauthorized(c)
  PROVE  SessionInv'
<1> USE DEF SessionInv, TypeOK, CallType, SessionAgrees, RestoreInv, AnswerInv, server, NoCall
<1>1. CASE AskMe(c)
  <2>1. TypeOK'
    <3>1. [kind |-> "me", user |-> None, token |-> token, status |-> "sent", mounted |-> TRUE] \in CallType
      BY DEF Token
    <3>2. call' \in [Call -> CallType]
      BY <1>1, <3>1 DEF AskMe, Post
    <3> QED  BY <1>1, <3>2 DEF AskMe
  <2>2. SessionAgrees'
    BY <1>1 DEF AskMe, Post, Free, Token
  <2>3. RestoreInv'
    BY <1>1 DEF AskMe, Post, Free, Token
  <2>4. AnswerInv'
    BY <1>1 DEF AskMe, Post, Free, Token
  <2> QED  BY <2>1, <2>2, <2>3, <2>4 DEF SessionInv
<1>2. CASE MeAnswered(c)
  BY <1>2 DEF MeAnswered, LogIn, SetUser, Ends
<1>3. CASE MeFails(c)
  BY <1>3 DEF MeFails, ClearAuth, SetUser, Ends
<1>4. CASE LoginAnswered(c)
  <2>1. TypeOK'
    <3>1. call' \in [Call -> CallType]
      <4> HIDE DEF CallType, NoCall
      <4> QED  BY <1>4, CallsTyped DEF LoginAnswered
    <3>2. token' \in 1 .. Len(issued) /\ user' \in User /\ userData' \in User /\ timer' = "armed"
      BY <1>4 DEF LoginAnswered, LogIn, SetUser
    <3> QED  BY <1>4, <3>1, <3>2 DEF LoginAnswered, Crosses
  <2>2. SessionAgrees'
    BY <1>4 DEF LoginAnswered, LogIn, SetUser, Crosses
  <2>3. RestoreInv'
    BY <1>4 DEF LoginAnswered, LogIn, SetUser, Crosses
  <2>4. AnswerInv'
    <3> SUFFICES ASSUME NEW d \in Call, d # c
                 PROVE  AnswerInv!(d)'
      BY <1>4 DEF LoginAnswered
    <3>1. /\ call'[d] = [call[d] EXCEPT !.mounted = FALSE] /\ UNCHANGED issued
          /\ call[d].kind = "api" => crossed'
      BY <1>4 DEF LoginAnswered, Crosses
    <3> QED  BY <3>1
  <2> QED  BY <2>1, <2>2, <2>3, <2>4 DEF SessionInv
<1>5. CASE LoginFails(c)
  BY <1>5 DEF LoginFails, Ends
<1>6. ASSUME NEW u \in User, SubmitLogin(c, u) PROVE SessionInv'
  BY <1>6 DEF SubmitLogin, Post, Free
<1>7. CASE ApiFetch(c)
  <2>1. TypeOK'
    <3>1. [kind |-> "api", user |-> user, token |-> token, status |-> "sent", mounted |-> TRUE] \in CallType
      BY DEF Token
    <3>2. call' \in [Call -> CallType]
      BY <1>7, <3>1 DEF ApiFetch, Post
    <3> QED  BY <1>7, <3>2 DEF ApiFetch
  <2>2. SessionAgrees'
    BY <1>7 DEF ApiFetch, Post, Free, Token
  <2>3. RestoreInv'
    BY <1>7 DEF ApiFetch, Post, Free, Token
  <2>4. AnswerInv'
    BY <1>7 DEF ApiFetch, Post, Free, Token
  <2> QED  BY <2>1, <2>2, <2>3, <2>4 DEF SessionInv
<1>8. CASE ApiFails(c)
  BY <1>8 DEF ApiFails, Ends
<1>9. CASE ApiUnauthorized(c)
  BY <1>9 DEF ApiUnauthorized, ClearAuth, Ends
<1> QED  BY <1>1, <1>2, <1>3, <1>4, <1>5, <1>6, <1>7, <1>8, <1>9

LEMMA NextInv == SessionInv /\ [Next]_vars => SessionInv'
<1> SUFFICES ASSUME SessionInv, [Next]_vars PROVE SessionInv'
  OBVIOUS
<1>1. CASE Next
  BY <1>1, PageKeeps, ServerKeeps, CallKeeps DEF Next
<1>2. CASE UNCHANGED vars
  BY <1>2 DEF vars, SessionInv, TypeOK, SessionAgrees, RestoreInv, AnswerInv
<1> QED  BY <1>1, <1>2

LEMMA AlwaysInv == Spec => []SessionInv
BY InitInv, NextInv, PTL DEF Spec

\* Every reachable state of the tab, its calls and the backend's tokens is
\* well typed: no record names a token that was never minted.
THEOREM TypeCorrect == Spec => []TypeOK
BY AlwaysInv, PTL DEF SessionInv

\* For any number of users, calls and tokens, however logins, logouts,
\* reloads and late answers interleave, token, user and userData never name
\* two people (App.jsx:104-130, 176-187; api.js:20-37).
THEOREM RecordsAgree == Spec => []SessionAgrees
BY AlwaysInv, PTL DEF SessionInv

\* For any number of calls in flight, a session under a page that shows its
\* user is dropped only by the refusal of its own token, unless another
\* session's call was in flight when it began (api.js:66-70).
THEOREM DroppedByOwn == Spec => DroppedByOwnAnswer
<1> DEFINE A == token # None /\ token' = None /\ user' = user /\ user # None =>
                  \E c \in Call : /\ call[c].kind = "api" /\ call[c].status = "rejected"
                                  /\ call[c].token = token \/ crossed
<1>1. SessionInv /\ [Next]_vars => [A]_vars
  <2> SUFFICES ASSUME SessionInv, Next, token # None, token' = None, user' = user, user # None
               PROVE  \E c \in Call : /\ call[c].kind = "api" /\ call[c].status = "rejected"
                                      /\ call[c].token = token \/ crossed
    OBVIOUS
  <2>1. \E c \in Call : ApiUnauthorized(c)
    <3> USE DEF SessionInv, TypeOK, ClearAuth, SetUser, LogIn, Post, Ends
    <3>1. /\ ~Restore /\ ~Loaded /\ ~Reload /\ ~OpenLogin /\ ~CloseLogin /\ ~Logout
          /\ ~IdleWarns /\ ~Activity /\ ~IdleEnds
      BY DEF Restore, Loaded, Reload, OpenLogin, CloseLogin, Logout, IdleWarns, Activity, IdleEnds
    <3>2. ASSUME NEW c \in Call
          PROVE  /\ ~AskMe(c) /\ ~MeAnswered(c) /\ ~MeFails(c) /\ ~LoginFails(c)
                 /\ ~ApiFetch(c) /\ ~ApiFails(c) /\ ~Serve(c) /\ ~ServeLogin(c)
                 /\ \A u \in User : ~SubmitLogin(c, u)
      BY DEF AskMe, MeAnswered, MeFails, LoginFails, ApiFetch, ApiFails, Serve, ServeLogin,
             SubmitLogin
    <3>3. ASSUME NEW c \in Call PROVE ~LoginAnswered(c)
      BY DEF LoginAnswered, AnswerInv
    <3>4. (\A t \in Token : ~Expire(t)) /\ (\A u \in User : ~Deactivate(u))
      BY DEF Expire, Deactivate
    <3> QED  BY <3>1, <3>2, <3>3, <3>4 DEF Next
  <2>2. PICK c \in Call : ApiUnauthorized(c)
    BY <2>1
  <2>3. call[c].kind = "api" /\ call[c].status = "rejected"
    BY <2>2 DEF ApiUnauthorized
  <2>4. call[c].token = token \/ crossed
    BY <2>3 DEF SessionInv, AnswerInv
  <2> QED  BY <2>3, <2>4
<1> QED  BY <1>1, AlwaysInv, PTL DEF Spec, DroppedByOwnAnswer
=============================================================================
