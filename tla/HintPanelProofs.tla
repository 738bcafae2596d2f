-------------------------- MODULE HintPanelProofs --------------------------
(***************************************************************************)
(* Proofs about HintPanel.  An answer writes what its call remembers into  *)
(* whatever view is on screen, so that the invariant says of every call in *)
(* flight what its answer may bring: which attempt, made on which problem, *)
(* and how old.  The lemmas named Added, Requested, Settled and Fetched    *)
(* say what the shared operations make of view and calls; each action      *)
(* then keeps the invariant's parts one by one.                            *)
(***************************************************************************)
EXTENDS HintPanel, TLAPS

USE HintPanelAssumption

\* What is remembered of attempts is of attempts made; the last is the one to
\* retry.
Numbers == 1 .. Len(made)

RefCall(c) ==
  /\ Executing(c) => call[c].problem \in Problem
  /\ call[c].kind = "grade" => call[c].problem \in Problem /\ call[c].attempt \in Numbers
  /\ call[c].kind = "fetch" => call[c].hintReq \in HintReq /\ call[c].hintReq.attempt \in Numbers

RefInv ==
  /\ lastAttempt # None => lastAttempt \in Numbers /\ lastAttempt = Len(made)
  /\ view.hasAttempted => lastAttempt # None
  /\ \A i \in 1 .. Len(view.list) : view.list[i] # Semicolon => view.list[i] \in Numbers
  /\ hintRequestId # None => hintRequestId.attempt \in Numbers
  /\ \A c \in Call : RefCall(c)

\* While the student has not left a problem with a call in flight, every call
\* is about the problem on screen, and so is the attempt to retry.
StayCall(c) ==
  /\ Executing(c) => call[c].problem = problem
  /\ call[c].kind = "grade" => call[c].problem = problem /\ made[call[c].attempt].problem = problem
  /\ call[c].kind = "fetch" => made[call[c].hintReq.attempt].problem = problem

StayInv ==
  ~left => /\ view.hasAttempted => made[lastAttempt].problem = problem
           /\ HintsOfThisProblem
           /\ \A c \in Call : StayCall(c)

\* While the student has not hurried, one attempt at a time is under way, and
\* the one that is being reported is not older than any rejected one.
Working(c) == call[c].kind \in {"submit", "run", "grade"}

WaitInv ==
  ~hurried => /\ OfferIsNewest
              /\ \A c \in Call :
                   /\ Working(c) => \A d \in Call : Working(d) => d = c
                   /\ call[c].kind = "grade" => NotBeforeRejected(call[c].attempt)

PanelInv == TypeOK /\ PanelTellsTheTruth /\ RefInv /\ StayInv /\ WaitInv

-----------------------------------------------------------------------------
(* What an action makes of the calls, the attempts and the view.           *)

\* Call c becomes r, the others stay.
Becomes(c, r) == r \in CallType /\ call'[c] = r /\ \A d \in Call \ {c} : call'[d] = call[d]

LEMMA NoCallTyped == NoCall \in CallType
BY DEF NoCall, CallType

LEMMA Moved ==
  ASSUME TypeOK, NEW c \in Call, NEW r \in CallType, call' = [call EXCEPT ![c] = r]
  PROVE  call' \in [Call -> CallType] /\ Becomes(c, r)
<1> HIDE DEF CallType
<1> QED  BY DEF TypeOK, Becomes

Made == Seq([problem : Problem, rejected : BOOLEAN])

\* newAttempt adds one attempt to those made.
LEMMA Minted ==
  ASSUME TypeOK, Len(made) < MaxAttempts, NEW p \in Problem, NEW rejected \in BOOLEAN,
         made' = Append(made, [problem |-> p, rejected |-> rejected])
  PROVE  /\ made' \in Made /\ Len(made) \in Nat /\ Len(made') = Len(made) + 1
         /\ Len(made') \in Attempt
         /\ \A i \in 1 .. Len(made) : made'[i] = made[i]
         /\ made'[Len(made')].problem = p /\ made'[Len(made')].rejected = rejected
<1>1. /\ made \in Made /\ [problem |-> p, rejected |-> rejected] \in [problem : Problem, rejected : BOOLEAN]
      /\ Len(made) \in Nat
  BY DEF TypeOK, Made
<1>2. Len(made') = Len(made) + 1 /\ made' \in Made
  BY <1>1 DEF Made
<1>3. made'[Len(made')] = [problem |-> p, rejected |-> rejected] /\ \A i \in 1 .. Len(made) : made'[i] = made[i]
  BY <1>1, <1>2 DEF Made
<1> QED  BY <1>1, <1>2, <1>3 DEF Attempt

\* A hint added to a view is the one it points at.
LEMMA Added ==
  ASSUME NEW v \in ViewType, NEW h \in Hint, NEW w, w = AddHint(v, h)
  PROVE  /\ w \in ViewType /\ w.hasAttempted = v.hasAttempted /\ w.status = v.status
         /\ w.botAlert = v.botAlert
         /\ w.list # <<>> /\ w.index < Len(w.list)
         /\ \A i \in 1 .. Len(w.list) :
              w.list[i] = h \/ (i \in 1 .. Len(v.list) /\ w.list[i] = v.list[i])
<1> DEFINE l == IF v.list # <<>> /\ v.list[Len(v.list)] = h THEN v.list ELSE Append(v.list, h)
<1>1. w = [v EXCEPT !.list = l, !.index = Len(l) - 1]
  BY DEF AddHint
<1>2. v.list \in Seq(Hint)
  BY DEF ViewType
<1>3. /\ l \in Seq(Hint) /\ l # <<>> /\ Len(l) \in Nat \ {0}
      /\ \A i \in 1 .. Len(l) : l[i] = h \/ (i \in 1 .. Len(v.list) /\ l[i] = v.list[i])
  <2>1. CASE v.list # <<>> /\ v.list[Len(v.list)] = h
    BY <1>2, <2>1
  <2>2. CASE ~(v.list # <<>> /\ v.list[Len(v.list)] = h)
    BY <1>2, <2>2
  <2> QED  BY <2>1, <2>2
<1> HIDE DEF l
<1>4. w = [hasAttempted |-> v.hasAttempted, list |-> l, index |-> Len(l) - 1,
           status |-> v.status, botAlert |-> v.botAlert]
  BY <1>1 DEF ViewType
<1>5. Len(l) - 1 \in Nat /\ Len(l) - 1 < Len(l)
  BY <1>3
<1>6. w \in ViewType
  BY <1>3, <1>4, <1>5 DEF ViewType
<1> QED  BY <1>3, <1>4, <1>5, <1>6

\* requestTutorHint.
Reporting(c, a, p, retry) ==
  call'[c].kind = "grade" /\ call'[c].problem = p /\ call'[c].attempt = a /\ call'[c].retry = retry

Idle(c) == call'[c].kind = "none"

LEMMA Requested ==
  ASSUME TypeOK, NEW c \in Call, NEW a \in Attempt, NEW p \in Problem, NEW retry \in BOOLEAN,
         NEW v \in ViewType, RequestTutorHint(c, a, p, retry, v)
  PROVE  /\ hintRequestId' = None /\ call' \in [Call -> CallType] /\ view' \in ViewType
         /\ \A d \in Call \ {c} : call'[d] = call[d]
         /\ view'.hasAttempted = v.hasAttempted /\ view'.list = v.list /\ view'.index = v.index
         /\ view'.status = v.status
         /\ Reporting(c, a, p, retry) \/ (Idle(c) /\ view'.botAlert = FALSE)
<1>1. CASE p \in Mapped
  <2> DEFINE r == [NoCall EXCEPT !.kind = "grade", !.problem = p, !.attempt = a, !.retry = retry]
  <2>1. r \in CallType /\ r.kind = "grade" /\ r.problem = p /\ r.attempt = a /\ r.retry = retry
    BY DEF NoCall, CallType
  <2>2. call' = [call EXCEPT ![c] = r] /\ view' = v /\ hintRequestId' = None
    BY <1>1 DEF RequestTutorHint
  <2> HIDE DEF r
  <2> QED  BY <2>1, <2>2, Moved DEF Becomes, Reporting
<1>2. CASE p \notin Mapped
  <2>1. call' = [call EXCEPT ![c] = NoCall] /\ view' = [v EXCEPT !.botAlert = FALSE] /\ hintRequestId' = None
    BY <1>2 DEF RequestTutorHint
  <2>2. view' \in ViewType /\ view'.botAlert = FALSE
        /\ view'.hasAttempted = v.hasAttempted /\ view'.list = v.list /\ view'.index = v.index
        /\ view'.status = v.status
    BY <2>1 DEF ViewType
  <2> QED  BY <2>1, <2>2, NoCallTyped, Moved DEF Becomes, Idle, NoCall
<1> QED  BY <1>1, <1>2

\* The end of a /hint-request call.
Fetching(c, offer) == call'[c].kind = "fetch" /\ call'[c].hintReq = offer

LEMMA Settled ==
  ASSUME TypeOK, NEW c \in Call, NEW offer \in HintReq \cup {None}, NEW v \in ViewType,
         Settle(c, offer, v)
  PROVE  /\ hintRequestId' = offer /\ call' \in [Call -> CallType] /\ view' \in ViewType
         /\ \A d \in Call \ {c} : call'[d] = call[d]
         /\ view'.hasAttempted = v.hasAttempted /\ view'.list = v.list /\ view'.index = v.index
         /\ view'.botAlert = v.botAlert
         /\ \/ Idle(c) /\ view'.status = v.status /\ ~call[c].retry
            \/ Idle(c) /\ view'.status = "unavailable" /\ offer = None
            \/ Fetching(c, offer) /\ view'.status = "loading" /\ offer # None
         /\ UNCHANGED <<problem, made, lastAttempt, isHintOpen, shown, left, hurried>>
<1>0. UNCHANGED <<problem, made, lastAttempt, isHintOpen, shown, left, hurried>> /\ hintRequestId' = offer
  BY DEF Settle, habits
<1>1. CASE ~call[c].retry
  <2>1. call' = [call EXCEPT ![c] = NoCall] /\ view' = v
    BY <1>1 DEF Settle
  <2> QED  BY <1>0, <1>1, <2>1, NoCallTyped, Moved DEF Becomes, Idle, NoCall
<1>2. CASE call[c].retry /\ offer # None
  <2> DEFINE r == [NoCall EXCEPT !.kind = "fetch", !.hintReq = offer]
  <2>1. r \in CallType /\ r.kind = "fetch" /\ r.hintReq = offer
    BY DEF NoCall, CallType
  <2>2. call' = [call EXCEPT ![c] = r] /\ view' = [v EXCEPT !.status = "loading"]
    BY <1>2 DEF Settle
  <2> HIDE DEF r
  <2>3. view' \in ViewType /\ view'.status = "loading" /\ view'.botAlert = v.botAlert
        /\ view'.hasAttempted = v.hasAttempted /\ view'.list = v.list /\ view'.index = v.index
    BY <2>2 DEF ViewType
  <2> QED  BY <1>0, <1>2, <2>1, <2>2, <2>3, Moved DEF Becomes, Fetching
<1>3. CASE call[c].retry /\ offer = None
  <2>1. call' = [call EXCEPT ![c] = NoCall] /\ view' = [v EXCEPT !.status = "unavailable"]
    BY <1>3 DEF Settle
  <2>2. view' \in ViewType /\ view'.status = "unavailable" /\ view'.botAlert = v.botAlert
        /\ view'.hasAttempted = v.hasAttempted /\ view'.list = v.list /\ view'.index = v.index
    BY <2>1 DEF ViewType
  <2> QED  BY <1>0, <1>3, <2>1, <2>2, NoCallTyped, Moved DEF Becomes, Idle, NoCall
<1> QED  BY <1>1, <1>2, <1>3

-----------------------------------------------------------------------------
(* Each action keeps the invariant.                                        *)

\* Calls and hints that stay, on the problem and the attempts that they are
\* about, stay right.
Kept == Numbers \subseteq Numbers' /\ \A a \in Numbers : made'[a] = made[a]

LEMMA CallStays ==
  ASSUME PanelInv, Kept, NEW d \in Call, call'[d] = call[d]
  PROVE  RefCall(d)' /\ (~left /\ problem' = problem => StayCall(d)')
<1>1. RefCall(d) /\ (~left => StayCall(d))
  BY DEF PanelInv, RefInv, StayInv
<1> QED  BY <1>1 DEF RefCall, StayCall, Executing, Kept

LEMMA ListStays ==
  ASSUME PanelInv, Kept, view'.list = view.list
  PROVE  /\ (\A i \in 1 .. Len(view.list) : view.list[i] # Semicolon => view.list[i] \in Numbers)'
         /\ ~left /\ problem' = problem =>
              \A i \in 1 .. Len(view'.list) :
                view'.list[i] # Semicolon => made'[view'.list[i]].problem = problem'
BY DEF PanelInv, RefInv, StayInv, HintsOfThisProblem, Kept

LEMMA OfferStays ==
  ASSUME PanelInv, Kept, hintRequestId' = hintRequestId
  PROVE  /\ hintRequestId' # None => hintRequestId'.attempt \in Numbers'
         /\ ~left /\ problem' = problem /\ hintRequestId' # None =>
              made'[hintRequestId'.attempt].problem = problem'
BY DEF PanelInv, RefInv, StayInv, HintsOfThisProblem, Kept

LEMMA LastStays ==
  ASSUME PanelInv, made' = made, lastAttempt' = lastAttempt, view'.hasAttempted => view.hasAttempted
  PROVE  /\ lastAttempt' # None => lastAttempt' \in Numbers' /\ lastAttempt' = Len(made')
         /\ view'.hasAttempted => lastAttempt' # None
         /\ ~left /\ problem' = problem /\ view'.hasAttempted => made'[lastAttempt'].problem = problem'
         /\ Kept
BY DEF PanelInv, RefInv, StayInv, Numbers, Kept

LEMMA InitInv == Init => PanelInv
<1> SUFFICES ASSUME Init PROVE PanelInv
  OBVIOUS
<1>1. <<>> \in Made /\ Len(<<>>) = 0 /\ <<>> \in Seq(Hint)
  BY DEF Made
<1>2. EmptyView \in ViewType /\ \A c \in Call : call[c] = NoCall
  BY <1>1 DEF EmptyView, ViewType, Init
<1>3. TypeOK
  <2>1. call \in [Call -> CallType] /\ made \in Made /\ Len(made) = 0 /\ view \in ViewType
    BY <1>1, <1>2, NoCallTyped DEF Init
  <2>2. made \in Seq([problem : Problem, rejected : BOOLEAN]) /\ Len(made) <= MaxAttempts
    BY <2>1 DEF Made
  <2> HIDE DEF Made
  <2>3. problem \in Problem /\ hintRequestId = None /\ lastAttempt = None
        /\ isHintOpen = FALSE /\ shown = FALSE /\ left = FALSE /\ hurried = FALSE
    BY DEF Init
  <2> QED  BY <2>1, <2>2, <2>3 DEF TypeOK
<1>4. PanelTellsTheTruth /\ RefInv /\ StayInv /\ WaitInv
  BY <1>1, <1>2 DEF Init, EmptyView, NoCall, PanelTellsTheTruth, RefInv, StayInv, WaitInv,
     RefCall, StayCall, HintsOfThisProblem, OfferIsNewest, Executing, Working
<1> QED  BY <1>3, <1>4 DEF PanelInv

LEMMA StartKeeps ==
  ASSUME PanelInv, NEW c \in Call, Submit(c) \/ Run(c)
  PROVE  PanelInv'
<1>1. PICK kind \in {"submit", "run"} : Start(c, kind)
  BY DEF Submit, Run
<1> DEFINE r == [NoCall EXCEPT !.kind = kind, !.problem = problem, !.mounted = TRUE]
<1>2. r \in CallType /\ r.kind = kind /\ r.problem = problem
  BY DEF NoCall, CallType, PanelInv, TypeOK
<1>3. call' \in [Call -> CallType] /\ Becomes(c, r)
  BY <1>1, <1>2, Moved DEF Start, PanelInv
<1> HIDE DEF r
<1>4. /\ call[c].kind = "none" /\ problem \in Problem
      /\ UNCHANGED <<problem, made, view, hintRequestId, lastAttempt, isHintOpen, shown, left>>
      /\ hurried' \in BOOLEAN /\ (~hurried' => ~hurried /\ \A d \in Call : call[d].kind = "none")
  BY <1>1 DEF Start, Free, Hurry, Quiet, PanelInv, TypeOK
<1>5. TypeOK'
  BY <1>3, <1>4 DEF PanelInv, TypeOK
<1>6. PanelTellsTheTruth'
  BY <1>2, <1>3, <1>4 DEF PanelInv, PanelTellsTheTruth, Becomes
<1>7. RefInv'
  BY <1>2, <1>3, <1>4, CallStays, ListStays, OfferStays, LastStays
     DEF RefInv, RefCall, Becomes, Executing
<1>8. StayInv'
  BY <1>2, <1>3, <1>4, CallStays, ListStays, OfferStays, LastStays
     DEF StayInv, StayCall, Becomes, Executing, HintsOfThisProblem
<1>9. WaitInv'
  BY <1>2, <1>3, <1>4 DEF PanelInv, WaitInv, Becomes, Working, OfferIsNewest, NotBeforeRejected
<1> QED  BY <1>5, <1>6, <1>7, <1>8, <1>9 DEF PanelInv

LEMMA RejectedKeeps ==
  ASSUME PanelInv, NEW c \in Call, Rejected(c)
  PROVE  PanelInv'
<1> DEFINE p == call[c].problem n == Len(made) + 1
           v == [view EXCEPT !.hasAttempted = TRUE, !.status = "idle"]
<1>1. /\ TypeOK /\ Executing(c) /\ Len(made) < MaxAttempts /\ p \in Problem
      /\ made' = Append(made, [problem |-> p, rejected |-> TRUE])
      /\ lastAttempt' = n /\ RequestTutorHint(c, n, p, FALSE, v)
      /\ UNCHANGED <<problem, isHintOpen, shown, left, hurried>>
  BY DEF Rejected, Mint, PanelInv, RefInv, RefCall, habits
<1>2. /\ made' \in Made /\ n \in Attempt /\ Len(made') = n /\ Len(made) \in Nat
      /\ \A i \in 1 .. Len(made) : made'[i] = made[i]
      /\ made'[n].problem = p
  BY <1>1, Minted
<1>3. v \in ViewType /\ v.hasAttempted /\ v.status = "idle" /\ v.list = view.list /\ v.index = view.index
  BY <1>1 DEF TypeOK, ViewType
<1> HIDE DEF v
<1>4. /\ hintRequestId' = None /\ call' \in [Call -> CallType] /\ view' \in ViewType
      /\ \A d \in Call \ {c} : call'[d] = call[d]
      /\ view'.hasAttempted /\ view'.list = view.list /\ view'.index = view.index
      /\ view'.status = "idle"
      /\ Reporting(c, n, p, FALSE) \/ (Idle(c) /\ view'.botAlert = FALSE)
  <2>1. n \in Attempt /\ p \in Problem /\ TypeOK /\ RequestTutorHint(c, n, p, FALSE, v)
    BY <1>1, <1>2
  <2> HIDE DEF n, p
  <2> QED  BY <2>1, <1>3, Requested
<1>5. \/ call'[c].kind = "grade" /\ call'[c].attempt = n /\ call'[c].problem = p
      \/ call'[c].kind = "none" /\ view'.botAlert = FALSE
  BY <1>4 DEF Reporting, Idle
<1> HIDE DEF n
<1>6. TypeOK'
  BY <1>1, <1>2, <1>4 DEF TypeOK, Made, Attempt
<1>7. PanelTellsTheTruth'
  BY <1>1, <1>4, <1>5 DEF PanelInv, PanelTellsTheTruth
<1>k. Kept
  BY <1>2 DEF Kept, Numbers, n
<1>8. RefInv'
  <2>1. lastAttempt' = n /\ n \in Numbers' /\ n = Len(made')
    BY <1>1, <1>2 DEF Numbers, n
  <2>2. RefCall(c)'
    BY <1>1, <1>5, <2>1 DEF RefCall, Executing
  <2>3. \A d \in Call \ {c} : RefCall(d)'
    BY <1>4, <1>k, CallStays
  <2> QED  BY <1>4, <1>k, <2>1, <2>2, <2>3, ListStays DEF RefInv
<1>9. StayInv'
  <2> SUFFICES ASSUME ~left PROVE StayInv'
    BY <1>1 DEF StayInv
  <2>1. p = problem /\ problem' = problem /\ lastAttempt' = n
    BY <1>1 DEF PanelInv, StayInv, StayCall
  <2>2. StayCall(c)'
    BY <1>2, <1>5, <2>1 DEF StayCall, Executing
  <2>3. \A d \in Call \ {c} : StayCall(d)'
    BY <1>4, <1>k, <2>1, CallStays
  <2> QED  BY <1>2, <1>4, <1>k, <2>1, <2>2, <2>3, ListStays DEF StayInv, HintsOfThisProblem
<1>10. WaitInv'
  BY <1>1, <1>2, <1>4, <1>5 DEF PanelInv, WaitInv, Working, Executing, OfferIsNewest, NotBeforeRejected, n
<1> QED  BY <1>6, <1>7, <1>8, <1>9, <1>10 DEF PanelInv

\* An attempt that asks for no hint: call c ends, the list may have got the
\* browser's own.
LEMMA UnreportedKeeps ==
  ASSUME PanelInv, NEW c \in Call, NoSemicolon(c) \/ Passed(c)
  PROVE  PanelInv'
<1> DEFINE p == call[c].problem n == Len(made) + 1
<1>1. PICK rejected \in BOOLEAN :
        /\ TypeOK /\ call[c].kind = "submit" /\ Len(made) < MaxAttempts /\ p \in Problem
        /\ made' = Append(made, [problem |-> p, rejected |-> rejected])
        /\ lastAttempt' = n /\ call' = [call EXCEPT ![c] = NoCall]
        /\ UNCHANGED <<problem, isHintOpen, shown, left, hurried>>
        /\ hintRequestId' \in {hintRequestId, None}
        /\ rejected => hintRequestId' = None
  BY DEF NoSemicolon, Passed, Mint, PanelInv, RefInv, RefCall, Executing, habits
<1>2. /\ made' \in Made /\ n \in Attempt /\ Len(made') = n /\ Len(made) \in Nat
      /\ \A i \in 1 .. Len(made) : made'[i] = made[i]
      /\ made'[n].problem = p /\ made'[n].rejected = rejected
  BY <1>1, Minted
<1>3. /\ view' \in ViewType
      /\ view.list # <<>> => view'.list # <<>>
      /\ view'.list # <<>> => view'.index < Len(view'.list)
      /\ view'.botAlert => view'.list # <<>>
      /\ view'.status \in {view.status, "done"} /\ (view'.status = "done" => view'.list # <<>>)
      /\ \A i \in 1 .. Len(view'.list) :
           view'.list[i] = Semicolon \/ (i \in 1 .. Len(view.list) /\ view'.list[i] = view.list[i])
  <2>1. CASE NoSemicolon(c)
    <3> DEFINE w == AddHint(view, Semicolon)
    <3>1. /\ w \in ViewType /\ w.list # <<>> /\ w.index < Len(w.list)
          /\ \A i \in 1 .. Len(w.list) :
               w.list[i] = Semicolon \/ (i \in 1 .. Len(view.list) /\ w.list[i] = view.list[i])
      BY <1>1, Added DEF TypeOK, Hint
    <3>2. view' = [w EXCEPT !.hasAttempted = TRUE, !.status = "done", !.botAlert = TRUE]
      BY <2>1 DEF NoSemicolon
    <3> HIDE DEF w
    <3> QED  BY <3>1, <3>2 DEF ViewType
  <2>2. CASE Passed(c)
    BY <1>1, <2>2 DEF Passed, TypeOK, ViewType, PanelInv, PanelTellsTheTruth
  <2> QED  BY <2>1, <2>2
<1>4. call' \in [Call -> CallType] /\ Idle(c) /\ \A d \in Call \ {c} : call'[d] = call[d]
  BY <1>1, NoCallTyped, Moved DEF Becomes, Idle, NoCall
<1>5. Kept
  BY <1>2 DEF Kept, Numbers
<1>6. \A d \in Call : RefCall(d)' /\ (~left /\ problem' = problem => StayCall(d)')
  BY <1>4, <1>5, CallStays DEF Idle, RefCall, StayCall, Executing
<1>7. lastAttempt' \in Numbers' /\ lastAttempt' = Len(made') /\ lastAttempt' # None
  BY <1>1, <1>2 DEF Numbers, Attempt
<1> HIDE DEF n
<1>8. TypeOK'
  BY <1>1, <1>2, <1>3, <1>4 DEF TypeOK, Made, Attempt
<1>9. PanelTellsTheTruth'
  BY <1>1, <1>3, <1>4 DEF PanelInv, PanelTellsTheTruth
<1>10. RefInv'
  BY <1>1, <1>3, <1>5, <1>6, <1>7 DEF PanelInv, RefInv, Kept
<1>11. StayInv'
  <2> SUFFICES ASSUME ~left PROVE StayInv'
    BY <1>1 DEF StayInv
  <2>1. p = problem /\ problem' = problem /\ HintsOfThisProblem
    BY <1>1 DEF PanelInv, StayInv, StayCall, Executing
  <2>2. HintsOfThisProblem'
    BY <1>1, <1>3, <1>5, <2>1 DEF PanelInv, RefInv, HintsOfThisProblem, Kept
  <2> QED  BY <1>1, <1>2, <1>6, <2>1, <2>2 DEF StayInv
<1>12. WaitInv'
  BY <1>1, <1>2, <1>4 DEF PanelInv, WaitInv, Idle, Working, OfferIsNewest, NotBeforeRejected, n
<1> QED  BY <1>8, <1>9, <1>10, <1>11, <1>12 DEF PanelInv

\* The end of a call that made no attempt.
LEMMA HarmlessKeeps ==
  ASSUME PanelInv, NEW c \in Call, Harmless(c)
  PROVE  PanelInv'
<1>1. /\ TypeOK /\ Executing(c) /\ call' = [call EXCEPT ![c] = NoCall]
      /\ UNCHANGED <<problem, made, view, hintRequestId, lastAttempt, isHintOpen, shown, left, hurried>>
  BY DEF Harmless, PanelInv, habits
<1>2. call' \in [Call -> CallType] /\ Idle(c) /\ \A d \in Call \ {c} : call'[d] = call[d]
  BY <1>1, NoCallTyped, Moved DEF Becomes, Idle, NoCall
<1>3. \A d \in Call : RefCall(d)' /\ (~left /\ problem' = problem => StayCall(d)')
  BY <1>1, <1>2, LastStays, CallStays DEF Idle, RefCall, StayCall, Executing
<1>4. TypeOK'
  BY <1>1, <1>2 DEF TypeOK
<1>5. PanelTellsTheTruth'
  BY <1>1, <1>2 DEF PanelInv, PanelTellsTheTruth, Executing
<1>6. RefInv'
  BY <1>1, <1>3, LastStays, ListStays, OfferStays DEF RefInv
<1>7. StayInv'
  BY <1>1, <1>3, LastStays, ListStays, OfferStays DEF StayInv, HintsOfThisProblem
<1>8. WaitInv'
  BY <1>1, <1>2 DEF PanelInv, WaitInv, Idle, Working, OfferIsNewest, NotBeforeRejected
<1> QED  BY <1>4, <1>5, <1>6, <1>7, <1>8 DEF PanelInv

\* The answer to a /hint-request call, or its absence.
LEMMA GradedKeeps ==
  ASSUME PanelInv, NEW c \in Call, HintOffered(c) \/ NoHint(c) \/ GradeFails(c)
  PROVE  PanelInv'
<1>0. TypeOK /\ call[c].kind = "grade" /\ RefCall(c)
  BY DEF HintOffered, NoHint, GradeFails, PanelInv, RefInv
<1>1. PICK offer \in HintReq \cup {None}, v \in ViewType :
        /\ Settle(c, offer, v)
        /\ v.hasAttempted = view.hasAttempted /\ v.list = view.list /\ v.index = view.index
        /\ offer # hintRequestId => offer # None /\ offer.attempt = call[c].attempt
        /\ v.status \in {view.status, "unavailable"}
        /\ v.botAlert => offer # None \/ v.status = "unavailable"
  <2>1. CASE HintOffered(c)
    <3> DEFINE offer == [attempt |-> call[c].attempt, problem |-> call[c].problem]
               v == [view EXCEPT !.botAlert = TRUE]
    <3>1. offer \in HintReq /\ offer # None /\ offer.attempt = call[c].attempt
      BY <1>0 DEF HintReq, RefCall, TypeOK, Numbers, Attempt
    <3>2. /\ v \in ViewType /\ v.status = view.status /\ v.hasAttempted = view.hasAttempted
          /\ v.list = view.list /\ v.index = view.index
      BY <1>0 DEF TypeOK, ViewType
    <3> QED  BY <2>1, <3>1, <3>2 DEF HintOffered
  <2>2. CASE NoHint(c)
    <3> DEFINE v == [view EXCEPT !.botAlert = FALSE]
    <3>1. /\ v \in ViewType /\ v.status = view.status /\ v.hasAttempted = view.hasAttempted
          /\ v.list = view.list /\ v.index = view.index /\ ~v.botAlert
          /\ hintRequestId \in HintReq \cup {None}
      BY <1>0 DEF TypeOK, ViewType
    <3> QED  BY <2>2, <3>1 DEF NoHint
  <2>3. CASE GradeFails(c)
    <3> DEFINE v == [view EXCEPT !.botAlert = TRUE, !.status = "unavailable"]
    <3>1. /\ v \in ViewType /\ v.status = "unavailable" /\ v.hasAttempted = view.hasAttempted
          /\ v.list = view.list /\ v.index = view.index
          /\ hintRequestId \in HintReq \cup {None}
      BY <1>0 DEF TypeOK, ViewType
    <3> QED  BY <2>3, <3>1 DEF GradeFails
  <2> QED  BY <2>1, <2>2, <2>3
<1>2. /\ hintRequestId' = offer /\ call' \in [Call -> CallType] /\ view' \in ViewType
      /\ \A d \in Call \ {c} : call'[d] = call[d]
      /\ view'.hasAttempted = view.hasAttempted /\ view'.list = view.list /\ view'.index = view.index
      /\ view'.botAlert = v.botAlert
      /\ \/ Idle(c) /\ view'.status = v.status
         \/ Idle(c) /\ view'.status = "unavailable"
         \/ Fetching(c, offer) /\ view'.status = "loading" /\ offer # None
      /\ UNCHANGED <<problem, made, lastAttempt, isHintOpen, shown, left, hurried>>
  BY <1>0, <1>1, Settled
<1>3. /\ offer # None => offer \in HintReq /\ offer.attempt \in Numbers
      /\ ~left /\ offer # None => made[offer.attempt].problem = problem
      /\ ~hurried /\ offer # None => NotBeforeRejected(offer.attempt)
  BY <1>0, <1>1 DEF PanelInv, RefInv, RefCall, StayInv, StayCall, HintsOfThisProblem, WaitInv, OfferIsNewest
<1>k. Kept
  BY <1>2, LastStays
<1>4. /\ RefCall(c)' /\ (~left => StayCall(c)') /\ ~Working(c)' /\ call'[c].kind # "grade"
  BY <1>2, <1>3 DEF Idle, Fetching, RefCall, StayCall, Executing, Working, Numbers
<1>5. \A d \in Call : RefCall(d)' /\ (~left => StayCall(d)')
  BY <1>2, <1>4, <1>k, CallStays
<1>6. TypeOK'
  BY <1>0, <1>2 DEF TypeOK
<1>7. PanelTellsTheTruth'
  BY <1>0, <1>1, <1>2 DEF PanelInv, PanelTellsTheTruth, Idle, Fetching
<1>8. RefInv'
  BY <1>2, <1>3, <1>5, <1>k, LastStays, ListStays DEF RefInv, Kept
<1>9. StayInv'
  BY <1>2, <1>3, <1>5, <1>k, LastStays, ListStays DEF StayInv, HintsOfThisProblem
<1>10. WaitInv'
  BY <1>2, <1>3, <1>4 DEF PanelInv, WaitInv, Working, OfferIsNewest, NotBeforeRejected
<1> QED  BY <1>6, <1>7, <1>8, <1>9, <1>10 DEF PanelInv

\* The answer to a hint fetch, or its absence.
LEMMA FetchedKeeps ==
  ASSUME PanelInv, NEW c \in Call, FetchAnswered(c) \/ FetchFails(c)
  PROVE  PanelInv'
<1> DEFINE h == call[c].hintReq.attempt
<1>1. /\ TypeOK /\ call[c].kind = "fetch" /\ call' = [call EXCEPT ![c] = NoCall]
      /\ UNCHANGED <<problem, made, hintRequestId, lastAttempt, isHintOpen, shown, left, hurried>>
      /\ h \in Numbers /\ h \in Hint /\ (~left => made[h].problem = problem)
  <2>1. RefCall(c) /\ (~left => StayCall(c)) /\ TypeOK /\ call[c].kind = "fetch"
    BY DEF FetchAnswered, FetchFails, PanelInv, RefInv, StayInv
  <2>2. h \in Numbers /\ (~left => made[h].problem = problem) /\ h \in Hint
    BY <2>1 DEF RefCall, StayCall, HintReq, Hint
  <2> QED  BY <2>1, <2>2 DEF FetchAnswered, FetchFails, habits
<1>2. /\ view' \in ViewType /\ view'.hasAttempted = view.hasAttempted
      /\ view'.botAlert = view.botAlert
      /\ view'.list # <<>> => view'.index < Len(view'.list)
      /\ view'.status = "unavailable" \/ (view'.status = "done" /\ view'.list # <<>>)
      /\ view.list # <<>> => view'.list # <<>>
      /\ \A i \in 1 .. Len(view'.list) :
           view'.list[i] = h \/ (i \in 1 .. Len(view.list) /\ view'.list[i] = view.list[i])
  <2>1. CASE FetchAnswered(c)
    <3> DEFINE w == AddHint(view, h)
    <3>1. /\ w \in ViewType /\ w.hasAttempted = view.hasAttempted /\ w.botAlert = view.botAlert
          /\ w.list # <<>> /\ w.index < Len(w.list)
          /\ \A i \in 1 .. Len(w.list) :
               w.list[i] = h \/ (i \in 1 .. Len(view.list) /\ w.list[i] = view.list[i])
      <4> view \in ViewType /\ h \in Hint
        BY <1>1 DEF TypeOK
      <4> HIDE DEF h
      <4> QED  BY Added
    <3>2. view' = [w EXCEPT !.status = "done"]
      BY <2>1 DEF FetchAnswered
    <3> HIDE DEF w, h
    <3> QED  BY <3>1, <3>2 DEF ViewType
  <2>2. CASE FetchFails(c)
    BY <1>1, <2>2 DEF FetchFails, TypeOK, ViewType, PanelInv, PanelTellsTheTruth
  <2> QED  BY <2>1, <2>2
<1> HIDE DEF h
<1>3. call' \in [Call -> CallType] /\ Idle(c) /\ \A d \in Call \ {c} : call'[d] = call[d]
  BY <1>1, NoCallTyped, Moved DEF Becomes, Idle, NoCall
<1>4. Kept
  BY <1>1, <1>2, LastStays
<1>5. \A d \in Call : RefCall(d)' /\ (~left => StayCall(d)')
  BY <1>1, <1>3, <1>4, CallStays DEF Idle, RefCall, StayCall, Executing
<1>6. TypeOK'
  BY <1>1, <1>2, <1>3 DEF TypeOK
<1>7. PanelTellsTheTruth'
  BY <1>1, <1>2, <1>3 DEF PanelInv, PanelTellsTheTruth
<1>8. RefInv'
  BY <1>1, <1>2, <1>5, LastStays, OfferStays DEF PanelInv, RefInv, Numbers, Kept
<1>9. StayInv'
  BY <1>1, <1>2, <1>4, <1>5, LastStays, OfferStays DEF PanelInv, RefInv, StayInv, HintsOfThisProblem
<1>10. WaitInv'
  BY <1>1, <1>3 DEF PanelInv, WaitInv, Idle, Working, OfferIsNewest, NotBeforeRejected
<1> QED  BY <1>6, <1>7, <1>8, <1>9, <1>10 DEF PanelInv

\* Call c, which was free, fetches the hint on offer.
LEMMA Fetched ==
  ASSUME PanelInv, NEW c \in Call, NEW v \in ViewType, Fetch(c, v), hintRequestId # None
  PROVE  /\ call' \in [Call -> CallType] /\ \A d \in Call \ {c} : call'[d] = call[d]
         /\ call[c].kind = "none" /\ Fetching(c, hintRequestId)
         /\ view' \in ViewType /\ view'.status = "loading" /\ view'.botAlert = v.botAlert
         /\ view'.hasAttempted = v.hasAttempted /\ view'.list = v.list /\ view'.index = v.index
<1> DEFINE r == [NoCall EXCEPT !.kind = "fetch", !.hintReq = hintRequestId]
<1>1. r \in CallType /\ r.kind = "fetch" /\ r.hintReq = hintRequestId
  BY DEF NoCall, CallType, PanelInv, TypeOK
<1>2. call' = [call EXCEPT ![c] = r] /\ view' = [v EXCEPT !.status = "loading"] /\ call[c].kind = "none"
  BY DEF Fetch, Free
<1> HIDE DEF r
<1>3. /\ view' \in ViewType /\ view'.status = "loading" /\ view'.botAlert = v.botAlert
      /\ view'.hasAttempted = v.hasAttempted /\ view'.list = v.list /\ view'.index = v.index
  BY <1>2 DEF ViewType
<1> QED  BY <1>1, <1>2, <1>3, Moved DEF PanelInv, Becomes, Fetching

\* What the panel does, short of a retry: the attempts and the offer stay,
\* calls stay or begin to fetch the offer.
LEMMA ShowingKeeps ==
  ASSUME PanelInv, view' \in ViewType, PanelTellsTheTruth',
         view'.list = view.list, view'.hasAttempted = view.hasAttempted,
         call' \in [Call -> CallType],
         \A d \in Call : \/ call'[d] = call[d]
                         \/ call[d].kind = "none" /\ Fetching(d, hintRequestId) /\ hintRequestId # None,
         isHintOpen' \in BOOLEAN, shown' \in BOOLEAN,
         UNCHANGED <<problem, made, hintRequestId, lastAttempt, left>>,
         hurried' \in BOOLEAN, hurried => hurried'
  PROVE  PanelInv'
<1>1. Kept
  BY LastStays
<1>2. \A d \in Call : RefCall(d)' /\ (~left => StayCall(d)')
  <2> SUFFICES ASSUME NEW d \in Call PROVE RefCall(d)' /\ (~left => StayCall(d)')
    OBVIOUS
  <2>1. CASE call'[d] = call[d]
    BY <1>1, <2>1, CallStays
  <2>2. CASE Fetching(d, hintRequestId) /\ hintRequestId # None
    BY <2>2 DEF Fetching, RefCall, StayCall, Executing, PanelInv, TypeOK, RefInv, StayInv,
       HintsOfThisProblem, Numbers
  <2> QED  BY <2>1, <2>2
<1>3. TypeOK'
  BY DEF PanelInv, TypeOK
<1>4. RefInv'
  BY <1>2, LastStays, ListStays, OfferStays, <1>1 DEF RefInv
<1>5. StayInv'
  BY <1>2, LastStays, ListStays, OfferStays, <1>1 DEF StayInv, HintsOfThisProblem
<1>6. WaitInv'
  BY DEF PanelInv, WaitInv, Fetching, Working, OfferIsNewest, NotBeforeRejected
<1> QED  BY <1>3, <1>4, <1>5, <1>6 DEF PanelInv

LEMMA OpenKeeps ==
  ASSUME PanelInv, NEW c \in Call, OpenPanel(c)
  PROVE  PanelInv'
<1> DEFINE v == [view EXCEPT !.botAlert = FALSE]
<1>1. /\ isHintOpen' = TRUE /\ shown' = TRUE
      /\ UNCHANGED <<problem, made, hintRequestId, lastAttempt, left, hurried>>
  BY DEF OpenPanel, habits
<1>2. /\ v \in ViewType /\ v.status = view.status /\ ~v.botAlert
      /\ v.hasAttempted = view.hasAttempted /\ v.list = view.list /\ v.index = view.index
      /\ call \in [Call -> CallType] /\ hurried \in BOOLEAN
  BY DEF PanelInv, TypeOK, ViewType
<1>3. \/ view' = v /\ call' = call
      \/ view' = [v EXCEPT !.status = "unavailable"] /\ call' = call
      \/ Fetch(c, v) /\ hintRequestId # None
  BY DEF OpenPanel
<1> HIDE DEF v
<1>4. CASE call' = call /\ view' \in {v, [v EXCEPT !.status = "unavailable"]}
  <2>1. /\ view' \in ViewType /\ ~view'.botAlert /\ view'.status \in {view.status, "unavailable"}
        /\ view'.hasAttempted = view.hasAttempted /\ view'.list = view.list /\ view'.index = view.index
    BY <1>2, <1>4 DEF ViewType
  <2>2. PanelTellsTheTruth'
    BY <1>1, <1>4, <2>1 DEF PanelInv, PanelTellsTheTruth
  <2> QED  BY <1>1, <1>2, <1>4, <2>1, <2>2, ShowingKeeps
<1>5. CASE Fetch(c, v) /\ hintRequestId # None
  <2>1. /\ call' \in [Call -> CallType] /\ \A d \in Call \ {c} : call'[d] = call[d]
        /\ call[c].kind = "none" /\ Fetching(c, hintRequestId)
        /\ view' \in ViewType /\ view'.status = "loading" /\ ~view'.botAlert
        /\ view'.hasAttempted = view.hasAttempted /\ view'.list = view.list /\ view'.index = view.index
    BY <1>2, <1>5, Fetched
  <2>2. PanelTellsTheTruth'
    BY <1>1, <2>1 DEF PanelInv, PanelTellsTheTruth, Fetching
  <2> QED  BY <1>1, <1>2, <1>5, <2>1, <2>2, ShowingKeeps
<1> QED  BY <1>3, <1>4, <1>5

LEMMA PanelKeeps ==
  ASSUME PanelInv, ClosePanel \/ ShowHint
  PROVE  PanelInv'
<1>1. /\ view' \in ViewType /\ view'.status = view.status
      /\ view'.hasAttempted = view.hasAttempted /\ view'.list = view.list
      /\ view'.botAlert => view.botAlert
      /\ view'.index = view.index \/ view'.index < Len(view.list)
      /\ isHintOpen' \in BOOLEAN /\ shown' \in BOOLEAN /\ (isHintOpen' \/ ~shown')
      /\ UNCHANGED <<problem, made, hintRequestId, lastAttempt, call, left, hurried>>
      /\ call \in [Call -> CallType] /\ hurried \in BOOLEAN
  <2>1. CASE ClosePanel
    BY <2>1 DEF ClosePanel, PanelInv, TypeOK, ViewType, habits
  <2>2. CASE ShowHint
    <3>1. PICK i \in {view.index - 1, view.index + 1} :
            0 <= i /\ i < Len(view.list) /\ view' = [view EXCEPT !.index = i]
      BY <2>2 DEF ShowHint
    <3>2. i \in Nat /\ view \in ViewType
      BY <3>1 DEF PanelInv, TypeOK, ViewType
    <3> QED  BY <2>2, <3>1, <3>2 DEF ShowHint, PanelInv, PanelTellsTheTruth, TypeOK, ViewType, habits
  <2> QED  BY <2>1, <2>2
<1>2. PanelTellsTheTruth'
  BY <1>1 DEF PanelInv, PanelTellsTheTruth
<1> QED  BY <1>1, <1>2, ShowingKeeps

LEMMA TryAgainKeeps ==
  ASSUME PanelInv, NEW c \in Call, TryAgain(c)
  PROVE  PanelInv'
<1> DEFINE v == [view EXCEPT !.status = "idle"]
<1>1. /\ UNCHANGED <<problem, made, lastAttempt, isHintOpen, shown, left>>
      /\ call[c].kind = "none" /\ view.hasAttempted /\ view.status = "unavailable"
      /\ hurried' \in BOOLEAN
      /\ ~hurried' => ~hurried /\ \A d \in Call : call[d].kind = "none"
  BY DEF TryAgain, Hurry, Quiet, Free, PanelInv, TypeOK
<1>2. /\ v \in ViewType /\ v.status = "idle" /\ v.botAlert = view.botAlert
      /\ v.hasAttempted = view.hasAttempted /\ v.list = view.list /\ v.index = view.index
      /\ call \in [Call -> CallType] /\ isHintOpen \in BOOLEAN /\ shown \in BOOLEAN
      /\ TypeOK /\ problem \in Problem
  BY DEF PanelInv, TypeOK, ViewType
<1>3. \/ hintRequestId # None /\ Fetch(c, v) /\ UNCHANGED hintRequestId
      \/ lastAttempt # None /\ RequestTutorHint(c, lastAttempt, problem, TRUE, v)
  BY DEF TryAgain
<1> HIDE DEF v
<1>4. CASE hintRequestId # None /\ Fetch(c, v) /\ UNCHANGED hintRequestId
  <2>1. /\ call' \in [Call -> CallType] /\ \A d \in Call \ {c} : call'[d] = call[d]
        /\ call[c].kind = "none" /\ Fetching(c, hintRequestId)
        /\ view' \in ViewType /\ view'.status = "loading"
        /\ view'.hasAttempted = view.hasAttempted /\ view'.list = view.list /\ view'.index = view.index
    BY <1>2, <1>4, Fetched
  <2>2. PanelTellsTheTruth'
    BY <1>1, <1>4, <2>1 DEF PanelInv, PanelTellsTheTruth, Fetching
  <2> QED  BY <1>1, <1>2, <1>4, <2>1, <2>2, ShowingKeeps
<1>5. CASE lastAttempt # None /\ RequestTutorHint(c, lastAttempt, problem, TRUE, v)
  <2>1. /\ lastAttempt \in Attempt /\ lastAttempt \in Numbers /\ lastAttempt = Len(made)
        /\ (~left => made[lastAttempt].problem = problem)
    BY <1>1, <1>2, <1>5 DEF PanelInv, RefInv, StayInv, TypeOK
  <2>2. /\ hintRequestId' = None /\ call' \in [Call -> CallType] /\ view' \in ViewType
        /\ \A d \in Call \ {c} : call'[d] = call[d]
        /\ view'.hasAttempted = view.hasAttempted /\ view'.list = view.list /\ view'.index = view.index
        /\ view'.status = "idle"
        /\ Reporting(c, lastAttempt, problem, TRUE) \/ (Idle(c) /\ view'.botAlert = FALSE)
    <3>1. TypeOK /\ lastAttempt \in Attempt /\ problem \in Problem /\ v \in ViewType
          /\ RequestTutorHint(c, lastAttempt, problem, TRUE, v)
      BY <1>2, <1>5, <2>1
    <3>2. /\ hintRequestId' = None /\ call' \in [Call -> CallType] /\ view' \in ViewType
          /\ \A d \in Call \ {c} : call'[d] = call[d]
          /\ view'.hasAttempted = v.hasAttempted /\ view'.list = v.list /\ view'.index = v.index
          /\ view'.status = v.status
          /\ Reporting(c, lastAttempt, problem, TRUE) \/ (Idle(c) /\ view'.botAlert = FALSE)
      BY <3>1, Requested
    <3> QED  BY <1>2, <3>2
  <2>k. Kept
    BY <1>1, <2>2, LastStays
  <2>3. \A d \in Call : RefCall(d)' /\ (~left => StayCall(d)')
    <3>1. RefCall(c)' /\ (~left => StayCall(c)')
      BY <1>1, <1>2, <2>1, <2>2 DEF Reporting, Idle, RefCall, StayCall, Executing, Numbers
    <3>2. \A d \in Call \ {c} : RefCall(d)' /\ (~left => StayCall(d)')
      BY <1>1, <2>2, <2>k, CallStays
    <3> QED  BY <3>1, <3>2
  <2>4. TypeOK'
    BY <1>1, <1>2, <2>2 DEF TypeOK
  <2>5. PanelTellsTheTruth'
    BY <1>1, <2>2 DEF PanelInv, PanelTellsTheTruth, Reporting
  <2>6. RefInv'
    BY <1>1, <2>2, <2>3, <2>k, LastStays, ListStays DEF RefInv
  <2>7. StayInv'
    BY <1>1, <2>2, <2>3, <2>k, LastStays, ListStays DEF StayInv, HintsOfThisProblem
  <2>8. WaitInv'
    BY <1>1, <2>1, <2>2 DEF WaitInv, Working, OfferIsNewest, NotBeforeRejected, Reporting, Idle, Numbers
  <2> QED  BY <2>4, <2>5, <2>6, <2>7, <2>8 DEF PanelInv
<1> QED  BY <1>3, <1>4, <1>5

\* The student moves to another problem, or the page goes off screen: calls
\* go on.
LEMMA MovingKeeps ==
  ASSUME PanelInv, NEW p \in Problem, StepChange(p) \/ ReEnter(p) \/ SwitchTab
  PROVE  PanelInv'
<1>1. /\ TypeOK /\ UNCHANGED <<made, lastAttempt, isHintOpen, hurried>>
      /\ call' \in [Call -> CallType]
      /\ \A d \in Call : /\ call'[d].kind = call[d].kind /\ call'[d].problem = call[d].problem
                         /\ call'[d].attempt = call[d].attempt /\ call'[d].hintReq = call[d].hintReq
      /\ shown' \in {shown, FALSE}
  <2>1. /\ Unmounted \in [Call -> CallType]
        /\ \A d \in Call : /\ Unmounted[d].kind = call[d].kind /\ Unmounted[d].problem = call[d].problem
                           /\ Unmounted[d].attempt = call[d].attempt
                           /\ Unmounted[d].hintReq = call[d].hintReq
    BY DEF Unmounted, CallType, PanelInv, TypeOK
  <2>2. UNCHANGED <<made, lastAttempt, isHintOpen, hurried>> /\ shown' \in {shown, FALSE}
    BY DEF StepChange, ReEnter, SwitchTab, ResetHint, Leave, habits
  <2>3. call' = call \/ call' = Unmounted
    BY DEF StepChange, ReEnter, SwitchTab
  <2> HIDE DEF Unmounted
  <2> QED  BY <2>1, <2>2, <2>3 DEF PanelInv, TypeOK
<1>2. /\ EmptyView \in ViewType /\ EmptyView.list = <<>> /\ ~EmptyView.hasAttempted
      /\ EmptyView.status = "idle" /\ ~EmptyView.botAlert
  BY DEF EmptyView, ViewType
<1>3. \/ /\ problem' = p /\ view' = EmptyView /\ hintRequestId' = None
         /\ left' \in BOOLEAN /\ (~left' => \A d \in Call : call[d].kind = "none")
      \/ UNCHANGED <<problem, view, hintRequestId, left>>
  BY <1>1 DEF StepChange, ReEnter, SwitchTab, ResetHint, Leave, Quiet, Free, habits, TypeOK
<1>k. Kept
  BY <1>1 DEF Kept, Numbers
<1>4. TypeOK'
  BY <1>1, <1>2, <1>3 DEF TypeOK
<1>5. PanelTellsTheTruth'
  <2>1. \A d \in Call : call'[d].kind = call[d].kind
    BY <1>1
  <2>s. isHintOpen' \/ ~shown'
    BY <1>1 DEF PanelInv, PanelTellsTheTruth
  <2>2. CASE view' = EmptyView
    BY <1>2, <2>2, <2>s DEF PanelTellsTheTruth
  <2>3. CASE UNCHANGED <<view, hintRequestId>>
    BY <2>1, <2>3, <2>s DEF PanelInv, PanelTellsTheTruth
  <2> QED  BY <1>3, <2>2, <2>3
<1>6. RefInv'
  BY <1>1, <1>2, <1>3, <1>k DEF PanelInv, RefInv, RefCall, Executing, Kept, Numbers
<1>7. StayInv'
  BY <1>1, <1>2, <1>3 DEF PanelInv, StayInv, StayCall, Executing, HintsOfThisProblem
<1>8. WaitInv'
  BY <1>1, <1>3 DEF PanelInv, WaitInv, Working, OfferIsNewest, NotBeforeRejected
<1> QED  BY <1>4, <1>5, <1>6, <1>7, <1>8 DEF PanelInv

LEMMA NextInv == PanelInv /\ [Next]_vars => PanelInv'
<1> SUFFICES ASSUME PanelInv, [Next]_vars PROVE PanelInv'
  OBVIOUS
<1>1. ASSUME NEW c \in Call, Answer(c) PROVE PanelInv'
  BY <1>1, RejectedKeeps, UnreportedKeeps, HarmlessKeeps, GradedKeeps, FetchedKeeps DEF Answer
<1>2. ASSUME NEW c \in Call, Submit(c) \/ Run(c) \/ OpenPanel(c) \/ TryAgain(c) PROVE PanelInv'
  BY <1>2, StartKeeps, OpenKeeps, TryAgainKeeps
<1>3. CASE ClosePanel \/ ShowHint
  BY <1>3, PanelKeeps
<1>4. CASE SwitchTab
  <2>1. problem \in Problem
    BY DEF PanelInv, TypeOK
  <2> QED  BY <1>4, <2>1, MovingKeeps
<1>5. ASSUME NEW p \in Problem, StepChange(p) \/ ReEnter(p) PROVE PanelInv'
  BY <1>5, MovingKeeps
<1>6. CASE UNCHANGED vars
  BY <1>6 DEF vars, habits, PanelInv, TypeOK, PanelTellsTheTruth, RefInv, RefCall, StayInv, StayCall,
     WaitInv, Working, Executing, Numbers, HintsOfThisProblem, OfferIsNewest, NotBeforeRejected
<1> QED  BY <1>1, <1>2, <1>3, <1>4, <1>5, <1>6 DEF Next

\* A retry's call reports the latest attempt.
LEMMA RetryOf ==
  ASSUME PanelInv, NEW d \in Call, TryAgain(d), NEW c \in Call,
         call'[c].kind = "grade", call[c].kind # "grade"
  PROVE  call'[c].attempt = Len(made)
<1>1. /\ call \in [Call -> CallType]
      /\ lastAttempt # None => lastAttempt = Len(made)
  BY DEF PanelInv, TypeOK, RefInv
<1>2. PICK r : /\ call' = [call EXCEPT ![d] = r]
               /\ r.kind = "grade" => r.attempt = lastAttempt /\ lastAttempt # None
  BY DEF TryAgain, Fetch, RequestTutorHint, NoCall
<1> QED  BY <1>1, <1>2

LEMMA AlwaysInv == Spec => []PanelInv
BY InitInv, NextInv, PTL DEF Spec

\* For any number of calls, problems and attempts, every state of the panel is
\* well typed.
THEOREM TypeCorrect == Spec => []TypeOK
BY AlwaysInv, PTL DEF PanelInv

\* In whatever order any number of answers arrive, the panel thinks only while
\* a hint is being fetched, is done only with a hint, and its dot stands for
\* something (App.jsx:238-260, 595-638).
THEOREM PanelIsTrue == Spec => []PanelTellsTheTruth
BY AlwaysInv, PTL DEF PanelInv

\* However many problems and attempts there are, who does not leave a problem
\* with a call in flight sees hints of the problem on screen only, and who
\* waits for answers is never offered an older attempt's (App.jsx:347-357,
\* 450-470, 549-593).
THEOREM OwnIsSeen == Spec => []StayingSeesItsOwn
<1>1. PanelInv => StayingSeesItsOwn
  BY DEF PanelInv, StayInv, StayCall, WaitInv, StayingSeesItsOwn, ReportsOwnProblem
<1> QED  BY <1>1, AlwaysInv, PTL

\* A Retry sends the latest of any number of attempts
\* (submissions.py:128-129).
THEOREM RetryIsLatest == Spec => RetrySendsLatest
<1>1. PanelInv /\ [Next]_vars =>
        [\A c \in Call : call'[c].kind = "grade" /\ call'[c].retry /\ call[c].kind # "grade"
           => call'[c].attempt = Len(made)]_vars
  <2> SUFFICES ASSUME PanelInv, Next, NEW c \in Call,
                      call'[c].kind = "grade", call'[c].retry, call[c].kind # "grade"
               PROVE  call'[c].attempt = Len(made)
    OBVIOUS
  <2>0. TypeOK /\ call \in [Call -> CallType] /\ call'[c] # call[c]
    BY DEF PanelInv, TypeOK
  <2>1. ASSUME NEW d \in Call, TryAgain(d) PROVE call'[c].attempt = Len(made)
    BY <2>1, RetryOf
  <2>2. ASSUME NEW d \in Call, Submit(d) \/ Run(d) \/ OpenPanel(d) PROVE FALSE
    <3>1. PICK r : call' = [call EXCEPT ![d] = r] /\ r.kind \in {"submit", "run", "fetch"}
      BY <2>0, <2>2 DEF Submit, Run, Start, OpenPanel, Fetch, NoCall
    <3> QED  BY <2>0, <3>1
  <2>3. ASSUME NEW d \in Call, Rejected(d) PROVE FALSE
    <3>1. PICK r : call' = [call EXCEPT ![d] = r] /\ (r.kind = "none" \/ r.retry = FALSE)
      <4>1. PICK a, p, v : RequestTutorHint(d, a, p, FALSE, v)
        BY <2>3 DEF Rejected
      <4> DEFINE r == [NoCall EXCEPT !.kind = "grade", !.problem = p, !.attempt = a, !.retry = FALSE]
      <4>2. r.retry = FALSE /\ NoCall.kind = "none"
        BY DEF NoCall
      <4>3. call' = [call EXCEPT ![d] = r] \/ call' = [call EXCEPT ![d] = NoCall]
        BY <4>1 DEF RequestTutorHint
      <4> HIDE DEF r
      <4> QED  BY <4>2, <4>3
    <3> QED  BY <2>0, <3>1
  <2>4. ASSUME NEW d \in Call, Answer(d), ~Rejected(d) PROVE FALSE
    <3>1. PICK r : call' = [call EXCEPT ![d] = r] /\ r.kind \in {"none", "fetch"}
      <4>1. CASE \E offer, v : Settle(d, offer, v)
        BY <4>1 DEF Settle, NoCall
      <4>2. CASE call' = [call EXCEPT ![d] = NoCall]
        BY <4>2 DEF NoCall
      <4>3. (\E offer, v : Settle(d, offer, v)) \/ call' = [call EXCEPT ![d] = NoCall]
        BY <2>4 DEF Answer, NoSemicolon, Passed, Harmless, HintOffered, NoHint, GradeFails,
           FetchAnswered, FetchFails
      <4> QED  BY <4>1, <4>2, <4>3
    <3> QED  BY <2>0, <3>1
  <2>5. ASSUME ClosePanel \/ ShowHint \/ SwitchTab \/ \E p \in Problem : StepChange(p) \/ ReEnter(p)
        PROVE  FALSE
    <3>1. call' = call \/ call' = Unmounted
      BY <2>5 DEF ClosePanel, ShowHint, SwitchTab, StepChange, ReEnter
    <3> QED  BY <2>0, <3>1 DEF Unmounted, CallType
  <2> QED  BY <2>1, <2>2, <2>3, <2>4, <2>5 DEF Next
<1> QED  BY <1>1, AlwaysInv, PTL DEF Spec, RetrySendsLatest
=============================================================================
