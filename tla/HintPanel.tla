----------------------------- MODULE HintPanel -----------------------------
(***************************************************************************)
(* The hint panel of the workspace (frontend/src/App.jsx): the student     *)
(* submits and runs queries, opens the panel, asks again and moves between *)
(* problems, while queries, /hint-request calls and hint fetches are in    *)
(* flight.  An answer is handled by the closure that sent the call, which  *)
(* remembers the problem it was made on; the state it writes is that of    *)
(* whatever problem is on screen when it arrives.                          *)
(*                                                                         *)
(* Only COURSE and ASSIGNMENT mode: in EXAM the panel is not rendered and  *)
(* no attempt asks for a hint.                                             *)
(***************************************************************************)
EXTENDS Integers, Sequences

CONSTANTS
  Problem,      \* the problems of the workspace
  Mapped,       \* those with a tutorProblemId
  Call,         \* places for asynchronous operations
  MaxAttempts,  \* bound on the attempts of a behaviour
  None

ASSUME HintPanelAssumption ==
  /\ Mapped \subseteq Problem
  /\ MaxAttempts \in Nat
  /\ None \notin Problem /\ None \notin Nat
  /\ None \notin [attempt : Nat, problem : Problem]

VARIABLES
  problem,        \* currentProblem
  made,           \* every newAttempt so far: its problem, whether it was rejected
  view,           \* the hint state that a problem change resets
  hintRequestId,  \* hintRequestIdRef: the hint on offer, or None
  lastAttempt,    \* lastAttemptRef
  isHintOpen,     \* what React believes of the popover
  shown,          \* whether the popover is on screen
  call,           \* the operations in flight
  left,           \* history: has the student left a problem with a call in flight,
  hurried         \* or submitted, run or retried with one in flight?

habits == <<left, hurried>>

vars == <<problem, made, view, hintRequestId, lastAttempt, isHintOpen, shown, call,
          habits>>

Attempt == 1 .. MaxAttempts

\* A hint is named by its attempt; 0 is the browser's own, about the semicolon.
Semicolon == 0

Hint == Attempt \cup {Semicolon}

EmptyView ==
  [hasAttempted |-> FALSE, list |-> <<>>, index |-> 0, status |-> "idle", botAlert |-> FALSE]

\* What a hint_request_id stands for: the attempt, and the problem it was
\* reported under.
HintReq == [attempt : Attempt, problem : Problem]

NoCall == [kind |-> "none", problem |-> None, attempt |-> None, retry |-> FALSE,
           mounted |-> FALSE, hintReq |-> None]

Init ==
  /\ problem \in Problem
  /\ made = <<>>
  /\ view = EmptyView
  /\ hintRequestId = None
  /\ lastAttempt = None
  /\ isHintOpen = FALSE
  /\ shown = FALSE
  /\ call = [c \in Call |-> NoCall]
  /\ left = FALSE /\ hurried = FALSE

Free(c) == call[c].kind = "none"

Executing(c) == call[c].kind \in {"submit", "run"}

InFlight(c) == ~Free(c)

\* The feedback overlay covers the page while a submission is verified.
Covered == \E c \in Call : call[c].kind = "submit"

\* The buttons of the RightPanel on screen wait for its own query.
Busy == \E c \in Call : Executing(c) /\ call[c].mounted

Quiet == \A c \in Call : Free(c)

Hurry == hurried' = (hurried \/ ~Quiet) /\ UNCHANGED left

\* Mutant: the index is taken from the list before the hint.
AddHint_OldIndex(v, hint) ==
  [v EXCEPT !.list = Append(v.list, hint), !.index = Len(v.list) - 1]

AddHint(v, hint) ==
  LET list == IF v.list # <<>> /\ v.list[Len(v.list)] = hint
                THEN v.list
                ELSE Append(v.list, hint)
  IN [v EXCEPT !.list = list, !.index = Len(list) - 1]

-----------------------------------------------------------------------------
(* Submit and Run.                                                         *)

Start(c, kind) ==
  /\ Free(c)
  /\ ~Busy /\ ~Covered
  /\ Len(made) < MaxAttempts
  /\ Hurry
  /\ call' = [call EXCEPT ![c] = [NoCall EXCEPT !.kind = kind, !.problem = problem,
                                                !.mounted = TRUE]]
  /\ UNCHANGED <<problem, made, view, hintRequestId, lastAttempt, isHintOpen, shown>>

Submit(c) == Start(c, "submit")
Run(c) == Start(c, "run")

\* Mutant: an accepted attempt is not remembered for a retry.
Mint_RejectedOnly(c, rejected) ==
  /\ made' = Append(made, [problem |-> call[c].problem, rejected |-> rejected])
  /\ lastAttempt' = IF rejected THEN Len(made) + 1 ELSE lastAttempt

\* newAttempt: the attempt belongs to the problem of the closure.
Mint(c, rejected) ==
  /\ made' = Append(made, [problem |-> call[c].problem, rejected |-> rejected])
  /\ lastAttempt' = Len(made) + 1

\* requestTutorHint: call c goes on as the /hint-request call of the attempt
\* reported under p; v is the view it starts from.
RequestTutorHint(c, attempt, p, retry, v) ==
  /\ hintRequestId' = None
  /\ IF p \in Mapped
       THEN /\ call' = [call EXCEPT ![c] = [NoCall EXCEPT !.kind = "grade", !.problem = p,
                                                     !.attempt = attempt, !.retry = retry]]
            /\ view' = v
       ELSE /\ call' = [call EXCEPT ![c] = NoCall]
            /\ view' = [v EXCEPT !.botAlert = FALSE]

\* A wrong answer, or an engine error of a Submit or of a Run.
Rejected(c) ==
  /\ Executing(c)
  /\ Len(made) < MaxAttempts
  /\ Mint(c, TRUE)
  /\ RequestTutorHint(c, Len(made) + 1, call[c].problem, FALSE,
                      [view EXCEPT !.hasAttempted = TRUE, !.status = "idle"])
  /\ UNCHANGED <<problem, isHintOpen, shown, habits>>

\* The query is right but for its semicolon: the hint is the browser's own.
NoSemicolon(c) ==
  /\ call[c].kind = "submit"
  /\ Len(made) < MaxAttempts
  /\ Mint(c, TRUE)
  /\ hintRequestId' = None
  /\ view' = [AddHint(view, Semicolon) EXCEPT
                !.hasAttempted = TRUE, !.status = "done", !.botAlert = TRUE]
  /\ call' = [call EXCEPT ![c] = NoCall]
  /\ UNCHANGED <<problem, isHintOpen, shown, habits>>

Passed(c) ==
  /\ call[c].kind = "submit"
  /\ Len(made) < MaxAttempts
  /\ Mint(c, FALSE)
  /\ view' = [view EXCEPT !.botAlert = FALSE]
  /\ call' = [call EXCEPT ![c] = NoCall]
  /\ UNCHANGED <<problem, hintRequestId, isHintOpen, shown, habits>>

\* A Run that shows rows, or either of them refused before an attempt is made.
Harmless(c) ==
  /\ Executing(c)
  /\ call' = [call EXCEPT ![c] = NoCall]
  /\ UNCHANGED <<problem, made, view, hintRequestId, lastAttempt, isHintOpen, shown, habits>>

-----------------------------------------------------------------------------
(* The answers of /hint-request and of the hint fetch.                     *)

\* A retry goes on to fetch whatever hint is on offer once its call settles.
Settle(c, offer, v) ==
  /\ hintRequestId' = offer
  /\ IF ~call[c].retry
       THEN /\ view' = v
            /\ call' = [call EXCEPT ![c] = NoCall]
     ELSE IF offer # None
       THEN /\ view' = [v EXCEPT !.status = "loading"]
            /\ call' = [call EXCEPT ![c] = [NoCall EXCEPT !.kind = "fetch", !.hintReq = offer]]
       ELSE /\ view' = [v EXCEPT !.status = "unavailable"]
            /\ call' = [call EXCEPT ![c] = NoCall]
  /\ UNCHANGED <<problem, made, lastAttempt, isHintOpen, shown, habits>>

HintOffered(c) ==
  /\ call[c].kind = "grade"
  /\ Settle(c, [attempt |-> call[c].attempt, problem |-> call[c].problem],
            [view EXCEPT !.botAlert = TRUE])

NoHint(c) ==
  /\ call[c].kind = "grade"
  /\ Settle(c, hintRequestId, [view EXCEPT !.botAlert = FALSE])

\* Mutant: an outage is retried at once, for ever.
GradeFails_Loops(c) ==
  /\ call[c].kind = "grade"
  /\ view' = [view EXCEPT !.botAlert = ~view.botAlert]
  /\ UNCHANGED <<problem, made, hintRequestId, lastAttempt, isHintOpen, shown, call, habits>>

\* The backend is unreachable or slower than 15 s.
GradeFails(c) ==
  /\ call[c].kind = "grade"
  /\ Settle(c, hintRequestId, [view EXCEPT !.botAlert = TRUE, !.status = "unavailable"])

FetchAnswered(c) ==
  /\ call[c].kind = "fetch"
  /\ view' = [AddHint(view, call[c].hintReq.attempt) EXCEPT !.status = "done"]
  /\ call' = [call EXCEPT ![c] = NoCall]
  /\ UNCHANGED <<problem, made, hintRequestId, lastAttempt, isHintOpen, shown, habits>>

\* Mutant: a failed fetch is swallowed.
FetchFails_Silent(c) ==
  /\ call[c].kind = "fetch"
  /\ call' = [call EXCEPT ![c] = NoCall]
  /\ UNCHANGED <<problem, made, view, hintRequestId, lastAttempt, isHintOpen, shown, habits>>

FetchFails(c) ==
  /\ call[c].kind = "fetch"
  /\ view' = [view EXCEPT !.status = "unavailable"]
  /\ call' = [call EXCEPT ![c] = NoCall]
  /\ UNCHANGED <<problem, made, hintRequestId, lastAttempt, isHintOpen, shown, habits>>

-----------------------------------------------------------------------------
(* The panel.                                                              *)

\* Call c fetches the hint on offer.
Fetch(c, v) ==
  /\ Free(c)
  /\ view' = [v EXCEPT !.status = "loading"]
  /\ call' = [call EXCEPT ![c] = [NoCall EXCEPT !.kind = "fetch", !.hintReq = hintRequestId]]

\* handleOpenHintPanel has something to do.
Askable ==
  /\ problem \in Mapped
  /\ view.hasAttempted
  /\ view.status \notin {"loading", "done"}

\* The button opens the panel, which fetches the hint on offer.
OpenPanel(c) ==
  /\ ~isHintOpen
  /\ isHintOpen' = TRUE
  /\ shown' = TRUE
  /\ LET v == [view EXCEPT !.botAlert = FALSE] IN
       \/ ~Askable /\ view' = v /\ UNCHANGED call
       \/ /\ Askable /\ hintRequestId = None
          /\ view' = [v EXCEPT !.status = "unavailable"]
          /\ UNCHANGED call
       \/ Askable /\ hintRequestId # None /\ Fetch(c, v)
  /\ UNCHANGED <<problem, made, hintRequestId, lastAttempt, habits>>

\* The button, the cross, Esc, or a click outside.
ClosePanel ==
  /\ isHintOpen
  /\ isHintOpen' = FALSE
  /\ shown' = FALSE
  /\ \E botAlert \in {view.botAlert, FALSE} : view' = [view EXCEPT !.botAlert = botAlert]
  /\ UNCHANGED <<problem, made, hintRequestId, lastAttempt, call, habits>>

\* "Try again".
TryAgain(c) ==
  /\ shown
  /\ Free(c)
  /\ Hurry
  /\ problem \in Mapped
  /\ view.hasAttempted
  /\ view.status = "unavailable"
  /\ LET v == [view EXCEPT !.status = "idle"] IN
       \/ /\ hintRequestId # None
          /\ Fetch(c, v)
          /\ UNCHANGED hintRequestId
       \/ /\ hintRequestId = None /\ lastAttempt # None
          /\ RequestTutorHint(c, lastAttempt, problem, TRUE, v)
  /\ UNCHANGED <<problem, made, lastAttempt, isHintOpen, shown>>

\* The arrows.
ShowHint ==
  /\ shown
  /\ view.hasAttempted
  /\ view.status \notin {"loading", "unavailable"}
  /\ \E i \in {view.index - 1, view.index + 1} :
       /\ 0 <= i /\ i < Len(view.list)
       /\ view' = [view EXCEPT !.index = i]
  /\ UNCHANGED <<problem, made, hintRequestId, lastAttempt, isHintOpen, shown, call, habits>>

-----------------------------------------------------------------------------
(* Moving between problems.                                                *)

Leave == left' = (left \/ ~Quiet) /\ UNCHANGED hurried

\* Mutant: the hint on offer is not reset.
ResetHint_KeepsOffer ==
  /\ view' = EmptyView
  /\ UNCHANGED <<made, hintRequestId, lastAttempt, isHintOpen>>

\* The problem-change effect; the calls in flight and lastAttemptRef stay.
ResetHint ==
  /\ view' = EmptyView
  /\ hintRequestId' = None
  /\ UNCHANGED <<made, lastAttempt, isHintOpen>>

StepChange(p) ==
  /\ p # problem
  /\ ~Covered
  /\ Leave
  /\ problem' = p
  /\ ResetHint
  /\ UNCHANGED <<shown, call>>

\* The RightPanel goes off screen; its query goes on.
Unmounted == [c \in Call |-> [call[c] EXCEPT !.mounted = FALSE]]

\* The student leaves the workspace, by a link or the browser's history, and
\* comes back, to any problem.  The popover goes with the page, silently.
ReEnter(p) ==
  /\ Leave
  /\ problem' = p
  /\ ResetHint
  /\ shown' = FALSE
  /\ call' = Unmounted

\* The Submissions tab and back.
SwitchTab ==
  /\ ~Covered
  /\ Busy
  /\ call' = Unmounted
  /\ UNCHANGED <<problem, made, view, hintRequestId, lastAttempt, isHintOpen, shown, habits>>

-----------------------------------------------------------------------------
Answer(c) ==
  \/ Rejected(c) \/ NoSemicolon(c) \/ Passed(c) \/ Harmless(c)
  \/ HintOffered(c) \/ NoHint(c) \/ GradeFails(c)
  \/ FetchAnswered(c) \/ FetchFails(c)

Next ==
  \/ \E c \in Call : Submit(c) \/ Run(c) \/ Answer(c) \/ OpenPanel(c) \/ TryAgain(c)
  \/ ClosePanel \/ ShowHint \/ SwitchTab
  \/ \E p \in Problem : StepChange(p) \/ ReEnter(p)

Spec == Init /\ [][Next]_vars

\* Queries and calls are bounded by their timeouts (db-manager.js, api.js).
\* Nothing is assumed of the student.
FairSpec == Spec /\ \A c \in Call : WF_vars(Answer(c))

-----------------------------------------------------------------------------
(* Properties.                                                             *)

ViewType ==
  [hasAttempted : BOOLEAN, list : Seq(Hint), index : Nat,
   status : {"idle", "loading", "done", "unavailable"}, botAlert : BOOLEAN]

CallType ==
  [kind : {"none", "submit", "run", "grade", "fetch"}, problem : Problem \cup {None},
   attempt : Attempt \cup {None}, retry : BOOLEAN, mounted : BOOLEAN,
   hintReq : HintReq \cup {None}]

TypeOK ==
  /\ problem \in Problem
  /\ made \in Seq([problem : Problem, rejected : BOOLEAN]) /\ Len(made) <= MaxAttempts
  /\ view \in ViewType
  /\ hintRequestId \in HintReq \cup {None}
  /\ lastAttempt \in Attempt \cup {None}
  /\ isHintOpen \in BOOLEAN /\ shown \in BOOLEAN
  /\ call \in [Call -> CallType]
  /\ left \in BOOLEAN /\ hurried \in BOOLEAN

\* In whatever order answers arrive, "AI Tutor is thinking" is on screen only
\* while a hint is being fetched, a panel that says it is done has a hint, and
\* the arrows point at a hint that exists; and the dot stands for something
\* the panel can show or is still waiting for: a hint on offer, one in the
\* history, an outage to retry, a call in flight (App.jsx:238-260, 595-638).
PanelTellsTheTruth ==
  /\ view.status = "loading" => \E c \in Call : call[c].kind = "fetch"
  /\ view.status = "done" => view.list # <<>>
  /\ view.list # <<>> => view.index < Len(view.list)
  /\ isHintOpen \/ ~shown
  /\ view.botAlert => \/ hintRequestId # None
                      \/ view.list # <<>>
                      \/ view.status = "unavailable"
                      \/ \E c \in Call : call[c].kind = "grade"

\* The hints in the panel, and the one on offer, are for attempts on the
\* problem on screen.  App.jsx:349 says "Leaving this problem invalidates any
\* hint context for it"; a call in flight then brings its answer to the next.
HintsOfThisProblem ==
  /\ \A i \in 1 .. Len(view.list) :
       view.list[i] # Semicolon => made[view.list[i]].problem = problem
  /\ hintRequestId # None => made[hintRequestId.attempt].problem = problem

\* Every /hint-request call reports its attempt under the problem the attempt
\* was made on.  App.jsx:549-550 "Which problem an attempt belongs to".
ReportsOwnProblem ==
  \A c \in Call : call[c].kind = "grade" => call[c].problem = made[call[c].attempt].problem

\* The hint on offer is that of the newest rejected attempt, or of a later one
\* that the browser accepted: App.jsx:462 "a fresh failed attempt earns its own
\* hint".
NotBeforeRejected(attempt) == \A i \in 1 .. Len(made) : made[i].rejected => i <= attempt
OfferIsNewest == hintRequestId # None => NotBeforeRejected(hintRequestId.attempt)

\* A student who does not leave a problem with a call in flight sees hints of
\* the problem on screen only, and each attempt is reported under its own
\* problem; one who waits for the answers to an attempt before the next is
\* never offered a hint for an older one (App.jsx:347-357, 450-470, 549-593).
StayingSeesItsOwn ==
  /\ ~left => HintsOfThisProblem /\ ReportsOwnProblem
  /\ ~hurried => OfferIsNewest

\* A Retry only ever re-sends the student's latest attempt
\* (submissions.py:128-129): no step re-sends an older one.
RetrySendsLatest ==
  [][\A c \in Call : call'[c].kind = "grade" /\ call'[c].retry /\ call[c].kind # "grade"
       => call'[c].attempt = Len(made)]_vars

\* A hint that is being fetched arrives or is given up, so the panel never
\* thinks forever, and "Try again" gets somewhere: the retried call ends
\* (App.jsx:602-638; api.js:51-53).
CallsEnd ==
  /\ view.status = "loading" ~> view.status # "loading"
  /\ \A c \in Call : (call[c].kind = "grade" /\ call[c].retry) ~> call[c].kind # "grade"
=============================================================================
