----------------------------- MODULE AttemptLog -----------------------------
(***************************************************************************)
(* The attempt log of the backend: the three handlers of                   *)
(* backend/app/api/submissions.py that write, their database transactions, *)
(* and the tutor service they call.                                        *)
(*                                                                         *)
(* The handlers are coroutines of one event loop, each with a database     *)
(* session of its own (READ COMMITTED), so two requests interleave at      *)
(* every await.  One action below is the code between two awaits.  A row   *)
(* is visible to the other requests from the COMMIT on.                    *)
(*                                                                         *)
(*   request q     idle -> grading -> lookup -> count -> insert -> commit  *)
(*                      -> done | failed                                   *)
(*   hint fetch f  idle -> asking -> answered -> loaded -> done | failed   *)
(*                                                                         *)
(* The row a request inserts is indexed by that request: a request inserts *)
(* at most one row of submission_logs and at most one of hint_requests.    *)
(***************************************************************************)
EXTENDS Integers, FiniteSets

CONSTANTS
  Request,       \* POST /hint-request and POST /log calls that reach the backend
  Fetch,         \* POST /hint-request/{id}/hint calls that reach the backend
  Attempt,       \* Submits and errored Runs, one per App.jsx::newAttempt
  User,          \* students
  Group,         \* (client_problem_id, workspace_mode) pairs
  TutorProblem,  \* tutor_problem_id
  Place,         \* problems as a report names them: tutor problem and group
  Query,         \* query texts
  Payload,       \* Attempt -> what its reports carry
  TutorOutcome,  \* what the tutor may rule: a verdict and whether it offers a hint
  Overlap,       \* may a student's request arrive while an earlier one is handled?
  None

Verdict == {"pass", "fail", "ungradable"}

PayloadType ==
  [user : User,
   place : Place,        \* the problem it was made on, as its first report names it
   query : Query,
   number : Nat \ {0},   \* the browser's own count
   hasId : BOOLEAN,      \* sends a client_attempt_id; older clients do not
   exam : BOOLEAN,       \* made in EXAM mode
   hintable : BOOLEAN]   \* wrong or errored, and not the local semicolon rule

ASSUME ConstantsAssumption ==
  /\ Place \subseteq [tutorProblem : TutorProblem \cup {None}, group : Group \cup {None}]
  /\ Payload \in [Attempt -> PayloadType]
  /\ TutorOutcome \subseteq [verdict : Verdict, hint : BOOLEAN]
  /\ Overlap \in BOOLEAN
  /\ IsFiniteSet(Request)

VARIABLES
  sent,      \* attempts whose first report has been sent
  req,       \* state of each request: its handler's locals and program counter
  fetch,     \* state of each hint fetch
  logs,      \* submission_logs, committed: the row inserted by each request, or None
  hintReqs,  \* hint_requests, committed: the row inserted by each request, or None
  lastId,    \* the id sequence of submission_logs
  graded,    \* the tutor: its ruling on each client_submission_id, or None
  hinted     \* the tutor: submission ids whose hint text was generated

vars == <<sent, req, fetch, logs, hintReqs, lastId, graded, hinted>>

-----------------------------------------------------------------------------
(* What the browser sends.                                                 *)

\* client_submission_id, the tutor's idempotency key, of an attempt reported
\* under a problem.
SubmissionKey(a, p) ==
  LET sender == Payload[a] IN
  IF sender.hasId THEN <<sender.user, a>>
                  ELSE <<sender.user, p.tutorProblem, sender.number>>

Key == {SubmissionKey(a, p) : a \in Attempt, p \in Place}

\* The key of an attempt's first report; a current client has no other.
OwnKey(a) == SubmissionKey(a, Payload[a].place)

Mapped(p) == p.tutorProblem # None

\* Mutant: the EXAM check is forgotten.
Route_ExamToo(a) ==
  IF Mapped(Payload[a].place) /\ Payload[a].hintable THEN "hint" ELSE "log"

\* App.jsx sends an attempt to /hint-request when it failed outside EXAM on a
\* mapped problem, and to /log otherwise.
Route(a) ==
  IF Mapped(Payload[a].place) /\ Payload[a].hintable /\ ~Payload[a].exam
    THEN "hint"
    ELSE "log"

-----------------------------------------------------------------------------
(* The tables.                                                             *)

\* What the tutor ruled, and of which of its problems.
Ruling == [verdict : Verdict, hint : BOOLEAN, of : TutorProblem]

Row == [attempt : Attempt, place : Place, id : Nat \ {0}, number : Nat \ {0},
        verdict : Verdict \cup {None},
        hint    : Key \cup {None},              \* whose hint text was stored last
        source  : {"generated", "cached", None}]

HintRow == [log : Request, token : Key, tutorProblem : TutorProblem]

\* A row as an instructor or a student sees it.
LedgerEntry == [attempt : Attempt, verdict : Verdict \cup {None}, hint : BOOLEAN]

ASSUME NoneAssumption ==
  /\ None \notin Request \cup Attempt \cup Place \cup Ruling
  /\ None \notin Verdict \cup {"generated", "cached", "hint", "log"}
  /\ None \notin Key
  /\ None \notin Row
  /\ None \notin HintRow
  /\ None \notin LedgerEntry

Logged(q) == logs[q] # None

\* The rows of a's student, filed under p's problem and mode.
CountedWith(a, p) ==
  {q \in Request : /\ Logged(q)
                   /\ Payload[logs[q].attempt].user = Payload[a].user
                   /\ logs[q].place.group = p.group}

\* Mutants: numbers from 0; numbers from the id sequence.
NextAttemptNumber_FromZero(a, p) ==
  IF p.group = None THEN Payload[a].number ELSE Cardinality(CountedWith(a, p))

NextAttemptNumber_FromIds(a, p) ==
  IF p.group = None THEN Payload[a].number ELSE lastId + 1

NextAttemptNumber(a, p) ==
  IF p.group = None THEN Payload[a].number
                    ELSE Cardinality(CountedWith(a, p)) + 1

\* Mutants: any row of the problem is taken; a row that has its verdict is not.
SameAttempt_SameProblem(a, p) ==
  {q \in Request :
     /\ Logged(q)
     /\ Payload[logs[q].attempt].user = Payload[a].user
     /\ logs[q].place.tutorProblem = p.tutorProblem}

SameAttempt_Ungraded(a, p) ==
  {q \in Request : Logged(q) /\ logs[q].attempt = a /\ logs[q].verdict = None}

\* The rows a retry of attempt a, sent under p, takes for a's own.
SameAttempt(a, p) ==
  {q \in Request :
     /\ Logged(q)
     /\ LET b == logs[q].attempt IN
          /\ Payload[b].user = Payload[a].user
          /\ IF Payload[a].hasId
               THEN Payload[b].hasId /\ b = a
               ELSE /\ logs[q].place.tutorProblem = p.tutorProblem
                    /\ Payload[b].query = Payload[a].query}

\* ORDER BY id DESC LIMIT 1.
IsNewest(q, S) == q \in S /\ \A p \in S : logs[p].id <= logs[q].id

\* The session writes a column only when it differs from the copy it loaded.
Stored(current, loaded, new) == IF new = loaded THEN current ELSE new

\* Mutants: no answer stores the browser's own verdict; no answer stores none.
ApplyTutorVerdict_Claimed(row, loaded, resp) ==
  [row EXCEPT !.verdict = Stored(@, loaded, IF resp = None THEN "fail" ELSE resp.verdict)]

ApplyTutorVerdict_Erased(row, loaded, resp) ==
  [row EXCEPT !.verdict = Stored(@, loaded, IF resp = None THEN None ELSE resp.verdict)]

\* The tutor's ruling replaces the row's verdict; no answer leaves it alone.
ApplyTutorVerdict(row, loaded, resp) ==
  IF resp = None THEN row
                 ELSE [row EXCEPT !.verdict = Stored(@, loaded, resp.verdict)]

-----------------------------------------------------------------------------
IdleReq == [pc |-> "idle", attempt |-> None, place |-> None, kind |-> None,
            retry |-> FALSE, resp |-> None, target |-> None, loaded |-> None,
            number |-> 0, id |-> 0]

IdleFetch == [pc |-> "idle", hintReq |-> None, resp |-> None,
              loadedHint |-> None, loadedSource |-> None]

Init ==
  /\ sent = {}
  /\ req = [q \in Request |-> IdleReq]
  /\ fetch = [f \in Fetch |-> IdleFetch]
  /\ logs = [q \in Request |-> None]
  /\ hintReqs = [q \in Request |-> None]
  /\ lastId = 0
  /\ graded = [k \in Key |-> None]
  /\ hinted = {}

InFlight(q) == req[q].pc \in {"grading", "lookup", "count", "insert", "commit"}

MaySend(a) ==
  \/ Overlap
  \/ \A p \in Request : InFlight(p) => Payload[req[p].attempt].user # Payload[a].user

\* The handler is entered and, on a mapped problem, calls the tutor's /grade.
Entered(a, p, kind, retry) ==
  [pc |-> IF Mapped(p) THEN "grading" ELSE "count",
   attempt |-> a, place |-> p, kind |-> kind, retry |-> retry,
   resp |-> None, target |-> None, loaded |-> None, number |-> 0, id |-> 0]

\* Request q reports attempt a under problem p.
Receive(q, a, p, kind, retry) ==
  /\ req[q].pc = "idle"
  /\ MaySend(a)
  /\ req' = [req EXCEPT ![q] = Entered(a, p, kind, retry)]

\* The first report of an attempt.
Report(q, a) ==
  /\ a \notin sent
  /\ sent' = sent \cup {a}
  /\ Receive(q, a, Payload[a].place, Route(a), FALSE)
  /\ UNCHANGED <<fetch, logs, hintReqs, lastId, graded, hinted>>

\* The student presses "Try again".  The first report may still be in flight:
\* the browser gave up on it after 15 s, or the panel was opened before it was
\* answered.  The browser sends the last attempt under the problem now on
\* screen, any one with a tutor mapping: when the attempt was rejected late,
\* that need not be the problem it was made on (App.jsx:569, 577, 621-623).
\* Nothing asks whether the attempt was an EXAM's: the panel is hidden by this
\* tab's mode, an attempt's mode is read from localStorage (411, 749).
Retry(q, a, p) ==
  /\ a \in sent
  /\ Mapped(p)
  /\ Receive(q, a, p, "hint", TRUE)
  /\ UNCHANGED <<sent, fetch, logs, hintReqs, lastId, graded, hinted>>

-----------------------------------------------------------------------------
(* The tutor's side of /grade.                                             *)

\* The submission id under which request q asks the tutor.
KeyOf(q) == SubmissionKey(req[q].attempt, req[q].place)

\* The tutor grades the call of request q, possibly long after the backend
\* stopped waiting.  A submission id it knows is replayed, not graded again,
\* under whatever problem it comes.
TutorGrades(q) ==
  /\ req[q].pc # "idle"
  /\ Mapped(req[q].place)
  /\ graded[KeyOf(q)] = None
  /\ \E o \in TutorOutcome :
       graded' = [graded EXCEPT ![KeyOf(q)] =
                    [verdict |-> o.verdict, hint |-> o.hint,
                     of |-> req[q].place.tutorProblem]]
  /\ UNCHANGED <<sent, req, fetch, logs, hintReqs, lastId, hinted>>

AfterGrade(r) == IF r.retry THEN "lookup" ELSE "count"

GradeAnswered(q) ==
  /\ req[q].pc = "grading"
  /\ graded[KeyOf(q)] # None
  /\ req' = [req EXCEPT ![q].resp = graded[KeyOf(q)],
                        ![q].pc = AfterGrade(req[q])]
  /\ UNCHANGED <<sent, fetch, logs, hintReqs, lastId, graded, hinted>>

\* Mutant: the call to the tutor has no timeout, so only an answer ends it.
GradeUnanswered_NoTimeout(q) ==
  /\ req[q].pc = "grading"
  /\ graded[KeyOf(q)] # None
  /\ req' = [req EXCEPT ![q].pc = AfterGrade(req[q])]
  /\ UNCHANGED <<sent, fetch, logs, hintReqs, lastId, graded, hinted>>

\* Timeout, connection failure, 4xx/5xx: tutor_client.grade returns None,
\* whether or not the tutor has graded the call.
GradeUnanswered(q) ==
  /\ req[q].pc = "grading"
  /\ req' = [req EXCEPT ![q].pc = AfterGrade(req[q])]
  /\ UNCHANGED <<sent, fetch, logs, hintReqs, lastId, graded, hinted>>

-----------------------------------------------------------------------------
(* The rest of request_hint and log_submission.                            *)

\* Retry only: load the attempt's newest row, if it has one.
LookUp(q) ==
  /\ req[q].pc = "lookup"
  /\ LET mine == SameAttempt(req[q].attempt, req[q].place) IN
       \/ /\ mine = {}
          /\ req' = [req EXCEPT ![q].pc = "count"]
       \/ \E t \in mine :
            /\ IsNewest(t, mine)
            /\ req' = [req EXCEPT ![q].target = t, ![q].loaded = logs[t].verdict,
                                  ![q].pc = "commit"]
  /\ UNCHANGED <<sent, fetch, logs, hintReqs, lastId, graded, hinted>>

Count(q) ==
  /\ req[q].pc = "count"
  /\ req' = [req EXCEPT ![q].number = NextAttemptNumber(req[q].attempt, req[q].place),
                        ![q].pc = "insert"]
  /\ UNCHANGED <<sent, fetch, logs, hintReqs, lastId, graded, hinted>>

\* flush: the INSERT takes the next id; nobody else sees the row yet.
Insert(q) ==
  /\ req[q].pc = "insert"
  /\ lastId' = lastId + 1
  /\ req' = [req EXCEPT ![q].id = lastId + 1, ![q].pc = "commit"]
  /\ UNCHANGED <<sent, fetch, logs, hintReqs, graded, hinted>>

NewRow(r) ==
  [attempt |-> r.attempt, place |-> r.place, id |-> r.id, number |-> r.number,
   verdict |-> None, hint |-> None, source |-> None]

\* Only /hint-request keeps a token, and only when the tutor offers a hint.
OffersHint(r) == r.kind = "hint" /\ r.resp # None /\ r.resp.hint

\* The row the transaction writes: the one it inserted, or the one it found.
WrittenRow(q) == IF req[q].target = None THEN q ELSE req[q].target

CommitLog(q) ==
  /\ req[q].pc = "commit"
  /\ LET w == WrittenRow(q)
         row == IF req[q].target = None THEN NewRow(req[q]) ELSE logs[w]
     IN logs' = [logs EXCEPT ![w] = ApplyTutorVerdict(row, req[q].loaded, req[q].resp)]
  /\ hintReqs' = IF OffersHint(req[q])
                   THEN [hintReqs EXCEPT ![q] =
                           [log |-> WrittenRow(q), token |-> KeyOf(q),
                            tutorProblem |-> req[q].place.tutorProblem]]
                   ELSE hintReqs
  /\ req' = [req EXCEPT ![q].pc = "done"]
  /\ UNCHANGED <<sent, fetch, lastId, graded, hinted>>

\* An exception or the death of the process: the transaction is rolled back.
RequestFails(q) ==
  /\ InFlight(q)
  /\ req' = [req EXCEPT ![q].pc = "failed"]
  /\ UNCHANGED <<sent, fetch, logs, hintReqs, lastId, graded, hinted>>

-----------------------------------------------------------------------------
(* get_client_hint.  A call for an id that does not exist or belongs to    *)
(* another student is refused with 404 and changes nothing.                *)

AskHint(f, h) ==
  /\ fetch[f].pc = "idle"
  /\ hintReqs[h] # None
  /\ fetch' = [fetch EXCEPT ![f].pc = "asking", ![f].hintReq = h]
  /\ UNCHANGED <<sent, req, logs, hintReqs, lastId, graded, hinted>>

\* The tutor generates a token's hint once, and answers from its cache after.
TutorHints(f) ==
  /\ fetch[f].pc = "asking"
  /\ LET token == hintReqs[fetch[f].hintReq].token IN
       /\ fetch' = [fetch EXCEPT ![f].pc = "answered",
                      ![f].resp = IF token \in hinted THEN "cached" ELSE "generated"]
       /\ hinted' = hinted \cup {token}
  /\ UNCHANGED <<sent, req, logs, hintReqs, lastId, graded>>

\* The tutor is down, or its answer comes too late (503), or the handler dies.
FetchFails(f) ==
  /\ fetch[f].pc \in {"asking", "answered", "loaded"}
  /\ fetch' = [fetch EXCEPT ![f].pc = "failed"]
  /\ UNCHANGED <<sent, req, logs, hintReqs, lastId, graded, hinted>>

FetchedRow(f) == hintReqs[fetch[f].hintReq].log

\* db.get: the handler's copy of the row.
LoadRow(f) ==
  /\ fetch[f].pc = "answered"
  /\ fetch' = [fetch EXCEPT ![f].pc = "loaded",
                            ![f].loadedHint = logs[FetchedRow(f)].hint,
                            ![f].loadedSource = logs[FetchedRow(f)].source]
  /\ UNCHANGED <<sent, req, logs, hintReqs, lastId, graded, hinted>>

\* Mutant: "cached" is never recorded.
RecordedSource_Generated(current, loaded, resp) ==
  IF resp # "cached" THEN Stored(current, loaded, resp) ELSE current

\* "cached" replaces the source of the copy only when that is empty.
RecordedSource(current, loaded, resp) ==
  IF resp # "cached" \/ loaded = None THEN Stored(current, loaded, resp) ELSE current

\* The row once the answer of fetch state r, for the hint of token, is stored.
RecordHint(row, r, token) ==
  [row EXCEPT !.hint = Stored(@, r.loadedHint, token),
              !.source = RecordedSource(@, r.loadedSource, r.resp)]

CommitHint(f) ==
  /\ fetch[f].pc = "loaded"
  /\ logs' = [logs EXCEPT ![FetchedRow(f)] =
                RecordHint(@, fetch[f], hintReqs[fetch[f].hintReq].token)]
  /\ fetch' = [fetch EXCEPT ![f].pc = "done"]
  /\ UNCHANGED <<sent, req, hintReqs, lastId, graded, hinted>>

-----------------------------------------------------------------------------
RequestStep(q) ==
  \/ GradeAnswered(q) \/ GradeUnanswered(q)
  \/ LookUp(q) \/ Count(q) \/ Insert(q) \/ CommitLog(q)

FetchStep(f) == TutorHints(f) \/ LoadRow(f) \/ CommitHint(f)

Next ==
  \/ \E q \in Request, a \in Attempt : Report(q, a)
  \/ \E q \in Request, a \in Attempt, p \in Place : Retry(q, a, p)
  \/ \E q \in Request : TutorGrades(q) \/ RequestStep(q) \/ RequestFails(q)
  \/ \E f \in Fetch, h \in Request : AskHint(f, h)
  \/ \E f \in Fetch : FetchStep(f) \/ FetchFails(f)

Spec == Init /\ [][Next]_vars

\* The event loop runs every handler, and httpx bounds each wait for the tutor.
\* Nothing is assumed of students, of the tutor, or of failures.
FairSpec ==
  /\ Spec
  /\ \A q \in Request : WF_vars(RequestStep(q))
  /\ \A f \in Fetch : WF_vars(FetchStep(f) \/ FetchFails(f))

-----------------------------------------------------------------------------
(* Type invariant and safety properties.                                   *)

Request_pc == {"idle", "grading", "lookup", "count", "insert", "commit", "done", "failed"}

Fetch_pc == {"idle", "asking", "answered", "loaded", "done", "failed"}

ReqState ==
  [pc : Request_pc, attempt : Attempt \cup {None}, place : Place \cup {None},
   kind : {"hint", "log", None}, retry : BOOLEAN, resp : Ruling \cup {None}, target : Request \cup {None},
   loaded : Verdict \cup {None}, number : Nat, id : Nat]

FetchState ==
  [pc : Fetch_pc, hintReq : Request \cup {None},
   resp : {"generated", "cached", None}, loadedHint : Key \cup {None},
   loadedSource : {"generated", "cached", None}]

TypeOK ==
  /\ sent \subseteq Attempt
  /\ req \in [Request -> ReqState]
  /\ fetch \in [Fetch -> FetchState]
  /\ logs \in [Request -> Row \cup {None}]
  /\ hintReqs \in [Request -> HintRow \cup {None}]
  /\ lastId \in Nat
  /\ graded \in [Key -> Ruling \cup {None}]
  /\ hinted \subseteq Key

\* All students use the current frontend, which mints a client_attempt_id.
AllCurrent == \A a \in Attempt : Payload[a].hasId

\* A report of the attempt was sent under another tutor problem than its own.
Strayed(a) ==
  \E q \in Request : /\ req[q].attempt = a
                     /\ req[q].place.tutorProblem # Payload[a].place.tutorProblem

\* The student pressed "Try again" for the attempt.
Asked(a) == \E q \in Request : req[q].attempt = a /\ req[q].retry

\* A hint_requests row always points at a committed submission_logs row of the
\* same student and query, for a current client that of the very attempt, and
\* both name one tutor problem unless a retry strayed (submissions.py:123-138,
\* 159-167: the log row is flushed first and both commit together;
\* models/submission.py:132-135).  For an EXAM attempt none is made but by a
\* retry.
HintRequestOwnsRow ==
  \A q \in Request : hintReqs[q] # None =>
    /\ Logged(hintReqs[q].log)
    /\ LET a == req[q].attempt
           row == logs[hintReqs[q].log]
       IN /\ Payload[row.attempt].user = Payload[a].user
          /\ Payload[row.attempt].query = Payload[a].query
          /\ Payload[a].hasId => row.attempt = a
          /\ \/ hintReqs[q].tutorProblem = row.place.tutorProblem
             \/ Payload[a].hasId /\ Strayed(a)
          /\ ~Payload[a].exam \/ req[q].retry

\* A row's verdict is the tutor's ruling on that row's own attempt: never the
\* browser's claim, never another attempt's, whatever retries and late answers
\* did in between; and it was ruled of the problem the row names, unless a
\* retry strayed (submissions.py:60-88; models/submission.py:51-55).
VerdictIsTutors ==
  AllCurrent => \A q \in Request :
    Logged(q) /\ logs[q].verdict # None =>
      LET ruling == graded[OwnKey(logs[q].attempt)] IN
        /\ ruling # None
        /\ ruling.verdict = logs[q].verdict
        /\ ruling.of = logs[q].place.tutorProblem \/ Strayed(logs[q].attempt)

\* The hint text on a row is that of the row's own attempt, an attempt the
\* tutor offered a hint for, and for an EXAM attempt only after a retry; a
\* source is recorded with it (submissions.py:226-236).
HintIsOwn ==
  AllCurrent => \A q \in Request : Logged(q) =>
    /\ logs[q].hint # None =>
         LET a == logs[q].attempt IN
           /\ logs[q].hint = OwnKey(a)
           /\ graded[OwnKey(a)] # None
           /\ graded[OwnKey(a)].hint
           /\ ~Payload[a].exam \/ Asked(a)
    /\ logs[q].hint = None <=> logs[q].source = None

\* An attempt number never runs ahead of the rows it counts: even when the
\* counts of concurrent requests are stale, no row has a number greater than
\* the student's rows filed under its problem and mode (submissions.py:26-41).
NumberWithinCount ==
  \A q \in Request :
    Logged(q) /\ logs[q].place.group # None =>
      logs[q].number <= Cardinality(CountedWith(logs[q].attempt, logs[q].place))

\* One row is logged per attempt.
OneRowPerAttempt ==
  AllCurrent => \A p, q \in Request :
    Logged(p) /\ Logged(q) /\ logs[p].attempt = logs[q].attempt => p = q

\* The rows of p's student, problem and mode up to p, in id order.
UpTo(p) ==
  {q \in CountedWith(logs[p].attempt, logs[p].place) : logs[q].id <= logs[p].id}

\* When a student's requests do not overlap at the backend, one row is logged
\* per attempt, a retry filling in its row (schemas/submission.py:48-51), and a
\* row's number is its place among the student's rows filed under that problem
\* and mode (models/submission.py:79-81).
SerialLogExact ==
  ~Overlap =>
    /\ OneRowPerAttempt
    /\ \A p \in Request :
         Logged(p) /\ logs[p].place.group # None =>
           logs[p].number = Cardinality(UpTo(p))

\* The first claim as the repository states it, of every request order:
\* models/submission.py:48 "One row per client-graded attempt".
EveryAttemptLoggedOnce == OneRowPerAttempt

-----------------------------------------------------------------------------
(* Action and liveness properties.                                         *)

\* Once a row has the tutor's verdict it keeps it: no later retry, answered,
\* unanswered or failed, erases or changes it; and no step rewrites what a row
\* was inserted with or removes a row (submissions.py:80-88, 153).
RowKept(q) ==
  Logged(q) =>
    /\ logs'[q] # None
    /\ logs'[q].attempt = logs[q].attempt
    /\ logs'[q].place = logs[q].place
    /\ logs'[q].number = logs[q].number
    /\ logs'[q].id = logs[q].id
    /\ AllCurrent /\ logs[q].verdict # None => logs'[q].verdict = logs[q].verdict
    /\ logs[q].hint # None => logs'[q].hint # None

RowsKept == [][\A q \in Request : RowKept(q)]_vars

\* Every reported attempt is logged unless a request for it fails: a slow or
\* dead tutor never keeps a row from being written (submissions.py:116-119).
ReportedIsLogged ==
  \A a \in Attempt :
    a \in sent ~> \/ \E q \in Request : Logged(q) /\ logs[q].attempt = a
                  \/ \E q \in Request : req[q].attempt = a /\ req[q].pc = "failed"

-----------------------------------------------------------------------------
(* The log seen as the ledger of AttemptLedger: a row without its number,  *)
(* its id and where its hint came from.                                    *)

LedgerRow(q) ==
  IF logs[q] = None
    THEN None
    ELSE [attempt |-> logs[q].attempt, verdict |-> logs[q].verdict,
          hint |-> logs[q].hint # None]

Offered == {hintReqs[q].log : q \in {p \in Request : hintReqs[p] # None}}

Ledger == INSTANCE AttemptLedger
  WITH Slot <- Request,
       ruling <- [a \in Attempt |-> graded[OwnKey(a)]],
       rows <- [q \in Request |-> LedgerRow(q)],
       offered <- Offered

\* Requests that time out, retry, race and die, and a tutor that answers late
\* or never, together behave as the ledger (submissions.py:110-237): each
\* commit adds one row, fills in an empty verdict or shows an offered hint.
ImplementsLedger == Ledger!Spec
=============================================================================
