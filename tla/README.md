# ITS-SQL: formal models

ITS-SQL is a tutoring system for SQL. Students write queries in the browser,
which runs them on DuckDB-WASM and grades them there; a FastAPI backend logs the
attempts and talks to a separate tutor service that rules on an attempt and
offers hints; instructors keep problems and exam schedules, and watch their
class. These TLA+ modules model the parts whose correctness depends on the order
of events: two requests of one student at the backend, a late answer on a page
that has moved on, one database connection shared by everything on screen, a
session that ends while calls are in flight, two tabs on one localStorage, an exam
that closes while it is taken; and the pure part that everything rests on, the
comparison of two results. TLC checks small instances, liveness among
them; TLAPS proves the safety properties for every instance.

    tlc -workers 2 -config MCAttemptLog_races.cfg MCAttemptLog
    tlapm WorkspaceProofs.tla

`PROJECT.json` lists the runs, the source lines behind every definition (`map`),
a mutation of the code that breaks each checked property (`mutants`), what the
code does otherwise than it says (`findings`), and every spot of the code that is
hard to test (`hazards`). Paths below are relative to `src/`.

## 1. The system

| Part | State it keeps | Operations | What is hard | What makes it correct |
|---|---|---|---|---|
| **Attempt log** `backend/app/api/submissions.py`, `models/submission.py`, `services/tutor_client.py` | tables `submission_logs`, `hint_requests`; the tutor's rulings | `request_hint`, `log_submission`, `get_client_hint` (and read-only listings) | coroutines interleave at every `await`; a Retry overtakes the request it retries; the tutor is late, silent or down; a handler dies | a row's verdict and hint are the tutor's, of that very attempt; every attempt is logged, once, with its number |
| **Hint panel** `frontend/src/App.jsx` | attempts, hint history, the hint on offer, status, dot | submit, run, open, retry, change problem | answers arrive in any order, after the student has left the problem | what the panel claims is so, and belongs to the problem on screen |
| **Query engine** `frontend/src/lib/db-manager.js` | one DuckDB connection in a worker, its open transaction | `initialize`, `executeReadOnly` | three callers share the connection; a timeout gives up on the caller's side only; queries that never end | nothing a student runs stays or shows elsewhere; nobody hangs |
| **Session** `frontend/src/App.jsx`, `lib/api.js`, `lib/auth-api.js`; `backend/app/middleware/auth.py` | token, `user`, `userData`, idle timer; the backend's tokens and accounts | login, logout, restore, idle logout, any call answered 401 | three copies of one fact, written by callbacks of different sessions | the copies agree; a session ends only for its own reason |
| **Verifier** `frontend/src/lib/verifier.js` | none | `verify`, `compareResults`, normalisation | rounding, row order, duplicates, comments inside literals | two results compare equal exactly when they should |
| **Workspace** `frontend/src/App.jsx`, `components/RightPanel.jsx`, `CourseText.jsx`, `StepIndicator.jsx` | statuses, submissions, steps, drafts and lesson lists in `localStorage`, and each tab's React copies | submit, step change, entering a place, switching course tabs, marking a lesson, reload | two tabs; keys computed from a stored place when they are needed; effects that run with the former render's values; timers that fire on another page | an attempt lies under the problem it answers; no attempt, score or completed lesson is lost |
| **Teaching console** `components/InstructorDashboard.jsx`, `lib/instructor-store.js` | three lists and the exam schedule in `localStorage`, and each console's copies | add, edit, delete, save or clear the schedule | two consoles with open editors; `storage` events on their way | an edit overwrites nothing it did not edit |
| **Exam gate** `components/RightPanel.jsx`, `LeftPanel.jsx`, `lib/instructor-store.js` | the start of the exam, the gate's and the bar's state | start, the two interval timers, submit | the gate is a second old when a submit is made; the schedule changes under it | no submission begins outside the exam's window |
| **Roster** `components/InstructorDashboard.jsx`, `backend/app/api/dashboard.py` | the loaded class | load, retry, open a student or module | loads overlap; the console's bank is not the students' | every figure tells the log |
| **Login throttle** `backend/app/services/rate_limiter.py`, `api/auth.py` | a window of hits per address and per name | `hit`, `reset` | two keys for one attempt; the edge of the window | at most 5 attempts in 60 s; a refused one is not counted |
| **Accounts** `backend/app/services/auth_service.py`, `api/admin.py`, `seed.py` | `users` | register, login, Google login, roles, deactivation | look up, then insert | one account per name; roles rise only through staff |
| **Catalog** `backend/app/api/courses.py`, `problems.py`, `admin.py` | courses, modules, lessons, problems, enrollments, assignments | create, update, delete, enroll, assign | deletion of a parent, check then insert, what Postgres enforces and SQLite does not | a delete loses only what it names, one enrollment per student and course, one list per assignment, TA roles that agree |
| **Dashboard** `backend/app/api/dashboard.py` | none | read-only queries | | |
| **Scripts** `backend/scripts/`, `scripts/` | two databases | `reset_attempts` | dies between the two commits | both wiped or neither |
| **Pages** the other components of `frontend/src` | forms | | | layout |

How they interact. A Submit runs the golden and the student's query through the
**query engine**, compares them in the **verifier**, stores status and submission
in the **workspace**, and reports the attempt, with the **session**'s token, to
the **attempt log**: `/hint-request` when a hint may be wanted, `/log` when not.
Whether Submit is offered at all is the **exam gate**'s, which reads what the
**teaching console** saved. The answer, or its absence, changes the **hint panel**, from which the student
retries the report or fetches the hint; both go back to the **attempt log**,
which asks the tutor. The rows of the attempt log feed the console's **roster**. The
throttle stands before the accounts' logins.

## 2. The modules and the code

| Module | Models | State | One action is |
|---|---|---|---|
| `AttemptLog` | the three writing handlers, their transactions, the tutor | `req`, `fetch`: locals and program counter of each handler; `logs`, `hintReqs`, `lastId`: what is committed; `graded`, `hinted`: the tutor | the code between two `await`s |
| `AttemptLedger` | what the log promises: a ledger whose rows are added and filled in | `ruling`, `rows`, `offered` | a promise kept: rule, log, settle, show |
| `HintPanel` | the panel's state in `App.jsx` and the operations in flight | `view`: what a problem change resets; `hintRequestId`, `lastAttempt`; `call` | a handler up to its first `await`, or one answer's continuation |
| `QueryEngine` | `db-manager.js`, its callers, the worker and DuckDB's transaction | `pc`, `answer`, `result`, `outcome` of each job; `queue`, `replies`; `txn`, `persisted` | a statement executed by the worker, an answer handled by the page, a timeout |
| `Session` | the tab's session and the backend's tokens | `token`, `user`, `userData`, `timer`, `loading`; `call`; `issued`, `expired`, `inactive` | a user's act, a timer, a request served, an answer handled |
| `Catalog` | the handlers that create, list, delete, enroll and appoint TAs, SQLAlchemy's treatment of collections, the constraints and locks of the two databases | `postgres`, `rows`, `lastId`, `role`; `req`: what each handler has read | a handler's reads, or its commit |
| `Workspace` | one student's `localStorage` and the tabs that work on it | `where`, `activeTab`, `statuses`, `subs`, `saved`, `drafts`, `lessons`: one variable per kind of key; `tab`: each tab's React state; `bank` | an event handler with its effects, a render's effects, a timer |
| `Teaching` | two kinds of stored value with the consoles that edit them, and the clocks of an exam that read one | `items`, `config`, `con`, `pending`; `now`, `started`, `gate`, `bar` | a click, a `storage` event, a timer's callback |
| `Verifier`, `Roster` | pure operators: comparison and normalisation; the roster's figures | none | |
| `Grading` | attempts from their verdict to the console's figures | `log`, `custom`, `inClass`, `class`, `load`, `openId`, `openCat` | an attempt, a ruling, a load's step, a click |
| `...Proofs` | theorems about the module named | | |
| `MC...` | instances for TLC | | |

`Grading` composes `Verifier` and `Roster` with the log; `AttemptLog` implements
`AttemptLedger`. The other modules share only what passes between them as input
(a verdict, an answered 401, a schedule), which each takes in every possible order.

Correspondence worth knowing before reading:

* **AttemptLog.** `Report` and `Retry` are what the browser sends (`Route` decides
  the endpoint as `App.jsx` 401-480 does). `GradeAnswered` and `GradeUnanswered`
  end the wait for the tutor; `LookUp`, `Count`, `Insert`, `CommitLog` follow
  `request_hint` and `log_submission` through their database calls. A row is
  indexed by the request that inserted it, and other sessions see it only from the
  COMMIT on. A Retry goes out under the problem on screen, which need not be the
  attempt's: an attempt rejected after the student has moved on becomes the last one
  and turns the panel on there (`App.jsx` 405-409, 433, 538-543). The row keeps the
  place it was first filed under, the hint request names the problem of the Retry, and
  the tutor replays its first ruling. That an attempt was an EXAM's stops no
  Retry; it takes a second tab that changes the mode under this one.
  `RequestFails` may strike before the COMMIT: the process dies, the
  database refuses, `get_db` rolls back. `Stored` is SQLAlchemy's update of the
  changed columns only, which is why a stale copy of a row is mostly harmless.
  The idempotency key (`SubmissionKey`) has the student's own attempt number
  for clients that send no attempt id; `VerdictIsTutors` and its like speak
  of current clients (`AllCurrent`), as the code's comment (69-72) does.
* **HintPanel.** A call remembers the problem of the closure that made it; its
  answer writes the state of the problem on screen. The history variables `left`
  and `hurried` record only habits of the student (leaving a problem, or acting
  again, with a call in flight), to say when the stronger properties hold.
* **QueryEngine.** A job posts BEGIN, its query and ROLLBACK one at a time, each
  when the answer to the one before is handled. What is posted between BEGIN and
  ROLLBACK is a text, a sequence of statements that the worker executes up to the first
  that fails (`at` counts them). A statement is abstracted to what it does to the
  engine: it reads, writes, fails, never ends, or begins or ends a transaction, as
  a student may well write `DELETE ...; COMMIT`. Each actual golden query reads. A right
  statement may fail once the dataset has changed (`Changed`). `saw`
  is the set of jobs whose changes were in the data that a job's rows came from.
  DuckDB is external: its transaction rules are the definitions marked so.
* **Session.** `LoginAnswered` covers login and register. The continuation of a
  login is one action, although a microtask separates `setToken` from `setUser`.
  A call whose answer is lost ends by `ApiFails` or `MeFails`, whatever the
  backend decided.

* **Catalog.** Which database serves is chosen in `Init`: the deployed Postgres,
  or the SQLite file of `config.py`, which checks no foreign key and reuses the
  largest id once it is free. A handler is split where what it read can be stale
  by its commit. `RefuseDelete` and `CommitDelete` are one pattern for seven
  handlers: SQLAlchemy sets the foreign keys of the children it has *loaded* to
  NULL before its DELETE, which their columns refuse; children it does not know of
  (a course's assignments, the lists a problem is on: `Overlooked`) are the database's
  to take. `Descendants` is all that hangs on a row, by whichever foreign key. `Lock` is autoflush: an UPDATE sent ahead of a
  select holds its row (in SQLite, the file) to the commit; that, and nothing
  in the handler, keeps two updates of an assignment apart, and only when both
  change a field. SQLite's five-second limit on waiting for the file is left out:
  a request that exceeds it writes nothing.
* **Workspace.** A *place* is a mode and a module. What `App.jsx` reads from
  `workspaceMode` and `workspaceModule` whenever it needs a key is `AppPlace`, what
  `RightPanel` reads, with another default, is `EditorPlace`; a tab's own `at`
  is the place whose problems are on screen. The two differ after another tab,
  or a timer, has moved the keys. `Enter` is a page change up to React's first
  render with its effects, `SettleWorkspace` and `SettleLessons` the render that
  mends what the effects did with the former values; between them other tabs can
  run, and a reload can strike (`due`). `Submit`, `Land`, `LandError` and
  `VerdictTimer` are the click, the verdict's continuation and the overlay's timer.
  What is typed is abstracted to the problem it was typed for. `Publish` and
  `Withdraw` are an instructor's changes of the problem list.
* **Teaching.** Problems, announcements and content are saved and deleted by the
  same code on three keys; one list stands for them. A `storage` event reaches a
  console later (`Deliver`), and refreshes what it shows, not what its open editor
  holds. `Tick` passes a second, `EvaluateGate` and `EvaluateBar` are the callbacks
  of the two timers, which the second's turn may bring in either order; `Submit` reads
  the gate as it was last evaluated. 0 stands for a rule that is not set, as
  the code tests times and limits for truth. The schedule's form shows a limit that
  is not set as 60 minutes and saves it so (`Shown`).
* **Verifier, Roster, Grading.** `Verifier` has the pure operators of `verifier.js`
  beside a reference: a text is a sequence of tokens that ends in a semicolon
  or not, whatever the tokens hold (`EndsInSemicolon`), and two results agree when
  their rows can be paired off position by position (`Deserves`). `IsText` says which
  token sequences are texts: a literal ends at the first quote that is neither doubled nor
  escaped, a comment at the first place it can, and no two tokens open a comment between
  them. `Roster` has the
  figures of Students & Analytics. `Grading` composes them with the attempts, the
  tutor's rulings and the loads of the console: each attempt is graded, logged, served
  by `class_attempts` and counted.

History variables record what no code keeps and no guard reads: `left` and
`hurried` (HintPanel), `crossed` (Session, Grading), `begun` (Grading), `odd`
(Workspace, Teaching), `shut`, `late`, `gone` (Teaching). They say under which
circumstances the stronger properties hold. In `Workspace`, `odd` collects

| Name | What happened |
|---|---|
| `shared` | the workspace was open in two tabs, or entered while another tab's submission was being verified |
| `strayed` | a tab wrote while the stored place was not the one it showed |
| `astray` | a draft was typed where the editor's place was not the one on screen |
| `shifted` | an instructor took a problem away, which renumbers the steps behind it |
| `crossed` | a lesson list was changed while another tab's course page showed it |
| `cut` | a page was closed, or a list read or replaced in another tab, before the render that mends a list |
| `slipped` | the 800 ms timer of a mark fired on a list other than the course's |

## 3. The runs

Runs that pass:

| Run | Instance | Shows |
|---|---|---|
| `races` | 3 requests, 1 fetch; a failed attempt and an EXAM failure of one student, on two problems, each retried under either | `VerdictIsTutors`, `HintRequestOwnsRow`, `NumberWithinCount`, `RowsKept`: no interleaving, retry, death or late ruling makes a row lie or lose what it had, except that after a Retry under another problem the row, its hint request and the ruling may name different ones; `ImplementsLedger`: the log refines the ledger |
| `serial` | 3 requests, 2 fetches, a student whose requests do not overlap | `SerialLogExact`: then retries fill in their row and numbers have no gap; `HintIsOwn` under two fetches; `ReportedIsLogged`: a dead tutor never keeps an attempt from being logged |
| `panel` | 2 operations in flight, 2 attempts, 3 problems, one without a tutor id | `PanelTellsTheTruth` always; `StayingSeesItsOwn`: who stays until calls settle sees that problem's hints, and who waits for each answer is offered the newest attempt's; `RetrySendsLatest`; `CallsEnd`: the panel stops thinking |
| `engine` | 2 jobs, nine texts of one to three statements | `DatasetKept`, `OwnDataOnly`: overlaps, failures and timeouts leave nothing behind and show nothing across, unless a text ends the transaction; `SoloJobsAnswered`: an error, or a job that timed out, does not poison the next job once it has ended, as long as the dataset is unchanged; `EveryJobSettles`: no caller hangs; `TransactionEnds`: what a caller gave up on is still rolled back |
| `session` | 2 users, 2 calls in flight, 3 tokens | `SessionAgrees`: token, user and userData never name two people; `DroppedByOwnAnswer`: a session under a page that shows it is dropped only for its own token's refusal, or after two sessions' calls have crossed |
| `catalog` | 2 requests in flight; Postgres with 7 rows, SQLite with 4; empty or seeded | `KeysUnique`: check-then-insert races end in one row; `OneList`: an assignment mixes two lists only after an update that changed none of its fields, or a delete, ran beside another update; `OnlyLateChildrenLost`: of all that hung on a row when it looked, a delete loses a course's assignments with their lists and a problem's list entries, and nothing else; `TaRolesAgree`: the role and the enrollment of a TA are written together or not at all |
| `workspace` | 2 tabs, modules 01 and 02, 2 steps, 7 problems; 5 moves, 2 submissions, 1 change by an instructor | `FiledWhereGraded`, `StatusIsLatest`, `StepResumed`, `CompletedEarned`: what is stored under a place belongs to it, although keys are computed late and effects run with old values, but for the crossings named above; `NothingLost`: attempts never get lost, an exam's score and completed lessons only in a crossing |
| `teaching` | 2 consoles, ids 1 to 3, 4 seconds, 2 changes; one student in an exam | `EditsKept`, `ConsolesAgree`: copies overwrite nothing they did not edit, and agree once told; `GateHolds`: a submission begins at most in the second after the one in which the exam closed, and bar and gate run out together |
| `grading` | 2 students, 2 loads, 2 attempts; results of up to 3 rows, texts of up to 4 of 11 tokens, a minus and a slash among them | `VerdictRight`: an attempt passes exactly when rows and text deserve it, where no result has two columns of one name; `RosterTellsTheLog`: every figure of the class section counts the same submissions |

Runs that show the code doing otherwise than it says (each a finding):

| Run | The repository says | The code does |
|---|---|---|
| `twice` | `models/submission.py:48` "One row per client-graded attempt" | A Retry that arrives while the report it retries waits for the tutor finds no row, and both insert one. |
| `deletes` | `models/course.py:34` and every child table: `ondelete="CASCADE"`; `courses.py:135` "Delete course." | Deleting anything that has loaded children (a course with a module, a problem with a dataset) ends in an error 500, and nothing is deleted. |
| `aliases` | `verifier.js:7-8` "compared as a positional matrix ... so column aliases / header names never cause false fails or false passes" | Cells are read by column name (`verifier.js:61`): where two columns share one, both positions show the first, and a wrong second column passes. |

Other limits of the code that the models exhibit; the properties are stated with
exactly these cases left out:

* Two requests of one student that count at the same time get equal
  `attempt_number`s (`models/submission.py:79-81`); `NumberWithinCount` is what
  remains, and `SerialLogExact` when they do not overlap.
* Of two hint fetches, the one that is answered "cached" may be the one whose
  source is stored, although the hint was generated for this row
  (`submissions.py:229-231`).
* An answer still in flight when the student leaves a problem sets the hint context
  of the next one (`App.jsx:577-606`), although `App.jsx:349` says that leaving
  "invalidates any hint context for it"; a Retry there sends the former
  problem's attempt (`App.jsx:549-550`, 621); and the older of two attempts' answers,
  arriving last, replaces the newer offer. `StayingSeesItsOwn` is about students who
  stay, and who wait.
* A correct read that overlaps another use of the connection is reported as
  an error: BEGIN fails inside the other's transaction (`db-manager.js:194`).
  `SoloJobsAnswered` is about jobs that do not overlap.
* `DELETE ...; COMMIT;` ends the transaction itself, the ROLLBACK finds none, and the
  dataset is changed until a reload, although `db-manager.js:186-188` has it "ALWAYS
  rolled back, so grading a student's query can never mutate the shared dataset":
  `EndsTxn` in `DatasetKept`. Once a text has changed the dataset for good, right queries meet other tables or
  none: `SoloJobsAnswered` ends there. In overlapping jobs a COMMIT or ROLLBACK in one
  text ends the transaction of the other, whose changes may stay: the exception in
  `DatasetKept` and `OwnDataOnly`. A text that changes data and then reads may fail on
  its own change (`Plain`).
* A 401 clears the token but not `user`: until a reload the page looks logged in
  (`api.js:66`, `App.jsx:43`). A 401 for a call of the former session drops the
  session that has begun since: the exception `crossed` in `DroppedByOwnAnswer`.
* A course is deleted with its assignments and their lists, a problem with its entries
  on lists, without a word; in SQLite they stay, although `models/assignment.py:37`
  says `ondelete="CASCADE"`, and the next course or problem of that id inherits them:
  `Overlooked` in `OnlyLateChildrenLost`.
* A Retry sends the last attempt under the problem on screen (`App.jsx:621`), although
  `App.jsx:549` speaks of the "problem an attempt belongs to": row, hint request and the
  tutor's ruling then name different problems, and where the first report was lost the
  row itself is filed under a problem the attempt was not made on. `Strayed` in
  `HintRequestOwnsRow` and `VerdictIsTutors`.
* Two updates of one assignment that change no field of it leave it with both
  lists: `overlapped` in `OneList`.
* Two tabs with the workspace open overwrite each other's statuses, and a verdict is
  filed under the place that another tab has entered since the click
  (`App.jsx:364`, 417); so is one that arrives after browser back and another entry in
  the same tab. The attempt itself is kept: `AttemptsKept` has no exception.
* A draft typed in a workspace that was never entered through a course page is filed
  under module 02, the editor's default, not the workspace's (`RightPanel.jsx:63`).
* A lesson marked just before a switch of course tabs is completed in the
  other tab's list (`CourseText.jsx:93`): `slipped`.
* A 401 removes `userData`; the exam clock then reads the guest's start, finds none,
  and the limit is gone (`RightPanel.jsx:75`). `GateHolds` excludes it.
* Saving the schedule with the limit left alone sets it to 60 minutes, although
  `InstructorDashboard.jsx:549` says "Leave a field empty to disable that rule."
  `ScheduleKept` names it. The time bar keeps to 60 minutes whatever the schedule
  says, although line 528 has it "Applies live to the student exam workspace";
  `GateHolds` therefore compares bar and gate only without a schedule.
* Two consoles that draw one id in one second, and an editor open on an item that
  is deleted elsewhere, leave two items of one id or put the item back: `clash` and
  `overtaken` in `ConsolesAgree`.
* Overlapping loads of the class may leave the older rows on screen: `crossed` in
  `RosterTellsTheLog`. Custom problems that the console's browser lacks are shown
  without a step; what is checked is the steps of built-in problems.

**Bounds, and why they are enough.** Each bound is a constant of a `.cfg`. In
`AttemptLog` races are between two handlers that share a row or a count; a third
request and a fetch let a retry, its original and another attempt overlap; two
problems give a retry a place to stray to, and an EXAM attempt tests the routing. In `HintPanel` a misplaced answer needs one call
in flight and another that has been made since; the third problem is one that
cannot be reported. In `QueryEngine` a job is disturbed by one that holds the
transaction, before or after its caller gave up; more jobs only wait behind the
two, and what they may see or keep is proved for any number. The nine texts have each
kind of statement, a change before and after the end of a transaction, and a transaction
of the student's own; all other texts are in the proofs. In `Session` two calls
in flight are a late answer and the call that overtakes it; three tokens give a
session before, during and after. In `Catalog` a race is between two requests; one
row of each table, two enrollments and three list entries give each handler a
parent, a rival and a successor. Postgres needs six rows before an assignment has a
problem; in SQLite rows need no parent, so four show every conflict. TLC explores
the states about content and those about people (`Scope` in `MCCatalog`) but not
their product: they share only the course they hang on.

In `Workspace` every misfiling needs a place before and a place after, a step
before and a step after, and a submission that was under way: two modules with labs and
exams of two problems, and two submissions, have them. Five moves bring two tabs to
two places and back; with six (8 million states) all properties were found to
hold as well. An instructor's one change adds or withdraws a problem. In `Teaching`
a behaviour exercises the lists or the exam (`scene`), which share no key. Four
seconds let a student start, run out of a limit and stay on for as long as a late
submission takes, and let a schedule open, shorten or end the exam in between; a fixed
limit of two seconds stands for sixty minutes, and the limits typed are a shorter and a longer one. Three ids let
two be drawn anew beside a stored one. In `Grading` the results are all single
columns of up to three rows and all pairs of columns of up to two, over cells that
differ only in type, in padding, or by a rounding edge: duplicates need
two equal rows, order needs two different ones. Two results that differ by less than the
comparison resolves may pass or fail. Texts of four tokens put each kind of literal and
comment before, between and after code and a semicolon, with doubled and escaped quotes
in the literals; comments and comparisons are proved right for all texts and results (4). Attempts are told apart only by
their verdict and by what they deserve, so that they combine freely with loads.

`MaxAttempts`, `MaxTokens`, `MaxId`, `MaxRows`, `MaxMoves`, `MaxTime` and the like end
behaviours, so deadlock is not checked: a student may also simply stop.
Symmetry is used for interchangeable requests, calls, users, tabs, consoles and
loads, and only in runs without liveness properties.

**Fairness.** `AttemptLog`: the event loop runs every handler that can go on, and
httpx bounds each wait for the tutor (`tutor_client.py` 47-68). Nothing is
assumed of the tutor, of students or of failures. `HintPanel`: each call ends,
by answer or timeout (`api.js` 51-63, `db-manager.js` 174-184). `QueryEngine`:
the worker goes on unless it is at a query that never ends, the page handles
answers, timers fire. The other modules have no fairness: their properties are safety.

## 4. The proofs

TLAPS proves every safety property that a passing run checks, invariants and action
properties alike, and the refinement; for every number of users, attempts,
requests, calls, jobs, queries, rows, results, texts, tabs and consoles, and for every
value of the constants that bound the runs:

* `AttemptLogProofs`: `TypeCorrect`, `HintRequestsOwned`, `VerdictsAreTutors`,
  `HintsAreOwn`, `RowsAreKept`, `NumbersWithinCount`, `SerialLog`,
  `LogImplementsLedger`. The inductive invariant
  `SafeInv` adds to the type invariant what each handler knows between awaits: the
  ruling it holds is the tutor's under its own key, the row it has looked up is a
  committed row of the same attempt, a hint or source that its copy of a row has is
  still on the row; and that a ruling is of the attempt's own problem unless a report of
  the attempt was sent under another (`RulingSafe`).
  The property alone is not inductive, because a COMMIT writes what a handler
  remembered several steps before. `NumbersWithinCount` needs in addition that a
  count once taken only becomes too small, as rows are never removed. `SerialLog` is
  about students whose requests have not overlapped so far: `SerialInv` says that then
  one handler per student is under way, what it has counted is exact, its attempt has no
  row yet if it will insert one, and that row's id will be above all of the student's.
  `LogImplementsLedger`: if all clients send attempt ids,
  every behaviour of the log is one of the ledger. Rows of the log map to rows of
  the ledger, and each step to one ledger action or to a stutter, by `SafeInv`.
* `QueryEngineProofs`: `TypeCorrect`, `DatasetIsKept`, `RowsAreOwn`, `SoloJobsServed`.
  The key of
  `SafeInv` is `TxnSafe`: as long as no text that ends transactions has run beside
  another job, the open transaction belongs to a job whose BEGIN
  the worker has executed and whose ROLLBACK it has not, and holds only that job's
  changes. A BEGIN that fails inside it ends its caller without a
  ROLLBACK, which is why a failing job cannot end another's transaction. A text of the
  student's own that ends the transaction may open another or write without one: `JobSafe`
  then says only that the job runs alone and that what stays is its own (`DataSafe`).
  The type invariant must say that a job has at most one message posted, or a second
  answer could be handled for the first, and where in its text the worker is (`Halfway`).
  `SoloInv` follows the one job that runs where none overlapped: no transaction is open
  when it starts nor when its ROLLBACK has been answered, whatever its text did in
  between, and each of its statements meets a clean transaction and an unchanged dataset
  or is excused (`Excused`). That a job leaves no transaction behind for the next one is
  the part a step alone does not show.
* `CatalogProofs`: `TypeCorrect`, `KeysAreUnique`, `ListsAreWhole`, `LateChildrenOnly`,
  `TaRolesTrue`. A keyed row enters only through the database's
  check (`Accepted`), and what assign_ta and remove_ta rewrite is no part of a key.
  `TypeInv` adds to types what the database knows of ids: no two rows of a kind share
  one and, in Postgres, the sequences are past them all. The other three rest on what a
  request remembers while others write. `ListInv` (assignments nobody overlapped on): one
  request at most works on an assignment, an update has seen every entry of its list,
  and an entry's assignment is there, or an id reused by SQLite would inherit a list.
  `LateInv`: a delete whose children were not loaded found nothing on its row but what it
  overlooks, since a chain of foreign keys to anything else begins at a child that is
  loaded (`DescendantsOverlooked`).
  `TaInv`: the role and the enrollment that assign_ta has read are still the user's,
  unless an admin's change or a lost enrollment is on record; for the enrollment's id it
  needs that an id in use is not given out again, for another reason in each database
  (`Used`).
* `HintPanelProofs`: `TypeCorrect`, `PanelIsTrue`, `OwnIsSeen`, `RetryIsLatest`. An
  answer writes what its call remembers into whatever view is on screen. The
  invariant therefore says what each call in flight may bring: an attempt that was made
  (`RefInv`); made on the problem on screen, as long as the student has not left one
  with a call in flight (`StayInv`); and, as long as the student has waited for answers,
  by the only attempt under way and not older than any rejected one (`WaitInv`). The last
  attempt made is the one to retry, which is all that `RetrySendsLatest` needs.
* `SessionProofs`: `TypeCorrect`, `RecordsAgree`, `DroppedByOwn`. `SessionAgrees` says
  nothing of the time in which a session is being restored; the invariant adds that then
  nobody is shown logged in and no call but the restoring one is in flight, with the
  token that is stored (`RestoreInv`). `AnswerInv` says what answers carry: a granted
  login its own user's token, a refused call the tab's own token, unless sessions crossed.
* `TeachingProofs`: `TypeCorrect`, `AgreementHolds`, `EditsAreKept`, `ExamGateHolds`.
  `ConsolesAgree` is not inductive: an editor still open on a deleted item would bring
  it back unnoticed. `TeachInv` adds that such a crossing is noted, and that an open
  schedule differs in one rule from what its editor was opened on. The lists are edited
  by `filter` and `map`, which the community modules fold; lemmas say what these do to a
  list, by induction on its length. `ExamGateHolds`
  speaks of the submission made
  longest after the exam closed, so the invariant follows the gate: while userData is
  there, an open gate lags behind the rules by one second at most, or by two
  while its timer's turn of this second is still to come; and a clock that has had
  its turn shows what the rules say. `shut` counts from the moment at which the rules,
  as they now are, shut the exam, since a schedule saved in mid-exam may open it
  again or close it at once.
* `WorkspaceProofs`: `TypeCorrect`, `FiledRight`, `StepsResumed`, `StatusLatest`,
  `NothingIsLost`, `LabsEarned`. Seven invariants, each proved with those before it:
  `TypeInv` bounds every list by `MaxSteps`, gives a tab with work a place, and ties
  pending effects and marks to the page they belong to. `FileInv` says that a list on
  screen is a beginning of its place's list (an instructor may have added to
  it), and that a submission under way is for a problem of the place it came
  from. `StepInv`: without a second workspace one tab is busy, and it is on the step
  that its place remembers, but for the moment between two renders. `StatusInv`: stored
  statuses agree with the latest attempts, the tab's copy is what is stored, and a
  submission in an exam is never for a passed problem, which is what keeps a score from
  falling. `LessonInv`: a course page at rest shows all that is stored of its list, and
  one tab at a time has a list to mend. `PassInv`: a status that says passed, stored or
  in a tab's copy, has a right attempt behind it. `PaidInv`: a lab on any page as
  completed has as many problems solved as it has now, less those an instructor has
  added. One lemma per action
  says what becomes of the
  tab it is about, so that the proofs of the invariants never expand an action.
* `GradingProofs`: `VerdictsAreRight`, `TheRosterTellsTheLog`. Most of it is about the
  pure operators, for all results and texts.
  *Cells*: two cells that are one value have one key, and two cells of one key differ by
  a millionth at most.
  *Rows*: `MultisetMatch` compares how often each key occurs; where all counts agree the
  rows can be paired off, by a bijection between the places of each key (`MatchPairs`),
  and conversely.
  *Texts*: after each token of a text the scanner of `stripSqlComments` is back in code,
  or about to take the first quote of the next literal for the second of a doubled one
  (`Between`: two literals that touch), and what it has kept so far ends in a
  semicolon exactly if the last of the tokens seen that is neither blank nor comment is
  one (`Told`). One lemma per kind of token, one induction over the tokens.
  *Figures*: a sum over a function is the sum over the parts of its domain, so that modules,
  students and categories count the same submissions (`GroupsAddUp`); `toSubmissions`
  keeps the submits of the log in their order, one for one.
  The invariant `GradeInv` then has little to do: `TypeInv` (every attempt in the log has
  the verdict it deserves), `ServedInv` (what a load carries and what the class was made
  of is no longer than the log, and agrees with it wherever it has a ruling) and `AloneInv`
  (unless loads crossed, one load at a time, and none older than its begin).

Recursion is written as recursive functions, whose values the provers do not know.
Where a proof needs them it shows that such a function exists, and then its
equation at each place, both by the least number at which it would fail (`Least`).

Assumptions are those the modules declare: `None` differs from every value (in
`Catalog` also from what a request locks, a pair of a kind and an id),
`Request` and `Students` are finite (numbers are cardinalities), lists have at most
`MaxSteps` problems to start with, the constants are of their type. `Grading` takes
results to be what `executeReadOnly` returns (`IsResult`), texts to be made of tokens
(`IsText`), the bank to be a list, and custom problems to have ids of their own, as the
console gives them. Each is evaluated by TLC in a run.

## 5. What is only model-checked

* Liveness: `ReportedIsLogged`, `CallsEnd`, `EveryJobSettles`, `TransactionEnds`. The
  prover has no rules for fairness and ENABLED.
* The three runs that expect a violation: TLC's counterexample is the result.

## 6. Not modelled

* **Login throttle**: a sliding window in the memory of one process, a dozen lines
  that unit tests with a fake clock reach. **Accounts**: find-or-create behind a
  unique index, the pattern that `Catalog` checks for courses and enrollments;
  their tokens and deactivation are in `Session`.
* **Startup, seed and scripts** run once, by hand or before the first request.
  `reset_attempts` wipes two databases one after the other and may die in between.
* **Read-only listings and most of the dashboard**: no state of their own; the one
  query that the live frontend shows figures of, `class_attempts`, is in `Grading`.
* **The PUT handlers** of courses and problems overwrite fields that no other row
  depends on; who may call which handler is left out throughout.
* **The legacy `submissions` rows**, which hang on a problem too: nothing writes any
  more of them.
* **What problems say**, layout, markdown and result tables, audit lines, pages
  that no route reaches, and the functions that nothing calls (`setupProblem` and
  `close` of `db-manager.js`, `compareData` and `extractMetadata` of `verifier.js`).
* **Whitespace inside literals** (`verifier.js` 125-129): both queries are run with it
  collapsed, which can change their rows; here rows are an input of the comparison.
  Texts with an unended literal or block comment are not judged (`IsText`). A backslash
  in a literal escapes the next character, in the code as in the reference; standard SQL
  would have it otherwise.
* **Another user of one browser** in `Workspace`: all keys but the drafts' have the
  user in them. A report sent after another user logged in during a verification is
  listed as a hazard that no module covers.
