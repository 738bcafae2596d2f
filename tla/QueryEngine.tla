---------------------------- MODULE QueryEngine ----------------------------
(***************************************************************************)
(* The query engine of the page (frontend/src/lib/db-manager.js): one      *)
(* DuckDB connection in a worker, shared by everything that runs a query.  *)
(*                                                                         *)
(* A job is one use of the engine: a Submit (lib/verifier.js runs the      *)
(* golden query, then the student's), a Run, or the sample rows of a table *)
(* (components/LeftPanel.jsx).  A job's queries go through executeReadOnly: *)
(* BEGIN, the query, ROLLBACK, each posted when the answer to the one      *)
(* before is handled.  The worker executes what is posted in order; its    *)
(* answers are handled in order.  A timeout rejects the caller and leaves  *)
(* the exchange with the worker going on.                                  *)
(*                                                                         *)
(* A text may hold several statements: verifier.js:125-129 and App.jsx:522 *)
(* cut trailing semicolons only, and conn.query executes the whole text,   *)
(* one statement after the other, up to the first that fails.              *)
(***************************************************************************)
EXTENDS Integers, Sequences, FiniteSets

CONSTANTS
  Job,   \* uses of the engine
  Sql,   \* texts a student may write: the statements of each
  None

StatementKind ==
  {"read",      \* answers with rows
   "write",     \* DML or DDL: answers with rows and changes data
   "bad",       \* fails: an unknown table; a syntax error fails as a text <<"bad">>
   "endless",   \* runs for as long as it likes
   "begin", "commit", "rollback"}

\* The golden query, and that of the sample rows.
ReadText == <<"read">>

Text == Sql \cup {ReadText}

ASSUME QueryEngineAssumption ==
  /\ Sql \subseteq Seq(StatementKind) \ {<<>>}
  /\ None \notin Job /\ None \notin [kind : {"submit", "run", "sample"}, sql : Text]
  /\ None \notin [owner : Job, writes : SUBSET Job, aborted : BOOLEAN]
  /\ None \notin {"rows", "error", "timeout"}

VARIABLES
  boot,       \* initialize: "starting", "loading", then "ready" or "broken"
  conn,       \* whether the connection is open
  use,        \* what each job is, or None
  part,       \* whether a job is at its "golden" or its "own" query
  pc,         \* what a job waits for the answer to: BEGIN, its text or ROLLBACK
  at,         \* how many statements of that text the worker has executed
  answer,     \* the worker's answer, once there is one
  result,     \* of executeReadOnly's query, while ROLLBACK is awaited
  outcome,    \* what the job's caller got
  saw,        \* the jobs whose changes the data of its rows included
  mounted,    \* the jobs that the editor on screen waits for
  queue,      \* jobs with BEGIN, a text or ROLLBACK posted to the worker
  replies,    \* jobs with an answer posted back
  txn,        \* the open transaction, or None
  persisted,  \* jobs whose changes are in the dataset for good
  overlapped  \* history: has a job started before another's run had ended?

page == <<boot, conn>>
caller == <<use, part, outcome, mounted, overlapped>>
engine == <<txn, persisted>>

vars == <<boot, conn, use, part, pc, at, answer, result, outcome, saw, mounted,
          queue, replies, txn, persisted, overlapped>>

Transaction == [owner : Job, writes : SUBSET Job, aborted : BOOLEAN]

Init ==
  /\ boot = "starting" /\ conn = FALSE
  /\ use = [j \in Job |-> None]
  /\ part = [j \in Job |-> "own"]
  /\ pc = [j \in Job |-> "idle"]
  /\ at = [j \in Job |-> 0]
  /\ answer = [j \in Job |-> None]
  /\ result = [j \in Job |-> None]
  /\ outcome = [j \in Job |-> None]
  /\ saw = [j \in Job |-> {}]
  /\ mounted = {}
  /\ queue = <<>> /\ replies = <<>>
  /\ txn = None /\ persisted = {}
  /\ overlapped = FALSE

-----------------------------------------------------------------------------
(* initialize.  The page shows nothing but a spinner until it has ended.   *)

Connect ==
  /\ boot = "starting"
  /\ boot' = "loading" /\ conn' = TRUE
  /\ UNCHANGED <<caller, engine, pc, at, answer, result, saw, queue, replies>>

LoadDatabase ==
  /\ boot = "loading"
  /\ boot' = "ready" /\ UNCHANGED conn
  /\ UNCHANGED <<caller, engine, pc, at, answer, result, saw, queue, replies>>

BootFails ==
  /\ boot \in {"starting", "loading"}
  /\ boot' = "broken" /\ UNCHANGED conn
  /\ UNCHANGED <<caller, engine, pc, at, answer, result, saw, queue, replies>>

-----------------------------------------------------------------------------
(* Starting a job.                                                         *)

Running(j) == pc[j] \in {"begin", "query", "rollback"}

Waiting(j) == use[j] # None /\ outcome[j] = None

Covered == \E j \in Job : Waiting(j) /\ use[j].kind = "submit"

Busy == \E j \in mounted : Waiting(j)

Post(j, statement) ==
  /\ pc' = [pc EXCEPT ![j] = statement]
  /\ queue' = Append(queue, j)

Start(j, kind, sql) ==
  /\ use[j] = None
  /\ use' = [use EXCEPT ![j] = [kind |-> kind, sql |-> sql]]
  /\ part' = [part EXCEPT ![j] = IF kind = "submit" THEN "golden" ELSE "own"]
  /\ overlapped' = (overlapped \/ \E i \in Job : Running(i))
  /\ UNCHANGED <<page, engine, at, answer, result, saw, replies>>

Submit(j, sql) ==
  /\ boot = "ready" /\ ~Busy /\ ~Covered
  /\ Start(j, "submit", sql)
  /\ Post(j, "begin")
  /\ mounted' = mounted \cup {j}
  /\ UNCHANGED outcome

Run(j, sql) ==
  /\ boot = "ready" /\ ~Busy /\ ~Covered
  /\ Start(j, "run", sql)
  /\ Post(j, "begin")
  /\ mounted' = mounted \cup {j}
  /\ UNCHANGED outcome

\* Mutant: the rows are read without a transaction.
Sample_Bare(j) ==
  /\ boot = "ready"
  /\ Start(j, "sample", ReadText)
  /\ Post(j, "query") /\ UNCHANGED <<outcome, mounted>>

\* A schema card opens.  It does so even when the database failed to load.
Sample(j) ==
  /\ boot \in {"ready", "broken"}
  /\ Start(j, "sample", ReadText)
  /\ UNCHANGED mounted
  /\ IF conn
       THEN Post(j, "begin") /\ UNCHANGED outcome
       ELSE /\ outcome' = [outcome EXCEPT ![j] = "error"]
            /\ UNCHANGED <<pc, queue>>

\* The editor goes off screen and comes back: its buttons wait for nothing.
Remount ==
  /\ Busy /\ ~Covered
  /\ mounted' = {}
  /\ UNCHANGED <<page, use, part, outcome, overlapped, engine,
                 pc, at, answer, result, saw, queue, replies>>

-----------------------------------------------------------------------------
(* The worker.                                                             *)

\* The text posted for job j at its query.
TextOf(j) == IF part[j] = "own" THEN use[j].sql ELSE ReadText

\* The statement of job j that the worker executes next.
Statement(j) == IF pc[j] = "query" THEN TextOf(j)[at[j] + 1] ELSE pc[j]

Last(j) == pc[j] = "query" => at[j] + 1 = Len(TextOf(j))

Aborted == txn # None /\ txn.aborted

Uncommitted == IF txn = None THEN {} ELSE txn.writes

\* The worker is at what was posted first, for job j, and answers a.
Answers(j, a) ==
  /\ queue # <<>> /\ j = Head(queue)
  /\ queue' = Tail(queue)
  /\ at' = [at EXCEPT ![j] = 0]
  /\ answer' = [answer EXCEPT ![j] = a]
  /\ replies' = Append(replies, j)
  /\ UNCHANGED <<page, caller, pc, result>>

\* It goes on to the next statement of the text.
GoesOn(j) ==
  /\ queue # <<>> /\ j = Head(queue)
  /\ at' = [at EXCEPT ![j] = @ + 1]
  /\ UNCHANGED <<page, caller, pc, result, answer, queue, replies>>

\* A statement succeeds; one that fails ends its text.
Succeeds(j) == IF Last(j) THEN Answers(j, "rows") ELSE GoesOn(j)

Fails(j) == Answers(j, "error")

\* An error leaves the open transaction as it is or aborts it.
MayAbort ==
  \/ UNCHANGED txn
  \/ txn # None /\ txn' = [txn EXCEPT !.aborted = TRUE]

\* BEGIN of executeReadOnly, or a student's own.
Begins(j) ==
  /\ Statement(j) = "begin"
  /\ \/ /\ txn = None
        /\ txn' = [owner |-> j, writes |-> {}, aborted |-> FALSE]
        /\ Succeeds(j)
     \/ txn # None /\ MayAbort /\ Fails(j)
  /\ UNCHANGED <<persisted, saw>>

\* A statement that is right for the dataset as it came may fail on a dataset
\* that was not loaded in full, or that statements before it have changed.
Changed == boot = "broken" \/ persisted \cup Uncommitted # {}

\* Rows are read from the dataset and the open transaction.
Reads(j) ==
  /\ Statement(j) = "read" \/ Statement(j) = "endless"
  /\ \/ /\ ~Aborted
        /\ saw' = [saw EXCEPT ![j] = @ \cup persisted \cup Uncommitted]
        /\ Succeeds(j)
        /\ UNCHANGED txn
     \/ /\ Aborted \/ Changed \/ Statement(j) = "endless"
        /\ MayAbort /\ Fails(j)
        /\ UNCHANGED saw
  /\ UNCHANGED persisted

\* Without a transaction a change is committed at once.
Writes(j) ==
  /\ Statement(j) = "write"
  /\ \/ /\ ~Aborted
        /\ Succeeds(j)
        /\ saw' = [saw EXCEPT ![j] = @ \cup persisted \cup Uncommitted]
        /\ IF txn = None
             THEN persisted' = persisted \cup {j} /\ UNCHANGED txn
             ELSE /\ txn' = [txn EXCEPT !.writes = @ \cup {j}]
                  /\ UNCHANGED persisted
     \/ /\ Aborted \/ Changed
        /\ MayAbort /\ Fails(j)
        /\ UNCHANGED <<persisted, saw>>

Rejects(j) ==
  /\ Statement(j) = "bad"
  /\ MayAbort /\ Fails(j)
  /\ UNCHANGED <<persisted, saw>>

Commits(j) ==
  /\ Statement(j) = "commit"
  /\ txn' = None
  /\ persisted' = IF Aborted THEN persisted ELSE persisted \cup Uncommitted
  /\ IF txn = None \/ Aborted THEN Fails(j) ELSE Succeeds(j)
  /\ UNCHANGED saw

\* ROLLBACK of executeReadOnly, or a student's own.
RollsBack(j) ==
  /\ Statement(j) = "rollback"
  /\ txn' = None
  /\ IF txn = None THEN Fails(j) ELSE Succeeds(j)
  /\ UNCHANGED <<persisted, saw>>

WorkerStep(j) ==
  Begins(j) \/ Reads(j) \/ Writes(j) \/ Rejects(j) \/ Commits(j) \/ RollsBack(j)

-----------------------------------------------------------------------------
(* executeReadOnly and its callers.                                        *)

\* The page takes the answer for job j.
Takes(j) ==
  /\ replies # <<>> /\ j = Head(replies)
  /\ replies' = Tail(replies)
  /\ answer' = [answer EXCEPT ![j] = None]

\* executeReadOnly ends; its caller is told unless it gave up waiting.
Settle(j, r) ==
  /\ pc' = [pc EXCEPT ![j] = "done"]
  /\ outcome' = [outcome EXCEPT ![j] = IF @ = None THEN r ELSE @]

\* Mutant: the query is run whatever BEGIN answered.
BeginAnswered_Ignored(j) ==
  /\ pc[j] = "begin" /\ Takes(j)
  /\ Post(j, "query")
  /\ UNCHANGED <<page, caller, engine, at, result, saw>>

\* A BEGIN that failed leaves executeReadOnly at once, without a ROLLBACK.
BeginAnswered(j) ==
  /\ pc[j] = "begin" /\ Takes(j)
  /\ IF answer[j] = "rows"
       THEN Post(j, "query") /\ UNCHANGED outcome
       ELSE Settle(j, "error") /\ UNCHANGED queue
  /\ UNCHANGED <<page, use, part, mounted, overlapped, engine, at, result, saw>>

\* Mutant: ROLLBACK follows a query that succeeded, not one that failed.
QueryAnswered_NoFinally(j) ==
  /\ pc[j] = "query" /\ Takes(j)
  /\ IF answer[j] = "rows"
       THEN Post(j, "rollback") /\ UNCHANGED outcome
       ELSE Settle(j, "error") /\ UNCHANGED queue
  /\ result' = [result EXCEPT ![j] = answer[j]]
  /\ UNCHANGED <<page, use, part, mounted, overlapped, engine, at, saw>>

QueryAnswered(j) ==
  /\ pc[j] = "query" /\ Takes(j)
  /\ Post(j, "rollback")
  /\ result' = [result EXCEPT ![j] = answer[j]]
  /\ UNCHANGED <<page, caller, engine, at, saw>>

\* Whatever ROLLBACK answered.  A Submit goes on from the golden query to its
\* own unless it was told of an error or a timeout.
RollbackAnswered(j) ==
  /\ pc[j] = "rollback" /\ Takes(j)
  /\ result' = [result EXCEPT ![j] = None]
  /\ IF part[j] = "golden" /\ result[j] = "rows" /\ outcome[j] = None
       THEN /\ part' = [part EXCEPT ![j] = "own"]
            /\ saw' = [saw EXCEPT ![j] = {}]
            /\ Post(j, "begin")
            /\ UNCHANGED outcome
       ELSE /\ Settle(j, result[j])
            /\ UNCHANGED <<part, queue, saw>>
  /\ UNCHANGED <<page, use, mounted, overlapped, engine, at>>

PageStep(j) == BeginAnswered(j) \/ QueryAnswered(j) \/ RollbackAnswered(j)

\* Mutants: the caller that gave up rolls back itself; only Runs are timed.
Timeout_RollsBack(j) ==
  /\ Waiting(j) /\ Running(j)
  /\ outcome' = [outcome EXCEPT ![j] = "timeout"]
  /\ Post(j, "rollback")
  /\ UNCHANGED <<page, use, part, mounted, overlapped, engine, at, answer, result, saw, replies>>

Timeout_RunsOnly(j) ==
  /\ Waiting(j) /\ Running(j) /\ part[j] = "own"
  /\ outcome' = [outcome EXCEPT ![j] = "timeout"]
  /\ UNCHANGED <<page, use, part, mounted, overlapped, engine,
                 pc, at, answer, result, saw, queue, replies>>

\* 8 s have passed since executeReadOnly was called.
Timeout(j) ==
  /\ Waiting(j) /\ Running(j)
  /\ outcome' = [outcome EXCEPT ![j] = "timeout"]
  /\ UNCHANGED <<page, use, part, mounted, overlapped, engine,
                 pc, at, answer, result, saw, queue, replies>>

-----------------------------------------------------------------------------
Next ==
  \/ Connect \/ LoadDatabase \/ BootFails \/ Remount
  \/ \E j \in Job, sql \in Sql : Submit(j, sql) \/ Run(j, sql)
  \/ \E j \in Job : Sample(j) \/ WorkerStep(j) \/ PageStep(j) \/ Timeout(j)

Spec == Init /\ [][Next]_vars

\* The worker is at a statement that runs for as long as it likes.
Stuck == queue # <<>> /\ Statement(Head(queue)) = "endless"

\* The worker and the page's event loop go on, and timers fire; a statement that
\* runs for as long as it likes need never end.
FairSpec ==
  /\ Spec
  /\ WF_vars(\E j \in Job : ~Stuck /\ WorkerStep(j))
  /\ WF_vars(\E j \in Job : PageStep(j))
  /\ \A j \in Job : WF_vars(Timeout(j))

-----------------------------------------------------------------------------
(* Properties.                                                             *)

TypeOK ==
  /\ boot \in {"starting", "loading", "ready", "broken"} /\ conn \in BOOLEAN
  /\ use \in [Job -> [kind : {"submit", "run", "sample"}, sql : Text] \cup {None}]
  /\ part \in [Job -> {"golden", "own"}]
  /\ pc \in [Job -> {"idle", "begin", "query", "rollback", "done"}]
  /\ at \in [Job -> Nat]
  /\ answer \in [Job -> {"rows", "error", None}]
  /\ result \in [Job -> {"rows", "error", None}]
  /\ outcome \in [Job -> {"rows", "error", "timeout", None}]
  /\ saw \in [Job -> SUBSET Job]
  /\ mounted \subseteq Job
  /\ queue \in Seq(Job) /\ replies \in Seq(Job)
  /\ \A i, k \in 1 .. Len(queue) : queue[i] = queue[k] => i = k
  /\ txn \in Transaction \cup {None}
  /\ persisted \subseteq Job
  /\ overlapped \in BOOLEAN

Statements(text) == {text[i] : i \in 1 .. Len(text)}

\* The job's text ends the transaction it is run in.
EndsTxn(j) == Statements(use[j].sql) \cap {"commit", "rollback"} # {}

NoneEnds == \A j \in Job : use[j] # None => ~EndsTxn(j)

\* Whatever jobs overlap, fail or time out, a student's change stays in the
\* dataset only if a text ended the transaction: the student's own, or, where
\* jobs overlapped, anyone's (db-manager.js:186-188; verifier.js:137-140).
DatasetKept ==
  \A j \in persisted : EndsTxn(j) \/ (overlapped /\ ~NoneEnds)

\* Rows are computed from the dataset and the job's own changes, never from what
\* another job has changed and not committed, unless texts that end transactions
\* overlapped with other jobs.
OwnDataOnly ==
  NoneEnds \/ ~overlapped => \A j \in Job : saw[j] \subseteq {j} \cup persisted

\* A text of right queries that changes data with its last statement at most.
Plain(text) ==
  \A i \in 1 .. Len(text) : text[i] = "read" \/ (text[i] = "write" /\ i = Len(text))

\* A student's plain text gets its rows, after any errors and timeouts before
\* it, as long as no job starts before the one before it has ended, and no text
\* has changed the dataset for good (db-manager.js:188).
SoloJobsAnswered ==
  ~overlapped /\ boot = "ready" /\ persisted = {} =>
    \A j \in Job : outcome[j] = "error" => ~Plain(use[j].sql)

\* A runaway query cannot hang the page: every caller gets an outcome, its own
\* query stuck or not (db-manager.js:174-184).
EveryJobSettles == \A j \in Job : use[j] # None ~> outcome[j] # None

\* Whoever gave up or failed, an open transaction ends, unless a query never
\* does: the engine is never left inside one (db-manager.js:198-200).
TransactionEnds == txn # None ~> txn = None \/ Stuck
=============================================================================
